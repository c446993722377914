\* Two keys, an owned and a bare pod: commits, deletes and the re-check write the
\* state file in every order; writes, claims and releases fail, answers are lost, and the
\* process crashes.
CONSTANTS
    k1 = k1
    k2 = k2
    p1 = p1
    p2 = p2
    p3 = p3
    o1 = o1
    o2 = o2
    v1 = v1
    v2 = v2
    v3 = v3
    None = None
    Keys = {k1, k2}
    Pods = {p1, p2}
    Owners = {o1}
    VMs = {v1, v2}
    Deadlines = {0}
    MaxNow = 0
    KeyOf <- AtTwoKeys
    OwnerOf <- OwnedAndBare
    Endings = {"gone"}
    Adopters = {}
    BadRuntime = {}
    BadSpec = {}
    LegacyClaims <- NoLegacy
    ActiveLoops = {"recheck"}
    Faults = {"crash", "write", "claim", "release", "answer"}
    ForeignDeletes = TRUE
SPECIFICATION Spec
SYMMETRY SandboxSymmetry
INVARIANTS CredentialsDurable RunningIsRecoverable OneHolder NoLiveSandboxForgotten PolledAgreesWithPushed RunningPodIsWatched
\* The system may stop: every pod is gone and every queue empty.
CHECK_DEADLOCK FALSE
