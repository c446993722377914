\* Restarts with a node that cannot be listed and writes that fail: the handler and the loop
\* verify the same rows, the re-check asks about rows whose pods are not back yet, and
\* deletions come late.  p3, the second pod of the owner, has no usable spec.
CONSTANTS
    k1 = k1
    k2 = k2
    p1 = p1
    p2 = p2
    p3 = p3
    o1 = o1
    o2 = o2
    v1 = v1
    v2 = v2
    v3 = v3
    None = None
    Keys = {k1}
    Pods = {p1, p3}
    Owners = {o1}
    VMs = {v1, v2}
    Deadlines = {0}
    MaxNow = 0
    KeyOf <- AtOneKey
    OwnerOf <- TwoOwners
    Endings = {"gone"}
    Adopters = {}
    BadRuntime = {}
    BadSpec = {p3}
    LegacyClaims <- NoLegacy
    ActiveLoops = {"recheck", "verify"}
    Faults = {"crash", "list", "write", "release", "late"}
    ForeignDeletes = FALSE
SPECIFICATION Spec
SYMMETRY SandboxSymmetry
INVARIANTS NoLiveSandboxForgotten OneSandboxPerKey SparedInv
PROPERTIES RunningIsVouchedFor BoundReleasedForCause
\* The system may stop: every pod is gone and every queue empty.
CHECK_DEADLOCK FALSE
