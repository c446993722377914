\* A verification applies its listing to a row settled meanwhile.
CONSTANTS
    k1 = k1
    k2 = k2
    p1 = p1
    p2 = p2
    p3 = p3
    o1 = o1
    o2 = o2
    v1 = v1
    v2 = v2
    v3 = v3
    None = None
    Keys = {k1}
    Pods = {p1}
    Owners = {o1, o2}
    VMs = {v1, v2}
    Deadlines = {0}
    MaxNow = 0
    KeyOf <- AtOneKey
    OwnerOf <- TwoOwners
    Endings = {"gone"}
    Adopters = {}
    BadRuntime = {}
    BadSpec = {}
    LegacyClaims <- NoLegacy
    ActiveLoops = {"verify"}
    Faults = {"crash", "list", "reap"}
    ForeignDeletes = FALSE
SPECIFICATION Spec
INVARIANTS RunningPodIsWatched
\* The system may stop: every pod is gone and every queue empty.
CHECK_DEADLOCK FALSE
