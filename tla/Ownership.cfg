\* Three generations of one key: two of an owner, one bare that the owner may adopt;
\* every way an owner may end.
CONSTANTS
    k1 = k1
    k2 = k2
    p1 = p1
    p2 = p2
    p3 = p3
    o1 = o1
    o2 = o2
    v1 = v1
    v2 = v2
    v3 = v3
    None = None
    Keys = {k1}
    Pods = {p1, p2, p3}
    Owners = {o1}
    VMs = {v1, v2, v3}
    Deadlines = {0}
    MaxNow = 0
    KeyOf <- AtOneKey
    OwnerOf <- OwnedAndBare
    Endings = {"gone", "deleting", "expired", "replaced"}
    Adopters = {o1}
    BadRuntime = {}
    BadSpec = {}
    LegacyClaims <- NoLegacy
    ActiveLoops = {"recheck"}
    Faults = {}
    ForeignDeletes = FALSE
SPECIFICATION Spec
SYMMETRY SandboxSymmetry
INVARIANTS NoHandoffAcrossOwners BoundInv OwnersInv OwnInv
PROPERTIES QueuedForCause BoundPodKeepsSandbox
\* The system may stop: every pod is gone and every queue empty.
CHECK_DEADLOCK FALSE
