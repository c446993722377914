\* Two generations of one owner and a pod of another runtime, leases that end, are
\* extended or are unknown, and a clock; the handler and the watch settle the same rows;
\* deletes arrive late.
CONSTANTS
    k1 = k1
    k2 = k2
    p1 = p1
    p2 = p2
    p3 = p3
    o1 = o1
    o2 = o2
    v1 = v1
    v2 = v2
    v3 = v3
    None = None
    Keys = {k1}
    Pods = {p1, p2, p3}
    Owners = {o1}
    VMs = {v1, v2}
    Deadlines = {0, 1, 2}
    MaxNow = 2
    KeyOf <- AtOneKey
    OwnerOf <- OwnedAndBare
    Endings = {"gone"}
    Adopters = {}
    BadRuntime = {p2}
    BadSpec = {}
    LegacyClaims <- NoLegacy
    ActiveLoops = {"lease"}
    Faults = {"list", "reap", "late"}
    ForeignDeletes = TRUE
SPECIFICATION Spec
SYMMETRY SandboxSymmetry
INVARIANTS TypeOK FailedOnlyWhenGone FailedPodHoldsNothing TrackedInv
PROPERTIES BoundPodKeepsSandbox DeleteSparesItsOwner
\* The system may stop: every pod is gone and every queue empty.
CHECK_DEADLOCK FALSE
