\* One pod, every loop and every fault, over the table of an older build: the invariant the
\* proofs use, and the refinement.
CONSTANTS
    k1 = k1
    k2 = k2
    p1 = p1
    p2 = p2
    p3 = p3
    o1 = o1
    o2 = o2
    v1 = v1
    v2 = v2
    v3 = v3
    None = None
    Keys = {k1}
    Pods = {p1}
    Owners = {o1}
    VMs = {v1, v2}
    Deadlines = {0}
    MaxNow = 0
    KeyOf <- AtOneKey
    OwnerOf <- TwoOwners
    Endings = {"gone"}
    Adopters = {}
    BadRuntime = {}
    BadSpec = {}
    LegacyClaims <- OldTable
    ActiveLoops = {"verify", "lease", "recheck"}
    Faults = {"crash", "list", "write", "claim", "release", "answer", "reap", "late"}
    ForeignDeletes = TRUE
SPECIFICATION Spec
INVARIANTS IInv RunningIsRecoverable
PROPERTIES ImplementsCustody
\* The system may stop: every pod is gone and every queue empty.
CHECK_DEADLOCK FALSE
