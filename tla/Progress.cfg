\* One pod over the table of an older build: the handler, the verification loop and the
\* re-check compete for the table and the file; listings, writes and releases fail.
CONSTANTS
    k1 = k1
    k2 = k2
    p1 = p1
    p2 = p2
    p3 = p3
    o1 = o1
    o2 = o2
    v1 = v1
    v2 = v2
    v3 = v3
    None = None
    Keys = {k1}
    Pods = {p1}
    Owners = {o1}
    VMs = {v1, v2}
    Deadlines = {0}
    MaxNow = 0
    KeyOf <- AtOneKey
    OwnerOf <- TwoOwners
    Endings = {"gone", "expired"}
    Adopters = {}
    BadRuntime = {}
    BadSpec = {}
    LegacyClaims <- OldTable
    ActiveLoops = {"recheck", "verify"}
    Faults = {"list", "release", "write"}
    ForeignDeletes = FALSE
SPECIFICATION FairSpec
PROPERTIES HandlersReturn QuarantineLifts QueueDrains CommittedRowsEnd
\* The system may stop: every pod is gone and every queue empty.
CHECK_DEADLOCK FALSE
