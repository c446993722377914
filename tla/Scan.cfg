\* Two generations of one key, two of the provider's sandboxes and a stranger's; claim
\* answers get lost and the process crashes.
CONSTANTS
    k1 = k1
    p1 = p1
    p2 = p2
    o1 = o1
    o2 = o2
    v1 = v1
    v2 = v2
    s1 = s1
    None = None
    Keys = {k1}
    Pods = {p1, p2}
    Owners = {o1, o2}
    VMs = {v1, v2}
    Strangers = {s1}
    Unreferenced = {s1}
    Deadlines = {0}
    MaxNow = 0
    KeyOf <- AtOneKey
    OwnerOf <- TwoOwners
    Endings = {}
    Adopters = {}
    BadRuntime = {}
    BadSpec = {}
    LegacyClaims <- NoLegacy
    ActiveLoops = {}
    Faults = {"answer", "crash"}
    ForeignDeletes = FALSE
SPECIFICATION ScanSpec
INVARIANTS OneHolder
PROPERTIES UnboundIsStray FalseAlarmsClear StraysReported
CHECK_DEADLOCK FALSE
