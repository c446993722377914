\* One sandbox, two generations of the Node, two starts of the process.
CONSTANTS
    s1 = s1
    Sandboxes = {s1}
    MaxNodes = 2
    MaxStarts = 2
SPECIFICATION Spec
INVARIANTS TypeOK
PROPERTIES NoUnownedOnceSeen NodeTakesInventory NodeOwnsInventory ViewConverges
CHECK_DEADLOCK FALSE
