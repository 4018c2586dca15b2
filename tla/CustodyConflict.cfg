SPECIFICATION Custody
CONSTANTS
    o1 = o1
    d1 = d1
    u1 = u1
    Op = {o1}
    Dest = {d1}
    DestOf <- OneDest
    Undo = {u1}
    TargetOf <- OneUndo
    Saver = {}
    Request = {r1}
    Selection <- TheOperation
    MaxUndoOperations = 2
    MaxCleanupOperations = 2
    MaxFaults = 0
    MaxCrashes = 0
INVARIANT
    LastOriginalRemains
CHECK_DEADLOCK FALSE
