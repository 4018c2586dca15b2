SPECIFICATION Spec
CONSTANTS
    o1 = o1
    o2 = o2
    o3 = o3
    d1 = d1
    d2 = d2
    d3 = d3
    u1 = u1
    u2 = u2
    u3 = u3
    Op = {o1, o2, o3}
    Dest = {d1, d2, d3}
    DestOf <- SeparateDest
    Undo = {u1, u2, u3}
    TargetOf <- EachOperation
    Saver = {}
    MaxUndoOperations = 2
    MaxFaults = 0
    MaxCrashes = 2
INVARIANTS
    OutcomesHold
    RefusalHasCause
SYMMETRY Alike
