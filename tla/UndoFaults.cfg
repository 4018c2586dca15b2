SPECIFICATION FairSpec
CONSTANTS
    o1 = o1
    o2 = o2
    o3 = o3
    d1 = d1
    d2 = d2
    d3 = d3
    u1 = u1
    u2 = u2
    u3 = u3
    Op = {o1, o2}
    Dest = {d1}
    DestOf <- SharedDest
    Undo = {u1, u2}
    TargetOf <- SameOperation
    Saver = {o1}
    MaxUndoOperations = 2
    MaxFaults = 2
    MaxCrashes = 1
INVARIANTS
    ArchiveCopyRemains
    HistoriesAreReadable
PROPERTIES
    UndosSettle
