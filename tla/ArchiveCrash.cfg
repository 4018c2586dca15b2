SPECIFICATION FairSpec
CHECK_DEADLOCK FALSE
CONSTANTS
    o1 = o1
    o2 = o2
    d1 = d1
    r1 = r1
    Op = {o1, o2}
    Dest = {d1}
    DestOf <- SharedDest
    Reader = {}
    NoAnchor = NoAnchor
    NoRead = NoRead
    MaxFaults = 0
    MaxCrashes = 2
    MaxDamage = 0
    MaxOperationRecords = 100
INVARIANTS
    FilesMatchRecords
PROPERTIES
    ImplementsLifecycle
    OperationsSettle
