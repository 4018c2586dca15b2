SPECIFICATION Spec
CHECK_DEADLOCK FALSE
CONSTANTS
    o1 = o1
    o2 = o2
    d1 = d1
    Op = {o1, o2}
    Dest = {d1}
    DestOf <- SharedDest
    r1 = r1
    Reader = {r1}
    NoAnchor = NoAnchor
    NoRead = NoRead
    MaxFaults = 2
    MaxCrashes = 1
    MaxDamage = 1
    MaxOperationRecords = 100
INVARIANTS
    ReportedCommitIsPreserved
    OnlyVerifiedBytesExposed
PROPERTIES
    OpeningVerifiesOriginals
