SPECIFICATION FairSpec
CONSTANTS
    o1 = o1
    o2 = o2
    f1 = f1
    f2 = f2
    Op = {o1, o2}
    Path = {f1, f2}
    SourceOf <- EachSource
    Request = {r1, r2}
    Selection <- BothInOrder
    MaxCleanupOperations = 3
    MaxFaults = 1
    MaxCrashes = 1
INVARIANTS
    AuditTellsRemovals
    PermanentDeletionReviewedTwice
    HistoriesAreReadable
PROPERTIES
    RecoveredCommitsKeepOriginals
    CleanupsSettle
