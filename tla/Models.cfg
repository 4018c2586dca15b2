SPECIFICATION FairSpec
CONSTANTS
    doc1 = doc1
    doc2 = doc2
    item = item
    Config = {c1, c2}
    Key = {x1}
    Call = {k1, k2}
    Target = {doc1, doc2, item}
    Envelope <- Envelopes
    Proposals <- Answers
    Verdicts <- Decisions
    MaxConfigs = 2
    MaxRecords = 1
    MaxChanges = 2
    MaxFaults = 2
    MaxCrashes = 1
    MaxCited = 1
    MaxRelations = 1
    MaxFacts = 1
    MaxExcerpts = 1
INVARIANTS
    ConfiguredKeysExist
    ComparisonsStayListable
PROPERTIES
    TargetsComeFree
CHECK_DEADLOCK FALSE
