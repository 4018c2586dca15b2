SPECIFICATION Spec
CONSTANTS
    d1 = d1
    r1 = r1
    r2 = r2
    c1 = c1
    Document = {d1}
    Saver = {s1, s2}
    Text = {t1, t2}
    NoText = NoText
    MaxRevision = 2
    MaxFaults = 1
    Relation = {r1, r2}
    Writer = {w1, w2}
    Comparison = {c1}
    Suggested <- OneSuggestion
    Cited <- FirstRevision
    NoVersion = NoVersion
    MaxVersion = 2
    MaxRelations = 1
INVARIANTS
    CommittedIsReadable
    DecisionsAreGrounded
    GraphIsListable
PROPERTIES
    RevisionsAreARegister
    VersionsAreARegister
SYMMETRY Calls
CHECK_DEADLOCK FALSE
