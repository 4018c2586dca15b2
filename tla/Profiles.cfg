SPECIFICATION Spec
CONSTANTS
    s1 = s1
    s2 = s2
    s3 = s3
    s4 = s4
    draft = draft
    u1 = u1
    u2 = u2
    u3 = u3
    Source = {s1, s2, s3, s4}
    Doc <- Documents
    LocalFile = {s1, s4}
    Bundled = draft
    Locator = {l1}
    Term = {"t"}
    Time = {1, 2}
    NoVia = NoVia
    NoOp = NoOp
    NoAnswer = NoAnswer
    NoJob = NoJob
    MaxCandidates = 2
    Url = {u1, u2, u3}
    PermittedUrl = {u1, u2}
    Address = {pub, priv}
    PublicAddress = {pub}
    Serves <- Sites
    Original = {o1}
    Generated = {s3}
    MaxRedirects = 1
    MaxJobs = 1
    MaxRules = 2
    MaxCategories = 2
    MaxDestinationDepth = 2
    MaxTaxonomyDepth = 2
INVARIANTS
    ActiveIsReviewed
PROPERTIES
    RecordsAreFinal
    BatchesUseLastApproval
CHECK_DEADLOCK FALSE
