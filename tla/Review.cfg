SPECIFICATION FairSpec
CONSTANTS
    v1 = v1
    v2 = v2
    d = d
    e = e
    Vault = {v1, v2}
    NoVault = NoVault
    Authority = {v1, v2}
    AuthorityOf <- EachAuthority
    Profile = {f1}
    NoProfile = NoProfile
    Proposal = {q1}
    Item = {1, 2}
    Digest = {d, e}
    DigestOf <- EachContent
    Stem = {s1}
    NamingReview = NamingReview
    Selection <- OneOrBoth
    MaxActive = 1
    TTL = 1
    ProposalTTL = 1
    MaxTime = 1
    MaxTransfers = 1
    MaxQuits = 1
    MaxNamings = 2
    MaxClassifications = 2
    MaxPlans = 2
INVARIANTS
    WorkersUseCurrentVault
    CommitsFollowOneReview
    CollisionsHaveCause
    ClassificationIsApproved
PROPERTIES
    ConfirmedPlansEnd
CHECK_DEADLOCK FALSE
