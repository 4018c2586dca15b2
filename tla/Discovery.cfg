SPECIFICATION FairIntakeSpec
CONSTANTS
    a = a
    b = b
    c = c
    f1 = f1
    f2 = f2
    f3 = f3
    g1 = g1
    g2 = g2
    Path = {a, b, c, f1, f2, f3}
    Entries <- SmallTree
    MaxItems = 3
    MaxDepth = 0
    MaxDiagnostics = 1
    Call = {k1, k2, k3}
    Grant = {g1, g2}
    RootsOf <- Overlapping
    DropProposal = {p1, p2}
    NoCall = NoCall
    NoProposal = NoProposal
    MaxPermits = 2
    MaxGrants = 1
    MaxProposals = 1
INVARIANTS
    PermitsAreCounted
    GrantsAreWalkedOnce
    WalksDisclose
    GrantsKeepTheirLimit
PROPERTIES
    PermitsReturn
CHECK_DEADLOCK FALSE
