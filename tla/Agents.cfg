SPECIFICATION Spec
CONSTANTS
    Grant = {g1, g2}
    Selection = {p1, p2, p3}
    Session = {s1}
    Request = {r1}
    Exchange = {x1, x2}
    Tool = {"knowledge.read"}
    ToolsOf <- OneTool
    Origin = {}
    NoOrigin = NoOrigin
    OriginsOf <- NoOrigins
    NoGrant = NoGrant
    NoSession = NoSession
    NoTime = NoTime
    NoCredential = NoCredential
    NoExchange = NoExchange
    MaxGrants = 2
    MaxPending = 2
    MaxRequests = 2
    SelectionTtl = 1
    GrantTtl = 2
    SessionTtl = 2
    MaxTime = 2
    MaxFaults = 1
INVARIANTS
    GrantsGovernSessions
    AuditComesFirst
PROPERTIES
    RequestsAreServedOnce
SYMMETRY Identifiers
CHECK_DEADLOCK FALSE
