SPECIFICATION ClientSpec
CONSTANTS
    s1 = s1
    s2 = s2
    h1 = h1
    h2 = h2
    t1 = t1
    t2 = t2
    NoSession = NoSession
    NoId = NoId
    Accounts <- MCAccounts
    OpeningBalance <- MCOpening
    Sessions = {s1, s2}
    Handlers = {h1, h2}
    TransferIds = {t1, t2}
    ReversalIds = {}
    Transfers <- MCCalls
    Workloads <- MCWorkloads
    Posts <- MCPosts
    Descriptions = {"rent", "food"}
    Journals <- MCJournals
SYMMETRY Symmetry
INVARIANTS
    CoordinatorTypeOK
    MovedAsRecorded
    OkMeansMoved
    OverlapOnlyWhenContended
PROPERTY
    StatusFollowsMoney
