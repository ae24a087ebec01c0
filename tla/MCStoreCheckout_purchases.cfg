SPECIFICATION Spec
CONSTANTS
    s1 = s1
    s2 = s2
    h1 = h1
    h2 = h2
    k1 = k1
    k2 = k2
    Sessions = {s1, s2}
    Handlers = {h1, h2}
    PaymentIds = {k1, k2}
    Outcomes <- MCOutcomes
    Payments <- MCPayments
    NoPayment = NoPayment
    Posts <- MCPosts
    Refused <- MCRefused
    NoPost = NoPost
    NoRow = NoRow
    NoSession = NoSession
    Orders <- MCOrders
    OtherPosts <- MCOtherPosts
    NoKey = NoKey
    NoOrder = NoOrder
SYMMETRY Symmetry
INVARIANTS
    AcquirerAgreesWithIssuer
    PageTellsTheTruth
    RepeatedSubmitsChargeOnce
CONSTRAINT KeysInOrder
