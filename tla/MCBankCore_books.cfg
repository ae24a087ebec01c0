SPECIFICATION Spec
CONSTANTS
    s1 = s1
    s2 = s2
    c1 = c1
    t1 = t1
    p1 = p1
    p2 = p2
    NoSession = NoSession
    NoId = NoId
    Accounts <- MCAccounts
    OpeningBalance <- MCOpening
    TransferSessions = {s1, s2}
    CardSessions = {c1}
    Sessions = {s1, s2, c1}
    TransferIds = {t1}
    ReversalIds = {}
    Transfers <- MCOpposite
    PaymentIds = {p1, p2}
    Payments <- MCPayments
    Journals <- MCJournals
    CreditLimit = 1
SYMMETRY Symmetry
INVARIANT
    MoneyIsConserved
    WaitsEnd
