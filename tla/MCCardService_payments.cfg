SPECIFICATION Spec
CONSTANTS
    s1 = s1
    s2 = s2
    p1 = p1
    p2 = p2
    NoSession = NoSession
    Accounts <- MCAccounts
    OpeningBalance <- MCOpening
    Sessions = {s1, s2}
    PaymentIds = {p1, p2}
    Journals <- MCJournals
    Payments <- MCRequests
    CreditLimit = 2
SYMMETRY Symmetry
INVARIANTS
    TypeOK
    CapturedOnce
    FlawedIsNotCaptured
PROPERTY
    ImplementsIssuer
