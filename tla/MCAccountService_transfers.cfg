SPECIFICATION FairSpec
CONSTANTS
    s1 = s1
    s2 = s2
    t1 = t1
    r1 = r1
    r2 = r2
    NoSession = NoSession
    NoId = NoId
    Accounts <- MCAccounts
    OpeningBalance <- MCOpening
    Sessions = {s1, s2}
    TransferIds = {t1}
    ReversalIds = {r1, r2}
    Journals <- MCJournals
    Transfers <- MCTransfers
INVARIANTS
    TypeOK
    NoDivergentAccount
    LoadedRowsAreCurrent
    RecordedIffMoved
    SerialKeysMoveOnce
    OneMirroredReversal
PROPERTY
    EveryRequestIsAnswered
