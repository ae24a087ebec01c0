SPECIFICATION Spec
CONSTANTS
    Registry <- MCRegistry
    Order <- MCOrder
    Excludes <- MCExcludes
    Recheck = "contract-validation"
    MaxSessions = 3
    Signals = 1
INVARIANTS
    CompletedIsWhole
    EndedSessionsLeaveNothingRunning
PROPERTY
    ResumeKeepsEvidence
CHECK_DEADLOCK FALSE
