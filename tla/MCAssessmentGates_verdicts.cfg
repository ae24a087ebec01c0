SPECIFICATION GatesSpec
CONSTANT
    Requests <- SampleRequests
    Pairs <- SamplePairs
    Candidates <- SampleCandidates
    Policy <- StandardPolicy
    ProviderLimits <- SampleThresholds
    Downloads <- SampleDownloads
INVARIANT
    AnswersAreLeastPlans
    ReportsAreSound
    AcceptedChainsIntroduceNoRisk
    MixedReleasesAreRefused
PROPERTY
    WithdrawnEvidenceNeverApproves
CHECK_DEADLOCK FALSE
