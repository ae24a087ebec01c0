--------------------------- MODULE RegressionGate ---------------------------
(***************************************************************************)
(* regression_validation.py: a collection compared with an earlier one     *)
(* under a policy.  A collection is a record of what the gate reads; a     *)
(* report that is not there is Missing, a number that is not there None.   *)
(***************************************************************************)
EXTENDS CisPosture

Missing == [missing |-> TRUE]
Gate(status, mandatory) == [status |-> status, mandatory |-> mandatory]
FailIf(condition) == Gate(IF condition THEN "FAIL" ELSE "PASS", TRUE)

(* A profile maps its flags (1 for true) and its limits to numbers. *)
Booleans == {"requireSameCluster", "requireCompletedCollections", "requireArtifactIntegrity",
             "requireCisEvidence", "requireOperationalEvidence"}
Absolute == {"maxCurrentCritical", "maxCurrentWarnings", "maxCurrentUnknown", "maxCurrentPartial"}
Limits ==
    Absolute \cup
    {"maxNewCritical", "maxNewWarnings", "maxSeverityRegressions", "maxEvidenceLoss",
     "maxCisRegressions", "maxCisEvidenceLoss", "maxCisPostureDropPercent",
     "maxCisCoverageDropPercent", "maxNodeStateRegressions", "maxNodeCriticalIncrease",
     "maxNodeWarningIncrease", "maxNodeMetricsCoverageDropPercent",
     "maxManifestCriticalIncrease", "maxManifestWarningIncrease", "maxEndOfSupportIncrease",
     "maxQualityRegression", "maxDurationIncreasePercent", "maxApiRequestsIncreasePercent",
     "maxResponseBytesIncreasePercent", "maxPeakRssIncreasePercent"}

(* load_policy accepts a profile: all fields, no flag off, None only as an absolute limit. *)
ValidProfile(profile) ==
    /\ DOMAIN profile = Booleans \cup Limits
    /\ \A key \in Booleans: profile[key] = 1
    /\ \A key \in Limits: profile[key] >= 0 \/ (key \in Absolute /\ profile[key] = None)

----------------------------------------------------------------------------
(* The same cluster and namespaces.  An unknown identity is "".            *)

Signal(old, new) ==
    IF old = "" \/ new = "" THEN "UNAVAILABLE" ELSE IF old = new THEN "MATCH" ELSE "MISMATCH"
Normalized(namespaces) == IF namespaces \in {"*", "all"} THEN "*" ELSE namespaces

SameScope(before, after) ==
    LET cluster == {Signal(before.clusterName, after.clusterName),
                    Signal(before.context, after.context)} \ {"UNAVAILABLE"}
    IN  /\ cluster = {"MATCH"}
        /\ Signal(Normalized(before.namespaces), Normalized(after.namespaces)) = "MATCH"

Completed(collection) == collection.completed /\ collection.status = "COMPLETED"

----------------------------------------------------------------------------
(* Findings: a function from identities to severities.                     *)

KnownSeverities == {"N/A", "PASS", "INFO", "UNKNOWN", "PARTIAL", "WARN", "CRIT"}
SeverityRank(severity) ==
    CASE severity \in {"N/A", "PASS"} -> 0 [] severity = "INFO" -> 1 [] severity = "WARN" -> 3
      [] severity = "CRIT" -> 4 [] OTHER -> 2
Unclear == {"UNKNOWN", "PARTIAL"}

NewFindings(old, new, severities) ==
    {f \in DOMAIN new \ DOMAIN old: new[f] \in severities}
SeverityRegressions(old, new) ==
    {f \in DOMAIN new \cap DOMAIN old: SeverityRank(new[f]) > SeverityRank(old[f])}
(* Fault: a finding that was not there before cannot have lost evidence. *)
EvidenceLossOfKnown(old, new) ==
    {f \in DOMAIN new \cap DOMAIN old: new[f] \in Unclear /\ old[f] \notin Unclear}
EvidenceLoss(old, new) ==
    NewFindings(old, new, Unclear) \cup
    {f \in DOMAIN new \cap DOMAIN old: new[f] \in Unclear /\ old[f] \notin Unclear}

Beyond(count, limit) == limit # None /\ count > limit
Current(new, severity) == Cardinality({f \in DOMAIN new: new[f] = severity})

FindingGates(old, new, policy) ==
    [newRisk |-> FailIf(\/ Beyond(Cardinality(NewFindings(old, new, {"CRIT"})), policy.maxNewCritical)
                        \/ Beyond(Cardinality(NewFindings(old, new, {"WARN"})), policy.maxNewWarnings)),
     severity |-> FailIf(Beyond(Cardinality(SeverityRegressions(old, new)), policy.maxSeverityRegressions)),
     evidence |-> FailIf(Beyond(Cardinality(EvidenceLoss(old, new)), policy.maxEvidenceLoss)),
     current |-> FailIf(\/ Beyond(Current(new, "CRIT"), policy.maxCurrentCritical)
                        \/ Beyond(Current(new, "WARN"), policy.maxCurrentWarnings)
                        \/ Beyond(Current(new, "UNKNOWN"), policy.maxCurrentUnknown)
                        \/ Beyond(Current(new, "PARTIAL"), policy.maxCurrentPartial))]

----------------------------------------------------------------------------
(* The other domains.                                                      *)

Lost(required) == Gate(IF required THEN "FAIL" ELSE "WARN", required)
Rise(old, new) == IF new > old THEN new - old ELSE 0

(* A report without controls is no evidence either. *)
NoControls(cis) == cis = Missing \/ DOMAIN cis.controls = {}

CisGate(old, new, policy) ==
    IF NoControls(old) \/ NoControls(new) THEN Lost(policy.requireCisEvidence = 1)
    ELSE FailIf(
           \/ Cardinality(Changed(old.controls, new.controls, "REGRESSION")) > policy.maxCisRegressions
           \/ Cardinality(Changed(old.controls, new.controls, "EVIDENCE_LOSS")) > policy.maxCisEvidenceLoss
           \/ - PostureDelta(old.controls, new.controls) > policy.maxCisPostureDropPercent
           \/ - CoverageDelta(old.controls, new.controls) > policy.maxCisCoverageDropPercent)

NodeRank(state) ==
    CASE state = "PASS" -> 0 [] state = "WARN" -> 2 [] state = "CRIT" -> 3 [] OTHER -> 1

NodeGate(old, new, policy) ==
    IF old = Missing \/ new = Missing THEN Lost(policy.requireOperationalEvidence = 1)
    ELSE LET worse == {n \in DOMAIN new.nodes \cap DOMAIN old.nodes:
                          NodeRank(new.nodes[n]) > NodeRank(old.nodes[n])}
             counted(s, state) == Cardinality({n \in DOMAIN s.nodes: s.nodes[n] = state})
             measured == old.coverage # None /\ new.coverage # None
             exceeded ==
                \/ Cardinality(worse) > policy.maxNodeStateRegressions
                \/ Rise(counted(old, "CRIT"), counted(new, "CRIT")) > policy.maxNodeCriticalIncrease
                \/ Rise(counted(old, "WARN"), counted(new, "WARN")) > policy.maxNodeWarningIncrease
                \/ measured /\ Rise(new.coverage, old.coverage) > policy.maxNodeMetricsCoverageDropPercent
         IN  Gate(IF exceeded THEN "FAIL" ELSE IF ~ measured THEN "WARN" ELSE "PASS", TRUE)

OperationalGate(old, new, policy) ==
    IF old = Missing \/ new = Missing THEN Lost(policy.requireOperationalEvidence = 1)
    ELSE FailIf(\/ Rise(old.critical, new.critical) > policy.maxManifestCriticalIncrease
                \/ Rise(old.warnings, new.warnings) > policy.maxManifestWarningIncrease
                \/ Rise(old.endOfSupport, new.endOfSupport) > policy.maxEndOfSupportIncrease
                \/ new.skew /\ ~ old.skew)

QualityGate(old, new, policy) ==
    IF old = Missing \/ new = Missing THEN Gate("WARN", TRUE)
    ELSE FailIf(Rise(old.duplicates, new.duplicates) + Rise(old.conflicts, new.conflicts)
                + Rise(old.lowConfidence, new.lowConfidence) > policy.maxQualityRegression)

Metrics == [duration |-> "maxDurationIncreasePercent", apiRequests |-> "maxApiRequestsIncreasePercent",
            responseBytes |-> "maxResponseBytesIncreasePercent", peakRss |-> "maxPeakRssIncreasePercent"]

(* increase_percent: a rise from zero, or from or to nothing, has no percentage. *)
HasIncrease(old, new) == old # None /\ new # None /\ (old = 0 => new = 0)
IncreaseBeyond(old, new, percent) ==
    HasIncrease(old, new) /\ old > 0 /\ (new - old) * 100 > percent * old

PerformanceGate(old, new, policy) ==
    Gate(IF \E m \in DOMAIN Metrics: IncreaseBeyond(old[m], new[m], policy[Metrics[m]]) THEN "FAIL"
         ELSE IF \E m \in DOMAIN Metrics: ~ HasIncrease(old[m], new[m]) THEN "WARN" ELSE "PASS", TRUE)

----------------------------------------------------------------------------
(* evaluate                                                                *)

ScopeBlocked == [domain \in {"newRisk", "severity", "evidence", "current", "cis", "node",
                             "operational", "quality", "performance"} |-> Gate("N/A", FALSE)]

DomainGates(before, after, policy) ==
    IF ~ SameScope(before, after) THEN ScopeBlocked
    ELSE LET findings == FindingGates(before.findings, after.findings, policy)
             others == [cis |-> CisGate(before.cis, after.cis, policy),
                        node |-> NodeGate(before.node, after.node, policy),
                        operational |-> OperationalGate(before.operational, after.operational, policy),
                        quality |-> QualityGate(before.quality, after.quality, policy),
                        performance |-> PerformanceGate(before.performance, after.performance, policy)]
         IN  [d \in DOMAIN findings \cup DOMAIN others |->
                IF d \in DOMAIN findings THEN findings[d] ELSE others[d]]

CollectionGates(before, after, policy) ==
    [scope |-> FailIf(~ SameScope(before, after)),
     terminal |-> FailIf(~ (Completed(before) /\ Completed(after))),
     artifacts |-> FailIf(~ (before.intact /\ after.intact))]

Gates(before, after, policy) ==
    LET first == CollectionGates(before, after, policy)
        rest == DomainGates(before, after, policy)
    IN  {first[g]: g \in DOMAIN first} \cup {rest[g]: g \in DOMAIN rest}

MandatoryStates(gates) == {g.status: g \in {h \in gates: h.mandatory}}

Evaluate(before, after, policy) ==
    LET states == MandatoryStates(Gates(before, after, policy))
    IN  [state |-> IF "FAIL" \in states THEN "FAIL" ELSE IF "WARN" \in states THEN "WARN" ELSE "PASS",
         releaseReady |-> states = {"PASS"}]
=============================================================================
