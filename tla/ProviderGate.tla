----------------------------- MODULE ProviderGate -----------------------------
(***************************************************************************)
(* provider_validation.py: whether one collection proves its provider.  A  *)
(* collection is a record of what the gates read: p.cloud is a report of   *)
(* CloudEvidence, p.controls the CIS controls, p.budget what the requests  *)
(* cost; a number that is missing or negative is None.                     *)
(***************************************************************************)
EXTENDS CloudEvidence

ManagedProviders == {"eks", "aks", "gke"}
Gate(status, mandatory) == [status |-> status, mandatory |-> mandatory]
PassIf(condition) == Gate(IF condition THEN "PASS" ELSE "FAIL", TRUE)

(* Thresholds, the defaults in units that keep them small. *)
Metrics == {"duration", "apiRequests", "cloudApiRequests", "retries", "throttles", "responseBytes", "peakRss"}
ValidThresholds(limits) ==
    /\ DOMAIN limits = Metrics \cup {"kubernetesCoverage", "cloudCoverage"}
    /\ limits.duration > 0 /\ limits.apiRequests > 0 /\ limits.responseBytes > 0 /\ limits.peakRss > 0
    /\ limits.cloudApiRequests >= 0 /\ limits.retries >= 0 /\ limits.throttles >= 0
    /\ {limits.kubernetesCoverage, limits.cloudCoverage} \subseteq 0..100

(* coverage maps what was asked to its state; what does not apply does not count. *)
Considered(coverage) ==
    {r \in DOMAIN coverage: coverage[r] \notin {"N/A", "NOT_APPLICABLE", "DISABLED"}}
Listed(coverage) == {r \in DOMAIN coverage: coverage[r] = "AVAILABLE"}
Measurable(coverage) == Considered(coverage) # {}
Covers(coverage, percent) ==
    Cardinality(Listed(coverage)) * 100 >= percent * Cardinality(Considered(coverage))

----------------------------------------------------------------------------
(* The gates                                                               *)

Terminal(p) == PassIf(p.status = "COMPLETED" /\ p.completed)

Detection(p) == PassIf(\A source \in DOMAIN p.sources: p.sources[source] = p.expected)

(* The validator's verdict on the artifacts; one that cannot run or answer has none. *)
Artifacts(p) == PassIf(p.validator = "ok")

ReadOnly(p) ==
    PassIf(/\ \A r \in DOMAIN p.safety: p.safety[r].readOnly /\ p.safety[r].mutations \in {None, 0}
           /\ p.verbs # {} /\ p.verbs \subseteq {"get", "list"}
           /\ p.operations # {} /\ p.operations \subseteq {"get", "list", "describe", "show"})

Protection(p) ==
    PassIf(/\ p.protection.credentials = "omitted" /\ p.protection.payloads = "omitted"
           /\ p.protection.identifiers = "omitted" /\ p.protection.forbiddenKeys = {})

(* A rule passes only where it applies. *)
Grounded(r) == r.status = "PASS" => r.applicability = "APPLICABLE"

CloudRulesApply(p) ==
    /\ p.expected = "generic-kubernetes" => p.cloud.rules = {}
    /\ p.expected \in ManagedProviders =>
          /\ p.cloud.rules # {}
          /\ \A r \in p.cloud.rules: r.provider = p.expected /\ Grounded(r)

OperationalRulesApply(p) ==
    /\ \A provider \in ManagedProviders: \E r \in p.operationalRules: r.provider = provider
    /\ \A r \in p.operationalRules:
          IF r.provider = p.expected THEN Grounded(r)
          ELSE r.provider \in ManagedProviders => r.status = "N/A" /\ r.applicability = "NOT_APPLICABLE"

(* The control plane belongs to the provider, or to nobody who could have proved it. *)
ControlPlaneApplies(p) ==
    \A id \in {"control-plane.api-server", "control-plane.etcd"}:
        /\ id \in DOMAIN p.controls
        /\ LET control == p.controls[id]
           IN  IF p.expected \in ManagedProviders
               THEN /\ control.applicability = "MANAGED_PROVIDER" /\ control.status = "N/A"
                    /\ control.responsibility = "CLOUD_PROVIDER"
               ELSE control.status # "PASS" /\ control.applicability # "MANAGED_PROVIDER"

Applicability(p) == PassIf(CloudRulesApply(p) /\ OperationalRulesApply(p) /\ ControlPlaneApplies(p))

Quality(p) == PassIf(\A k \in DOMAIN p.quality: p.quality[k] = 0)

KubernetesCoverage(p, limits) ==
    IF ~ Measurable(p.resources) THEN Gate("WARN", TRUE)
    ELSE PassIf(Covers(p.resources, limits.kubernetesCoverage))

CloudApi(p) ==
    IF p.expected = "generic-kubernetes"
    THEN IF p.cloud.state \in {"N/A", "NOT_APPLICABLE"} THEN Gate("N/A", FALSE) ELSE Gate("FAIL", TRUE)
    ELSE Gate(CASE p.cloud.state = "AVAILABLE" -> "PASS"
                [] p.cloud.state = "PARTIAL" -> "WARN"
                [] OTHER -> "FAIL", TRUE)

(* Asked of managed providers only. *)
CloudCoverage(p, limits) ==
    IF p.expected = "generic-kubernetes" THEN Gate("N/A", FALSE)
    ELSE PassIf(Measurable(p.cloud.coverage) /\ Covers(p.cloud.coverage, limits.cloudCoverage))

(* The duration of the whole collection, or else the time its requests took. *)
Spent(p) ==
    [m \in Metrics |-> CASE m = "cloudApiRequests" -> p.cloud.requests
                         [] m = "duration" /\ p.budget.duration = None -> p.budget.elapsed
                         [] OTHER -> p.budget[m]]

Performance(p, limits) ==
    Gate(IF \E m \in Metrics: Spent(p)[m] > limits[m] THEN "FAIL"
         ELSE IF \E m \in Metrics: Spent(p)[m] = None THEN "WARN" ELSE "PASS", TRUE)

ProviderGates(p, limits) ==
    {Terminal(p), Detection(p), Artifacts(p), ReadOnly(p), Protection(p), Applicability(p), Quality(p),
     KubernetesCoverage(p, limits), CloudApi(p), CloudCoverage(p, limits), Performance(p, limits)}

----------------------------------------------------------------------------
(* The report: PASS and WARN of every format come from the same gates.     *)

(* What JUnit counts as a failure, SARIF as a result, and the exit code reports. *)
Blocking(gates) == {g \in gates: g.mandatory /\ g.status # "PASS"}

Validate(p, limits) ==
    LET gates == ProviderGates(p, limits)
        states == {g.status: g \in Blocking(gates)}
    IN  [state |-> IF "FAIL" \in states THEN "FAIL" ELSE IF "WARN" \in states THEN "WARN" ELSE "PASS",
         releaseReady |-> states = {}]
=============================================================================
