----------------------------- MODULE CisPosture -----------------------------
(***************************************************************************)
(* cis_security_assessment.py: controls from an inventory, the external    *)
(* evidence, AWS findings and exceptions laid over them, the scores, and   *)
(* the comparison of two reports.  A role, a binding, a webhook or a       *)
(* workload is reduced to the set of checks it fails; the lists of names   *)
(* stay below the 50 or 100 the report shows.                              *)
(***************************************************************************)
EXTENDS Integers, FiniteSets, FiniteSetsExt, SequencesExt

HighRisk == {"rbac.wildcards", "rbac.cluster-admin", "rbac.impersonation",
             "pod.privileged", "pod.host-namespaces"}
MediumRisk == {"rbac.secrets", "pod.capabilities", "pod.privilege-escalation", "image.digest",
               "network.external-services", "admission.policy-enforcement"}
WorkloadChecks ==
    {"pod.privileged", "pod.host-namespaces", "pod.run-as-non-root", "pod.seccomp",
     "service-account.default", "pod.capabilities", "pod.privilege-escalation",
     "pod.read-only-root-filesystem", "image.latest-tag", "image.digest", "pod.host-path",
     "pod.proc-mount", "pod.sysctls"}
Managed == {"AWS", "AZURE", "GOOGLE"}
Customer == {"CUSTOMER", "SHARED"}

Control(applicability, mode, status, responsibility, flagged) ==
    [applicability |-> applicability, mode |-> mode, status |-> status,
     responsibility |-> responsibility, flagged |-> flagged]
Evaluated(status, flagged) == Control("APPLICABLE", "AUTOMATED", status, "CUSTOMER", flagged)
Unavailable == Control("EVIDENCE_UNAVAILABLE", "AUTOMATED", "UNKNOWN", "CUSTOMER", {})

WarnIf(flagged) == Evaluated(IF flagged # {} THEN "WARN" ELSE "PASS", flagged)

(* A control read from resources the collector could list, or unavailable. *)
FromCoverage(inv, keys, control) == IF keys \subseteq inv.available THEN control ELSE Unavailable

Failing(objects, check) == {o.name: o \in {x \in objects: check \in x.fails}}

(* A Pod its controller owns is judged by the controller's template. *)
Workloads(inv) == inv.workloads \cup {p \in inv.pods: ~ p.controlled}

WorkloadControl(inv, check) ==
    IF Workloads(inv) = {} THEN Unavailable ELSE WarnIf(Failing(Workloads(inv), check))

Provider(inv) ==
    IF inv.identity # "none" THEN inv.identity
    ELSE IF inv.controlPlaneNodes THEN "SELF_MANAGED" ELSE "GENERIC"

ControlPlaneControl(inv) ==
    CASE Provider(inv) \in Managed ->
            Control("MANAGED_PROVIDER", "MANUAL", "N/A", "CLOUD_PROVIDER", {})
      [] Provider(inv) = "SELF_MANAGED" -> Unavailable
      [] OTHER -> Control("MANUAL_REVIEW", "MANUAL", "UNKNOWN", "SHARED", {})

KubeletControl(inv) ==
    [Unavailable EXCEPT !.responsibility =
        IF Provider(inv) \in Managed THEN "SHARED" ELSE "CUSTOMER"]

NetworkPolicyControl(inv) ==
    LET namespaces == {w.ns: w \in Workloads(inv)}
    IN  IF namespaces = {} THEN Evaluated("UNKNOWN", {})
        ELSE WarnIf(namespaces \ inv.protected)

PolicyControl(inv) == Evaluated(IF inv.hooks \cup inv.policies # {} THEN "PASS" ELSE "WARN", {})

(* A namespace is named when it carries no pod-security label and is not a system one. *)
PodSecurityControl(inv) ==
    IF inv.namespaces = {} THEN Unavailable ELSE WarnIf(Failing(inv.namespaces, "pod-security"))

Hooks == {"validatingwebhooks", "mutatingwebhooks"}
Roles == {"roles", "clusterroles"}

(* assess: one control of the inventory per id. *)
ControlIds ==
    WorkloadChecks \cup
    {"rbac.wildcards", "rbac.cluster-admin", "rbac.secrets", "rbac.impersonation",
     "network.external-services", "network.network-policy", "admission.policy-enforcement",
     "admission.failure-policy", "admission.pod-security", "control-plane.api-server",
     "control-plane.etcd", "node.kubelet-configuration"}

InventoryControl(inv, id) ==
    CASE id \in WorkloadChecks -> WorkloadControl(inv, id)
      [] id \in {"rbac.wildcards", "rbac.secrets", "rbac.impersonation"} ->
            FromCoverage(inv, Roles, WarnIf(Failing(inv.roles, id)))
      [] id = "rbac.cluster-admin" ->
            FromCoverage(inv, {"clusterrolebindings"}, WarnIf(Failing(inv.bindings, id)))
      [] id = "network.external-services" ->
            FromCoverage(inv, {"services"}, WarnIf(Failing(inv.services, id)))
      [] id = "network.network-policy" ->
            FromCoverage(inv, {"networkpolicies"}, NetworkPolicyControl(inv))
      [] id = "admission.policy-enforcement" ->
            FromCoverage(inv, Hooks \cup {"kyverno_clusterpolicies"}, PolicyControl(inv))
      [] id = "admission.failure-policy" ->
            FromCoverage(inv, Hooks, WarnIf(Failing(inv.hooks, id)))
      [] id = "admission.pod-security" -> PodSecurityControl(inv)
      [] id \in {"control-plane.api-server", "control-plane.etcd"} -> ControlPlaneControl(inv)
      [] id = "node.kubelet-configuration" -> KubeletControl(inv)

Inventory(inv) == [id \in ControlIds |-> InventoryControl(inv, id)]

----------------------------------------------------------------------------
(* Evidence beside the inventory.                                          *)

EvidenceSources == {"NodeEvidence", "ControlPlaneEvidence", "ManualEvidence", "CloudProviderAPI"}

AcceptedEvidence(entries) ==
    {i \in DOMAIN entries:
        entries[i].hashMatches /\ ~ entries[i].expired /\ entries[i].source \in EvidenceSources}
EntriesFor(entries, id) == {i \in AcceptedEvidence(entries): entries[i].id = id}

(* The last entry for a control decides it; the responsibility stays that of the *)
(* inventory, or for a control that is new, that of the first.                   *)
DecidedBy(controls, entries, id) ==
    LET last == entries[Max(EntriesFor(entries, id))]
    IN  Control("APPLICABLE", IF last.source = "ManualEvidence" THEN "MANUAL" ELSE "AUTOMATED", last.status,
                IF id \in DOMAIN controls THEN controls[id].responsibility
                ELSE entries[Min(EntriesFor(entries, id))].responsibility,
                last.flagged)

WithEvidence(controls, entries) ==
    LET decided == {entries[i].id: i \in AcceptedEvidence(entries)}
    IN  [id \in DOMAIN controls \cup decided |->
            IF id \in decided THEN DecidedBy(controls, entries, id) ELSE controls[id]]

(* Findings of the AWS assessment; findings maps the ids of eks. rules to severities. *)
AwsControl(severity) ==
    Control("APPLICABLE", "AUTOMATED",
            CASE severity = "PASS" -> "PASS"
              [] severity \in {"WARN", "CRIT"} -> "WARN"
              [] OTHER -> "UNKNOWN",
            "SHARED", {})

WithAws(controls, provider, findings) ==
    IF provider # "AWS" THEN controls
    ELSE [id \in DOMAIN controls \cup DOMAIN findings |->
            IF id \in DOMAIN findings THEN AwsControl(findings[id]) ELSE controls[id]]

(* An exception in force covers everything the control names, or all of it. *)
Covers(x, id, control) ==
    /\ x.id = id /\ ~ x.expired /\ x.justified
    /\ x.all \/ (control.flagged # {} /\ control.flagged \subseteq x.resources)

WithExceptions(controls, exceptions) ==
    [id \in DOMAIN controls |->
        IF \E x \in exceptions: Covers(x, id, controls[id])
        THEN [controls[id] EXCEPT !.status = "EXEMPTED"] ELSE controls[id]]

ApplyExternal(controls, provider, beside) ==
    WithExceptions(WithAws(WithEvidence(controls, beside.evidence), provider, beside.aws),
                   beside.exceptions)

Assess(inv, beside) == ApplyExternal(Inventory(inv), Provider(inv), beside)

----------------------------------------------------------------------------
(* Scores.  None is a score nothing was measured for.                      *)

None == -1
RiskWeight(id) == IF id \in HighRisk THEN 3 ELSE IF id \in MediumRisk THEN 2 ELSE 1
Weight(ids) == MapThenSumSet(RiskWeight, ids)
(* Python's round: a half goes to the even neighbour. *)
Percent(part, whole) ==
    IF whole = 0 THEN None
    ELSE LET quotient == (100 * part) \div whole
             twice == 2 * ((100 * part) % whole)
         IN  IF twice > whole \/ (twice = whole /\ quotient % 2 = 1) THEN quotient + 1 ELSE quotient

Scored(controls) ==
    {id \in DOMAIN controls: /\ controls[id].applicability = "APPLICABLE"
                             /\ controls[id].mode = "AUTOMATED"
                             /\ controls[id].responsibility \in Customer
                             /\ controls[id].status # "EXEMPTED"}
Passed(controls, ids) == {id \in ids: controls[id].status = "PASS"}
CustomerRelevant(controls) ==
    {id \in DOMAIN controls:
        /\ controls[id].responsibility \in Customer
        /\ controls[id].applicability \notin {"NOT_APPLICABLE", "MANAGED_PROVIDER"}}

Summary(controls) ==
    LET scored == Scored(controls)
    IN  [posture |-> Percent(Weight(Passed(controls, scored)), Weight(scored)),
         coverage |-> Percent(Cardinality(scored), Cardinality(CustomerRelevant(controls)))]

----------------------------------------------------------------------------
(* compare_reports                                                         *)

Unmeasured == {"EVIDENCE_UNAVAILABLE", "MANUAL_REVIEW"}

LossOf(old, new) == old.applicability = "APPLICABLE" /\ new.applicability \in Unmeasured
Change(before, after, id) ==
    IF id \notin DOMAIN before THEN "NEW_CONTROL"
    ELSE IF id \notin DOMAIN after THEN "REMOVED_CONTROL"
    ELSE LET old == before[id]  new == after[id]
         IN CASE LossOf(old, new) -> "EVIDENCE_LOSS"
              [] LossOf(new, old) -> "COVERAGE_GAIN"
              [] OTHER ->
                   IF old.status = "WARN" /\ new.status = "PASS" THEN "RESOLVED"
                   ELSE IF old.status = "PASS" /\ new.status = "WARN" THEN "REGRESSION"
                   ELSE IF old.applicability # new.applicability
                           \/ old.responsibility # new.responsibility
                        THEN "RESPONSIBILITY_CHANGE"
                   ELSE IF old.status # new.status THEN "STATUS_CHANGE" ELSE "NONE"

Changed(before, after, kind) ==
    {id \in DOMAIN before \cup DOMAIN after: Change(before, after, id) = kind}

Measured(score) == IF score = None THEN 0 ELSE score
PostureDelta(before, after) ==
    Measured(Summary(after).posture) - Measured(Summary(before).posture)
CoverageDelta(before, after) ==
    Measured(Summary(after).coverage) - Measured(Summary(before).coverage)
=============================================================================
