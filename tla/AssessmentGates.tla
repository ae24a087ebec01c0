---------------------------- MODULE AssessmentGates ----------------------------
(***************************************************************************)
(* The decisions of the assessment tool, composed: the reports one         *)
(* collection is turned into (Assessment.result of                         *)
(* eks_comprehensive_assessment.py), and the verdicts read from them.      *)
(* given is what a decision is asked about, answer what it was:            *)
(*   "plan"        a request for collectors;                               *)
(*   "collection"  a source and a target whose evidence gets lost;         *)
(*   "chain"       releases, each accepted against the one before;         *)
(*   "release"     a downloaded release with what comes beside it.         *)
(***************************************************************************)
EXTENDS Integers, Sequences, FiniteSets, FiniteSetsExt, SequencesExt, TLC

CONSTANTS Requests,         \* [registry, include, exclude]
          Pairs,            \* [source: its reports, target: its evidence, mapping, left: what may get lost]
          Candidates,       \* collections a release may be accepted with
          Policy,           \* the profile of the chain
          ProviderLimits,       \* of the provider validation
          Downloads         \* [release, requireSignature]

VARIABLES subject, given, answer
gatesVars == <<subject, given, answer>>

Plan == INSTANCE CollectorPlan
Migration == INSTANCE MigrationGate
Posture == INSTANCE CisPosture
Regression == INSTANCE RegressionGate
Insight == INSTANCE OperationalInsights
Manifest == INSTANCE ManifestValidation
Provider == INSTANCE ProviderGate
Validation == INSTANCE ArtifactValidation
Account == INSTANCE AwsCollection
Release == INSTANCE ReleaseVerification

(* load_registry: a finite list of collectors with known dependencies. *)
ASSUME RequestsAssumption ==
    \A r \in Requests:
        /\ IsFiniteSet(r.registry.ids) /\ r.registry.available \subseteq r.registry.ids
        /\ Plan!WellFormed(r.registry)

(* Reports are finite, and Assessment.add raises for any other severity. *)
ASSUME CandidatesAssumption ==
    \A c \in Candidates:
        /\ IsFiniteSet(DOMAIN c.findings)
        /\ \A f \in DOMAIN c.findings: c.findings[f] \in Regression!KnownSeverities
        /\ c.cis = Regression!Missing \/ IsFiniteSet(DOMAIN c.cis.controls)
        /\ c.node = Regression!Missing \/ IsFiniteSet(DOMAIN c.node.nodes)

(* A checksum file is a list of lines.  An SBOM is written for one build: what *)
(* it lists, path and content, is of it.                                       *)
ASSUME DownloadsAssumption ==
    \A d \in Downloads:
        /\ d.release.checksums \in Seq(ToSet(d.release.checksums))
        /\ LET inventory == d.release.inventory
               listed == {m \in d.release.archive.members: [path |-> m.path, digest |-> m.digest] \in inventory}
           IN  \A m, n \in listed: m.build = n.build

(* A collection is what its collectors write: every list and report they fill, *)
(* of the reports made later nothing yet, no secrets-metadata.json and only     *)
(* kinds of metadata that are asked for, series of numbers on nodes with names, *)
(* a support record for every version, an answer for every command.             *)
Written == {"artifacts", "documents", "quality", "requested", "listed", "external", "nodes", "samples"}
CollectedFields ==
    Written \cup
    {"scope", "manual", "workloads", "ingresses", "gateways", "istioGateways", "certificates", "routes", "virtualServices",
     "destinationRules", "openshiftRoutes", "grants", "services", "endpoints", "pvcs", "backups", "snapshots", "probes",
     "pods", "metrics", "api", "controlPlane", "catalog", "today", "records", "inv", "exceptions", "prometheus", "kept",
     "files", "completed", "policies", "storageClasses", "serviceAccounts", "hints", "account", "expected", "enabled",
     "scoped", "cli", "aks", "gke", "resources", "budget", "logs", "targets"}
MadeLater ==
    {"aws", "platform", "cloud", "controls", "insights", "support", "cis", "manifests", "configuration", "manifestSchema",
     "nodeHealth", "skew", "endOfSupport", "versions", "lifecycleUnknown"}
IsList(x) == x \in Seq(ToSet(x))
IsInventory(inv) ==
    {"workloads", "pods", "roles", "bindings", "services", "hooks", "policies", "namespaces", "protected", "available",
     "identity", "controlPlaneNodes"} \subseteq DOMAIN inv
IsAccount(w) ==
    /\ {"named", "cli", "maxRequests", "retries", "accountSecurity", "answers", "names", "nodegroups", "addons", "fargate",
        "insights", "detectors", "scans", "images", "otherImages", "associations", "lowCapacity", "zones", "worldOpen",
        "cluster"} \subseteq DOMAIN w
    /\ w.retries \in Nat
    /\ \A k \in DOMAIN w.answers: w.answers[k] \in [transient: Nat, then: {"ok", "denied", "malformed", "unsupported"}]
    /\ IsList(w.images)
    /\ \A kind \in {"nodegroups", "addons", "fargate-profiles", "access-entries", "cluster-insights", "guardduty-detectors"}:
          IsList(w.names[kind])
Evidence(e) ==
    /\ CollectedFields \subseteq DOMAIN e /\ DOMAIN e \cap MadeLater = {}
    /\ "secrets-metadata" \notin e.artifacts
    /\ e.requested \subseteq {"Secret", "ConfigMap"}
    /\ \A k \in DOMAIN e.listed: \A o \in e.listed[k]: o.kind = k
    /\ IsList(e.documents) /\ IsList(e.external) /\ IsList(e.nodes)
    /\ \A i \in DOMAIN e.nodes: e.nodes[i].name # "" /\ e.nodes[i].version \in DOMAIN e.records
    /\ \A u \in Manifest!Usage: IsList(e.samples[u]) /\ \A i \in DOMAIN e.samples[u]: e.samples[u][i].value \in Int
    /\ IsInventory(e.inv) /\ IsAccount(e.account)
    /\ {"state", "declared"} \subseteq DOMAIN e.manual
    /\ {"installed", "answers"} \subseteq DOMAIN e.cli /\ Insight!ReadOnlyCommands \subseteq DOMAIN e.cli.answers
    /\ IsFiniteSet(DOMAIN e.resources)
    /\ (Provider!Metrics \ {"cloudApiRequests"}) \cup {"elapsed"} \subseteq DOMAIN e.budget
ASSUME PairsAssumption ==
    \A p \in Pairs: /\ DOMAIN p = {"source", "target", "mapping", "left"}
                    /\ p.left \subseteq {"cluster", "reports", "cloud"}
                    /\ Evidence(p.target)

ASSUME PolicyAssumption == Regression!ValidProfile(Policy)
ASSUME ProviderLimitsAssumption == Provider!ValidThresholds(ProviderLimits)

----------------------------------------------------------------------------
(* From the evidence e of one collection to its reports.                   *)

(* configuration_metadata.py: only the kinds asked for, and only a list that answered. *)
ConfigurationMetadata(e) ==
    LET kinds == e.requested \cap DOMAIN e.listed
    IN  [available |-> kinds, objects |-> UNION {e.listed[k]: k \in kinds}]

(* A report is put beside what is there. *)
Beside(c, report) == [f \in DOMAIN c \cup DOMAIN report |-> IF f \in DOMAIN c THEN c[f] ELSE report[f]]

WithAws(e) == Beside(e, [aws |-> Account!AwsReport(e.account)])

(* What the cloud report reads in the AWS report: a part that was not answered is empty. *)
AwsEvidence(w, report) ==
    LET got(key) == key \in DOMAIN report.coverage /\ report.coverage[key] = "AVAILABLE"
        subnets == w.cluster.subnets /\ got(<<"subnets">>)
    IN  [state |-> report.state, coverage |-> report.coverage, requests |-> report.requests,
         identity |-> (got(<<"pod-identities">>) /\ w.associations) \/ (got(<<"cluster">>) /\ w.cluster.oidc),
         subnets |-> IF ~ subnets THEN "none" ELSE IF w.lowCapacity THEN "low" ELSE "enough",
         addons |-> {IF w.addons[a].healthy THEN "ACTIVE" ELSE "DEGRADED":
                        a \in {x \in DOMAIN w.addons: got(<<"addons", x>>)}},
         zones |-> IF subnets THEN w.zones ELSE 0]

(* An AWS report in any state but N/A makes the cluster an EKS one. *)
Platform(c) == Insight!DetectedPlatform(c.hints \cup IF c.aws.state # "N/A" THEN {"eks"} ELSE {})

WithCloud(c) ==
    Beside(c, [platform |-> Platform(c),
               cloud |-> Insight!CloudReport(Platform(c),
                            [aws |-> AwsEvidence(c.account, c.aws), cli |-> c.cli, enabled |-> c.enabled,
                             scoped |-> c.scoped, aks |-> c.aks, gke |-> c.gke])])

(* One control per AWS finding: a rule finds one thing per resource.  Exceptions *)
(* for them, which would name the rule, are left out.                           *)
AwsControl(f) == f.rule \o "-of-" \o f.resource
AwsControls(findings) ==
    [id \in {AwsControl(f): f \in findings} |-> (CHOOSE f \in findings: AwsControl(f) = id).severity]

WithControls(c) ==
    LET inv == [c.inv EXCEPT !.identity = IF c.aws.state = "AVAILABLE" THEN "AWS" ELSE @]
    IN  Beside(c, [controls |-> Posture!Assess(inv, [evidence |-> c.external, aws |-> AwsControls(c.aws.findings),
                                                     exceptions |-> c.exceptions])])

WithInsights(c) ==
    Beside(c, [insights |-> Insight!Insights([cloud |-> c.cloud, hints |-> c.hints, nodes |-> ToSet(c.nodes), pods |-> c.pods,
                                              metrics |-> c.metrics, logs |-> c.logs, targets |-> c.targets]),
               support |-> Insight!SupportStates(c.controlPlane, ToSet(c.nodes),
                              [v \in DOMAIN c.records |->
                                  Insight!LifecycleState(c.catalog, c.records[v], c.platform, FALSE, "unknown", c.today)])])

(* What the gates read, under the names they have there. *)
ForGates(c) ==
    Beside(c, [cis |-> {c.controls[id]: id \in DOMAIN c.controls},
               manifests |-> ToSet(c.documents), configuration |-> ConfigurationMetadata(c),
               manifestSchema |-> Manifest!ManifestState(c.documents, c.api),
               nodeHealth |-> c.insights.nodeHealth, skew |-> c.insights.skew,
               endOfSupport |-> "END_OF_SUPPORT" \in c.support, versions |-> TRUE,
               lifecycleUnknown |-> c.support \cap {"UNKNOWN", "UNKNOWN_STALE_CATALOG"} # {}])

(* All the reports of one collection. *)
Collection(e) == ForGates(WithInsights(WithControls(WithCloud(WithAws(e)))))

(* What validate_assessment_artifacts.py reads of the collection.  What the       *)
(* generators write whatever they find is written here as what it is: readOnly    *)
(* and the counts of mutations, the schemas, no snapshots or log entries with     *)
(* contents.  The checks of those fields hold by that; the others can fail.       *)
Safe == [readOnly |-> TRUE, mutations |-> 0]
PublishedWith(c, reports, gates) ==
    [files |-> [f \in c.artifacts |-> "json"], comprehensiveVersion |-> <<4, 1>>, operationalVersion |-> <<1, 3>>,
     schemas |-> [f \in c.artifacts |-> "PASS"], completed |-> c.completed,
     status |-> IF c.completed THEN "COMPLETED" ELSE "PARTIAL",
     snapshots |-> {}, comprehensive |-> Safe, aws |-> Safe,
     configuration |-> [readOnly |-> TRUE, valuesPersisted |-> FALSE, annotationsPersisted |-> FALSE,
                        items |-> {[kind |-> o.kind, extraFields |-> {}]: o \in c.configuration.objects}],
     referencesState |-> Migration!ConfigurationState(reports.configuration), references |-> reports.configuration,
     probes |-> {[plain |-> TRUE]: p \in c.probes},     \* safe_probe_url
     decisions |-> {[status |-> Migration!Decision(gates), gates |-> {gates[g]: g \in DOMAIN gates}]},
     findings |-> {[severity |-> f.severity, identified |-> TRUE]: f \in c.aws.findings},
     quality |-> c.quality, controls |-> c.controls, score |-> Posture!Summary(c.controls).posture,
     nodeHealth |-> [state |-> c.nodeHealth, items |-> c.insights.items], manifestSchema |-> c.manifestSchema,
     logs |-> [collected |-> c.insights.logs = "COLLECTED", redaction |-> TRUE, entries |-> {}],
     cloud |-> c.cloud,
     cloudSafety |-> [readOnly |-> TRUE, mutations |-> 0, payloads |-> "omitted", forbiddenKeys |-> {},
                      operations |-> {"get", "list", "describe", "show"}],
     counts |-> [workloads |-> Len(c.documents), containers |-> 1, resourceTypes |-> 1]]
Published(c) ==
    PublishedWith(c, Migration!Generate(c), Migration!ReadinessGates(c, Migration!Generate(c)))

(* What provider_validation.py reads of it. *)
ProviderEvidence(c) ==
    [expected |-> c.expected, completed |-> c.completed, status |-> IF c.completed THEN "COMPLETED" ELSE "PARTIAL",
     sources |-> [kubernetes |-> c.platform, cloud |-> c.cloud.provider, insights |-> c.insights.platform],
     validator |-> IF Validation!Valid(Published(c)) THEN "ok" ELSE "failed",
     safety |-> [r \in {"comprehensive", "aws", "cloud", "cis", "insights"} |-> Safe],
     verbs |-> {"get", "list"}, operations |-> {"get", "list", "describe", "show"},
     protection |-> [credentials |-> "omitted", payloads |-> "omitted", identifiers |-> "omitted", forbiddenKeys |-> {}],
     cloud |-> c.cloud, operationalRules |-> c.insights.rules, controls |-> c.controls,
     quality |-> c.quality, resources |-> c.resources, budget |-> c.budget]

ProviderVerdict(c) == Provider!Validate(ProviderEvidence(c), ProviderLimits)

(* The verdicts that let work go on. *)
ApprovalsOf(source, target, mapping) ==
    {v \in {"cutover", "migration", "provider"}:
        CASE v = "cutover" -> Migration!Readiness(target) = "GO"
          [] v = "migration" -> Migration!Migration(source, target, mapping) = "GO"
          [] v = "provider" -> ProviderVerdict(target).releaseReady}
Approvals(pair) == ApprovalsOf(pair.source, Collection(pair.target), pair.mapping)

----------------------------------------------------------------------------
(* Evidence that can be lost between two collections of one cluster: what   *)
(* Weaker names.  Not among it: whole lists of routes of any kind,          *)
(* gateways, certificates, claims and manifests, nor single probes: a path, *)
(* a reference or claim that is not there cannot fail, and the code takes   *)
(* the loss for good news (blue_green_readiness.py:131-138, 383, 500, 558). *)

Without(set) == {set \ {x}: x \in set}
Dropped(f) == {[x \in DOMAIN f \ {y} |-> f[x]]: y \in DOMAIN f}

LostFromCluster(e) ==
    {[e EXCEPT !.requested = s]: s \in Without(e.requested)}
    \cup {[e EXCEPT !.listed = f]: f \in Dropped(e.listed)}
    \cup (UNION {{[e EXCEPT !.listed[k] = s]: s \in Without(e.listed[k])}: k \in DOMAIN e.listed})
    \cup {[e EXCEPT !.services = s]: s \in Without(e.services)}
    \cup {[e EXCEPT !.endpoints = s]: s \in Without(e.endpoints)}
    \cup {[e EXCEPT !.grants = s]: s \in Without(e.grants)}
    \cup {[e EXCEPT !.scope = [full |-> FALSE, namespaces |-> s]]:
            s \in IF e.scope.full THEN {e.scope.namespaces} ELSE Without(e.scope.namespaces)}
    \cup {[e EXCEPT !.inv.available = s]: s \in Without(e.inv.available)}
    \cup {[e EXCEPT !.backups = {}], [e EXCEPT !.snapshots = {}], [e EXCEPT !.nodes = <<>>, !.metrics = <<>>],
          [e EXCEPT !.api.state = "UNAVAILABLE"], [e EXCEPT !.catalog.asOf = Insight!None]}

LostFromReports(e) ==
    {[e EXCEPT !.manual.state = "ABSENT"], [e EXCEPT !.completed = FALSE]}
    \cup {[e EXCEPT !.kept = @ \ {r}]: r \in e.kept \cap {"readiness", "traffic", "probes"}}
    \cup {[e EXCEPT !.files = s]: s \in Without(e.files)}
    \cup {[e EXCEPT !.artifacts = s]: s \in Without(e.artifacts)}
    \cup {[e EXCEPT !.resources[r] = "UNAVAILABLE"]: r \in {x \in DOMAIN e.resources: e.resources[x] = "AVAILABLE"}}
    \cup {[e EXCEPT !.budget[m] = Insight!None]: m \in DOMAIN e.budget \ {"duration"}}

LostFromCloud(e) ==
    {[e EXCEPT !.account.answers[k].then = "denied"]:
        k \in {x \in DOMAIN e.account.answers: e.account.answers[x].then = "ok"}}
    \cup {[e EXCEPT !.account.answers[k].transient = e.account.retries + 1]: k \in DOMAIN e.account.answers}
    \cup {[e EXCEPT !.cli.answers[k] = "error"]: k \in DOMAIN e.cli.answers}
    \cup {[e EXCEPT !.cli.installed = FALSE], [e EXCEPT !.enabled = FALSE]}

Weaker(e, kind) ==
    (CASE kind = "cluster" -> LostFromCluster(e)
       [] kind = "reports" -> LostFromReports(e)
       [] kind = "cloud" -> LostFromCloud(e)) \ {e}

----------------------------------------------------------------------------
Unasked == [unasked |-> TRUE]

GatesInit ==
    \/ subject = "plan" /\ given \in Requests /\ answer = Unasked
    \/ subject = "collection" /\ given \in Pairs /\ answer = Approvals(given)
    \/ subject = "chain" /\ given \in {[origin |-> c, accepted |-> c]: c \in Candidates} /\ answer = Unasked
    \/ subject = "release" /\ given \in Downloads /\ answer = Unasked

(* build_plan on the request. *)
Ask ==
    /\ subject = "plan"
    /\ answer = Unasked
    /\ answer' = Plan!BuildPlan(given.registry, given.include, given.exclude)
    /\ UNCHANGED <<subject, given>>

(* Some evidence of the target is lost and everything is generated and judged again. *)
Withdraw ==
    /\ subject = "collection"
    /\ \E kind \in given.left:
          given' \in {[given EXCEPT !.target = e, !.left = @ \ {kind}]: e \in Weaker(given.target, kind)}
    /\ answer' = Approvals(given')
    /\ UNCHANGED subject

(* A candidate that the gate lets through becomes the next baseline. *)
Accept ==
    /\ subject = "chain"
    /\ \E c \in Candidates:
          /\ Regression!Evaluate(given.accepted, c, Policy).releaseReady
          /\ given' = [given EXCEPT !.accepted = c]
    /\ UNCHANGED <<subject, answer>>

(* release_verification.py on the download. *)
Verify ==
    /\ subject = "release"
    /\ answer = Unasked
    /\ answer' = [verified |-> Release!Verified(given.release, given.requireSignature)]
    /\ UNCHANGED <<subject, given>>

GatesNext == Ask \/ Withdraw \/ Accept \/ Verify

GatesSpec == GatesInit /\ [][GatesNext]_gatesVars

----------------------------------------------------------------------------
(* Every answer of build_plan is the least admissible plan or a refusal that *)
(* some rule of the registry forces (PlanIsLeast).                           *)
AnswersAreLeastPlans ==
    subject = "plan" /\ answer # Unasked =>
        Plan!PlanIsLeast(given.registry, given.include, given.exclude, answer)

(* Losing what Weaker names never makes a gate approve what it did not      *)
(* approve with it, through every report in between: a lost Service,        *)
(* endpoint, grant, namespace, metadata list, backup or metric, a denied or *)
(* failing call of the cloud, a missing report, artifact or declaration     *)
(* leaves each verdict as it is or takes it back (generate, evaluate and    *)
(* the gates of the three validations).  It is not so for what Weaker leaves *)
(* out, such as the whole list of routes or of manifests.                   *)
WithdrawnEvidenceNeverApproves ==
    [][subject = "collection" => answer' \subseteq answer]_gatesVars

(* validate_assessment_artifacts.py takes every complete collection with a   *)
(* score that the generators publish, whatever evidence there was: its       *)
(* decision on the gates, the passed controls, the references, the nodes and *)
(* the cloud rules, checks written apart from the generators, agree with     *)
(* them (what Published writes as constants agrees by that); and             *)
(* node_process_evidence.py counts each sample of a known label once.        *)
SamplesCountOnce(e) ==
    \A u \in Manifest!Usage:
        LET series == e.samples[u]
            known == {i \in DOMAIN series: series[i].value >= 0 /\ Manifest!NodeOf(e.nodes, series[i].label) # ""}
            attributed(n) == Manifest!Known(Manifest!NodeUsage(e.nodes, e.samples, n)[u])
        IN  MapThenSumSet(LAMBDA i: series[i].value, known)
                = MapThenSumSet(attributed, {e.nodes[i].name: i \in DOMAIN e.nodes})
Complete(e) ==
    /\ Validation!Required \cup Validation!ContractArtifacts \subseteq e.artifacts
    /\ e.documents # <<>>                               \* a cluster without workloads is refused
    /\ \A q \in DOMAIN e.quality: e.quality[q] = 0      \* no finding counted twice
    /\ \A i \in DOMAIN e.external: e.external[i].responsibility \in {"CUSTOMER", "CLOUD_PROVIDER", "SHARED"}
Scored(c) == Posture!Scored(c.controls) # {}            \* a score of nothing is refused
Sound(published) == Validation!Valid(published) /\ Validation!ContractVerdict(published) = "PASS"
ReportsAreSound ==
    subject = "collection" =>
        LET e == given.target
            c == Collection(e)
        IN  /\ Complete(e) /\ Scored(c) => Sound(Published(c))
            /\ SamplesCountOnce(e)

(* Under a profile without tolerance, releases accepted one after the other  *)
(* never carry a CRIT, WARN, UNKNOWN or PARTIAL finding the first of them did *)
(* not have as severe, never more CRIT or more WARN nodes than it, and no     *)
(* lower posture, through disappearances, returns and changes of severity.    *)
(* Nodes are only counted, and only those in CRIT and in WARN: which of them  *)
(* fail may change along the chain, or a PARTIAL one take the place of one    *)
(* that passed, because the gate compares the nodes both releases have        *)
(* (regression_validation.py:361-375).                                        *)
AcceptedChainsIntroduceNoRisk ==
    subject = "chain" /\ given.accepted # given.origin =>
        LET old == given.origin  new == given.accepted
            in(c, state) == Cardinality({n \in DOMAIN c.node.nodes: c.node.nodes[n] = state})
        IN  /\ \A f \in DOMAIN new.findings:
                  Regression!SeverityRank(new.findings[f]) >= 2 =>
                     /\ f \in DOMAIN old.findings
                     /\ Regression!SeverityRank(old.findings[f]) >= Regression!SeverityRank(new.findings[f])
            /\ in(new, "CRIT") <= in(old, "CRIT") /\ in(new, "WARN") <= in(old, "WARN")
            /\ Regression!PostureDelta(old.cis.controls, new.cis.controls) >= 0
            /\ Regression!Completed(new) /\ new.intact

(* A release put together from files of different builds is not verified:     *)
(* every packaged file is of one build, the checksum and the provenance are   *)
(* those of the archive at hand, and no other file was added but an SBOM.spdx.*)
MixedReleasesAreRefused ==
    subject = "release" /\ answer # Unasked =>
        LET archive == given.release.archive IN
        answer.verified =>
            /\ \E build \in {m.build: m \in archive.members}:
                  \A m \in Release!PackagedFiles(archive): m.build = build \/ m.name = "SBOM.spdx"
            /\ \E i \in DOMAIN given.release.checksums: given.release.checksums[i].digest = archive.digest
            /\ given.release.provenance # Release!Absent => given.release.provenance.digest = archive.digest
=============================================================================
