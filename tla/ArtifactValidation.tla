-------------------------- MODULE ArtifactValidation --------------------------
(***************************************************************************)
(* validate_assessment_artifacts.py, assessment_contracts.py and the       *)
(* checks they share: what makes a directory an acceptable collection.     *)
(* c.documents maps the artifacts on disk to what is read of them; one     *)
(* that is no JSON is "broken".  c.schemas maps artifacts to the verdict   *)
(* of their schema; versions are <<major, minor>>.                         *)
(***************************************************************************)
EXTENDS Integers, Sequences, FiniteSets

----------------------------------------------------------------------------
(* assessment_contracts.py                                                 *)

BlueGreenArtifacts ==
    {"configuration-references", "traffic-paths", "state-data-readiness", "migration-probes",
     "blue-green-readiness"}
TerminalRequired ==
    {"metadata", "comprehensive-assessment", "cis-security-assessment", "operational-insights",
     "application-manifests-sanitized"}
ContractArtifacts ==
    BlueGreenArtifacts \cup TerminalRequired \cup
    {"provider-validation", "regression-validation", "manifest-schema-validation",
     "node-process-evidence", "collector-state", "configuration-metadata", "migration-comparison",
     "migration-evidence"}

VersionAtLeast(version, minimum) ==
    \/ version[1] > minimum[1]
    \/ version[1] = minimum[1] /\ version[2] >= minimum[2]

TerminalCollection(c) == c.completed \/ c.status = "COMPLETED"

(* What a terminal collection of its schema versions must hold. *)
RequiredArtifacts(c) ==
    {"metadata"} \cup
    IF ~ TerminalCollection(c) THEN {}
    ELSE TerminalRequired
         \cup (IF VersionAtLeast(c.operationalVersion, <<1, 3>>) THEN {"manifest-schema-validation"} ELSE {})
         \cup (IF VersionAtLeast(c.comprehensiveVersion, <<4, 1>>) THEN BlueGreenArtifacts ELSE {})

ContractState(c, artifact) ==
    IF artifact \in DOMAIN c.schemas THEN c.schemas[artifact]
    ELSE IF artifact \in RequiredArtifacts(c) THEN "FAIL" ELSE "NOT_PRESENT"

ContractVerdict(c) ==
    IF \E artifact \in ContractArtifacts: ContractState(c, artifact) = "FAIL" THEN "FAIL" ELSE "PASS"

----------------------------------------------------------------------------
(* validate_assessment_artifacts.py                                        *)

Required ==
    {"metadata", "nodes", "pods", "workloads", "comprehensive-assessment",
     "application-manifests-sanitized", "api-resources", "universal-inventory", "aws-eks-assessment",
     "cloud-provider-assessment", "operational-insights"}

Files(c) ==
    /\ Required \subseteq DOMAIN c.files
    /\ VersionAtLeast(c.comprehensiveVersion, <<4, 1>>) => BlueGreenArtifacts \subseteq DOMAIN c.files
    /\ VersionAtLeast(c.operationalVersion, <<1, 3>>) => "manifest-schema-validation" \in DOMAIN c.files
    /\ "secrets-metadata" \notin DOMAIN c.files
    /\ \A f \in DOMAIN c.files: c.files[f] # "broken"

(* env: the variables of the snapshots that kept a value; literals: keys that hold data. *)
Redacted(snapshot) ==
    /\ \A e \in snapshot.env: e.value = "<redacted>" \/ (e.runtimeSetting /\ ~ e.sensitive /\ ~ e.long)
    /\ snapshot.literals = {} /\ ~ snapshot.eventMessages

ReadOnlyReport(report) == report.readOnly /\ report.mutations = 0

MetadataPolicy(configuration) ==
    /\ configuration.readOnly /\ ~ configuration.valuesPersisted /\ ~ configuration.annotationsPersisted
    /\ \A item \in configuration.items: item.kind \in {"ConfigMap", "Secret"} /\ item.extraFields = {}

(* The references a readiness report decides on. *)
ReferencesSound(state, rows) ==
    state = "PASS" => \A row \in rows: row.state = "RESOLVED"

ProbesSound(probes) == \A probe \in probes: probe.plain

(* A decision stands on its mandatory gates. *)
DecisionSound(status, gates) ==
    LET mandatory == {g.status: g \in {h \in gates: h.mandatory}}
    IN  /\ status = "GO" => mandatory \cap {"FAIL", "UNKNOWN", "EVIDENCE_UNAVAILABLE"} = {}
        /\ status = "NO_GO" => "FAIL" \in mandatory

Severities == {"CRIT", "WARN", "UNKNOWN", "PARTIAL", "INFO", "PASS", "N/A"}
FindingsSound(findings, quality) ==
    /\ \A f \in findings: f.severity \in Severities /\ f.identified
    /\ \A k \in DOMAIN quality: quality[k] = 0

CisControlSound(control) ==
    /\ control.applicability \in {"APPLICABLE", "NOT_APPLICABLE", "MANAGED_PROVIDER",
                                  "EVIDENCE_UNAVAILABLE", "MANUAL_REVIEW"}
    /\ control.responsibility \in {"CUSTOMER", "CLOUD_PROVIDER", "SHARED"}
    /\ control.applicability \in {"EVIDENCE_UNAVAILABLE", "MANUAL_REVIEW"} => control.status # "PASS"

(* A node is healthy by its Ready condition and the Metrics API. *)
NodeHealthSound(health) ==
    /\ health.state \in {"PASS", "WARN", "CRIT", "PARTIAL", "EVIDENCE_UNAVAILABLE"}
    /\ \A n \in health.items: n.state = "PASS" => n.ready /\ n.metrics = "MetricsAPI"

ManifestSchemaSound(state) == state \in {"PASS", "WARN", "FAIL", "PARTIAL", "EVIDENCE_UNAVAILABLE"}

LogsSound(logs) == (logs.collected => logs.redaction) /\ \A e \in logs.entries: ~ e.credential

CloudReportSound(report) ==
    /\ report.provider \in {"eks", "aks", "gke", "generic-kubernetes"}
    /\ report.state \notin {"AVAILABLE", "PARTIAL"} => \A r \in report.rules: r.status # "PASS"

CloudSafety(safety) ==
    /\ ReadOnlyReport(safety) /\ safety.payloads = "omitted" /\ safety.forbiddenKeys = {}
    /\ safety.operations \subseteq {"get", "list", "describe", "show"}

InventorySound(counts) == counts.workloads > 0 /\ counts.containers > 0 /\ counts.resourceTypes > 0

(* main, each check on the report it reads.  Left out, constants of the generators *)
(* all of them: readOnly and policy of references (153-157), readOnly of paths,    *)
(* state, probes and gates, no context beside a comparison (161-186), the notice,  *)
(* weights and coverage of CIS (205-216), the domains of the operational report    *)
(* (218-222), the keys of the identities in the universal inventory (270-274).     *)
Valid(c) ==
    /\ Files(c)
    /\ \A s \in c.snapshots: Redacted(s)
    /\ ReadOnlyReport(c.comprehensive) /\ c.comprehensiveVersion[1] = 4
    /\ MetadataPolicy(c.configuration)
    /\ ReferencesSound(c.referencesState, c.references) /\ ProbesSound(c.probes)
    /\ \A d \in c.decisions: DecisionSound(d.status, d.gates)
    /\ FindingsSound(c.findings, c.quality)
    /\ ReadOnlyReport(c.aws)
    /\ \A id \in DOMAIN c.controls: CisControlSound(c.controls[id])
    /\ c.score # -1
    /\ NodeHealthSound(c.nodeHealth) /\ ManifestSchemaSound(c.manifestSchema) /\ LogsSound(c.logs)
    /\ CloudReportSound(c.cloud) /\ CloudSafety(c.cloudSafety)
    /\ InventorySound(c.counts)
=============================================================================
