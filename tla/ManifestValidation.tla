-------------------------- MODULE ManifestValidation --------------------------
(***************************************************************************)
(* manifest_schema_validation.py over the sanitized manifests, and         *)
(* node_process_evidence.py over the values Prometheus returns.            *)
(***************************************************************************)
EXTENDS Integers, Sequences, FiniteSets, FiniteSetsExt

Selecting == {"Deployment", "StatefulSet", "DaemonSet", "ReplicaSet"}
Templated == Selecting \cup {"Job", "CronJob", "Pod"}
Specless == {"Namespace", "ConfigMap", "Secret", "ServiceAccount", "Role", "RoleBinding"}

Finding(rule, severity) == [rule |-> rule, severity |-> severity]

(* Of manifests with one namespace, kind and name the first alone is checked. *)
Identity(m) == <<m.ns, m.kind, m.name>>
Checked(manifests) ==
    {manifests[i]: i \in {j \in DOMAIN manifests:
                             \A k \in 1..j - 1: Identity(manifests[k]) # Identity(manifests[j])}}

Identified(m) == m.apiVersion # "" /\ m.kind # "" /\ m.name # ""

ApiFindings(m, api) ==
    (IF m.deprecated THEN {Finding("deprecated-api", "WARN")} ELSE {})
    \cup (IF api.state = "AVAILABLE" /\ m.resource \notin api.served
          THEN {Finding("api-not-served", "WARN")} ELSE {})

(* containers is the sequence of [name, image] of the pod template. *)
ContainerFindings(m) ==
    IF m.containers = <<>> THEN {Finding("containers", "CRIT")}
    ELSE (IF \E i \in DOMAIN m.containers:
                \/ m.containers[i].name = ""
                \/ \E j \in 1..i - 1: m.containers[j].name = m.containers[i].name
          THEN {Finding("container-name", "CRIT")} ELSE {})
         \cup (IF \E i \in DOMAIN m.containers: ~ m.containers[i].image
               THEN {Finding("container-image", "CRIT")} ELSE {})

SpecFindings(m) ==
    IF m.kind \notin Specless /\ ~ m.spec THEN {Finding("spec-required", "CRIT")}
    ELSE (IF m.kind \in Selecting /\ (m.selector = {} \/ ~ (m.selector \subseteq m.labels))
          THEN {Finding("selector-labels", "CRIT")} ELSE {})
         \cup (IF m.kind = "Service" /\ m.selector = {} /\ ~ m.externalName
               THEN {Finding("service-selector", "WARN")} ELSE {})
         \cup (IF m.kind \in Templated THEN ContainerFindings(m) ELSE {})

ManifestFindings(m, api) ==
    IF ~ Identified(m) THEN {Finding("required-fields", "CRIT")} ELSE ApiFindings(m, api) \cup SpecFindings(m)

(* evaluate_collection never says PASS: the OpenAPI schema is not there to check with. *)
ManifestState(manifests, api) ==
    LET severities == {f.severity: f \in UNION {ManifestFindings(m, api): m \in Checked(manifests)}}
    IN  IF "CRIT" \in severities THEN "FAIL" ELSE IF "WARN" \in severities THEN "WARN" ELSE "PARTIAL"

----------------------------------------------------------------------------
(* Usage by node.  An answer is a query that failed or a sequence of       *)
(* series [labels, value]; a value that is no number is None.              *)

None == -1
Usage == {"hostCpu", "containerCpu", "runtimeCpu", "hostMemory", "containerMemory", "runtimeMemory"}

(* Later nodes take the name of an address over; nodes is a sequence. *)
NodeOf(nodes, label) ==
    LET owners == {i \in DOMAIN nodes: label = nodes[i].name \/ label \in nodes[i].addresses}
    IN  IF owners = {} THEN "" ELSE nodes[Max(owners)].name

SeriesOf(nodes, answer, node) ==
    {i \in DOMAIN answer: answer[i].value >= 0 /\ NodeOf(nodes, answer[i].label) = node}
NodeUsage(nodes, answers, node) ==
    [u \in Usage |->
        LET series == SeriesOf(nodes, answers[u], node)
        IN  IF series = {} THEN None ELSE MapThenSumSet(LAMBDA i: answers[u][i].value, series)]

Known(value) == IF value = None THEN 0 ELSE value
=============================================================================
