-------------------------- MODULE OperationalInsights --------------------------
(***************************************************************************)
(* operational_insights.py: the health of nodes, the versions, rules and   *)
(* logs of one collection (the lists it only sorts and shows are left out).*)
(* A quantity is a function from "cpu" and "memory" to numbers; None is    *)
(* one that is missing.                                                    *)
(***************************************************************************)
EXTENDS CloudEvidence, Sequences, FiniteSetsExt, SequencesExt

Resources == {"cpu", "memory"}
Nothing == [r \in Resources |-> 0]
Amount(value) == IF value = None THEN 0 ELSE value
Plus(a, b) == [r \in Resources |-> a[r] + Amount(b[r])]
Greater(a, b) == [r \in Resources |-> IF a[r] >= b[r] THEN a[r] ELSE b[r]]
Total(quantities) == FoldLeft(Plus, Nothing, quantities)

----------------------------------------------------------------------------
(* Requests of a pod: sidecars stay while the init containers after them run. *)

InitPeak(inits) ==
    LET step(acc, c) ==
            LET load == Plus(acc.restartable, c.request)
            IN  [restartable |-> IF c.sidecar THEN load ELSE acc.restartable, peak |-> Greater(acc.peak, load)]
    IN  FoldLeft(step, [restartable |-> Nothing, peak |-> Nothing], inits)

PodRequests(pod) ==
    LET init == InitPeak(pod.inits)
        running == Plus(Total(pod.containers), init.restartable)
    IN  Plus(Greater(Greater(running, init.peak), Plus(Nothing, pod.podLevel)), pod.overhead)

----------------------------------------------------------------------------
(* node_health                                                             *)

Scheduled(pods, name) == {p \in pods: p.node = name /\ p.phase \notin {"Succeeded", "Failed"}}
NodeRequests(pods, name) ==
    [r \in Resources |-> MapThenSumSet(LAMBDA p: PodRequests(p)[r], Scheduled(pods, name))]

(* A running pod is measured when every container of its metric has both values. *)
Expected(pods, name) == {p \in Scheduled(pods, name): p.phase = "Running"}
Measured(pods, name) == {p \in Expected(pods, name): p.measured}

MetricComplete(usage) == \A r \in Resources: usage[r] # None

(* A share of the allocatable: nothing when either is missing. *)
Reaches(value, reference, percent) ==
    value # None /\ reference \notin {None, 0} /\ value * 100 >= percent * reference

Thresholds ==
    [cpu |-> [warn |-> 85, crit |-> 95], memory |-> [warn |-> 80, crit |-> 90],
     requests |-> [warn |-> 85, crit |-> 100], pods |-> [warn |-> 80, crit |-> 95]]

(* level is "warn" or "crit". *)
OverLevel(node, pods, usage, level) ==
    \/ \E r \in Resources: /\ MetricComplete(usage)
                           /\ Reaches(usage[r], node.allocatable[r], Thresholds[r][level])
    \/ \E r \in Resources: Reaches(NodeRequests(pods, node.name)[r], node.allocatable[r], Thresholds.requests[level])
    \/ Reaches(Cardinality(Scheduled(pods, node.name)), node.podCapacity, Thresholds.pods[level])

Pressures == {"MemoryPressure", "DiskPressure", "PIDPressure", "NetworkUnavailable"}
Incomplete(node, pods, usage) ==
    \/ "Ready" \notin DOMAIN node.conditions
    \/ ~ ({"MemoryPressure", "DiskPressure", "PIDPressure"} \subseteq DOMAIN node.conditions)
    \/ None \in {node.allocatable.cpu, node.allocatable.memory, node.podCapacity}
    \/ ~ MetricComplete(usage)
    \/ Measured(pods, node.name) # Expected(pods, node.name)

NodeState(node, pods, usage) ==
    LET unready == "Ready" \in DOMAIN node.conditions /\ node.conditions["Ready"] # "True"
        pressed == \E c \in Pressures \cap DOMAIN node.conditions: node.conditions[c] = "True"
    IN  IF unready \/ pressed \/ OverLevel(node, pods, usage, "crit") THEN "CRIT"
        ELSE IF OverLevel(node, pods, usage, "warn") THEN "WARN"
        ELSE IF Incomplete(node, pods, usage) THEN "PARTIAL" ELSE "PASS"

(* metrics maps the nodes the Metrics API returned to their usage. *)
UsageOf(metrics, name) ==
    IF name \in DOMAIN metrics THEN metrics[name] ELSE [r \in Resources |-> None]

NodeHealth(nodes, pods, metrics) ==
    LET states == {NodeState(n, pods, UsageOf(metrics, n.name)): n \in nodes}
    IN  IF nodes = {} THEN "EVIDENCE_UNAVAILABLE"
        ELSE IF "CRIT" \in states THEN "CRIT" ELSE IF "WARN" \in states THEN "WARN"
        ELSE IF "PARTIAL" \in states THEN "PARTIAL" ELSE "PASS"

NodeHealthItems(nodes, pods, metrics) ==
    {[state |-> NodeState(n, pods, UsageOf(metrics, n.name)),
      ready |-> "Ready" \in DOMAIN n.conditions /\ n.conditions["Ready"] = "True",
      metrics |-> IF MetricComplete(UsageOf(metrics, n.name)) THEN "MetricsAPI" ELSE "EVIDENCE_UNAVAILABLE"]:
        n \in nodes}

----------------------------------------------------------------------------
(* versions, rules and logs                                                *)

VersionSkew(nodes) == Cardinality({n.version: n \in nodes}) > 1

(* The support states of the control plane and the nodes, by the catalog. *)
SupportStates(controlPlane, nodes, lifecycle) == {controlPlane} \cup {lifecycle[n.version]: n \in nodes}

(* A provider's rules: the evidence of the cloud report, or a manual review, or not applicable. *)
ProviderRules(detected, cloudRules) ==
    {[provider |-> p, status |-> "N/A", applicability |-> "NOT_APPLICABLE"]: p \in {"eks", "aks", "gke"} \ {detected}}
    \cup (IF detected \notin {"eks", "aks", "gke"} THEN {}
          ELSE IF cloudRules = {} THEN {Rule(detected, "MANUAL")}
          ELSE {[r EXCEPT !.provider = detected]: r \in cloudRules})

(* Logs need an opt-in and targets; an invalid target is told and skipped. *)
LogEntry(target) ==
    IF ~ target.valid THEN "INVALID" ELSE IF target.answers THEN "COLLECTED" ELSE "UNAVAILABLE"
LogsState(enabled, targets) ==
    IF ~ enabled THEN "DISABLED" ELSE IF targets = {} THEN "REFUSED"
    ELSE IF "COLLECTED" \in {LogEntry(t): t \in targets} THEN "COLLECTED" ELSE "UNAVAILABLE"

(* generate: the platform is the cloud report's, or else detected. *)
Insights(c) ==
    LET detected == IF c.cloud.provider # "" THEN c.cloud.provider ELSE DetectedPlatform(c.hints)
    IN  [platform |-> detected, nodeHealth |-> NodeHealth(c.nodes, c.pods, c.metrics),
         items |-> NodeHealthItems(c.nodes, c.pods, c.metrics), skew |-> VersionSkew(c.nodes),
         rules |-> ProviderRules(detected, c.cloud.rules), logs |-> LogsState(c.logs, c.targets)]
=============================================================================
