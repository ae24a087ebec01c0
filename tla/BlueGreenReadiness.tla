------------------------- MODULE BlueGreenReadiness -------------------------
(***************************************************************************)
(* blue_green_readiness.py: what one collection proves about a cut-over.   *)
(* A collection is a record with one field per artifact the module reads;  *)
(* an artifact that is missing reads as an empty set, as load and items    *)
(* make it.                                                                *)
(***************************************************************************)
EXTENDS Naturals, Sequences, FiniteSets, FiniteSetsExt, SequencesExt

(* The first state of the order that occurs; PASS when none does. *)
FirstOf(order, states) ==
    LET found == {i \in DOMAIN order: order[i] \in states}
    IN  IF found = {} THEN "PASS" ELSE order[Min(found)]

Gate(status, mandatory) == [status |-> status, mandatory |-> mandatory]
Mandatory(gates) == {gates[g].status: g \in {h \in DOMAIN gates: gates[h].mandatory}}

(* A list, a name or "*": the namespaces the collection was limited to. *)
InScope(c, ns) == c.scope.full \/ ns \in c.scope.namespaces

(* migration-evidence.json, written by people: "yes", "no" or "absent" per field. *)
ManualFields == {"dns", "loadBalancer", "restoreTested", "schema", "jobs", "rollback", "replication"}
NothingDeclared == [f \in ManualFields |-> "absent"]
ManualState(c) == c.manual.state
ManualEvidence(c) == IF ManualState(c) = "VALID" THEN c.manual.declared ELSE NothingDeclared

(* yes proves the gate, no disproves it, and nothing else decides it. *)
Declared(answer, otherwise) ==
    CASE answer = "yes" -> "PASS" [] answer = "no" -> "FAIL" [] OTHER -> otherwise

----------------------------------------------------------------------------
(* Configuration references: an object's refs is the sequence of Secrets   *)
(* and ConfigMaps it names, in the order the specification is read.        *)

(* The whole manifests, or else the lists of controllers. *)
WorkloadDocuments(c) == IF c.manifests # {} THEN c.manifests ELSE c.workloads

References(c) ==
    {o.refs: o \in WorkloadDocuments(c) \cup c.ingresses \cup c.gateways
                   \cup c.istioGateways \cup c.certificates}

(* Two references of one place to one key are one row: the later one stays. *)
Place(ref) == <<ref.source, ref.container, ref.kind, ref.ns, ref.name, ref.key, ref.usage>>
LastPerPlace(refs) ==
    {refs[i]: i \in {j \in DOMAIN refs: \A k \in DOMAIN refs: k > j => Place(refs[k]) # Place(refs[j])}}

(* Fault: what could not be listed counts as an optional reference that is missing. *)
ReferenceStateOptimistic(c, ref) ==
    LET found == {o \in c.configuration.objects:
                     o.kind = ref.kind /\ o.ns = ref.ns /\ o.name = ref.name /\ (ref.key = "" \/ ref.key \in o.keys)}
    IN  IF found # {} THEN "RESOLVED"
        ELSE IF ref.optional \/ ref.kind \notin c.configuration.available THEN "WARN" ELSE "MISSING"

ReferenceState(c, ref) ==
    LET found == {o \in c.configuration.objects:
                     o.kind = ref.kind /\ o.ns = ref.ns /\ o.name = ref.name}
        complete == \E o \in found: ref.key = "" \/ ref.key \in o.keys
    IN  IF ref.kind \notin c.configuration.available THEN "EVIDENCE_UNAVAILABLE"
        ELSE IF complete THEN "RESOLVED"
        ELSE IF ref.optional THEN "WARN" ELSE "MISSING"

ConfigurationRows(c) ==
    {[ref |-> ref, state |-> ReferenceState(c, ref)]:
        ref \in UNION {LastPerPlace(refs): refs \in References(c)}}

(* Fault: only what blocks is looked for. *)
ConfigurationStateOfBlocking(rows) ==
    CASE \E row \in rows: row.state = "MISSING" -> "FAIL"
      [] \E row \in rows: row.state = "EVIDENCE_UNAVAILABLE" -> "EVIDENCE_UNAVAILABLE"
      [] OTHER -> "PASS"

ConfigurationState(rows) ==
    LET worst == FirstOf(<<"MISSING", "EVIDENCE_UNAVAILABLE", "WARN">>, {row.state: row \in rows})
    IN  IF worst = "MISSING" THEN "FAIL" ELSE worst

----------------------------------------------------------------------------
(* Traffic paths                                                           *)

ReadyEndpoints(c, ns, name) ==
    {e \in c.endpoints: e.ns = ns /\ e.service = name /\ e.ready}

ServiceTarget(c, to, inScope) ==
    LET found == {s \in c.services: s.ns = to.ns /\ s.name = to.name}
    IN  IF found = {} THEN IF inScope THEN "FAIL" ELSE "UNKNOWN"
        ELSE IF \E s \in found: /\ to.port = "" \/ to.port \in s.ports
                                /\ ReadyEndpoints(c, to.ns, to.name) # {} \/ ~ s.selector
             THEN "PASS" ELSE "FAIL"

ReferenceGranted(c, route, to) ==
    \E g \in c.grants: /\ g.ns = to.ns
                       /\ \E f \in g.from: f.kind = route.kind /\ f.ns = route.ns
                       /\ \E t \in g.to: t \in {"", to.name}

(* parentRef and allowedRoutes of one parent. *)
ParentState(c, route, parent) ==
    LET gateway == {g \in c.gateways: g.ns = parent.ns /\ g.name = parent.name}
        listeners == UNION {{l \in g.listeners: parent.section \in {"", l.name}}: g \in gateway}
        policies == {l.from: l \in listeners}
    IN  IF gateway = {} THEN IF InScope(c, parent.ns) THEN "FAIL" ELSE "UNKNOWN"
        ELSE IF parent.section # "" /\ listeners = {} THEN "FAIL"
        ELSE IF parent.ns = route.ns \/ "All" \in policies THEN "PASS"
        ELSE IF "Selector" \in policies THEN "UNKNOWN" ELSE "FAIL"

(* The conditions that are True, of any parent. *)
AcceptanceState(route) ==
    IF route.conditions = {} THEN "UNKNOWN"
    ELSE IF {"Accepted", "ResolvedRefs"} \subseteq route.conditions THEN "PASS" ELSE "FAIL"

BackendState(c, route, to) ==
    IF to.kind # "Service" THEN "UNKNOWN"
    ELSE IF to.ns # route.ns /\ ~ ReferenceGranted(c, route, to)
         THEN IF InScope(c, to.ns) THEN "FAIL" ELSE "UNKNOWN"
         ELSE ServiceTarget(c, to, InScope(c, to.ns))

(* UNKNOWN stands for a list that has nothing to check. *)
OrUnknown(states) == IF states = {} THEN {"UNKNOWN"} ELSE states

RouteStatus(states) == FirstOf(<<"FAIL", "UNKNOWN", "WARN">>, states)

IngressPath(c, ingress, path) ==
    RouteStatus({ServiceTarget(c, path.to, TRUE), IF path.tls THEN "PASS" ELSE "WARN"})

RoutePath(c, route, rule) ==
    RouteStatus(OrUnknown({ParentState(c, route, p): p \in route.parents})
                \cup {AcceptanceState(route)}
                \cup OrUnknown({BackendState(c, route, to): to \in rule}))

IstioGatewayState(c, g) ==
    IF \E x \in c.istioGateways: x.ns = g.ns /\ x.name = g.name THEN "PASS"
    ELSE IF InScope(c, g.ns) THEN "FAIL" ELSE "UNKNOWN"

(* DestinationRules are a list: of those of one namespace and host the last one   *)
(* counts.  The route's namespace is read first, then the target's.               *)
SubsetKnown(c, vs, d) ==
    LET rules == c.destinationRules
        of(ns) == {i \in DOMAIN rules: rules[i].ns = ns /\ rules[i].host = d.host}
        subsets(ns) == IF of(ns) = {} THEN {} ELSE rules[Max(of(ns))].subsets
    IN  d.subset \in (IF subsets(vs.ns) # {} THEN subsets(vs.ns) ELSE subsets(d.ns))

DestinationState(c, vs, d) ==
    IF d.subset # "" /\ ~ SubsetKnown(c, vs, d) THEN "FAIL"
    ELSE ServiceTarget(c, d, InScope(c, d.ns))

(* Weights that are given make a hundred. *)
WeightStates(destinations) ==
    LET weighted == {d \in destinations: d.weighted}
    IN  IF weighted # {} /\ MapThenSumSet(LAMBDA d: d.weight, weighted) # 100 THEN {"FAIL"} ELSE {}

VirtualServicePath(c, vs, destinations) ==
    RouteStatus({IstioGatewayState(c, g): g \in vs.gateways}
                \cup OrUnknown({DestinationState(c, vs, d): d \in destinations})
                \cup WeightStates(destinations))

Paths(c) ==
    (UNION {{IngressPath(c, i, p): p \in i.paths}: i \in c.ingresses})
    \cup (UNION {{RoutePath(c, r, rule): rule \in r.rules}: r \in c.routes})
    \cup (UNION {{VirtualServicePath(c, v, ds): ds \in v.routes}: v \in c.virtualServices})
    \cup {ServiceTarget(c, r.to, TRUE): r \in c.openshiftRoutes}

TrafficState(c) == IF Paths(c) = {} THEN "N/A" ELSE RouteStatus(Paths(c))

----------------------------------------------------------------------------
(* State and data                                                          *)

(* A controller with claims, or a data server by its image that is no client. *)
StatefulWorkloads(c) ==
    {w \in WorkloadDocuments(c): \/ w.kind = "StatefulSet" \/ w.claims
                                 \/ w.dataImage /\ ~ w.clientOnly}
Jobs(c) == {w \in WorkloadDocuments(c): w.kind \in {"Job", "CronJob"}}

StateDataGates(c) ==
    LET declared == ManualEvidence(c)
        stateful == StatefulWorkloads(c) # {}
        missing(required) == IF required THEN "UNKNOWN" ELSE "N/A"
        health(objects, required) ==
            IF \E o \in objects: ~ o.healthy THEN "FAIL"
            ELSE IF objects # {} THEN "PASS" ELSE missing(required)
        people(field) == Gate(Declared(declared[field], missing(stateful)), stateful)
    IN  [pvcBound |-> Gate(IF \E p \in c.pvcs: ~ p.bound THEN "FAIL" ELSE "PASS", TRUE),
         backups |-> Gate(health(c.backups, stateful), stateful),
         snapshots |-> Gate(health(c.snapshots, c.pvcs # {}), c.pvcs # {}),
         replication |-> people("replication"),
         restore |-> people("restoreTested"),
         schema |-> people("schema"),
         rollback |-> people("rollback"),
         jobs |-> Gate(IF declared.jobs = "yes" THEN "PASS" ELSE missing(Jobs(c) # {}), Jobs(c) # {})]

StateData(c) ==
    [state |-> FirstOf(<<"FAIL", "UNKNOWN">>, Mandatory(StateDataGates(c))),
     relevant |-> StatefulWorkloads(c) # {} \/ Jobs(c) # {}]

----------------------------------------------------------------------------
(* Probes: requested by URL, answered with a class of status and a latency. *)

ProhibitedHost(probe) == probe.host = "metadata"
ProbeAllowed(probe) == probe.plain /\ ~ ProhibitedHost(probe) /\ probe.address = "routable"
ProbeState(probe) ==
    IF ~ ProbeAllowed(probe) \/ probe.answer \notin {"2xx", "3xx"} THEN "FAIL"
    ELSE IF probe.slow THEN "WARN" ELSE "PASS"

ProbesState(probes) ==
    IF probes = {} THEN "DISABLED" ELSE FirstOf(<<"FAIL", "WARN">>, {ProbeState(p): p \in probes})

----------------------------------------------------------------------------
(* aggregate_readiness                                                     *)

NodeGateState(state) ==
    CASE state \in {"PASS", "WARN"} -> state [] state = "CRIT" -> "FAIL" [] OTHER -> "UNKNOWN"

(* Both checks of the cut-over declared, or one denied. *)
CutoverState(declared) ==
    IF {declared.dns, declared.loadBalancer} = {"yes"} THEN "PASS"
    ELSE IF "no" \in {declared.dns, declared.loadBalancer} THEN "FAIL" ELSE "UNKNOWN"

Generate(c) ==
    [configuration |-> ConfigurationRows(c),
     traffic |-> [state |-> TrafficState(c), paths |-> Paths(c) # {}],
     stateData |-> StateData(c), probes |-> ProbesState(c.probes)]

ReadinessGates(c, reports) ==
    [configuration |-> Gate(ConfigurationState(reports.configuration), TRUE),
     traffic |-> Gate(reports.traffic.state, reports.traffic.state # "N/A"),
     stateData |-> Gate(reports.stateData.state, reports.stateData.relevant),
     nodes |-> Gate(NodeGateState(c.nodeHealth), TRUE),
     probes |-> Gate(reports.probes, reports.probes # "DISABLED"),
     cutover |-> Gate(CutoverState(ManualEvidence(c)), TRUE),
     contract |-> Gate(IF ManualState(c) = "INVALID" THEN "FAIL" ELSE "PASS",
                       ManualState(c) = "INVALID")]

Decision(gates) ==
    IF "FAIL" \in Mandatory(gates) THEN "NO_GO"
    ELSE IF Mandatory(gates) \cap {"UNKNOWN", "EVIDENCE_UNAVAILABLE"} # {} THEN "UNKNOWN" ELSE "GO"

Readiness(c) == Decision(ReadinessGates(c, Generate(c)))
=============================================================================
