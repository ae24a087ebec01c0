--------------------------- MODULE MigrationGate ---------------------------
(***************************************************************************)
(* migration_compare.py: a source collection against a target collection   *)
(* under a mapping.  c.kept names the readiness reports that are on disk;  *)
(* c.files the optional artifacts whose absence is told from emptiness.    *)
(***************************************************************************)
EXTENDS BlueGreenReadiness

Id(o) == [kind |-> o.kind, ns |-> o.ns, name |-> o.name]
Ids(objects) == {Id(o): o \in objects}

(* mapping.namespaces and mapping.resources are partial functions; a resource *)
(* value leaves "" what it does not spell out.                                *)
MappedNamespace(mapping, ns) ==
    IF ns \in DOMAIN mapping.namespaces THEN mapping.namespaces[ns] ELSE ns

MappedResource(mapping, id) ==
    LET to == IF id \in DOMAIN mapping.resources THEN mapping.resources[id]
              ELSE [kind |-> "", ns |-> "", name |-> id.name]
    IN  [kind |-> IF to.kind = "" THEN id.kind ELSE to.kind,
         ns |-> IF to.ns = "" THEN MappedNamespace(mapping, id.ns) ELSE to.ns,
         name |-> to.name]

Parity(source, target, mapping) == {id \in source: MappedResource(mapping, id) \notin target}

(* A report that is not on disk reads as empty; without the readiness itself *)
(* all of them are generated again, without probes.                          *)
Reports(c) ==
    LET fresh == Generate(c)
        empty == [configuration |-> {}, traffic |-> [state |-> "absent", paths |-> FALSE],
                  stateData |-> [state |-> "absent", relevant |-> FALSE], probes |-> "absent"]
    IN  IF "readiness" \in c.kept
        THEN [r \in DOMAIN fresh |-> IF r \in c.kept THEN fresh[r] ELSE empty[r]]
        ELSE Generate([c EXCEPT !.probes = {}])

----------------------------------------------------------------------------
(* Parity of what is deployed                                              *)

WorkloadInventory(c) == {w \in c.manifests: w.kind # "Pod"}
Counterparts(o, objects, mapping) == {p \in objects: Id(p) = MappedResource(mapping, Id(o))}

Differs(old, new, mapping) ==
    {f \in {"image", "replicas", "serviceAccount"}: old[f] # new[f]}

WorkloadParity(source, target, mapping) ==
    LET old == WorkloadInventory(source)
        new == WorkloadInventory(target)
        differences == UNION {UNION {Differs(o, n, mapping): n \in Counterparts(o, new, mapping)}: o \in old}
    IN  IF \/ Parity(Ids(old), Ids(new), mapping) # {}
           \/ ~ (differences \subseteq mapping.allowed) THEN "FAIL"
        ELSE IF differences # {} THEN "WARN" ELSE "PASS"

ServiceParity(source, target, mapping) ==
    LET same(o, n) == o.type = n.type /\ o.ports = n.ports /\ o.headless = n.headless
    IN  IF \A o \in source.services: \E n \in Counterparts(o, target.services, mapping): same(o, n)
        THEN "PASS" ELSE "FAIL"

(* NetworkPolicies, disruption budgets and autoscalers. *)
PolicyParity(source, target, mapping) ==
    IF Parity(Ids(source.policies), Ids(target.policies), mapping) # {} THEN "FAIL"
    ELSE IF source.policies # {} THEN "PASS" ELSE "N/A"

(* Storage classes are mapped by name, as cluster-scoped objects. *)
StorageParity(source, target, mapping) ==
    LET class(name) == [kind |-> "StorageClass", ns |-> "-", name |-> name]
        wanted == {MappedResource(mapping, class(p.class)).name: p \in {q \in source.pvcs: q.class # ""}}
        offered == IF "storageclasses" \in target.files THEN target.storageClasses ELSE {}
    IN  IF Parity(Ids(source.pvcs), Ids(target.pvcs), mapping) # {} \/ wanted \ offered # {} THEN "FAIL"
        ELSE IF source.pvcs = {} THEN "N/A"
        ELSE IF {"pvcs", "storageclasses"} \subseteq target.files THEN "PASS" ELSE "UNKNOWN"

WorkloadIdentity(target) ==
    LET required == {<<w.ns, w.serviceAccount>>: w \in WorkloadInventory(target)}
    IN  IF required = {} THEN "N/A"
        ELSE IF "serviceaccounts" \notin target.files THEN "UNKNOWN"
        ELSE IF required \subseteq target.serviceAccounts THEN "PASS" ELSE "FAIL"

(* References by what they point to, the source's through the mapping. *)
Required(rows) == {row \in rows: ~ row.ref.optional}
Pointed(row) == [kind |-> row.ref.kind, ns |-> row.ref.ns, name |-> row.ref.name]

ConfigurationParity(old, new, mapping) ==
    LET wanted == {<<MappedResource(mapping, Pointed(r)), r.ref.key>>: r \in Required(old.configuration)}
        there == Required(new.configuration)
        states == {r.state: r \in there}
    IN  IF \/ wanted \ {<<Pointed(r), r.ref.key>>: r \in there} # {}
           \/ "MISSING" \in states THEN "FAIL"
        ELSE IF "EVIDENCE_UNAVAILABLE" \in states THEN "UNKNOWN" ELSE "PASS"

----------------------------------------------------------------------------
(* What the target proves about itself                                     *)

ApiLifecycle(target) ==
    IF target.manifestSchema = "FAIL" \/ target.endOfSupport \/ target.skew THEN "FAIL"
    ELSE IF target.manifestSchema \in {"EVIDENCE_UNAVAILABLE", "UNKNOWN"} \/ ~ target.versions THEN "UNKNOWN"
    ELSE IF target.manifestSchema \in {"WARN", "PARTIAL"} \/ target.lifecycleUnknown THEN "WARN"
    ELSE "PASS"

TrafficReadiness(old, new) ==
    IF new.state = "FAIL" THEN "FAIL"
    ELSE IF new.state \in {"UNKNOWN", "absent"} \/ (old.paths /\ ~ new.paths) THEN "UNKNOWN"
    ELSE IF new.state = "WARN" THEN "WARN"
    ELSE "PASS"

StateDataGate(report) ==
    Gate(CASE report.state = "FAIL" -> "FAIL"
           [] report.state \in {"UNKNOWN", "absent"} -> "UNKNOWN"
           [] OTHER -> "PASS",
         report.relevant)

SecurityPosture(target) ==
    LET warned == {k \in target.cis: k.status \in {"WARN", "FAIL"} /\ k.applicability = "APPLICABLE"}
        unclear == {k \in target.cis: \/ k.status \in {"UNKNOWN", "PARTIAL"}
                                      \/ k.applicability \in {"EVIDENCE_UNAVAILABLE", "MANUAL_REVIEW"}}
    IN  IF warned # {} THEN "WARN" ELSE IF target.cis = {} \/ unclear # {} THEN "UNKNOWN" ELSE "PASS"

Observability(target) ==
    CASE target.prometheus = "AVAILABLE" -> "PASS"
      [] target.prometheus = "PARTIAL" -> "WARN"
      [] OTHER -> "UNKNOWN"

CutoverProbes(state) == IF state \in {"FAIL", "WARN", "PASS"} THEN state ELSE "UNKNOWN"

ManualContract(target) ==
    CASE ManualState(target) = "INVALID" -> "FAIL"
      [] ManualState(target) = "VALID" -> "PASS"
      [] OTHER -> "UNKNOWN"

(* old and new are the reports kept of source and target. *)
MigrationGates(source, target, mapping, old, new) ==
    [collections |-> Gate(IF source.completed /\ target.completed THEN "PASS" ELSE "FAIL", TRUE),
     workloads |-> Gate(WorkloadParity(source, target, mapping), TRUE),
     services |-> Gate(ServiceParity(source, target, mapping), source.services # {}),
     policies |-> Gate(PolicyParity(source, target, mapping), source.policies # {}),
     identity |-> Gate(WorkloadIdentity(target), WorkloadIdentity(target) # "N/A"),
     configuration |-> Gate(ConfigurationParity(old, new, mapping), TRUE),
     lifecycle |-> Gate(ApiLifecycle(target), TRUE),
     traffic |-> Gate(TrafficReadiness(old.traffic, new.traffic), TRUE),
     storage |-> Gate(StorageParity(source, target, mapping), source.pvcs # {}),
     stateData |-> StateDataGate(new.stateData),
     capacity |-> Gate(NodeGateState(target.nodeHealth), TRUE),
     security |-> Gate(SecurityPosture(target), FALSE),
     observability |-> Gate(Observability(target), FALSE),
     probes |-> Gate(CutoverProbes(new.probes), TRUE),
     cutover |-> Gate(CutoverState(ManualEvidence(target)), TRUE),
     rollback |-> Gate(Declared(ManualEvidence(target).rollback, "UNKNOWN"), TRUE),
     contract |-> Gate(ManualContract(target), TRUE)]

(* evaluate: as the readiness is decided, from the gates of the pair. *)
Migration(source, target, mapping) ==
    Decision(MigrationGates(source, target, mapping, Reports(source), Reports(target)))
=============================================================================
