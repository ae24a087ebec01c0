-------------------------- MODULE MCAssessmentGates --------------------------
(* The decisions of the assessment tool on small collections: one that all *)
(* gates approve, what can be wrong with it, and what can be lost.         *)
EXTENDS AssessmentGates

(* Requests for a plan: layered registries of three collectors. *)
Ids == {"preflight", "assessment", "comprehensive"}
Earlier == "preflight" :> {} @@ "assessment" :> {"preflight"}
           @@ "comprehensive" :> {"preflight", "assessment"}
Few == {s \in SUBSET (Ids \cup {"unknown"}): Cardinality(s) <= 2}
SampleRequests ==
    {r \in [registry: [ids: {Ids}, deps: {d \in [Ids -> SUBSET Ids]: \A c \in Ids: d[c] \subseteq Earlier[c]},
                       required: SUBSET Ids, available: SUBSET Ids],
            include: Few, exclude: Few]: Plan!WellFormed(r.registry)}

----------------------------------------------------------------------------
(* An application app with a database in namespace ns, read from an EKS cluster. *)

Document(ns, kind, name, refs) ==
    [apiVersion |-> "v1", kind |-> kind, ns |-> ns, name |-> name, deprecated |-> FALSE, resource |-> kind,
     containers |-> <<[name |-> "main", image |-> TRUE]>>, spec |-> TRUE, selector |-> {name}, labels |-> {name},
     externalName |-> FALSE, refs |-> refs, claims |-> kind = "StatefulSet", dataImage |-> FALSE, clientOnly |-> FALSE,
     image |-> "v1", replicas |-> 2, serviceAccount |-> "app"]
Ref(ns, kind, key, optional) ==
    [source |-> "web", container |-> "main", kind |-> kind, ns |-> ns, name |-> "config", key |-> key,
     usage |-> "env", optional |-> optional]
Object(ns, kind, keys) == [kind |-> kind, ns |-> ns, name |-> "config", keys |-> keys]
Service(ns, name) ==
    [kind |-> "Service", ns |-> ns, name |-> name, type |-> "ClusterIP", headless |-> FALSE, ports |-> {"http"}, selector |-> TRUE]
To(ns, name) == [kind |-> "Service", ns |-> ns, name |-> name, port |-> "http"]
Destination(subset, weight) ==
    To("shop", "web") @@ [subset |-> subset, host |-> "web", weighted |-> weight > 0, weight |-> weight]

Quantity(n) == [cpu |-> n, memory |-> n]
Node(name, addresses) ==
    [name |-> name, addresses |-> addresses, version |-> "1.33", allocatable |-> Quantity(100), podCapacity |-> 10,
     conditions |-> [c \in {"Ready", "MemoryPressure", "DiskPressure", "PIDPressure"} |-> IF c = "Ready" THEN "True" ELSE "False"]]
Pod(node) ==
    [node |-> node, phase |-> "Running", containers |-> <<Quantity(10)>>, measured |-> TRUE,
     inits |-> <<[request |-> Quantity(20), sidecar |-> FALSE]>>, podLevel |-> Quantity(0), overhead |-> Quantity(1)]

Answer(then) == [transient |-> 0, then |-> then]
AccountKeys ==
    {<<"cluster">>, <<"nodegroups">>, <<"nodegroups", "ng">>, <<"autoscaling-groups">>, <<"addons">>, <<"addons", "vpc-cni">>,
     <<"fargate-profiles">>, <<"access-entries">>, <<"access-entry", "admin">>, <<"access-policies", "admin">>,
     <<"pod-identities">>, <<"cluster-insights">>, <<"cluster-insight", "upgrade">>, <<"subnets">>, <<"security-groups">>,
     <<"ecr-image", "shop">>, <<"ecr-scan", "shop">>, <<"guardduty-detectors">>, <<"guardduty", "d1">>}
EksAccount ==
    [named |-> TRUE, cli |-> TRUE, maxRequests |-> 20, retries |-> 1, accountSecurity |-> TRUE,
     answers |-> [k \in AccountKeys |-> Answer("ok")],
     names |-> [nodegroups |-> <<"ng">>, addons |-> <<"vpc-cni">>] @@ "fargate-profiles" :> <<>>
               @@ "access-entries" :> <<"admin">> @@ "cluster-insights" :> <<"upgrade">> @@ "guardduty-detectors" :> <<"d1">>,
     nodegroups |-> [ng |-> [scaled |-> TRUE, healthy |-> TRUE, aligned |-> TRUE]],
     addons |-> "vpc-cni" :> [healthy |-> TRUE, prefix |-> TRUE, policy |-> TRUE],
     fargate |-> <<>>, insights |-> [upgrade |-> "PASSING"], detectors |-> [d1 |-> [enabled |-> TRUE, runtime |-> TRUE]],
     scans |-> [shop |-> [local |-> TRUE, done |-> TRUE, summarized |-> FALSE, critical |-> FALSE, high |-> FALSE]],
     images |-> <<"shop">>, otherImages |-> FALSE, associations |-> TRUE, lowCapacity |-> FALSE, zones |-> 2, worldOpen |-> FALSE,
     cluster |-> [private |-> TRUE, public |-> FALSE, world |-> FALSE, encrypted |-> TRUE, logs |-> TRUE, healthy |-> TRUE,
                  accessEntries |-> TRUE, creatorAdmin |-> "off", extendedSupport |-> "off", deletionProtection |-> "on",
                  oidc |-> TRUE, subnets |-> TRUE, groups |-> TRUE]]

Sample(ns, app) ==
    [scope |-> [full |-> TRUE, namespaces |-> {ns, "edge"}],
     manual |-> [state |-> "VALID", declared |-> [f \in Migration!ManualFields |-> "yes"]],
     documents |-> <<Document(ns, "Deployment", app, <<Ref(ns, "Secret", "password", FALSE), Ref(ns, "ConfigMap", "", TRUE)>>),
                     Document(ns, "StatefulSet", "db", <<>>)>>,
     workloads |-> {}, istioGateways |-> {}, virtualServices |-> {}, destinationRules |-> <<>>, openshiftRoutes |-> {},
     certificates |-> {[refs |-> <<>>]},
     ingresses |-> {[refs |-> <<>>, paths |-> {[to |-> To(ns, app), tls |-> TRUE]}]},
     gateways |-> {[ns |-> "edge", name |-> "gw", refs |-> <<>>, listeners |-> {[name |-> "https", from |-> "All"]}]},
     routes |-> {[kind |-> "HTTPRoute", ns |-> "edge", parents |-> {[ns |-> "edge", name |-> "gw", section |-> "https"]},
                  conditions |-> {"Accepted", "ResolvedRefs"}, rules |-> {{To(ns, app)}}]},
     grants |-> {[ns |-> ns, from |-> {[kind |-> "HTTPRoute", ns |-> "edge"]}, to |-> {app}]},
     services |-> {Service(ns, app)}, endpoints |-> {[ns |-> ns, service |-> app, ready |-> TRUE]},
     requested |-> {"Secret", "ConfigMap"},
     listed |-> [Secret |-> {Object(ns, "Secret", {"password"})}, ConfigMap |-> {Object(ns, "ConfigMap", {})}],
     pvcs |-> {[kind |-> "PersistentVolumeClaim", ns |-> ns, name |-> "data", class |-> "gp3", bound |-> TRUE]},
     backups |-> {[healthy |-> TRUE]}, snapshots |-> {[healthy |-> TRUE]},
     probes |-> {[host |-> "shop", plain |-> TRUE, address |-> "routable", answer |-> "2xx", slow |-> FALSE]},
     nodes |-> <<Node("n1", {"a1"}), Node("n2", {"a2", "a1"})>>, pods |-> {Pod("n1")},
     metrics |-> [n1 |-> Quantity(50), n2 |-> Quantity(10)],
     samples |-> [u \in Manifest!Usage |-> <<[label |-> "a1", value |-> 3], [label |-> "n1", value |-> 2], [label |-> "gone", value |-> 9]>>],
     api |-> [state |-> "AVAILABLE", served |-> {"Deployment", "StatefulSet"}],
     controlPlane |-> "SUPPORTED", catalog |-> [asOf |-> 90, staleAfter |-> 30], today |-> 100,
     records |-> "1.33" :> [standardEnd |-> 200, extendedEnd |-> 300, maintenanceEnd |-> -1]
                 @@ "1.28" :> [standardEnd |-> 50, extendedEnd |-> 60, maintenanceEnd |-> -1],
     inv |-> [workloads |-> {[name |-> "web", ns |-> "shop", fails |-> {}]}, pods |-> {}, roles |-> {}, bindings |-> {}, services |-> {},
              hooks |-> {}, policies |-> {[name |-> "policy"]}, namespaces |-> {[name |-> "shop", fails |-> {}]}, protected |-> {"shop"},
              available |-> {"roles", "clusterroles", "networkpolicies"}, identity |-> "none", controlPlaneNodes |-> FALSE],
     external |-> <<>>, exceptions |-> {}, prometheus |-> "AVAILABLE",
     kept |-> {"readiness", "configuration", "traffic", "stateData", "probes"}, files |-> {"pvcs", "storageclasses", "serviceaccounts"},
     artifacts |-> Validation!Required \cup Validation!ContractArtifacts, completed |-> TRUE, policies |-> {[kind |-> "NetworkPolicy", ns |-> ns, name |-> "deny"]},
     storageClasses |-> {"gp3"}, serviceAccounts |-> {<<ns, "app">>},
     hints |-> {"eks"}, account |-> EksAccount, expected |-> "eks", enabled |-> TRUE, scoped |-> TRUE,
     cli |-> [installed |-> TRUE, answers |-> [c \in Insight!ReadOnlyCommands |-> "json"]],
     aks |-> [located |-> TRUE, identity |-> TRUE, listedSystemPools |-> TRUE, profiledSystemPools |-> TRUE, channel |-> TRUE],
     gke |-> [workloadPool |-> TRUE, channel |-> TRUE, shielded |-> "on", private |-> "off"],
     resources |-> [pods |-> "AVAILABLE", workloads |-> "AVAILABLE", leases |-> "N/A"], quality |-> [duplicates |-> 0],
     budget |-> [duration |-> 10, elapsed |-> 5, apiRequests |-> 5, retries |-> 0, throttles |-> 0, responseBytes |-> 5, peakRss |-> 5],
     logs |-> FALSE, targets |-> {}]

Healthy == Sample("shop", "web")
Source == Collection(Sample("blue", "site"))
Renamed == [kind |-> "", ns |-> "", name |-> "web"]
Mapping ==
    [namespaces |-> "blue" :> "shop", allowed |-> {"image", "replicas"},
     resources |-> [kind |-> "Deployment", ns |-> "blue", name |-> "site"] :> Renamed
                   @@ [kind |-> "Service", ns |-> "blue", name |-> "site"] :> [Renamed EXCEPT !.kind = "Service"]]

(* The other platforms. *)
Cluster(platform, identity) ==
    [Healthy EXCEPT !.hints = {platform}, !.expected = platform, !.account.named = FALSE, !.inv.identity = identity]
Platforms ==
    {Healthy, Cluster("aks", "AZURE"), Cluster("gke", "GOOGLE"), [Cluster("generic-kubernetes", "none") EXCEPT !.hints = {}]}

(* One thing wrong in the cluster, in its declarations or in the account. *)
WrongInCluster ==
    {[Healthy EXCEPT !.listed["Secret"] = {Object("shop", "Secret", {})}], [Healthy EXCEPT !.listed["ConfigMap"] = {}],
     [Healthy EXCEPT !.pvcs = {[p EXCEPT !.bound = FALSE]: p \in @}], [Healthy EXCEPT !.backups = @ \cup {[healthy |-> FALSE]}],
     [Healthy EXCEPT !.nodes[1].conditions["Ready"] = "False"], [Healthy EXCEPT !.metrics["n1"] = Quantity(90)],
     [Healthy EXCEPT !.pods = {Pod("n1"), [Pod("n1") EXCEPT !.measured = FALSE]}],
     [Healthy EXCEPT !.nodes = <<Node("n1", {"n2"}), Node("n2", {})>>], [Healthy EXCEPT !.nodes[2].version = "1.28"],
     [Healthy EXCEPT !.nodes[1].version = "1.28", !.nodes[2].version = "1.28"],
     [Healthy EXCEPT !.endpoints = {[x EXCEPT !.ready = FALSE]: x \in @}], [Healthy EXCEPT !.grants = {}],
     [Healthy EXCEPT !.routes = {[r EXCEPT !.conditions = {"Accepted"}]: r \in @}],
     [Healthy EXCEPT !.gateways = {[g EXCEPT !.listeners = {[name |-> "https", from |-> "Same"]}]: g \in @}],
     [Healthy EXCEPT !.ingresses = {[i EXCEPT !.paths = {[p EXCEPT !.tls = FALSE]: p \in @}]: i \in @}],
     [Healthy EXCEPT !.documents[1].deprecated = TRUE], [Healthy EXCEPT !.documents[1].labels = {}],
     [Healthy EXCEPT !.documents[1].image = "v2"], [Healthy EXCEPT !.documents[1].serviceAccount = "other"],
     [Healthy EXCEPT !.api.served = {"Deployment"}], [Healthy EXCEPT !.catalog.asOf = 10]}
Rule(subset) == [ns |-> "shop", host |-> "web", subsets |-> {subset}]
Meshed(weights, subset) ==
    [Healthy EXCEPT !.istioGateways = {[ns |-> "edge", name |-> "mesh", refs |-> <<>>]},
                    !.destinationRules = <<Rule("v2"), Rule("v1")>>,
                    !.virtualServices = {[ns |-> "edge", gateways |-> {[ns |-> "edge", name |-> "mesh"]},
                                          routes |-> {{Destination(subset, w): w \in weights}}]}]
WrongInMesh == {Meshed({0}, "v1"), Meshed({40, 60}, "v1"), Meshed({40, 50}, ""), Meshed({100}, "v2")}
WrongInDeclarations ==
    {[Healthy EXCEPT !.manual.declared["rollback"] = "no"], [Healthy EXCEPT !.manual.declared["dns"] = "absent"],
     [Healthy EXCEPT !.manual.state = "INVALID"], [Healthy EXCEPT !.scope = [full |-> FALSE, namespaces |-> {"shop"}]],
     [Healthy EXCEPT !.probes = {[p EXCEPT !.slow = TRUE]: p \in @}], [Healthy EXCEPT !.probes = {[p EXCEPT !.plain = FALSE]: p \in @}],
     [Healthy EXCEPT !.probes = {}], [Healthy EXCEPT !.storageClasses = {}], [Healthy EXCEPT !.serviceAccounts = {}]}
Entry(id, source, status) ==
    [id |-> id, source |-> source, status |-> status, hashMatches |-> TRUE, expired |-> FALSE, responsibility |-> "SHARED", flagged |-> {}]
WrongInProvider ==
    {[Healthy EXCEPT !.expected = "aks"], [Healthy EXCEPT !.quality.duplicates = 1], [Healthy EXCEPT !.budget.responseBytes = 99],
     [Healthy EXCEPT !.resources["pods"] = "PARTIAL"], [Healthy EXCEPT !.account.maxRequests = 18],
     [Healthy EXCEPT !.account.answers[<<"ecr-image", "shop">>] = [transient |-> 1, then |-> "unsupported"]],
     [Healthy EXCEPT !.account.addons["vpc-cni"].healthy = FALSE, !.account.lowCapacity = TRUE, !.account.zones = 1],
     [Healthy EXCEPT !.hints = {"aks"}, !.expected = "aks"],
     [Healthy EXCEPT !.external = <<Entry("control-plane.etcd", "ManualEvidence", "PASS")>>],
     [Cluster("aks", "AZURE") EXCEPT !.aks.listedSystemPools = FALSE, !.aks.channel = FALSE],
     [Cluster("aks", "AZURE") EXCEPT !.cli.answers["get-upgrades"] = "timeout"],
     [Cluster("gke", "GOOGLE") EXCEPT !.cli.answers["describe"] = "error"]}
Security ==
    {[Healthy EXCEPT !.inv.workloads = {[name |-> "web", ns |-> "shop", fails |-> {"pod.privileged"}]}, !.exceptions = x,
                     !.external = <<Entry("node.kubelet-configuration", "NodeEvidence", "PASS")>>]:
        x \in {{}, {[id |-> "pod.privileged", expired |-> FALSE, justified |-> TRUE, all |-> FALSE, resources |-> {"web"}]}}}

Pair(target, left) == [source |-> Source, target |-> target, mapping |-> Mapping, left |-> left]
Collections ==
    {Healthy} \cup Platforms \cup WrongInCluster \cup WrongInMesh \cup WrongInDeclarations \cup WrongInProvider \cup Security
SamplePairs ==
    {Pair(e, {kind}): e \in Collections, kind \in {"cluster", "reports", "cloud"}}
    \cup {Pair(Healthy, {"cluster", "reports"}), Pair(Healthy, {"cloud", "reports"})}

SampleThresholds ==
    [duration |-> 20, apiRequests |-> 20, cloudApiRequests |-> 20, retries |-> 2, throttles |-> 1, responseBytes |-> 20,
     peakRss |-> 20, kubernetesCoverage |-> 80, cloudCoverage |-> 80]

----------------------------------------------------------------------------
(* Releases of one cluster. *)
Controls(status) ==
    [id \in {"pod.privileged", "image.digest"} |->
        IF id = "image.digest" THEN Posture!Evaluated("PASS", {})
        ELSE IF status = "UNKNOWN" THEN Posture!Unavailable ELSE Posture!Evaluated(status, {})]
Base ==
    [clusterName |-> "prod", context |-> "prod", namespaces |-> "*", completed |-> TRUE, status |-> "COMPLETED", intact |-> TRUE,
     findings |-> [f1 |-> "INFO"], cis |-> [controls |-> Controls("PASS")],
     node |-> [nodes |-> [n1 |-> "PASS"], coverage |-> 100],
     operational |-> [critical |-> 0, warnings |-> 0, endOfSupport |-> 0, skew |-> FALSE],
     quality |-> [duplicates |-> 0, conflicts |-> 0, lowConfidence |-> 0],
     performance |-> [duration |-> 10, apiRequests |-> 10, responseBytes |-> 10, peakRss |-> 10]]
Severities == {"PASS", "INFO", "UNKNOWN", "PARTIAL", "WARN", "CRIT"}
NodeStates == {"PASS", "PARTIAL", "WARN", "CRIT"}
Found == {[f \in {} |-> "PASS"]} \cup {"f1" :> s: s \in Severities}
NodesSeen == {n :> s: n \in {"n1", "n2"}, s \in NodeStates}
SampleCandidates ==
    {[Base EXCEPT !.findings = f, !.node.nodes = n]: f \in Found, n \in {"n1" :> "PASS", "n1" :> "WARN"}}
    \cup {[Base EXCEPT !.findings = f, !.node.nodes = n]: f \in {"f1" :> "INFO", "f1" :> "CRIT"}, n \in NodesSeen}
    \cup {[Base EXCEPT !.cis.controls = Controls(s)]: s \in {"WARN", "UNKNOWN", "EXEMPTED"}}
    \cup {[Base EXCEPT !.cis = Regression!Missing], [Base EXCEPT !.cis.controls = <<>>], [Base EXCEPT !.node = Regression!Missing], [Base EXCEPT !.node.coverage = 50], [Base EXCEPT !.node.coverage = -1],
          [Base EXCEPT !.operational.skew = TRUE], [Base EXCEPT !.quality.conflicts = 1], [Base EXCEPT !.performance.duration = 14],
          [Base EXCEPT !.performance.peakRss = -1], [Base EXCEPT !.clusterName = "test"], [Base EXCEPT !.namespaces = "shop"],
          [Base EXCEPT !.namespaces = "all"], [Base EXCEPT !.status = "CANCELLED"], [Base EXCEPT !.intact = FALSE]}

(* The standard profile of assessment-policy.json. *)
StandardPolicy ==
    [k \in Regression!Booleans |-> 1]
    @@ [k \in Regression!Absolute |-> -1]
    @@ [maxDurationIncreasePercent |-> 50, maxApiRequestsIncreasePercent |-> 25,
        maxResponseBytesIncreasePercent |-> 50, maxPeakRssIncreasePercent |-> 25]
    @@ [k \in Regression!Limits |-> 0]

----------------------------------------------------------------------------
(* Downloads: the archive of two builds, their files mixed. *)
Root(build) == <<"eks-assessment", build>>
Member(root, path, name, kind, build, digest) ==
    [root |-> root, path |-> path, name |-> name, safe |-> kind # "link", kind |-> kind, build |-> build, digest |-> digest]
Members(version, program, sbom) ==
    {Member(Root("1"), "VERSION", "VERSION", "file", version, "version" \o version),
     Member(Root("1"), "bin/run", "run", "file", program, "run" \o program),
     Member(Root("1"), "SBOM.spdx", "SBOM.spdx", "file", sbom, "sbom" \o sbom)}
Added ==
    {{}, {Member(Root("1"), "bin/more", "more", "file", "2", "run2")}, {Member(Root("1"), "doc/SBOM.spdx", "SBOM.spdx", "file", "2", "sbom2")},
     {Member(Root("1"), "bin/ln", "ln", "link", "1", "ln")}, {Member(Root("2"), "bin", "bin", "dir", "1", "dir")}}
Archive(members) == [name |-> "tool.tar.gz", members |-> members, oversized |-> FALSE, digest |-> {<<m.path, m.digest>>: m \in members}]
Build(b) == Archive(Members(b, b, b))
Sums(archive) == <<[name |-> "tool.zip", digest |-> {}], [name |-> archive.name, digest |-> archive.digest]>>
Provenance(archive, b) == [name |-> archive.name, digest |-> archive.digest, sbom |-> "sbom" \o b]
Builds == {"1", "2"}
SampleDownloads ==
    {[requireSignature |-> signed,
      release |-> [archive |-> Archive(Members(parts[1], parts[2], parts[3]) \cup added),
                   checksums |-> IF sums = "own" THEN Sums(Archive(Members(parts[1], parts[2], parts[3]) \cup added)) ELSE Sums(Build(sums)),
                   version |-> parts[1],
                   inventory |-> {[path |-> "VERSION", digest |-> "version" \o parts[3]], [path |-> "bin/run", digest |-> "run" \o parts[3]]},
                   sbom |-> IF sbom = "none" THEN Release!Absent ELSE [digest |-> "sbom" \o sbom],
                   provenance |-> IF by = "none" THEN Release!Absent ELSE Provenance(Build(by), by),
                   bundle |-> IF bundle = "none" THEN Release!Absent ELSE [verifies |-> bundle = "good"],
                   cosign |-> TRUE]]:
        signed \in BOOLEAN, parts \in Builds \X Builds \X Builds, added \in Added, sums \in {"own", "1", "2"},
        sbom \in {"none", "1", "2"}, by \in {"none", "1", "2"}, bundle \in {"none", "good", "bad"}}
=============================================================================
