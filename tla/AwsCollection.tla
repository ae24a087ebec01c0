---------------------------- MODULE AwsCollection ----------------------------
(***************************************************************************)
(* aws_eks_assessment.py: the calls one collection makes, in their order   *)
(* and under its budget, and the findings read from what was answered.     *)
(* An account w answers every call by a number of transient failures and   *)
(* then "ok", "denied", "malformed" or "unsupported"; keys are sequences.  *)
(***************************************************************************)
EXTENDS Integers, Sequences, FiniteSets, SequencesExt

NamesLimit == 100
EntriesLimit == 200
DetectorsLimit == 5

Upto(names, limit) == SubSeq(names, 1, IF Len(names) < limit THEN Len(names) ELSE limit)

(* A session: the requests spent and the state of every call made. *)
NewSession == [requests |-> 0, retries |-> 0, coverage |-> <<>>]
Covered(s, key, state) ==
    [s EXCEPT !.coverage = [k \in DOMAIN s.coverage \cup {key} |-> IF k = key THEN state ELSE s.coverage[k]]]
StateOf(s, key) == IF key \in DOMAIN s.coverage THEN s.coverage[key] ELSE "absent"
Got(s, key) == StateOf(s, key) = "AVAILABLE"

AnswerState(answer, retries, optional) ==
    IF answer.transient > retries THEN "UNAVAILABLE"
    ELSE CASE answer.then = "ok" -> "AVAILABLE"
           [] answer.then = "unsupported" /\ optional -> "N/A"
           [] OTHER -> "UNAVAILABLE"

(* What an account has no answer for it denies. *)
AnswerOf(w, key) == IF key \in DOMAIN w.answers THEN w.answers[key] ELSE [transient |-> 0, then |-> "denied"]

(* The budget is looked at before the first attempt and never between attempts. *)
Call(s, w, key, optional) ==
    IF ~ w.cli THEN Covered(s, key, "UNAVAILABLE")
    ELSE IF s.requests >= w.maxRequests THEN Covered(s, key, "PARTIAL")
    ELSE LET answer == AnswerOf(w, key)
             retried == IF answer.transient < w.retries THEN answer.transient ELSE w.retries
         IN  [Covered(s, key, AnswerState(answer, w.retries, optional))
                EXCEPT !.requests = @ + 1 + retried, !.retries = @ + retried]

CallIf(s, w, key, wanted) == IF wanted THEN Call(s, w, key, TRUE) ELSE s

(* One of a list of calls: skipped, alone, or followed by another one, always or *)
(* when it was answered.                                                        *)
Asking(key, next, when) == [key |-> key, next |-> next, when |-> when]
CallOne(s, w, asked) ==
    LET first == CallIf(s, w, asked.key, asked.when # "skipped")
    IN  CallIf(first, w, asked.next, asked.when = "always" \/ (asked.when = "answered" /\ Got(first, asked.key)))

CallAll(s, w, list) ==
    LET after[n \in 0..Len(list)] == IF n = 0 THEN s ELSE CallOne(after[n - 1], w, list[n])
    IN  after[Len(list)]

(* collect_named: what the list names is described one by one. *)
Listed(s, w, kind, limit) == IF Got(s, <<kind>>) THEN Upto(w.names[kind], limit) ELSE <<>>
CollectNamed(s, w, kind) ==
    LET listed == Call(s, w, <<kind>>, TRUE)
        names == Listed(listed, w, kind, NamesLimit)
    IN  CallAll(listed, w, [i \in DOMAIN names |-> Asking(<<kind, names[i]>>, <<kind>>, "alone")])
Described(s, w, kind) == {n \in ToSet(Listed(s, w, kind, NamesLimit)): Got(s, <<kind, n>>)}

----------------------------------------------------------------------------
(* The calls                                                               *)

CollectNodegroups(s, w) ==
    LET named == CollectNamed(s, w, "nodegroups")
    IN  CallIf(named, w, <<"autoscaling-groups">>, \E n \in Described(named, w, "nodegroups"): w.nodegroups[n].scaled)

CollectIdentity(s, w) ==
    LET listed == Call(s, w, <<"access-entries">>, TRUE)
        entries == Listed(listed, w, "access-entries", EntriesLimit)
        asked == [i \in DOMAIN entries |-> Asking(<<"access-entry", entries[i]>>, <<"access-policies", entries[i]>>, "always")]
    IN  Call(CallAll(listed, w, asked), w, <<"pod-identities">>, TRUE)

CollectInsights(s, w) ==
    LET listed == Call(s, w, <<"cluster-insights">>, TRUE)
        insights == Listed(listed, w, "cluster-insights", EntriesLimit)
    IN  CallAll(listed, w, [i \in DOMAIN insights |-> Asking(<<"cluster-insight", insights[i]>>, <<"cluster-insights">>, "alone")])

CollectNetwork(s, w) ==
    CallIf(CallIf(s, w, <<"subnets">>, w.cluster.subnets), w, <<"security-groups">>, w.cluster.groups)

(* An image of another region is not asked for; a scan only where its summary is missing. *)
ScanAsked(scan) ==
    IF ~ scan.local THEN "skipped" ELSE IF scan.done /\ ~ scan.summarized THEN "answered" ELSE "alone"
CollectImages(s, w) ==
    LET images == Upto(w.images, NamesLimit)
    IN  CallAll(s, w, [i \in DOMAIN images |-> Asking(<<"ecr-image", images[i]>>, <<"ecr-scan", images[i]>>,
                                                       ScanAsked(w.scans[images[i]]))])

Detectors(s, w) == Listed(s, w, "guardduty-detectors", DetectorsLimit)
CollectGuardDuty(s, w) ==
    IF ~ w.accountSecurity THEN s
    ELSE LET listed == Call(s, w, <<"guardduty-detectors">>, TRUE)
             detectors == Detectors(listed, w)
         IN  CallAll(listed, w, [i \in DOMAIN detectors |-> Asking(<<"guardduty", detectors[i]>>, <<"guardduty-detectors">>, "alone")])

(* result: the cluster itself, and everything after it. *)
AskedForCluster(w) == Call(NewSession, w, <<"cluster">>, FALSE)
Collected(w) ==
    LET data == CollectNamed(CollectNamed(CollectNodegroups(AskedForCluster(w), w), w, "addons"), w, "fargate-profiles")
    IN  CollectGuardDuty(CollectImages(CollectNetwork(CollectInsights(CollectIdentity(data, w), w), w), w), w)

----------------------------------------------------------------------------
(* The findings                                                            *)

Finding(rule, resource, severity) == [rule |-> rule, resource |-> resource, severity |-> severity]
PassOr(condition, severity) == IF condition THEN "PASS" ELSE severity
(* A setting is "on", "off" or not reported. *)
Setting(value, on, off) == IF value = "on" THEN on ELSE IF value = "off" THEN off ELSE "UNKNOWN"

ClusterFindings(c) ==
    {Finding("private-endpoint", "cluster", PassOr(c.private, "WARN")),
     Finding("public-endpoint", "cluster", IF c.public /\ c.world THEN "CRIT" ELSE PassOr(~ c.public, "WARN")),
     Finding("secrets-kms", "cluster", PassOr(c.encrypted, "WARN")),
     Finding("control-plane-logs", "cluster", PassOr(c.logs, "WARN")),
     Finding("control-plane-health", "cluster", PassOr(c.healthy, "CRIT")),
     Finding("access-mode", "cluster", PassOr(c.accessEntries, "WARN")),
     Finding("bootstrap-admin", "cluster", Setting(c.creatorAdmin, "WARN", "PASS")),
     Finding("support-type", "cluster", Setting(c.extendedSupport, "WARN", "PASS")),
     Finding("deletion-protection", "cluster", Setting(c.deletionProtection, "PASS", "INFO"))}

NodegroupFindings(s, w) ==
    LET described == Described(s, w, "nodegroups")
        state == StateOf(s, <<"nodegroups">>)
    IN  IF described = {}
        THEN {Finding("managed-nodegroups", "cluster",
                      CASE state = "N/A" -> "N/A" [] state = "AVAILABLE" -> "INFO" [] OTHER -> "UNKNOWN")}
        ELSE {Finding("nodegroup-health", n,
                      IF ~ w.nodegroups[n].healthy THEN "CRIT" ELSE PassOr(w.nodegroups[n].aligned, "WARN")):
                n \in described}

AddonFindings(s, w) ==
    LET described == Described(s, w, "addons")
    IN  {Finding("addon-health", a, PassOr(w.addons[a].healthy, "CRIT")): a \in described}
        \cup {Finding("addon-lifecycle", a, "UNKNOWN"): a \in {"vpc-cni", "coredns", "kube-proxy"} \ described}
        \cup UNION {{Finding("vpc-cni-prefix", a, PassOr(w.addons[a].prefix, "INFO")),
                     Finding("vpc-cni-network-policy", a, PassOr(w.addons[a].policy, "INFO"))}:
                       a \in described \cap {"vpc-cni"}}

FargateFindings(s, w) ==
    {Finding("fargate-health", f, PassOr(w.fargate[f], "WARN")): f \in Described(s, w, "fargate-profiles")}

IdentityFindings(s, w) ==
    LET entries == Listed(s, w, "access-entries", EntriesLimit)
        associated == Got(s, <<"pod-identities">>) /\ w.associations
    IN  {Finding("access-entry-inventory", "cluster",
                 PassOr(entries # <<>>, IF Got(s, <<"access-entries">>) THEN "INFO" ELSE "UNKNOWN")),
         Finding("workload-identity", "cluster", PassOr(associated \/ w.cluster.oidc, "WARN"))}

(* The list tells the status too, so a description that failed changes nothing. *)
InsightFindings(s, w) ==
    LET insights == ToSet(Listed(s, w, "cluster-insights", EntriesLimit))
    IN  IF insights = {}
        THEN {Finding("cluster-insights-coverage", "cluster", PassOr(Got(s, <<"cluster-insights">>), "UNKNOWN"))}
        ELSE {Finding("cluster-insight", i,
                      CASE w.insights[i] \in {"ERROR", "FAILED"} -> "CRIT"
                        [] w.insights[i] \in {"WARNING", "UNKNOWN"} -> "WARN"
                        [] OTHER -> "PASS"): i \in insights}

NetworkFindings(s, w) ==
    LET subnets == Got(s, <<"subnets">>)
        groups == Got(s, <<"security-groups">>)
    IN  (IF w.cluster.subnets
         THEN {Finding("subnet-ip-capacity", "cluster",
                       IF subnets /\ w.lowCapacity THEN "CRIT" ELSE PassOr(subnets, "UNKNOWN")),
               Finding("subnet-zones", "cluster", PassOr(subnets /\ w.zones >= 2, "WARN"))} ELSE {})
        \cup (IF w.cluster.groups
              THEN {Finding("security-group-exposure", "cluster",
                            IF groups /\ w.worldOpen THEN "WARN" ELSE PassOr(groups, "UNKNOWN"))} ELSE {})

ImageSeverity(s, scan, i) ==
    LET described == Got(s, <<"ecr-image", i>>)
        counted == described /\ (scan.summarized \/ Got(s, <<"ecr-scan", i>>))
    IN  CASE counted /\ scan.critical -> "CRIT"
          [] counted /\ scan.high /\ ~ scan.critical -> "WARN"
          [] OTHER -> IF described /\ scan.done THEN "PARTIAL" ELSE "UNKNOWN"
ImageFindings(s, w) ==
    {Finding("ecr-image-scan", i,
             IF w.scans[i].local THEN ImageSeverity(s, w.scans[i], i) ELSE "UNKNOWN"): i \in ToSet(Upto(w.images, NamesLimit))}
    \cup (IF Len(w.images) > NamesLimit THEN {Finding("ecr-scan-budget", "cluster", "PARTIAL")} ELSE {})
    \cup (IF w.otherImages /\ w.images = <<>> THEN {Finding("ecr-image-scan", "cluster", "N/A")} ELSE {})

GuardDutyFindings(s, w) ==
    LET answered == {d \in ToSet(Detectors(s, w)): Got(s, <<"guardduty", d>>)}
        monitored == (\E d \in answered: w.detectors[d].enabled) /\ (\E d \in answered: w.detectors[d].runtime)
    IN  {Finding("runtime-monitoring", "cluster",
                 PassOr(monitored, IF Detectors(s, w) # <<>> THEN "WARN" ELSE "UNKNOWN"))}

AwsFindings(s, w) ==
    ClusterFindings(w.cluster) \cup NodegroupFindings(s, w) \cup AddonFindings(s, w)
    \cup FargateFindings(s, w) \cup IdentityFindings(s, w) \cup InsightFindings(s, w)
    \cup NetworkFindings(s, w) \cup ImageFindings(s, w) \cup GuardDutyFindings(s, w)

CollectionState(s) ==
    LET states == {s.coverage[k]: k \in DOMAIN s.coverage}
    IN  IF states \cap {"UNAVAILABLE", "PARTIAL"} # {} THEN "PARTIAL" ELSE "AVAILABLE"

(* output *)
ReportOf(s, state, findings) ==
    [state |-> state, requests |-> s.requests, retries |-> s.retries, coverage |-> s.coverage, findings |-> findings]

(* result: an account without a cluster name is not asked anything, one that does *)
(* not show the cluster nothing more.                                             *)
AwsReport(w) ==
    IF ~ w.named THEN ReportOf(NewSession, "N/A", {Finding("applicability", "cluster", "N/A")})
    ELSE IF ~ Got(AskedForCluster(w), <<"cluster">>)
    THEN ReportOf(AskedForCluster(w), "UNAVAILABLE", {Finding("collection", "cluster", "UNKNOWN")})
    ELSE ReportOf(Collected(w), CollectionState(Collected(w)), AwsFindings(Collected(w), w))
=============================================================================
