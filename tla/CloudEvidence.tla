---------------------------- MODULE CloudEvidence ----------------------------
(***************************************************************************)
(* cloud_provider_assessment.py and lifecycle_catalog.py: the normalized   *)
(* report on the cloud side of a cluster.  Dates are day numbers; None is  *)
(* a value that is not known.  A CLI is installed or not, and answers      *)
(* every command with json, an error code, a time-out or garbage.          *)
(***************************************************************************)
EXTENDS Integers, FiniteSets

None == -1

----------------------------------------------------------------------------
(* lifecycle_catalog.py                                                    *)

Stale(catalog, today) == catalog.asOf = None \/ today - catalog.asOf > catalog.staleAfter

(* The end of support by the record alone.  Extended support is paid for separately. *)
RecordState(record, extended, today) ==
    LET boundary == IF extended /\ record.extendedEnd # None THEN record.extendedEnd ELSE record.standardEnd
        passed(date) == date # None /\ today > date
    IN  IF boundary = None THEN "UNKNOWN"
        ELSE IF passed(boundary) THEN "END_OF_SUPPORT"
        ELSE IF extended /\ passed(record.standardEnd) THEN "EXTENDED_SUPPORT"
        ELSE IF passed(record.maintenanceEnd) THEN "MAINTENANCE" ELSE "SUPPORTED"

(* supported is what the provider answers about the version: "yes", "no" or "unknown". *)
LifecycleState(catalog, record, provider, extended, supported, today) ==
    LET state == RecordState(record, extended, today)
    IN  IF provider = "aks" /\ supported # "unknown"
        THEN IF supported = "yes" THEN "PROVIDER_AVAILABLE" ELSE "UPGRADE_REQUIRED"
        ELSE IF state = "UNKNOWN" THEN state
        ELSE IF provider = "gke" /\ supported = "no" THEN "UPGRADE_REQUIRED"
        ELSE IF Stale(catalog, today) /\ state # "END_OF_SUPPORT" THEN "UNKNOWN_STALE_CATALOG"
        ELSE state

----------------------------------------------------------------------------
(* Which cloud                                                             *)

(* The first provider a node id, a label, the context or the AWS report names. *)
DetectedPlatform(hints) ==
    IF "eks" \in hints THEN "eks" ELSE IF "aks" \in hints THEN "aks"
    ELSE IF "gke" \in hints THEN "gke" ELSE "generic-kubernetes"

----------------------------------------------------------------------------
(* Rules and commands                                                      *)

ReadOnlyCommands ==
    {"show", "get-upgrades", "nodepool list", "get-versions", "describe", "get-server-config"}

CommandState(cli, command) ==
    IF command \in ReadOnlyCommands /\ cli.installed /\ cli.answers[command] = "json"
    THEN "AVAILABLE" ELSE "UNAVAILABLE"

Rule(provider, status) ==
    [provider |-> provider, status |-> status,
     applicability |-> CASE status = "UNKNOWN" -> "EVIDENCE_UNAVAILABLE"
                         [] status \in {"MANUAL", "N/A"} -> "MANUAL_REVIEW"
                         [] OTHER -> "APPLICABLE"]

(* A setting is "on", "off" or not reported at all. *)
Switch(setting, available) ==
    CASE setting = "on" -> "PASS" [] setting = "off" /\ available -> "WARN" [] OTHER -> "UNKNOWN"

Report(provider, state, coverage, rules, requests) ==
    [provider |-> provider, state |-> state, coverage |-> coverage,
     rules |-> {Rule(provider, rules[r]): r \in DOMAIN rules}, requests |-> requests]
Unassessed(provider, state) == Report(provider, state, <<>>, <<>>, 0)

EksReport(aws) ==
    IF aws.state = "absent" THEN Unassessed("eks", "UNAVAILABLE")
    ELSE Report("eks", aws.state, aws.coverage,
           [identity |-> Switch(IF aws.identity THEN "on" ELSE "off", aws.state \in {"AVAILABLE", "PARTIAL"}),
            capacity |-> CASE aws.subnets = "low" -> "WARN" [] aws.subnets = "enough" -> "PASS" [] OTHER -> "UNKNOWN",
            addons |-> IF aws.addons = {} THEN "UNKNOWN" ELSE IF aws.addons = {"ACTIVE"} THEN "PASS" ELSE "WARN",
            zones |-> IF aws.zones = 0 THEN "UNKNOWN" ELSE IF aws.zones = 1 THEN "WARN" ELSE "PASS"],
           aws.requests)

(* Without a list of pools the profiles the cluster itself shows are read. *)
SystemPools(cli, shown) ==
    IF CommandState(cli, "nodepool list") = "AVAILABLE" THEN shown.listedSystemPools ELSE shown.profiledSystemPools

AksCoverage(cli, shown) ==
    [cluster |-> "AVAILABLE", upgrades |-> CommandState(cli, "get-upgrades"),
     nodePools |-> CommandState(cli, "nodepool list"),
     regionalVersions |-> IF shown.located THEN CommandState(cli, "get-versions") ELSE "UNAVAILABLE"]

AksReport(cli, enabled, scoped, shown) ==
    IF ~ enabled THEN Unassessed("aks", "DISABLED")
    ELSE IF ~ scoped THEN Unassessed("aks", "UNAVAILABLE")
    ELSE IF CommandState(cli, "show") # "AVAILABLE"
    THEN Report("aks", "UNAVAILABLE", [cluster |-> "UNAVAILABLE"], <<>>, 1)
    ELSE LET coverage == AksCoverage(cli, shown)
         IN  Report("aks",
               IF \A r \in DOMAIN coverage: coverage[r] = "AVAILABLE" THEN "AVAILABLE" ELSE "PARTIAL",
               coverage,
               [identity |-> Switch(IF shown.identity THEN "on" ELSE "off", TRUE),
                pools |-> IF SystemPools(cli, shown) THEN "PASS"
                          ELSE IF coverage.nodePools = "AVAILABLE" THEN "WARN" ELSE "UNKNOWN",
                channel |-> IF shown.channel THEN "PASS" ELSE "WARN",
                egress |-> "MANUAL"],
               IF shown.located THEN 4 ELSE 3)

GkeReport(cli, enabled, scoped, shown) ==
    LET coverage == [cluster |-> CommandState(cli, "describe"),
                     regionalVersions |-> CommandState(cli, "get-server-config")]
    IN  IF ~ enabled THEN Unassessed("gke", "DISABLED")
        ELSE IF ~ scoped THEN Unassessed("gke", "UNAVAILABLE")
        ELSE IF coverage.cluster # "AVAILABLE" THEN Report("gke", "UNAVAILABLE", coverage, <<>>, 2)
        ELSE Report("gke", IF coverage.regionalVersions = "AVAILABLE" THEN "AVAILABLE" ELSE "PARTIAL", coverage,
               [identity |-> Switch(IF shown.workloadPool THEN "on" ELSE "off", TRUE),
                channel |-> IF shown.channel THEN "PASS" ELSE "WARN",
                shielded |-> Switch(shown.shielded, TRUE), private |-> Switch(shown.private, TRUE)], 2)

(* generate: provider "" is detected. *)
CloudReport(provider, c) ==
    CASE provider = "eks" -> EksReport(c.aws)
      [] provider = "aks" -> AksReport(c.cli, c.enabled, c.scoped, c.aks)
      [] provider = "gke" -> GkeReport(c.cli, c.enabled, c.scoped, c.gke)
      [] OTHER -> Unassessed("generic-kubernetes", "N/A")
=============================================================================
