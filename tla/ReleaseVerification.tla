-------------------------- MODULE ReleaseVerification --------------------------
(***************************************************************************)
(* release_verification.py: an archive with its checksum file, and an SBOM,*)
(* provenance and signature that may be there.  A digest is a model of the *)
(* content: equal digests are equal contents.  Absent is a file nobody     *)
(* gave.  A member is [root, path, safe, kind, digest].                    *)
(***************************************************************************)
EXTENDS Naturals, Sequences, FiniteSets

Absent == [absent |-> TRUE]
MaxEntries == 20000

(* The first line of the checksum file that names the archive. *)
ChecksumLine(lines, name) ==
    CHOOSE i \in DOMAIN lines: lines[i].name = name /\ \A j \in 1..i - 1: lines[j].name # name
ChecksumHolds(release) ==
    /\ \E i \in DOMAIN release.checksums: release.checksums[i].name = release.archive.name
    /\ release.checksums[ChecksumLine(release.checksums, release.archive.name)].digest = release.archive.digest

(* safe_members: one root, nothing outside it, no links or devices, not too much. *)
SafeMembers(archive) ==
    /\ Cardinality(archive.members) <= MaxEntries
    /\ \A m \in archive.members: m.safe /\ m.kind \in {"file", "dir"}
    /\ Cardinality({m.root: m \in archive.members}) = 1
    /\ ~ archive.oversized

(* extract_safe and the walk over what it wrote; every SBOM.spdx is left out. *)
PackagedFiles(archive) == {m \in archive.members: m.kind = "file"}
Packaged(archive) ==
    LET files == {m \in PackagedFiles(archive): m.name # "SBOM.spdx"}
    IN  {[path |-> m.path, digest |-> m.digest]: m \in files}

PackageRoot(archive) == (CHOOSE m \in archive.members: TRUE).root
RootMatchesVersion(release) ==
    /\ release.version # "" /\ \E m \in PackagedFiles(release.archive): m.path = "VERSION"
    /\ PackageRoot(release.archive) \in {<<"eks-assessment", release.version>>,
                                         <<"kubernetes-assessment", release.version>>}

(* Fault: every listed file is packaged, others may be too. *)
SbomHoldsForListed(release) ==
    LET internal == {m \in PackagedFiles(release.archive): m.path = "SBOM.spdx"}
    IN  /\ internal # {}
        /\ release.sbom # Absent => \A m \in internal: release.sbom.digest = m.digest
        /\ release.inventory \subseteq Packaged(release.archive)

(* The packaged SBOM lists the packaged files, each with its digest, and no other. *)
SbomHolds(release) ==
    LET internal == {m \in PackagedFiles(release.archive): m.path = "SBOM.spdx"}
    IN  /\ internal # {}
        /\ release.sbom # Absent => \A m \in internal: release.sbom.digest = m.digest
        /\ release.inventory # {}
        /\ release.inventory = Packaged(release.archive)

SbomDigest(archive) == (CHOOSE m \in PackagedFiles(archive): m.path = "SBOM.spdx").digest

ProvenanceHolds(release) ==
    release.provenance # Absent =>
        /\ release.provenance.name = release.archive.name
        /\ release.provenance.digest = release.archive.digest
        /\ release.provenance.sbom = SbomDigest(release.archive)

SignatureState(release) ==
    IF release.bundle = Absent THEN "NOT_PROVIDED"
    ELSE IF release.cosign /\ release.bundle.verifies THEN "VERIFIED" ELSE "ERROR"

(* evaluate: each check raises; what is left of them is a verified release. *)
Verified(release, requireSignature) ==
    /\ ChecksumHolds(release)
    /\ SafeMembers(release.archive)
    /\ RootMatchesVersion(release)
    /\ SbomHolds(release)
    /\ ProvenanceHolds(release)
    /\ SignatureState(release) \in (IF requireSignature THEN {"VERIFIED"} ELSE {"VERIFIED", "NOT_PROVIDED"})
=============================================================================
