-------------------------- MODULE CollectionBundle --------------------------
(***************************************************************************)
(* collection_bundle.py: export, verify, import and prune, each a process  *)
(* of its own, over the directory of collections that the dashboard writes *)
(* to at the same time.  A file is the version of its content; a bundle is *)
(* a manifest (the version each file was hashed at) with the files.        *)
(***************************************************************************)
EXTENDS Naturals, FiniteSets

CONSTANTS Ids,          \* collections (directories named eks-...)
          Baselines,    \* those whose metadata says baseline
          Aged,         \* those created before the cut-off of prune
          Files,        \* files of a collection
          Kept,         \* files export_files leaves out: logs, locks, dot files
          Importers,    \* import processes
          Roots,        \* the export's root and the root imports go to
          Edits,        \* bound: writes of the dashboard into collections
          Exports,      \* bound: exports to the one output path
          Absent

Home == "home"                               \* the root collections are made in

ASSUME BundleAssumption ==
    /\ Baselines \subseteq Ids /\ Aged \subseteq Ids /\ Kept \subseteq Files
    /\ Edits \in Nat /\ Exports \in Nat
    /\ Home \in Roots
    /\ \A F \in SUBSET Files : Absent \notin [F -> Nat]

VARIABLES dirs,       \* dirs[r][i]: the collection i under root r, or Absent
          torn,       \* collections whose metadata.json does not parse
          bundle,     \* the file at the output path, or Absent
          export,     \* the export: [pc, id, manifest]
          importer,   \* per importer: [pc, root, id, content]
          prune,      \* the prune: [pc, candidates, baselinesToo]
          edits, exports

bundleVars == <<dirs, torn, bundle, export, importer, prune, edits, exports>>

Exported == Files \ Kept
NoFiles == [f \in {} |-> 0]
Resting == [pc |-> "idle", id |-> Absent, manifest |-> NoFiles]
NoImport == [pc |-> "idle", root |-> Home, id |-> Absent, content |-> NoFiles]
NoPrune == [pc |-> "idle", candidates |-> {}, baselinesToo |-> FALSE]

BundleInit ==
    /\ dirs = [r \in Roots |-> [i \in Ids |-> IF r = Home THEN [f \in Files |-> 0] ELSE Absent]]
    /\ torn = {} /\ bundle = Absent /\ export = Resting
    /\ importer = [p \in Importers |-> NoImport]
    /\ prune = NoPrune /\ edits = 0 /\ exports = 0

(* The dashboard rewrites a report of a collection. *)
Edit(i, f) ==
    /\ edits < Edits /\ dirs[Home][i] # Absent /\ f \in DOMAIN dirs[Home][i]
    /\ dirs' = [dirs EXCEPT ![Home][i][f] = @ + 1]
    /\ edits' = edits + 1
    /\ UNCHANGED <<torn, bundle, export, importer, prune, exports>>

(* write_text truncates first: a crash in between leaves half a metadata.json. *)
Tear(i) ==
    /\ dirs[Home][i] # Absent
    /\ torn' = torn \cup {i}
    /\ UNCHANGED <<dirs, bundle, export, importer, prune, edits, exports>>

(* export_bundle: contracts and artifacts must pass, then every file is hashed ... *)
ExportHash(i) ==
    /\ export.pc = "idle" /\ exports < Exports
    /\ dirs[Home][i] # Absent /\ i \notin torn
    /\ export' = [pc |-> "copy", id |-> i, manifest |-> [f \in Exported |-> dirs[Home][i][f]]]
    /\ exports' = exports + 1
    /\ UNCHANGED <<dirs, torn, bundle, importer, prune, edits>>

(* ... and later copied to a staging directory; the archive appears at once. *)
ExportPublish ==
    /\ export.pc = "copy"
    /\ bundle' = IF dirs[Home][export.id] = Absent THEN bundle       \* copyfile fails
                 ELSE [id |-> export.id, manifest |-> export.manifest,
                       content |-> [f \in Exported |-> dirs[Home][export.id][f]]]
    /\ export' = Resting
    /\ UNCHANGED <<dirs, torn, importer, prune, edits, exports>>

(* verify_bundle: same file set, sizes and digests as the manifest. *)
Verifies(b) == b # Absent /\ b.content = b.manifest

(* import_bundle: verification, then the destination must not exist ... *)
ImportVerify(p, r) ==
    /\ importer[p].pc = "idle"
    /\ Verifies(bundle)
    /\ dirs[r][bundle.id] = Absent
    /\ importer' = [importer EXCEPT ![p] = 
           [pc |-> "extract", root |-> r, id |-> bundle.id, content |-> NoFiles]]
    /\ UNCHANGED <<dirs, torn, bundle, export, prune, edits, exports>>

(* ... extraction to a temporary directory, from the path opened once more ... *)
ImportExtract(p) ==
    /\ importer[p].pc = "extract"
    /\ importer' = [importer EXCEPT ![p].pc = "publish", ![p].content = bundle.content]
    /\ UNCHANGED <<dirs, torn, bundle, export, prune, edits, exports>>

ImportPublishOver(p) ==
    /\ importer[p].pc = "publish"
    /\ dirs' = [dirs EXCEPT ![importer[p].root][importer[p].id] = importer[p].content]
    /\ importer' = [importer EXCEPT ![p] = NoImport]
    /\ UNCHANGED <<torn, bundle, export, prune, edits, exports>>

(* ... and os.replace, which fails on a directory that has files. *)
ImportPublish(p) ==
    LET to == importer[p]
        free == dirs[to.root][to.id] = Absent
    IN  /\ to.pc = "publish"
        /\ dirs' = IF free THEN [dirs EXCEPT ![to.root][to.id] = to.content] ELSE dirs
        /\ torn' = IF free /\ to.root = Home THEN torn \ {to.id} ELSE torn
        /\ importer' = [importer EXCEPT ![p] = NoImport]
        /\ UNCHANGED <<bundle, export, prune, edits, exports>>

ExpiredByAge(i, baselinesToo) == dirs[Home][i] # Absent /\ i \in Aged

(* prune: a metadata.json that does not parse counts as {}: not a baseline, *)
(* and as old as its directory.                                             *)
Expired(i, baselinesToo) ==
    /\ dirs[Home][i] # Absent /\ i \in Aged
    /\ baselinesToo \/ i \in torn \/ i \notin Baselines

PruneScan(baselinesToo) ==
    /\ prune.pc = "idle"
    /\ prune' = [pc |-> "remove", candidates |-> {i \in Ids: Expired(i, baselinesToo)},
                 baselinesToo |-> baselinesToo]
    /\ UNCHANGED <<dirs, torn, bundle, export, importer, edits, exports>>

PruneRemove(confirm) ==
    /\ prune.pc = "remove"
    /\ dirs' = IF confirm
               THEN [dirs EXCEPT ![Home] =
                        [i \in Ids |-> IF i \in prune.candidates THEN Absent ELSE @[i]]]
               ELSE dirs
    /\ prune' = NoPrune
    /\ UNCHANGED <<torn, bundle, export, importer, edits, exports>>

BundleNext ==
    \/ \E i \in Ids: ExportHash(i) \/ Tear(i) \/ \E f \in Files: Edit(i, f)
    \/ ExportPublish
    \/ \E p \in Importers: \/ ImportExtract(p) \/ ImportPublish(p)
                              \/ \E r \in Roots: ImportVerify(p, r)
    \/ \E b \in BOOLEAN: PruneScan(b) \/ PruneRemove(b)

BundleSpec == BundleInit /\ [][BundleNext]_bundleVars
----------------------------------------------------------------------------
CollectionsKept ==
    \A r \in Roots, i \in Ids:
        dirs[r][i] # Absent =>
            \/ dirs'[r][i] = dirs[r][i]
            \/ dirs'[r][i] = Absent /\ prune.pc = "remove"
            \/ edits' # edits

(* docs/portable-collections.md: import never overwrites a collection. Two    *)
(* imports of one bundle, an import beside a prune and a dashboard that goes   *)
(* on writing: the files of a directory that exists change only by an edit of *)
(* the dashboard, or go away with a prune.                                    *)
ImportNeverOverwrites == [][CollectionsKept]_bundleVars

BaselinesKept ==
    \A i \in Baselines \ torn:
        dirs[Home][i] # Absent /\ dirs'[Home][i] = Absent => prune.baselinesToo

(* docs/portable-collections.md:43: baselines are preserved unless            *)
(* --include-baselines is given. No order of scans, edits, imports and        *)
(* removals lets a prune without it take a baseline away, unless a write cut  *)
(* short has made its metadata unreadable, which unprotects it (README,       *)
(* Findings).                                                                 *)
BaselinesSurvive == [][BaselinesKept]_bundleVars
=============================================================================
