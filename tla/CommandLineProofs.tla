-------------------------- MODULE CommandLineProofs --------------------------
(***************************************************************************)
(* The collections of the command line and the decisions about them, for   *)
(* any registry, order, exclusions, files, importers and roots, any number *)
(* of sessions, edits and exports, any request, candidates and downloads.  *)
(*                                                                         *)
(* CollectorRegistry: what COMPLETED means over all the sessions of a      *)
(* collection, what a session that ended leaves, what a resumption keeps;  *)
(* nothing is used of how the plan is computed.  CollectionBundle: an      *)
(* import never overwrites, a prune preserves the baselines it can read.   *)
(* AssessmentGates: a plan is the least there is, accepted releases bring  *)
(* no finding, no more failing nodes and no lower posture, a verified      *)
(* release is of one build, and lemmas about the reports of one            *)
(* collection, for LostEvidenceProofs.                                     *)
(***************************************************************************)
EXTENDS CollectorRegistry, CollectionBundle, AssessmentGates, FiniteSums

(* The sessions of one collection *)

States == {"PENDING", "RUNNING"} \cup Terminal
Entries == [state : States, attempts : Nat]

\* The stages in which the collector marked RUNNING is at work, and those of a
\* session that has no verdict yet.
Working == {"launch", "running", "ran"}
Undecided == {"init", "preflight", "next", "conclude"} \cup Working
Decided == {"recheck", "demote"}

TypeInv ==
    /\ file = [plan |-> file.plan, entry |-> file.entry]
    /\ file.entry \in [file.plan -> Entries]
    /\ status \in {"absent", "RUNNING", "COMPLETED", "FAILED", "CANCELLED", "TIMED_OUT"}
    /\ pc \in {"idle"} \cup Undecided \cup Decided
    /\ retry \in BOOLEAN /\ sessions \in Nat

\* What the metadata says while the script runs, and before the first session,
\* which finds no state file.
StatusInv ==
    /\ pc \in Undecided => status = "RUNNING"
    /\ pc \in Decided => status = "COMPLETED"
    /\ status = "absent" => file.plan = {}
    /\ status # "absent" => sessions > 0
    /\ pc = "init" /\ ~ (sessions > 1) => file.plan = {}

\* The collector at work is the one marked RUNNING, and only a script that died
\* leaves another one so, in a collection whose metadata still says RUNNING.
RunningInv ==
    /\ pc \in Working => Current \in file.plan /\ State(Current) = "RUNNING"
    /\ \A c \in file.plan : State(c) = "RUNNING" =>
          /\ status = "RUNNING"
          /\ pc \in {"idle", "init"} \/ (pc \in Working /\ c = Current)

IInv == TypeInv /\ StatusInv /\ RunningInv /\ CompletedIsWhole

-----------------------------------------------------------------------------
\* update_state changes the state of one entry, and counts an attempt when the
\* new state is RUNNING.
LEMMA UpdateStateEffect ==
    ASSUME TypeInv, NEW c, NEW state \in States, UpdateState(c, state)
    PROVE  /\ c \in file.plan
           /\ file'.plan = file.plan
           /\ file' = [plan |-> file'.plan, entry |-> file'.entry]
           /\ file'.entry \in [file.plan -> Entries]
           /\ State(c)' = state
           /\ file'.entry[c].attempts >= file.entry[c].attempts
           /\ \A d \in file.plan \ {c} : file'.entry[d] = file.entry[d]
  <1> DEFINE tries == IF state = "RUNNING" THEN file.entry[c].attempts + 1
                                           ELSE file.entry[c].attempts
             new == [file.entry[c] EXCEPT !.state = state, !.attempts = tries]
             entry == [file.entry EXCEPT ![c] = new]
  <1>1. c \in file.plan /\ file.entry \in [file.plan -> Entries] /\ file.entry[c] \in Entries
    BY DEF TypeInv, UpdateState
  <1>2. tries \in Nat /\ tries >= file.entry[c].attempts
    BY <1>1 DEF Entries
  <1>3. ASSUME NEW n \in Nat
        PROVE  LET e == [file.entry[c] EXCEPT !.state = state, !.attempts = n]
               IN  e \in Entries /\ e.state = state /\ e.attempts = n
    BY <1>1 DEF Entries
  <1>4. new \in Entries /\ new.state = state /\ new.attempts = tries
    BY <1>2, <1>3
  <1>5. file' = [plan |-> file.plan, entry |-> entry]
    BY <1>1 DEF UpdateState, TypeInv, Entries
  <1>6. entry \in [file.plan -> Entries] /\ entry[c] = new
    BY <1>1, <1>4
  <1> QED
    BY <1>1, <1>2, <1>4, <1>5, <1>6 DEF State

\* init_state keeps the attempts of what it resumes, starts over what was
\* interrupted, and leaves a PASS alone, the preflight's apart.
LEMMA InitStateEffect ==
    ASSUME TypeInv, NEW plan, NEW resume \in BOOLEAN, NEW retryFailed \in BOOLEAN
    PROVE  LET new == InitState(plan, resume, retryFailed) IN
           /\ new = [plan |-> plan, entry |-> new.entry]
           /\ new.entry \in [plan -> Entries]
           /\ \A c \in plan : new.entry[c].state # "RUNNING"
           /\ resume => \A c \in plan \cap file.plan :
                 /\ new.entry[c].attempts = file.entry[c].attempts
                 /\ State(c) = "PASS" /\ c # "preflight" => new.entry[c].state = "PASS"
  <1> DEFINE old(c) == IF resume /\ c \in DOMAIN file.entry THEN file.entry[c] ELSE Fresh
             restarts(c) == \/ c = "preflight"
                            \/ old(c).state \in {"RUNNING", "CANCELLED", "TIMED_OUT"}
                            \/ retryFailed /\ old(c).state = "FAIL"
             made(c) == IF restarts(c) THEN [old(c) EXCEPT !.state = "PENDING"] ELSE old(c)
  <1>1. InitState(plan, resume, retryFailed) = [plan |-> plan, entry |-> [c \in plan |-> made(c)]]
    BY DEF InitState
  <1>2. \A c \in plan : old(c) \in Entries
    BY DEF TypeInv, Entries, Fresh, States
  <1>5. \A c \in plan : /\ made(c) \in Entries /\ made(c).state # "RUNNING"
                        /\ made(c).attempts = old(c).attempts
                        /\ old(c).state = "PASS" /\ c # "preflight" => made(c).state = "PASS"
    <2> SUFFICES ASSUME NEW c \in plan
                 PROVE  /\ made(c) \in Entries /\ made(c).state # "RUNNING"
                        /\ made(c).attempts = old(c).attempts
                        /\ old(c).state = "PASS" /\ c # "preflight" => made(c).state = "PASS"
      OBVIOUS
    <2>1. old(c) \in Entries
      BY <1>2
    <2> HIDE DEF old
    <2> QED
      BY <2>1 DEF Entries, States, Terminal
  <1>6. resume => \A c \in plan \cap file.plan : old(c) = file.entry[c]
    BY DEF TypeInv
  <1> HIDE DEF made, old
  <1> QED
    BY <1>1, <1>5, <1>6 DEF State

-----------------------------------------------------------------------------
LEMMA InitIInv == Init => IInv
  <1> SUFFICES ASSUME Init PROVE IInv
    OBVIOUS
  <1>1. file.plan = {} /\ status = "absent" /\ pc = "idle"
    BY DEF Init
  <1>2. retry \in BOOLEAN /\ sessions \in Nat
    BY DEF Init
  <1>3. TypeInv
    BY <1>2 DEF Init, TypeInv, Undecided, Decided, Working, Entries, States, Terminal
  <1>4. StatusInv /\ RunningInv /\ CompletedIsWhole
    BY <1>1 DEF StatusInv, RunningInv, CompletedIsWhole, Undecided, Decided, Working
  <1> QED
    BY <1>3, <1>4 DEF IInv

LEMMA InitPlanIInv ==
    ASSUME IInv, NEW exclude, InitPlan(exclude)
    PROVE  IInv'
  <1> DEFINE plan == BuildPlan(Registry, {}, exclude).plan
             new == InitState(plan, sessions > 1, retry)
  <1>1. file' = new /\ status = "RUNNING" /\ pc' = "preflight"
        /\ UNCHANGED <<status, retry, sessions>>
    BY DEF InitPlan, IInv, StatusInv, Undecided
  <1>2. /\ new = [plan |-> plan, entry |-> new.entry]
        /\ new.entry \in [plan -> Entries]
        /\ \A c \in plan : new.entry[c].state # "RUNNING"
    <2>1. TypeInv /\ retry \in BOOLEAN /\ (sessions > 1) \in BOOLEAN
      BY DEF IInv, TypeInv
    <2> HIDE DEF plan
    <2> QED
      BY <2>1, InitStateEffect
  <1> HIDE DEF plan, new
  <1> QED
    BY <1>1, <1>2
    DEF IInv, TypeInv, StatusInv, RunningInv, CompletedIsWhole, Undecided, Decided, Working, State

\* A step that writes the metadata or moves the script, and leaves the state file.
LEMMA FileKeptIInv ==
    ASSUME IInv, UNCHANGED file,
           SkipCollector \/ Launch \/ ComponentEnds \/ Conclude \/ Demote \/ Signal \/ Crash
    PROVE  IInv'
  <1> USE DEF Working, Undecided, Decided
  <1>1. TypeInv'
    BY DEF IInv, TypeInv, SkipCollector, Advance, Launch, ComponentEnds, Conclude, Verdict,
           Demote, Signal, Crash
  <1>2. StatusInv'
    BY DEF IInv, TypeInv, StatusInv, SkipCollector, Advance, Launch, ComponentEnds, Conclude,
           Demote, Signal, Crash, Verdict
  <1>3. RunningInv'
    BY DEF IInv, TypeInv, StatusInv, RunningInv, State, Current, SkipCollector, Advance, Launch,
           ComponentEnds, Conclude, Demote, Signal, Crash
  <1>4. CompletedIsWhole'
    BY DEF IInv, StatusInv, CompletedIsWhole, State, SkipCollector, Advance, Launch,
           ComponentEnds, Conclude, Demote, Signal, Crash, Verdict
  <1> QED
    BY <1>1, <1>2, <1>3, <1>4 DEF IInv

LEMMA NextIInv == IInv /\ [Next]_vars => IInv'
  <1> SUFFICES ASSUME IInv, [Next]_vars PROVE IInv'
    OBVIOUS
  <1> USE DEF Working, Undecided, Decided
  <1>0. TypeInv /\ StatusInv /\ RunningInv /\ CompletedIsWhole
    BY DEF IInv
  <1>1. CASE \E resume, retryFailed \in BOOLEAN : StartSession(resume, retryFailed)
    <2>1. /\ UNCHANGED file /\ status' = "RUNNING" /\ pc = "idle" /\ pc' = "init"
          /\ retry' \in BOOLEAN /\ sessions' = sessions + 1
          /\ status \notin {"COMPLETED"}
      BY <1>1 DEF StartSession
    <2>2. TypeInv'
      BY <1>0, <2>1 DEF TypeInv
    <2>3. StatusInv'
      <3>1. sessions' > 0
        BY <1>0, <2>1 DEF TypeInv
      <3>2. ~ (sessions' > 1) => file.plan = {}
        <4>1. status = "absent" \/ sessions > 0
          BY <1>0 DEF StatusInv
        <4> QED
          BY <1>0, <2>1, <4>1 DEF TypeInv, StatusInv
      <3> QED
        BY <2>1, <3>1, <3>2 DEF StatusInv
    <2>4. RunningInv' /\ CompletedIsWhole'
      BY <1>0, <2>1 DEF StatusInv, RunningInv, CompletedIsWhole, State
    <2> QED
      BY <2>2, <2>3, <2>4 DEF IInv
  <1>8. CASE \E exclude \in Excludes : InitPlan(exclude)
    BY <1>8, InitPlanIInv
  <1>2. CASE PreflightPassed
    <2>1. UpdateState("preflight", "PASS") /\ pc = "preflight" /\ pc' = "next"
          /\ UNCHANGED <<status, at, retry, sessions>>
      BY <1>2 DEF PreflightPassed
    <2>2. "PASS" \in States
      BY DEF States, Terminal
    <2> QED
      BY <1>0, <2>1, <2>2, UpdateStateEffect
      DEF IInv, TypeInv, StatusInv, RunningInv, CompletedIsWhole, State, Current
  <1>3. CASE MarkRunning
    <2>1. UpdateState(Current, "RUNNING") /\ pc = "next" /\ pc' = "launch" /\ UNCHANGED <<status, at, retry, sessions>>
      BY <1>3 DEF MarkRunning
    <2>2. "RUNNING" \in States
      BY DEF States
    <2>3. Current' = Current
      BY <2>1 DEF Current
    <2> QED
      BY <1>0, <2>1, <2>2, <2>3, UpdateStateEffect
      DEF IInv, TypeInv, StatusInv, RunningInv, CompletedIsWhole, State
  <1>4. CASE CollectorFinish
    <2>1. PICK outcome \in {"CANCELLED", "TIMED_OUT", "PASS", "FAIL"} : UpdateState(Current, outcome)
      BY <1>4 DEF CollectorFinish
    <2>2. pc = "ran" /\ pc' \in {"next", "conclude"} /\ UNCHANGED <<status, retry, sessions>>
      BY <1>4 DEF CollectorFinish, Advance
    <2>3. outcome \in States /\ outcome # "RUNNING"
      BY DEF States, Terminal
    <2> QED
      BY <1>0, <2>1, <2>2, <2>3, UpdateStateEffect
      DEF IInv, TypeInv, StatusInv, RunningInv, CompletedIsWhole, State
  <1>5. CASE RecheckContracts
    <2>1. PICK outcome \in {"PASS", "FAIL"} : UpdateState(Recheck, outcome)
      BY <1>5 DEF RecheckContracts
    <2>2. pc = "recheck" /\ pc' \in {"idle", "demote"} /\ UNCHANGED <<status, retry, sessions>>
      BY <1>5 DEF RecheckContracts
    <2>3. outcome \in States /\ outcome # "RUNNING"
      BY DEF States, Terminal
    <2> QED
      BY <1>0, <2>1, <2>2, <2>3, UpdateStateEffect
      DEF IInv, TypeInv, StatusInv, RunningInv, CompletedIsWhole, State
  <1>6. CASE SkipCollector \/ Launch \/ ComponentEnds \/ Conclude \/ Demote \/ Signal \/ Crash
    <2>1. UNCHANGED file
      BY <1>6 DEF SkipCollector, Launch, ComponentEnds, Conclude, Demote, Signal, Crash
    <2> QED
      BY <1>6, <2>1, FileKeptIInv
  <1>7. CASE UNCHANGED vars
    BY <1>0, <1>7 DEF IInv, TypeInv, StatusInv, RunningInv, CompletedIsWhole, State, Current, vars
  <1> QED
    BY <1>1, <1>2, <1>3, <1>4, <1>5, <1>6, <1>7, <1>8 DEF Next

LEMMA Invariance == Spec => []IInv
  BY InitIInv, NextIInv, PTL DEF Spec

-----------------------------------------------------------------------------
\* COMPLETED is written only when every planned required collector has passed,
\* over any number of sessions, signals and crashes, and stays true of them all
\* but the one that is repeated.
THEOREM CompletedCollectionsAreWhole == Spec => []CompletedIsWhole
  BY Invariance, PTL DEF IInv

\* A script that got to its verdict has an outcome for everything it started:
\* RUNNING is left behind only by a script that died before its verdict.
THEOREM NothingIsLeftRunning == Spec => []EndedSessionsLeaveNothingRunning
  <1>1. IInv => EndedSessionsLeaveNothingRunning
    BY DEF IInv, TypeInv, StatusInv, RunningInv, EndedSessionsLeaveNothingRunning, Undecided,
           Decided, Working
  <1> QED
    BY <1>1, Invariance, PTL

-----------------------------------------------------------------------------
EvidenceKept ==
    \A c \in DOMAIN file.entry \cap DOMAIN file'.entry :
        /\ file'.entry[c].attempts >= file.entry[c].attempts
        /\ State(c) = "PASS" /\ c \notin {"preflight", Recheck} => file'.entry[c].state = "PASS"

\* An entry that update_state writes keeps its count; a PASS is overwritten for
\* the preflight and the repeated check only, because the collector that ends is
\* the one marked RUNNING.
LEMMA UpdateKeepsEvidence ==
    ASSUME TypeInv, NEW c, NEW state \in States, UpdateState(c, state),
           State(c) # "PASS" \/ c \in {"preflight", Recheck}
    PROVE  EvidenceKept
  <1> SUFFICES ASSUME NEW d \in DOMAIN file.entry \cap DOMAIN file'.entry
               PROVE  /\ file'.entry[d].attempts >= file.entry[d].attempts
                      /\ State(d) = "PASS" /\ d \notin {"preflight", Recheck}
                            => file'.entry[d].state = "PASS"
    BY DEF EvidenceKept
  <1>1. d \in file.plan /\ file.entry[d].attempts \in Nat
    BY DEF TypeInv, Entries
  <1>2. CASE d = c
    BY <1>2, UpdateStateEffect DEF State
  <1>3. CASE d # c
    BY <1>1, <1>3, UpdateStateEffect DEF State
  <1> QED
    BY <1>2, <1>3

\* Whatever is resumed, killed or retried, a collector that stays in the plan
\* loses neither its attempts nor its PASS.
THEOREM ResumptionsKeepEvidence == Spec => ResumeKeepsEvidence
  <1>1. IInv /\ [Next]_vars => [EvidenceKept]_vars
    <2> SUFFICES ASSUME IInv, Next PROVE EvidenceKept
      OBVIOUS
    <2>0. TypeInv /\ StatusInv /\ RunningInv
      BY DEF IInv
    <2>1. ASSUME NEW exclude \in Excludes, InitPlan(exclude)
          PROVE  EvidenceKept
      <3> DEFINE plan == BuildPlan(Registry, {}, exclude).plan
                 new == InitState(plan, sessions > 1, retry)
      <3>1. file' = new /\ pc = "init"
        BY <2>1 DEF InitPlan
      <3>2. /\ new.entry \in [plan -> Entries]
            /\ sessions > 1 => \A c \in plan \cap file.plan :
                  /\ new.entry[c].attempts = file.entry[c].attempts
                  /\ State(c) = "PASS" /\ c # "preflight" => new.entry[c].state = "PASS"
        <4>1. retry \in BOOLEAN /\ (sessions > 1) \in BOOLEAN
          BY <2>0 DEF TypeInv
        <4> HIDE DEF plan
        <4> QED
          BY <2>0, <4>1, InitStateEffect
      <3>3. \A c \in file.plan : file.entry[c].attempts \in Nat
        BY <2>0 DEF TypeInv, Entries
      <3>4. ~ (sessions > 1) => file.plan = {}
        BY <2>0, <3>1 DEF StatusInv
      <3> HIDE DEF plan, new
      <3> QED
        BY <2>0, <3>1, <3>2, <3>3, <3>4 DEF EvidenceKept, TypeInv
    <2>2. ASSUME PreflightPassed PROVE EvidenceKept
      BY <2>0, <2>2, UpdateKeepsEvidence DEF PreflightPassed, States, Terminal
    <2>3. ASSUME MarkRunning PROVE EvidenceKept
      BY <2>0, <2>3, UpdateKeepsEvidence DEF MarkRunning, Due, ShouldRun, States
    <2>4. ASSUME CollectorFinish PROVE EvidenceKept
      <3>1. PICK outcome \in {"CANCELLED", "TIMED_OUT", "PASS", "FAIL"} :
               UpdateState(Current, outcome)
        BY <2>4 DEF CollectorFinish
      <3>2. State(Current) = "RUNNING" /\ outcome \in States
        BY <2>0, <2>4 DEF CollectorFinish, RunningInv, Working, States, Terminal
      <3> QED
        BY <2>0, <3>1, <3>2, UpdateKeepsEvidence
    <2>5. ASSUME RecheckContracts PROVE EvidenceKept
      BY <2>0, <2>5, UpdateKeepsEvidence DEF RecheckContracts, States, Terminal
    <2>6. ASSUME UNCHANGED file PROVE EvidenceKept
      BY <2>0, <2>6 DEF EvidenceKept, TypeInv, Entries, State
    <2> QED
      BY <2>1, <2>2, <2>3, <2>4, <2>5, <2>6
      DEF Next, StartSession, SkipCollector, Launch, ComponentEnds, Conclude, Demote, Signal, Crash
  <1> QED
    BY <1>1, Invariance, PTL DEF Spec, ResumeKeepsEvidence, EvidenceKept

-----------------------------------------------------------------------------
(* Bundles *)

\* The files of a collection: those an export takes, and more unless imported.
Contents == UNION {[F -> Nat] : F \in {G \in SUBSET Files : Exported \subseteq G}}

Bundles == [id : Ids, manifest : Contents, content : Contents]

\* Where an import is, and what it will write.
ImportOK(p) ==
    /\ importer[p].pc # "idle" =>
          importer[p].root \in Roots /\ importer[p].id \in Ids /\ bundle \in Bundles
    /\ importer[p].pc = "publish" => importer[p].content \in Contents

BundleTypeInv ==
    /\ edits \in Nat
    /\ dirs \in [Roots -> [Ids -> Contents \cup {Absent}]]
    /\ bundle \in Bundles \cup {Absent}
    /\ export.pc = "copy" => export.id \in Ids /\ export.manifest \in Contents
    /\ DOMAIN importer = Importers
    /\ \A p \in Importers : ImportOK(p)

\* What a prune is about to remove is still there, and if it is a baseline it
\* is one whose metadata cannot be read.
PruneInv ==
    prune.pc = "remove" =>
        \A i \in prune.candidates :
            /\ i \in Ids /\ dirs[Home][i] # Absent
            /\ prune.baselinesToo \/ i \in torn \/ i \notin Baselines

BundleInv == BundleTypeInv /\ PruneInv

-----------------------------------------------------------------------------
\* A collection is not the absence of one.
LEMMA ContentsAreThere ==
    /\ Absent \notin Contents
    /\ \A c \in Contents : Exported \subseteq DOMAIN c /\ \A f \in DOMAIN c : c[f] \in Nat
    /\ [f \in Files |-> 0] \in Contents
    /\ \A c \in Contents : [f \in Exported |-> c[f]] \in Contents
    /\ \A c \in Contents : \A f \in DOMAIN c : [c EXCEPT ![f] = @ + 1] \in Contents
  <1>1. Absent \notin Contents
    BY BundleAssumption DEF Contents
  <1>2. ASSUME NEW c \in Contents
        PROVE  \E F \in SUBSET Files : Exported \subseteq F /\ c \in [F -> Nat]
    BY DEF Contents
  <1>3. \A F \in SUBSET Files : Exported \subseteq F => [F -> Nat] \subseteq Contents
    BY DEF Contents
  <1>4. [f \in Files |-> 0] \in Contents
    <2>1. Exported \subseteq Files /\ [f \in Files |-> 0] \in [Files -> Nat]
      BY DEF Exported
    <2> QED
      BY <1>3, <2>1
  <1>5. ASSUME NEW c \in Contents
        PROVE  /\ Exported \subseteq DOMAIN c /\ \A f \in DOMAIN c : c[f] \in Nat
               /\ [f \in Exported |-> c[f]] \in Contents
               /\ \A f \in DOMAIN c : [c EXCEPT ![f] = @ + 1] \in Contents
    <2>1. PICK F \in SUBSET Files : Exported \subseteq F /\ c \in [F -> Nat]
      BY <1>2
    <2>2. [f \in Exported |-> c[f]] \in [Exported -> Nat]
      BY <2>1
    <2>3. Exported \in SUBSET Files
      BY DEF Exported
    <2>4. \A f \in DOMAIN c : [c EXCEPT ![f] = @ + 1] \in [F -> Nat]
      BY <2>1
    <2> QED
      BY <1>3, <2>1, <2>2, <2>3, <2>4
  <1> QED
    BY <1>1, <1>4, <1>5

\* Every collection is at home, and nothing is under way.
LEMMA InitBundleInv == BundleInit => BundleInv
  BY ContentsAreThere DEF BundleInit, BundleInv, BundleTypeInv, PruneInv, ImportOK, NoImport, NoPrune, Resting

\* The importers and what is left to prune, when a step leaves them alone.
LEMMA ImportersKept ==
    ASSUME BundleTypeInv, importer' = importer, bundle' \in Bundles \/ bundle' = bundle
    PROVE  \A p \in Importers : ImportOK(p)'
  BY DEF BundleTypeInv, ImportOK

LEMMA PruneKept ==
    ASSUME PruneInv, prune' = prune,
           \A i \in Ids : dirs[Home][i] # Absent => dirs'[Home][i] # Absent,
           \A i \in Ids : i \in torn /\ dirs[Home][i] # Absent => i \in torn'
    PROVE  PruneInv'
  BY DEF PruneInv

LEMMA EditStep ==
    ASSUME BundleInv, NEW i \in Ids, NEW f \in Files, Edit(i, f)
    PROVE  BundleInv'
  <1> USE DEF Edit
  <1> DEFINE c == dirs[Home][i]
  <1>1. BundleTypeInv /\ PruneInv /\ c \in Contents /\ Home \in Roots
    BY BundleAssumption DEF BundleInv, BundleTypeInv
  <1>2. [c EXCEPT ![f] = @ + 1] \in Contents
    BY <1>1, ContentsAreThere
  <1>3. dirs' = [dirs EXCEPT ![Home] = [dirs[Home] EXCEPT ![i] = [c EXCEPT ![f] = @ + 1]]]
    OBVIOUS
  <1>4. dirs' \in [Roots -> [Ids -> Contents \cup {Absent}]]
    BY <1>1, <1>2, <1>3 DEF BundleTypeInv
  <1>5. BundleTypeInv'
    BY <1>1, <1>4, ImportersKept DEF BundleTypeInv
  <1>6. \A j \in Ids : dirs[Home][j] # Absent => dirs'[Home][j] # Absent
    BY <1>1, <1>2, <1>3, ContentsAreThere DEF BundleTypeInv
  <1> QED
    BY <1>1, <1>5, <1>6, PruneKept DEF BundleInv

LEMMA TearStep ==
    ASSUME BundleInv, NEW i \in Ids, Tear(i)
    PROVE  BundleInv'
  <1>1. BundleTypeInv'
    BY ImportersKept DEF BundleInv, Tear, BundleTypeInv
  <1> QED
    BY <1>1, PruneKept DEF BundleInv, Tear

LEMMA ExportStep ==
    ASSUME BundleInv, (\E i \in Ids : ExportHash(i)) \/ ExportPublish
    PROVE  BundleInv'
  <1>1. BundleTypeInv /\ PruneInv /\ Home \in Roots
    BY BundleAssumption DEF BundleInv
  <1>2. ASSUME NEW i \in Ids, ExportHash(i) PROVE BundleTypeInv'
    <2>1. [f \in Exported |-> dirs[Home][i][f]] \in Contents
      BY <1>1, <1>2, ContentsAreThere DEF ExportHash, BundleTypeInv
    <2> QED
      BY <1>1, <1>2, <2>1, ImportersKept DEF ExportHash, BundleTypeInv
  <1>3. ASSUME ExportPublish PROVE BundleTypeInv'
    <2>1. bundle' \in Bundles \/ bundle' = bundle
      <3>1. CASE dirs[Home][export.id] = Absent
        BY <1>3, <3>1 DEF ExportPublish
      <3>2. CASE dirs[Home][export.id] # Absent
        <4>1. export.id \in Ids /\ export.manifest \in Contents
              /\ dirs[Home][export.id] \in Contents
          BY <1>1, <1>3, <3>2 DEF ExportPublish, BundleTypeInv
        <4>2. [f \in Exported |-> dirs[Home][export.id][f]] \in Contents
          BY <4>1, ContentsAreThere
        <4> QED
          BY <1>3, <3>2, <4>1, <4>2 DEF ExportPublish, Bundles
      <3> QED
        BY <3>1, <3>2
    <2>2. UNCHANGED <<importer, dirs, edits>> /\ export'.pc = "idle"
      BY <1>3 DEF ExportPublish, Resting
    <2>3. \A p \in Importers : ImportOK(p)'
      BY <1>1, <2>1, <2>2, ImportersKept
    <2> QED
      BY <1>1, <2>1, <2>2, <2>3 DEF BundleTypeInv
  <1>4. PruneInv'
    BY <1>1, PruneKept DEF ExportHash, ExportPublish
  <1> QED
    BY <1>2, <1>3, <1>4 DEF BundleInv

LEMMA ImportStep ==
    ASSUME BundleInv, NEW p \in Importers,
           ImportExtract(p) \/ ImportPublish(p) \/ \E r \in Roots : ImportVerify(p, r)
    PROVE  BundleInv'
  <1>1. BundleTypeInv /\ PruneInv /\ ImportOK(p) /\ Home \in Roots
    BY BundleAssumption DEF BundleInv, BundleTypeInv
  <1>2. ASSUME NEW r \in Roots, ImportVerify(p, r) PROVE BundleInv'
    <2>1. bundle \in Bundles /\ bundle.id \in Ids
      BY <1>1, <1>2 DEF ImportVerify, Verifies, BundleTypeInv, Bundles
    <2>2. \A q \in Importers : ImportOK(q)'
      BY <1>1, <1>2, <2>1 DEF ImportVerify, ImportOK, BundleTypeInv
    <2>3. BundleTypeInv'
      BY <1>1, <1>2, <2>2 DEF ImportVerify, BundleTypeInv
    <2> QED
      BY <1>1, <1>2, <2>3, PruneKept DEF ImportVerify, BundleInv
  <1>3. CASE ImportExtract(p)
    <2>1. bundle \in Bundles /\ bundle.content \in Contents
      BY <1>1, <1>3 DEF ImportExtract, ImportOK, Bundles
    <2>2. importer' = [importer EXCEPT ![p] =
                          [importer[p] EXCEPT !.pc = "publish", !.content = bundle.content]]
      BY <1>3 DEF ImportExtract
    <2>3. \A q \in Importers : ImportOK(q)'
      BY <1>1, <1>3, <2>1, <2>2 DEF ImportExtract, ImportOK, BundleTypeInv
    <2>4. BundleTypeInv'
      BY <1>1, <1>3, <2>3 DEF ImportExtract, BundleTypeInv
    <2> QED
      BY <1>1, <1>3, <2>4, PruneKept DEF ImportExtract, BundleInv
  <1>4. CASE ImportPublish(p)
    <2> DEFINE r == importer[p].root
               i == importer[p].id
               c == importer[p].content
    <2>1. r \in Roots /\ i \in Ids /\ c \in Contents
      BY <1>1, <1>4 DEF ImportPublish, ImportOK
    <2>2. \A q \in Importers : ImportOK(q)'
      BY <1>1, <1>4 DEF ImportPublish, ImportOK, BundleTypeInv, NoImport
    <2>3. \/ /\ dirs[r][i] = Absent
             /\ dirs' = [dirs EXCEPT ![r] = [dirs[r] EXCEPT ![i] = c]]
             /\ torn' = IF r = Home THEN torn \ {i} ELSE torn
          \/ dirs' = dirs /\ torn' = torn
      BY <1>4 DEF ImportPublish
    <2> HIDE DEF r, i, c
    <2>4. dirs' \in [Roots -> [Ids -> Contents \cup {Absent}]]
      BY <1>1, <2>1, <2>3 DEF BundleTypeInv
    <2>5. BundleTypeInv'
      BY <1>1, <1>4, <2>2, <2>4 DEF ImportPublish, BundleTypeInv
    <2>6. \A j \in Ids : dirs[Home][j] # Absent => dirs'[Home][j] # Absent
      BY <1>1, <2>1, <2>3, ContentsAreThere DEF BundleTypeInv
    <2>7. \A j \in Ids : j \in torn /\ dirs[Home][j] # Absent => j \in torn'
      BY <1>1, <2>1, <2>3
    <2> QED
      BY <1>1, <1>4, <2>5, <2>6, <2>7, PruneKept DEF ImportPublish, BundleInv
  <1> QED
    BY <1>2, <1>3, <1>4

LEMMA PruneStep ==
    ASSUME BundleInv, NEW b \in BOOLEAN, PruneScan(b) \/ PruneRemove(b)
    PROVE  BundleInv'
  <1>1. BundleTypeInv /\ Home \in Roots
    BY BundleAssumption DEF BundleInv
  <1>2. CASE PruneScan(b)
    <2>1. BundleTypeInv'
      BY <1>1, <1>2, ImportersKept DEF PruneScan, BundleTypeInv
    <2> QED
      BY <1>2, <2>1 DEF PruneScan, PruneInv, Expired, BundleInv
  <1>3. CASE PruneRemove(b)
    <2>1. dirs' \in [Roots -> [Ids -> Contents \cup {Absent}]]
      BY <1>1, <1>3 DEF PruneRemove, BundleTypeInv
    <2>2. BundleTypeInv'
      BY <1>1, <1>3, <2>1, ImportersKept DEF PruneRemove, BundleTypeInv
    <2> QED
      BY <1>3, <2>2 DEF PruneRemove, PruneInv, NoPrune, BundleInv
  <1> QED
    BY <1>2, <1>3

LEMMA NextBundleInv == BundleInv /\ [BundleNext]_bundleVars => BundleInv'
  <1> SUFFICES ASSUME BundleInv, [BundleNext]_bundleVars PROVE BundleInv'
    OBVIOUS
  <1>1. CASE UNCHANGED bundleVars
    BY <1>1 DEF bundleVars, BundleInv, BundleTypeInv, PruneInv, ImportOK
  <1>2. CASE BundleNext
    BY <1>2, EditStep, TearStep, ExportStep, ImportStep, PruneStep DEF BundleNext
  <1> QED
    BY <1>1, <1>2

LEMMA BundleInvariance == BundleSpec => []BundleInv
  BY InitBundleInv, NextBundleInv, PTL DEF BundleSpec

-----------------------------------------------------------------------------
\* Only a write of the dashboard or a prune changes a collection that exists,
\* however many imports, exports and prunes overlap.
THEOREM ImportsOverwriteNothing == BundleSpec => ImportNeverOverwrites
  <1>1. BundleInv /\ [BundleNext]_bundleVars => [CollectionsKept]_bundleVars
    <2> SUFFICES ASSUME BundleInv, BundleNext PROVE CollectionsKept
      OBVIOUS
    <2> SUFFICES ASSUME NEW r \in Roots, NEW i \in Ids, dirs[r][i] # Absent
                 PROVE  \/ dirs'[r][i] = dirs[r][i]
                        \/ dirs'[r][i] = Absent /\ prune.pc = "remove"
                        \/ edits' # edits
      BY DEF CollectionsKept
    <2>1. dirs \in [Roots -> [Ids -> Contents \cup {Absent}]]
      BY DEF BundleInv, BundleTypeInv
    <2>2. ASSUME NEW j \in Ids, NEW f \in Files, Edit(j, f) PROVE edits' # edits
      BY <2>2 DEF Edit, BundleInv, BundleTypeInv
    <2>3. ASSUME NEW p \in Importers, ImportPublish(p) PROVE dirs'[r][i] = dirs[r][i]
      BY <2>1, <2>3 DEF ImportPublish, BundleInv, BundleTypeInv, ImportOK
    <2>4. ASSUME NEW b \in BOOLEAN, PruneRemove(b)
          PROVE  dirs'[r][i] = dirs[r][i] \/ (dirs'[r][i] = Absent /\ prune.pc = "remove")
      BY <2>1, <2>4 DEF PruneRemove
    <2> QED
      BY <2>2, <2>3, <2>4
      DEF BundleNext, Tear, ExportHash, ExportPublish, ImportVerify, ImportExtract, PruneScan
  <1> QED
    BY <1>1, BundleInvariance, PTL DEF BundleSpec, ImportNeverOverwrites

\* A prune without --include-baselines takes no baseline whose metadata can be
\* read, whatever is written, imported or exported between its scan and its end.
THEOREM PruneSparesBaselines == BundleSpec => BaselinesSurvive
  <1>1. BundleInv /\ [BundleNext]_bundleVars => [BaselinesKept]_bundleVars
    <2> SUFFICES ASSUME BundleInv, BundleNext, NEW i \in Baselines \ torn,
                        dirs[Home][i] # Absent, dirs'[Home][i] = Absent
                 PROVE  prune.baselinesToo
      BY DEF BaselinesKept
    <2>1. dirs \in [Roots -> [Ids -> Contents \cup {Absent}]] /\ Home \in Roots /\ i \in Ids
      BY BundleAssumption DEF BundleInv, BundleTypeInv
    <2>2. ASSUME NEW j \in Ids, NEW f \in Files, Edit(j, f) PROVE FALSE
      <3> DEFINE c == dirs[Home][j]
      <3>1. c \in Contents /\ f \in DOMAIN c
        BY <2>1, <2>2 DEF Edit
      <3>2. dirs' = [dirs EXCEPT ![Home] = [dirs[Home] EXCEPT ![j] = [c EXCEPT ![f] = @ + 1]]]
        BY <2>2 DEF Edit
      <3>3. [c EXCEPT ![f] = @ + 1] # Absent
        BY <3>1, ContentsAreThere
      <3> HIDE DEF c
      <3> QED
        BY <2>1, <3>2, <3>3
    <2>3. ASSUME NEW p \in Importers, ImportPublish(p) PROVE FALSE
      BY <2>1, <2>3 DEF ImportPublish, BundleInv, BundleTypeInv, ImportOK
    <2>4. ASSUME NEW b \in BOOLEAN, PruneRemove(b) PROVE prune.baselinesToo
      BY <2>1, <2>4 DEF PruneRemove, BundleInv, PruneInv
    <2> QED
      BY <2>2, <2>3, <2>4
      DEF BundleNext, Tear, ExportHash, ExportPublish, ImportVerify, ImportExtract, PruneScan
  <1> QED
    BY <1>1, BundleInvariance, PTL DEF BundleSpec, BaselinesSurvive

-----------------------------------------------------------------------------
(* build_plan *)

LEMMA LeastNumber ==
    ASSUME NEW D \in SUBSET Nat, D # {}
    PROVE  \E n \in D : \A m \in D : n <= m
  <1>1. PICK n \in D : \A m \in D : ~ (<<m, n>> \in OpToRel(<, Nat))
    BY NatLessThanWellFounded, WFMin
  <1>2. \A m \in D : ~ (m < n)
    BY <1>1 DEF OpToRel
  <1> QED
    BY <1>2

\* A round adds the dependencies of what is selected; s is n rounds from seeds.
Grown(deps, S) == S \cup UNION {deps[c] : c \in S}
IsRounds(s, deps, seeds, n) ==
    s = [k \in 0 .. n |-> IF k = 0 THEN seeds ELSE Grown(deps, s[k - 1])]
Rounds(deps, seeds, n) == CHOOSE s : IsRounds(s, deps, seeds, n)
Selected(deps, seeds, n) == Rounds(deps, seeds, n)[n]

LEMMA RoundsExist ==
    ASSUME NEW deps, NEW seeds, NEW n \in Nat
    PROVE  \E s : IsRounds(s, deps, seeds, n)
  <1> DEFINE D == {k \in Nat : ~ \E s : IsRounds(s, deps, seeds, k)}
  <1> SUFFICES ASSUME D # {} PROVE FALSE
    OBVIOUS
  <1>0. D \in SUBSET Nat
    OBVIOUS
  <1> HIDE DEF D
  <1>1. PICK k \in D : \A j \in D : k <= j
    BY <1>0, LeastNumber
  <1> USE DEF D
  <1>2. CASE k = 0
    <2> DEFINE s == [j \in 0 .. 0 |-> seeds]
    <2>1. s = [j \in 0 .. 0 |-> IF j = 0 THEN seeds ELSE Grown(deps, s[j - 1])]
      OBVIOUS
    <2>2. IsRounds(s, deps, seeds, k)
      BY <1>2, <2>1 DEF IsRounds
    <2> QED
      BY <2>2
  <1>3. CASE k # 0
    <2>1. k \in Nat /\ k - 1 \in Nat /\ k - 1 \notin D
      BY <1>1, <1>3
    <2>2. PICK t : IsRounds(t, deps, seeds, k - 1)
      BY <2>1
    <2> DEFINE s == [j \in 0 .. k |-> IF j = k THEN Grown(deps, t[k - 1]) ELSE t[j]]
    <2>3. \A j \in 0 .. k - 1 : t[j] = IF j = 0 THEN seeds ELSE Grown(deps, t[j - 1])
      BY <2>2 DEF IsRounds
    <2>4. \A j \in 0 .. k : s[j] = IF j = 0 THEN seeds ELSE Grown(deps, s[j - 1])
      <3>1. ASSUME NEW j \in 0 .. k, j = k PROVE s[j] = IF j = 0 THEN seeds ELSE Grown(deps, s[j - 1])
        BY <1>3, <2>1, <3>1
      <3>2. ASSUME NEW j \in 0 .. k, j # k PROVE s[j] = IF j = 0 THEN seeds ELSE Grown(deps, s[j - 1])
        <4>1. j \in 0 .. k - 1 /\ s[j] = t[j] /\ (j # 0 => s[j - 1] = t[j - 1])
          BY <2>1, <3>2
        <4> QED
          BY <2>3, <4>1
      <3> QED
        BY <3>1, <3>2
    <2>5. IsRounds(s, deps, seeds, k)
      BY <2>4 DEF IsRounds
    <2> QED
      BY <2>5
  <1> QED
    BY <1>2, <1>3

\* After as many rounds as there are ids, what is selected is the least set that
\* holds the seeds and is closed under dependencies: each round but the last adds
\* an id, or none of the later ones does.
LEMMA SelectionIsLeastClosed ==
    ASSUME NEW ids, IsFiniteSet(ids), NEW deps, NEW seeds \in SUBSET ids,
           \A c \in ids : deps[c] \subseteq ids
    PROVE  LET plan == Selected(deps, seeds, Cardinality(ids)) IN
           /\ plan \subseteq ids /\ seeds \subseteq plan
           /\ \A c \in plan : deps[c] \subseteq plan
           /\ \A P : seeds \subseteq P /\ (\A c \in P : deps[c] \subseteq P) => plan \subseteq P
           /\ \A A : seeds \subseteq A /\ (\A c \in plan : deps[c] \subseteq A) => plan \subseteq A
  <1>1. PICK n \in Nat : n = Cardinality(ids)
    BY FS_CardinalityType
  <1> DEFINE s == Rounds(deps, seeds, n)
             Closed(S) == \A c \in S : deps[c] \subseteq S
  <1>2. IsRounds(s, deps, seeds, n)
    BY RoundsExist DEF Rounds
  <1> HIDE DEF s
  <1>3. s[0] = seeds /\ \A k \in 0 .. n : k # 0 => s[k] = Grown(deps, s[k - 1])
    BY <1>2 DEF IsRounds
  <1>4. \A k \in 0 .. n : k # 0 => k - 1 \in 0 .. n /\ k - 1 < k
    OBVIOUS
  <1>5. \A k \in 0 .. n :
           /\ s[k] \subseteq ids
           /\ Closed(s[k]) \/ Cardinality(s[k]) >= k
    <2> DEFINE Fine(k) == s[k] \subseteq ids /\ (Closed(s[k]) \/ Cardinality(s[k]) >= k)
               D == {k \in 0 .. n : ~ Fine(k)}
    <2> SUFFICES ASSUME D # {} PROVE FALSE
      OBVIOUS
    <2>0. D \in SUBSET Nat
      OBVIOUS
    <2> HIDE DEF D
    <2>1. PICK k \in D : \A j \in D : k <= j
      BY <2>0, LeastNumber
    <2> USE DEF D
    <2>2. k # 0
      <3>1. Cardinality(seeds) \in Nat
        BY FS_Subset, FS_CardinalityType
      <3> QED
        BY <1>3, <2>1, <3>1
    <2>3. Fine(k - 1)
      BY <1>4, <2>1, <2>2
    <2>4. s[k] = Grown(deps, s[k - 1]) /\ k - 1 \in Nat
      BY <1>3, <2>2
    <2>5. s[k] \subseteq ids
      BY <2>3, <2>4 DEF Grown
    <2>6. CASE Closed(s[k - 1])
      <3>1. s[k] = s[k - 1]
        BY <2>4, <2>6 DEF Grown
      <3> QED
        BY <2>1, <2>3, <2>6, <3>1
    <2>7. CASE ~ Closed(s[k - 1])
      <3>1. s[k - 1] \subseteq s[k] /\ s[k - 1] # s[k]
        BY <2>4, <2>7 DEF Grown
      <3>2. IsFiniteSet(s[k])
        BY <2>5, FS_Subset
      <3>3. PICK a \in Nat, b \in Nat : a = Cardinality(s[k - 1]) /\ b = Cardinality(s[k]) /\ a < b
        <4>1. IsFiniteSet(s[k - 1])
          BY <3>1, <3>2, FS_Subset
        <4>2. Cardinality(s[k - 1]) < Cardinality(s[k])
          BY <3>1, <3>2, <4>1, FS_Subset, FS_CardinalityType
        <4> QED
          BY <3>2, <4>1, <4>2, FS_CardinalityType
      <3>4. b >= k
        BY <2>3, <2>4, <2>7, <3>3
      <3> QED
        BY <2>1, <2>5, <3>3, <3>4
    <2> QED
      BY <2>6, <2>7
  <1>6. s[n] \subseteq ids /\ Closed(s[n])
    <2>1. s[n] \subseteq ids /\ (Closed(s[n]) \/ Cardinality(s[n]) >= n)
      BY <1>5
    <2>2. CASE Cardinality(s[n]) >= n
      <3>1. IsFiniteSet(s[n]) /\ Cardinality(s[n]) <= n /\ Cardinality(s[n]) \in Nat
        BY <1>1, <2>1, FS_Subset, FS_CardinalityType
      <3>2. s[n] = ids
        BY <1>1, <2>1, <2>2, <3>1, FS_Subset
      <3> QED
        BY <3>2
    <2> QED
      BY <2>1, <2>2
  \* What each round preserves, the last one has.
  <1>7. ASSUME NEW P, seeds \subseteq P,
               \A k \in 0 .. n : k # 0 /\ s[k - 1] \subseteq P => s[k] \subseteq P
        PROVE  \A k \in 0 .. n : s[k] \subseteq P
    <2> DEFINE D == {k \in 0 .. n : ~ (s[k] \subseteq P)}
    <2> SUFFICES ASSUME D # {} PROVE FALSE
      OBVIOUS
    <2>0. D \in SUBSET Nat
      OBVIOUS
    <2> HIDE DEF D
    <2>1. PICK k \in D : \A j \in D : k <= j
      BY <2>0, LeastNumber
    <2> USE DEF D
    <2>2. CASE k = 0
      BY <1>3, <1>7, <2>1, <2>2
    <2>3. CASE k # 0
      BY <1>4, <1>7, <2>1, <2>3
    <2> QED
      BY <2>2, <2>3
  <1>8. ASSUME NEW P, seeds \subseteq P, Closed(P) PROVE s[n] \subseteq P
    <2>1. \A k \in 0 .. n : k # 0 /\ s[k - 1] \subseteq P => s[k] \subseteq P
      BY <1>3, <1>8 DEF Grown
    <2> QED
      BY <1>7, <1>8, <2>1
  <1>9. ASSUME NEW k \in 0 .. n PROVE s[k] \subseteq s[n]
    <2> DEFINE D == {j \in k .. n : ~ (s[k] \subseteq s[j])}
    <2> SUFFICES ASSUME D # {} PROVE FALSE
      OBVIOUS
    <2>0. D \in SUBSET Nat
      OBVIOUS
    <2> HIDE DEF D
    <2>1. PICK j \in D : \A i \in D : j <= i
      BY <2>0, LeastNumber
    <2> USE DEF D
    <2>2. j # k /\ j \in 0 .. n /\ j # 0 /\ j - 1 \in k .. n /\ j - 1 < j
      BY <2>1
    <2>3. s[k] \subseteq s[j - 1]
      BY <2>1, <2>2
    <2> QED
      BY <1>3, <2>1, <2>2, <2>3 DEF Grown
  <1>10. ASSUME NEW A, seeds \subseteq A, \A c \in s[n] : deps[c] \subseteq A PROVE s[n] \subseteq A
    <2>1. \A k \in 0 .. n : k # 0 /\ s[k - 1] \subseteq A => s[k] \subseteq A
      BY <1>3, <1>4, <1>9, <1>10 DEF Grown
    <2> QED
      BY <1>7, <1>10, <2>1
  <1>11. seeds \subseteq s[n]
    BY <1>3, <1>9
  <1>12. Selected(deps, seeds, Cardinality(ids)) = s[n]
    BY <1>1 DEF Selected, s
  <1> QED
    BY <1>6, <1>8, <1>10, <1>11, <1>12

LEMMA PlanCardinality == ASSUME NEW S PROVE Plan!Cardinality(S) = Cardinality(S)
  BY DEF Plan!Cardinality, Cardinality

LEMMA BuildPlanIsLeast ==
    ASSUME NEW registry, NEW include, NEW exclude,
           IsFiniteSet(registry.ids), registry.available \subseteq registry.ids,
           Plan!WellFormed(registry)
    PROVE  Plan!PlanIsLeast(registry, include, exclude, Plan!BuildPlan(registry, include, exclude))
  <1> DEFINE deps == registry.deps
             seeds == Plan!Seeds(registry, include, exclude)
             plan == Plan!AddDependencies(registry, seeds)
             needed == UNION {deps[c] : c \in plan}
             offered == registry.available \ exclude
             reply == Plan!BuildPlan(registry, include, exclude)
  <1>1. seeds \subseteq offered /\ seeds \subseteq registry.ids
    BY DEF Plan!Seeds, Plan!RequiredIds
  <1>2. plan = Selected(deps, seeds, Cardinality(registry.ids))
    BY PlanCardinality DEF Plan!AddDependencies, Selected, Rounds, IsRounds, Grown
  <1>3. \A c \in registry.ids : deps[c] \subseteq registry.ids
    BY DEF Plan!WellFormed
  <1> HIDE DEF seeds, plan, reply
  <1>4. /\ plan \subseteq registry.ids /\ seeds \subseteq plan
        /\ \A c \in plan : deps[c] \subseteq plan
        /\ \A P : seeds \subseteq P /\ (\A c \in P : deps[c] \subseteq P) => plan \subseteq P
        /\ \A A : seeds \subseteq A /\ (\A c \in plan : deps[c] \subseteq A) => plan \subseteq A
    BY <1>1, <1>2, <1>3, SelectionIsLeastClosed
  <1>5. \A P \in Plan!Admissible(registry, include, exclude) :
           P \subseteq offered /\ plan \subseteq P /\ (\A c \in P : deps[c] \subseteq P)
    BY <1>4 DEF Plan!Admissible, Plan!ClosedUnderDeps, seeds
  <1>6. CASE reply = Plan!Accepted(plan) /\ needed \subseteq offered
    <2>1. reply.ok /\ reply.plan = plan
      BY <1>6 DEF Plan!Accepted
    <2>2. plan \subseteq offered
      BY <1>1, <1>4, <1>6
    <2>3. plan \in Plan!Admissible(registry, include, exclude)
      BY <1>4, <2>2 DEF Plan!Admissible, Plan!ClosedUnderDeps, seeds
    <2> QED
      BY <1>5, <2>1, <2>3 DEF Plan!PlanIsLeast, reply
  <1>7. CASE reply = Plan!Refused /\ \/ ~ (include \cup exclude \subseteq registry.ids)
                                      \/ ~ (include \subseteq registry.available)
                                      \/ Plan!RequiredIds(registry) \cap exclude # {}
                                      \/ ~ (needed \subseteq offered)
    <2>1. ~ reply.ok
      BY <1>7 DEF Plan!Refused
    <2>2. CASE ~ (needed \subseteq offered)
      <3>1. Plan!Admissible(registry, include, exclude) = {}
        BY <1>5, <2>2
      <3> QED
        BY <2>1, <3>1 DEF Plan!PlanIsLeast, reply
    <2>3. CASE needed \subseteq offered
      <3>1. \/ ~ (include \subseteq registry.available)
            \/ ~ (exclude \subseteq registry.ids \ Plan!RequiredIds(registry))
        BY <1>7, <2>3
      <3> QED
        BY <2>1, <3>1 DEF Plan!PlanIsLeast, reply
    <2> QED
      BY <2>2, <2>3
  <1>8. \/ reply = Plan!Accepted(plan) /\ needed \subseteq offered
        \/ reply = Plan!Refused /\ \/ ~ (include \cup exclude \subseteq registry.ids)
                                    \/ ~ (include \subseteq registry.available)
                                    \/ Plan!RequiredIds(registry) \cap exclude # {}
                                    \/ ~ (needed \subseteq offered)
    BY DEF reply, plan, seeds, Plan!BuildPlan
  <1> QED
    BY <1>6, <1>7, <1>8 DEF reply

\* build_plan answers any request to any registry with the least plan that is closed
\* under dependencies, or refuses it for a rule that the request breaks.
THEOREM PlansAreLeast == GatesSpec => []AnswersAreLeastPlans
  <1> DEFINE Inv == subject = "plan" => given \in Requests /\ AnswersAreLeastPlans
  <1>1. GatesInit => Inv
    BY DEF GatesInit, AnswersAreLeastPlans, Unasked
  <1>2. Inv /\ [GatesNext]_gatesVars => Inv'
    <2> SUFFICES ASSUME Inv, [GatesNext]_gatesVars, subject' = "plan"
                 PROVE  given' \in Requests /\ AnswersAreLeastPlans'
      OBVIOUS
    <2>1. CASE Ask
      <3>1. /\ given' = given /\ given \in Requests
            /\ answer' = Plan!BuildPlan(given.registry, given.include, given.exclude)
        BY <2>1 DEF Ask
      <3>2. Plan!PlanIsLeast(given.registry, given.include, given.exclude, answer')
        BY <3>1, RequestsAssumption, BuildPlanIsLeast
      <3> QED
        BY <3>1, <3>2 DEF AnswersAreLeastPlans
    <2>2. CASE Withdraw \/ Accept \/ Verify \/ UNCHANGED gatesVars
      <3>1. subject = "plan" /\ UNCHANGED gatesVars
        BY <2>2 DEF Withdraw, Accept, Verify, gatesVars
      <3> QED
        BY <3>1 DEF AnswersAreLeastPlans, gatesVars
    <2> QED
      BY <2>1, <2>2 DEF GatesNext
  <1>3. Inv => AnswersAreLeastPlans
    BY DEF AnswersAreLeastPlans
  <1> QED
    BY <1>1, <1>2, <1>3, PTL DEF GatesSpec

-----------------------------------------------------------------------------
(* Chains of accepted releases *)

\* The profile standard of assessment-policy.json: no new risk, no lost evidence,
\* no failing node and no fall of the posture is tolerated.
Strict ==
    /\ Policy.maxNewCritical = 0 /\ Policy.maxNewWarnings = 0
    /\ Policy.maxSeverityRegressions = 0 /\ Policy.maxEvidenceLoss = 0
    /\ Policy.maxNodeCriticalIncrease = 0 /\ Policy.maxNodeWarningIncrease = 0
    /\ Policy.maxCisPostureDropPercent = 0

Rank(severity) == Regression!SeverityRank(severity)
Score(c) == Regression!Measured(Regression!Summary(c.cis.controls).posture)
In(c, state) == Cardinality({n \in DOMAIN c.node.nodes : c.node.nodes[n] = state})

LEMMA RegressionCardinality == ASSUME NEW S PROVE Regression!Cardinality(S) = Cardinality(S)
  BY DEF Regression!Cardinality, Cardinality

LEMMA WeightType ==
    ASSUME NEW S, IsFiniteSet(S)
    PROVE  Regression!Weight(S) \in Nat
  <1> DEFINE w == [a \in S |-> Regression!RiskWeight(a)]
             IsWeights(g) == g = [T \in SUBSET S |-> IF T = {} THEN 0
                                        ELSE Regression!RiskWeight(Pick(T)) + g[Rest(T)]]
             h == CHOOSE g : IsWeights(g)
  <1>1. Regression!Weight(S) = h[S]
    BY DEF Regression!Weight, Regression!MapThenSumSet, Regression!MapThenFoldSet, Pick, Rest
  <1>2. \A g : IsWeights(g) <=> IsTotals(g, w, S)
    <2>1. ASSUME NEW T \in SUBSET S, T # {} PROVE w[Pick(T)] = Regression!RiskWeight(Pick(T))
      BY <2>1, PickRest
    <2>2. ASSUME NEW g
          PROVE  [T \in SUBSET S |-> IF T = {} THEN 0 ELSE Regression!RiskWeight(Pick(T)) + g[Rest(T)]]
                    = [T \in SUBSET S |-> IF T = {} THEN 0 ELSE w[Pick(T)] + g[Rest(T)]]
      BY <2>1
    <2> QED
      BY <2>2 DEF IsTotals
  <1>3. IsTotals(h, w, S)
    BY <1>2, TotalsExist DEF Solvable
  <1>4. h[S] = Sum(w, S)
    <2>1. IsTotals(CHOOSE g : IsTotals(g, w, S), w, S)
      BY <1>3
    <2> QED
      BY <1>3, <2>1, TotalsAgree, SumIsTotal DEF Total
  <1>5. w \in [S -> Nat]
    BY DEF Regression!RiskWeight
  <1> QED
    BY <1>1, <1>4, <1>5, SumType

\* A score is a number, where nothing was measured as well.
LEMMA PostureType ==
    ASSUME NEW c, IsFiniteSet(DOMAIN c.cis.controls)
    PROVE  Score(c) \in Int
  <1> DEFINE controls == c.cis.controls
             scored == Regression!Scored(controls)
             passed == Regression!Passed(controls, scored)
  <1>1. IsFiniteSet(scored) /\ IsFiniteSet(passed)
    BY FS_Subset DEF Regression!Scored, Regression!Passed
  <1>2. Regression!Weight(passed) \in Nat /\ Regression!Weight(scored) \in Nat
    BY <1>1, WeightType
  <1>3. ASSUME NEW part \in Nat, NEW whole \in Nat PROVE Regression!Percent(part, whole) \in Int
    <2>1. CASE whole = 0
      BY <2>1 DEF Regression!Percent, Regression!None
    <2>2. CASE whole # 0
      <3>1. 100 * part \in Nat
        OBVIOUS
      <3>2. (100 * part) \div whole \in Int
        BY <2>2, <3>1
      <3>3. Regression!Percent(part, whole) \in {(100 * part) \div whole, (100 * part) \div whole + 1}
        BY <2>2 DEF Regression!Percent
      <3> QED
        BY <3>2, <3>3
    <2> QED
      BY <2>1, <2>2
  <1>4. Regression!Summary(controls).posture \in Int
    BY <1>2, <1>3 DEF Regression!Summary
  <1> QED
    BY <1>4 DEF Score, Regression!Measured

\* Severities are ranked by numbers; what ranks high is a risk or a gap.
LEMMA RankType ==
    ASSUME NEW severity \in Regression!KnownSeverities
    PROVE  /\ Rank(severity) \in Nat
           /\ Rank(severity) >= 2 => severity \in {"CRIT", "WARN", "UNKNOWN", "PARTIAL"}
  BY DEF Rank, Regression!SeverityRank, Regression!KnownSeverities

\* An empty tolerance lets nothing through.
LEMMA NothingBeyond ==
    ASSUME NEW S, IsFiniteSet(S), ~ Regression!Beyond(Regression!Cardinality(S), 0)
    PROVE  S = {}
  <1>1. Cardinality(S) \in Nat /\ ~ (Cardinality(S) > 0)
    BY RegressionCardinality, FS_CardinalityType DEF Regression!Beyond, Regression!None
  <1> QED
    BY <1>1, FS_EmptySet

\* What the second release has no more of than the first.
NoWorse(old, new) ==
    /\ \A f \in DOMAIN new.findings :
          Rank(new.findings[f]) >= 2 =>
             f \in DOMAIN old.findings /\ Rank(old.findings[f]) >= Rank(new.findings[f])
    /\ In(new, "CRIT") <= In(old, "CRIT") /\ In(new, "WARN") <= In(old, "WARN")
    /\ Score(new) >= Score(old)

Assessed(c) == c.cis # Regression!Missing /\ c.node # Regression!Missing

LEMMA CandidateTypes ==
    ASSUME NEW c \in Candidates
    PROVE  /\ IsFiniteSet(DOMAIN c.findings)
           /\ \A f \in DOMAIN c.findings :
                 /\ c.findings[f] \in Regression!KnownSeverities /\ Rank(c.findings[f]) \in Nat
           /\ Assessed(c) =>
                 /\ Score(c) \in Int
                 /\ \A state : In(c, state) \in Nat
  <1>1. /\ IsFiniteSet(DOMAIN c.findings)
        /\ \A f \in DOMAIN c.findings : c.findings[f] \in Regression!KnownSeverities
        /\ Assessed(c) => IsFiniteSet(DOMAIN c.cis.controls) /\ IsFiniteSet(DOMAIN c.node.nodes)
    BY CandidatesAssumption DEF Assessed
  <1>2. ASSUME Assessed(c), NEW state PROVE In(c, state) \in Nat
    BY <1>1, <1>2, FS_Subset, FS_CardinalityType DEF In
  <1> QED
    BY <1>1, <1>2, RankType, PostureType

LEMMA NoWorseTransitive ==
    ASSUME NEW a \in Candidates, NEW b \in Candidates, NEW c \in Candidates,
           Assessed(a), Assessed(b), Assessed(c), NoWorse(a, b), NoWorse(b, c)
    PROVE  NoWorse(a, c)
  <1>1. ASSUME NEW f \in DOMAIN c.findings, Rank(c.findings[f]) >= 2
        PROVE  f \in DOMAIN a.findings /\ Rank(a.findings[f]) >= Rank(c.findings[f])
    <2>1. f \in DOMAIN b.findings /\ Rank(b.findings[f]) >= Rank(c.findings[f])
      BY <1>1 DEF NoWorse
    <2>2. Rank(b.findings[f]) \in Nat /\ Rank(c.findings[f]) \in Nat
      BY <2>1, CandidateTypes
    <2>3. f \in DOMAIN a.findings /\ Rank(a.findings[f]) >= Rank(b.findings[f])
      BY <1>1, <2>1, <2>2 DEF NoWorse
    <2>4. Rank(a.findings[f]) \in Nat
      BY <2>3, CandidateTypes
    <2> QED
      BY <2>1, <2>2, <2>3, <2>4
  <1>2. ASSUME NEW state \in {"CRIT", "WARN"} PROVE In(c, state) <= In(a, state)
    <2>1. In(a, state) \in Nat /\ In(b, state) \in Nat /\ In(c, state) \in Nat
      BY CandidateTypes
    <2>2. In(c, state) <= In(b, state) /\ In(b, state) <= In(a, state)
      BY <1>2 DEF NoWorse
    <2> QED
      BY <2>1, <2>2
  <1>3. Score(c) >= Score(a)
    <2>1. Score(a) \in Int /\ Score(b) \in Int /\ Score(c) \in Int
      BY CandidateTypes
    <2> QED
      BY <2>1 DEF NoWorse
  <1> QED
    BY <1>1, <1>2, <1>3 DEF NoWorse

\* What a release that is ready has passed.
LEMMA ReadyPassed ==
    ASSUME NEW old, NEW new, Regression!Evaluate(old, new, Policy).releaseReady
    PROVE  /\ Regression!Completed(new) /\ new.intact
           /\ LET gates == Regression!FindingGates(old.findings, new.findings, Policy)
              IN  gates.newRisk.status # "FAIL" /\ gates.severity.status # "FAIL" /\ gates.evidence.status # "FAIL"
           /\ LET gate == Regression!CisGate(old.cis, new.cis, Policy)
              IN  gate.mandatory => gate.status # "FAIL"
           /\ LET gate == Regression!NodeGate(old.node, new.node, Policy)
              IN  gate.mandatory => gate.status # "FAIL"
  <1> DEFINE gates == Regression!Gates(old, new, Policy)
             first == Regression!CollectionGates(old, new, Policy)
             rest == Regression!DomainGates(old, new, Policy)
             findings == Regression!FindingGates(old.findings, new.findings, Policy)
             cis == Regression!CisGate(old.cis, new.cis, Policy)
             node == Regression!NodeGate(old.node, new.node, Policy)
  <1>1. \A g \in gates : g.mandatory => g.status = "PASS"
    BY DEF Regression!Evaluate, Regression!MandatoryStates
  <1>2. \A d \in DOMAIN first : first[d] \in gates
    BY DEF Regression!Gates
  <1>3. \A d \in DOMAIN rest : rest[d] \in gates
    BY DEF Regression!Gates
  <1> HIDE DEF gates
  <1>4. /\ Regression!SameScope(old, new)
        /\ Regression!Completed(old) /\ Regression!Completed(new) /\ old.intact /\ new.intact
    <2>1. first.scope \in gates /\ first.terminal \in gates /\ first.artifacts \in gates
      BY <1>2 DEF Regression!CollectionGates
    <2> QED
      BY <1>1, <2>1 DEF Regression!CollectionGates, Regression!FailIf, Regression!Gate
  <1>5. /\ {"newRisk", "severity", "evidence", "cis", "node"} \subseteq DOMAIN rest
        /\ rest["newRisk"] = findings.newRisk /\ rest["severity"] = findings.severity
        /\ rest["evidence"] = findings.evidence /\ rest["cis"] = cis /\ rest["node"] = node
    BY <1>4 DEF Regression!DomainGates, Regression!FindingGates
  <1>6. findings.newRisk.mandatory /\ findings.severity.mandatory /\ findings.evidence.mandatory
    BY DEF Regression!FindingGates, Regression!FailIf, Regression!Gate
  <1> HIDE DEF first, rest, findings, cis, node
  <1>7. /\ findings.newRisk \in gates /\ findings.severity \in gates /\ findings.evidence \in gates
        /\ cis \in gates /\ node \in gates
    BY <1>3, <1>5
  <1>8. /\ findings.newRisk.status # "FAIL" /\ findings.severity.status # "FAIL" /\ findings.evidence.status # "FAIL"
        /\ cis.mandatory => cis.status # "FAIL"
        /\ node.mandatory => node.status # "FAIL"
    BY <1>1, <1>6, <1>7
  <1> QED
    BY <1>4, <1>8 DEF findings, cis, node

\* A release that is ready is assessed in full and no worse than its baseline.
LEMMA AcceptStep ==
    ASSUME Strict, NEW old \in Candidates, NEW new \in Candidates,
           Regression!Evaluate(old, new, Policy).releaseReady
    PROVE  /\ Assessed(old) /\ Assessed(new) /\ NoWorse(old, new)
           /\ Regression!Completed(new) /\ new.intact
  <1> DEFINE fresh(severities) == Regression!NewFindings(old.findings, new.findings, severities)
             risen == Regression!SeverityRegressions(old.findings, new.findings)
             gone == Regression!EvidenceLoss(old.findings, new.findings)
  <1>1. Policy.requireCisEvidence = 1 /\ Policy.requireOperationalEvidence = 1
    BY PolicyAssumption DEF Regression!ValidProfile, Regression!Booleans
  <1>2. IsFiniteSet(DOMAIN new.findings)
    BY CandidateTypes
  <1>3. /\ \A severities : IsFiniteSet(fresh(severities))
        /\ IsFiniteSet(risen)
    BY <1>2, FS_Subset DEF Regression!NewFindings, Regression!SeverityRegressions
  <1>4. IsFiniteSet(gone)
    <2>1. gone \subseteq DOMAIN new.findings
      BY DEF Regression!EvidenceLoss, Regression!NewFindings
    <2> QED
      BY <1>2, <2>1, FS_Subset
  <1>5. /\ ~ Regression!Beyond(Regression!Cardinality(fresh({"CRIT"})), 0)
        /\ ~ Regression!Beyond(Regression!Cardinality(fresh({"WARN"})), 0)
        /\ ~ Regression!Beyond(Regression!Cardinality(risen), 0)
        /\ ~ Regression!Beyond(Regression!Cardinality(gone), 0)
    BY ReadyPassed DEF Regression!FindingGates, Regression!FailIf, Regression!Gate, Strict
  <1>6. fresh({"CRIT"}) = {} /\ fresh({"WARN"}) = {} /\ risen = {} /\ gone = {}
    <2> HIDE DEF fresh, risen, gone
    <2> QED
      BY <1>3, <1>4, <1>5, NothingBeyond
  <1>7. ASSUME NEW f \in DOMAIN new.findings, Rank(new.findings[f]) >= 2
        PROVE  f \in DOMAIN old.findings /\ Rank(old.findings[f]) >= Rank(new.findings[f])
    <2>1. new.findings[f] \in {"CRIT", "WARN", "UNKNOWN", "PARTIAL"} /\ Rank(new.findings[f]) \in Nat
      BY <1>7, CandidateTypes, RankType
    <2>2. f \in DOMAIN old.findings
      BY <1>6, <2>1 DEF Regression!NewFindings, Regression!EvidenceLoss, Regression!Unclear
    <2>3. ~ (Rank(new.findings[f]) > Rank(old.findings[f]))
      BY <1>6, <2>2 DEF Regression!SeverityRegressions, Rank
    <2>4. Rank(old.findings[f]) \in Nat
      BY <2>2, CandidateTypes
    <2> QED
      BY <2>1, <2>2, <2>3, <2>4
  <1>8. Assessed(old) /\ Assessed(new)
    <2>1. old.cis # Regression!Missing /\ new.cis # Regression!Missing
      BY <1>1, ReadyPassed DEF Regression!CisGate, Regression!NoControls, Regression!Lost, Regression!Gate
    <2>2. old.node # Regression!Missing /\ new.node # Regression!Missing
      BY <1>1, ReadyPassed DEF Regression!NodeGate, Regression!Lost, Regression!Gate
    <2> QED
      BY <2>1, <2>2 DEF Assessed
  <1>9. Score(new) >= Score(old)
    <2>1. ~ Regression!NoControls(old.cis) /\ ~ Regression!NoControls(new.cis)
      BY <1>1, ReadyPassed DEF Regression!CisGate, Regression!Lost, Regression!Gate
    <2>2. ~ (- Regression!PostureDelta(old.cis.controls, new.cis.controls) > 0)
      BY <2>1, ReadyPassed DEF Regression!CisGate, Regression!FailIf, Regression!Gate, Strict
    <2>3. Regression!PostureDelta(old.cis.controls, new.cis.controls) = Score(new) - Score(old)
      BY DEF Regression!PostureDelta, Score
    <2>4. Score(old) \in Int /\ Score(new) \in Int
      BY <1>8, CandidateTypes
    <2> QED
      BY <2>2, <2>3, <2>4
  <1>10. ASSUME NEW state \in {"CRIT", "WARN"} PROVE In(new, state) <= In(old, state)
    <2> DEFINE counted(c, s) == Regression!Cardinality({n \in DOMAIN c.node.nodes : c.node.nodes[n] = s})
    <2>1. /\ ~ (Regression!Rise(counted(old, "CRIT"), counted(new, "CRIT")) > 0)
          /\ ~ (Regression!Rise(counted(old, "WARN"), counted(new, "WARN")) > 0)
      BY <1>8, ReadyPassed DEF Regression!NodeGate, Regression!Gate, Strict, Assessed
    <2>3. \A s : counted(old, s) = In(old, s) /\ counted(new, s) = In(new, s)
      BY RegressionCardinality DEF In
    <2>4. ~ (Regression!Rise(In(old, state), In(new, state)) > 0)
      BY <1>10, <2>1, <2>3
    <2>2. In(old, state) \in Nat /\ In(new, state) \in Nat
      BY <1>8, CandidateTypes
    <2> QED
      BY <2>2, <2>4 DEF Regression!Rise
  <1> QED
    BY <1>7, <1>8, <1>9, <1>10, ReadyPassed DEF NoWorse

\* The last release accepted is the first one, or assessed in full and no worse.
ChainInv ==
    subject = "chain" =>
        /\ given \in [origin : Candidates, accepted : Candidates]
        /\ given.accepted # given.origin =>
              /\ Assessed(given.origin) /\ Assessed(given.accepted)
              /\ NoWorse(given.origin, given.accepted)
              /\ Regression!Completed(given.accepted) /\ given.accepted.intact

LEMMA ChainInvInit == GatesInit => ChainInv
  BY DEF GatesInit, ChainInv

LEMMA ChainInvStep == Strict /\ ChainInv /\ [GatesNext]_gatesVars => ChainInv'
  <1> SUFFICES ASSUME Strict, ChainInv, [GatesNext]_gatesVars, subject' = "chain"
               PROVE  /\ given' \in [origin : Candidates, accepted : Candidates]
                      /\ given'.accepted # given'.origin =>
                            /\ Assessed(given'.origin) /\ Assessed(given'.accepted)
                            /\ NoWorse(given'.origin, given'.accepted)
                            /\ Regression!Completed(given'.accepted) /\ given'.accepted.intact
    BY DEF ChainInv, Assessed, NoWorse, Rank, In, Score, Regression!Completed
  <1>1. CASE Ask \/ Withdraw \/ Verify \/ UNCHANGED gatesVars
    <2>1. UNCHANGED <<subject, given>>
      BY <1>1 DEF Ask, Withdraw, Verify, gatesVars
    <2> QED
      BY <2>1 DEF ChainInv
  <1>2. CASE Accept
    <2>1. PICK c \in Candidates :
             /\ Regression!Evaluate(given.accepted, c, Policy).releaseReady
             /\ given' = [given EXCEPT !.accepted = c]
      BY <1>2 DEF Accept
    <2>2. /\ given.origin \in Candidates /\ given.accepted \in Candidates
          /\ given' = [origin |-> given.origin, accepted |-> c]
      BY <1>2, <2>1 DEF Accept, ChainInv
    <2>3. /\ Assessed(given.accepted) /\ Assessed(c) /\ NoWorse(given.accepted, c)
          /\ Regression!Completed(c) /\ c.intact
      BY <2>1, <2>2, AcceptStep
    <2>4. CASE given.accepted = given.origin
      BY <2>2, <2>3, <2>4
    <2>5. CASE given.accepted # given.origin
      <3>1. Assessed(given.origin) /\ NoWorse(given.origin, given.accepted)
        BY <1>2, <2>5 DEF Accept, ChainInv
      <3>2. NoWorse(given.origin, c)
        BY <2>2, <2>3, <3>1, NoWorseTransitive
      <3> QED
        BY <2>2, <2>3, <3>1, <3>2
    <2> QED
      BY <2>4, <2>5
  <1> QED
    BY <1>1, <1>2 DEF GatesNext

LEMMA ChainInvImplies == ChainInv => AcceptedChainsIntroduceNoRisk
  <1> SUFFICES ASSUME ChainInv, subject = "chain", given.accepted # given.origin
               PROVE  AcceptedChainsIntroduceNoRisk
    BY DEF AcceptedChainsIntroduceNoRisk
  <1> DEFINE old == given.origin
             new == given.accepted
  <1>1. /\ old \in Candidates /\ new \in Candidates
        /\ Assessed(old) /\ Assessed(new) /\ NoWorse(old, new)
        /\ Regression!Completed(new) /\ new.intact
    BY DEF ChainInv
  <1>2. Regression!PostureDelta(old.cis.controls, new.cis.controls) >= 0
    <2>1. Regression!PostureDelta(old.cis.controls, new.cis.controls) = Score(new) - Score(old)
      BY DEF Regression!PostureDelta, Score
    <2>2. Score(old) \in Int /\ Score(new) \in Int /\ Score(new) >= Score(old)
      BY <1>1, CandidateTypes DEF NoWorse
    <2> QED
      BY <2>1, <2>2
  <1> QED
    BY <1>1, <1>2 DEF AcceptedChainsIntroduceNoRisk, NoWorse, Rank, In

\* Accepting releases one after the other under a profile without tolerance never
\* lets in a finding the first of them did not have as severe, more CRIT or more WARN
\* nodes than it, or a lower posture.  Which nodes fail may change.
THEOREM ChainsIntroduceNoRisk == Strict /\ GatesSpec => []AcceptedChainsIntroduceNoRisk
  <1>1. CASE Strict
    <2>1. ChainInv /\ [GatesNext]_gatesVars => ChainInv'
      BY <1>1, ChainInvStep
    <2> QED
      BY <2>1, ChainInvInit, ChainInvImplies, PTL DEF GatesSpec
  <1>2. CASE ~ Strict
    BY <1>2
  <1> QED
    BY <1>1, <1>2

-----------------------------------------------------------------------------
(* Downloaded releases *)

\* A verified release holds what the SBOM of one build lists, and no other file.
ReleaseInv ==
    subject = "release" =>
        /\ given \in Downloads
        /\ answer # Unasked => answer = [verified |-> Release!Verified(given.release, given.requireSignature)]

LEMMA VerifiedIsOfOneBuild ==
    ASSUME NEW d \in Downloads, Release!Verified(d.release, d.requireSignature)
    PROVE  /\ \E build \in {m.build : m \in d.release.archive.members} :
                 \A m \in Release!PackagedFiles(d.release.archive) : m.build = build \/ m.name = "SBOM.spdx"
           /\ \E i \in DOMAIN d.release.checksums : d.release.checksums[i].digest = d.release.archive.digest
           /\ d.release.provenance # Release!Absent => d.release.provenance.digest = d.release.archive.digest
  <1> DEFINE archive == d.release.archive
             files == Release!PackagedFiles(archive)
             listed(m) == [path |-> m.path, digest |-> m.digest]
  <1>1. \A m, n \in archive.members :
           listed(m) \in d.release.inventory /\ listed(n) \in d.release.inventory => m.build = n.build
    BY DownloadsAssumption
  <1>2. d.release.inventory = {listed(m) : m \in {f \in files : f.name # "SBOM.spdx"}} /\ d.release.inventory # {}
    BY DEF Release!Verified, Release!SbomHolds, Release!Packaged
  <1>3. files \subseteq archive.members
    BY DEF Release!PackagedFiles
  <1> HIDE DEF listed, files
  <1>4. PICK first \in files : first.name # "SBOM.spdx"
    BY <1>2
  <1>5. \A m \in files : m.build = first.build \/ m.name = "SBOM.spdx"
    BY <1>1, <1>2, <1>3, <1>4
  <1>6. first.build \in {f.build : f \in archive.members}
    BY <1>3, <1>4
  <1>7. \E i \in DOMAIN d.release.checksums : d.release.checksums[i].digest = archive.digest
    <2> DEFINE lines == d.release.checksums
               named == {i \in DOMAIN lines : lines[i].name = archive.name}
    <2>1. /\ named # {}
          /\ lines[Release!ChecksumLine(lines, archive.name)].digest = archive.digest
      BY DEF Release!Verified, Release!ChecksumHolds
    <2>2. DOMAIN lines \subseteq Nat
      BY DownloadsAssumption
    <2>3. PICK i \in named : \A j \in named : i <= j
      BY <2>1, <2>2, LeastNumber
    <2>4. i \in DOMAIN lines /\ lines[i].name = archive.name /\ \A j \in 1..i - 1 : lines[j].name # archive.name
      <3>1. PICK n \in Nat : DOMAIN lines = 1..n
        BY DownloadsAssumption
      <3>2. i \in 1..n
        BY <3>1
      <3>3. ASSUME NEW j \in 1..i - 1 PROVE j \in DOMAIN lines /\ ~ (i <= j)
        BY <3>1, <3>2
      <3> QED
        BY <2>3, <3>3
    <2>5. Release!ChecksumLine(lines, archive.name) \in DOMAIN lines
      BY <2>4 DEF Release!ChecksumLine
    <2> QED
      BY <2>1, <2>5
  <1> QED
    BY <1>5, <1>6, <1>7 DEF files, Release!Verified, Release!ProvenanceHolds

LEMMA ReleaseInvStep == ReleaseInv /\ [GatesNext]_gatesVars => ReleaseInv'
  <1> SUFFICES ASSUME ReleaseInv, [GatesNext]_gatesVars, subject' = "release"
               PROVE  /\ given' \in Downloads
                      /\ answer' # Unasked =>
                            answer' = [verified |-> Release!Verified(given'.release, given'.requireSignature)]
    BY DEF ReleaseInv, Unasked
  <1>1. CASE Verify
    BY <1>1 DEF Verify, ReleaseInv
  <1>2. CASE Ask \/ Withdraw \/ Accept
    BY <1>2 DEF Ask, Withdraw, Accept
  <1>3. CASE UNCHANGED gatesVars
    BY <1>3 DEF gatesVars, ReleaseInv
  <1> QED
    BY <1>1, <1>2, <1>3 DEF GatesNext

\* release_verification.py verifies no mixture of builds, whatever is downloaded.
THEOREM VerifiedReleasesAreWhole == GatesSpec => []MixedReleasesAreRefused
  <1>1. GatesInit => ReleaseInv
    BY DEF GatesInit, ReleaseInv
  <1>2. ReleaseInv => MixedReleasesAreRefused
    <2> SUFFICES ASSUME ReleaseInv, subject = "release", answer # Unasked, answer.verified
                 PROVE  MixedReleasesAreRefused
      BY DEF MixedReleasesAreRefused
    <2>1. given \in Downloads /\ Release!Verified(given.release, given.requireSignature)
      BY DEF ReleaseInv
    <2> QED
      BY <2>1, VerifiedIsOfOneBuild DEF MixedReleasesAreRefused
  <1> QED
    BY <1>1, <1>2, ReleaseInvStep, PTL DEF GatesSpec

-----------------------------------------------------------------------------
(* Published collections: lists *)

\* Some positions of a list have a first and a last one.
LEMMA FirstAndLast ==
    ASSUME NEW n \in Nat, NEW S \in SUBSET (1 .. n), S # {}
    PROVE  Min(S) \in S /\ Max(S) \in S /\ \A y \in S : Min(S) <= y
  <1>1. PICK x \in S : \A y \in S : x <= y
    BY LeastNumber
  <1> DEFINE D == {n - y : y \in S}
  <1>2. D \in SUBSET Nat /\ D # {}
    OBVIOUS
  <1> HIDE DEF D
  <1>3. PICK d \in D : \A m \in D : d <= m
    BY <1>2, LeastNumber
  <1>4. PICK z \in S : d = n - z
    BY DEF D
  <1>5. ASSUME NEW y \in S PROVE z >= y
    <2>1. n - y \in D
      BY DEF D
    <2> QED
      BY <1>3, <1>4, <2>1
  <1>6. Max(S) \in S
    BY <1>5 DEF Max
  <1>7. Min(S) \in S /\ \A y \in S : Min(S) <= y
    BY <1>1 DEF Min
  <1> QED
    BY <1>6, <1>7

LEMMA PositionsOfList ==
    ASSUME NEW s, NEW A, s \in Seq(A), NEW T \in SUBSET DOMAIN s
    PROVE  Len(s) \in Nat /\ T \in SUBSET (1 .. Len(s)) /\ IsFiniteSet(T)
  <1>1. DOMAIN s = 1 .. Len(s) /\ Len(s) \in Nat
    OBVIOUS
  <1>2. IsFiniteSet(1 .. Len(s))
    BY <1>1, FS_Interval
  <1> QED
    BY <1>1, <1>2, FS_Subset

-----------------------------------------------------------------------------
(* node_process_evidence: samples *)

Named(nodes) == nodes \in Seq(ToSet(nodes)) /\ \A i \in DOMAIN nodes : nodes[i].name # ""
Names(nodes) == {nodes[i].name : i \in DOMAIN nodes}
Unowned == ""

\* A label names a node of the list, or none.
LEMMA LabelsHaveOneNode ==
    ASSUME NEW nodes, Named(nodes), NEW label
    PROVE  Manifest!NodeOf(nodes, label) # Unowned <=> Manifest!NodeOf(nodes, label) \in Names(nodes)
  <1> DEFINE owners == {i \in DOMAIN nodes : label = nodes[i].name \/ label \in nodes[i].addresses}
  <1>1. Manifest!NodeOf(nodes, label) = IF owners = {} THEN Unowned ELSE nodes[Manifest!Max(owners)].name
    BY DEF Manifest!NodeOf, Unowned
  <1>2. owners # {} => Manifest!Max(owners) \in owners
    <2>1. Manifest!Max(owners) = Max(owners)
      BY DEF Manifest!Max, Max
    <2> QED
      BY <2>1, FirstAndLast, PositionsOfList DEF Named
  <1>3. Unowned \notin Names(nodes)
    BY DEF Named, Names, Unowned
  <1>4. owners \subseteq DOMAIN nodes
    OBVIOUS
  <1> HIDE DEF owners
  <1> QED
    BY <1>1, <1>2, <1>3, <1>4 DEF Names

\* Whatever solves the equation of the sums is the sum.
LEMMA TotalOf ==
    ASSUME NEW w, NEW S, IsFiniteSet(S), NEW h, IsTotals(h, w, S)
    PROVE  h[S] = Sum(w, S)
  <1>1. IsTotals(CHOOSE g : IsTotals(g, w, S), w, S)
    OBVIOUS
  <1> QED
    BY <1>1, TotalsAgree, SumIsTotal DEF Total

\* The folds of the model over samples and over nodes are sums.
LEMMA SamplesSum ==
    ASSUME NEW s, NEW S \in SUBSET DOMAIN s, IsFiniteSet(S)
    PROVE  /\ MapThenSumSet(LAMBDA i : s[i].value, S) = Sum([i \in DOMAIN s |-> s[i].value], S)
           /\ Manifest!MapThenSumSet(LAMBDA i : s[i].value, S) = Sum([i \in DOMAIN s |-> s[i].value], S)
  <1> DEFINE w == [i \in DOMAIN s |-> s[i].value]
             Step(g) == [T \in SUBSET S |-> IF T = {} THEN 0 ELSE s[Pick(T)].value + g[Rest(T)]]
             h == CHOOSE g : g = Step(g)
  <1>1. /\ MapThenSumSet(LAMBDA i : s[i].value, S) = h[S]
        /\ Manifest!MapThenSumSet(LAMBDA i : s[i].value, S) = h[S]
    BY DEF MapThenSumSet, MapThenFoldSet, Manifest!MapThenSumSet, Manifest!MapThenFoldSet, Pick, Rest
  <1>2. ASSUME NEW T \in SUBSET S, T # {} PROVE w[Pick(T)] = s[Pick(T)].value
    BY <1>2, PickRest
  <1>3. \A g : Step(g) = [T \in SUBSET S |-> IF T = {} THEN 0 ELSE w[Pick(T)] + g[Rest(T)]]
    BY <1>2
  <1>4. \A g : g = Step(g) <=> IsTotals(g, w, S)
    BY <1>3 DEF IsTotals
  <1>5. IsTotals(h, w, S)
    BY <1>4, TotalsExist DEF Solvable
  <1> QED
    BY <1>1, <1>5, TotalOf

LEMMA AttributedSum ==
    ASSUME NEW nodes, NEW samples, NEW u, NEW S, IsFiniteSet(S)
    PROVE  MapThenSumSet(LAMBDA n : Manifest!Known(Manifest!NodeUsage(nodes, samples, n)[u]), S)
               = Sum([n \in S |-> Manifest!Known(Manifest!NodeUsage(nodes, samples, n)[u])], S)
  <1> DEFINE v == [n \in S |-> Manifest!Known(Manifest!NodeUsage(nodes, samples, n)[u])]
             Step(g) == [T \in SUBSET S |-> IF T = {} THEN 0
                           ELSE Manifest!Known(Manifest!NodeUsage(nodes, samples, Pick(T))[u]) + g[Rest(T)]]
             h == CHOOSE g : g = Step(g)
  <1>1. MapThenSumSet(LAMBDA n : Manifest!Known(Manifest!NodeUsage(nodes, samples, n)[u]), S) = h[S]
    BY DEF MapThenSumSet, MapThenFoldSet, Pick, Rest
  <1>2. ASSUME NEW T \in SUBSET S, T # {}
        PROVE  v[Pick(T)] = Manifest!Known(Manifest!NodeUsage(nodes, samples, Pick(T))[u])
    BY <1>2, PickRest
  <1>3. \A g : Step(g) = [T \in SUBSET S |-> IF T = {} THEN 0 ELSE v[Pick(T)] + g[Rest(T)]]
    BY <1>2
  <1>4. \A g : g = Step(g) <=> IsTotals(g, v, S)
    BY <1>3 DEF IsTotals
  <1>5. IsTotals(h, v, S)
    BY <1>4, TotalsExist DEF Solvable
  <1> QED
    BY <1>1, <1>5, TotalOf

CountsOnce(nodes, samples, u) ==
    LET series == samples[u]
        known == {i \in DOMAIN series : series[i].value >= 0 /\ Manifest!NodeOf(nodes, series[i].label) # ""}
        attributed(n) == Manifest!Known(Manifest!NodeUsage(nodes, samples, n)[u])
    IN  MapThenSumSet(LAMBDA i : series[i].value, known)
            = MapThenSumSet(attributed, {nodes[i].name : i \in DOMAIN nodes})

\* The samples of a node are a class of the samples that count: the sum of the
\* classes is the sum of all.
LEMMA EverySampleCountsOnce ==
    ASSUME NEW nodes, Named(nodes), NEW samples, NEW u \in Manifest!Usage,
           samples[u] \in Seq(ToSet(samples[u])),
           \A i \in DOMAIN samples[u] : samples[u][i].value \in Int
    PROVE  CountsOnce(nodes, samples, u)
  <1> DEFINE series == samples[u]
             known == {i \in DOMAIN series : series[i].value >= 0 /\ Manifest!NodeOf(nodes, series[i].label) # ""}
             w == [i \in DOMAIN series |-> series[i].value]
             f == [i \in DOMAIN series |-> Manifest!NodeOf(nodes, series[i].label)]
             v == [n \in Names(nodes) |-> Manifest!Known(Manifest!NodeUsage(nodes, samples, n)[u])]
  <1>1. \A i \in known : w[i] \in Int /\ w[i] >= 0 /\ f[i] \in Names(nodes)
    BY LabelsHaveOneNode DEF Unowned
  <1>2. IsFiniteSet(known) /\ \A T \in SUBSET known : IsFiniteSet(T)
    BY PositionsOfList, FS_Subset
  <1>3. IsFiniteSet(Names(nodes))
    <2>1. IsFiniteSet(DOMAIN nodes)
      BY PositionsOfList DEF Named
    <2>2. [i \in DOMAIN nodes |-> nodes[i].name] \in Surjection(DOMAIN nodes, Names(nodes))
      BY DEF Surjection, Names
    <2> QED
      BY <2>1, <2>2, FS_Surjection
  <1>4. ASSUME NEW n \in Names(nodes) PROVE v[n] = Sum(w, Class(f, known, n))
    <2> DEFINE own == Manifest!SeriesOf(nodes, series, n)
    <2>1. own = Class(f, known, n)
      <3>1. n # ""
        BY DEF Names, Named
      <3> QED
        BY <3>1 DEF Manifest!SeriesOf, Class
    <2>2. Manifest!NodeUsage(nodes, samples, n)[u]
            = IF own = {} THEN Manifest!None ELSE Manifest!MapThenSumSet(LAMBDA i : samples[u][i].value, own)
      BY DEF Manifest!NodeUsage
    <2>3. Manifest!MapThenSumSet(LAMBDA i : samples[u][i].value, own) = Sum(w, own)
      <3>1. own \in SUBSET DOMAIN series /\ IsFiniteSet(own)
        BY <1>2, <2>1 DEF Class
      <3> QED
        BY <3>1, SamplesSum
    <2>4. IsFiniteSet(own) /\ \A i \in own : w[i] \in Int /\ w[i] >= 0
      BY <1>1, <1>2, <2>1 DEF Class
    <2>6. v[n] = Manifest!Known(Manifest!NodeUsage(nodes, samples, n)[u])
      OBVIOUS
    <2> HIDE DEF own, w, v, known, f
    <2>5. Sum(w, own) \in Int /\ Sum(w, own) >= 0 /\ (own = {} => Sum(w, own) = 0)
      BY <2>4, SumType, SumEquation
    <2>7. Manifest!NodeUsage(nodes, samples, n)[u] = IF own = {} THEN Manifest!None ELSE Sum(w, own)
      BY <2>2, <2>3
    <2> QED
      BY <2>1, <2>5, <2>6, <2>7 DEF Manifest!Known, Manifest!None
  <1>5. MapThenSumSet(LAMBDA i : series[i].value, known) = Sum(w, known)
    BY <1>2, SamplesSum
  <1>6. MapThenSumSet(LAMBDA n : Manifest!Known(Manifest!NodeUsage(nodes, samples, n)[u]), Names(nodes)) = Sum(v, Names(nodes))
    BY <1>3, AttributedSum
  <1>7. Sum(w, known) = Sum(v, Names(nodes))
    <2> HIDE DEF known, w, f, v
    <2> QED
      BY <1>1, <1>2, <1>3, <1>4, SumOfClasses
  <1> QED
    BY <1>5, <1>6, <1>7 DEF Names, CountsOnce

-----------------------------------------------------------------------------
(* readiness *)

\* What FirstOf finds is in the order and occurs; where it finds nothing none does.
LEMMA FirstOfOrder ==
    ASSUME NEW order, NEW A, order \in Seq(A), NEW states
    PROVE  LET first == Migration!FirstOf(order, states)
           IN  \/ first = "PASS" /\ \A i \in DOMAIN order : order[i] \notin states
               \/ \E i \in DOMAIN order : first = order[i] /\ order[i] \in states
  <1> DEFINE found == {i \in DOMAIN order : order[i] \in states}
  <1>1. Migration!FirstOf(order, states) = IF found = {} THEN "PASS" ELSE order[Migration!Min(found)]
    BY DEF Migration!FirstOf
  <1>2. found # {} => Migration!Min(found) \in found
    <2>1. Migration!Min(found) = Min(found)
      BY DEF Migration!Min, Min
    <2>2. found \in SUBSET DOMAIN order
      OBVIOUS
    <2> QED
      BY <2>1, <2>2, FirstAndLast, PositionsOfList
  <1> QED
    BY <1>1, <1>2

\* A state PASS of the references stands on rows that are all resolved.
LEMMA PassedReferencesAreResolved ==
    ASSUME NEW c
    PROVE  Validation!ReferencesSound(Migration!ConfigurationState(Migration!ConfigurationRows(c)),
                                      Migration!ConfigurationRows(c))
  <1> DEFINE rows == Migration!ConfigurationRows(c)
             order == <<"MISSING", "EVIDENCE_UNAVAILABLE", "WARN">>
             states == {row.state : row \in rows}
             first == Migration!FirstOf(order, states)
  <1>1. Migration!ConfigurationState(rows) = IF first = "MISSING" THEN "FAIL" ELSE first
    BY DEF Migration!ConfigurationState
  <1>2. \A row \in rows : row.state \in {"MISSING", "EVIDENCE_UNAVAILABLE", "WARN", "RESOLVED"}
    <2>1. ASSUME NEW ref
          PROVE  Migration!ReferenceState(c, ref) \in {"MISSING", "EVIDENCE_UNAVAILABLE", "WARN", "RESOLVED"}
      BY DEF Migration!ReferenceState
    <2> QED
      BY <2>1 DEF Migration!ConfigurationRows
  <1>3. order \in Seq({"MISSING", "EVIDENCE_UNAVAILABLE", "WARN"}) /\ DOMAIN order = 1 .. 3
    <2>1. Len(order) = 3
      OBVIOUS
    <2>2. order \in Seq({"MISSING", "EVIDENCE_UNAVAILABLE", "WARN"})
      OBVIOUS
    <2> QED
      BY <2>1, <2>2
  <1>4. \/ first = "PASS" /\ \A i \in DOMAIN order : order[i] \notin states
        \/ \E i \in DOMAIN order : first = order[i] /\ order[i] \in states
    BY <1>3, FirstOfOrder
  <1> HIDE DEF rows, first
  <1>5. ASSUME Migration!ConfigurationState(rows) = "PASS", NEW row \in rows PROVE row.state = "RESOLVED"
    <2>1. first = "PASS"
      BY <1>1, <1>5
    <2>2. \A i \in 1 .. 3 : order[i] \notin states
      BY <1>3, <1>4, <2>1
    <2>3. "MISSING" \notin states /\ "EVIDENCE_UNAVAILABLE" \notin states /\ "WARN" \notin states
      BY <2>2
    <2> QED
      BY <1>2, <2>3
  <1> QED
    BY <1>5 DEF Validation!ReferencesSound, rows

\* A decision is what its mandatory gates carry.
LEMMA DecisionsStandOnGates ==
    ASSUME NEW gates
    PROVE  Validation!DecisionSound(Migration!Decision(gates), {gates[g] : g \in DOMAIN gates})
  <1> DEFINE all == {gates[g] : g \in DOMAIN gates}
             mandatory == {g.status : g \in {h \in all : h.mandatory}}
  <1>1. mandatory = Migration!Mandatory(gates)
    BY DEF Migration!Mandatory
  <1> QED
    BY <1>1 DEF Validation!DecisionSound, Migration!Decision

-----------------------------------------------------------------------------
(* AWS and cloud reports *)

\* Every finding of an account has a severity the validator knows,
LEMMA AwsSeveritiesAreKnown ==
    ASSUME NEW s, NEW w
    PROVE  \A f \in Account!AwsFindings(s, w) : f.severity \in Validation!Severities
  <1> USE DEF Account!Finding, Account!PassOr, Account!Setting, Validation!Severities
  <1>1. \A f \in Account!ClusterFindings(w.cluster) : f.severity \in Validation!Severities
    BY DEF Account!ClusterFindings
  <1>2. \A f \in Account!NodegroupFindings(s, w) : f.severity \in Validation!Severities
    BY DEF Account!NodegroupFindings
  <1>3. \A f \in Account!AddonFindings(s, w) : f.severity \in Validation!Severities
    BY DEF Account!AddonFindings
  <1>4. \A f \in Account!FargateFindings(s, w) : f.severity \in Validation!Severities
    BY DEF Account!FargateFindings
  <1>5. \A f \in Account!IdentityFindings(s, w) : f.severity \in Validation!Severities
    BY DEF Account!IdentityFindings
  <1>6. \A f \in Account!InsightFindings(s, w) : f.severity \in Validation!Severities
    BY DEF Account!InsightFindings
  <1>7. \A f \in Account!NetworkFindings(s, w) : f.severity \in Validation!Severities
    BY DEF Account!NetworkFindings
  <1>8. \A f \in Account!ImageFindings(s, w) : f.severity \in Validation!Severities
    <2>1. ASSUME NEW scan, NEW i PROVE Account!ImageSeverity(s, scan, i) \in {"CRIT", "WARN", "PARTIAL", "UNKNOWN"}
      BY DEF Account!ImageSeverity
    <2> QED
      BY <2>1 DEF Account!ImageFindings
  <1>9. \A f \in Account!GuardDutyFindings(s, w) : f.severity \in Validation!Severities
    BY DEF Account!GuardDutyFindings
  <1> QED
    BY <1>1, <1>2, <1>3, <1>4, <1>5, <1>6, <1>7, <1>8, <1>9 DEF Account!AwsFindings

\* and after the first call only the cluster has been asked for.
LEMMA FirstCall ==
    ASSUME NEW w
    PROVE  DOMAIN Account!AskedForCluster(w).coverage = {<<"cluster">>}
  <1> DEFINE key == <<"cluster">>
             s == Account!NewSession
  <1>1. ASSUME NEW state
        PROVE  /\ DOMAIN Account!Covered(s, key, state).coverage = {key}
               /\ Account!Covered(s, key, state) = [requests |-> 0, retries |-> 0, coverage |-> [k \in {key} |-> state]]
    <2>1. DOMAIN s.coverage = {}
      BY DEF Account!NewSession
    <2>2. [k \in DOMAIN s.coverage \cup {key} |-> IF k = key THEN state ELSE s.coverage[k]] = [k \in {key} |-> state]
      BY <2>1
    <2>3. Account!Covered(s, key, state) = [s EXCEPT !.coverage = [k \in {key} |-> state]]
      BY <2>2 DEF Account!Covered
    <2> HIDE DEF key
    <2> QED
      BY <2>3 DEF Account!NewSession
  <1>2. ASSUME NEW state, NEW n, NEW m
        PROVE  DOMAIN [Account!Covered(s, key, state) EXCEPT !.requests = @ + n + m, !.retries = @ + m].coverage = {key}
    <2> HIDE DEF key
    <2> QED
      BY <1>1
  <1> DEFINE first == Account!Call(s, w, key, FALSE)
             reply == Account!AnswerOf(w, key)
             retried == IF reply.transient < w.retries THEN reply.transient ELSE w.retries
             state == Account!AnswerState(reply, w.retries, FALSE)
  <1>3. \/ first = Account!Covered(s, key, "UNAVAILABLE")
        \/ first = Account!Covered(s, key, "PARTIAL")
        \/ first = [Account!Covered(s, key, state) EXCEPT !.requests = @ + 1 + retried, !.retries = @ + retried]
    BY DEF Account!Call
  <1> HIDE DEF first, s, key, retried, state
  <1>4. DOMAIN first.coverage = {key}
    BY <1>1, <1>2, <1>3
  <1> QED
    BY <1>4 DEF Account!AskedForCluster, first, s, key

\* A report of the account: its severities are known, and where it is neither complete
\* nor partial nothing was answered.
LEMMA AwsReportFacts ==
    ASSUME NEW w
    PROVE  LET report == Account!AwsReport(w)
           IN  /\ \A f \in report.findings : f.severity \in Validation!Severities
               /\ report.state \in {"AVAILABLE", "PARTIAL", "UNAVAILABLE", "N/A"}
               /\ report.state \notin {"AVAILABLE", "PARTIAL"} =>
                     \A k \in DOMAIN report.coverage : report.coverage[k] # "AVAILABLE"
  <1> DEFINE first == Account!AskedForCluster(w)
             all == Account!Collected(w)
             report == Account!AwsReport(w)
  <1>1. CASE ~ w.named
    <2>1. report = Account!ReportOf(Account!NewSession, "N/A", {Account!Finding("applicability", "cluster", "N/A")})
      BY <1>1 DEF Account!AwsReport
    <2> QED
      BY <2>1 DEF Account!ReportOf, Account!NewSession, Account!Finding, Validation!Severities
  <1>2. CASE w.named /\ ~ Account!Got(first, <<"cluster">>)
    <2>1. report = Account!ReportOf(first, "UNAVAILABLE", {Account!Finding("collection", "cluster", "UNKNOWN")})
      BY <1>2 DEF Account!AwsReport
    <2>2. DOMAIN first.coverage = {<<"cluster">>}
      BY FirstCall
    <2>3. first.coverage[<<"cluster">>] # "AVAILABLE"
      BY <1>2, <2>2 DEF Account!Got, Account!StateOf
    <2> QED
      BY <2>1, <2>2, <2>3 DEF Account!ReportOf, Account!Finding, Validation!Severities
  <1>3. CASE w.named /\ Account!Got(first, <<"cluster">>)
    <2>1. report = Account!ReportOf(all, Account!CollectionState(all), Account!AwsFindings(all, w))
      BY <1>3 DEF Account!AwsReport
    <2>2. Account!CollectionState(all) \in {"AVAILABLE", "PARTIAL"}
      BY DEF Account!CollectionState
    <2> QED
      BY <2>1, <2>2, AwsSeveritiesAreKnown DEF Account!ReportOf
  <1> QED
    BY <1>1, <1>2, <1>3

\* A cloud report that is neither complete nor partial passes no rule.
LEMMA CloudReportsStandOnEvidence ==
    ASSUME NEW hints, NEW w, NEW v, NEW cli, NEW enabled, NEW scoped, NEW aks, NEW gke
    PROVE  LET report == Account!AwsReport(w)
               platform == Insight!DetectedPlatform(hints)
               e == [aws |-> AwsEvidence(v, report), cli |-> cli, enabled |-> enabled, scoped |-> scoped,
                     aks |-> aks, gke |-> gke]
           IN  Validation!CloudReportSound(Insight!CloudReport(platform, e))
  <1> DEFINE report == Account!AwsReport(w)
             platform == Insight!DetectedPlatform(hints)
             aws == AwsEvidence(v, report)
             e == [aws |-> aws, cli |-> cli, enabled |-> enabled, scoped |-> scoped, aks |-> aks, gke |-> gke]
             cloud == Insight!CloudReport(platform, e)
  <1>1. platform \in {"eks", "aks", "gke", "generic-kubernetes"}
    BY DEF Insight!DetectedPlatform
  <1>2. ASSUME NEW provider, NEW state
        PROVE  /\ Insight!Unassessed(provider, state).provider = provider
               /\ Insight!Unassessed(provider, state).rules = {}
    BY DEF Insight!Unassessed, Insight!Report
  <1>3. ASSUME NEW provider, NEW state, NEW coverage, NEW n
        PROVE  Insight!Report(provider, state, coverage, <<>>, n).rules = {}
    BY DEF Insight!Report
  <1>4. CASE platform = "eks"
    <2>1. cloud = Insight!EksReport(aws)
      BY <1>4 DEF Insight!CloudReport
    <2>2. aws.state = report.state /\ aws.state # "absent"
      BY AwsReportFacts DEF AwsEvidence
    <2>3. cloud.provider = "eks" /\ cloud.state = aws.state
      BY <2>1, <2>2 DEF Insight!EksReport, Insight!Report
    <2>4. ASSUME cloud.state \notin {"AVAILABLE", "PARTIAL"}, NEW r \in cloud.rules
          PROVE  r.status # "PASS"
      <3>1. \A k \in DOMAIN report.coverage : report.coverage[k] # "AVAILABLE"
        BY <2>2, <2>3, <2>4, AwsReportFacts
      <3>2. aws.identity = FALSE /\ aws.subnets = "none" /\ aws.addons = {} /\ aws.zones = 0
        BY <3>1 DEF AwsEvidence
      <3> DEFINE rules == [identity |-> "UNKNOWN", capacity |-> "UNKNOWN", addons |-> "UNKNOWN", zones |-> "UNKNOWN"]
      <3>3. cloud.rules = {Insight!Rule("eks", rules[x]) : x \in DOMAIN rules}
        <4> DEFINE identity == Insight!Switch(IF aws.identity THEN "on" ELSE "off", aws.state \in {"AVAILABLE", "PARTIAL"})
                   capacity == CASE aws.subnets = "low" -> "WARN" [] aws.subnets = "enough" -> "PASS" [] OTHER -> "UNKNOWN"
                   addons == IF aws.addons = {} THEN "UNKNOWN" ELSE IF aws.addons = {"ACTIVE"} THEN "PASS" ELSE "WARN"
                   zones == IF aws.zones = 0 THEN "UNKNOWN" ELSE IF aws.zones = 1 THEN "WARN" ELSE "PASS"
        <4>1. cloud = Insight!Report("eks", aws.state, aws.coverage,
                        [identity |-> identity, capacity |-> capacity, addons |-> addons, zones |-> zones], aws.requests)
          <5> HIDE DEF aws
          <5> QED
            BY <2>1, <2>2 DEF Insight!EksReport
        <4>2. ~ (aws.state \in {"AVAILABLE", "PARTIAL"})
          BY <2>3, <2>4
        <4> HIDE DEF aws
        <4>3. identity = "UNKNOWN" /\ capacity = "UNKNOWN" /\ addons = "UNKNOWN" /\ zones = "UNKNOWN"
          BY <3>2, <4>2 DEF Insight!Switch
        <4> HIDE DEF identity, capacity, addons, zones
        <4> QED
          BY <4>1, <4>3 DEF Insight!Report
      <3> QED
        BY <3>3 DEF Insight!Rule
    <2> QED
      BY <2>3, <2>4 DEF Validation!CloudReportSound
  <1>5. CASE platform = "aks"
    <2>1. cloud = Insight!AksReport(cli, enabled, scoped, aks)
      BY <1>5 DEF Insight!CloudReport
    <2>2. cloud.provider = "aks" /\ (cloud.state \notin {"AVAILABLE", "PARTIAL"} => cloud.rules = {})
      <3>1. CASE ~ enabled
        BY <1>2, <2>1, <3>1 DEF Insight!AksReport
      <3>2. CASE enabled /\ ~ scoped
        <4>1. cloud = Insight!Unassessed("aks", "UNAVAILABLE")
          BY <2>1, <3>2 DEF Insight!AksReport
        <4> QED
          BY <1>2, <4>1
      <3>3. CASE enabled /\ scoped /\ Insight!CommandState(cli, "show") # "AVAILABLE"
        <4>1. cloud = Insight!Report("aks", "UNAVAILABLE", [cluster |-> "UNAVAILABLE"], <<>>, 1)
          BY <2>1, <3>3 DEF Insight!AksReport
        <4> QED
          BY <1>3, <4>1 DEF Insight!Report
      <3>4. CASE enabled /\ scoped /\ Insight!CommandState(cli, "show") = "AVAILABLE"
        <4> DEFINE coverage == Insight!AksCoverage(cli, aks)
                   state == IF \A r \in DOMAIN coverage : coverage[r] = "AVAILABLE" THEN "AVAILABLE" ELSE "PARTIAL"
                   rules == [identity |-> Insight!Switch(IF aks.identity THEN "on" ELSE "off", TRUE),
                             pools |-> IF Insight!SystemPools(cli, aks) THEN "PASS"
                                       ELSE IF coverage.nodePools = "AVAILABLE" THEN "WARN" ELSE "UNKNOWN",
                             channel |-> IF aks.channel THEN "PASS" ELSE "WARN",
                             egress |-> "MANUAL"]
        <4>1. cloud = Insight!Report("aks", state, coverage, rules, IF aks.located THEN 4 ELSE 3)
          BY <2>1, <3>4 DEF Insight!AksReport
        <4> QED
          BY <4>1 DEF Insight!Report
      <3> QED
        BY <3>1, <3>2, <3>3, <3>4
    <2> QED
      BY <2>2 DEF Validation!CloudReportSound
  <1>6. CASE platform = "gke"
    <2>1. cloud = Insight!GkeReport(cli, enabled, scoped, gke)
      BY <1>6 DEF Insight!CloudReport
    <2>2. cloud.provider = "gke" /\ (cloud.state \notin {"AVAILABLE", "PARTIAL"} => cloud.rules = {})
      <3> DEFINE coverage == [cluster |-> Insight!CommandState(cli, "describe"),
                              regionalVersions |-> Insight!CommandState(cli, "get-server-config")]
      <3>1. CASE ~ enabled
        BY <1>2, <2>1, <3>1 DEF Insight!GkeReport
      <3>2. CASE enabled /\ ~ scoped
        <4>1. cloud = Insight!Unassessed("gke", "UNAVAILABLE")
          BY <2>1, <3>2 DEF Insight!GkeReport
        <4> QED
          BY <1>2, <4>1
      <3>3. CASE enabled /\ scoped /\ coverage.cluster # "AVAILABLE"
        <4>1. cloud = Insight!Report("gke", "UNAVAILABLE", coverage, <<>>, 2)
          BY <2>1, <3>3 DEF Insight!GkeReport
        <4> QED
          BY <1>3, <4>1 DEF Insight!Report
      <3>4. CASE enabled /\ scoped /\ coverage.cluster = "AVAILABLE"
        <4> DEFINE state == IF coverage.regionalVersions = "AVAILABLE" THEN "AVAILABLE" ELSE "PARTIAL"
                   rules == [identity |-> Insight!Switch(IF gke.workloadPool THEN "on" ELSE "off", TRUE),
                             channel |-> IF gke.channel THEN "PASS" ELSE "WARN",
                             shielded |-> Insight!Switch(gke.shielded, TRUE), private |-> Insight!Switch(gke.private, TRUE)]
        <4>1. cloud = Insight!Report("gke", state, coverage, rules, 2)
          BY <2>1, <3>4 DEF Insight!GkeReport
        <4> QED
          BY <4>1 DEF Insight!Report
      <3> QED
        BY <3>1, <3>2, <3>3, <3>4
    <2> QED
      BY <2>2 DEF Validation!CloudReportSound
  <1>7. CASE platform = "generic-kubernetes"
    <2>1. cloud = Insight!Unassessed("generic-kubernetes", "N/A")
      BY <1>7 DEF Insight!CloudReport
    <2> QED
      BY <1>2, <2>1 DEF Validation!CloudReportSound
  <1> QED
    BY <1>1, <1>4, <1>5, <1>6, <1>7


-----------------------------------------------------------------------------
(* insights, manifests *)

\* A node that passes is ready and measured.
LEMMA HealthyNodesAreMeasured ==
    ASSUME NEW nodes, NEW pods, NEW metrics
    PROVE  Validation!NodeHealthSound([state |-> Insight!NodeHealth(nodes, pods, metrics),
                                       items |-> Insight!NodeHealthItems(nodes, pods, metrics)])
  <1>1. Insight!NodeHealth(nodes, pods, metrics) \in {"PASS", "WARN", "CRIT", "PARTIAL", "EVIDENCE_UNAVAILABLE"}
    BY DEF Insight!NodeHealth
  <1>2. ASSUME NEW n, NEW usage, Insight!NodeState(n, pods, usage) = "PASS"
        PROVE  /\ "Ready" \in DOMAIN n.conditions /\ n.conditions["Ready"] = "True"
               /\ Insight!MetricComplete(usage)
    BY <1>2 DEF Insight!NodeState, Insight!Incomplete
  <1>3. ASSUME NEW item \in Insight!NodeHealthItems(nodes, pods, metrics), item.state = "PASS"
        PROVE  item.ready /\ item.metrics = "MetricsAPI"
    <2>1. PICK n \in nodes :
             item = [state |-> Insight!NodeState(n, pods, Insight!UsageOf(metrics, n.name)),
                     ready |-> "Ready" \in DOMAIN n.conditions /\ n.conditions["Ready"] = "True",
                     metrics |-> IF Insight!MetricComplete(Insight!UsageOf(metrics, n.name))
                                 THEN "MetricsAPI" ELSE "EVIDENCE_UNAVAILABLE"]
      BY DEF Insight!NodeHealthItems
    <2> QED
      BY <1>2, <1>3, <2>1
  <1> QED
    BY <1>1, <1>3 DEF Validation!NodeHealthSound

LEMMA ManifestsAreJudged ==
    ASSUME NEW documents, NEW api
    PROVE  Validation!ManifestSchemaSound(Manifest!ManifestState(documents, api))
  BY DEF Validation!ManifestSchemaSound, Manifest!ManifestState

-----------------------------------------------------------------------------
(* CIS controls *)

Fields == {"applicability", "mode", "status", "responsibility", "flagged"}
WellMade(control) == DOMAIN control = Fields /\ Validation!CisControlSound(control)

LEMMA ControlsOf ==
    ASSUME NEW applicability \in {"APPLICABLE", "NOT_APPLICABLE", "MANAGED_PROVIDER",
                                  "EVIDENCE_UNAVAILABLE", "MANUAL_REVIEW"},
           NEW responsibility \in {"CUSTOMER", "CLOUD_PROVIDER", "SHARED"},
           NEW mode, NEW verdict, NEW flagged,
           applicability \in {"EVIDENCE_UNAVAILABLE", "MANUAL_REVIEW"} => verdict # "PASS"
    PROVE  WellMade(Posture!Control(applicability, mode, verdict, responsibility, flagged))
  BY DEF WellMade, Fields, Posture!Control, Validation!CisControlSound

\* A control without evidence passes in no case of the inventory,
LEMMA InventoryIsWellMade ==
    ASSUME NEW inv, NEW id \in Posture!ControlIds
    PROVE  WellMade(Posture!InventoryControl(inv, id))
  <1>1. WellMade(Posture!Unavailable)
    BY ControlsOf DEF Posture!Unavailable
  <1>2. ASSUME NEW verdict, NEW flagged PROVE WellMade(Posture!Evaluated(verdict, flagged))
    BY ControlsOf DEF Posture!Evaluated
  <1>3. ASSUME NEW flagged PROVE WellMade(Posture!WarnIf(flagged))
    BY <1>2 DEF Posture!WarnIf
  <1>4. ASSUME NEW keys, NEW control, WellMade(control) PROVE WellMade(Posture!FromCoverage(inv, keys, control))
    BY <1>1, <1>4 DEF Posture!FromCoverage
  <1>5. WellMade(Posture!WorkloadControl(inv, id))
    BY <1>1, <1>3 DEF Posture!WorkloadControl
  <1>6. WellMade(Posture!NetworkPolicyControl(inv)) /\ WellMade(Posture!PolicyControl(inv))
    BY <1>2, <1>3 DEF Posture!NetworkPolicyControl, Posture!PolicyControl
  <1>7. WellMade(Posture!PodSecurityControl(inv))
    BY <1>1, <1>3 DEF Posture!PodSecurityControl
  <1>8. WellMade(Posture!ControlPlaneControl(inv))
    <2>1. WellMade(Posture!Control("MANAGED_PROVIDER", "MANUAL", "N/A", "CLOUD_PROVIDER", {}))
      BY ControlsOf
    <2>2. WellMade(Posture!Control("MANUAL_REVIEW", "MANUAL", "UNKNOWN", "SHARED", {}))
      BY ControlsOf
    <2> QED
      BY <1>1, <2>1, <2>2 DEF Posture!ControlPlaneControl
  <1>9. WellMade(Posture!KubeletControl(inv))
    <2>1. ASSUME NEW owner \in {"SHARED", "CUSTOMER"}
          PROVE  WellMade([Posture!Unavailable EXCEPT !.responsibility = owner])
      <3>1. [Posture!Unavailable EXCEPT !.responsibility = owner]
               = Posture!Control("EVIDENCE_UNAVAILABLE", "AUTOMATED", "UNKNOWN", owner, {})
        BY DEF Posture!Unavailable, Posture!Control
      <3> QED
        BY <3>1, ControlsOf
    <2> QED
      BY <2>1 DEF Posture!KubeletControl
  <1> QED
    <2> DEFINE control == Posture!InventoryControl(inv, id)
    <2>1. CASE id \in Posture!WorkloadChecks
      BY <1>5, <2>1 DEF Posture!InventoryControl, Posture!WorkloadChecks
    <2>2. CASE id \notin Posture!WorkloadChecks
      <3>1. id \in {"rbac.wildcards", "rbac.cluster-admin", "rbac.secrets", "rbac.impersonation",
                    "network.external-services", "network.network-policy", "admission.policy-enforcement",
                    "admission.failure-policy", "admission.pod-security", "control-plane.api-server",
                    "control-plane.etcd", "node.kubelet-configuration"}
        BY <2>2 DEF Posture!ControlIds
      <3> QED
        BY <1>3, <1>4, <1>6, <1>7, <1>8, <1>9, <2>2, <3>1 DEF Posture!InventoryControl
    <2> QED
      BY <2>1, <2>2

\* nor after evidence, AWS findings and exceptions were laid over it.
LEMMA EvidenceIsWellMade ==
    ASSUME NEW controls, \A id \in DOMAIN controls : WellMade(controls[id]),
           NEW entries, entries \in Seq(ToSet(entries)),
           \A i \in DOMAIN entries : entries[i].responsibility \in {"CUSTOMER", "CLOUD_PROVIDER", "SHARED"}
    PROVE  LET laid == Posture!WithEvidence(controls, entries)
           IN  \A id \in DOMAIN laid : WellMade(laid[id])
  <1> DEFINE decided == {entries[i].id : i \in Posture!AcceptedEvidence(entries)}
             laid == Posture!WithEvidence(controls, entries)
  <1>1. laid = [id \in DOMAIN controls \cup decided |->
                  IF id \in decided THEN Posture!DecidedBy(controls, entries, id) ELSE controls[id]]
    BY DEF Posture!WithEvidence
  <1>2. ASSUME NEW id \in decided PROVE WellMade(Posture!DecidedBy(controls, entries, id))
    <2> DEFINE own == Posture!EntriesFor(entries, id)
               first == Posture!Min(own)
               owner == IF id \in DOMAIN controls THEN controls[id].responsibility ELSE entries[first].responsibility
    <2>1. own \in SUBSET DOMAIN entries /\ own # {}
      BY DEF Posture!EntriesFor, Posture!AcceptedEvidence
    <2>2. first \in own
      <3>1. first = Min(own)
        BY DEF Posture!Min, Min
      <3> HIDE DEF own, first
      <3> QED
        BY <2>1, <3>1, FirstAndLast, PositionsOfList
    <2>3. owner \in {"CUSTOMER", "CLOUD_PROVIDER", "SHARED"}
      <3> HIDE DEF own, first
      <3> QED
        BY <2>1, <2>2 DEF WellMade, Validation!CisControlSound
    <2>4. \E mode, verdict, flagged :
             Posture!DecidedBy(controls, entries, id) = Posture!Control("APPLICABLE", mode, verdict, owner, flagged)
      BY DEF Posture!DecidedBy
    <2> HIDE DEF owner
    <2> QED
      BY <2>3, <2>4, ControlsOf
  <1> HIDE DEF decided
  <1> QED
    BY <1>1, <1>2

LEMMA AwsIsWellMade ==
    ASSUME NEW controls, \A id \in DOMAIN controls : WellMade(controls[id]), NEW provider, NEW findings
    PROVE  LET laid == Posture!WithAws(controls, provider, findings)
           IN  \A id \in DOMAIN laid : WellMade(laid[id])
  <1>1. ASSUME NEW severity PROVE WellMade(Posture!AwsControl(severity))
    BY ControlsOf DEF Posture!AwsControl
  <1> QED
    BY <1>1 DEF Posture!WithAws

LEMMA ExceptionsAreWellMade ==
    ASSUME NEW controls, \A id \in DOMAIN controls : WellMade(controls[id]), NEW exceptions
    PROVE  LET laid == Posture!WithExceptions(controls, exceptions)
           IN  \A id \in DOMAIN laid : WellMade(laid[id])
  <1>1. ASSUME NEW control, WellMade(control) PROVE WellMade([control EXCEPT !.status = "EXEMPTED"])
    BY <1>1 DEF WellMade, Fields, Validation!CisControlSound
  <1> QED
    BY <1>1 DEF Posture!WithExceptions

LEMMA ControlsAreSound ==
    ASSUME NEW inv, NEW beside, beside.evidence \in Seq(ToSet(beside.evidence)),
           \A i \in DOMAIN beside.evidence :
              beside.evidence[i].responsibility \in {"CUSTOMER", "CLOUD_PROVIDER", "SHARED"}
    PROVE  LET controls == Posture!Assess(inv, beside)
           IN  \A id \in DOMAIN controls : Validation!CisControlSound(controls[id])
  <1> DEFINE listed == Posture!Inventory(inv)
             shown == Posture!WithEvidence(listed, beside.evidence)
             reported == Posture!WithAws(shown, Posture!Provider(inv), beside.aws)
             controls == Posture!WithExceptions(reported, beside.exceptions)
  <1>1. Posture!Assess(inv, beside) = controls
    BY DEF Posture!Assess, Posture!ApplyExternal
  <1>2. \A id \in DOMAIN listed : WellMade(listed[id])
    BY InventoryIsWellMade DEF Posture!Inventory
  <1> HIDE DEF listed
  <1>3. \A id \in DOMAIN shown : WellMade(shown[id])
    BY <1>2, EvidenceIsWellMade
  <1> HIDE DEF shown
  <1>4. \A id \in DOMAIN reported : WellMade(reported[id])
    BY <1>3, AwsIsWellMade
  <1> HIDE DEF reported
  <1>5. \A id \in DOMAIN controls : WellMade(controls[id])
    BY <1>4, ExceptionsAreWellMade
  <1> QED
    BY <1>1, <1>5 DEF WellMade

-----------------------------------------------------------------------------
(* scores *)

AwsRuleNames ==
    {"private-endpoint", "public-endpoint", "secrets-kms", "control-plane-logs", "control-plane-health", "access-mode",
     "bootstrap-admin", "support-type", "deletion-protection", "managed-nodegroups", "nodegroup-health", "addon-health",
     "addon-lifecycle", "vpc-cni-prefix", "vpc-cni-network-policy", "fargate-health", "access-entry-inventory",
     "workload-identity", "cluster-insights-coverage", "cluster-insight", "subnet-ip-capacity", "subnet-zones",
     "security-group-exposure", "ecr-image-scan", "ecr-scan-budget", "runtime-monitoring", "applicability", "collection"}

\* What a finding is about: the cluster, an addon it needs, or what the account lists.
AwsResources(w) ==
    {"cluster", "vpc-cni", "coredns", "kube-proxy"} \cup ToSet(w.images) \cup ToSet(w.names["nodegroups"])
    \cup ToSet(w.names["addons"]) \cup ToSet(w.names["fargate-profiles"]) \cup ToSet(w.names["cluster-insights"])

LEMMA UptoOfList ==
    ASSUME NEW names, IsList(names), NEW limit \in Nat
    PROVE  Account!ToSet(Account!Upto(names, limit)) \subseteq ToSet(names)
  <1> DEFINE T == ToSet(names)
             n == IF Len(names) < limit THEN Len(names) ELSE limit
             part == SubSeq(names, 1, n)
  <1>1. names \in Seq(T) /\ Len(names) \in Nat
    BY DEF IsList
  <1>2. n \in Nat /\ n <= Len(names)
    BY <1>1
  <1>3. part \in Seq(T)
    <2> HIDE DEF T, n
    <2> QED
      BY <1>1, <1>2
  <1>4. Account!Upto(names, limit) = part
    BY DEF Account!Upto
  <1> HIDE DEF part, T
  <1>5. \A i \in DOMAIN part : part[i] \in T
    BY <1>3
  <1> QED
    BY <1>4, <1>5 DEF Account!ToSet, T

LEMMA ListedOfAccount ==
    ASSUME NEW s, NEW w, NEW kind, IsList(w.names[kind]), NEW limit \in Nat
    PROVE  Account!ToSet(Account!Listed(s, w, kind, limit)) \subseteq ToSet(w.names[kind])
  <1>1. CASE Account!Got(s, <<kind>>)
    BY <1>1, UptoOfList DEF Account!Listed
  <1>2. CASE ~ Account!Got(s, <<kind>>)
    <2>1. Account!Listed(s, w, kind, limit) = <<>>
      BY <1>2 DEF Account!Listed
    <2> QED
      BY <2>1 DEF Account!ToSet
  <1> QED
    BY <1>1, <1>2

\* Findings are of finitely many rules, about what the account has,
LEMMA AwsFindingsAreNamed ==
    ASSUME NEW w, IsAccount(w)
    PROVE  \A f \in Account!AwsReport(w).findings : f.rule \in AwsRuleNames /\ f.resource \in AwsResources(w)
  <1> DEFINE Belongs(f) == f.rule \in AwsRuleNames /\ f.resource \in AwsResources(w)
  <1>0. {"cluster", "vpc-cni", "coredns", "kube-proxy"} \subseteq AwsResources(w)
    BY DEF AwsResources
  <1>1. ASSUME NEW rule \in AwsRuleNames, NEW resource \in AwsResources(w), NEW severity
        PROVE  Belongs(Account!Finding(rule, resource, severity))
    BY DEF Account!Finding
  <1>2. Account!NamesLimit \in Nat /\ Account!EntriesLimit \in Nat
    BY DEF Account!NamesLimit, Account!EntriesLimit
  <1>3. ASSUME NEW s PROVE \A f \in Account!AwsFindings(s, w) : Belongs(f)
    <2>1. /\ Account!Described(s, w, "nodegroups") \subseteq AwsResources(w)
          /\ Account!Described(s, w, "addons") \subseteq AwsResources(w)
          /\ Account!Described(s, w, "fargate-profiles") \subseteq AwsResources(w)
      <3>1. ASSUME NEW kind, IsList(w.names[kind])
            PROVE  Account!Described(s, w, kind) \subseteq ToSet(w.names[kind])
        BY <1>2, <3>1, ListedOfAccount DEF Account!Described
      <3>2. /\ IsList(w.names["nodegroups"]) /\ IsList(w.names["addons"]) /\ IsList(w.names["fargate-profiles"])
        BY DEF IsAccount
      <3> QED
        BY <3>1, <3>2 DEF AwsResources
    <2>2. Account!ToSet(Account!Listed(s, w, "cluster-insights", Account!EntriesLimit)) \subseteq AwsResources(w)
      <3>1. IsList(w.names["cluster-insights"])
        BY DEF IsAccount
      <3> QED
        BY <1>2, <3>1, ListedOfAccount DEF AwsResources
    <2>3. Account!ToSet(Account!Upto(w.images, Account!NamesLimit)) \subseteq AwsResources(w)
      <3>1. IsList(w.images)
        BY DEF IsAccount
      <3> QED
        BY <1>2, <3>1, UptoOfList DEF AwsResources
    <2> HIDE DEF Belongs
    <2>4. \A f \in Account!ClusterFindings(w.cluster) : Belongs(f)
      BY <1>0, <1>1 DEF Account!ClusterFindings, AwsRuleNames
    <2>5. \A f \in Account!NodegroupFindings(s, w) : Belongs(f)
      BY <1>0, <1>1, <2>1 DEF Account!NodegroupFindings, AwsRuleNames
    <2>6. \A f \in Account!AddonFindings(s, w) : Belongs(f)
      BY <1>0, <1>1, <2>1 DEF Account!AddonFindings, AwsRuleNames
    <2>7. \A f \in Account!FargateFindings(s, w) : Belongs(f)
      BY <1>1, <2>1 DEF Account!FargateFindings, AwsRuleNames
    <2>8. \A f \in Account!IdentityFindings(s, w) : Belongs(f)
      BY <1>0, <1>1 DEF Account!IdentityFindings, AwsRuleNames
    <2>9. \A f \in Account!InsightFindings(s, w) : Belongs(f)
      BY <1>0, <1>1, <2>2 DEF Account!InsightFindings, AwsRuleNames
    <2>10. \A f \in Account!NetworkFindings(s, w) : Belongs(f)
      BY <1>0, <1>1 DEF Account!NetworkFindings, AwsRuleNames
    <2>11. \A f \in Account!ImageFindings(s, w) : Belongs(f)
      BY <1>0, <1>1, <2>3 DEF Account!ImageFindings, AwsRuleNames
    <2>12. \A f \in Account!GuardDutyFindings(s, w) : Belongs(f)
      BY <1>0, <1>1 DEF Account!GuardDutyFindings, AwsRuleNames
    <2> QED
      BY <2>4, <2>5, <2>6, <2>7, <2>8, <2>9, <2>10, <2>11, <2>12 DEF Account!AwsFindings
  <1>4. \/ Account!AwsReport(w).findings = {Account!Finding("applicability", "cluster", "N/A")}
        \/ Account!AwsReport(w).findings = {Account!Finding("collection", "cluster", "UNKNOWN")}
        \/ Account!AwsReport(w).findings = Account!AwsFindings(Account!Collected(w), w)
    BY DEF Account!AwsReport, Account!ReportOf
  <1>5. /\ Belongs(Account!Finding("applicability", "cluster", "N/A"))
        /\ Belongs(Account!Finding("collection", "cluster", "UNKNOWN"))
    <2>1. {"applicability", "collection"} \subseteq AwsRuleNames
      BY DEF AwsRuleNames
    <2> HIDE DEF Belongs
    <2> QED
      BY <1>0, <1>1, <2>1
  <1> HIDE DEF Belongs
  <1>6. \A f \in Account!AwsReport(w).findings : Belongs(f)
    BY <1>3, <1>4, <1>5
  <1> QED
    BY <1>6 DEF Belongs

LEMMA SevenAreFinite ==
    ASSUME NEW a, NEW b, NEW c, NEW d, NEW e, NEW f, NEW g
    PROVE  IsFiniteSet({a, b, c, d, e, f, g})
  <1>1. {a, b, c, d, e, f, g} = {a} \cup ({b} \cup ({c} \cup ({d} \cup ({e} \cup ({f} \cup {g})))))
    OBVIOUS
  <1>2. IsFiniteSet({f} \cup {g}) /\ IsFiniteSet({a}) /\ IsFiniteSet({b}) /\ IsFiniteSet({c})
        /\ IsFiniteSet({d}) /\ IsFiniteSet({e})
    BY FS_Singleton, FS_Union
  <1>3. IsFiniteSet({d} \cup ({e} \cup ({f} \cup {g})))
    BY <1>2, FS_Union
  <1>4. IsFiniteSet({a} \cup ({b} \cup ({c} \cup ({d} \cup ({e} \cup ({f} \cup {g}))))))
    BY <1>2, <1>3, FS_Union
  <1> QED
    BY <1>1, <1>4

LEMMA NamesAreFinite == IsFiniteSet(AwsRuleNames) /\ IsFiniteSet(Posture!ControlIds)
  <1>1. IsFiniteSet(AwsRuleNames)
    <2>1. AwsRuleNames =
             {"private-endpoint", "public-endpoint", "secrets-kms", "control-plane-logs", "control-plane-health",
              "access-mode", "bootstrap-admin"}
             \cup ({"support-type", "deletion-protection", "managed-nodegroups", "nodegroup-health", "addon-health",
              "addon-lifecycle", "vpc-cni-prefix"}
             \cup ({"vpc-cni-network-policy", "fargate-health", "access-entry-inventory", "workload-identity",
              "cluster-insights-coverage", "cluster-insight", "subnet-ip-capacity"}
             \cup {"subnet-zones", "security-group-exposure", "ecr-image-scan", "ecr-scan-budget", "runtime-monitoring",
              "applicability", "collection"}))
      BY DEF AwsRuleNames
    <2> QED
      BY <2>1, SevenAreFinite, FS_Union
  <1>2. IsFiniteSet(Posture!ControlIds)
    <2>1. Posture!ControlIds =
             {"pod.privileged", "pod.host-namespaces", "pod.run-as-non-root", "pod.seccomp", "service-account.default",
              "pod.capabilities", "pod.privilege-escalation"}
             \cup ({"pod.read-only-root-filesystem", "image.latest-tag", "image.digest", "pod.host-path", "pod.proc-mount",
              "pod.sysctls", "rbac.wildcards"}
             \cup ({"rbac.cluster-admin", "rbac.secrets", "rbac.impersonation", "network.external-services",
              "network.network-policy", "admission.policy-enforcement", "admission.failure-policy"}
             \cup {"admission.pod-security", "control-plane.api-server", "control-plane.etcd",
              "node.kubelet-configuration", "rbac.wildcards", "rbac.secrets", "rbac.impersonation"}))
      BY DEF Posture!ControlIds, Posture!WorkloadChecks
    <2> QED
      BY <2>1, SevenAreFinite, FS_Union
  <1> QED
    BY <1>1, <1>2

LEMMA ListsAreFinite ==
    ASSUME NEW x, IsList(x)
    PROVE  IsFiniteSet(ToSet(x))
  <1>1. x \in Seq(ToSet(x))
    BY DEF IsList
  <1>2. IsFiniteSet(DOMAIN x)
    BY <1>1, PositionsOfList
  <1>3. x \in Surjection(DOMAIN x, ToSet(x))
    BY <1>1 DEF Surjection, ToSet
  <1> QED
    BY <1>2, <1>3, FS_Surjection

LEMMA AwsControlsAreFinite ==
    ASSUME NEW w, IsAccount(w)
    PROVE  IsFiniteSet(DOMAIN AwsControls(Account!AwsReport(w).findings))
  <1> DEFINE found == Account!AwsReport(w).findings
             pairs == AwsRuleNames \X AwsResources(w)
             id == [p \in pairs |-> p[1] \o "-of-" \o p[2]]
             ids == {id[p] : p \in pairs}
  <1>1. IsFiniteSet(AwsResources(w))
    <2>1. /\ IsFiniteSet(ToSet(w.images)) /\ IsFiniteSet(ToSet(w.names["nodegroups"])) /\ IsFiniteSet(ToSet(w.names["addons"]))
          /\ IsFiniteSet(ToSet(w.names["fargate-profiles"])) /\ IsFiniteSet(ToSet(w.names["cluster-insights"]))
      BY ListsAreFinite DEF IsAccount
    <2>2. IsFiniteSet({"cluster", "vpc-cni", "coredns", "kube-proxy"})
      <3>1. {"cluster", "vpc-cni", "coredns", "kube-proxy", "cluster", "cluster", "cluster"}
                = {"cluster", "vpc-cni", "coredns", "kube-proxy"}
        OBVIOUS
      <3> QED
        BY <3>1, SevenAreFinite
    <2> QED
      BY <2>1, <2>2, FS_Union DEF AwsResources
  <1>2. IsFiniteSet(pairs)
    BY <1>1, NamesAreFinite, FS_Product
  <1>3. DOMAIN AwsControls(found) = {AwsControl(f) : f \in found}
    BY DEF AwsControls
  <1>4. ASSUME NEW f \in found PROVE AwsControl(f) \in ids
    <2>1. f.rule \in AwsRuleNames /\ f.resource \in AwsResources(w)
      BY AwsFindingsAreNamed
    <2>2. <<f.rule, f.resource>> \in pairs
      BY <2>1
    <2>3. id[<<f.rule, f.resource>>] = AwsControl(f)
      BY <2>2 DEF AwsControl
    <2> QED
      BY <2>2, <2>3
  <1>5. id \in Surjection(pairs, ids)
    BY DEF Surjection
  <1> HIDE DEF found, pairs, id, ids
  <1>6. IsFiniteSet(ids)
    BY <1>2, <1>5, FS_Surjection
  <1>7. DOMAIN AwsControls(found) \subseteq ids
    BY <1>3, <1>4
  <1>8. IsFiniteSet(DOMAIN AwsControls(found))
    BY <1>6, <1>7, FS_Subset
  <1> QED
    BY <1>8 DEF found

\* so that a collection has finitely many controls,
LEMMA ControlsAreFinite ==
    ASSUME NEW inv, NEW beside, beside.evidence \in Seq(ToSet(beside.evidence)), IsFiniteSet(DOMAIN beside.aws)
    PROVE  IsFiniteSet(DOMAIN Posture!Assess(inv, beside))
  <1> DEFINE accepted == Posture!AcceptedEvidence(beside.evidence)
             decided == {beside.evidence[i].id : i \in accepted}
             listed == Posture!Inventory(inv)
             shown == Posture!WithEvidence(listed, beside.evidence)
             reported == Posture!WithAws(shown, Posture!Provider(inv), beside.aws)
  <1>1. IsFiniteSet(DOMAIN listed)
    BY NamesAreFinite DEF Posture!Inventory
  <1>2. IsFiniteSet(decided)
    <2>1. accepted \in SUBSET DOMAIN beside.evidence
      BY DEF Posture!AcceptedEvidence
    <2>2. [i \in accepted |-> beside.evidence[i].id] \in Surjection(accepted, decided)
      BY DEF Surjection
    <2> HIDE DEF accepted, decided
    <2>3. IsFiniteSet(accepted)
      BY <2>1, PositionsOfList
    <2> QED
      BY <2>2, <2>3, FS_Surjection
  <1>3. DOMAIN shown = DOMAIN listed \cup decided
    BY DEF Posture!WithEvidence
  <1>4. IsFiniteSet(DOMAIN shown)
    BY <1>1, <1>2, <1>3, FS_Union
  <1>5. DOMAIN reported = DOMAIN shown \/ DOMAIN reported = DOMAIN shown \cup DOMAIN beside.aws
    BY DEF Posture!WithAws
  <1>6. IsFiniteSet(DOMAIN reported)
    BY <1>4, <1>5, FS_Union
  <1>7. DOMAIN Posture!Assess(inv, beside) = DOMAIN reported
    BY DEF Posture!Assess, Posture!ApplyExternal, Posture!WithExceptions
  <1> QED
    BY <1>6, <1>7

\* every one of them of positive weight.
LEMMA RiskOf ==
    ASSUME NEW S, IsFiniteSet(S)
    PROVE  Posture!Weight(S) \in Nat /\ (S # {} => Posture!Weight(S) > 0)
  <1> DEFINE w == [a \in S |-> Posture!RiskWeight(a)]
             Step(g) == [T \in SUBSET S |-> IF T = {} THEN 0 ELSE Posture!RiskWeight(Pick(T)) + g[Rest(T)]]
             h == CHOOSE g : g = Step(g)
  <1>1. Posture!Weight(S) = h[S]
    BY DEF Posture!Weight, Posture!MapThenSumSet, Posture!MapThenFoldSet, Pick, Rest
  <1>2. \A T \in SUBSET S : T # {} => w[Pick(T)] = Posture!RiskWeight(Pick(T))
    BY PickRest
  <1>3. \A g : Step(g) = [T \in SUBSET S |-> IF T = {} THEN 0 ELSE w[Pick(T)] + g[Rest(T)]]
    BY <1>2
  <1>4. \A g : g = Step(g) <=> IsTotals(g, w, S)
    BY <1>3 DEF IsTotals
  <1>5. IsTotals(h, w, S)
    BY <1>4, TotalsExist DEF Solvable
  <1>6. Posture!Weight(S) = Sum(w, S)
    BY <1>1, <1>5, TotalOf
  <1>7. \A a \in S : w[a] \in Int /\ w[a] >= 1
    BY DEF Posture!RiskWeight
  <1> HIDE DEF w
  <1>8. Sum(w, S) \in Int /\ Sum(w, S) >= 0
    BY <1>7, SumType
  <1>9. ASSUME S # {} PROVE Sum(w, S) > 0
    <2>1. Sum(w, S) = w[Pick(S)] + Sum(w, Rest(S)) /\ Pick(S) \in S /\ Rest(S) \in SUBSET S
      BY <1>9, SumEquation, PickRest
    <2>2. Sum(w, Rest(S)) \in Int /\ Sum(w, Rest(S)) >= 0
      BY <1>7, <2>1, SumType, FS_Subset
    <2> QED
      BY <1>7, <2>1, <2>2
  <1> QED
    BY <1>6, <1>8, <1>9

\* Where something is scored there is a score.
LEMMA ScoredHasAScore ==
    ASSUME NEW controls, IsFiniteSet(DOMAIN controls), Posture!Scored(controls) # {}
    PROVE  Posture!Summary(controls).posture # -1
  <1> DEFINE scored == Posture!Scored(controls)
             part == Posture!Weight(Posture!Passed(controls, scored))
             whole == Posture!Weight(scored)
             quotient == (100 * part) \div whole
  <1>1. IsFiniteSet(scored) /\ IsFiniteSet(Posture!Passed(controls, scored))
    BY FS_Subset DEF Posture!Scored, Posture!Passed
  <1>2. part \in Nat /\ whole \in Nat /\ whole > 0
    BY <1>1, RiskOf
  <1>3. Posture!Summary(controls).posture = Posture!Percent(part, whole)
    BY DEF Posture!Summary
  <1> HIDE DEF part, whole
  <1>4. quotient \in Nat
    <2>1. 100 * part \in Nat
      BY <1>2
    <2> QED
      BY <1>2, <2>1
  <1>5. Posture!Percent(part, whole) \in {quotient, quotient + 1}
    BY <1>2 DEF Posture!Percent
  <1> QED
    BY <1>3, <1>4, <1>5

-----------------------------------------------------------------------------
(* The reports of one collection *)

\* Every step keeps what is there and adds its reports.
Extends(d, c, fields) == DOMAIN d = DOMAIN c \cup fields /\ \A f \in DOMAIN c : d[f] = c[f]

LEMMA AwsStep ==
    ASSUME NEW c, "aws" \notin DOMAIN c
    PROVE  Extends(WithAws(c), c, {"aws"}) /\ WithAws(c)["aws"] = Account!AwsReport(c.account)
  <1> DEFINE report == [aws |-> Account!AwsReport(c.account)]
  <1>1. WithAws(c) = Beside(c, report)
    BY DEF WithAws
  <1>2. DOMAIN report = {"aws"} /\ report["aws"] = Account!AwsReport(c.account)
    OBVIOUS
  <1> HIDE DEF report
  <1> QED
    BY <1>1, <1>2 DEF Extends, Beside

LEMMA CloudStep ==
    ASSUME NEW c, {"platform", "cloud"} \cap DOMAIN c = {}
    PROVE  /\ Extends(WithCloud(c), c, {"platform", "cloud"})
           /\ WithCloud(c)["platform"] = Platform(c)
           /\ WithCloud(c)["cloud"] = Insight!CloudReport(Platform(c),
                 [aws |-> AwsEvidence(c.account, c.aws), cli |-> c.cli, enabled |-> c.enabled,
                  scoped |-> c.scoped, aks |-> c.aks, gke |-> c.gke])
  <1> DEFINE cloud == Insight!CloudReport(Platform(c),
                 [aws |-> AwsEvidence(c.account, c.aws), cli |-> c.cli, enabled |-> c.enabled,
                  scoped |-> c.scoped, aks |-> c.aks, gke |-> c.gke])
             report == [platform |-> Platform(c), cloud |-> cloud]
  <1>1. WithCloud(c) = Beside(c, report)
    BY DEF WithCloud
  <1> HIDE DEF cloud
  <1>2. DOMAIN report = {"platform", "cloud"} /\ report["platform"] = Platform(c) /\ report["cloud"] = cloud
    OBVIOUS
  <1> HIDE DEF report
  <1>3. /\ Extends(WithCloud(c), c, {"platform", "cloud"})
        /\ WithCloud(c)["platform"] = Platform(c) /\ WithCloud(c)["cloud"] = cloud
    BY <1>1, <1>2 DEF Extends, Beside
  <1> QED
    BY <1>3 DEF cloud

LEMMA ControlsStep ==
    ASSUME NEW c, "controls" \notin DOMAIN c
    PROVE  /\ Extends(WithControls(c), c, {"controls"})
           /\ WithControls(c)["controls"] =
                 Posture!Assess([c.inv EXCEPT !.identity = IF c.aws.state = "AVAILABLE" THEN "AWS" ELSE @],
                                [evidence |-> c.external, aws |-> AwsControls(c.aws.findings), exceptions |-> c.exceptions])
  <1> DEFINE inv == [c.inv EXCEPT !.identity = IF c.aws.state = "AVAILABLE" THEN "AWS" ELSE @]
             beside == [evidence |-> c.external, aws |-> AwsControls(c.aws.findings), exceptions |-> c.exceptions]
             report == [controls |-> Posture!Assess(inv, beside)]
  <1>1. WithControls(c) = Beside(c, report)
    BY DEF WithControls
  <1> HIDE DEF inv
  <1>2. DOMAIN report = {"controls"} /\ report["controls"] = Posture!Assess(inv, beside)
    OBVIOUS
  <1> HIDE DEF report, beside
  <1>3. Extends(WithControls(c), c, {"controls"}) /\ WithControls(c)["controls"] = Posture!Assess(inv, beside)
    BY <1>1, <1>2 DEF Extends, Beside
  <1> QED
    BY <1>3 DEF beside, inv

LEMMA InsightsStep ==
    ASSUME NEW c, {"insights", "support"} \cap DOMAIN c = {}
    PROVE  /\ Extends(WithInsights(c), c, {"insights", "support"})
           /\ WithInsights(c)["insights"].items = Insight!NodeHealthItems(ToSet(c.nodes), c.pods, c.metrics)
           /\ WithInsights(c)["insights"].nodeHealth = Insight!NodeHealth(ToSet(c.nodes), c.pods, c.metrics)
           /\ WithInsights(c)["insights"].skew = Insight!VersionSkew(ToSet(c.nodes))
           /\ WithInsights(c)["insights"].platform =
                 IF c.cloud.provider # "" THEN c.cloud.provider ELSE Insight!DetectedPlatform(c.hints)
           /\ WithInsights(c)["insights"].rules =
                 Insight!ProviderRules(WithInsights(c)["insights"].platform, c.cloud.rules)
           /\ WithInsights(c)["support"] =
                 Insight!SupportStates(c.controlPlane, ToSet(c.nodes),
                    [v \in DOMAIN c.records |->
                        Insight!LifecycleState(c.catalog, c.records[v], c.platform, FALSE, "unknown", c.today)])
  <1> DEFINE lifecycle == [v \in DOMAIN c.records |->
                              Insight!LifecycleState(c.catalog, c.records[v], c.platform, FALSE, "unknown", c.today)]
             support == Insight!SupportStates(c.controlPlane, ToSet(c.nodes), lifecycle)
             read == [cloud |-> c.cloud, hints |-> c.hints, nodes |-> ToSet(c.nodes), pods |-> c.pods,
                      metrics |-> c.metrics, logs |-> c.logs, targets |-> c.targets]
             insights == Insight!Insights(read)
             report == [insights |-> insights, support |-> support]
  <1>1. WithInsights(c) = Beside(c, report)
    BY DEF WithInsights
  <1>2. /\ insights.items = Insight!NodeHealthItems(ToSet(c.nodes), c.pods, c.metrics)
        /\ insights.nodeHealth = Insight!NodeHealth(ToSet(c.nodes), c.pods, c.metrics)
        /\ insights.skew = Insight!VersionSkew(ToSet(c.nodes))
    BY DEF Insight!Insights
  <1>3. /\ insights.platform = IF c.cloud.provider # "" THEN c.cloud.provider ELSE Insight!DetectedPlatform(c.hints)
        /\ insights.rules = Insight!ProviderRules(insights.platform, c.cloud.rules)
    BY DEF Insight!Insights
  <1> HIDE DEF insights, support
  <1>4. DOMAIN report = {"insights", "support"} /\ report["insights"] = insights /\ report["support"] = support
    OBVIOUS
  <1> HIDE DEF report
  <1>5. /\ Extends(WithInsights(c), c, {"insights", "support"})
        /\ WithInsights(c)["insights"] = insights /\ WithInsights(c)["support"] = support
    BY <1>1, <1>4 DEF Extends, Beside
  <1> QED
    BY <1>2, <1>3, <1>5 DEF support

LEMMA GatesStep ==
    ASSUME NEW c, MadeLater \cap DOMAIN c \subseteq {"aws", "platform", "cloud", "controls", "insights", "support"}
    PROVE  LET d == ForGates(c)
           IN  /\ DOMAIN c \subseteq DOMAIN d /\ \A f \in DOMAIN c : d[f] = c[f]
               /\ d["manifestSchema"] = Manifest!ManifestState(c.documents, c.api)
               /\ d["configuration"] = ConfigurationMetadata(c)
               /\ d["nodeHealth"] = c.insights.nodeHealth
               /\ d["manifests"] = ToSet(c.documents)
               /\ d["skew"] = c.insights.skew
               /\ d["endOfSupport"] = ("END_OF_SUPPORT" \in c.support)
               /\ d["versions"] = TRUE
  <1> DEFINE schema == Manifest!ManifestState(c.documents, c.api)
             cis == {c.controls[id] : id \in DOMAIN c.controls}
             lost == c.support \cap {"UNKNOWN", "UNKNOWN_STALE_CATALOG"} # {}
             report == [cis |-> cis, manifests |-> ToSet(c.documents), configuration |-> ConfigurationMetadata(c),
                        manifestSchema |-> schema, nodeHealth |-> c.insights.nodeHealth, skew |-> c.insights.skew,
                        endOfSupport |-> "END_OF_SUPPORT" \in c.support, versions |-> TRUE, lifecycleUnknown |-> lost]
  <1>1. ForGates(c) = Beside(c, report)
    BY DEF ForGates
  <1>2. /\ report["manifestSchema"] = schema /\ report["configuration"] = ConfigurationMetadata(c)
        /\ report["nodeHealth"] = c.insights.nodeHealth /\ report["manifests"] = ToSet(c.documents)
        /\ report["skew"] = c.insights.skew /\ report["endOfSupport"] = ("END_OF_SUPPORT" \in c.support)
        /\ report["versions"] = TRUE
    OBVIOUS
  <1> DEFINE own == {"manifestSchema", "configuration", "nodeHealth", "manifests", "skew", "endOfSupport", "versions"}
  <1>3. own \subseteq DOMAIN report
    OBVIOUS
  <1> HIDE DEF report, schema, cis, lost
  <1>4. own \cap DOMAIN c = {}
    BY DEF MadeLater
  <1>5. \A f \in own : ForGates(c)[f] = report[f]
    <2> HIDE DEF own
    <2> QED
      BY <1>1, <1>3, <1>4 DEF Beside
  <1>6. DOMAIN c \subseteq DOMAIN ForGates(c) /\ \A f \in DOMAIN c : ForGates(c)[f] = c[f]
    BY <1>1 DEF Beside
  <1> QED
    BY <1>2, <1>5, <1>6 DEF schema

\* The parts a collection is made of, from its evidence.
PlatformOf(e) ==
    Insight!DetectedPlatform(e.hints \cup IF Account!AwsReport(e.account).state # "N/A" THEN {"eks"} ELSE {})
CloudOf(e) ==
    Insight!CloudReport(PlatformOf(e),
        [aws |-> AwsEvidence(e.account, Account!AwsReport(e.account)), cli |-> e.cli, enabled |-> e.enabled,
         scoped |-> e.scoped, aks |-> e.aks, gke |-> e.gke])
InvOf(e) == [e.inv EXCEPT !.identity = IF Account!AwsReport(e.account).state = "AVAILABLE" THEN "AWS" ELSE @]
BesideOf(e) ==
    [evidence |-> e.external, aws |-> AwsControls(Account!AwsReport(e.account).findings), exceptions |-> e.exceptions]
SupportOf(e) ==
    Insight!SupportStates(e.controlPlane, ToSet(e.nodes),
        [v \in DOMAIN e.records |->
            Insight!LifecycleState(e.catalog, e.records[v], PlatformOf(e), FALSE, "unknown", e.today)])

\* What a collection holds after its last step, report by report.
LEMMA CollectionHolds ==
    ASSUME NEW e, Evidence(e)
    PROVE  LET c == Collection(e)
           IN  /\ CollectedFields \subseteq DOMAIN c /\ \A f \in CollectedFields : c[f] = e[f]
               /\ c.aws = Account!AwsReport(e.account) /\ c.platform = PlatformOf(e) /\ c.cloud = CloudOf(e)
               /\ c.controls = Posture!Assess(InvOf(e), BesideOf(e))
               /\ c.insights.items = Insight!NodeHealthItems(ToSet(e.nodes), e.pods, e.metrics)
               /\ c.insights.platform = IF c.cloud.provider # "" THEN c.cloud.provider ELSE Insight!DetectedPlatform(e.hints)
               /\ c.insights.rules = Insight!ProviderRules(c.insights.platform, c.cloud.rules)
               /\ c.nodeHealth = Insight!NodeHealth(ToSet(e.nodes), e.pods, e.metrics)
               /\ c.skew = Insight!VersionSkew(ToSet(e.nodes))
               /\ c.endOfSupport = ("END_OF_SUPPORT" \in SupportOf(e)) /\ c.versions = TRUE
               /\ c.manifests = ToSet(e.documents) /\ c.manifestSchema = Manifest!ManifestState(e.documents, e.api)
               /\ c.configuration = ConfigurationMetadata(e)
  <1> DEFINE c1 == WithAws(e)
             c2 == WithCloud(c1)
             c3 == WithControls(c2)
             c4 == WithInsights(c3)
             c == ForGates(c4)
             later == {"aws", "platform", "cloud", "controls", "insights", "support"}
  <1>0. Collection(e) = c
    BY DEF Collection
  <1>1. \A f \in later : f \notin DOMAIN e
    BY DEF Evidence, MadeLater
  <1>2. Extends(c1, e, {"aws"}) /\ c1["aws"] = Account!AwsReport(e.account)
    BY <1>1, AwsStep
  <1> HIDE DEF c1
  <1>3. {"platform", "cloud"} \cap DOMAIN c1 = {}
    BY <1>1, <1>2 DEF Extends
  <1>4. /\ Extends(c2, c1, {"platform", "cloud"})
        /\ c2["platform"] = Platform(c1)
        /\ c2["cloud"] = Insight!CloudReport(Platform(c1),
                            [aws |-> AwsEvidence(c1.account, c1.aws), cli |-> c1.cli, enabled |-> c1.enabled,
                             scoped |-> c1.scoped, aks |-> c1.aks, gke |-> c1.gke])
    BY <1>3, CloudStep
  <1> HIDE DEF c2
  <1>5. "controls" \notin DOMAIN c2
    BY <1>1, <1>2, <1>4 DEF Extends
  <1>6. /\ Extends(c3, c2, {"controls"})
        /\ c3["controls"] =
              Posture!Assess([c2.inv EXCEPT !.identity = IF c2.aws.state = "AVAILABLE" THEN "AWS" ELSE @],
                             [evidence |-> c2.external, aws |-> AwsControls(c2.aws.findings), exceptions |-> c2.exceptions])
    BY <1>5, ControlsStep
  <1> HIDE DEF c3
  <1>7. {"insights", "support"} \cap DOMAIN c3 = {}
    BY <1>1, <1>2, <1>4, <1>6 DEF Extends
  <1>8. /\ Extends(c4, c3, {"insights", "support"})
        /\ c4["insights"].items = Insight!NodeHealthItems(ToSet(c3.nodes), c3.pods, c3.metrics)
        /\ c4["insights"].nodeHealth = Insight!NodeHealth(ToSet(c3.nodes), c3.pods, c3.metrics)
        /\ c4["insights"].skew = Insight!VersionSkew(ToSet(c3.nodes))
        /\ c4["insights"].platform = IF c3.cloud.provider # "" THEN c3.cloud.provider ELSE Insight!DetectedPlatform(c3.hints)
        /\ c4["insights"].rules = Insight!ProviderRules(c4["insights"].platform, c3.cloud.rules)
        /\ c4["support"] =
              Insight!SupportStates(c3.controlPlane, ToSet(c3.nodes),
                 [v \in DOMAIN c3.records |->
                     Insight!LifecycleState(c3.catalog, c3.records[v], c3.platform, FALSE, "unknown", c3.today)])
    BY <1>7, InsightsStep
  <1> HIDE DEF c4
  <1>9. DOMAIN c4 = DOMAIN e \cup later
    BY <1>2, <1>4, <1>6, <1>8 DEF Extends
  <1>10. MadeLater \cap DOMAIN c4 \subseteq later
    BY <1>9 DEF Evidence
  <1>11. /\ DOMAIN c4 \subseteq DOMAIN c /\ \A f \in DOMAIN c4 : c[f] = c4[f]
         /\ c["manifestSchema"] = Manifest!ManifestState(c4.documents, c4.api)
         /\ c["configuration"] = ConfigurationMetadata(c4)
         /\ c["nodeHealth"] = c4.insights.nodeHealth
         /\ c["manifests"] = ToSet(c4.documents)
         /\ c["skew"] = c4.insights.skew
         /\ c["endOfSupport"] = ("END_OF_SUPPORT" \in c4.support)
         /\ c["versions"] = TRUE
    BY <1>10, GatesStep
  <1> HIDE DEF c
  <1>12. \A f \in CollectedFields : c1[f] = e[f] /\ c2[f] = e[f] /\ c3[f] = e[f] /\ c4[f] = e[f] /\ c[f] = e[f]
    <2>1. \A f \in DOMAIN e : c1[f] = e[f] /\ f \in DOMAIN c1
      BY <1>2 DEF Extends
    <2>2. \A f \in DOMAIN e : c2[f] = e[f] /\ f \in DOMAIN c2
      BY <1>4, <2>1 DEF Extends
    <2>3. \A f \in DOMAIN e : c3[f] = e[f] /\ f \in DOMAIN c3
      BY <1>6, <2>2 DEF Extends
    <2>4. \A f \in DOMAIN e : c4[f] = e[f] /\ f \in DOMAIN c4
      BY <1>8, <2>3 DEF Extends
    <2>5. \A f \in DOMAIN e : c[f] = e[f]
      BY <1>11, <2>4
    <2>6. CollectedFields \subseteq DOMAIN e
      BY DEF Evidence
    <2> HIDE <1>2, <1>4, <1>6, <1>8, <1>11
    <2> QED
      BY <2>1, <2>2, <2>3, <2>4, <2>5, <2>6
  <1>13. /\ c.aws = Account!AwsReport(e.account) /\ c1.aws = c.aws /\ c2.aws = c.aws
         /\ c.platform = c2.platform /\ c3.platform = c2.platform /\ c.cloud = c2.cloud /\ c3.cloud = c2.cloud
         /\ c.controls = c3.controls /\ c.insights = c4.insights /\ c.support = c4.support
    <2>1. c1.aws = Account!AwsReport(e.account) /\ "aws" \in DOMAIN c1
      BY <1>2 DEF Extends
    <2>2. c2.aws = c1.aws /\ {"aws", "platform", "cloud"} \subseteq DOMAIN c2
      BY <1>4, <2>1 DEF Extends
    <2>3. /\ c3.aws = c2.aws /\ c3.platform = c2.platform /\ c3.cloud = c2.cloud
          /\ {"aws", "platform", "cloud", "controls"} \subseteq DOMAIN c3
      BY <1>6, <2>2 DEF Extends
    <2>4. /\ c4.aws = c3.aws /\ c4.platform = c3.platform /\ c4.cloud = c3.cloud /\ c4.controls = c3.controls
          /\ {"aws", "platform", "cloud", "controls", "insights", "support"} \subseteq DOMAIN c4
      BY <1>8, <2>3 DEF Extends
    <2>5. /\ c.aws = c4.aws /\ c.platform = c4.platform /\ c.cloud = c4.cloud /\ c.controls = c4.controls
          /\ c.insights = c4.insights /\ c.support = c4.support
      BY <1>11, <2>4
    <2> QED
      BY <2>1, <2>2, <2>3, <2>4, <2>5
  <1>14. /\ c1.hints = e.hints /\ c1.account = e.account /\ c1.cli = e.cli /\ c1.enabled = e.enabled
         /\ c1.scoped = e.scoped /\ c1.aks = e.aks /\ c1.gke = e.gke
         /\ c2.inv = e.inv /\ c2.external = e.external /\ c2.exceptions = e.exceptions
    BY <1>12 DEF CollectedFields, Written
  <1>15. /\ c3.nodes = e.nodes /\ c3.pods = e.pods /\ c3.metrics = e.metrics /\ c3.hints = e.hints
         /\ c3.controlPlane = e.controlPlane /\ c3.records = e.records /\ c3.catalog = e.catalog /\ c3.today = e.today
         /\ c4.documents = e.documents /\ c4.api = e.api /\ c4.requested = e.requested /\ c4.listed = e.listed
    BY <1>12 DEF CollectedFields, Written
  <1> HIDE DEF later
  <1>16. Platform(c1) = PlatformOf(e)
    BY <1>13, <1>14 DEF Platform, PlatformOf
  <1>17. c.platform = PlatformOf(e) /\ c.cloud = CloudOf(e)
    BY <1>4, <1>13, <1>14, <1>16 DEF CloudOf
  <1>18. c.controls = Posture!Assess(InvOf(e), BesideOf(e))
    BY <1>6, <1>13, <1>14 DEF InvOf, BesideOf
  <1>19. /\ c.insights.items = Insight!NodeHealthItems(ToSet(e.nodes), e.pods, e.metrics)
         /\ c.nodeHealth = Insight!NodeHealth(ToSet(e.nodes), e.pods, e.metrics)
         /\ c.skew = Insight!VersionSkew(ToSet(e.nodes))
    BY <1>8, <1>11, <1>13, <1>15
  <1>20. /\ c.insights.platform = IF c.cloud.provider # "" THEN c.cloud.provider ELSE Insight!DetectedPlatform(e.hints)
         /\ c.insights.rules = Insight!ProviderRules(c.insights.platform, c.cloud.rules)
    BY <1>8, <1>13, <1>15
  <1>21. c.endOfSupport = ("END_OF_SUPPORT" \in SupportOf(e)) /\ c.versions = TRUE
    <2>1. c4.support = SupportOf(e)
      BY <1>8, <1>13, <1>15, <1>17 DEF SupportOf
    <2> QED
      BY <1>11, <2>1
  <1>22. /\ c.manifests = ToSet(e.documents) /\ c.manifestSchema = Manifest!ManifestState(e.documents, e.api)
         /\ c.configuration = ConfigurationMetadata(e)
    BY <1>11, <1>15 DEF ConfigurationMetadata
  <1>23. CollectedFields \subseteq DOMAIN c
    BY <1>9, <1>11 DEF Evidence
  <1> QED
    BY <1>0, <1>12, <1>13, <1>17, <1>18, <1>19, <1>20, <1>21, <1>22, <1>23

LEMMA ReportsOfCollection ==
    ASSUME NEW e, Evidence(e)
    PROVE  LET c == Collection(e)
           IN  /\ c.aws = Account!AwsReport(e.account)
               /\ \E hints, v, cli, enabled, scoped, aks, gke :
                     c.cloud = Insight!CloudReport(Insight!DetectedPlatform(hints),
                                  [aws |-> AwsEvidence(v, c.aws), cli |-> cli, enabled |-> enabled,
                                   scoped |-> scoped, aks |-> aks, gke |-> gke])
               /\ \E inv, exceptions :
                     c.controls = Posture!Assess(inv, [evidence |-> e.external, aws |-> AwsControls(c.aws.findings),
                                                       exceptions |-> exceptions])
               /\ \E nodes, pods, metrics :
                     /\ c.insights.items = Insight!NodeHealthItems(nodes, pods, metrics)
                     /\ c.nodeHealth = Insight!NodeHealth(nodes, pods, metrics)
               /\ \E api : c.manifestSchema = Manifest!ManifestState(e.documents, api)
               /\ c.configuration = ConfigurationMetadata(e)
               /\ c.artifacts = e.artifacts /\ c.documents = e.documents /\ c.quality = e.quality
  <1> DEFINE c == Collection(e)
  <1>1. /\ \A f \in CollectedFields : c[f] = e[f]
        /\ c.aws = Account!AwsReport(e.account) /\ c.cloud = CloudOf(e)
        /\ c.controls = Posture!Assess(InvOf(e), BesideOf(e))
        /\ c.insights.items = Insight!NodeHealthItems(ToSet(e.nodes), e.pods, e.metrics)
        /\ c.nodeHealth = Insight!NodeHealth(ToSet(e.nodes), e.pods, e.metrics)
        /\ c.manifestSchema = Manifest!ManifestState(e.documents, e.api)
        /\ c.configuration = ConfigurationMetadata(e)
    BY CollectionHolds
  <1> HIDE DEF c
  <1>2. \E hints, v, cli, enabled, scoped, aks, gke :
            c.cloud = Insight!CloudReport(Insight!DetectedPlatform(hints),
                         [aws |-> AwsEvidence(v, c.aws), cli |-> cli, enabled |-> enabled,
                          scoped |-> scoped, aks |-> aks, gke |-> gke])
    <2> DEFINE hints == e.hints \cup IF c.aws.state # "N/A" THEN {"eks"} ELSE {}
    <2>1. PlatformOf(e) = Insight!DetectedPlatform(hints)
      BY <1>1 DEF PlatformOf
    <2> HIDE DEF hints
    <2>2. c.cloud = Insight!CloudReport(Insight!DetectedPlatform(hints),
                       [aws |-> AwsEvidence(e.account, c.aws), cli |-> e.cli, enabled |-> e.enabled,
                        scoped |-> e.scoped, aks |-> e.aks, gke |-> e.gke])
      BY <1>1, <2>1 DEF CloudOf
    <2> QED
      BY <2>2
  <1>3. c.artifacts = e.artifacts /\ c.documents = e.documents /\ c.quality = e.quality
    BY <1>1 DEF CollectedFields, Written
  <1>4. c.controls = Posture!Assess(InvOf(e), [evidence |-> e.external, aws |-> AwsControls(c.aws.findings),
                                               exceptions |-> e.exceptions])
    BY <1>1 DEF BesideOf
  <1> QED
    BY <1>1, <1>2, <1>3, <1>4 DEF c

\* Each check of the validator, on the report it reads.
LEMMA PublishedIsValid ==
    ASSUME NEW e, Evidence(e), Validation!Required \subseteq e.artifacts, Validation!BlueGreenArtifacts \subseteq e.artifacts,
           "manifest-schema-validation" \in e.artifacts, e.documents # <<>>, \A q \in DOMAIN e.quality : e.quality[q] = 0,
           \A id \in DOMAIN Collection(e).controls : Validation!CisControlSound(Collection(e).controls[id]),
           Posture!Summary(Collection(e).controls).posture # -1
    PROVE  Validation!Valid(Published(Collection(e)))
  <1> DEFINE c == Collection(e)
             gates == Migration!ReadinessGates(c, Migration!Generate(c))
             p == Published(c)
  <1>0. /\ p.files = [f \in c.artifacts |-> "json"] /\ p.schemas = [f \in c.artifacts |-> "PASS"]
        /\ p.comprehensiveVersion = <<4, 1>> /\ p.operationalVersion = <<1, 3>> /\ p.snapshots = {}
        /\ p.comprehensive = Safe /\ p.aws = Safe
        /\ p.configuration = [readOnly |-> TRUE, valuesPersisted |-> FALSE, annotationsPersisted |-> FALSE,
                              items |-> {[kind |-> o.kind, extraFields |-> {}] : o \in c.configuration.objects}]
        /\ p.references = Migration!ConfigurationRows(c)
        /\ p.referencesState = Migration!ConfigurationState(Migration!ConfigurationRows(c))
        /\ p.probes = {[plain |-> TRUE] : x \in c.probes}
        /\ p.decisions = {[status |-> Migration!Decision(gates), gates |-> {gates[g] : g \in DOMAIN gates}]}
        /\ p.findings = {[severity |-> f.severity, identified |-> TRUE] : f \in c.aws.findings}
        /\ p.quality = c.quality /\ p.controls = c.controls /\ p.score = Posture!Summary(c.controls).posture
        /\ p.nodeHealth = [state |-> c.nodeHealth, items |-> c.insights.items] /\ p.manifestSchema = c.manifestSchema
        /\ p.logs = [collected |-> c.insights.logs = "COLLECTED", redaction |-> TRUE, entries |-> {}]
        /\ p.cloud = c.cloud
        /\ p.cloudSafety = [readOnly |-> TRUE, mutations |-> 0, payloads |-> "omitted", forbiddenKeys |-> {},
                            operations |-> {"get", "list", "describe", "show"}]
        /\ p.counts = [workloads |-> Len(c.documents), containers |-> 1, resourceTypes |-> 1]
    <2> HIDE DEF c
    <2> QED
      BY DEF Published, PublishedWith, Migration!Generate
  <1>1. /\ c.aws = Account!AwsReport(e.account) /\ c.configuration = ConfigurationMetadata(e)
        /\ c.artifacts = e.artifacts /\ c.documents = e.documents /\ c.quality = e.quality
    BY ReportsOfCollection
  <1>2. Validation!CloudReportSound(c.cloud)
    <2>1. PICK hints, v, cli, enabled, scoped, aks, gke :
             c.cloud = Insight!CloudReport(Insight!DetectedPlatform(hints),
                          [aws |-> AwsEvidence(v, c.aws), cli |-> cli, enabled |-> enabled,
                           scoped |-> scoped, aks |-> aks, gke |-> gke])
      BY ReportsOfCollection
    <2> HIDE DEF c
    <2> QED
      BY <1>1, <2>1, CloudReportsStandOnEvidence
  <1>4. /\ Validation!NodeHealthSound([state |-> c.nodeHealth, items |-> c.insights.items])
        /\ Validation!ManifestSchemaSound(c.manifestSchema)
    <2>1. PICK nodes, pods, metrics :
             /\ c.insights.items = Insight!NodeHealthItems(nodes, pods, metrics)
             /\ c.nodeHealth = Insight!NodeHealth(nodes, pods, metrics)
      BY ReportsOfCollection
    <2>2. PICK api : c.manifestSchema = Manifest!ManifestState(e.documents, api)
      BY ReportsOfCollection
    <2> HIDE DEF c
    <2> QED
      BY <2>1, <2>2, HealthyNodesAreMeasured, ManifestsAreJudged
  <1>3. /\ \A id \in DOMAIN c.controls : Validation!CisControlSound(c.controls[id])
        /\ Posture!Summary(c.controls).posture # -1
    OBVIOUS
  <1>5. /\ Evidence(e) /\ Validation!Required \subseteq e.artifacts /\ Validation!BlueGreenArtifacts \subseteq e.artifacts
        /\ "manifest-schema-validation" \in e.artifacts /\ e.documents # <<>> /\ \A q \in DOMAIN e.quality : e.quality[q] = 0
    OBVIOUS
  <1> HIDE DEF c, gates, p
  <1>6. Validation!Files(p)
    <2>1. DOMAIN p.files = e.artifacts /\ \A f \in DOMAIN p.files : p.files[f] = "json"
      BY <1>0, <1>1
    <2>3. "secrets-metadata" \notin e.artifacts
      BY <1>5 DEF Evidence
    <2> QED
      BY <1>5, <2>1, <2>3 DEF Validation!Files
  <1>8. Validation!MetadataPolicy(p.configuration)
    <2>1. ASSUME NEW o \in ConfigurationMetadata(e).objects PROVE o.kind \in {"ConfigMap", "Secret"}
      <3>1. PICK k \in e.requested \cap DOMAIN e.listed : o \in e.listed[k]
        BY DEF ConfigurationMetadata
      <3> QED
        BY <1>5, <3>1 DEF Evidence
    <2> QED
      BY <1>0, <1>1, <2>1 DEF Validation!MetadataPolicy
  <1>9. Validation!ReferencesSound(p.referencesState, p.references)
    BY <1>0, PassedReferencesAreResolved
  <1>10. \A d \in p.decisions : Validation!DecisionSound(d.status, d.gates)
    <2>1. \A d \in p.decisions : d = [status |-> Migration!Decision(gates), gates |-> {gates[g] : g \in DOMAIN gates}]
      BY <1>0
    <2>2. Validation!DecisionSound(Migration!Decision(gates), {gates[g] : g \in DOMAIN gates})
      BY DecisionsStandOnGates
    <2> HIDE <1>0
    <2> QED
      BY ONLY <2>1, <2>2
  <1>11. Validation!FindingsSound(p.findings, p.quality)
    <2>1. \A f \in c.aws.findings : f.severity \in Validation!Severities
      BY <1>1, AwsReportFacts
    <2>2. \A q \in DOMAIN c.quality : c.quality[q] = 0
      BY <1>1, <1>5
    <2> QED
      BY <1>0, <2>1, <2>2 DEF Validation!FindingsSound
  <1>12. Validation!InventorySound(p.counts)
    <2>1. Len(e.documents) > 0
      <3>1. e.documents \in Seq(ToSet(e.documents)) /\ e.documents # <<>>
        BY <1>5 DEF Evidence, IsList
      <3> HIDE <1>5
      <3> QED
        BY <3>1
    <2> QED
      BY <1>0, <1>1, <2>1 DEF Validation!InventorySound
  <1>13. /\ \A s \in p.snapshots : Validation!Redacted(s)
         /\ Validation!ReadOnlyReport(p.comprehensive) /\ p.comprehensiveVersion[1] = 4
         /\ Validation!ProbesSound(p.probes) /\ Validation!ReadOnlyReport(p.aws)
         /\ Validation!LogsSound(p.logs) /\ Validation!CloudSafety(p.cloudSafety)
    BY <1>0 DEF Validation!ReadOnlyReport, Safe, Validation!ProbesSound, Validation!LogsSound, Validation!CloudSafety
  <1>14. Validation!Valid(p)
    <2>1. p.controls = c.controls /\ p.score = Posture!Summary(c.controls).posture /\ p.cloud = c.cloud
          /\ p.manifestSchema = c.manifestSchema /\ p.nodeHealth = [state |-> c.nodeHealth, items |-> c.insights.items]
      BY <1>0
    <2> HIDE <1>0
    <2> QED
      BY <1>2, <1>3, <1>4, <1>6, <1>8, <1>9, <1>10, <1>11, <1>12, <1>13, <2>1 DEF Validation!Valid
  <1> QED
    BY <1>14 DEF p, c

\* A collection has finitely many controls,
LEMMA CollectedControlsAreFinite ==
    ASSUME NEW e, Evidence(e)
    PROVE  IsFiniteSet(DOMAIN Collection(e).controls)
  <1> DEFINE c == Collection(e)
             beside == BesideOf(e)
  <1>1. c.controls = Posture!Assess(InvOf(e), beside) /\ c.aws = Account!AwsReport(e.account)
    BY CollectionHolds
  <1>2. /\ beside.evidence = e.external /\ beside.aws = AwsControls(Account!AwsReport(e.account).findings)
        /\ e.external \in Seq(ToSet(e.external))
    BY DEF BesideOf, Evidence, IsList
  <1> HIDE DEF beside, c
  <1>3. IsFiniteSet(DOMAIN beside.aws)
    BY <1>2, AwsControlsAreFinite DEF Evidence
  <1> QED
    BY <1>1, <1>2, <1>3, ControlsAreFinite DEF c

\* and a complete one with a score is valid.
LEMMA PublishedIsSound ==
    ASSUME NEW e, Evidence(e), Complete(e), Scored(Collection(e))
    PROVE  Sound(Published(Collection(e)))
  <1> DEFINE c == Collection(e)
             beside == BesideOf(e)
  <1>1. c.controls = Posture!Assess(InvOf(e), beside) /\ \A f \in CollectedFields : c[f] = e[f]
    BY CollectionHolds
  <1>2. \A id \in DOMAIN c.controls : Validation!CisControlSound(c.controls[id])
    <2>1. /\ beside.evidence = e.external /\ e.external \in Seq(ToSet(e.external))
          /\ \A i \in DOMAIN e.external : e.external[i].responsibility \in {"CUSTOMER", "CLOUD_PROVIDER", "SHARED"}
      BY DEF BesideOf, Evidence, IsList, Complete
    <2> HIDE DEF beside, c
    <2> QED
      BY <1>1, <2>1, ControlsAreSound
  <1>3. Posture!Summary(c.controls).posture # -1
    BY CollectedControlsAreFinite, ScoredHasAScore DEF Scored
  <1>4. /\ Validation!Required \subseteq e.artifacts /\ Validation!ContractArtifacts \subseteq e.artifacts
        /\ Validation!BlueGreenArtifacts \subseteq e.artifacts /\ "manifest-schema-validation" \in e.artifacts
        /\ e.documents # <<>> /\ \A q \in DOMAIN e.quality : e.quality[q] = 0
    BY DEF Complete, Validation!ContractArtifacts
  <1>5. Validation!ContractVerdict(Published(c)) = "PASS"
    <2>1. Published(c).schemas = [f \in c.artifacts |-> "PASS"] /\ c.artifacts = e.artifacts
      <3>1. c.artifacts = e.artifacts
        BY <1>1 DEF CollectedFields, Written
      <3> HIDE DEF c
      <3> QED
        BY <3>1 DEF Published, PublishedWith
    <2>2. DOMAIN Published(c).schemas = e.artifacts /\ \A f \in e.artifacts : Published(c).schemas[f] = "PASS"
      BY <2>1
    <2> HIDE DEF c
    <2> QED
      BY <1>4, <2>2 DEF Validation!ContractVerdict, Validation!ContractState
  <1>6. Validation!Valid(Published(c))
    BY <1>2, <1>3, <1>4, PublishedIsValid
  <1> QED
    BY <1>5, <1>6 DEF Sound
=============================================================================
