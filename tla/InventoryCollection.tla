------------------------ MODULE InventoryCollection ------------------------
(***************************************************************************)
(* eks_comprehensive_assessment.py --collect-live on one snapshot          *)
(* directory: the threads that list resources share one request budget,    *)
(* a session may crash or resume, and provenance says what may be reused.  *)
(***************************************************************************)
EXTENDS Integers, FiniteSets, FiniteSetsExt

CONSTANTS
    Deep,             \* resources of RESOURCE_SPECS: listed one by one and saved
    Others,           \* listable resources the worker threads inventory
    Namespaced,       \* those of both that live in namespaces
    Sensitive,        \* those of Others the data-minimization policy leaves out
    Clusters,         \* context, endpoint and namespace scope, as one identity
    Main, Workers,    \* threads
    MaxRequests, MaxDuration, MaxBytes, Delay, Retries,
    MaxTime, MaxSessions          \* bounds

ASSUME InventoryAssumption ==
    /\ Sensitive \subseteq Others \cap Namespaced /\ Main \notin Workers
    /\ IsFiniteSet(Workers)                 \* ThreadPoolExecutor(max_workers)
    /\ {MaxRequests, MaxDuration, MaxBytes, Delay, Retries, MaxTime, MaxSessions} \subseteq Nat

\* What stands for no list of a cluster is not the name of one.
ASSUME ClusterAssumption == Clusters \cap {"nowhere", "empty", "absent"} = {}

VARIABLES
    now, sessions,    \* the clock; sessions still to come
    stage,            \* what the main thread does: see Stages
    cluster, resume,  \* where kubectl points to; the argument of the session
    budget,           \* ApiBudget: requests, bytes, reason, next
    call,             \* per thread, the run_kubectl call it is in
    served,           \* api_resources: what discovery returned
    coverage,         \* per deep resource
    entries,          \* per other resource, as collect_one reports it
    file, inventory,  \* on disk: snapshots and universal-inventory.json
    provenance,       \* on disk: collection-provenance.json
    asked, reused,    \* history: requests sent, snapshots reused,
    steady            \* and whether kubectl kept its context all the session

control == <<now, sessions, stage, cluster, resume>>
disk == <<file, inventory, provenance>>
results == <<served, coverage, entries>>
history == <<asked, reused, steady>>
inventoryVars == <<control, budget, call, results, disk, history>>

Threads == {Main} \cup Workers
Stages == {"off", "discovery", "deep", "universal", "report"}

Nowhere == [cluster |-> "nowhere"]
Empty == [cluster |-> "empty"]              \* a list without items
ListOf(c) == [cluster |-> c]
Absent == [cluster |-> "absent"]
NoProvenance == [cluster |-> "absent", snapshots |-> <<>>, steady |-> TRUE]

NoCall == [phase |-> "free", target |-> "none", attempt |-> 0, wake |-> 0]
Call(target) == [phase |-> "admit", target |-> target, attempt |-> 0, wake |-> 0]

FreshBudget == [requests |-> 0, bytes |-> 0, reason |-> "", next |-> now, started |-> now]

InventoryInit ==
    /\ now = 0 /\ sessions = MaxSessions /\ stage = "off"
    /\ cluster \in Clusters /\ resume = FALSE
    /\ budget = [requests |-> 0, bytes |-> 0, reason |-> "", next |-> 0, started |-> 0]
    /\ call = [t \in Threads |-> NoCall]
    /\ served = [state |-> "UNKNOWN", names |-> {}]
    /\ coverage = [r \in Deep |-> "none"]
    /\ entries = [r \in Others |-> "none"]
    /\ file = [r \in Deep |-> Absent]
    /\ inventory = "absent"
    /\ provenance = NoProvenance
    /\ asked = 0 /\ reused = {} /\ steady = TRUE

-----------------------------------------------------------------------------
(* ApiBudget and run_kubectl                                                *)

Exhausted ==
    IF budget.requests >= MaxRequests THEN "requests"
    ELSE IF now - budget.started >= MaxDuration THEN "duration" ELSE ""

Later(a, b) == IF a > b THEN a ELSE b

\* before_request, under the lock: refused, or a slot of its own.
Refuse == IF budget.reason # "" THEN budget.reason ELSE Exhausted

\* Fault: the next slot is counted from the request's own arrival.
ReserveFromNow(b) == [b EXCEPT !.requests = @ + 1, !.next = now + Delay]
Reserve(b) == [b EXCEPT !.requests = @ + 1, !.next = Later(now, @) + Delay]

Returned(t, state) == [call EXCEPT ![t] = [@ EXCEPT !.phase = state]]

Admit(t) ==
    /\ call[t].phase = "admit"
    /\ IF Refuse # ""
       THEN /\ budget' = [budget EXCEPT !.reason = Refuse]
            /\ call' = Returned(t, "failed")
       ELSE /\ budget' = Reserve(budget)
            /\ call' = [call EXCEPT ![t] = [@ EXCEPT !.phase = "asleep",
                                                     !.wake = Later(now, budget.next)]]
    /\ UNCHANGED <<control, results, disk, history>>

\* The sleep ends and kubectl starts, outside the lock.
Ask(t) ==
    /\ call[t].phase = "asleep" /\ now >= call[t].wake
    /\ call' = [call EXCEPT ![t] = [@ EXCEPT !.phase = "asking", !.wake = 0]]
    /\ asked' = asked + 1
    /\ UNCHANGED <<control, budget, results, disk, reused, steady>>

\* after_response: bytes are counted when they are there.
Counted(size) ==
    [budget EXCEPT !.bytes = @ + size,
                   !.reason = IF @ = "" /\ budget.bytes + size > MaxBytes THEN "bytes" ELSE @]

Again(c) == [c EXCEPT !.phase = "admit", !.attempt = @ + 1]

\* A reply of any kind; a transient error is tried again while attempts last.
Respond(t) ==
    /\ call[t].phase = "asking"
    /\ \E outcome \in {"listed", "failed", "transient"}, size \in {0, 1}:
          /\ outcome = "listed" => size = 1
          /\ budget' = Counted(size)
          /\ call' =
               IF outcome = "transient" /\ call[t].attempt < Retries
               THEN [call EXCEPT ![t] = Again(@)]
               ELSE Returned(t, IF outcome = "listed" THEN "listed" ELSE "failed")
    /\ UNCHANGED <<control, results, disk, history>>

Tick ==
    /\ stage # "off" /\ now < MaxTime
    /\ now' = now + 1
    /\ UNCHANGED <<sessions, stage, cluster, resume, budget, call, results, disk, history>>

-----------------------------------------------------------------------------
(* main: the arguments, the provenance and the session's stages             *)

Snapshots == {r \in Deep: file[r] # Absent}
SnapshotHashes == [r \in Snapshots |-> file[r]]

\* Fault: the identity is not compared.
ValidResumeAnywhere(c) ==
    DOMAIN provenance.snapshots # {} /\ provenance.snapshots = [r \in DOMAIN provenance.snapshots |-> file[r]]

\* valid_resume_provenance: the same identity, and every recorded file as it was.
ValidResume(c) ==
    /\ provenance.cluster = c
    /\ DOMAIN provenance.snapshots # {}
    /\ \A r \in DOMAIN provenance.snapshots: file[r] = provenance.snapshots[r]

Fresh ==
    /\ budget' = FreshBudget
    /\ coverage' = [r \in Deep |-> "none"]
    /\ entries' = [r \in Others |-> "none"]
    /\ served' = [state |-> "AVAILABLE", names |-> {}]
    /\ asked' = 0 /\ reused' = {} /\ steady' = TRUE

\* A refused resume ends the program before it asks anything.
StartSession ==
    /\ stage = "off" /\ sessions > 0
    /\ \E c \in Clusters, again \in BOOLEAN:
          /\ cluster' = c /\ resume' = again
          /\ again => ValidResume(c)
    /\ sessions' = sessions - 1
    /\ stage' = "discovery"
    /\ call' = [call EXCEPT ![Main] = Call("namespaced")]
    /\ Fresh
    /\ UNCHANGED <<now, disk>>

\* api_resources: both scopes are asked for, one after the other.  A scope that
\* answers names any of its resources.
Scope(name) ==
    IF name = "namespaced" THEN Namespaced ELSE (Deep \cup Others) \ Namespaced
Served(names) == [state |-> served.state, names |-> served.names \cup names]

Discover ==
    LET name == call[Main].target IN
    /\ stage = "discovery" /\ call[Main].phase \in {"listed", "failed"}
    /\ IF call[Main].phase = "listed"
       THEN \E names \in SUBSET Scope(name): served' = Served(names)
       ELSE served' = [served EXCEPT !.state = "UNAVAILABLE"]
    /\ IF name = "namespaced"
       THEN stage' = stage /\ call' = [call EXCEPT ![Main] = Call("cluster")]
       ELSE stage' = "deep" /\ call' = [call EXCEPT ![Main] = NoCall]
    /\ UNCHANGED <<now, sessions, cluster, resume, budget, coverage, entries, disk, history>>

Todo == {r \in Deep: coverage[r] = "none"}

\* collect_live, one resource of RESOURCE_SPECS at a time.
ReuseSnapshot(r) ==
    /\ resume /\ r \in served.names /\ file[r] # Absent
    /\ coverage' = [coverage EXCEPT ![r] = "AVAILABLE"]
    /\ reused' = reused \cup {r}
    /\ UNCHANGED <<call, file>>

NotServed(r) ==
    /\ r \notin served.names
    /\ coverage' = [coverage EXCEPT ![r] = IF served.state = "AVAILABLE" THEN "N/A" ELSE "PARTIAL"]
    /\ file' = [file EXCEPT ![r] = Empty]
    /\ UNCHANGED <<call, reused>>

ListDeep(r) ==
    /\ r \in served.names /\ ~ (resume /\ file[r] # Absent)
    /\ call' = [call EXCEPT ![Main] = Call(r)]
    /\ UNCHANGED <<coverage, file, reused>>

NextDeep ==
    /\ stage = "deep" /\ call[Main].phase = "free"
    /\ \E r \in Todo: ReuseSnapshot(r) \/ NotServed(r) \/ ListDeep(r)
    /\ UNCHANGED <<control, budget, served, entries, inventory, provenance, asked, steady>>

\* A list kubectl printed may still not parse; what failed is saved as empty.
SaveDeep ==
    LET r == call[Main].target IN
    /\ stage = "deep" /\ call[Main].phase \in {"listed", "failed"}
    /\ \E parses \in {call[Main].phase = "listed", FALSE}:
          /\ coverage' = [coverage EXCEPT ![r] = IF parses THEN "AVAILABLE" ELSE "UNAVAILABLE"]
          /\ file' = [file EXCEPT ![r] = IF parses THEN ListOf(cluster) ELSE Empty]
    /\ call' = [call EXCEPT ![Main] = NoCall]
    /\ UNCHANGED <<control, budget, served, entries, inventory, provenance, history>>

-----------------------------------------------------------------------------
(* collect_universal_inventory                                              *)

Targets == (Others \cap served.names) \ Sensitive
Skipped == Others \cap served.names \cap Sensitive

\* A kept inventory is returned as it is.
KeptInventory == resume /\ inventory # "absent"

BeginUniversal ==
    /\ stage = "deep" /\ call[Main].phase = "free" /\ Todo = {}
    /\ stage' = IF KeptInventory THEN "report" ELSE "universal"
    /\ UNCHANGED <<now, sessions, cluster, resume, budget, call, results, disk, history>>

\* A worker takes the next target of the pool.
Take(w) ==
    /\ stage = "universal" /\ call[w].phase = "free"
    /\ \E r \in Targets:
          /\ entries[r] = "none" /\ \A v \in Workers: call[v].target # r
          /\ call' = [call EXCEPT ![w] = Call(r)]
    /\ UNCHANGED <<control, budget, results, disk, history>>

CollectOne(w) ==
    /\ stage = "universal" /\ call[w].phase \in {"listed", "failed"}
    /\ entries' = [entries EXCEPT ![call[w].target] =
                      IF call[w].phase = "listed" THEN "AVAILABLE" ELSE "UNAVAILABLE"]
    /\ call' = [call EXCEPT ![w] = NoCall]
    /\ UNCHANGED <<control, budget, served, coverage, disk, history>>

\* Fault: only what the policy leaves out makes the inventory partial.
InventoryStateBySkips(states) == IF Skipped # {} THEN "PARTIAL" ELSE "AVAILABLE"
InventoryState(states) ==
    IF Skipped # {} \/ "UNAVAILABLE" \in states THEN "PARTIAL" ELSE "AVAILABLE"

\* The pool is empty: the deep resources that have a name join the entries.
SaveInventory ==
    LET named == {coverage[r]: r \in Deep \cap served.names}
        found == {entries[r]: r \in Targets}
    IN  /\ stage = "universal" /\ \A r \in Targets: entries[r] # "none"
        /\ inventory' = InventoryState(named \cup found)
        /\ stage' = "report"
        /\ UNCHANGED <<now, sessions, cluster, resume, budget, call, results, file, provenance, history>>

\* The report is written, then the hashes of what is on disk.
WriteProvenance ==
    /\ stage = "report"
    /\ provenance' = [cluster |-> cluster, snapshots |-> SnapshotHashes,
                      steady |-> steady /\ (resume => provenance.steady)]
    /\ stage' = "off"
    /\ UNCHANGED <<now, sessions, cluster, resume, budget, call, results, file, inventory, history>>

-----------------------------------------------------------------------------
(* Faults                                                                   *)

\* The process is killed (run_bounded, SIGTERM): the directory stays as it is.
Crash ==
    /\ stage # "off"
    /\ stage' = "off"
    /\ call' = [t \in Threads |-> NoCall]
    /\ Fresh
    /\ UNCHANGED <<now, sessions, cluster, resume, disk>>

\* Somebody points kubectl elsewhere while a session runs: nothing pins it.
SwitchContext ==
    /\ stage # "off" /\ steady
    /\ \E c \in Clusters \ {cluster}: cluster' = c
    /\ steady' = FALSE
    /\ UNCHANGED <<now, sessions, stage, resume, budget, call, results, disk, asked, reused>>

\* Somebody else writes a snapshot between two sessions.
Edit(r) ==
    /\ stage = "off" /\ sessions > 0 /\ file[r] \notin {Absent, Nowhere}
    /\ file' = [file EXCEPT ![r] = Nowhere]
    /\ UNCHANGED <<control, budget, call, results, inventory, provenance, history>>

InventoryNext ==
    \/ StartSession \/ Discover \/ NextDeep \/ SaveDeep
    \/ BeginUniversal \/ SaveInventory \/ WriteProvenance
    \/ \E w \in Workers: Take(w) \/ CollectOne(w)
    \/ \E t \in Threads: Admit(t) \/ Ask(t) \/ Respond(t)
    \/ Tick \/ Crash \/ SwitchContext \/ \E r \in Deep: Edit(r)

InventorySpec == InventoryInit /\ [][InventoryNext]_inventoryVars

-----------------------------------------------------------------------------
(* Properties *)

\* The threads that have a slot of the budget and sleep until it comes.
Asleep == {t \in Threads: call[t].phase = "asleep"}

\* Whatever the threads do, every request has a slot of its own: the slots are a
\* delay apart, nobody asks before its slot has come, so at no time are there more
\* requests than slots that have come; and there are never more slots than the
\* budget allows.  Only the slots are spaced: the sleep is outside the lock, so
\* threads that wake up late may ask together.  before_request, lines 443-461.
SlotsKeepTheirPace ==
    /\ asked + Cardinality(Asleep) = budget.requests /\ budget.requests <= MaxRequests
    /\ \A t \in Asleep: call[t].wake + Delay <= budget.next
    /\ \A t, u \in Asleep: \/ t = u
                           \/ call[t].wake + Delay <= call[u].wake
                           \/ call[u].wake + Delay <= call[t].wake
    /\ asked # 0 => (asked - 1) * Delay <= now - budget.started

\* What a session reuses was saved by a session of the same cluster and scope
\* that came to its end, and nobody touched it since, whatever crashed or was
\* edited in between, as long as nobody switches kubectl's context inside a
\* session.  valid_resume_provenance, README.md:256.
ReusedSnapshotsAreOwn ==
    (stage # "off" /\ steady /\ provenance.steady)
        => \A r \in reused: file[r] \in {Empty, ListOf(cluster)}

\* Without a resumption, a session never calls a list AVAILABLE that it does not
\* have, and never a resource N/A when a scope of the discovery was lost.  When
\* both scopes answered, it calls its inventory AVAILABLE only if no request was
\* refused for number or duration, no list was lost and nothing was left out.  When
\* one was lost the inventory may say AVAILABLE nevertheless, with no entry for
\* that scope (506-509, 603-608).  Lines 473-481, 500-516, 571-608, 634-659.
FreshReportsAreReal ==
    (stage = "report" /\ ~ resume /\ steady) =>
        /\ \A r \in Deep: coverage[r] = "AVAILABLE" => file[r] = ListOf(cluster)
        /\ \A r \in Deep: coverage[r] = "N/A" => served.state = "AVAILABLE" /\ r \notin served.names
        /\ (inventory = "AVAILABLE" /\ served.state = "AVAILABLE")
              => /\ budget.reason = "" \/ budget.reason = "bytes"
                 /\ \A r \in served.names \cap Deep: file[r] = ListOf(cluster)
                 /\ \A r \in served.names \cap Others: entries[r] = "AVAILABLE"

=============================================================================
