--------------------------- MODULE CollectorPlan ---------------------------
(***************************************************************************)
(* collector_registry.py: load_registry and build_plan.  A registry entry  *)
(* is reduced to what planning reads: its dependencies, whether it is      *)
(* required, and whether the channel and the enabled features offer it.    *)
(***************************************************************************)
EXTENDS Naturals, FiniteSets

Refused == [ok |-> FALSE, plan |-> {}]
Accepted(plan) == [ok |-> TRUE, plan |-> plan]

(* load_registry: ids are unique (a set here), dependencies are known ids. *)
WellFormed(registry) ==
    \A c \in registry.ids: registry.deps[c] \subseteq registry.ids

(* required collectors of the channel cannot be left out. *)
RequiredIds(registry) == registry.required \cap registry.available

Seeds(registry, include, exclude) ==
    (IF include = {} THEN registry.available
     ELSE RequiredIds(registry) \cup (include \cap registry.available)) \ exclude

AddDirectDependencies(registry, seeds) ==
    seeds \cup UNION {registry.deps[c]: c \in seeds}

(* add_dependencies: a dependency already selected is not followed again.  *)
(* The k-th set holds what k rounds of recursion have selected.            *)
AddDependencies(registry, seeds) ==
    LET selected[k \in 0 .. Cardinality(registry.ids)] ==
            IF k = 0 THEN seeds
            ELSE selected[k-1] \cup UNION {registry.deps[c]: c \in selected[k-1]}
    IN  selected[Cardinality(registry.ids)]

(* build_plan. The trail can never close a cycle: recursion goes on only    *)
(* into a dependency that was not selected, and the trail is selected.      *)
BuildPlan(registry, include, exclude) ==
    LET seeds == Seeds(registry, include, exclude)
        plan == AddDependencies(registry, seeds)
        needed == UNION {registry.deps[c]: c \in plan}
    IN  IF \/ ~ (include \cup exclude \subseteq registry.ids)           \* unknown
           \/ ~ (include \subseteq registry.available)                  \* unavailable
           \/ RequiredIds(registry) \cap exclude # {}                   \* forbidden
           \/ ~ (needed \subseteq registry.available \ exclude)         \* dependency missing
        THEN Refused
        ELSE Accepted(plan)

----------------------------------------------------------------------------
ClosedUnderDeps(registry, plan) == \A c \in plan: registry.deps[c] \subseteq plan

Admissible(registry, include, exclude) ==
    {plan \in SUBSET (registry.available \ exclude):
        Seeds(registry, include, exclude) \subseteq plan /\ ClosedUnderDeps(registry, plan)}

(* What build_plan promises, stated without its algorithm: the plan is the   *)
(* smallest set of offered collectors that holds what was asked for and is   *)
(* closed under dependencies, and it refuses only when there is none, or     *)
(* when the request names a collector it may not name.                       *)
PlanIsLeast(registry, include, exclude, answer) ==
    LET plans == Admissible(registry, include, exclude)
    IN  IF answer.ok
        THEN answer.plan \in plans /\ \A plan \in plans: answer.plan \subseteq plan
        ELSE \/ plans = {}
             \/ ~ (include \subseteq registry.available)
             \/ ~ (exclude \subseteq registry.ids \ RequiredIds(registry))
============================================================================
