----------------------------- MODULE SceneGraph -----------------------------
(***************************************************************************)
(* The static half of a build: the task graph RunQueueData.prepare() hands *)
(* to the executor, and the collapsed "setscene" graph that                *)
(* build_scenequeue_data() derives from it.                                *)
(*                                                                         *)
(* The definitions below say WHAT the collapse computes; the module        *)
(* SceneQueueBuild models HOW the code computes it, and shows that the two *)
(* agree.                                                                  *)
(***************************************************************************)
EXTENDS Integers, FiniteSets, Sequences

CONSTANTS
  Tasks,      \* rqdata.runtaskentries: the task ids of the build
  Depends,    \* [Tasks -> SUBSET Tasks], runtaskentries[tid].depends
  Setscene,   \* rqdata.runq_setscene_tids: tasks with a _setscene variant
  Targets,    \* rqdata.target_tids
  HardDeps,   \* [Setscene -> SUBSET Setscene], sqdata.sq_harddeps_rev
  Rank        \* [Tasks -> Nat], the order Python's sorted() gives task ids

\* prepare() leaves a graph whose edges stay inside the build.
ASSUME GraphAssumption ==
  /\ Depends \in [Tasks -> SUBSET Tasks]
  /\ Setscene \subseteq Tasks
  /\ Targets \subseteq Tasks
  /\ HardDeps \in [Setscene -> SUBSET Setscene]
  /\ Rank \in [Tasks -> Nat]

\* runtaskentries[tid].revdeps
RevDeps(t) == {r \in Tasks : t \in Depends[r]}

\* A build has finitely many tasks, and prepare() refuses a graph with a cycle: each set
\* of tasks has one on which no other of it depends, and one that depends on no other.
ASSUME AcyclicAssumption ==
  /\ IsFiniteSet(Tasks)
  /\ \A S \in SUBSET Tasks : S # {} =>
       /\ \E t \in S : RevDeps(t) \cap S = {}
       /\ \E t \in S : Depends[t] \cap S = {}

\* Every task that depends on t, directly or not.
Dependents[t \in Tasks] ==
  RevDeps(t) \cup UNION {Dependents[r] : r \in RevDeps(t)}

\* The setscene tasks above t with no other setscene task in between.
Owners[t \in Tasks] ==
  UNION {IF r \in Setscene THEN {r} ELSE Owners[r] : r \in RevDeps(t)}

\* sqdata.sq_revdeps: the setscene tasks that would need the output of s.
SqRevdeps(s) == Owners[s]

\* sqdata.sq_covered_tasks: the ordinary tasks that restoring s makes needless.
SqCovered(s) == {t \in Tasks \ Setscene : s \in Owners[t]}

\* Targets without a setscene variant always have to be visited.
Cantskip == Targets \ Setscene

\* sqdata.unskippable: what the build's endpoints reach without passing through
\* a setscene task, the first setscene task on each path included.
IsUnskippable[t \in Tasks] ==
  \/ RevDeps(t) = {}
  \/ t \in Cantskip
  \/ \E r \in RevDeps(t) \ Setscene : IsUnskippable[r]

Unskippable == {t \in Tasks : IsUnskippable[t]}

\* Leaf tasks the collapse marks as buildable at once: no setscene task is in
\* their chain.
InitiallyBuildable == {t \in Unskippable \ Setscene : Depends[t] = {}}

\* The first of a non-empty set of task ids in sorted() order.
FirstOf(S) == CHOOSE t \in S : \A u \in S : Rank[t] <= Rank[u]
=============================================================================
