-------------------------- MODULE SceneQueueBuild --------------------------
(***************************************************************************)
(* build_scenequeue_data(): how the task graph is collapsed into the one   *)
(* of setscene tasks. Sets of setscene tasks are pushed down from batch to *)
(* batch of "endpoints", in the order of a dict, and a point can come up   *)
(* several times with more to push each time; then the tasks the build can *)
(* not skip are collected in passes. The collapse is right if it computes  *)
(* what module SceneGraph defines, for every graph.                        *)
(***************************************************************************)
EXTENDS Naturals, FiniteSets

CONSTANTS
  Tasks,
  Inputs,     \* the builds: [depends : Tasks -> SUBSET Tasks,
              \*   setscene : SUBSET Tasks, targets : SUBSET Tasks]
  TaskRank    \* [Tasks -> Nat], needed by SceneGraph only

\* What RunQueueData.prepare() leaves: edges stay inside the build, and there is no cycle:
\* each set of tasks has one on which no other of it depends.
ASSUME InputAssumption ==
  /\ \A b \in Inputs : /\ b.depends \in [Tasks -> SUBSET Tasks]
                        /\ b.setscene \subseteq Tasks /\ b.targets \subseteq Tasks
  /\ \A f \in {b.depends : b \in Inputs} : \A S \in SUBSET Tasks : S # {} =>
       \E t \in S : \A r \in S : t \notin f[r]

VARIABLES
  build,                \* the member of Inputs at hand
  stage,                \* "chains", "unskippable", "check", "done", "fatal"
  endpoints,            \* the points of this batch not yet processed
  newendpoints,         \* those of the next batch
  sq_revdeps,           \* reverse dependencies not yet processed
  sq_revdeps_squash,    \* task |-> setscene tasks on their way down
  sq_collated_deps,     \* sqdata.sq_covered_tasks
  unskippable,
  buildable             \* sqrq.runq_buildable

chainVars == <<endpoints, newendpoints, sq_revdeps, sq_revdeps_squash,
               sq_collated_deps>>
vars == <<build, stage, chainVars, unskippable, buildable>>

DependsOn(t) == build.depends[t]
Setscene == build.setscene
RevDepsIn(b, t) == {r \in Tasks : t \in b.depends[r]}

\* What there is to compute.
Graph == INSTANCE SceneGraph WITH
           Depends <- build.depends, Setscene <- Setscene, Targets <- build.targets,
           HardDeps <- [t \in Setscene |-> {}], Rank <- TaskRank

Roots(b) == {t \in Tasks : RevDepsIn(b, t) = {}}
Cantskip(b) == b.targets \ b.setscene

Init ==
  /\ build \in Inputs
  /\ stage = "chains"
  /\ sq_revdeps = [t \in Tasks |-> RevDepsIn(build, t) \ build.setscene]
  /\ sq_revdeps_squash = [t \in Tasks |-> {}]
  /\ sq_collated_deps = [t \in build.setscene |-> {}]
  /\ endpoints = [t \in (Roots(build) \ build.setscene)
                          \cup UNION {build.depends[s] : s \in build.setscene} |->
                    RevDepsIn(build, t) \cap build.setscene]
  /\ newendpoints = <<>>
  /\ unskippable = Roots(build) \cup Cantskip(build)
  /\ buildable = {}

\* Mutant: what came down in the meantime is forgotten.
CarriedOnce(p) == endpoints[p]

\* "tasks": what the point was listed with, and what has come down to it since.
Carried(p) == endpoints[p] \cup sq_revdeps_squash[p]

\* Mutant: an ordinary task keeps what it has passed on.
KeptAlways(p) == Carried(p)

\* What stays at the point.
Kept(p) == IF p \in Setscene THEN Carried(p) ELSE {}

\* What is now depended on by no unprocessed task.
Freed(p) == {d \in DependsOn(p) \ Setscene : sq_revdeps[d] \ {p} = {}}

\* process_endpoints for one point: a setscene task keeps what comes down, an
\* ordinary one passes it on.
ProcessPoint(p) ==
  /\ stage = "chains" /\ p \in DOMAIN endpoints
  /\ endpoints' = [t \in DOMAIN endpoints \ {p} |-> endpoints[t]]
  /\ IF p \in Setscene
     THEN /\ sq_revdeps_squash' = [sq_revdeps_squash EXCEPT ![p] = Kept(p)]
          /\ UNCHANGED <<newendpoints, sq_revdeps, sq_collated_deps>>
     ELSE /\ sq_collated_deps' =
               [t \in Setscene |-> sq_collated_deps[t] \cup
                                     IF t \in Carried(p) THEN {p} ELSE {}]
          /\ sq_revdeps_squash' =
               [t \in Tasks |-> IF t = p THEN Kept(p)
                                ELSE sq_revdeps_squash[t] \cup
                                     IF t \in DependsOn(p) THEN Carried(p) ELSE {}]
          /\ sq_revdeps' =
               [t \in Tasks |-> IF t \in DependsOn(p) THEN sq_revdeps[t] \ {p}
                                ELSE sq_revdeps[t]]
          /\ newendpoints' =
               [d \in DOMAIN newendpoints \cup Freed(p) |->
                  IF d \in Freed(p) THEN endpoints[p] ELSE newendpoints[d]]
  /\ UNCHANGED <<build, stage, unskippable, buildable>>

\* The recursive call with the next batch, or the end of the recursion.
NextBatch ==
  /\ stage = "chains" /\ DOMAIN endpoints = {}
  /\ endpoints' = newendpoints /\ newendpoints' = <<>>
  /\ stage' = IF DOMAIN newendpoints = {} THEN "unskippable" ELSE "chains"
  /\ UNCHANGED <<build, sq_revdeps, sq_revdeps_squash, sq_collated_deps,
                 unskippable, buildable>>

\* One pass of the "while new" loop: what ordinary unskippable tasks depend on is
\* unskippable, until a pass adds nothing.
Pass ==
  LET open == unskippable \ Setscene IN
  /\ stage = "unskippable"
  /\ unskippable' = unskippable \cup UNION {DependsOn(t) : t \in open}
  /\ buildable' = buildable \cup {t \in open : DependsOn(t) = {}}
  /\ stage' = IF unskippable' = unskippable THEN "check" ELSE "unskippable"
  /\ UNCHANGED <<build, chainVars>>

\* "Something went badly wrong during scenequeue generation, halting."
SanityCheck ==
  /\ stage = "check"
  /\ stage' = IF \E t \in Tasks \ Setscene : sq_revdeps_squash[t] # {}
              THEN "fatal" ELSE "done"
  /\ UNCHANGED <<build, chainVars, unskippable, buildable>>

Done == stage \in {"done", "fatal"} /\ UNCHANGED vars

Next ==
  \/ \E p \in Tasks : ProcessPoint(p)
  \/ NextBatch \/ Pass \/ SanityCheck \/ Done

Spec == Init /\ [][Next]_vars /\ WF_vars(Next)
-----------------------------------------------------------------------------
\* The batches come to an end although points are queued again, and the sanity check
\* behind them never stops a build: no setscene task is left halfway down.
Collapses == <>(stage = "done")

\* Whatever the order, the collapsed graph is the one module SceneGraph defines:
\* the run queue decides with it what needs to be restored and what is covered.
Collapsed ==
  stage = "done" =>
    /\ \A t \in Setscene : /\ sq_revdeps_squash[t] = Graph!SqRevdeps(t)
                           /\ sq_collated_deps[t] = Graph!SqCovered(t)
    /\ unskippable = Graph!Unskippable
    /\ buildable = Graph!InitiallyBuildable
=============================================================================
