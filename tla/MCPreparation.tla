--------------------------- MODULE MCPreparation ---------------------------
(***************************************************************************)
(* Instances of what the cooker does before a task runs: ParserPool (the   *)
(* recipes are parsed) and SceneQueueBuild (the graph of the setscene      *)
(* tasks is built).  They have no variable in common; each behaviour is    *)
(* one of the two, and the other is at its end.                            *)
(***************************************************************************)
EXTENDS SceneQueueBuild, ParserPool, TLC

VARIABLE subject

ASSUME PlansFit == PlansAssumed

NoParsers ==
  /\ plan = (CHOOSE x \in Plans : x.stop) /\ jobs = [p \in Parsers |-> {}]
  /\ phase = [p \in Parsers |-> "dead"] /\ signal = [p \in Parsers |-> "no"]
  /\ buffer = [p \in Parsers |-> <<>>] /\ wlock = None /\ pipe = <<>>
  /\ file = [p \in Parsers |-> "none"]
  /\ quit = TRUE /\ recv = None /\ procs = <<>> /\ closed = Parsers
  /\ parsed = <<>> /\ empty = TRUE /\ state = "stop" /\ fails = TRUE /\ down = TRUE
  /\ i = 1 /\ joined = None
  /\ at = [idle |-> "failed", main |-> "done"]
  /\ killed = 0

\* Tasks that do not depend on one another.
NoGraph ==
  /\ build = [depends |-> [t \in Tasks |-> {}], setscene |-> {}, targets |-> Tasks]
  /\ stage = "done"
  /\ sq_revdeps = [t \in Tasks |-> {}] /\ sq_revdeps_squash = sq_revdeps
  /\ sq_collated_deps = <<>> /\ endpoints = <<>> /\ newendpoints = <<>>
  /\ unskippable = Tasks /\ buildable = Tasks

MCInit ==
  \/ subject = "graph" /\ Init /\ NoParsers
  \/ subject = "parsers" /\ ParseInit /\ NoGraph

MCNext ==
  \/ subject = "graph" /\ Next /\ UNCHANGED <<subject, parseVars>>
  \/ subject = "parsers" /\ ParseNext /\ UNCHANGED <<subject, vars>>

MCSpec ==
  /\ MCInit /\ [][MCNext]_<<subject, vars, parseVars>>
  /\ WF_vars(Next) /\ Fairness

-----------------------------------------------------------------------------
(* All task graphs of five tasks, a task depending on later ones only.     *)

FiveTasks == 1..5
DependsOf ==
  {[t \in Tasks |-> {d \in Tasks : <<t, d>> \in E}] :
     E \in SUBSET {e \in Tasks \X Tasks : e[1] < e[2]}}
Sinks(f) == {t \in Tasks : \A r \in Tasks : t \notin f[r]}

\* prepare() keeps only what the targets depend on: what nothing depends on is a
\* target.
AllInputs ==
  {[depends |-> f, setscene |-> S, targets |-> Sinks(f) \cup T] :
     f \in DependsOf, S \in SUBSET Tasks, T \in {{}, {2}}}
SameRank == [t \in Tasks |-> t]

-----------------------------------------------------------------------------
(* Results are larger than the pipe.  A stop meets one parser with two      *)
(* recipes, or two; a recipe that can not be parsed, or a parser that is   *)
(* killed, two parsers with three recipes.                                 *)

CONSTANTS first, second, r1, r2, r3

Plan(chunk, bad, kills, stop) == [chunk |-> chunk, bad |-> bad, kills |-> kills, stop |-> stop]
TwoAndOne == r1 :> first @@ r2 :> second @@ r3 :> second
SomePlans ==
  {Plan(r1 :> first @@ r2 :> first, {}, 0, TRUE),
   Plan(r1 :> first @@ r2 :> second, {}, 0, TRUE),
   Plan(TwoAndOne, {r3}, 0, FALSE), Plan(TwoAndOne, {}, 1, FALSE)}
=============================================================================
