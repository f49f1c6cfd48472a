----------------------------- MODULE BuildOrder -----------------------------
(***************************************************************************)
(* What a run queue promises, whatever its scheduler, its cache and its    *)
(* workers do: a task starts only when all it depends on is done, executes *)
(* at most once, is done only after it has ended or without executing at   *)
(* all, and at most Limit processes exist at a time.                       *)
(*                                                                         *)
(* A process is <<"run", t>> or <<"setscene", t>>; restoring a task from   *)
(* shared state needs no task to be done.                                  *)
(***************************************************************************)
EXTENDS Naturals, FiniteSets

CONSTANTS
  Tasks,
  Depends,    \* [Tasks -> SUBSET Tasks]
  Setscene,   \* the tasks that can be restored
  Limit       \* processes at a time

VARIABLES
  started,    \* tasks taken up
  done,       \* tasks others may rely on
  processes

orderVars == <<started, done, processes>>

Ready(t) == t \notin started /\ Depends[t] \subseteq done
HasRoom == Cardinality(processes) < Limit

Execute(t) ==
  /\ Ready(t) /\ HasRoom
  /\ started' = started \cup {t}
  /\ processes' = processes \cup {<<"run", t>>}
  /\ UNCHANGED done

Restore(t) ==
  /\ HasRoom /\ <<"setscene", t>> \notin processes
  /\ <<"run", t>> \notin processes
  /\ processes' = processes \cup {<<"setscene", t>>}
  /\ UNCHANGED <<started, done>>

\* Processes end, all of them at once when the build is stopped.
End(S) == processes' = processes \ S /\ UNCHANGED <<started, done>>

Finish(t) ==
  /\ t \in started \ done /\ <<"run", t>> \notin processes
  /\ done' = done \cup {t}
  /\ UNCHANGED <<started, processes>>

\* A task that is up to date, covered by shared state or has nothing to execute.
Skip(t) ==
  /\ Ready(t)
  /\ started' = started \cup {t} /\ done' = done \cup {t}
  /\ UNCHANGED processes

Init == started = {} /\ done = {} /\ processes = {}

Next ==
  \/ \E t \in Tasks : Execute(t) \/ Finish(t) \/ Skip(t)
  \/ \E t \in Setscene : Restore(t)
  \/ \E S \in SUBSET processes : End(S)

Spec == Init /\ [][Next]_orderVars
=============================================================================
