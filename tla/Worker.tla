------------------------------- MODULE Worker -------------------------------
(***************************************************************************)
(* bitbake-worker (bin/bitbake-worker) between the cooker and the task     *)
(* processes.  The cooker writes commands to its stdin and reads events    *)
(* and exit codes from its stdout; each task writes its events to a pipe   *)
(* of its own.  Every pipe is of finite size, an event may be larger than  *)
(* the pipe, and a task that writes one has all signals blocked.  A task   *)
(* may take for ever, so that the build is stopped by force; the cooker,   *)
(* the worker and any task may be killed.                                  *)
(***************************************************************************)
EXTENDS Integers, Sequences

CONSTANTS
  Tasks,
  Events,   \* that a task fires, the first of them TaskStarted
  Room,     \* halves of a message, or commands, that a pipe holds
  None

ASSUME WorkerAssumption ==
  /\ Events \in Nat /\ Room \in Nat
  /\ "finishnow" \notin Tasks /\ "quit" \notin Tasks
  /\ None \notin Tasks \cup {"finishnow", "quit"}

VARIABLES
  cooker,   \* "up"; "quit": in _teardown_worker; "dead"
  writing,  \* the command it is writing, or None
  todo,     \* tasks not started yet
  forced,   \* finishnow was sent
  got,      \* what the cooker has read of each task
  stdin, out,  \* the pipes between the two
  worker,   \* where the main thread is
  inq,      \* commands it has read and not handled
  tag,      \* kind of command it looks for next in this round
  table,    \* build_pids, build_pipes
  started,  \* tasks forked, in order
  ready,    \* tasks whose pipes select found readable and that are still to be read
  left,     \* tasks that finishnow has still to signal, or whose pipes it has to read
  dying,    \* the main thread kills itself after that
  orphans,  \* tasks that had not asked for a signal when the worker ended
  queue,    \* worker_queue, emptied by the thread that writes to out
  stage,    \* where each task process is
  term,     \* SIGTERM is pending
  wrote,    \* halves of events that it has written to its pipe
  taken,    \* of those, how many are no longer in the pipe
  part      \* first halves that the worker holds, at most 1 as long as nobody else reads

cookerVars == <<cooker, writing, todo, forced, got>>
mainVars == <<worker, inq, tag, table, started, ready, left, dying, orphans>>
childVars == <<stage, term, wrote, taken, part>>
vars == <<cookerVars, stdin, out, mainVars, queue, childVars>>

Grouped == {"leader", "run", "write"}    \* "write": inside worker_child_fire
Alive == {"forked", "tied"} \cup Grouped
Exit == 0                         \* the number of an exit code among those of events
Kind(c) == IF c = "finishnow" THEN 2 ELSE IF c = "quit" THEN 3 ELSE 1
Commands == Tasks \cup {"finishnow", "quit"}

\* The halves of a task's events follow each other, so two numbers say what is in its pipe.
Fired(t) == wrote[t] \div 2       \* events written in full
Seen(t) == taken[t] \div 2        \* those of them that have left the pipe

TypeOK ==
  /\ cooker \in {"up", "quit", "dead"} /\ writing \in Commands \cup {None}
  /\ todo \subseteq Tasks /\ table \subseteq Tasks /\ orphans \subseteq Tasks
  /\ ready \subseteq Tasks /\ left \subseteq Tasks
  /\ forced \in BOOLEAN /\ dying \in BOOLEAN /\ tag \in 1..4
  /\ got \in [Tasks -> Seq(0..Events)]
  /\ out \in Seq(Tasks \X (0..Events))
  /\ queue \in Seq(Tasks \X (0..Events))
  /\ stdin \in Seq(Commands) /\ inq \in Seq(Commands)
  /\ started \in Seq(Tasks)
  /\ worker \in {"select", "items", "pipes", "reap", "signal", "wait", "drain", "join", "dead"}
  /\ stage \in [Tasks -> Alive \cup {"none", "zombie", "gone"}]
  /\ term \in [Tasks -> BOOLEAN] /\ part \in [Tasks -> 0..2]
  /\ wrote \in [Tasks -> 0..(2 * Events)] /\ taken \in [Tasks -> 0..(2 * Events)]

Init ==
  /\ cooker = "up" /\ writing = None /\ todo = Tasks /\ forced = FALSE
  /\ got = [t \in Tasks |-> <<>>]
  /\ stdin = <<>> /\ out = <<>>
  /\ worker = "select" /\ inq = <<>> /\ tag = 1 /\ table = {} /\ started = <<>>
  /\ ready = {} /\ left = {} /\ dying = FALSE /\ orphans = {} /\ queue = <<>>
  /\ stage = [t \in Tasks |-> "none"] /\ term = [t \in Tasks |-> FALSE]
  /\ wrote = [t \in Tasks |-> 0] /\ taken = [t \in Tasks |-> 0]
  /\ part = [t \in Tasks |-> 0]

-----------------------------------------------------------------------------
(* The cooker.  It does not read while it writes.                          *)

Reported(t) == \E i \in DOMAIN got[t] : got[t][i] = Exit

Writes(c) == cooker = "up" /\ writing = None /\ writing' = c
Rest == UNCHANGED <<got, stdin, out, mainVars, queue, childVars>>

RunTask ==
  /\ ~forced
  /\ \E t \in todo : Writes(t) /\ todo' = todo \ {t}
  /\ Rest /\ UNCHANGED <<cooker, forced>>

FinishNow ==
  /\ ~forced /\ Writes("finishnow")
  /\ forced' = TRUE
  /\ Rest /\ UNCHANGED <<cooker, todo>>

\* _teardown_worker, when nothing is active or after finish_now().
Quit ==
  /\ forced \/ \A t \in Tasks \ todo : Reported(t)
  /\ Writes("quit")
  /\ cooker' = "quit"
  /\ Rest /\ UNCHANGED <<todo, forced>>

\* The write ends, or fails because the worker is dead.
Written ==
  /\ writing # None /\ (Len(stdin) < Room \/ worker = "dead")
  /\ stdin' = IF worker = "dead" THEN stdin ELSE Append(stdin, writing)
  /\ writing' = None
  /\ UNCHANGED <<cooker, todo, forced, got, out, mainVars, queue, childVars>>

Read ==
  /\ cooker # "dead" /\ writing = None /\ out # <<>>
  /\ LET m == Head(out) IN got' = [got EXCEPT ![m[1]] = Append(@, m[2])]
  /\ out' = Tail(out)
  /\ UNCHANGED <<cooker, writing, todo, forced, stdin, mainVars, queue, childVars>>

CookerKilled ==
  /\ cooker # "dead"
  /\ cooker' = "dead" /\ writing' = None
  /\ Rest /\ UNCHANGED <<todo, forced>>

Cooker == Written \/ Read
Closed == cooker = "dead" \/ (cooker = "quit" /\ writing = None)

-----------------------------------------------------------------------------
(* The worker's main thread: serve()                                       *)

Goes(place) == worker' = place
Outside == UNCHANGED <<cookerVars, out, orphans>>

Untied == {t \in Tasks : stage[t] = "forked"}

\* Mutant: no task is told.
DiesQuietly ==
  /\ Goes("dead") /\ orphans' = Untied
  /\ UNCHANGED term

\* The worker is gone: tasks that asked for it get SIGTERM (signal_on_parent_exit).
Dies ==
  /\ Goes("dead") /\ orphans' = Untied
  /\ term' = [t \in Tasks |-> term[t] \/ stage[t] \in {"tied"} \cup Grouped]

\* handle_finishnow begins.
Finishing(die) == Goes("signal") /\ left' = table /\ dying' = die

\* Which pipes are readable, and reading stdin: commands, or the end of file, which is
\* taken for SIGTERM.
Select ==
  /\ worker = "select"
  /\ tag' = 1 /\ ready' = {t \in table : taken[t] < wrote[t]}
  /\ \/ /\ stdin # <<>> /\ Goes("items")
        /\ inq' = inq \o stdin /\ stdin' = <<>>
        /\ UNCHANGED <<left, dying>>
     \/ /\ stdin = <<>> /\ Closed
        /\ Finishing(TRUE)
        /\ UNCHANGED <<inq, stdin>>
     \/ /\ stdin = <<>> /\ ~Closed /\ Goes("items")
        /\ UNCHANGED <<inq, stdin, left, dying>>
  /\ Outside /\ UNCHANGED <<table, started, queue, childVars>>

\* handle_item: the command at the head, if its kind is still to come in this round.
Due(c) == inq # <<>> /\ Head(inq) = c /\ Kind(c) >= tag
Handles(c) ==
  /\ worker = "items" /\ Due(c)
  /\ inq' = Tail(inq) /\ tag' = Kind(c) + 1
  /\ Outside /\ UNCHANGED <<ready, stdin, queue, wrote, taken, part>>

HandleRunTask(t) ==
  /\ Handles(t)
  /\ stage' = [stage EXCEPT ![t] = "forked"]
  /\ table' = table \cup {t} /\ started' = Append(started, t)
  /\ UNCHANGED <<worker, left, dying, term>>

HandleFinishNow ==
  /\ Handles("finishnow")
  /\ Finishing(FALSE)
  /\ UNCHANGED <<table, started, stage, term>>

\* sys.exit(0): what is in the queue is still written.
HandleQuit ==
  /\ Handles("quit")
  /\ Goes("join")
  /\ UNCHANGED <<table, started, left, dying, stage, term>>

ItemsDone ==
  /\ worker = "items" /\ \A c \in Commands : ~Due(c)
  /\ Goes("pipes")
  /\ Outside /\ UNCHANGED <<inq, tag, table, started, ready, left, dying, stdin, queue,
                            childVars>>

\* runQueueWorkerPipe.read(): whole events go into the queue, a first half is kept.  An
\* event that does not begin where it should fails the assertion and ends the worker.
WholeEvents(t) == [i \in 1..(Fired(t) - Seen(t)) |-> <<t, Seen(t) + i>>]
Garbled(t) == Seen(t) < Fired(t) /\ part[t] + (IF taken[t] % 2 = 0 THEN 1 ELSE 0) # 1

ReadPipe(t, then) ==
  IF Garbled(t) THEN Goes("join") /\ UNCHANGED <<queue, taken, part>>
  ELSE /\ queue' = queue \o WholeEvents(t) \o then
       /\ taken' = [taken EXCEPT ![t] = wrote[t]]
       /\ part' = [part EXCEPT ![t] = IF Seen(t) < Fired(t) THEN wrote[t] % 2
                                      ELSE IF taken[t] < wrote[t] /\ @ < 2 THEN @ + 1 ELSE @]
       /\ UNCHANGED worker

Pipes(t) ==
  /\ worker = "pipes" /\ t \in ready
  /\ ReadPipe(t, <<>>)
  /\ ready' = ready \ {t}
  /\ Outside /\ UNCHANGED <<inq, tag, table, started, left, dying, stdin, stage, term, wrote>>

PipesDone ==
  /\ worker = "pipes" /\ ready = {}
  /\ Goes("reap")
  /\ Outside /\ UNCHANGED <<inq, tag, table, started, ready, left, dying, stdin, queue,
                            childVars>>

\* Mutant: the pipe is closed without being emptied.
ReapAtOnce(t) ==
  /\ worker = "reap" /\ stage[t] = "zombie"
  /\ stage' = [stage EXCEPT ![t] = "gone"]
  /\ table' = table \ {t}
  /\ queue' = Append(queue, <<t, Exit>>)
  /\ Outside /\ UNCHANGED <<worker, inq, tag, started, ready, left, dying, stdin, term, wrote,
                            taken, part>>

\* process_waitpid: what is left in the pipe, then the exit code.
Reap(t) ==
  /\ worker = "reap" /\ stage[t] = "zombie"
  /\ stage' = [stage EXCEPT ![t] = "gone"]
  /\ table' = table \ {t}
  /\ ReadPipe(t, <<<<t, Exit>>>>)
  /\ Outside /\ UNCHANGED <<inq, tag, started, ready, left, dying, stdin, term, wrote>>

Reaped ==
  /\ worker = "reap"
  /\ \A t \in Tasks : stage[t] # "zombie"
  /\ Goes("select")
  /\ Outside /\ UNCHANGED <<inq, tag, table, started, ready, left, dying, stdin, queue,
                            childVars>>

-----------------------------------------------------------------------------
(* handle_finishnow, perhaps called by sigterm_exception                   *)

\* Tasks forked later have the read end open, too.
Later(t) == {u \in Tasks : \E i, j \in DOMAIN started :
               i < j /\ started[i] = t /\ started[j] = u}
Before(t) == {u \in Tasks : t \in Later(u)}
Turn(t) == t \in left /\ left \cap Before(t) = {}     \* the tables keep the order

\* os.kill fails for a process that has no group yet or is not there any more; otherwise
\* the worker waits for the end of any child.
SignalNext(t) ==
  /\ worker = "signal" /\ Turn(t)
  /\ left' = left \ {t}
  /\ IF stage[t] \in Grouped \cup {"zombie"}
     THEN Goes("wait") /\ term' = [term EXCEPT ![t] = stage[t] # "zombie"]
     ELSE UNCHANGED <<worker, term>>
  /\ Outside /\ UNCHANGED <<inq, tag, table, started, ready, dying, stdin, queue, stage, wrote,
                            taken, part>>

\* The exit code is dropped, the entry in the table stays.
WaitAny(t) ==
  /\ worker = "wait" /\ stage[t] = "zombie"
  /\ stage' = [stage EXCEPT ![t] = "gone"]
  /\ Goes("signal")
  /\ Outside /\ UNCHANGED <<inq, tag, table, started, ready, left, dying, stdin, queue, term,
                            wrote, taken, part>>

SignalsDone ==
  /\ worker = "signal" /\ left = {}
  /\ Goes("drain") /\ left' = table
  /\ Outside /\ UNCHANGED <<inq, tag, table, started, ready, dying, stdin, queue, childVars>>

DrainNext(t) ==
  /\ worker = "drain" /\ Turn(t)
  /\ ReadPipe(t, <<>>)
  /\ left' = left \ {t}
  /\ Outside /\ UNCHANGED <<inq, tag, table, started, ready, dying, stdin, stage, term, wrote>>

Finished ==
  /\ worker = "drain" /\ left = {}
  /\ IF dying THEN Dies ELSE Goes("items") /\ UNCHANGED <<term, orphans>>
  /\ UNCHANGED <<cookerVars, out, inq, tag, table, started, ready, left, dying, stdin, queue,
                 stage, wrote, taken, part>>

\* The main thread waits for the other one before the process ends.
Join ==
  /\ worker = "join" /\ queue = <<>>
  /\ Dies
  /\ UNCHANGED <<cookerVars, out, inq, tag, table, started, ready, left, dying, stdin, queue,
                 stage, wrote, taken, part>>

WorkerKilled ==
  /\ worker # "dead"
  /\ Dies /\ dying' = TRUE
  /\ UNCHANGED <<cookerVars, out, inq, tag, table, started, ready, left, stdin, queue, stage,
                 wrote, taken, part>>

Main ==
  \/ Select \/ HandleFinishNow \/ HandleQuit \/ ItemsDone \/ PipesDone \/ Reaped
  \/ SignalsDone \/ Finished \/ Join
  \/ \E t \in Tasks : \/ HandleRunTask(t) \/ Pipes(t) \/ Reap(t)
                       \/ SignalNext(t) \/ WaitAny(t) \/ DrainNext(t)

\* worker_flush, the other thread.  Nothing can be written to a dead cooker, and it is
\* tried again and again.
Flush ==
  /\ queue # <<>> /\ worker # "dead" /\ cooker # "dead" /\ Len(out) < Room
  /\ out' = Append(out, Head(queue)) /\ queue' = Tail(queue)
  /\ UNCHANGED <<cookerVars, stdin, mainVars, childVars>>

-----------------------------------------------------------------------------
(* A task process: child() of fork_off_task                                *)

Becomes(t, place) == stage' = [stage EXCEPT ![t] = place]
Elsewhere == UNCHANGED <<cookerVars, stdin, out, mainVars, queue, part>>

\* prctl, setsid and the signal handlers, one after the other.
Boot(t) ==
  /\ \/ stage[t] = "forked" /\ Becomes(t, "tied")
     \/ stage[t] = "tied" /\ Becomes(t, "leader")
     \/ stage[t] = "leader" /\ Becomes(t, "run")
  /\ Elsewhere /\ UNCHANGED <<term, wrote, taken>>

\* worker_child_fire blocks all signals.
Fire(t) ==
  /\ stage[t] = "run" /\ Fired(t) < Events
  /\ Becomes(t, "write")
  /\ Elsewhere /\ UNCHANGED <<term, wrote, taken>>

Reader(t) == worker # "dead" \/ \E u \in Later(t) : stage[u] \in Alive

\* write() waits for room, or fails if nobody reads, which ends the process.
WriteHalf(t) ==
  /\ stage[t] = "write"
  /\ IF Reader(t)
     THEN /\ wrote[t] - taken[t] < Room
          /\ wrote' = [wrote EXCEPT ![t] = @ + 1]
          /\ Becomes(t, IF wrote[t] % 2 = 0 THEN "write" ELSE "run")
     ELSE Becomes(t, "zombie") /\ UNCHANGED wrote
  /\ Elsewhere /\ UNCHANGED <<term, taken>>

End(t) ==
  /\ stage[t] = "run" /\ Fired(t) > 0
  /\ Becomes(t, "zombie")
  /\ Elsewhere /\ UNCHANGED <<term, wrote, taken>>

TaskKilled(t) ==
  /\ stage[t] \in Alive
  /\ Becomes(t, "zombie")
  /\ Elsewhere /\ UNCHANGED <<term, wrote, taken>>

\* SIGTERM is handled once it is not blocked.  Before the task has its own handler the
\* worker's runs in it, on the table of the moment of the fork: it signals those tasks
\* and empties their pipes.
Terminated(t) ==
  /\ term[t] /\ stage[t] \in {"tied", "leader", "run"}
  /\ Becomes(t, "zombie")
  /\ IF stage[t] = "run" THEN UNCHANGED <<term, taken>>
     ELSE /\ term' = [u \in Tasks |-> term[u] \/ (u \in Before(t) /\ stage[u] \in Grouped)]
          /\ taken' = [u \in Tasks |-> IF u \in Before(t) THEN wrote[u] ELSE taken[u]]
  /\ Elsewhere /\ UNCHANGED wrote

\* What a task does in any case: it gets as far as TaskStarted, ends a write, and
\* handles a signal.
Child(t) == Boot(t) \/ (Fire(t) /\ Fired(t) = 0) \/ WriteHalf(t) \/ Terminated(t)

-----------------------------------------------------------------------------
Next ==
  \/ RunTask \/ FinishNow \/ Quit \/ Cooker \/ CookerKilled
  \/ Main \/ Flush \/ WorkerKilled
  \/ \E t \in Tasks : Child(t) \/ Fire(t) \/ End(t) \/ TaskKilled(t)

\* Threads and processes run; a task need not end and the user need not do anything.
Fairness ==
  /\ WF_vars(Cooker) /\ WF_vars(Main) /\ WF_vars(Flush)
  /\ \A t \in Tasks : WF_vars(Child(t))

Spec == Init /\ [][Next]_vars
FairSpec == Spec /\ Fairness

-----------------------------------------------------------------------------
(* Properties                                                              *)

Calm == ~forced /\ ~dying /\ cooker # "dead"

\* What has been passed on of task t, in order, with messages of others in between.
Passed(t) == [i \in DOMAIN got[t] |-> <<t, got[t][i]>>] \o out \o queue
Carried(t) == {n \in 0..Events : \E i \in DOMAIN Passed(t) : Passed(t)[i] = <<t, n>>}

\* m may be passed on before n: of a task, events come in order and the exit code last.
Precedes(m, n) == m[1] = n[1] => m[2] # Exit /\ (n[2] = Exit \/ m[2] < n[2])
Orderly(s) == \A i, j \in DOMAIN s : i < j => Precedes(s[i], s[j])

\* What the worker passes on of a task: its events, whole and in order, and after them,
\* at most once, its exit code; as long as nobody is stopped by force none is left out,
\* and all the events the task has written come before its exit code (process_waitpid
\* empties the pipe first).
EventsThenExit ==
  \A t \in Tasks :
    /\ Orderly(Passed(t))
    /\ Calm => \E n \in 0..Events : /\ Carried(t) \ {Exit} = 1..n
                                    /\ Exit \in Carried(t) => n = Fired(t)

\* Unless something is stopped by force, the exit code of a task that has ended is
\* read, and a worker that is told to quit ends: no pipe that is full keeps cooker,
\* worker and tasks waiting for one another.  And no task outlives the worker, if it had
\* the time to ask for a signal: a task that does not get it while it writes to its pipe
\* notices that nobody reads.
NobodyStuck ==
  /\ \A t \in Tasks : stage[t] = "zombie" ~> (Reported(t) \/ ~Calm)
  /\ Closed ~> (worker = "dead" \/ ~Calm)
  /\ worker = "dead" /\ orphans = {} ~> \A t \in Tasks : stage[t] \notin Alive

\* "Stop the cooker" (stateForceShutdown, lib/bb/command.py:180): after finishnow and
\* quit the worker ends, on which the cooker waits.
ForcedStopEnds == (forced /\ Closed /\ cooker = "quit") ~> (worker = "dead" \/ cooker = "dead")
=============================================================================
