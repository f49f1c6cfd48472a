------------------------------ MODULE RunQueue ------------------------------
(***************************************************************************)
(* BitBake's run queue (lib/bb/runqueue.py): the cooker's idle loop calls  *)
(* execute_runqueue() over and over; each call reads what bitbake-worker   *)
(* sent, reacts to changed hashes, looks for a setscene task to start,     *)
(* settles what is covered, and starts or skips at most one ordinary task. *)
(* The worker runs the tasks it was given and reports hashes and exits.    *)
(*                                                                         *)
(* The cooker is one thread; pc says where in the loop it is, so that the  *)
(* worker's steps, and a user's request to stop, fall between its own.     *)
(***************************************************************************)
EXTENDS SceneQueue

CONSTANTS
  NumberTasks,    \* BB_NUMBER_THREADS
  Modes,          \* the ways bitbake may be invoked, see ModeType
  IgnoreTasks,    \* tasks BB_SETSCENE_ENFORCE_IGNORE_TASKS matches
  NumberThreads,  \* [Tasks -> Nat], flag number_threads of its name (0: none)
  InitStamps,     \* the sets of stamp files the build may start with
  InitSstate,     \* the sets of shared state objects it may start with
  MaxFail,        \* bound: tasks that may fail
  MaxRehash,      \* bound: hash changes the worker may report
  MaxCrash,       \* bound: unexpected exits of the worker
  Requests,       \* what the user may ask for: subset of {"shutdown", "force"}
  ActiveFloor     \* bound: where the counter stats.active stops falling

\* halt: no -k; force: -f; skip, only: --skip-setscene, --setscene-only;
\* enforce: BB_SETSCENE_ENFORCE = "1".
ModeType == [halt : BOOLEAN, force : BOOLEAN, skip : BOOLEAN, only : BOOLEAN,
             enforce : BOOLEAN]

ASSUME RunAssumption ==
  /\ NumberTasks \in Nat \ {0}
  /\ Modes \subseteq ModeType
  /\ IgnoreTasks \subseteq Tasks
  /\ NumberThreads \in [Tasks -> Nat]
  /\ {MaxFail, MaxRehash, MaxCrash, ActiveFloor} \subseteq Nat
  /\ Requests \subseteq {"shutdown", "force"}

VARIABLES
  pc,                    \* where the cooker's thread is
  reading,               \* who called read_workers
  state,                 \* RunQueue.state
  outcome,               \* how the idle function ended
  scene,                 \* the record of module SceneQueue
  sq_live, sqdone,
  tasks_covered, tasks_notcovered, holdoff_tasks,
  runq_buildable, runq_running, runq_complete, runq_tasksrun,
  active,                \* stats.active
  failed_tids,
  build_stamps,          \* task |-> the stamp file it will write
  sq_stamps,             \* sqdata.stamps
  unihash, updated_taskhash_queue, pending_migrations,
  files,                 \* stamp files on disk
  sstate,                \* objects in the shared state cache
  worker,                \* "up", "dead" (exited unexpectedly), "exited"
  commands,              \* subset of {"finishnow", "quit"} not yet handled
  jobs,                  \* task processes of the worker
  pipe,                  \* messages from the worker not yet read
  mode,                  \* cooker.configuration of this build
  request,               \* what the user asked for
  budget                 \* bounded counters of the environment

sceneVars == <<scene, sq_live, sqdone, sq_stamps>>
coverVars == <<tasks_covered, tasks_notcovered, holdoff_tasks>>
runqVars == <<runq_buildable, runq_running, runq_complete, runq_tasksrun>>
hashVars == <<unihash, updated_taskhash_queue, pending_migrations>>
diskVars == <<files, sstate>>
workerVars == <<worker, commands, jobs, pipe>>
controlVars == <<pc, reading, state, outcome>>
countVars == <<active, failed_tids, build_stamps>>
envVars == <<mode, request, budget>>
vars == <<sceneVars, coverVars, runqVars, hashVars, diskVars, workerVars,
          controlVars, countVars, envVars>>

None == "none"

\* A file of build_stamps or sqdata.stamps, read as a set of values.
ValuesOf(f) == {f[t] : t \in DOMAIN f}

CanStartTask == active + Cardinality(sq_live) < NumberTasks

\* RunQueueStats: the counter falls by one (down to a bound of the model).
Decremented(n) == IF n > -ActiveFloor THEN n - 1 ELSE n

Settled == {t \in Setscene : SettledByStamps(files, t, unihash)}

-----------------------------------------------------------------------------
(* Methods several actions call.                                           *)

\* The end of a step that hands over to another part of the loop.
Goto(label) == pc' = label /\ UNCHANGED <<reading, outcome>>

\* finish_now: the worker is told to kill its tasks, the state is final.
FinishNow ==
  /\ state' = IF failed_tids # {} THEN "Failed" ELSE "Complete"
  /\ commands' = IF worker = "up" THEN commands \cup {"finishnow"} ELSE commands

\* Mutant: one complete dependency is enough.
CompleteOutrightAnyDep(t, extra, disk) ==
  /\ runq_complete' = runq_complete \cup {t}
  /\ runq_buildable' = runq_buildable \cup extra \cup (RevDeps(t) \ runq_running)
  /\ files' = StampNoExec(disk, Released(scene, t), unihash)
  /\ scene' = ReleaseDeferred(scene, t, disk, unihash, sstate)

\* task_completeoutright for t, with the disk as it then is. "extra" is what the
\* caller marks buildable itself.
CompleteOutright(t, extra, disk) ==
  /\ runq_complete' = runq_complete \cup {t}
  /\ runq_buildable' = runq_buildable \cup extra \cup
       {r \in RevDeps(t) : /\ r \notin runq_running
                           /\ Depends[r] \subseteq runq_complete \cup {t}}
  /\ files' = StampNoExec(disk, Released(scene, t), unihash)
  /\ scene' = ReleaseDeferred(scene, t, disk, unihash, sstate)

\* Mutants: the failed task is not recorded; it stays counted as active; the build
\* is stopped although it was asked to go on.
TaskFailUnrecorded(t) ==
  /\ active' = Decremented(active)
  /\ state' = IF mode.halt THEN "CleanUp" ELSE state
  /\ UNCHANGED failed_tids
TaskFailActive(t) ==
  /\ failed_tids' = failed_tids \cup {t}
  /\ state' = IF mode.halt THEN "CleanUp" ELSE state
  /\ UNCHANGED active
TaskFailHalts(t) ==
  /\ active' = Decremented(active)
  /\ failed_tids' = failed_tids \cup {t}
  /\ state' = "CleanUp"

\* task_fail
TaskFail(t) ==
  /\ active' = Decremented(active)
  /\ failed_tids' = failed_tids \cup {t}
  /\ state' = IF mode.halt THEN "CleanUp" ELSE state

\* The worker gets a runtask message and forks the task.
Send(t, kind) ==
  /\ jobs' = jobs \cup {[tid |-> t, kind |-> kind, hash |-> unihash[t],
                         said |-> FALSE]}
  /\ build_stamps' = [u \in DOMAIN build_stamps \cup {t} |->
                        IF u = t THEN StampFile(t, kind, unihash)
                        ELSE build_stamps[u]]

\* Writing to a worker that is gone raises BrokenPipeError; execute_runqueue
\* catches it, tears the workers down and lets it end the idle function.
BrokenPipe ==
  /\ worker = "dead"
  /\ pc' = "done" /\ outcome' = "exception"
  /\ state' = "Complete"
  /\ worker' = "exited"
  /\ UNCHANGED <<reading, commands, jobs, pipe>>

-----------------------------------------------------------------------------
(* The idle function: buildTargetsIdle and _execute_runqueue.              *)

\* SceneInit: build the executor, start the worker, run the first execute().
SceneInit ==
  /\ pc = "init" /\ request = None
  /\ files' = StampNoExec(files, Setscene, InitHash)
  /\ scene' = InitialScene(files', sstate)
  /\ runq_buildable' = InitiallyBuildable \cup
       IF Setscene = {} THEN {t \in Tasks : Depends[t] = {}} ELSE {}
  /\ tasks_notcovered' = IF Setscene = {} THEN Tasks ELSE {}
  /\ sqdone' = (Setscene = {})
  /\ state' = "Running" /\ worker' = "up"
  /\ pc' = "poll" /\ reading' = "top"
  /\ UNCHANGED <<sq_live, sq_stamps, tasks_covered, holdoff_tasks, runq_running,
                 runq_complete, runq_tasksrun, hashVars, sstate, commands, jobs,
                 pipe, outcome, countVars, envVars>>

\* A request that comes before there is an executor ends the build.
StopBeforeInit ==
  /\ pc = "init" /\ request # None
  /\ state' = "Complete" /\ pc' = "done" /\ outcome' = "complete"
  /\ UNCHANGED <<reading, sceneVars, coverVars, runqVars, hashVars, diskVars,
                 workerVars, countVars, envVars>>

\* buildTargetsIdle looks at the user's request, then calls execute_runqueue.
IdleForce ==
  /\ pc = "idle" /\ request = "force"
  /\ FinishNow
  /\ Goto("build_done")
  /\ UNCHANGED <<sceneVars, coverVars, runqVars, hashVars, diskVars, worker,
                 jobs, pipe, countVars, envVars>>

IdleShutdown ==
  /\ pc = "idle" /\ request = "shutdown"
  /\ Goto("finish")
  /\ UNCHANGED <<state, sceneVars, coverVars, runqVars, hashVars, diskVars,
                 workerVars, countVars, envVars>>

Idle ==
  /\ pc = "idle" /\ request = None
  /\ pc' = IF state = "Running" THEN "poll" ELSE "finish"
  /\ reading' = "top"
  /\ UNCHANGED <<state, outcome, sceneVars, coverVars, runqVars, hashVars,
                 diskVars, workerVars, countVars, envVars>>

\* execute() has returned; in state CleanUp finish() is called at once.
AfterExecute ==
  /\ pc = "after"
  /\ Goto(IF state = "CleanUp" THEN "finish" ELSE "build_done")
  /\ UNCHANGED <<state, sceneVars, coverVars, runqVars, hashVars, diskVars,
                 workerVars, countVars, envVars>>

\* Mutant: waits for ordinary tasks only.
FinishEarly ==
  /\ pc = "finish"
  /\ IF active > 0
     THEN state' = "CleanUp" /\ pc' = "poll" /\ reading' = "finish"
     ELSE /\ state' = IF failed_tids # {} THEN "Failed" ELSE "Complete"
          /\ pc' = "build_done" /\ reading' = reading
  /\ UNCHANGED <<outcome, sceneVars, coverVars, runqVars, hashVars, diskVars,
                 workerVars, countVars, envVars>>

\* RunQueueExecute.finish: wait while tasks are active, else the verdict.
Finish ==
  /\ pc = "finish"
  /\ IF active + Cardinality(sq_live) > 0
     THEN /\ state' = "CleanUp"
          /\ pc' = "poll" /\ reading' = "finish"
     ELSE /\ state' = IF failed_tids # {} THEN "Failed" ELSE "Complete"
          /\ pc' = "build_done" /\ reading' = reading
  /\ UNCHANGED <<outcome, sceneVars, coverVars, runqVars, hashVars, diskVars,
                 workerVars, countVars, envVars>>

\* A final state tears the workers down; another one returns to the idle loop.
\* Without workers active_fds() is the empty list, which buildTargetsIdle takes
\* for the end of the build.
BuildDone ==
  /\ pc = "build_done"
  /\ IF state \in {"Complete", "Failed"}
     THEN /\ commands' = IF worker = "up" THEN commands \cup {"quit"} ELSE commands
          /\ pc' = "read" /\ reading' = "teardown" /\ outcome' = outcome
     ELSE /\ commands' = commands /\ reading' = reading
          /\ pc' = IF worker = "exited" THEN "done" ELSE "idle"
          /\ outcome' = IF worker = "exited" THEN "lost" ELSE outcome
  /\ UNCHANGED <<state, sceneVars, coverVars, runqVars, hashVars, diskVars,
                 worker, jobs, pipe, countVars, envVars>>

\* After the teardown: TaskFailure, False, or one more round, because an exit
\* code read during the teardown can set the state back to CleanUp.
Return ==
  /\ pc = "return"
  /\ pc' = IF state = "CleanUp" THEN "idle" ELSE "done"
  /\ outcome' = CASE state = "Failed" -> "failed"
                  [] state = "Complete" -> "complete"
                  [] OTHER -> outcome
  /\ UNCHANGED <<reading, state, sceneVars, coverVars, runqVars, hashVars,
                 diskVars, workerVars, countVars, envVars>>

-----------------------------------------------------------------------------
(* read_workers and runqueue_process_waitpid.                              *)

\* Each read first polls the process; an unexpected exit ends the build, but the
\* caller goes on with what it was doing.
Poll ==
  /\ pc = "poll"
  /\ IF worker = "dead" THEN FinishNow ELSE UNCHANGED <<state, commands>>
  /\ Goto("read")
  /\ UNCHANGED <<sceneVars, coverVars, runqVars, hashVars, diskVars, worker,
                 jobs, pipe, countVars, envVars>>

\* Mutant: the pair is queued the wrong way round.
ReadEventSwapped ==
  /\ pc = "read" /\ pipe # <<>> /\ Head(pipe).type = "event"
  /\ pipe' = Tail(pipe)
  /\ updated_taskhash_queue' = updated_taskhash_queue \cup
                                 {<<Head(pipe).hash, Head(pipe).tid>>}
  /\ UNCHANGED <<controlVars, sceneVars, coverVars, runqVars, unihash,
                 pending_migrations, diskVars, worker, commands, jobs,
                 countVars, envVars>>

\* A taskUniHashUpdate event.
ReadEvent ==
  /\ pc = "read" /\ pipe # <<>> /\ Head(pipe).type = "event"
  /\ pipe' = Tail(pipe)
  /\ updated_taskhash_queue' = updated_taskhash_queue \cup
                                 {<<Head(pipe).tid, Head(pipe).hash>>}
  /\ UNCHANGED <<controlVars, sceneVars, coverVars, runqVars, unihash,
                 pending_migrations, diskVars, worker, commands, jobs,
                 countVars, envVars>>

\* What the exit of any task does before its result is looked at.
Exited(t, ok) ==
  /\ pc = "read" /\ pipe # <<>>
  /\ Head(pipe) = [type |-> "exit", tid |-> t, ok |-> ok]
  /\ pipe' = Tail(pipe)
  /\ build_stamps' = Without(build_stamps, {t})

\* Mutant: a task restored stays listed as live.
ReadSetsceneExitLive(t, ok) ==
  /\ Exited(t, ok) /\ t \in sq_live
  /\ scene' = IF ok THEN CoverScene(scene, {t})
              ELSE FailScene(scene, {t}, FALSE, Settled)
  /\ UNCHANGED <<controlVars, sq_live, sqdone, sq_stamps, coverVars, runqVars,
                 hashVars, diskVars, worker, commands, jobs, active, failed_tids,
                 envVars>>

\* sq_task_complete and sq_task_fail
ReadSetsceneExit(t, ok) ==
  /\ Exited(t, ok) /\ t \in sq_live
  /\ sq_live' = sq_live \ {t}
  /\ scene' = IF ok THEN CoverScene(scene, {t})
              ELSE FailScene(scene, {t}, FALSE, Settled)
  /\ state' = IF ~ok /\ mode.enforce /\ t \notin IgnoreTasks THEN "CleanUp" ELSE state
  /\ UNCHANGED <<pc, reading, outcome, sqdone, sq_stamps, coverVars, runqVars,
                 hashVars, diskVars, worker, commands, jobs, active, failed_tids,
                 envVars>>

\* task_complete
ReadSuccess(t) ==
  /\ Exited(t, TRUE) /\ t \notin sq_live
  /\ CompleteOutright(t, {}, files)
  /\ runq_tasksrun' = runq_tasksrun \cup {t}
  /\ active' = Decremented(active)
  /\ UNCHANGED <<controlVars, sq_live, sqdone, sq_stamps, coverVars,
                 runq_running, hashVars, sstate, worker, commands, jobs,
                 failed_tids, envVars>>

\* task_fail
ReadFailure(t) ==
  /\ Exited(t, FALSE) /\ t \notin sq_live
  /\ TaskFail(t)
  /\ UNCHANGED <<pc, reading, outcome, sceneVars, coverVars, runqVars, hashVars,
                 diskVars, worker, commands, jobs, envVars>>

\* Nothing left to read. A teardown reads until the worker has exited.
ReadDone ==
  /\ pc = "read" /\ pipe = <<>>
  /\ reading = "teardown" => worker # "up"
  /\ Goto(CASE reading = "top" -> "migrate"
            [] reading = "tail" -> "after"
            [] reading = "finish" -> "build_done"
            [] reading = "teardown" -> "return")
  /\ worker' = IF reading = "teardown" THEN "exited" ELSE worker
  /\ UNCHANGED <<state, sceneVars, coverVars, runqVars, hashVars, diskVars,
                 commands, jobs, pipe, countVars, envVars>>

-----------------------------------------------------------------------------
(* process_possible_migrations: changed hashes.                            *)

Busy(t) == t \in runq_running \ runq_complete

\* The reports that can be taken up: those of tasks not running any more. (The
\* order of the list matters only if a task is reported and deferred behind
\* another reported one at the same time; either order is allowed then.)
Reports == {e \in updated_taskhash_queue : ~Busy(e[1])}
News == {e \in Reports : e[2] # unihash[e[1]]}
Retold(t) ==
  {e[2] : e \in {e \in News : \/ e[1] = t
                              \/ t \in DOMAIN scene.deferred /\ scene.deferred[t] = e[1]}}
ToProcess == {t \in Tasks : Retold(t) # {}}

\* The tasks above, whose hashes are computed again.
Rehashed == UNION {Dependents[t] : t \in ToProcess}

\* Mutant: restored tasks are hashed again too.
OpenAll == Rehashed

\* Those that can change: tasks restored or being restored keep their hashes.
Open == Rehashed \ (scene.covered \cup sq_live)

\* The possible outcomes: the hash server may map a new task hash to any unihash.
NewHashes ==
  {[t \in Tasks |-> IF t \in Open THEN computed[t]
                    ELSE IF t \in ToProcess THEN told[t] ELSE unihash[t]] :
     computed \in [Open -> Hashes],
     told \in {m \in [ToProcess -> Hashes] : \A t \in ToProcess : m[t] \in Retold(t)}}

\* "changed": tasks whose computed hash is not the one they had (or were told).
Changed(uh) ==
  {t \in Open : IF t \in ToProcess THEN uh[t] \notin Retold(t) ELSE uh[t] # unihash[t]}

\* Mutant: a migration does not wait for the tasks covered.
ReadyAtOnce(uh) == {t \in pending_migrations \cup (Changed(uh) \cap Setscene) :
                      t \notin runq_running \cup sq_live}

\* pending_migrations without the tasks it is too late for, and those of them
\* no running task stands in the way of.
Pending(uh) == {t \in pending_migrations \cup (Changed(uh) \cap Setscene) :
                  t \notin runq_running \cup sq_live}
Ready(uh) == {t \in Pending(uh) : \A d \in SqCovered(t) : ~Busy(d)}

\* A task t covers was counted complete without running: t can not be taken back.
TooLate(t) == \E d \in SqCovered(t) : d \in runq_complete /\ d \notin runq_tasksrun

Reset(s, R) ==
  [s EXCEPT
     !.done = @ \ (R \cup {d \in UNION {SqCovered(t) : t \in R} :
                             d \notin runq_complete /\ d \notin Unskippable}),
     !.buildable = @ \ R, !.running = @ \ R, !.outright = @ \ R,
     !.notcovered = @ \ R, !.covered = @ \ R, !.notneeded = @ \ R]

HardDepFail(s, t) == HardDeps[t] \cap s.notcovered # {}

\* The reset tasks start over: buildable where the rest of the scene allows it,
\* deferred behind the task that had their new hash at the start of the build,
\* skipped by stamps, or failed because a hard dependency has failed.
Restart(s0, R, uh, disk) ==
  LET s == Reset(s0, R)
      failed == {t \in R : HardDepFail(s, t)}
      s1 == [s EXCEPT
               !.buildable = @ \cup {t \in R : \/ SqRevdeps(t) = {}
                                               \/ /\ t \notin failed
                                                  /\ SqRevdeps(t) \subseteq Resolved(s)},
               !.deferred =
                 [t \in DOMAIN @ \cup {u \in R : /\ Sharing(PendingIndex(u, uh[u])) # {}
                                                 /\ Leader(PendingIndex(u, uh[u])) # u} |->
                    IF t \in R /\ Sharing(PendingIndex(t, uh[t])) # {}
                         /\ Leader(PendingIndex(t, uh[t])) # t
                    THEN Leader(PendingIndex(t, uh[t])) ELSE @[t]]]
      s2 == UpdateScene(s1, R, disk, uh, sstate)
      settled == {t \in Setscene : SettledByStamps(disk, t, uh)}
  IN IF failed = {} THEN s2 ELSE FailScene(s2, failed, TRUE, settled)

NoMigrations ==
  /\ pc = "migrate" /\ updated_taskhash_queue = {} /\ pending_migrations = {}
  /\ Goto("setscene")
  /\ UNCHANGED <<state, sceneVars, coverVars, runqVars, hashVars, diskVars,
                 workerVars, countVars, envVars>>

\* (The method gives up with "marked as completed but now needing to rerun" if a
\* task of R is TooLate; NeverTooLate of module RunQueueProps says none ever is.)
Migrate(uh) ==
  LET R == Ready(uh) IN
  /\ pc = "migrate"
  /\ updated_taskhash_queue # {} \/ pending_migrations # {}
  /\ unihash' = uh
  /\ updated_taskhash_queue' = updated_taskhash_queue \ Reports
  /\ pending_migrations' = Pending(uh) \ R
  /\ files' = StampNoExec(files, R, uh)
  /\ scene' = IF R = {} /\ Changed(uh) = {} THEN scene
              ELSE [Restart(scene, R, uh, files')
                      EXCEPT !.needed = {}, !.parked = {}, !.dirty = TRUE]
  /\ sqdone' = (sqdone /\ R = {})
  /\ sq_stamps' = [t \in Setscene |-> IF t \in R THEN StampFile(t, "run", uh)
                                      ELSE sq_stamps[t]]
  /\ build_stamps' = Without(build_stamps, R)
  /\ Goto("setscene")
  /\ UNCHANGED <<state, sq_live, coverVars, runqVars, sstate, workerVars, active,
                 failed_tids, envVars>>

-----------------------------------------------------------------------------
(* The search for a setscene task to start.                                *)

\* Tasks the scan does not pass over at its first test.
Candidates ==
  {t \in scene.buildable \ (scene.running \cup scene.parked) :
     /\ sq_stamps[t] \notin ValuesOf(build_stamps)
     /\ t \in DOMAIN scene.deferred => scene.deferred[t] \in runq_complete}

\* Mutant: does not look at how the tasks that would use t were settled.
MaybeNotNeededByAny(t) ==
  /\ t \notin Unskippable \cup scene.needed \cup Targets
  /\ SqRevdeps(t) # {}

\* Everything that would use t has been restored. Whether it then needs t is for
\* BB_SETSCENE_DEPVALID to say, an external function that may say either.
MaybeNotNeeded(t) ==
  /\ t \notin Unskippable \cup scene.needed \cup Targets
  /\ SqRevdeps(t) # {} /\ SqRevdeps(t) \subseteq scene.covered

HardDepsPending(t) == ~(HardDeps[t] \subseteq Resolved(scene))

\* The scan only runs while a task could be started; it reaches t before it
\* returns.
Scanned(t) == pc = "setscene" /\ ~sqdone /\ CanStartTask /\ t \in Candidates

ScanEnds ==
  /\ pc = "setscene"
  /\ sqdone \/ ~CanStartTask \/ Candidates = {}
  /\ Goto("holdoff")
  /\ UNCHANGED <<state, sceneVars, coverVars, runqVars, hashVars, diskVars,
                 workerVars, countVars, envVars>>

\* What the disjuncts below leave alone.
OnlyScene == UNCHANGED <<reading, outcome, state, sqdone, sq_stamps, coverVars,
                         runqVars, hashVars, sstate, worker, commands, pipe,
                         active, failed_tids, envVars>>

\* t is no longer waiting for another task's object.
Undeferred(s, t) == [s EXCEPT !.deferred = Without(@, {t})]

ScanSkipsUnneeded(t) ==
  /\ Scanned(t) /\ MaybeNotNeeded(t)
  /\ scene' = [Undeferred(SkipScene(scene, {t}), t) EXCEPT !.notneeded = @ \cup {t}]
  /\ pc' = "after"
  /\ OnlyScene /\ UNCHANGED <<sq_live, files, jobs, build_stamps>>

\* Hard dependencies are brought forward; if none is new the scan goes on.
ScanParks(t) ==
  /\ Scanned(t) /\ HardDepsPending(t)
  /\ scene' = [scene EXCEPT !.buildable = @ \cup (HardDeps[t] \ scene.needed),
                            !.needed = @ \cup HardDeps[t],
                            !.parked = @ \cup {t}]
  /\ pc' = IF HardDeps[t] \subseteq scene.needed THEN "setscene" ELSE "after"
  /\ OnlyScene /\ UNCHANGED <<sq_live, files, jobs, build_stamps>>

\* A task that had been deferred gets a second look at the cache.
StillMissing(t) == /\ t \in DOMAIN scene.deferred
                   /\ SstateObject(t, unihash[t]) \notin sstate
\* Mutant: bitbake -f is left to the hashes.
HopelessUnforced(t) ==
  \/ StillMissing(t)
  \/ t \in scene.outright
  \/ StampCurrentDeep(files, t, unihash)
  \/ mode.skip /\ ~SetsceneStampCurrent(files, t, unihash)

\* No object to restore from, a current stamp of the task itself, or the user's
\* wish: the task will not be restored.
Hopeless(t) ==
  \/ StillMissing(t)
  \/ t \in scene.outright
  \/ StampCurrentDeep(files, t, unihash)
  \/ mode.force /\ t \in Targets
  \/ mode.skip /\ ~SetsceneStampCurrent(files, t, unihash)

ScanFails(t) ==
  /\ Scanned(t) /\ ~HardDepsPending(t) /\ Hopeless(t)
  /\ scene' = FailScene(Undeferred(scene, t), {t}, TRUE, Settled)
  /\ pc' = "after"
  /\ OnlyScene /\ UNCHANGED <<sq_live, files, jobs, build_stamps>>

ScanSkipsStamped(t) ==
  /\ Scanned(t) /\ ~HardDepsPending(t) /\ ~Hopeless(t)
  /\ SetsceneStampCurrent(files, t, unihash)
  /\ scene' = SkipScene(Undeferred(scene, t), {t})
  /\ pc' = "after"
  /\ OnlyScene /\ UNCHANGED <<sq_live, files, jobs, build_stamps>>

ScanLaunches(t) ==
  /\ Scanned(t) /\ ~HardDepsPending(t) /\ ~Hopeless(t)
  /\ ~SetsceneStampCurrent(files, t, unihash)
  /\ UNCHANGED <<reading, sqdone, sq_stamps, coverVars, runqVars, hashVars,
                 diskVars, active, failed_tids, envVars>>
  /\ \/ /\ worker = "up"
        /\ Send(t, "setscene")
        /\ scene' = [Undeferred(scene, t) EXCEPT !.running = @ \cup {t}]
        /\ sq_live' = sq_live \cup {t}
        /\ pc' = IF active + Cardinality(sq_live') < NumberTasks
                 THEN "after" ELSE "holdoff"
        /\ UNCHANGED <<state, outcome, worker, commands, pipe>>
     \/ /\ BrokenPipe
        /\ scene' = Undeferred(scene, t)
        /\ UNCHANGED <<sq_live, build_stamps>>

-----------------------------------------------------------------------------
(* update_holdofftasks, and the end of the setscene half.                  *)

NotCovered ==
  scene.done \cap
    (scene.notcovered \cup Cantskip \cup (Unskippable \ Setscene)
       \cup UNION {SqCovered(t) : t \in scene.notcovered})
Covered ==
  (scene.done \cap
    (scene.covered \cup UNION {SqCovered(t) : t \in scene.covered})) \ NotCovered

UpdateHoldoff ==
  LET open == Setscene \ Resolved(scene) IN
  /\ pc = "holdoff" /\ scene.dirty
  /\ tasks_notcovered' = NotCovered
  /\ tasks_covered' = Covered
  /\ runq_buildable' = runq_buildable \cup
       {t \in NotCovered \cup Covered : Depends[t] \subseteq runq_complete}
  /\ holdoff_tasks' = open \cup {d \in UNION {SqCovered(t) : t \in open} :
                                   d \notin runq_complete}
  /\ scene' = [scene EXCEPT !.dirty = FALSE]
  /\ UNCHANGED <<sq_live, sqdone, sq_stamps, runq_running, runq_complete,
                 runq_tasksrun, hashVars, diskVars, workerVars, controlVars,
                 countVars, envVars>>

\* summarise_scenequeue_errors
SceneErrors ==
  \/ DOMAIN scene.deferred # {} \/ updated_taskhash_queue # {} \/ holdoff_tasks # {}
  \/ \E t \in Setscene : ~(t \in Resolved(scene) /\ t \in scene.buildable
                                                 /\ t \in scene.running)
  \/ \E t \in Tasks : \/ t \notin tasks_covered \cup tasks_notcovered
                      \/ t \notin scene.done
                      \/ Depends[t] = {} /\ t \notin runq_buildable

SceneFinished ==
  /\ sq_live = {} /\ ~sqdone /\ DOMAIN scene.deferred = {}
  /\ updated_taskhash_queue = {} /\ holdoff_tasks = {}

\* (A build of no tasks at all is complete before there is an executor.)
SettleScene ==
  /\ pc = "holdoff" /\ ~scene.dirty
  /\ IF ~SceneFinished
     THEN pc' = "sched" /\ UNCHANGED <<state, sqdone>>
     ELSE IF SceneErrors
     THEN pc' = "after" /\ state' = "Failed" /\ UNCHANGED sqdone
     ELSE IF mode.only
     THEN pc' = "after" /\ state' = "Complete" /\ UNCHANGED sqdone
     ELSE sqdone' = TRUE /\ pc' = "sched" /\ UNCHANGED state
  /\ UNCHANGED <<reading, outcome, scene, sq_live, sq_stamps, coverVars, runqVars,
                 hashVars, diskVars, workerVars, countVars, envVars>>

-----------------------------------------------------------------------------
(* The scheduler, and the one ordinary task execute() deals with.          *)

\* The scheduler's stamp names are those of the start of the build.
SchedStamp(t) == StampFile(t, "run", InitHash)

\* number_threads: tasks of the same name started and not complete.
ThreadsExceeded(t) ==
  /\ NumberThreads[t] > 0
  /\ Cardinality({r \in Tasks : Busy(r) /\ TaskName[r] = TaskName[t]})
       >= NumberThreads[t]

\* Mutant: does not look for a running task with the same stamp.
RunnableSameStamp ==
  {t \in (runq_buildable \ (runq_running \cup holdoff_tasks))
            \cap (tasks_covered \cup tasks_notcovered) : ~ThreadsExceeded(t)}

\* What next_buildable_task chooses from; which one depends on the scheduler.
Runnable ==
  {t \in (runq_buildable \ (runq_running \cup holdoff_tasks))
            \cap (tasks_covered \cup tasks_notcovered) :
     /\ SchedStamp(t) \notin ValuesOf(build_stamps)
     /\ ~ThreadsExceeded(t)}

Scheduled(t) == pc = "sched" /\ ~mode.only /\ CanStartTask /\ t \in Runnable

\* No task, or none while the system is under pressure: exceeds_max_pressure is
\* asked only if some task is active.
SchedNothing ==
  /\ pc = "sched"
  /\ mode.only \/ ~CanStartTask \/ Runnable = {} \/ active # 0
  /\ Goto("tail")
  /\ UNCHANGED <<state, sceneVars, coverVars, runqVars, hashVars, diskVars,
                 workerVars, countVars, envVars>>

\* check_setscene_ignore_tasks
Unexpected(t) ==
  /\ mode.enforce /\ t \notin IgnoreTasks \cup tasks_covered \cup NoExec
  /\ ~StampCurrent(files, t, unihash)

\* Left as it is, the task stays buildable and has never been active.
SchedRefuses(t) ==
  /\ Scheduled(t) /\ Unexpected(t)
  /\ TaskFail(t)
  /\ Goto("after")
  /\ UNCHANGED <<sceneVars, coverVars, runqVars, hashVars, diskVars, workerVars,
                 build_stamps, envVars>>

Finishes(t) ==
  /\ runq_running' = runq_running \cup {t}
  /\ Goto("after")
  /\ UNCHANGED <<state, sq_live, sqdone, sq_stamps, coverVars, hashVars, sstate,
                 workerVars, countVars, envVars>>

\* task_skip: a covered task, or one with a current stamp.
SchedSkips(t) ==
  /\ Scheduled(t) /\ ~Unexpected(t)
  /\ t \in tasks_covered \/ StampCurrent(files, t, unihash)
  /\ CompleteOutright(t, {t}, files)
  /\ runq_tasksrun' = IF t \in tasks_covered THEN runq_tasksrun
                      ELSE runq_tasksrun \cup {t}
  /\ Finishes(t)

\* A noexec task only gets its stamp.
SchedNoExec(t) ==
  /\ Scheduled(t) /\ t \in NoExec
  /\ t \notin tasks_covered /\ ~StampCurrent(files, t, unihash)
  /\ CompleteOutright(t, {}, IF mode.enforce THEN files
                             ELSE MakeStamp(files, t, "run", unihash[t]))
  /\ runq_tasksrun' = runq_tasksrun \cup {t}
  /\ Finishes(t)

SchedLaunches(t) ==
  /\ Scheduled(t) /\ ~Unexpected(t)
  /\ t \notin tasks_covered \cup NoExec /\ ~StampCurrent(files, t, unihash)
  /\ UNCHANGED <<reading, sceneVars, coverVars, runq_buildable, runq_complete,
                 runq_tasksrun, hashVars, diskVars, failed_tids, envVars>>
  /\ \/ /\ worker = "up"
        /\ Send(t, "run")
        /\ runq_running' = runq_running \cup {t}
        /\ active' = active + 1
        /\ pc' = IF active' + Cardinality(sq_live) < NumberTasks
                 THEN "after" ELSE "tail"
        /\ UNCHANGED <<state, outcome, worker, commands, pipe>>
     \/ BrokenPipe /\ UNCHANGED <<runq_running, active, build_stamps>>

\* Something is active: read and wait.
TailWaits ==
  /\ pc = "tail" /\ (active > 0 \/ sq_live # {})
  /\ pc' = "poll" /\ reading' = "tail"
  /\ UNCHANGED <<state, outcome, sceneVars, coverVars, runqVars, hashVars,
                 diskVars, workerVars, countVars, envVars>>

\* Mutant: does not wait for ordinary tasks.
TailStopsBusy == pc = "tail" /\ sq_live = {}

TailStops == pc = "tail" /\ active <= 0 /\ sq_live = {}

\* "Runqueue deadlocked on deferred tasks, forcing task"
TailForces(t) ==
  /\ TailStops /\ t \in DOMAIN scene.deferred
  /\ scene' = Undeferred(scene, t)
  /\ Goto("after")
  /\ UNCHANGED <<state, sq_live, sqdone, sq_stamps, coverVars, runqVars, hashVars,
                 diskVars, workerVars, countVars, envVars>>

\* "never buildable", "never ran", "never completed"
NeverRan == \E t \in Tasks : ~(t \in runq_buildable \cap runq_running \cap runq_complete)

TailEnds ==
  /\ TailStops /\ DOMAIN scene.deferred = {}
  /\ state' = IF failed_tids # {} \/ SceneErrors \/ NeverRan
              THEN "Failed" ELSE "Complete"
  /\ Goto("after")
  /\ UNCHANGED <<sceneVars, coverVars, runqVars, hashVars, diskVars, workerVars,
                 countVars, envVars>>

-----------------------------------------------------------------------------
(* bitbake-worker and its tasks, and the user.                             *)

OnlyWorker == UNCHANGED <<controlVars, sceneVars, coverVars, runqVars, hashVars,
                          countVars>>

\* sstate_report_unihash: a setscene-able task that ran for real learns from the
\* hash server that its output has another unihash.
JobReports(j, h) ==
  /\ j \in jobs /\ worker = "up" /\ budget.rehash < MaxRehash
  /\ j.kind = "run" /\ j.tid \in Setscene /\ ~j.said /\ ~mode.enforce /\ h # j.hash
  /\ jobs' = (jobs \ {j}) \cup {[j EXCEPT !.hash = h, !.said = TRUE]}
  /\ pipe' = Append(pipe, [type |-> "event", tid |-> j.tid, hash |-> h])
  /\ budget' = [budget EXCEPT !.rehash = @ + 1]
  /\ OnlyWorker /\ UNCHANGED <<diskVars, worker, commands, mode, request>>

\* A task process ends: stamp and shared state object are written first, and only
\* on success. Under BB_SETSCENE_ENFORCE ordinary tasks are a dry run.
JobEnds(j, ok) ==
  /\ j \in jobs
  /\ ok \/ budget.fail < MaxFail
  /\ jobs' = jobs \ {j}
  /\ pipe' = IF worker = "up"
             THEN Append(pipe, [type |-> "exit", tid |-> j.tid, ok |-> ok])
             ELSE pipe
  /\ IF ok /\ ~(j.kind = "run" /\ mode.enforce)
     THEN /\ files' = IF j.tid \in Nostamp THEN files
                      ELSE MakeStamp(files, j.tid, j.kind, j.hash)
          /\ sstate' = IF j.kind = "run" /\ j.tid \in Setscene
                       THEN sstate \cup {SstateObject(j.tid, j.hash)} ELSE sstate
     ELSE UNCHANGED diskVars
  /\ budget' = IF ok THEN budget ELSE [budget EXCEPT !.fail = @ + 1]
  /\ OnlyWorker /\ UNCHANGED <<worker, commands, mode, request>>

\* handle_finishnow: kill the tasks and reap them; no exit code is sent.
WorkerFinishesNow ==
  /\ worker = "up" /\ "finishnow" \in commands
  /\ jobs' = {} /\ commands' = commands \ {"finishnow"}
  /\ OnlyWorker /\ UNCHANGED <<diskVars, worker, pipe, envVars>>

\* handle_quit; commands are handled in order.
WorkerQuits ==
  /\ worker = "up" /\ commands = {"quit"}
  /\ worker' = "exited" /\ commands' = {}
  /\ OnlyWorker /\ UNCHANGED <<diskVars, jobs, pipe, envVars>>

WorkerDies ==
  /\ worker = "up" /\ budget.crash < MaxCrash
  /\ worker' = "dead" /\ commands' = {}
  /\ budget' = [budget EXCEPT !.crash = @ + 1]
  /\ OnlyWorker /\ UNCHANGED <<diskVars, jobs, pipe, mode, request>>

\* command.stateShutdown, command.stateForceShutdown
UserStops(r) ==
  /\ r \in Requests /\ pc # "done"
  /\ request = None \/ (request = "shutdown" /\ r = "force")
  /\ request' = r
  /\ UNCHANGED <<controlVars, sceneVars, coverVars, runqVars, hashVars, diskVars,
                 workerVars, countVars, mode, budget>>

-----------------------------------------------------------------------------
\* prepare() taints the hashes of forced targets: no stamp bears the new ones.
AtStart(S) == {f \in S : ~(mode.force /\ \E t \in Targets : f[1] = StampName[t])}

Init ==
  /\ mode \in Modes
  /\ pc = "init" /\ reading = "top" /\ state = "SceneInit" /\ outcome = None
  /\ scene = [buildable |-> {}, running |-> {}, covered |-> {}, notcovered |-> {},
              notneeded |-> {}, done |-> {}, needed |-> {}, parked |-> {},
              deferred |-> <<>>, outright |-> {}, dirty |-> TRUE]
  /\ sq_live = {} /\ sqdone = FALSE
  /\ sq_stamps = [t \in Setscene |-> StampFile(t, "run", InitHash)]
  /\ tasks_covered = {} /\ tasks_notcovered = {} /\ holdoff_tasks = {}
  /\ runq_buildable = {} /\ runq_running = {}
  /\ runq_complete = {} /\ runq_tasksrun = {}
  /\ unihash = InitHash /\ updated_taskhash_queue = {} /\ pending_migrations = {}
  /\ \E S \in InitStamps : files = AtStart(S)
  /\ sstate \in InitSstate
  /\ worker = "exited" /\ commands = {} /\ jobs = {} /\ pipe = <<>>
  /\ active = 0 /\ failed_tids = {} /\ build_stamps = <<>>
  /\ request = None /\ budget = [fail |-> 0, rehash |-> 0, crash |-> 0]

\* The cooker's thread.
Control ==
  \/ SceneInit \/ StopBeforeInit \/ IdleForce \/ IdleShutdown \/ Idle
  \/ AfterExecute \/ Finish \/ BuildDone \/ Return

Reads ==
  \/ Poll \/ ReadEvent \/ ReadDone
  \/ \E t \in Tasks :
       \/ ReadSuccess(t) \/ ReadFailure(t)
       \/ \E ok \in BOOLEAN : ReadSetsceneExit(t, ok)

Migrates ==
  \/ NoMigrations
  \/ pc = "migrate" /\ \E uh \in NewHashes : Migrate(uh)

Scans ==
  \/ ScanEnds
  \/ \E t \in Setscene : \/ ScanSkipsUnneeded(t) \/ ScanParks(t) \/ ScanFails(t)
                         \/ ScanSkipsStamped(t) \/ ScanLaunches(t)

Schedules ==
  \/ UpdateHoldoff \/ SettleScene \/ SchedNothing
  \/ \E t \in Tasks : \/ SchedRefuses(t) \/ SchedSkips(t) \/ SchedNoExec(t)
                      \/ SchedLaunches(t)
  \/ TailWaits \/ TailEnds
  \/ \E t \in Setscene : TailForces(t)

Cooker == Control \/ Reads \/ Migrates \/ Scans \/ Schedules

WorkerSteps ==
  \/ WorkerFinishesNow \/ WorkerQuits
  \/ \E j \in jobs : \E ok \in BOOLEAN : JobEnds(j, ok)

Environment ==
  \/ WorkerSteps \/ WorkerDies
  \/ \E j \in jobs, h \in Hashes : JobReports(j, h)
  \/ \E r \in Requests : UserStops(r)

\* The build is over when the idle function has ended.
Done == pc = "done" /\ UNCHANGED vars

Next == Cooker \/ Environment \/ Done

\* The idle thread keeps calling the idle function, the worker keeps serving, and
\* every task process ends some time; nothing makes it report, die or be stopped.
Fairness == WF_vars(Cooker) /\ WF_vars(WorkerSteps)

Spec == Init /\ [][Next]_vars
FairSpec == Spec /\ Fairness
=============================================================================
