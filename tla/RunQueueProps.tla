--------------------------- MODULE RunQueueProps ---------------------------
(***************************************************************************)
(* What the run queue of module RunQueue is to guarantee.                  *)
(***************************************************************************)
EXTENDS RunQueue

\* Ordinary tasks and setscene tasks the worker is running.
Executing == {j.tid : j \in {i \in jobs : i.kind = "run"}}
Restoring == {j.tid : j \in {i \in jobs : i.kind = "setscene"}}

Labels == {"init", "idle", "poll", "read", "migrate", "setscene", "holdoff",
           "sched", "tail", "after", "finish", "build_done", "return", "done"}
StampFiles == {StampName[t] : t \in Tasks} \X Kinds \X Hashes
Messages == [type : {"event"}, tid : Setscene, hash : Hashes]
              \cup [type : {"exit"}, tid : Tasks, ok : BOOLEAN]
Jobs == [tid : Tasks, kind : Kinds, hash : Hashes, said : BOOLEAN]

ControlType ==
  /\ pc \in Labels
  /\ reading \in {"top", "tail", "finish", "teardown"}
  /\ state \in {"SceneInit", "Running", "CleanUp", "Failed", "Complete"}
  /\ outcome \in {None, "complete", "failed", "exception", "lost"}
SceneVarsType ==
  /\ scene \in SceneType
  /\ sq_live \subseteq Setscene /\ sqdone \in BOOLEAN
  /\ sq_stamps \in [Setscene -> StampFiles]
CoverType ==
  /\ tasks_covered \subseteq Tasks /\ tasks_notcovered \subseteq Tasks
  /\ holdoff_tasks \subseteq Tasks
RunqType ==
  /\ runq_buildable \subseteq Tasks /\ runq_running \subseteq Tasks
  /\ runq_complete \subseteq Tasks /\ runq_tasksrun \subseteq Tasks
HashType ==
  /\ unihash \in [Tasks -> Hashes]
  /\ updated_taskhash_queue \subseteq Setscene \X Hashes
  /\ pending_migrations \subseteq Setscene
CountType ==
  /\ active \in Int /\ failed_tids \subseteq Tasks
  /\ DOMAIN build_stamps \subseteq Tasks
  /\ build_stamps \in [DOMAIN build_stamps -> StampFiles]
WorkerType ==
  /\ worker \in {"up", "dead", "exited"}
  /\ commands \subseteq {"finishnow", "quit"}
  /\ jobs \subseteq Jobs
  /\ pipe \in Seq(Messages)
EnvType ==
  /\ mode \in Modes
  /\ request \in {None, "shutdown", "force"}
  /\ budget \in [fail : Nat, rehash : Nat, crash : Nat]

\* Every variable has its type.
TypeOK ==
  /\ ControlType /\ SceneVarsType /\ CoverType /\ RunqType
  /\ HashType /\ CountType /\ WorkerType /\ EnvType

-----------------------------------------------------------------------------
(* Safety.                                                                 *)

\* Nothing is buildable, and so nothing is started, before all it depends on is
\* complete: the order the whole queue exists for (setbuildable has six callers,
\* each with its own reason to think so).
DepsComplete == \A t \in runq_buildable : Depends[t] \subseteq runq_complete

\* A task that really executes finds what it depends on in place: each
\* dependency was executed, was found done by its stamp, or was itself restored
\* from shared state. One that was only counted as covered, or skipped because
\* nothing seemed to need it, would be missing from its inputs.
Present(d) == d \in runq_tasksrun \/ d \in scene.covered \ scene.notneeded
NoMissingInputs == \A t \in Executing : \A d \in Depends[t] : Present(d)

\* While a task is being restored from shared state, neither it nor any of the
\* tasks that restoring it makes needless executes ("If covered tasks are running,
\* need to wait for them to complete": the loop under that comment of the scan
\* does nothing, so it is left to holdoff_tasks and to the migration's own test).
RestoreExcludesCovered ==
  \A t \in Restoring : (SqCovered(t) \cup {t}) \cap Executing = {}

\* "No task should end up in both covered and uncovered, that is a bug."
CoveredOrNot == scene.covered \cap scene.notcovered = {}

\* stats.active, which the loop waits on, counts the ordinary tasks the worker
\* still has or has reported and the cooker has not read, as long as the worker
\* was not told to drop them.
Unread == {pipe[i].tid : i \in {k \in 1..Len(pipe) : pipe[k].type = "exit"}} \ sq_live
ActiveIsOutstanding ==
  worker = "up" /\ request # "force" /\ budget.crash = 0 =>
    /\ active = Cardinality(Executing \cup Unread)
    /\ Restoring \subseteq sq_live

\* Two tasks that would write the same stamp never run at the same time.
StampsApart ==
  \A i, j \in jobs : i # j => <<StampName[i.tid], i.kind, i.hash>>
                                # <<StampName[j.tid], j.kind, j.hash>>

\* No setscene task is taken back for its changed hash after a task it covers was
\* counted as complete without having run ("marked as completed but now needing
\* to rerun?"), whatever the hashes turn out to be.
NeverTooLate ==
  pc = "migrate" => \A uh \in NewHashes : \A t \in Ready(uh) : ~TooLate(t)

\* Setscene tasks with the same PN and hash are not restored side by side.
DeferredApart ==
  \A t, u \in sq_live : t # u => PendingIndex(t, unihash[t]) # PendingIndex(u, unihash[u])

-----------------------------------------------------------------------------
(* The abstract specification.                                             *)

Processes == {<<j.kind, j.tid>> : j \in jobs}

Order == INSTANCE BuildOrder WITH
           Limit <- NumberTasks, started <- runq_running, done <- runq_complete,
           processes <- Processes

\* The run queue keeps the promise of module BuildOrder: every step of the
\* cooker, the worker and the user is one of its steps or changes nothing in it; among
\* them, that at most BB_NUMBER_THREADS tasks run at any time.
BuildsInOrder == Order!Spec

-----------------------------------------------------------------------------
(* How a build ends.                                                       *)

Undisturbed == request = None /\ budget.crash = 0

\* An undisturbed build that ends complete has completed every task, and every
\* target was executed, current or restored. (--setscene-only executes nothing, and
\* with BB_SETSCENE_ENFORCE what is executed is a dry run.)
CompleteMeansBuilt ==
  outcome = "complete" /\ Undisturbed /\ ~mode.only /\ ~mode.enforce =>
    /\ failed_tids = {} /\ runq_complete = Tasks
    /\ \A t \in Targets : Present(t)

\* bitbake -f: the targets are executed, even if shared state holds their output
\* (their stamps are gone by then: prepare() invalidates them). A noexec target has
\* nothing to execute, and --setscene-only executes nothing.
ForcedTargetsRun ==
  outcome = "complete" /\ Undisturbed /\ mode.force /\ ~mode.only =>
    Targets \ NoExec \subseteq runq_tasksrun

\* The queue never gets stuck: it ends "Failed" only because some task failed,
\* not because its sanity checks found tasks it never dealt with.
FailedForAReason == outcome = "failed" => failed_tids # {}

\* Unless the worker died or was told to finish now, the build ends with no task
\* running and every exit code read.
EndsQuiet ==
  pc = "done" /\ request # "force" /\ budget.crash = 0 => jobs = {} /\ pipe = <<>>

\* bitbake -k: when the build stops, what was not built could not be built.
BuildsAllItCan ==
  outcome = "failed" /\ Undisturbed /\ ~mode.halt =>
    \A t \in Tasks \ (runq_complete \cup failed_tids) :
      Depends[t] \cap (failed_tids \cup (Tasks \ runq_complete)) # {}

\* The loop breaks a deadlock between deferred tasks by force only when a task
\* has failed and the one it blocks can never be released.
ForcedOnlyAfterFailure ==
  [][(\E t \in Setscene : TailForces(t)) => failed_tids # {}]_vars

\* The executor finds the setscene half consistent when it has finished: the errors
\* summarise_scenequeue_errors reports cannot happen.
SceneChecksPass == pc = "holdoff" /\ ~scene.dirty /\ SceneFinished => ~SceneErrors

\* Whatever happens, the idle function ends.
Terminates == <>(pc = "done")

-----------------------------------------------------------------------------
(* Hypotheses of some theorems.                                            *)

\* No hard dependency is started over after a restore relied on it: no hash changes
\* (the build has no hash equivalence), or no hard dependency is above a task whose
\* hash may.
SteadyHardDeps ==
  \/ MaxRehash = 0
  \/ \A t \in Setscene : \A h \in HardDeps[t] : \A s \in Setscene : h \notin Dependents[s]

\* No task is refused under BB_SETSCENE_ENFORCE: task_fail of a refused task uncounts
\* what was never counted.
NoEnforce == \A m \in Modes : ~m.enforce

\* No setscene task ever waits for another with its PN and hash: no two have the same
\* PN, or no hash changes and no two of one PN have the same hash.
NothingShared ==
  \A t, u \in Setscene : t # u =>
    Pn[t] # Pn[u] \/ (MaxRehash = 0 /\ InitHash[t] # InitHash[u])

\* No setscene task with a hard dependency is started over.
NoHardRestarts ==
  \/ MaxRehash = 0
  \/ \A t \in Setscene : HardDeps[t] # {} => \A s \in Setscene : t \notin Dependents[s]

\* No setscene tasks have each other for hard dependency, directly or in a round: the
\* scan would bring each forward for another, and start none of them.
HardAcyclic ==
  \A S \in SUBSET Setscene : S # {} => \E t \in S : HardDeps[t] \cap S = {}

\* bitbake --setscene-only is given something to restore.
OnlyRestores == \A m \in Modes : m.only => Setscene # {}

\* No other task writes the stamps of a target that could be restored: not the same
\* recipe in another multiconfig, in a shared work directory.
TargetsOwnStamps ==
  \A t \in (Targets \cap Setscene) \ NoExec : \A u \in Tasks \ {t} :
    StampName[u] # StampName[t]

\* No task carries the flag number_threads: a failed task counts against the limit of
\* its name until the build ends.
NoThreadLimits == \A t \in Tasks : NumberThreads[t] = 0

\* No setscene task that shares PN and hash with another can be settled before its turn:
\* by its stamps, as noexec, or with a hard dependency.
SharersWait ==
  \A t, u \in Setscene : t # u /\ PendingIndex(t, InitHash[t]) = PendingIndex(u, InitHash[u]) =>
    /\ HardDeps[t] = {}
    /\ \A v \in NoExec : StampName[v] # StampName[t]
    /\ \A S \in InitStamps : \A f \in S : f[1] # StampName[t]

\* Only tasks of one PN have the same stamps.
StampsNamePn ==
  \A t, u \in Setscene : StampName[t] = StampName[u] => Pn[t] = Pn[u]
=============================================================================
