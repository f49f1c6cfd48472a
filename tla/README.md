# BitBake in TLA+

The repository is a Yocto build tree. Its own logic is BitBake
(`src/sources/poky/bitbake/`), the program that turns recipes into a graph of
tasks and executes it; everything else under `src/` is metadata for it (recipes,
classes, patches), documentation, vendored layers and one setup script. This
project specifies the parts of BitBake in which several processes or threads
work on common state: the run queue and its worker, the server with its clients,
the parsers, the two network services that builds share, and the files they share.

Paths below are relative to `src/sources/poky/bitbake/`.

Contents: [inventory](#inventory) - [the run queue](#the-run-queue) -
[modules](#modules) - [correspondence](#how-the-modules-correspond-to-the-code) -
[abstractions](#abstractions) - [properties](#properties) - [runs](#runs) -
[bounds](#bounds) - [fairness](#fairness) - [proofs](#proofs) -
[findings](#findings) - [observations](#observations) -
[not modelled](#not-modelled).

## Inventory

| component | state it keeps | operations | talks to | what is hard | what makes it correct |
|---|---|---|---|---|---|
| **run queue executor** `lib/bb/runqueue.py` (`RunQueue`, `RunQueueExecute`, `runQueuePipe`) | sets of task ids: `runq_buildable/running/complete/tasksrun`, `sq_buildable/running/live`, `scenequeue_covered/notcovered`, `tasks_covered/notcovered`, `holdoff_tasks`, `sq_deferred`, pending rehashes and migrations, counters, the state of the queue | one call of `execute()` per round of the idle loop; exit codes and events from the worker; finish and forced finish | cooker, worker, siggen, stamps and shared state cache on disk, hash server (through tasks) | worker, user and disk change between any two steps; hashes change under way; failures with and without `-k`; a dying worker | tasks run in order, at most once, with their inputs present; nothing restored while it is being built; limits kept; the queue ends, for a reason |
| **setscene graph construction** `lib/bb/runqueue.py` (`build_scenequeue_data`) | work lists of points, sets carried by each point | point by point collapse, passes over the endpoints | run queue data in, executor out | visits in the order of a dict; points come back | the collapsed graph is what its definition says, for every graph and order |
| **task graph preparation** `lib/bb/runqueue.py` (`RunQueueData.prepare`) | `runtaskentries`, weights | expand dependencies, prune, weigh, detect loops, hash | taskdata, siggen | recursive dependencies, loops | pruned graph is closed and acyclic; every loop is reported |
| **schedulers** `lib/bb/runqueue.py` | buildable list, priorities, stamps by task | `next_buildable_task` | executor | stale copies of executor sets | no stamp used twice at a time; limits; no starvation |
| **stamps** `lib/bb/build.py`, `lib/bb/siggen.py` | files named by recipe, task and hash | make, remove, compare times | worker children write, cooker reads | removal and creation apart; times of neighbours | a current stamp implies that the task ran with this hash after its inputs |
| **bitbake-worker** `bin/bitbake-worker` | table of children, a pipe for each, input and output queues | runtask, finishnow, quit, reap, forward | cooker over pipes, children | signals, partial writes, exit codes against events | every task reported once, events before its exit, nothing left behind |
| **cooker** `lib/bb/cooker.py` | state (initial, parsing, running, shutdown, forceshutdown, error, stopped), caches | parse, build targets, generate graphs, idle functions | server, command, run queue | shutdown at any time; parser processes | a command ends once; shutdown reaches the run queue |
| **commands** `lib/bb/command.py` | the current asynchronous command | run, finish | server, cooker | next command while the last one ends | one at a time, each finished once |
| **server process** `lib/bb/server/process.py` | lock file, socket, controller connection, table of idle functions, timeout | accept, hand over, idle, exit | clients, cooker | start-up against exit, two threads, lost clients | one server per build directory; no command lost; exits when unused |
| **events and UIs** `lib/bb/event.py`, `lib/bb/ui/uievent.py`, `lib/bb/tinfoil.py` | handlers, UI table, early events | fire, register, unregister, replay | everyone | registration while events fire | every UI gets every event once, in order |
| **signatures** `lib/bb/siggen.py` | task hashes, unihashes, a cache by recipe and task | get, set, report | run queue, hash server | cache shared and keyed by task hash | a unihash belongs to the current task hash |
| **hash equivalence server** `lib/hashserv/` | tables of outputs and unihashes | report, get, remove, collect garbage | siggen, upstream server | concurrent reports, awaits between query and insert | equal outputs, one unihash; a hash once given stays |
| **PR server** `lib/prserv/` | table version, arch, checksum, value | get, import, export | tasks | two clients, crash before sync | same checksum same value, later value larger |
| **asynchronous RPC** `lib/bb/asyncrpc/` | connections, streams | request, retry, chunk | both servers | retry after an answer was lost | at least once, answers in order |
| **file locks** `lib/bb/utils.py` | lock files | lock, unlock and unlink | everyone | unlink while others wait | one holder |
| **caches** `lib/bb/cache.py`, `persist_data.py`, `checksum.py` | recipe and file checksum caches | load, merge, save | parser | merge of several processes | never stale |
| **parser pool** `lib/bb/cooker.py` (`Parser`, `CookerParser`) | jobs, queue of results, processes, a flag to leave | parse, read results, interrupt, terminate, join | idle thread and main thread of the server, caches | results larger than a pipe; a parser ends with results under way; two threads on one pool | no build with recipes missing; parsing ends, nothing left behind |
| **parsing and data** `lib/bb/parse/`, `codeparser.py`, `data_smart.py`, `COW.py`, `cookerdata.py` | variables of a recipe | parse, expand, copy on write | cooker | sequential | text processing |
| **providers, task data** `lib/bb/providers.py`, `taskdata.py` | chosen providers, task lists | resolve | cooker, run queue | sequential, large inputs | every need met or reported |
| **fetchers** `lib/bb/fetch2/` | downloads, done stamps | download, unpack, mirror | network | two builds on one file; killed between file and stamp; mirrors | a stamp that is believed is true; what is unpacked was verified |
| **disk monitor** `lib/bb/monitordisk.py` | last readings | check | run queue | I/O | stops the build in time |
| **utilities** `main.py`, `daemonize.py`, `process.py`; `src/bsp-setup.sh` | - | start-up, subprocess wrappers; clones layers | - | plumbing | - |

Modelled completely: the run queue executor and the construction of the setscene
graph. Modelled in what several processes do to them: worker, server, commands,
events, parser pool, hash and PR servers with their RPC, lock files, fetches,
stamps. Not modelled: text processing and sequential computations over one
process's data. `PROJECT.json` has the status of each, [not modelled](#not-modelled)
the reasons.

## The run queue

A build is a graph of tasks. Some tasks have a *setscene* variant: instead of
executing the task and everything under it, its output is restored from the
shared state cache. So the executor runs two queues over the same graph:

* the *scene queue* restores, from the targets down. A restored task **covers**
  the ordinary tasks below it; one that can not be restored uncovers them;
* the *task queue* executes from the leaves up whatever was uncovered and skips
  what was covered. A task is held off until it is known which of the two it is.

Complications, all modelled: hard dependencies between restores; tasks of two
multiconfigs with the same hash (the second waits for the first); stamps of an
earlier build; tasks that turn out, while the build is running, to have produced
a known output, so that everything above them gets another hash and may have to be
taken back and restored under it; failures with and without `-k`; user requests;
a worker that dies; `--skip-setscene`, `--setscene-only`, `-f`,
`BB_SETSCENE_ENFORCE`.

The cooker is one thread. Its idle loop calls `execute_runqueue` again and
again; one call reads the worker's pipe, takes up changed hashes, looks for a task
to restore, updates the hold-off sets, starts or skips at most one ordinary task,
and reads again if something is active. The worker, its task processes and the
user act at any point in between.

## Modules

| module | what it is |
|---|---|
| `SceneGraph` | constants of a build (graph, setscene tasks, targets, hard dependencies) and the collapsed graph as definitions: owners, covered tasks, unskippable tasks |
| `SceneQueueBuild` | how `build_scenequeue_data` computes that graph, over all graphs of a set of inputs |
| `SceneQueue` | the bookkeeping of the scene queue as operators on a record, and the stamp checks |
| `RunQueue` | the state machine: variables, one action per step of the loop, worker, user, fairness |
| `BuildOrder` | abstract specification: what a build promises about its tasks |
| `RunQueueProps` | properties of the run queue, and the mapping to `BuildOrder` |
| `Worker` | `bin/bitbake-worker`: two threads, task processes, signals, the pipes between cooker, worker and tasks |
| `ParserPool` | parser processes, their queue of results, the idle and the main thread that read it and shut it down, the caches the parsers leave |
| `ProcessServer` | servers of one build directory and the clients that start, use and stop them |
| `HashServ` | the hash equivalence server, its clients and an upstream server |
| `PRServ` | the PR server and its clients |
| `LockFile` | `lockfile()` and `unlockfile()` over files that are unlinked |
| `NamedLock` | abstract specification: what a lock file promises |
| `Fetch` | one file of `DL_DIR` with its done stamp, several recipes that fetch it |
| `MCRunQueue`, `MCPreparation`, `MCWorker`, `MCServer`, `MCServices`, `MCSharedFiles` | instances for TLC |
| `RunQueueProofs`, `RunQueueOrder`, `RunQueueOutcome` | proofs about the run queue: types and the graph; worker and books; what a build skips and how it ends |
| `PreparationProofs` | proofs about the collapse of the graph and about `ParserPool` |
| `WorkerProofs` | proofs about `Worker` |
| `SharedFileProofs` | proofs about `LockFile` and `Fetch` |
| `ServiceProofs` | proofs about `PRServ` and `HashServ` |
| `ProcessServerProofs` | proofs about `ProcessServer` |

`SceneGraph <- SceneQueue <- RunQueue <- RunQueueProps <- MCRunQueue`, and
`RunQueueProps <- RunQueueProofs <- RunQueueOrder <- RunQueueOutcome` extend one
another; `RunQueueProps` instantiates `BuildOrder`, `LockFile` instantiates
`NamedLock`, each with a mapping. What one module takes for granted another one
establishes: `ProcessServer` and `Fetch` take a lock file as a mutex (`LockFile`
implements `NamedLock`), `RunQueue` takes the order of events and exit codes in the
worker's pipe (`EventsThenExit` of `Worker`), the collapsed graph (`Collapsed` of
`SceneQueueBuild`) and a hash server that may answer anything.

`MCPreparation`, `MCServices` and `MCSharedFiles` each check two specifications that have
no variable in common: a variable `subject` says which of the two a behaviour is of, the
other stays where it is. (So that both can be extended, the second ones have names of their
own: `HashSpec`, `FetchSpec`, `ParseSpec`.)

Recursion is written as recursive functions throughout (no RECURSIVE operator), so
that the same modules are checked and proved about.

## How the modules correspond to the code

### Run queue

State. `mode` is how bitbake was invoked, chosen once. The sets keep their names (`runq_running`, `tasks_covered`,
`holdoff_tasks`, `updated_taskhash_queue`, ...). The scene record gathers the
`sq_*` and `scenequeue_*` sets, the header of `SceneQueue` lists which field is
which. `pc` is the place in the loop:

| pc | code | actions |
|---|---|---|
| `init` | state `runQueueSceneInit` of `_execute_runqueue` | `SceneInit`, `StopBeforeInit` |
| `idle` | `buildTargetsIdle` in `cooker.py` | `Idle`, `IdleShutdown`, `IdleForce` |
| `poll`, `read` | `runQueuePipe.read` and `runqueue_process_waitpid` | `Poll`, `ReadEvent`, `ReadSetsceneExit`, `ReadSuccess`, `ReadFailure`, `ReadDone` |
| `migrate` | `process_possible_migrations` | `NoMigrations`, `Migrate` |
| `setscene` | first half of `execute()` | `ScanSkipsUnneeded`, `ScanParks`, `ScanFails`, `ScanSkipsStamped`, `ScanLaunches`, `ScanEnds` |
| `holdoff` | `update_holdofftasks` and the test for the end of the scene queue | `UpdateHoldoff`, `SettleScene` |
| `sched` | the scheduler and the one task it gives | `SchedRefuses`, `SchedSkips`, `SchedNoExec`, `SchedLaunches`, `SchedNothing` |
| `tail` | end of `execute()` | `TailWaits`, `TailForces`, `TailEnds` |
| `after`, `finish`, `build_done`, `return`, `done` | rest of `_execute_runqueue`, `finish()`, teardown, the verdict | `AfterExecute`, `Finish`, `BuildDone`, `Return` |

`reading` says which of the four places that read the worker's pipe the loop is in.
An action between two labels is one uninterrupted stretch of the cooker's
thread; a label stands wherever something another process does could be seen.

The worker is `jobs` (its processes), `pipe` (what it wrote and the cooker has not
read, in order), `commands` (finishnow, quit) and whether it is up. A process ends
in `JobEnds`, which writes its stamp and its shared state object before its exit
code; a task that ran for real may first have learned another unihash
(`JobReports`). `WorkerDies` is an unexpected exit. `UserStops` is
`stateShutdown`/`stateForceShutdown`.

`SceneQueueBuild` has one action per point the endpoint loop takes
(`ProcessPoint`), one per batch (`NextBatch`), one per pass of the search for
unskippable tasks (`Pass`) and the closing check (`SanityCheck`). The graph is a
variable, chosen from `Inputs`.

### Worker

`cooker`, `writing` are the cooker's end: the command it is writing to the worker's
stdin, which blocks it as long as the pipe is full. `worker` is the place of the
worker's main thread in `serve()`:

| worker | code | actions |
|---|---|---|
| `select` | `select` and reading stdin; end of file | `Select` |
| `items` | `handle_item` for each kind of command in turn | `HandleRunTask`, `HandleFinishNow`, `HandleQuit`, `ItemsDone` |
| `pipes` | `runQueueWorkerPipe.read` of each child that `select` found readable, one at a time | `Pipes`, `PipesDone` |
| `reap` | `process_waitpid` | `Reap`, `Reaped` |
| `signal`, `wait` | `handle_finishnow`: `killpg` and `waitpid(-1)` for each child | `SignalNext`, `WaitAny`, `SignalsDone` |
| `drain` | the rest of `handle_finishnow`: one `read` of each pipe, then back to `items`, or the end if a signal brought it here | `DrainNext`, `Finished` |
| `join` | after `serve()`: the writing thread is joined | `Join` |

`Flush` is the other thread. A task process goes through `forked` (nothing done yet),
`tied` (`prctl` asked for a signal when the worker ends), `leader` (`setsid`), `run`,
and `write` while it writes the two halves of an event with signals blocked
(`worker_child_fire`). An event is two halves because a write to a pipe that has room
for part of it blocks in the middle. The halves of a task follow each other, so the pipe
is two counters, `wrote` and `taken`; `part` is what the worker holds of an event that
has not arrived in full (`runQueueWorkerPipe.queue`), and `Garbled` is its assertion on
where an event begins: it fails if somebody else has read part of the pipe, which a child
that is terminated before it has its own signal handlers does.

### Parser pool

`phase` is where a parser is in `realrun` (`parse`; `flush`, which is
`results.join_thread()`; `save` and `write`, the finalizers), `buffer` what
`multiprocessing.Queue` holds for its feeder thread, `wlock` and `recv` the queue's two
locks, `pipe` its pipe. The idle thread goes through `Round` (`runAsyncCommand`,
the head of `updateCache`), `NextResult` and `BeginResult`/`EndResult`/`NoResult`
(`parse_generator`, `parse_next`); the main thread may start `Stop`. Both run
`CookerParser.shutdown`: `Check` (`haveshutdown`), `Drain` and `Quit`, `Interrupt`, `Terminate`,
`Join`, `Merge`.

### Server

A client is in `at` (`setup_bitbake`, then the user interface), each connection it
makes in `conn`; a server process in `pc` (main thread), `idle` (idle thread), `srv`
(what both threads use). The client's steps are `Look`, `StartServer`, `Wait*`,
`Connect`, `SendFds`, `Connected`, `Ask`, `Stop`, `GotFinal`, `Leave`, `Closes`; the
main thread's are one action per part of a round of `main()` (`Accept`, `Control`,
`Hangup`, `Disconnect`, `Drain`, `Command`, `Acquire`, `Register`, `Refuse`, `Timeout`)
and of its end (`Exit`, `Join`, `Unlink`, `Close`, `Release`, `Relock`, `End`); the idle
thread's are `Calls`, `RunAsync`, `ParseMore`, `ParseEnds`, `BuildEnds`, `Remove`,
`Finish`, `Dies`.

### Services

`HashServ`: tables `uni` and `out` (rows by id, which is the order `created` gives; a deleted
row leaves its place empty), `stage` where each connection's handler waits, which is
where the code awaits (an upstream server, or a statement committed on its own).
`Send`, `Handler`, `TakeAnswer`, `Break`, `SendAgain` are a request's way; `Backfill` the
task that copies from upstream, `Crash` a kill of the server. `PRServ` has the open
transaction `table` and what is committed, `disk`; `Get`, `FindMax`, `Import` are
requests, `HandlerFails`, `Signal`, `Stop`, `Kill`, `Start` the server.

### Files

`LockFile`: `pc` steps through `open`, `flock`, `stat` against `fstat`, and
`unlockfile()`'s promotion, unlink and close; inodes are reused when nobody has them
open. `Fetch`: one action per write of `download()` (`VerifyDonestamp`, renames, the
stamp's write, `update_stamp`'s touch), so that `Killed` falls between any two.

## Abstractions

Run queue:

* A task hash or unihash is a model value. A recomputed hash may come out as any
  value, because the hash server may answer anything; tasks that were restored or
  are being restored keep theirs, as in the code.
* A stamp file is its name (path without hash, kind, hash) and whether this build
  wrote it; of modification times only "older than this build or not" is kept.
  Making a stamp is one step.
* `stampcache`, which remembers answers of `check_stamp_task` during one call of
  `update_scenequeue_data`, is left out.
* Sets that the code walks in some dict or list order are taken in any order
  (scan, scheduler), or in `Rank` order where the code sorts. When a changed hash is
  reported for a task twice, or for a task and one deferred behind it, either
  may win.
* The scheduler's choice and the pressure readings are nondeterministic.
  `BB_SETSCENE_DEPVALID` is code outside BitBake: a restored object whose users
  are all restored may be needed or not.
* One worker and one pipe stand for the worker, the fakeroot worker and those of
  multiconfigs. The message that sends new task hashes to workers is left out: the
  hash a task runs with is the cooker's at the time it is started.
* `process_possible_migrations` stops the build if a task is "marked as completed
  but now needing to rerun". `RunQueue` has no such branch; `NeverTooLate` shows
  that it would never be taken.
* Not modelled: `bitbake -n`, `--dump-signatures`, event texts and logging.

Worker:

* An event is two halves, larger than the pipe (`Room = 1`); a command or an exit code
  is one. The pipes a round reads are those that were readable at `select`; it reads them in
  any order, while `handle_finishnow` goes through the tables in theirs (`Turn`).
* A `read` takes all that is in the pipe: a buffer larger than a pipe.
* The handler a child inherits runs to its end in one step, without the warning
  event it may fire. Signals sent to the worker by others than the cooker's end are
  `WorkerKilled`.

Parser pool:

* A parser's cache is one file, and its locks are those of `LockFile`. The merge of the
  cooker is one step. The cooker's own entries and the thread that writes the
  recipe cache are left out.
* `haveshutdown` is looked at and set in one step. Of the loops over `self.processes`
  only the last walks the list by index, the others take all at once.
* Signals that are deferred while a parser sends an event are not distinguished from
  signals sent later.

Server:

* `stateForceShutdown` is the same request as `stateShutdown`. No XMLRPC clients, no
  heartbeat. A server that boots does so within the time its parent waits. The
  timeout is known from the start.
* Final events are one kind. A build that "keeps going" takes no steps here. What is
  ready in one round of the main loop is handled by an action each.
* The limit of the listen backlog and children that keep the lock file open are left
  out.

Services:

* One method, version and architecture. The order of creation is the order of
  insertion; the age of a row is left out (see [observations](#observations)). A
  connection is lost before its request was handled or after the reply was made.
* The hash a build reports and those it asks for are not bound to a run queue: any
  client may ask anything its setting allows.

Files:

* Handles are process and path; `flock` does not distinguish what the code does not.
* `Fetch`: http sources, `BB_STRICT_CHECKSUM` not set, no `BB_NO_NETWORK` or
  premirror-only. A change in the local mirror has a newer time than what was there
  and happens once, while no fetch runs.

## Properties

Each stands in its module under a comment that says what it is about. In short:

* **Run queue: order and inputs** - `DepsComplete`: nothing is buildable before its
  dependencies are complete (six places mark tasks buildable). `NoMissingInputs`:
  what executes has each dependency executed, current or restored, not just
  counted. `BuildsInOrder`: the queue refines `BuildOrder`: taken up at most once, in
  order, done once the process ended or none was started, at most `NumberTasks`
  processes.
* **Two queues, one graph** - `RestoreExcludesCovered`, `CoveredOrNot`,
  `NeverTooLate`, `DeferredApart`, `StampsApart`; `ActiveIsOutstanding` for the counter.
* **How a build ends** - `CompleteMeansBuilt`, `ForcedTargetsRun`, `FailedForAReason`
  (the sanity checks of the queue never fire), `EndsQuiet`, `BuildsAllItCan`,
  `ForcedOnlyAfterFailure`, `Terminates`.
* **Preparation** - `Collapsed`, `Collapses`: what the algorithm leaves equals the
  definitions of `SceneGraph`, and it ends. `ParsingTellsTruth`: a command goes on only
  when every recipe was parsed and read once, and fails only for a reason outside
  the pool. `ParsingEnds`: whatever is in the queue and whichever thread stops it,
  parsing ends without parsers left.
* **Worker** - `EventsThenExit`: whole events, in order, all of them before the exit
  code. `NobodyStuck`: no full pipe keeps cooker, worker and tasks waiting for one another, and
  no task outlives the worker. `ForcedStopEnds` does not hold (finding 2).
* **Server** - `SocketReaches`, `CleanStart`, `EventsAreOwn`, `AnsweredOnce`,
  `EverybodyLeaves`: one server has the socket; a client starts from an idle cooker,
  hears of its own commands, each once; nobody waits for ever.
* **Services** - `NeverBackwards`, `OwnValues` (PR values), `ToldIsRecorded`,
  `EqualOutputsShare`, `SweepKeepsMarked` (unihashes). `NeverDecremented` does not
  hold once a server is killed (finding 3).
* **Files** - `MutualExclusion`, `ImplementsLock`, `SomebodyGetsIn`; `StampTellsTruth`,
  `Delivers`, `FailsForAReason`, `UnpacksVerified`.

Each is paired with a mutant: a plausible mistake in a definition, written beside
the definition in the module and marked "Mutant", that TLC finds to violate the
property in the same run.

## Runs

| run | instance | shows |
|---|---|---|
| `rq_restore` | tool, library, application, image; any cache, two hash changes, a failure | restoring and executing stay apart; tasks are taken back in time; covered or not, never both; order; inputs |
| `rq_modes` | the same graph with a noexec and a nostamp task, stamps and objects of an earlier build; plain, `-k`, `-f`, `--skip-setscene`, `--setscene-only`, `BB_SETSCENE_ENFORCE` | a build that ends complete is built; forced targets execute; no end without a failed task; with `-k` all that can be built is built |
| `rq_interrupted` | the same graph, one thread, plain and `-k`; stop requests, a dying worker, a failure, a hash change | types; counters follow the worker; a build not killed ends with nothing running or unread; refinement of `BuildOrder`; the idle function ends |
| `rq_pair` | one recipe in two multiconfigs with shared stamps, used by another; with and without `-k` | no equal restores, no equal stamps side by side; no forced deadlock without a failure |
| `preparation` | every graph of five tasks, every set of setscene tasks, every order; one or two parsers with two or three recipes, a stop, a bad recipe, a killed parser | the collapse is right and ends; parsing tells the truth and ends |
| `worker` | two tasks, one event each, pipes smaller than an event; cooker, worker, tasks killed; quit, finishnow | events before exit codes, nobody stuck, nobody left behind |
| `server` | two clients, two servers at a time; five plans | the five properties of the server |
| `services` | two clients of either service, two checksums, three task hashes, two outputs; lost connections, stops, kills | revisions grow and are not shared; unihashes stay and are shared |
| `shared_files` | three processes and a lock file; two recipes and one source file | locks exclude and are obtained; fetches deliver, stamps are true |

The violation runs `rq_refused_forever`, `worker_stuck` and `pr_killed` are described
under [findings](#findings).

## Bounds

Run queue. `MaxFail` (tasks that may fail), `MaxRehash` (hash changes reported),
`MaxCrash` (unexpected exits of the worker), `ActiveFloor` (`stats.active` stops falling
there; only refused tasks make it fall below zero). Graphs are small on purpose, and
chosen by shape:

* the application covers two ordinary tasks, one above the library and one that
  needs nothing: the latter can be held off, waiting, executing or complete at the
  moment the library's hash changes, which is what migrations are about; a
  second change can arrive while the first is pending;
* restoring the library needs the tool although building it does not: a hard
  dependency that is not an edge of the graph;
* the pair is the smallest graph with deferral and an ordinary task between the
  deferred task's twin and its users;
* two hashes are enough for "the same as before" and "another one";
* a second thread is enough for a restore next to an execution; one thread, in
  `rq_interrupted`, is the other boundary.

The others:

* `preparation`: a point that is revisited after its set grew needs two paths of
  different length from one endpoint, which four tasks already have. Two parsers: one
  may hold the pipe's lock the other one waits for; a stop meets one parser with two
  recipes, so that jobs are left when it is told to leave, and two with one
  each. `Room = 1`: nothing a parser sends fits the pipe.
* `worker`: two tasks, because a later one inherits the read end of the earlier
  one's pipe; one event each, the `TaskStarted` every task fires.
  That several events keep their order is `EventsPassed`, for any number.
* `server`: each plan fixes how often clients try, what they ask and whether a server
  is killed; together they have a client queued behind another, one that leaves
  during its build, a retry behind a connection given up, a second server after a kill
  and after a timeout. The code's 8 tries are 1 or 2.
* `services`: `MaxValue`, `Retries` and `Resends` (3 in the code), `MaxLost` and the number of
  requests of each setting bound the behaviours. Nothing is looked at after a PR
  transaction was lost (the constraint `Whole`; every property excuses it).
  Clients, builds and checksums are interchangeable (symmetry; the run has no liveness).
* `shared_files`: three processes, one that unlinks, one that waits on the
  unlinked file and one that makes a new file; four inodes, so that all can be open.
  Two recipes with any two wishes about two versions; two premirrors and a mirror.

The passing runs together take every action and every disjunct of the next-state
relations.

## Fairness

* `RunQueue`: weak fairness of `Cooker` and of `WorkerSteps`. The server's idle thread
  calls the registered idle function until it returns a final value
  (`idle_thread_internal`), and `execute()` does not block. The worker serves its pipe in
  a loop and a task process ends some time: a task that hangs for ever hangs a build.
  Reports, crashes and requests may never happen.
* `SceneQueueBuild`: one sequential computation.
* `ParserPool`: each parser and its feeder thread, the idle thread and the main thread run;
  a recipe is parsed some time. Signals arrive: they are steps of the parser. Stops
  and kills are not fair.
* `Worker`: the cooker's reading and writing, both threads of the worker, and of a task
  what it does in any case: booting, ending a write, dying of a signal. A task need not
  end and the user need not do anything. `NobodyStuck` does not lean on a task's end.
* `ProcessServer`: clients, main threads and idle threads run, timers expire. Strong
  fairness only for the end of parsing, which other rounds of the loop may disable and enable
  again: the number of recipes is finite.
* `LockFile`: a process inside `lockfile()` or `unlockfile()` goes on, and gives its lock back
  some time; nobody needs to ask for one. No fairness among those who wait:
  `SomebodyGetsIn` says that somebody gets in, as `flock` does.

## Proofs

The theorems hold for every graph, mode, number of threads, process, client and
checksum.

**Assumptions** are those named in `SceneGraph`, `SceneQueueBuild`, `SceneQueue`, `RunQueue`,
`LockFile`, `PRServ`, `HashServ`, `ProcessServer` and `Worker`; TLC evaluates them in the runs. Most say that the
graph's edges stay inside the build, that numbers are numbers and special values not
ordinary ones. `AcyclicAssumption` says that a build has finitely many tasks and no cycle:
`calculate_task_weights` and `circular_depchains_handler` (`runqueue.py:502-650`) refuse a
graph with one. It is stated as the existence of first and last elements of every
set of tasks, which is how the proofs use it, and so is what `InputAssumption` says of each
build that `SceneQueueBuild` starts from. The theorems about `Fetch` and `ParserPool` state theirs, `Distinct` and
`PlansAssumed`, as a hypothesis, and `MCSharedFiles` and `MCPreparation` assume it so that
TLC evaluates it, too.

**Hypotheses.** Some theorems about the run queue hold for a part of the builds only, and
name it (end of `RunQueueProps`). Each excludes a behaviour of the code that breaks the
property, found by TLC or while proving, and described under
[observations](#observations):

| hypothesis | says | without it |
|---|---|---|
| `SteadyHardDeps` | no hash equivalence, or no hard dependency above a task whose hash may change | a task executes while it is being restored |
| `HardAcyclic` | no setscene tasks are hard dependencies of each other, directly or in a round | the scan brings each forward for another and starts none: the build fails with no failed task |
| `OnlyRestores` | `--setscene-only` is given a setscene task | its build of ordinary tasks only ends failed, having run none |
| `NoThreadLimits` | no flag `number_threads` | a failed task keeps its place: with `-k` nothing else of its name is started |
| `TargetsOwnStamps` | no other task writes the stamps of a target that has a setscene variant | with `-f` a target deferred behind its twin in another multiconfig is skipped for the stamp the twin wrote |
| `SharersWait` | setscene tasks that share PN and hash have no hard dependencies, no stamps from before and no noexec task of their stamp name | one of several that wait for each other is settled before its turn, and all the others go at once |
| `StampsNamePn` | only tasks of one PN have the same stamps | two tasks that do not wait for one another write one stamp |
| `NoEnforce` | no `BB_SETSCENE_ENFORCE` | `stats.active` is taken down for a task never counted |
| `NothingShared` | no two setscene tasks share PN and hash | a task released from its wait is skipped for its new stamp although it has failed |
| `NoHardRestarts` | no hash equivalence, or no task with hard dependencies is above one whose hash may change | a task taken back is skipped, then failed |

Hard dependencies are what the flag `depends` of a setscene variant names
(`runqueue.py:3038`), e.g. `useradd.bbclass:205-207`: base-passwd, pseudo-native and
shadow-native. These are tools and files that are needed to unpack the output, and do
not name what is unpacked with them. `MCRunQueue` assumes all but the last three
of its instances, so TLC evaluates them. Two more conditions are stated where they are used,
since they are about a constant or the steps taken: `MaxRehash = 0`, no hash equivalence, and
`[][~\E t \in Setscene : TailForces(t)]_vars`, the loop has not taken its "forcing task" branch.

### The collapsed graph (`PreparationProofs`)

* `CollapseIsRight`: `Collapsed`, what `build_scenequeue_data` leaves is what `SceneGraph`
  defines, whatever the graph and the order in which points are taken. The code pushes sets
  of setscene tasks down the graph, batch by batch, and a point may come up before all above
  it was processed, and again later. `BuildInv` says that nothing is pushed down to a task
  it is not above (`Sound`); that what has been at a task has come down to all the task
  depends on (`Passed`); and that nothing stays at an ordinary task: it is listed for this
  batch or the next, or waits for a task above it (`Pending`). When nothing is listed any
  more, the topmost of the waiting tasks would wait for none, so none waits (`HasTop`).
  The recursive definitions of `SceneGraph` are shown to be the least sets closed under
  their rules.
* `NeverFatal`: the sanity check after it never stops a build.

### Run queue: types and order (`RunQueueProofs`)

* `TypeCorrect == Spec => []TypeOK`. `TypeOK` is inductive as it
  stands. The work is in the scene record: lemmas show of each operator
  that it maps scenes to scenes, then the actions are gone through.
* `DepsAlwaysComplete == Spec => []DepsComplete`. Six actions mark tasks
  buildable. `UpdateHoldoff` and `CompleteOutright` look at all dependencies
  themselves; the first execution marks leaves; `SchedSkips` marks the task it has
  just taken from the buildable set. `runq_complete` only grows. So
  `TypeOK /\ DepsComplete` is inductive.
* `DepsCompleteBeforeExecution`: the same for processes. Not inductive alone: a
  task is started from the buildable set, so the strengthening adds `DepsComplete`;
  and a process stays in `jobs` while `runq_complete` grows.

The module also shows that the recursive definitions on the graph (`Owners`,
`IsUnskippable`, `NewlyDone`, `FailClosure`) obey their equations. tlapm takes a recursive
function for a CHOOSE of a solution, and a solution is exhibited: the least one, defined by
quantifying over closed sets.

### Run queue: worker and books (`RunQueueOrder`)

* `RestoresApart`: `RestoreExcludesCovered`. The invariant `Sound` has four parts. A task the
  worker has, or has reported and the cooker not read, is there once (`OneToken`); the
  books have it as live or as started and not complete (`Accounted`); nothing live is
  settled (`LiveSound`); nothing started may still be restored or be below what may be
  (`CoverSound`). The last rests on the hold-off set being up to date where the scheduler
  uses it (`HoldoffFresh`), although it is updated only once per round.
* `ActiveCounts`: `ActiveIsOutstanding`. `Counts` generalises it to every place in the loop
  and both ways to be outstanding.
* `KeepsOrder`: `BuildsInOrder`, the whole refinement. Each step of the cooker and of the
  worker is one of `BuildOrder` or a stutter; the limit on processes follows from
  `Counts`, exclusion of restores from `Sound`, order from `DepsComplete`.

### Run queue: what is skipped, and the end (`RunQueueOutcome`)

* `TakenBackInTime`: `NeverTooLate`. `SkipInv` ties what the setscene half updates in place to
  the graph. `GraphSound`: each task whose users are settled is buildable
  (`BuildableSound`), and what is marked done is what the graph says, nothing less and nothing
  more (`DoneSound`). `CoverFresh`: the covered and notcovered sets are what they are
  derived from unless marked dirty. `MaySkip`: whatever counts as complete without
  having run was restored or is below restored tasks only, and these have not failed. A task
  that may be taken back has failed, so nothing below it was skipped.
* `SceneConsistent`: `summarise_scenequeue_errors` never has anything to report
  (`SceneChecksPass`, which follows from `SkipInv`, `Sound` and `ReadyBuildable`; that every task
  is visited in the end is an argument along the graph).
* `CompleteIsBuilt`: `CompleteMeansBuilt`. `EndInv` says for each place after the verdict
  what it rests on, if nobody stops the build; what then is complete and was
  not run may be skipped, and for a target that means restored.
* `QuietlyEnds`: `EndsQuiet`. `QuietInv` follows the teardown: a verdict is given with
  nothing outstanding (`Counts`), and after it only exit codes of tasks dropped by force
  or by a dead worker could come.
* `CoveredApart`, `InputsPresent`: `CoveredOrNot`, `NoMissingInputs`. `ApartInv` says that
  nothing waits, that covered and notcovered are apart, that what may be taken back has no
  hard dependencies, and why a task that executes does so (`MayExecute`): it was not
  restored, or what it is for was not. So whatever it depends on was not skipped as
  needless for it.
* `FailsForAReason`: `FailedForAReason`, the queue never gets stuck. `BookInv`: stamps are
  promised for what is under way only, and the counter covers all of it while nothing has
  failed. `SettleInv`: what the scan has dealt with is settled, live or waits for a hard
  dependency that is not settled. `PhaseInv` says for each place of the loop what was
  just found empty. If the scan finds nothing to do, every setscene task is settled: of
  those that are not, some are buildable, hence parked, and each of these waits for
  another of them, which `HardAcyclic` excludes. If the scheduler then finds nothing either, the first
  ordinary task that was not begun would be buildable (`NotStuck`). So the sanity checks
  at the end find nothing undone.
* `KeepsGoing`: `BuildsAllItCan`. `GoneInv`: while the worker is heard, each started task
  is complete, failed or outstanding. When the scheduler has nothing to offer,
  nothing is outstanding and nobody has interfered, whatever is neither complete nor failed
  depends on something that is not complete.
* `ForcedRun`: `ForcedTargetsRun`, `bitbake -f` executes its targets. `ForceInv`: until a target
  that could be restored is started it has no stamp, is not restored and not live, so
  nothing covers it; what is complete of the targets was run. A stamp comes from the
  target's own process, from a noexec task, or from a task of the same stamp name
  (`TargetsOwnStamps`); and what stamps settle has one (`DeepIsCurrent`: `StampCurrentDeep` is
  recursive, and the greatest set that keeps to its rule is a solution of it).
* `OneAfterAnother`, `OneWriterEach`: `DeferredApart`, `StampsApart`, with `MaxRehash = 0`, as
  long as the loop forces nothing. `TurnInv`, on tasks alike in PN and hash: one that waits is
  not settled and waits for one that neither waits nor is complete, and at most one of those
  alike neither waits nor is complete. So when one completes and releases those that wait for it,
  one of them gets its turn and the others wait for that one. This needs that none is settled
  while it waits (`SharersWait`), else the one that gets its turn may be complete already.
  `StampInv`: `build_stamps`, where the scheduler looks, holds the stamp of every task with a
  process; what is restored shares its stamp with its own PN only, and with what is alike
  takes turns.

### Parsing (`PreparationProofs`)

* `ParsingToldTruth`: `ParsingTellsTruth`. `PoolInv` follows each recipe: it is with its parser,
  in that parser's buffer, in the pipe (by the second half of its result) or read, and at one of
  these at most (`AtOnce`). So as many results as recipes are all of them. That
  nothing is lost holds only while results are read, nobody asked for a stop, no
  recipe is bad and no parser was killed (`Calm`): then a parser that has left has nothing
  in its buffer, and every living one is in the list. When the list is found empty after a
  look into an empty pipe, whatever is to be parsed was read (`NothingLeft`): without that
  second look the proof fails, and so would the build. `Verdict` keeps the reason
  through the shutdown; a file that is half written when nobody writes any more belongs to a
  parser that was ended (`Parts`). The list of living processes is stated by the ranks of
  their places (`Alive`), since the provers can not look into `SelectSeq`.

### The worker (`WorkerProofs`)

* `EventsPassed`: `EventsThenExit`, for any number of tasks and events and pipes of any size.
  `FlowInv` has three parts besides the types. `Tokens`: the command to start a task is
  under way once, before the task is there, and never again, and finishnow is on its way only
  after the cooker has said it; so nobody stops a task that is not stopped by force, and a
  process is not replaced by a second one of the same task. `Flow`: what has been passed on of
  a task (queue, pipe and cooker read as one sequence) is in order; no event is in it that is
  still in the pipe; if the exit code is in it the process has been reaped and its pipe is
  empty, and stays so, since only a living process writes. As long as nobody is stopped by
  force it has every event that has left the pipe, no signal is pending, and the worker holds
  the first half of an event exactly if the pipe was emptied in the middle of one. So the next
  thing it reads begins where it should (`HoldsRest`) and the assertion of
  `runQueueWorkerPipe.read` holds. `Places`: the main thread is inside `handle_finishnow`
  only after a forced stop. Order and the single exit code need no such
  condition: they hold through any kill.
  The exit code is the one step that needs all of it: `Reap` empties the pipe before it
  (`PipePasses`).
* `WorkerTyped`: `TypeOK`, with the counters of each pipe in step (`Counts`: no more is taken
  than was written, and an event is written to the end only while there are events).

### Files, services, server

* `LockInvariant`, `LocksExclude`, `LocksImplement`. `LockInv` says that whoever is past
  the comparison of inode numbers holds the file of that name on disk, that an open inode
  has one name, and that the `flock`s on one inode are compatible. Exclusion alone
  is not inductive: unlinking breaks it unless only a holder of the file on disk,
  alone, unlinks. With it each step of `LockFile` is a step of `NamedLock` or a stutter:
  the whole refinement is proved.
* All four properties of `Fetch`. `FetchInv` says for each place of the recipe that has
  the lock what it may rely on: no stamp where a file may arrive unchecked (`Writing`),
  a right file, or one without a stamp, before the last look; an upstream that has
  refused where only a mirror's file is left. A killed fetch leaves the lock, and
  `StampTellsTruth` is all that the next one needs. `UnpacksAreVerified` adds that
  while some recipe has the file, the others' places are ones that do not write it
  (`Gentle`).
* `PRInvariant`, `RevisionsOnlyGrow`, `RevisionsAreOwn` for `PRServ`, from
  `PRInv == TypeOK /\ Kept /\ Apart`: `Kept` relates what builds were told, and what is
  on its way to them, to the table (something in it is at least as great); `Apart` does
  so for each checksum: values it has or was given are no other's, and none is
  above the table's greatest.
* `UnihashesStay` and `SweepsKeepMarked` for `HashServ`. What
  a build is told was decided steps earlier, so `ToldInv` adds what each place of a
  handler guarantees: after `ReportUnihash` the row is there or was deleted, who waits for
  upstream has one, an answer on its way may still be passed on. No step changes a
  unihash but by deleting its row (`RowsKept`). For the sweep it is enough that nothing
  waits between the comparison of marks and the deletion (`SweepInv`).
* `EqualOutputsAreShared`: `EqualOutputsShare`. A report writes its row, looks for a row with
  the same output and inserts the unihash in three statements, and only the second may be
  followed by a wait. So in everybody else's turn all rows are of tasks that have a unihash
  (`RowsRecorded`), and in its own the row of a new task is the last. `OutputsShared` then
  compares each task with the *first* that reported its output, which nothing changes as long
  as no rows are deleted; that two tasks agree follows (`ShareProves`). `clean_unused` and
  the deletion of what is not there are shown to delete nothing in these turns.
* All four invariants of `ProcessServer`. `SocketIsOwn` needs to know who holds
  `bitbake.lock` at each place (`LockIsTheirs`), because the socket is bound and
  unlinked only under it. `CleanStarts`, `EventsOwn` and `OneAnswerEach` rest on
  `ServerInv`: which controller a server has and in which phase of its connection, what the
  idle function and the last command are about, and how many final events are
  under way for whom.

### Only model-checked

Liveness (`Terminates`, `Collapses`, `ParsingEnds`, `NobodyStuck`, `EverybodyLeaves`,
`SomebodyGetsIn`): fairness and ENABLED are out of the prover's reach.
`ForcedOnlyAfterFailure` does not hold of every graph, and `DeferredApart` and `StampsApart` do not
with a new hash, leftover stamps or a forced task (TLC refutes them on others, see the
observations): for the builds that the two theorems do not cover, they are properties of the instance.

## Findings

Met while modelling; each is a run that TLC finds violated, and was followed by hand
in the code.

1. `rq_refused_forever`: with `BB_SETSCENE_ENFORCE` and `-k`, a refused task is
   failed without being marked as running (`lib/bb/runqueue.py:2343`). The scheduler
   offers it again in every round; the build neither continues nor ends.
   `lib/bb/main.py:206` promises that as much as possible is built "before stopping".
2. `worker_stuck`: a task that waits for room in its pipe has all signals blocked, and the
   worker that has sent it SIGTERM waits for its end instead of emptying the pipe
   (`bin/bitbake-worker:552`). A forced stop then never ends: cooker, worker and
   task wait for one another. `NobodyStuck` shows that quitting without finishnow
   does not have this problem.
3. `pr_killed`: `dispatch_message` returns from inside its `try`
   (`lib/prserv/serv.py:42`), so the `else` branch that commits is never executed. A
   server that is killed gives values again, or smaller ones, which
   `lib/prserv/db.py:27` rules out. `NeverBackwards` shows that nothing else does.

## Observations

Followed in the code, or met in a trace, but not runs of their own.

Run queue:

* a rehashed task is deferred behind `sqdata.hashes[h]` (`runqueue.py:2732`), an
  index of first hashes: two tasks that get the same new hash, one no task had at the
  start, are restored side by side (TLC: a library and two users of it with one PN), which the
  comment at `runqueue.py:2087` wants to prevent;
* without a new hash, too: of the tasks released when the one they waited for completes, the
  first becomes the one the others wait for (`runqueue.py:2090-2100`), though it may
  already be complete, settled by a leftover stamp or with a failed hard dependency. Nobody
  releases the others then by its completion; they count as waiting for a complete task and
  are candidates all at once (TLC: four multiconfigs, one with a leftover setscene stamp);
* a failed task keeps its place among those that count against `number_threads`
  (`runqueue.py:253`): with `-k` nothing else of that name is started;
* a setscene task taken back after a rehash can be skipped for its new stamp, then failed
  for a hard dependency (`runqueue.py:2742`): both covered and not, "that is a bug"
  (`runqueue.py:2156`); what is below it can then be left out as unneeded and yet be an
  input of what executes;
* the same without a rehash, found by TLC: of two multiconfigs' tasks with one stamp, one
  hash and a hard dependency, the second waits for the first. The hard dependency
  fails and takes both along, the first is executed, its completion releases the second
  (`runqueue.py:2090-2091`), and the stamp it now finds makes it covered, too
  (`runqueue.py:3153-3155`);
* with hash equivalence, a hard dependency that is started over because of a task below it
  and fails, or fails again, marks as not covered whatever has it as a hard dependency
  and is not settled, although that may be live: TLC finds a task that executes while it
  is being restored (three multiconfigs that share a recipe, the third with another hash,
  which removes the stamps the first one's restore left);
* hard dependencies are not checked for cycles (`runqueue.py:3057-3064`): with one, or with
  `--setscene-only` and nothing to restore, a build ends as failed without a failed task;
* a task refused under `BB_SETSCENE_ENFORCE` is taken off `stats.active`, which it was
  never added to, so that with `-k` more than `BB_NUMBER_THREADS` tasks can run; a
  failed restore there stops the build without recording a failed task, and it is
  reported as complete;
* after hashes are swapped two tasks may be deferred behind one another, and the
  "forcing task" branch is what resolves it;
* the same happens without a failure or a new hash if the first tasks of two groups are
  crossed: `a1` depends on `b1`, `a2` on `b2`, and `sqdata.hashes` has `a1` and `b2`. Groups
  are filled one multiconfig after the other (`runqueue.py:3102`), so it takes a
  dependency from one to another (mcdepends). If nothing can be restored, `a1` waits for `b1`, which is
  deferred behind `b2`, which waits for `a2` to be settled, which is deferred behind `a1`; TLC
  finds it on these four tasks and an image;
* and if two tasks of one group are above one ordinary task that nothing else covers: the first
  cannot be executed before that task, which is held off as long as the second is not
  settled, which waits for the first (TLC: two multiconfigs, a common task and an image);
* with `-f`, a target in two multiconfigs that share its stamp is executed in one of them: the
  other is deferred behind it, and released to be skipped for its stamp
  (`runqueue.py:2091`, `3123-3129`); the test of `configuration.force` at
  `runqueue.py:2262` is in the scan only;
* the loop below "If covered tasks are running, need to wait" (`runqueue.py:2233`) has
  no effect; other guards do its work.

Worker:

* a quit behind two queued runtasks is overtaken by the end of file, and what the
  writing thread has not written is lost;
* the writing thread tries for ever if the cooker is killed during the teardown;
* a task forked but not yet at `prctl` when the worker dies can outlive it (`orphans`);
* finishnow passes over a child that has no process group yet, and waits for any child,
  which need not be the one it signalled;
* a child that gets SIGTERM before it has its own handlers runs the worker's, which signals
  earlier tasks and empties their pipes.

Parser pool:

* `save_merge` expects `IOError` and `EOFError` (`lib/bb/cache.py:916`), but a file that was
  cut off raises `pickle.UnpicklingError`. A parser that is interrupted or
  terminated while it writes leaves such a file; this merge and all later ones fail
  until it is removed by hand, and what was merged and unlinked before it is lost;
* a parser killed while its feeder holds the lock of the pipe, or is in the middle of
  a result, stops parsing for ever (the excuse in `ParsingEnds`);
* the idle thread removes processes from the list over which a shutdown in the main
  thread iterates, and can make it pass over one;
* a stop that arrives while `updateCache` is between `cooker.py:1590` and
  `cooker.py:1633` or `1643` is overwritten by the next state and lost.

Server:

* `process.py:384` passes a list inside a list to `startswith`, a TypeError, so the loop that
  reports "Delaying shutdown" is never reached; `process.py:376` looks for the lock file's
  base name in whatever the current directory is;
* `process.py:344` calls `cooker.shutdown` with an argument it does not have; the TypeError
  is swallowed;
* `command.py:105`: the reply "Busy" reads the current command, which may have ended: a
  TypeError and no reply; `command.py:768` uses a name that is not defined;
* a stop that crosses the final event leaves the cooker in its shutdown state and fails
  the next command;
* the request of `--kill-server` can be lost, since the end of its connection is handled
  before its command is read;
* `updateFeatureSet` raises BaseException (`process.py:541`), which the retries in
  `setup_bitbake` do not catch.

Services:

* the clean-up of unused rows subtracts a negative age (`lib/hashserv/server.py:616`), so
  rows of any age are removed; `bin/bitbake-hashclient:273` documents an age;
* `insert_outhash` of the sqlite engine always returns True (`sqlite.py:447-450`, comment at
  `server.py:485-488`); an unknown task hash with an upstream server is a TypeError in
  `get_unihash` (`server.py:345-346`);
* equal outputs that are reported while a handler waits for upstream can get different
  unihashes; a backfilled value can lose to a local report made meanwhile; a kill between
  `insert_outhash` and `insert_unihash` can keep two tasks from sharing;
* an import into the PR server can give two checksums one value.

Fetches:

* a recipe with another checksum moves away a file a second recipe has verified and not
  yet unpacked (`verify_donestamp`, `rename_bad_checksum`; see the comment at
  `lib/bb/fetch2/wget.py:147`), and unpack does not look again;
* with a `file://` mirror a checksum error renames the mirror's own file
  (`lib/bb/fetch2/__init__.py:1113`); a list of mirrors ends with the first that delivers, so
  a bad one keeps a later good one from being asked; `update_stamp`'s touch can hide that
  a linked file was changed.

## Not modelled

* **Task graph preparation** (`RunQueueData.prepare`): one sequential computation
  before anything runs; the graph it gives is what the modules quantify over.
* **Text processing**: recipes and configuration (`lib/bb/parse/`, `codeparser.py`,
  `cookerdata.py`), the data store with its overrides and expansion, signatures' hashing,
  URL rewriting. Their correctness is about strings, which TLC does not enumerate to any
  use.
* **Providers and task data**: choices over large inputs by one thread.
* **The recipe cache, the file of unihashes, `persist_data`**: files of one
  process, or behind the locks that `LockFile` models.
* **I/O and network**: what each fetcher does with git, svn, npm; task execution itself
  (shells, logs); disk and pressure readings; framing, websockets, sqlalchemy.
* **Server**: XMLRPC, heartbeats, event masks and filters, tinfoil, the interfaces.
* **Metadata** (recipes, classes, `lib/oe`, self tests), vendored code (`ply`,
  `pyinotify`, toaster) and tools (`devtool`, `wic`): the larger part of the repository
  by lines. It is input of BitBake, or separate programs without shared state.

What would come next: the refinement of `RunQueue`'s worker steps by `Worker`; the file of unihashes
between two builds and `HashServ`.
