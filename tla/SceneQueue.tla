----------------------------- MODULE SceneQueue -----------------------------
(***************************************************************************)
(* The bookkeeping of the setscene half of RunQueueExecute as operators on *)
(* one record, the "scene":                                                *)
(*                                                                         *)
(*   buildable, running          sq_buildable, sq_running                  *)
(*   covered, notcovered         scenequeue_covered, scenequeue_notcovered *)
(*   notneeded                   scenequeue_notneeded                      *)
(*   done                        tasks_scenequeue_done                     *)
(*   needed                      sq_needed_harddeps                        *)
(*   parked                      sq_harddep_deferred                       *)
(*   deferred                    sq_deferred, waiting task |-> blocker     *)
(*   outright                    sqdata.outrightfail                       *)
(*   dirty                       holdoff_need_update                       *)
(*                                                                         *)
(* The methods that update it call one another (completing a task releases *)
(* a deferred one, whose stamps are looked up, which skips it, ...); here  *)
(* each takes a scene and returns the next, so that an action of RunQueue  *)
(* composes them the way the methods do.                                   *)
(*                                                                         *)
(* A stamp file is <<stamp name, kind, unihash, written by this build>>.   *)
(***************************************************************************)
EXTENDS SceneGraph

CONSTANTS
  Hashes,     \* the unihashes tasks can have
  InitHash,   \* [Tasks -> Hashes], the unihashes prepare() computed
  Fn,         \* [Tasks -> files]: the recipe (and multiconfig) of a task
  Pn,         \* [Tasks -> names]: its PN, the same in every multiconfig
  TaskName,   \* [Tasks -> names]: "do_compile", ...
  StampName,  \* [Tasks -> names]: its stamp path without hash; shared work
              \* directories give tasks of two multiconfigs the same one
  NoExec,     \* tasks flagged noexec
  Nostamp     \* tasks flagged nostamp

ASSUME SceneAssumption ==
  /\ InitHash \in [Tasks -> Hashes]
  /\ NoExec \subseteq Tasks
  /\ Nostamp \subseteq Tasks

Kinds == {"run", "setscene"}

SceneType ==
  [buildable : SUBSET Setscene, running : SUBSET Setscene,
   covered : SUBSET Setscene, notcovered : SUBSET Setscene,
   notneeded : SUBSET Setscene, done : SUBSET Tasks,
   needed : SUBSET Setscene, parked : SUBSET Setscene,
   deferred : UNION {[D -> Setscene] : D \in SUBSET Setscene},
   outright : SUBSET Setscene, dirty : BOOLEAN]

-----------------------------------------------------------------------------
(* Stamps on disk (build.py, siggen.py, RunQueue.check_stamp_task).        *)

\* siggen.stampfile_mcfn: the stamp's name holds the current unihash.
StampFile(t, kind, uh) == <<StampName[t], kind, uh[t]>>

HasStamp(files, t, kind, uh) ==
  \E new \in BOOLEAN : <<StampName[t], kind, uh[t], new>> \in files

NewStamp(files, t, kind, uh) == <<StampName[t], kind, uh[t], TRUE>> \in files

\* make_stamp: drop every stamp of the task (the plain one clears the setscene
\* stamp too, the setscene one only its own kind), then create the new one.
MakeStamp(files, t, kind, h) ==
  {f \in files : ~(f[1] = StampName[t] /\ (kind = "run" \/ f[2] = kind))}
    \cup {<<StampName[t], kind, h, TRUE>>}

\* check_stamp_task looks at a dependency's stamp only within the same recipe,
\* and not when a setscene stamp stands in for it.
ComparesStamp(files, t, d, uh) ==
  /\ Fn[t] = Fn[d]
  /\ HasStamp(files, d, "setscene", uh) =>
       /\ HasStamp(files, d, "run", uh)
       /\ NewStamp(files, d, "setscene", uh) => NewStamp(files, d, "run", uh)

\* check_stamp_task(tid, taskname): a stamp of the current hash, not older than
\* those of the recipe's tasks it depends on.
StampCurrent(files, t, uh) ==
  /\ t \notin Nostamp
  /\ HasStamp(files, t, "run", uh)
  /\ \A d \in Depends[t] : ComparesStamp(files, t, d, uh) =>
       /\ HasStamp(files, d, "run", uh)
       /\ NewStamp(files, d, "run", uh) => NewStamp(files, t, "run", uh)

\* check_stamp_task(..., recurse = True)
StampCurrentDeep(files, t, uh) ==
  LET Deep[u \in Tasks] ==
        /\ StampCurrent(files, u, uh)
        /\ \A d \in Depends[u] : ComparesStamp(files, u, d, uh) => Deep[d]
  IN Deep[t]

\* check_stamp_task(tid, taskname + "_setscene")
SetsceneStampCurrent(files, t, uh) == HasStamp(files, t, "setscene", uh)

\* check_setscene_stamps: noexec, or a stamp of either kind, settles the task.
SettledByStamps(files, t, uh) ==
  \/ t \in NoExec
  \/ SetsceneStampCurrent(files, t, uh)
  \/ StampCurrentDeep(files, t, uh)

\* check_setscene_stamps writes the stamp of a noexec setscene task.
StampNoExec(files, S, uh) ==
  {f \in files : ~\E t \in S \cap NoExec :
                     f[1] = StampName[t] /\ f[2] = "setscene"}
    \cup {<<StampName[t], "setscene", uh[t], TRUE>> : t \in S \cap NoExec}

-----------------------------------------------------------------------------
(* Shared state and deferral by hash.                                      *)

\* The name of a task's object in the shared state cache.
SstateObject(t, h) == <<Pn[t], TaskName[t], h>>

\* pending_hash_index: PN and hash; the code's task name is a literal.
PendingIndex(t, h) == <<Pn[t], h>>

\* sqdata.hashes, filled once from the initial hashes: the task other tasks
\* with the same index are deferred behind.
Sharing(i) == {t \in Setscene : PendingIndex(t, InitHash[t]) = i}
Leader(i) == FirstOf(Sharing(i))

\* Mutant: nothing is deferred.
NothingDeferred == [t \in {} |-> t]

\* What sq_deferred starts with.
InitiallyDeferred ==
  [t \in {u \in Setscene : Leader(PendingIndex(u, InitHash[u])) # u} |->
     Leader(PendingIndex(t, InitHash[t]))]

Without(f, S) == [t \in DOMAIN f \ S |-> f[t]]

-----------------------------------------------------------------------------
(* scenequeue_updatecounters and the sq_task_* methods around it.          *)

Resolved(s) == s.covered \cup s.notcovered

\* The ordinary tasks that become "done" because the setscene tasks K did: those
\* below K whose reverse dependencies are all done by then.
NewlyDone(done, K) ==
  LET New[t \in Tasks] ==
        /\ t \notin Setscene \cup done
        /\ \A r \in RevDeps(t) : r \in done \cup K \/ New[r]
        /\ \E r \in RevDeps(t) : r \in K \/ New[r]
  IN {t \in Tasks : New[t]}

\* Mutant: forgets that the hold-off sets are stale.
UpdateCountersQuietly(s, K) ==
  [s EXCEPT
     !.buildable = @ \cup {d \in Setscene : /\ SqRevdeps(d) \cap K # {}
                                            /\ SqRevdeps(d) \subseteq Resolved(s)},
     !.done = @ \cup K \cup NewlyDone(@, K),
     !.parked = {d \in @ : ~(HardDeps[d] \subseteq Resolved(s))}]

\* scenequeue_updatecounters for the tasks K, just moved to covered/notcovered.
UpdateCounters(s, K) ==
  [s EXCEPT
     !.buildable = @ \cup {d \in Setscene : /\ SqRevdeps(d) \cap K # {}
                                            /\ SqRevdeps(d) \subseteq Resolved(s)},
     !.done = @ \cup K \cup NewlyDone(@, K),
     !.parked = IF \E d \in Setscene : HardDeps[d] \cap K # {}
                THEN {d \in @ : ~(HardDeps[d] \subseteq Resolved(s))}
                ELSE @,
     !.dirty = @ \/ K # {}]

\* sq_task_completeoutright
CoverScene(s, K) == UpdateCounters([s EXCEPT !.covered = @ \cup K], K)

\* sq_task_skip
SkipScene(s, K) ==
  CoverScene([s EXCEPT !.running = @ \cup K, !.buildable = @ \cup K], K)

\* Mutant: does not ask whether a task has been dealt with already.
FailClosureAll(s, F, settled) ==
  LET Doomed[t \in Setscene] ==
        t \in F \/ (t \notin settled /\ \E h \in HardDeps[t] : Doomed[h])
  IN {t \in Setscene : Doomed[t]}

\* What failing F drags along: unresolved tasks with a hard dependency on a
\* failed one, unless their stamps settle them (settled).
FailClosure(s, F, settled) ==
  LET Doomed[t \in Setscene] ==
        \/ t \in F
        \/ /\ t \notin Resolved(s) \cup settled
           /\ \E h \in HardDeps[t] : Doomed[h]
  IN {t \in Setscene : Doomed[t]}

\* sq_task_fail marks t itself only as not covered, what it drags along as
\* run and buildable too; sq_task_failoutright marks all of them.
FailScene(s, F, outright, settled) ==
  LET K == FailClosure(s, F, settled)
      marked == IF outright THEN K ELSE K \ F
  IN UpdateCounters([s EXCEPT !.notcovered = @ \cup K,
                              !.running = @ \cup marked,
                              !.buildable = @ \cup marked], K)

\* update_scenequeue_data(tids): skip what the stamps settle, and mark as
\* hopeless what has no object in the cache and is not waiting for another.
UpdateScene(s, tids, files, uh, cache) ==
  LET skipped == {t \in tids : SettledByStamps(files, t, uh)}
      valid == {t \in tids \ skipped : SstateObject(t, uh[t]) \in cache}
      s1 == SkipScene(s, skipped)
  IN [s1 EXCEPT !.outright =
        (@ \ tids) \cup (tids \ (skipped \cup valid \cup Resolved(s1)
                                    \cup DOMAIN s1.deferred))]

\* The end of task_completeoutright: of the tasks deferred behind t the first
\* may go, the others queue up behind that one.
Waiting(s, t) == {d \in DOMAIN s.deferred : s.deferred[d] = t}
Released(s, t) == IF Waiting(s, t) = {} THEN {} ELSE {FirstOf(Waiting(s, t))}

ReleaseDeferred(s, t, files, uh, cache) ==
  LET first == FirstOf(Waiting(s, t))
      rest == [d \in DOMAIN s.deferred \ {first} |->
                 IF s.deferred[d] = t THEN first ELSE s.deferred[d]]
  IN IF Waiting(s, t) = {} THEN s
     ELSE UpdateScene([s EXCEPT !.deferred = rest], {first}, files, uh, cache)

\* RunQueueExecute.__init__: build_scenequeue_data, then update_scenequeue_data
\* for every setscene task.
InitialScene(files, cache) ==
  UpdateScene(
    [buildable |-> {t \in Setscene : SqRevdeps(t) = {}},
     running |-> {}, covered |-> {}, notcovered |-> {}, notneeded |-> {},
     done |-> Unskippable \ Setscene,
     needed |-> {}, parked |-> {}, deferred |-> InitiallyDeferred,
     outright |-> {}, dirty |-> TRUE],
    Setscene, files, InitHash, cache)
=============================================================================
