--------------------------- MODULE RunQueueOrder ---------------------------
(***************************************************************************)
(* What the worker has and what the cooker's books say of it, for every    *)
(* task graph, mode and number of threads: nothing a restore covers runs   *)
(* while it is restored, stats.active counts what is with the worker, and  *)
(* the run queue implements module BuildOrder.                             *)
(*                                                                         *)
(* The invariant: each task the worker has, or has reported and the cooker *)
(* not read, is there once (OneToken); the books have it as live or as     *)
(* started and not complete (Accounted); what is live is not settled       *)
(* (LiveSound); nothing started may still be restored or be covered by a   *)
(* restore (CoverSound), which rests on the hold-off set being fresh where *)
(* the scheduler uses it.                                                  *)
(***************************************************************************)
EXTENDS RunQueueProofs, FiniteSetTheorems

-----------------------------------------------------------------------------
(* The exit messages in a pipe.                                            *)

ExitsAt(p) == {k \in 1..Len(p) : p[k].type = "exit"}
ExitsOf(p) == {p[i].tid : i \in ExitsAt(p)}
Once(p) == \A i, k \in ExitsAt(p) : p[i].tid = p[k].tid => i = k

LEMMA TailExits ==
  ASSUME NEW p \in Seq(Messages), p # <<>>, Once(p)
  PROVE  /\ Once(Tail(p))
         /\ Head(p).type = "exit" => /\ ExitsOf(Tail(p)) = ExitsOf(p) \ {Head(p).tid}
                                     /\ Head(p).tid \in ExitsOf(p)
         /\ Head(p).type # "exit" => ExitsOf(Tail(p)) = ExitsOf(p)
<1>1. /\ Len(p) \in Nat \ {0} /\ Len(Tail(p)) = Len(p) - 1 /\ Head(p) = p[1]
      /\ \A i \in 1..Len(Tail(p)) : Tail(p)[i] = p[i + 1]
  OBVIOUS
<1> DEFINE q == Tail(p)
<1>2. Len(q) = Len(p) - 1 /\ \A i \in 1..Len(q) : q[i] = p[i + 1]
  BY <1>1
<1> HIDE DEF q
<1>3. \A i \in ExitsAt(q) : i + 1 \in ExitsAt(p) /\ q[i] = p[i + 1] /\ i \in Nat \ {0}
  BY <1>1, <1>2 DEF ExitsAt
<1>4. \A i \in ExitsAt(p) : i = 1 \/ (i - 1 \in ExitsAt(q) /\ q[i - 1] = p[i])
  BY <1>1, <1>2 DEF ExitsAt
<1>5. Once(q)
  BY <1>3 DEF Once
<1>6. ASSUME p[1].type = "exit"
      PROVE  1 \in ExitsAt(p)
  BY <1>1, <1>6 DEF ExitsAt
<1>7. ASSUME p[1].type # "exit"
      PROVE  1 \notin ExitsAt(p)
  BY <1>7 DEF ExitsAt
<1>8. ExitsOf(q) \subseteq ExitsOf(p)
  BY <1>3 DEF ExitsOf
<1>9. ExitsOf(p) \subseteq ExitsOf(q) \cup {p[1].tid}
  BY <1>4 DEF ExitsOf
<1>10. ASSUME p[1].type = "exit"
       PROVE  ExitsOf(q) = ExitsOf(p) \ {p[1].tid} /\ p[1].tid \in ExitsOf(p)
  <2>1. 1 \in ExitsAt(p)
    BY <1>6, <1>10
  <2>2. p[1].tid \notin ExitsOf(q)
    <3> SUFFICES ASSUME NEW i \in ExitsAt(q), q[i].tid = p[1].tid PROVE FALSE
      BY DEF ExitsOf
    <3>1. QED
      BY <1>3, <2>1 DEF Once
  <2>3. QED
    BY <1>8, <1>9, <2>1, <2>2 DEF ExitsOf
<1>11. ASSUME p[1].type # "exit"
       PROVE  ExitsOf(p) \subseteq ExitsOf(q)
  BY <1>4, <1>7, <1>11 DEF ExitsOf
<1>12. QED
  BY <1>1, <1>5, <1>8, <1>10, <1>11 DEF q

LEMMA AppendExits ==
  ASSUME NEW p \in Seq(Messages), NEW m \in Messages, Once(p)
  PROVE  /\ m.type # "exit" => Once(Append(p, m)) /\ ExitsOf(Append(p, m)) = ExitsOf(p)
         /\ m.type = "exit" => ExitsOf(Append(p, m)) = ExitsOf(p) \cup {m.tid}
         /\ m.type = "exit" /\ m.tid \notin ExitsOf(p) => Once(Append(p, m))
<1> DEFINE q == Append(p, m)
           n == Len(p) + 1
<1>1. /\ Len(p) \in Nat /\ Len(q) = n /\ q[n] = m
      /\ \A i \in 1..Len(p) : q[i] = p[i]
  OBVIOUS
<1> HIDE DEF q
<1>2. \A i \in ExitsAt(p) : i \in ExitsAt(q) /\ q[i] = p[i] /\ i # n
  BY <1>1 DEF ExitsAt
<1>3. \A i \in ExitsAt(q) : (i \in ExitsAt(p) /\ q[i] = p[i]) \/ i = n
  BY <1>1 DEF ExitsAt
<1>4. n \in ExitsAt(q) <=> m.type = "exit"
  BY <1>1 DEF ExitsAt
<1>5. q[n] = m
  BY <1>1
<1> HIDE DEF n
<1>6. ASSUME m.type # "exit"
      PROVE  Once(q) /\ ExitsOf(q) = ExitsOf(p)
  BY <1>2, <1>3, <1>4, <1>6 DEF Once, ExitsOf
<1>7. ASSUME m.type = "exit"
      PROVE  ExitsOf(q) = ExitsOf(p) \cup {m.tid}
  <2>1. \A x \in ExitsOf(p) : x \in ExitsOf(q)
    BY <1>2 DEF ExitsOf
  <2>2. m.tid \in ExitsOf(q)
    BY <1>4, <1>5, <1>7 DEF ExitsOf
  <2>3. \A x \in ExitsOf(q) : x \in ExitsOf(p) \/ x = m.tid
    BY <1>3, <1>5 DEF ExitsOf
  <2>4. QED
    BY <2>1, <2>2, <2>3
<1>8. ASSUME m.type = "exit", m.tid \notin ExitsOf(p)
      PROVE  Once(q)
  <2> SUFFICES ASSUME NEW i \in ExitsAt(q), NEW k \in ExitsAt(q), q[i].tid = q[k].tid
               PROVE  i = k
    BY DEF Once
  <2>1. \A x \in ExitsAt(p) : p[x].tid # m.tid
    BY <1>8 DEF ExitsOf
  <2>2. QED
    BY <1>3, <1>5, <2>1 DEF Once
<1>9. QED
  BY <1>6, <1>7, <1>8 DEF q

-----------------------------------------------------------------------------
LEMMA UndeferredSettles ==
  ASSUME NEW s \in SceneType, NEW t
  PROVE  /\ Undeferred(s, t) \in SceneType
         /\ Settles(s, Undeferred(s, t), {}, {}, {})
         /\ t \notin DOMAIN Undeferred(s, t).deferred
<1>1. Undeferred(s, t) \in SceneType
  BY UndeferredType
<1> DEFINE f == Without(s.deferred, {t})
<1>2. DOMAIN f \subseteq DOMAIN s.deferred /\ t \notin DOMAIN f
  BY DEF Without
<1> HIDE DEF f
<1>3. Undeferred(s, t) = [s EXCEPT !.deferred = f]
  BY DEF Undeferred, f
<1>4. QED
  BY <1>1, <1>2, <1>3 DEF Settles, SceneType

-----------------------------------------------------------------------------
(* What is with the worker, and what the books say of it.                  *)

ExitTids == ExitsOf(pipe)

\* A task is with the worker once, or its exit code is on the way once.
OneToken ==
  /\ \A i, j \in jobs : i.tid = j.tid => i = j
  /\ \A j \in jobs : j.tid \notin ExitTids
  /\ Once(pipe)

\* The books know of it: as being restored, or as started and not complete.
Accounted ==
  /\ ExitTids \subseteq sq_live \cup (runq_running \ runq_complete)
  /\ Restoring \subseteq sq_live
  /\ Executing \subseteq runq_running \ runq_complete

\* What is being restored is not settled, and will not be while it is.
LiveSound ==
  /\ sq_live \subseteq scene.running
  /\ Resolved(scene) \subseteq scene.running
  /\ sq_live \cap Resolved(scene) = {}
  /\ sq_live \cap DOMAIN scene.deferred = {}
  /\ \A t \in sq_live : HardDeps[t] \subseteq Resolved(scene)

\* The hold-off set holds what may still be restored, and what that would cover.
HoldoffFresh ==
  \A t \in Setscene \ Resolved(scene) :
    t \in holdoff_tasks /\ SqCovered(t) \subseteq holdoff_tasks \cup runq_complete

\* Nothing started may still be restored, or covered by a restore.
CoverSound ==
  /\ runq_complete \subseteq runq_running
  /\ Setscene \cap runq_running \subseteq Resolved(scene)
  /\ \A t \in Setscene \ Resolved(scene) : \A d \in SqCovered(t) : ~Busy(d)
  /\ ~scene.dirty => HoldoffFresh
  /\ pc = "sched" => ~scene.dirty
  /\ pc = "init" => sq_live = {} /\ runq_running = {}

-----------------------------------------------------------------------------

LEMMA SameTokens ==
  ASSUME OneToken, Accounted,
         UNCHANGED <<jobs, pipe, sq_live, runq_running, runq_complete>>
  PROVE  OneToken' /\ Accounted'
BY DEF OneToken, Accounted, ExitTids, Restoring, Executing

\* A step that settles tasks which are not being restored.
SceneStep ==
  /\ Resolved(scene) \subseteq Resolved(scene')
  /\ scene.running \subseteq scene'.running
  /\ Resolved(scene') \subseteq scene'.running
  /\ Resolved(scene') \cap sq_live' = {}
  /\ DOMAIN scene'.deferred \subseteq DOMAIN scene.deferred
  /\ ~scene'.dirty => ~scene.dirty /\ Resolved(scene') = Resolved(scene)

LEMMA SettlesSceneStep ==
  ASSUME LiveSound, NEW C, NEW N, NEW M, Settles(scene, scene', C, N, M),
         C \cup N \subseteq M \cup scene.running,
         sq_live' \subseteq sq_live, (C \cup N) \cap sq_live' = {}
  PROVE  SceneStep
BY DEF LiveSound, Settles, SceneStep, Resolved

LEMMA SameSceneStep ==
  ASSUME LiveSound, UNCHANGED scene, sq_live' \subseteq sq_live
  PROVE  SceneStep
BY DEF LiveSound, SceneStep

LEMMA SceneStepKeeps ==
  ASSUME LiveSound, CoverSound, SceneStep, sq_live' \subseteq sq_live,
         UNCHANGED holdoff_tasks, runq_complete \subseteq runq_complete',
         runq_complete' \subseteq runq_running',
         runq_running' \ runq_complete' \subseteq runq_running \ runq_complete,
         Setscene \cap runq_running' \subseteq Resolved(scene),
         pc' = "sched" => ~scene'.dirty, pc' # "init"
  PROVE  LiveSound' /\ CoverSound'
<1>1. LiveSound'
  BY DEF LiveSound, SceneStep
<1>2. \A d : Busy(d)' => Busy(d)
  BY DEF Busy
<1>3. \A t \in Setscene \ Resolved(scene') : \A d \in SqCovered(t) : ~Busy(d)'
  BY <1>2 DEF CoverSound, SceneStep
<1>4. ~scene'.dirty => HoldoffFresh'
  BY DEF CoverSound, SceneStep, HoldoffFresh
<1>5. QED
  BY <1>1, <1>3, <1>4 DEF CoverSound, SceneStep

\* A step that only moves the cooker along.
LEMMA IdleStepKeeps ==
  ASSUME LiveSound, CoverSound,
         UNCHANGED <<scene, sq_live, holdoff_tasks, runq_running, runq_complete>>,
         pc' = "sched" => ~scene.dirty, pc' # "init" \/ pc = "init"
  PROVE  LiveSound' /\ CoverSound'
BY DEF LiveSound, CoverSound, HoldoffFresh, Busy

Sound == OneToken /\ Accounted /\ LiveSound /\ CoverSound

LEMMA InitialSceneSettles ==
  ASSUME NEW disk, NEW cache
  PROVE  LET s == InitialScene(disk, cache)
         IN  Resolved(s) \subseteq s.running /\ s.dirty = TRUE
<1> DEFINE s0 == [buildable |-> {t \in Setscene : SqRevdeps(t) = {}},
                  running |-> {}, covered |-> {}, notcovered |-> {}, notneeded |-> {},
                  done |-> Unskippable \ Setscene,
                  needed |-> {}, parked |-> {}, deferred |-> InitiallyDeferred,
                  outright |-> {}, dirty |-> TRUE]
<1>1. s0 \in SceneType
  <2>1. InitiallyDeferred \in UNION {[D -> Setscene] : D \in SUBSET Setscene}
    BY InitiallyDeferredType DEF Deferrals
  <2>2. Unskippable \ Setscene \subseteq Tasks
    BY DEF Unskippable
  <2>3. QED
    BY <2>1, <2>2 DEF SceneType
<1>2. s0.covered = {} /\ s0.notcovered = {} /\ s0.running = {} /\ s0.dirty = TRUE
  OBVIOUS
<1>3. InitialScene(disk, cache) = UpdateScene(s0, Setscene, disk, InitHash, cache)
  BY DEF InitialScene
<1> HIDE DEF s0
<1>4. PICK K : Settles(s0, UpdateScene(s0, Setscene, disk, InitHash, cache), K, {}, K)
  BY <1>1, UpdateSceneSettles
<1>5. QED
  BY <1>2, <1>3, <1>4 DEF Settles, Resolved

LEMMA ControlSound == TypeOK /\ StartedBuildable /\ Sound /\ Control => Sound'
<1> SUFFICES ASSUME TypeOK, StartedBuildable, Sound, Control PROVE Sound'
  OBVIOUS
<1>1. UNCHANGED <<jobs, pipe, sq_live, runq_running, runq_complete, holdoff_tasks>>
  BY DEF Control, SceneInit, StopBeforeInit, IdleForce, IdleShutdown, Idle,
         AfterExecute, Finish, BuildDone, Return, sceneVars, coverVars, runqVars,
         workerVars
<1>2. OneToken' /\ Accounted'
  BY <1>1, SameTokens DEF Sound
<1>3. CASE SceneInit
  <2>1. pc = "init" /\ pc' = "poll" /\ scene' = InitialScene(files', sstate)
    BY <1>3 DEF SceneInit
  <2>2. Resolved(scene') \subseteq scene'.running /\ scene'.dirty = TRUE
    BY <2>1, InitialSceneSettles
  <2>3. sq_live = {} /\ runq_running = {} /\ runq_complete = {}
    BY <2>1 DEF Sound, CoverSound
  <2>4. LiveSound'
    BY <1>1, <2>2, <2>3 DEF LiveSound
  <2>5. CoverSound'
    BY <1>1, <2>1, <2>2, <2>3 DEF CoverSound, Busy
  <2>6. QED
    BY <1>2, <2>4, <2>5 DEF Sound
<1>4. CASE StopBeforeInit \/ IdleForce \/ IdleShutdown \/ Idle \/ AfterExecute
             \/ Finish \/ BuildDone \/ Return
  <2>1. UNCHANGED scene
    BY <1>4 DEF StopBeforeInit, IdleForce, IdleShutdown, Idle, AfterExecute, Finish,
                BuildDone, Return, sceneVars
  <2>2. pc' # "sched" /\ pc' # "init"
    BY <1>4 DEF StopBeforeInit, IdleForce, IdleShutdown, Idle, AfterExecute, Finish,
                BuildDone, Return, Goto
  <2>3. LiveSound' /\ CoverSound'
    BY <1>1, <2>1, <2>2, IdleStepKeeps DEF Sound
  <2>4. QED
    BY <1>2, <2>3 DEF Sound
<1>5. QED
  BY <1>3, <1>4 DEF Control

\* An exit code is read: it was the one of its task, and no process of it is left.
LEMMA ExitedOnce ==
  ASSUME TypeOK, Sound, NEW t \in Tasks, NEW ok \in BOOLEAN, Exited(t, ok),
         UNCHANGED jobs
  PROVE  /\ t \in ExitTids /\ ExitTids' = ExitTids \ {t}
         /\ t \notin Executing \cup Restoring
         /\ Executing' = Executing /\ Restoring' = Restoring
         /\ OneToken'
<1>1. pipe \in Seq(Messages) /\ pipe # <<>> /\ Once(pipe)
  BY DEF Exited, TypeOK, WorkerType, Sound, OneToken
<1>2. /\ Head(pipe).type = "exit" /\ Head(pipe).tid = t /\ pipe' = Tail(pipe)
  BY DEF Exited
<1>3. /\ ExitsOf(pipe') = ExitsOf(pipe) \ {t} /\ t \in ExitsOf(pipe)
      /\ Once(pipe')
  BY <1>1, <1>2, TailExits
<1>4. Executing' = Executing /\ Restoring' = Restoring
  BY DEF Executing, Restoring
<1>5. t \notin Executing \cup Restoring
  BY <1>3 DEF Sound, OneToken, ExitTids, Executing, Restoring
<1>6. OneToken'
  BY <1>3 DEF Sound, OneToken, ExitTids
<1>7. QED
  BY <1>3, <1>4, <1>5, <1>6 DEF ExitTids

\* task_completeoutright may skip the deferred tasks it releases: none is live.
LEMMA CompleteOutrightSceneStep ==
  ASSUME TypeOK, LiveSound, NEW t, NEW extra, NEW disk,
         CompleteOutright(t, extra, disk), UNCHANGED sq_live
  PROVE  SceneStep
<1>1. scene \in SceneType
  BY DEF TypeOK, SceneVarsType
<1>2. scene' = ReleaseDeferred(scene, t, disk, unihash, sstate)
  BY DEF CompleteOutright
<1>3. PICK K \in SUBSET (Setscene \cap DOMAIN scene.deferred) :
        Settles(scene, scene', K, {}, K)
  BY <1>1, <1>2, ReleaseDeferredSettles
<1>4. /\ K \cup {} \subseteq K \cup scene.running
      /\ (K \cup {}) \cap sq_live' = {} /\ sq_live' \subseteq sq_live
  BY DEF LiveSound
<1>5. QED
  BY <1>3, <1>4, SettlesSceneStep

LEMMA ReadSuccessSound ==
  ASSUME TypeOK, Sound, NEW t \in Tasks, ReadSuccess(t)
  PROVE  Sound'
<1>1. /\ Exited(t, TRUE) /\ t \notin sq_live /\ CompleteOutright(t, {}, files)
      /\ UNCHANGED <<pc, sq_live, holdoff_tasks, runq_running, jobs>>
      /\ runq_complete' = runq_complete \cup {t}
  BY DEF ReadSuccess, CompleteOutright, controlVars, coverVars
<1>2. /\ t \in ExitTids /\ ExitTids' = ExitTids \ {t}
      /\ t \notin Executing \cup Restoring
      /\ Executing' = Executing /\ Restoring' = Restoring /\ OneToken'
  BY <1>1, ExitedOnce
<1>3. t \in runq_running \ runq_complete
  BY <1>1, <1>2 DEF Sound, Accounted
<1>4. Accounted'
  BY <1>1, <1>2 DEF Sound, Accounted
<1>5. SceneStep
  BY <1>1, CompleteOutrightSceneStep DEF Sound
<1>6. pc = "read"
  BY <1>1 DEF Exited
<1>7. LiveSound' /\ CoverSound'
  <2>1. /\ runq_complete' \subseteq runq_running'
        /\ runq_running' \ runq_complete' \subseteq runq_running \ runq_complete
        /\ Setscene \cap runq_running' \subseteq Resolved(scene)
    BY <1>1, <1>3 DEF Sound, CoverSound
  <2>2. QED
    BY <1>1, <1>5, <1>6, <2>1, SceneStepKeeps DEF Sound
<1>8. QED
  BY <1>2, <1>4, <1>7 DEF Sound

LEMMA ReadFailureSound ==
  ASSUME TypeOK, Sound, NEW t \in Tasks, ReadFailure(t)
  PROVE  Sound'
<1>1. /\ Exited(t, FALSE)
      /\ UNCHANGED <<pc, scene, sq_live, holdoff_tasks, runq_running, runq_complete, jobs>>
  BY DEF ReadFailure, sceneVars, coverVars, runqVars
<1>2. /\ ExitTids' = ExitTids \ {t}
      /\ Executing' = Executing /\ Restoring' = Restoring /\ OneToken'
  BY <1>1, ExitedOnce
<1>3. Accounted'
  BY <1>1, <1>2 DEF Sound, Accounted
<1>4. pc = "read"
  BY <1>1 DEF Exited
<1>5. LiveSound' /\ CoverSound'
  BY <1>1, <1>4, IdleStepKeeps DEF Sound
<1>6. QED
  BY <1>2, <1>3, <1>5 DEF Sound

LEMMA ReadSetsceneExitSound ==
  ASSUME TypeOK, Sound, NEW t \in Tasks, NEW ok \in BOOLEAN, ReadSetsceneExit(t, ok)
  PROVE  Sound'
<1>1. /\ Exited(t, ok) /\ t \in sq_live /\ sq_live' = sq_live \ {t}
      /\ scene' = IF ok THEN CoverScene(scene, {t})
                  ELSE FailScene(scene, {t}, FALSE, Settled)
      /\ UNCHANGED <<pc, holdoff_tasks, runq_running, runq_complete, jobs>>
  BY DEF ReadSetsceneExit, coverVars, runqVars
<1>2. /\ ExitTids' = ExitTids \ {t}
      /\ t \notin Executing \cup Restoring
      /\ Executing' = Executing /\ Restoring' = Restoring /\ OneToken'
  BY <1>1, ExitedOnce
<1>3. Accounted'
  BY <1>1, <1>2 DEF Sound, Accounted
<1>4. pc = "read"
  BY <1>1 DEF Exited
<1>5. scene \in SceneType /\ t \in Setscene /\ sq_live \subseteq Setscene
  BY <1>1 DEF TypeOK, SceneVarsType
<1>6. t \in scene.running /\ t \notin Resolved(scene)
  BY <1>1 DEF Sound, LiveSound
<1>7. SceneStep
  <2>1. CASE ok
    <3>1. Settles(scene, scene', {t}, {}, {})
      BY <1>1, <1>5, <2>1, CoverSceneSettles
    <3>2. QED
      BY <1>1, <1>6, <3>1, SettlesSceneStep DEF Sound
  <2>2. CASE ~ok
    <3> DEFINE K == FailClosure(scene, {t}, Settled)
    <3>1. Settles(scene, scene', {}, K, K \ {t})
      BY <1>1, <1>5, <2>2, FailSceneSettles
    <3>2. ASSUME NEW u \in sq_live, u # t
          PROVE  u \notin K
      <4>1. HardDeps[u] \subseteq Resolved(scene) \ {t}
        BY <1>6 DEF Sound, LiveSound
      <4>2. QED
        BY <1>5, <3>2, <4>1, FailClosureSpares
    <3> HIDE DEF K
    <3>3. /\ {} \cup K \subseteq (K \ {t}) \cup scene.running
          /\ ({} \cup K) \cap sq_live' = {} /\ sq_live' \subseteq sq_live
      BY <1>1, <1>6, <3>2
    <3>4. LiveSound
      BY DEF Sound
    <3>5. QED
      BY <3>1, <3>3, <3>4, SettlesSceneStep
  <2>3. QED
    BY <2>1, <2>2
<1>8. LiveSound' /\ CoverSound'
  <2>1. /\ runq_complete' \subseteq runq_running'
        /\ Setscene \cap runq_running' \subseteq Resolved(scene)
    BY <1>1 DEF Sound, CoverSound
  <2>2. QED
    BY <1>1, <1>4, <1>7, <2>1, SceneStepKeeps DEF Sound
<1>9. QED
  BY <1>2, <1>3, <1>8 DEF Sound

LEMMA ReadsSound == TypeOK /\ Sound /\ Reads => Sound'
<1> SUFFICES ASSUME TypeOK, Sound, Reads PROVE Sound'
  OBVIOUS
<1>1. CASE Poll \/ ReadDone
  <2>1. UNCHANGED <<jobs, pipe, sq_live, runq_running, runq_complete, scene, holdoff_tasks>>
    BY <1>1 DEF Poll, ReadDone, sceneVars, coverVars, runqVars
  <2>2. pc' # "sched" /\ pc' # "init"
    <3>1. CASE Poll
      BY <3>1 DEF Poll, Goto
    <3>2. CASE ReadDone
      <4>1. pc' = CASE reading = "top" -> "migrate"
                    [] reading = "tail" -> "after"
                    [] reading = "finish" -> "build_done"
                    [] reading = "teardown" -> "return"
        BY <3>2 DEF ReadDone, Goto
      <4>2. reading \in {"top", "tail", "finish", "teardown"}
        BY DEF TypeOK, ControlType
      <4>3. pc' \in {"migrate", "after", "build_done", "return"}
        BY <4>1, <4>2, Zenon
      <4>4. QED
        BY <4>3
    <3>3. QED
      BY <1>1, <3>1, <3>2
  <2>3. QED
    BY <2>1, <2>2, SameTokens, IdleStepKeeps DEF Sound
<1>2. CASE ReadEvent
  <2>1. UNCHANGED <<jobs, pc, sq_live, runq_running, runq_complete, scene, holdoff_tasks>>
    BY <1>2 DEF ReadEvent, controlVars, sceneVars, coverVars, runqVars
  <2>2. ExitsOf(pipe') = ExitsOf(pipe) /\ Once(pipe')
    <3>1. pipe \in Seq(Messages) /\ pipe # <<>> /\ Once(pipe)
      BY <1>2 DEF ReadEvent, TypeOK, WorkerType, Sound, OneToken
    <3>2. Head(pipe).type = "event" /\ pipe' = Tail(pipe)
      BY <1>2 DEF ReadEvent
    <3>3. QED
      BY <3>1, <3>2, TailExits
  <2>3. OneToken' /\ Accounted'
    BY <2>1, <2>2 DEF Sound, OneToken, Accounted, ExitTids, Restoring, Executing
  <2>4. pc = "read"
    BY <1>2 DEF ReadEvent
  <2>5. QED
    BY <2>1, <2>3, <2>4, IdleStepKeeps DEF Sound
<1>3. QED
  BY <1>1, <1>2, ReadSuccessSound, ReadFailureSound, ReadSetsceneExitSound DEF Reads

-----------------------------------------------------------------------------
(* Tasks taken back because their hashes changed.                          *)

HardDepsStay == \A t \in Setscene : HardDeps[t] \cap pending_migrations = {}

NoNews ==
  MaxRehash = 0 =>
    /\ updated_taskhash_queue = {} /\ pending_migrations = {}
    /\ \A i \in 1..Len(pipe) : pipe[i].type # "event"

\* s is s0 after the tasks R started over, K of them were skipped at once and N
\* failed with a hard dependency.
RestartedAs(s0, s, R, K, N) ==
  /\ Resolved(s) = (Resolved(s0) \ R) \cup K \cup N
  /\ s.running = (s0.running \ R) \cup K \cup N
  /\ DOMAIN s.deferred \subseteq DOMAIN s0.deferred \cup R
  /\ \A t \in Setscene \ R : HardDeps[t] \subseteq Resolved(s0) \ R => t \notin N

LEMMA RestartSettles ==
  ASSUME NEW s0 \in SceneType, NEW R, R \subseteq Setscene, NEW uh, NEW disk,
         runq_complete \in SUBSET Tasks
  PROVE  \E K \in SUBSET R, N \in SUBSET Setscene :
           RestartedAs(s0, Restart(s0, R, uh, disk), R, K, N)
<1> DEFINE s == Reset(s0, R)
           failed == {t \in R : HardDepFail(s, t)}
           Leads(t) == /\ Sharing(PendingIndex(t, uh[t])) # {}
                       /\ Leader(PendingIndex(t, uh[t])) # t
           buildable == s.buildable \cup
                          {t \in R : \/ SqRevdeps(t) = {}
                                     \/ /\ t \notin failed
                                        /\ SqRevdeps(t) \subseteq Resolved(s)}
           D == DOMAIN s.deferred \cup {u \in R : Leads(u)}
           deferred == [t \in D |-> IF t \in R /\ Leads(t)
                                    THEN Leader(PendingIndex(t, uh[t]))
                                    ELSE s.deferred[t]]
           s1 == [s EXCEPT !.buildable = buildable, !.deferred = deferred]
           s2 == UpdateScene(s1, R, disk, uh, sstate)
           settled == {t \in Setscene : SettledByStamps(disk, t, uh)}
<1>1. /\ s \in SceneType
      /\ Resolved(s) = Resolved(s0) \ R /\ s.running = s0.running \ R
      /\ s.deferred = s0.deferred
  <2>1. s \in SceneType
    BY ResetType
  <2>2. QED
    BY <2>1 DEF SceneType, Reset, Resolved
<1>2. s.deferred \in Deferrals
  BY <1>1 DEF SceneType, Deferrals
<1>3. /\ DOMAIN s.deferred \subseteq Setscene
      /\ \A t \in DOMAIN s.deferred : s.deferred[t] \in Setscene
  BY <1>2, DeferralsElim
<1>4. \A t : Leads(t) => Leader(PendingIndex(t, uh[t])) \in Setscene
  BY LeaderType
<1>5. failed \subseteq R
  OBVIOUS
<1> HIDE DEF s, Leads, failed
<1>6. D \subseteq Setscene
  BY <1>3
<1>7. deferred \in [D -> Setscene] /\ DOMAIN deferred \subseteq DOMAIN s.deferred \cup R
  <2> SUFFICES ASSUME NEW t \in D
               PROVE  (IF t \in R /\ Leads(t) THEN Leader(PendingIndex(t, uh[t]))
                       ELSE s.deferred[t]) \in Setscene
    OBVIOUS
  <2>1. CASE t \in R /\ Leads(t)
    BY <1>4, <2>1
  <2>2. CASE ~(t \in R /\ Leads(t))
    <3>1. t \in DOMAIN s.deferred
      BY <2>2
    <3>2. QED
      BY <1>3, <2>2, <3>1
  <2>3. QED
    BY <2>1, <2>2
<1>8. deferred \in Deferrals
  BY <1>6, <1>7, DeferralsIntro
<1> HIDE DEF deferred, D
<1>9. buildable \subseteq Setscene
  BY <1>1 DEF SceneType
<1> HIDE DEF buildable
<1>10. /\ s1 \in SceneType
       /\ Resolved(s1) = Resolved(s) /\ s1.running = s.running /\ s1.deferred = deferred
  <2>1. s1 \in SceneType
    BY <1>1, <1>8, <1>9 DEF SceneType, Deferrals
  <2>2. QED
    BY <1>1, <2>1 DEF SceneType, Resolved
<1> HIDE DEF s1
<1>11. s2 \in SceneType
  BY <1>10, UpdateSceneType
<1>12. PICK K \in SUBSET R : Settles(s1, s2, K, {}, K)
  BY <1>10, UpdateSceneSettles
<1>13. /\ Resolved(s2) = (Resolved(s0) \ R) \cup K
       /\ s2.running = (s0.running \ R) \cup K
       /\ DOMAIN s2.deferred \subseteq DOMAIN s0.deferred \cup R
  BY <1>1, <1>7, <1>10, <1>12 DEF Settles, Resolved
<1> HIDE DEF s2
<1>14. Restart(s0, R, uh, disk) =
         IF failed = {} THEN s2 ELSE FailScene(s2, failed, TRUE, settled)
  BY DEF Restart, s2, s1, deferred, D, buildable, s, Leads, failed
<1>15. CASE failed = {}
  <2>1. Restart(s0, R, uh, disk) = s2
    BY <1>14, <1>15
  <2>2. RestartedAs(s0, s2, R, K, {})
    BY <1>13 DEF RestartedAs
  <2>3. QED
    BY <2>1, <2>2
<1>16. CASE failed # {}
  <2> DEFINE N == FailClosure(s2, failed, settled)
  <2>1. Restart(s0, R, uh, disk) = FailScene(s2, failed, TRUE, settled)
    BY <1>14, <1>16
  <2>2. Settles(s2, FailScene(s2, failed, TRUE, settled), {}, N, N)
    BY <1>11, FailSceneSettles
  <2>3. N \in SUBSET Setscene
    BY DEF FailClosure
  <2>4. ASSUME NEW t \in Setscene \ R, HardDeps[t] \subseteq Resolved(s0) \ R
        PROVE  t \notin N
    <3>1. HardDeps[t] \subseteq Resolved(s2) \ failed /\ t \notin failed
      BY <1>5, <1>13, <2>4
    <3>2. QED
      BY <3>1, FailClosureSpares
  <2> HIDE DEF N
  <2> DEFINE s3 == FailScene(s2, failed, TRUE, settled)
  <2>5. /\ s3.covered = s2.covered /\ s3.notcovered = s2.notcovered \cup N
        /\ s3.running = s2.running \cup N
        /\ DOMAIN s3.deferred \subseteq DOMAIN s2.deferred
    BY <2>2 DEF Settles
  <2> HIDE DEF s3
  <2>6. RestartedAs(s0, s3, R, K, N)
    BY <1>13, <2>4, <2>5 DEF RestartedAs, Resolved
  <2>7. Restart(s0, R, uh, disk) = s3
    BY <2>1 DEF s3
  <2>8. QED
    BY <2>3, <2>6, <2>7
<1>17. QED
  BY <1>15, <1>16

\* Only tasks above one whose hash changed are taken back.
LEMMA ChangedAbove ==
  ASSUME TypeOK, NEW uh, NEW h \in Changed(uh)
  PROVE  \E s \in Setscene : h \in Dependents[s]
<1>1. ToProcess \subseteq Setscene
  <2> SUFFICES ASSUME NEW t \in ToProcess PROVE t \in Setscene
    OBVIOUS
  <2>1. scene.deferred \in Deferrals
    BY DEF TypeOK, SceneVarsType, SceneType, Deferrals
  <2>2. DOMAIN scene.deferred \subseteq Setscene
    BY <2>1, DeferralsElim
  <2>3. \A e \in News : e[1] \in Setscene
    BY DEF News, Reports, TypeOK, HashType
  <2>4. Retold(t) # {}
    BY DEF ToProcess
  <2>5. PICK e \in News : e[1] = t \/ t \in DOMAIN scene.deferred
    BY <2>4 DEF Retold
  <2>6. QED
    BY <2>2, <2>3, <2>5
<1>2. h \in Rehashed
  BY DEF Changed, Open
<1>3. QED
  BY <1>1, <1>2 DEF Rehashed

\* So no hard dependency is.
LEMMA HardDepsNotTakenBack ==
  ASSUME SteadyHardDeps, TypeOK, HardDepsStay, NoNews,
         updated_taskhash_queue # {} \/ pending_migrations # {}, NEW uh
  PROVE  \A t \in Setscene : HardDeps[t] \cap Pending(uh) = {}
<1>1. \A t \in Setscene : \A h \in HardDeps[t] : \A s \in Setscene : h \notin Dependents[s]
  BY DEF SteadyHardDeps, NoNews
<1>2. \A t \in Setscene : HardDeps[t] \cap Changed(uh) = {}
  BY <1>1, ChangedAbove
<1>3. QED
  BY <1>2 DEF HardDepsStay, Pending

\* A migration takes back no task that is being restored, was started, covers one
\* that is running, or is needed by a restore.
LEMMA MigrateSound ==
  ASSUME SteadyHardDeps, TypeOK, HardDepsStay, NoNews, Sound,
         NEW uh \in NewHashes, Migrate(uh)
  PROVE  Sound' /\ HardDepsStay'
<1> DEFINE R == Ready(uh)
<1>1. /\ pc' = "setscene"
      /\ UNCHANGED <<jobs, pipe, sq_live, runq_running, runq_complete, holdoff_tasks>>
      /\ pending_migrations' \subseteq Pending(uh)
      /\ updated_taskhash_queue # {} \/ pending_migrations # {}
  BY DEF Migrate, Goto, coverVars, runqVars, workerVars
<1>2. OneToken' /\ Accounted'
  BY <1>1, SameTokens DEF Sound
<1>3. \A t \in Setscene : HardDeps[t] \cap Pending(uh) = {}
  BY <1>1, HardDepsNotTakenBack
<1>4. HardDepsStay'
  BY <1>1, <1>3 DEF HardDepsStay
<1>5. R \subseteq Pending(uh)
  BY DEF Ready
<1>6. Pending(uh) \subseteq Setscene /\ Pending(uh) \cap (runq_running \cup sq_live) = {}
  BY DEF Pending, TypeOK, HashType
<1>7. \A t \in R : \A d \in SqCovered(t) : ~Busy(d)
  BY DEF Ready
<1>8. scene \in SceneType /\ runq_complete \in SUBSET Tasks
  BY DEF TypeOK, SceneVarsType, RunqType
<1>9. scene' = IF R = {} /\ Changed(uh) = {} THEN scene
               ELSE [Restart(scene, R, uh, files')
                       EXCEPT !.needed = {}, !.parked = {}, !.dirty = TRUE]
  BY DEF Migrate
<1> HIDE DEF R
<1>10. CASE scene' = scene
  BY <1>1, <1>2, <1>4, <1>10, IdleStepKeeps DEF Sound
<1>11. CASE scene' # scene
  <2> DEFINE s == Restart(scene, R, uh, files')
  <2>1. s \in SceneType
    BY <1>5, <1>6, <1>8, RestartType
  <2>2. PICK K \in SUBSET R, N \in SUBSET Setscene : RestartedAs(scene, s, R, K, N)
    BY <1>5, <1>6, <1>8, RestartSettles
  <2>3. scene' = [s EXCEPT !.needed = {}, !.parked = {}, !.dirty = TRUE]
    BY <1>9, <1>11
  <2> HIDE DEF s
  <2>4. /\ Resolved(scene') = Resolved(s) /\ scene'.running = s.running
        /\ scene'.deferred = s.deferred /\ scene'.dirty = TRUE
    BY <2>1, <2>3 DEF SceneType, Resolved
  <2>5. /\ Resolved(scene') = (Resolved(scene) \ R) \cup K \cup N
        /\ scene'.running = (scene.running \ R) \cup K \cup N
        /\ DOMAIN scene'.deferred \subseteq DOMAIN scene.deferred \cup R
        /\ \A t \in Setscene \ R : HardDeps[t] \subseteq Resolved(scene) \ R => t \notin N
    BY <2>2, <2>4 DEF RestartedAs
  <2>6. sq_live \subseteq Setscene /\ sq_live \cap R = {} /\ runq_running \cap R = {}
    BY <1>5, <1>6, <1>8 DEF TypeOK, SceneVarsType
  <2>7. \A t \in sq_live : HardDeps[t] \subseteq Resolved(scene) \ R
    BY <1>3, <1>5, <2>6 DEF Sound, LiveSound
  <2>8. LiveSound'
    BY <1>1, <2>5, <2>6, <2>7 DEF Sound, LiveSound
  <2>9. CoverSound'
    <3>1. Setscene \cap runq_running \subseteq Resolved(scene')
      BY <2>5, <2>6 DEF Sound, CoverSound
    <3>2. \A t \in Setscene \ Resolved(scene') : \A d \in SqCovered(t) : ~Busy(d)
      BY <1>7, <2>5 DEF Sound, CoverSound
    <3>3. \A d : Busy(d)' <=> Busy(d)
      BY <1>1 DEF Busy
    <3>4. QED
      BY <1>1, <2>4, <3>1, <3>2, <3>3 DEF Sound, CoverSound
  <2>10. QED
    BY <1>2, <1>4, <2>8, <2>9 DEF Sound
<1>12. QED
  BY <1>10, <1>11

LEMMA MigratesSound ==
  ASSUME SteadyHardDeps
  PROVE  TypeOK /\ HardDepsStay /\ NoNews /\ Sound /\ Migrates
           => Sound' /\ HardDepsStay'
<1> SUFFICES ASSUME TypeOK, HardDepsStay, NoNews, Sound, Migrates
             PROVE  Sound' /\ HardDepsStay'
  OBVIOUS
<1>1. CASE NoMigrations
  <2>1. /\ UNCHANGED <<jobs, pipe, sq_live, runq_running, runq_complete, scene,
                       holdoff_tasks, pending_migrations>>
        /\ pc' = "setscene"
    BY <1>1 DEF NoMigrations, Goto, sceneVars, coverVars, runqVars, workerVars, hashVars
  <2>2. QED
    BY <2>1, SameTokens, IdleStepKeeps DEF Sound, HardDepsStay
<1>2. QED
  BY <1>1, MigrateSound DEF Migrates

-----------------------------------------------------------------------------
(* Tasks sent to the worker.                                               *)

\* A task neither live, started nor settled is not with the worker; sending it gives
\* it the one token it may have.
LEMMA SendToken ==
  ASSUME TypeOK, Sound, NEW t, t \notin sq_live \cup (runq_running \ runq_complete),
         NEW kind \in Kinds, Send(t, kind), UNCHANGED pipe
  PROVE  /\ OneToken' /\ ExitTids' = ExitTids
         /\ Executing' = Executing \cup (IF kind = "run" THEN {t} ELSE {})
         /\ Restoring' = Restoring \cup (IF kind = "run" THEN {} ELSE {t})
<1> DEFINE j0 == [tid |-> t, kind |-> kind, hash |-> unihash[t], said |-> FALSE]
<1>1. jobs' = jobs \cup {j0} /\ j0.tid = t /\ j0.kind = kind
  BY DEF Send
<1> HIDE DEF j0
<1>2. \A j \in jobs : j.kind = "run" \/ j.kind = "setscene"
  BY DEF TypeOK, WorkerType, Jobs, Kinds
<1>3. t \notin ExitTids
  BY DEF Sound, Accounted
<1>4. \A j \in jobs : j.tid # t
  BY <1>2 DEF Sound, Accounted, Executing, Restoring
<1>5. ExitTids' = ExitTids
  BY DEF ExitTids
<1>6. OneToken'
  BY <1>1, <1>3, <1>4, <1>5 DEF Sound, OneToken
<1>7. /\ Executing' = Executing \cup (IF kind = "run" THEN {t} ELSE {})
      /\ Restoring' = Restoring \cup (IF kind = "run" THEN {} ELSE {t})
  BY <1>1 DEF Executing, Restoring, Kinds
<1>8. QED
  BY <1>5, <1>6, <1>7

LEMMA ScanLaunchesSound ==
  ASSUME TypeOK, Sound, NEW t \in Setscene, ScanLaunches(t)
  PROVE  Sound'
<1>1. /\ t \in Candidates /\ HardDeps[t] \subseteq Resolved(scene) /\ pc = "setscene"
      /\ UNCHANGED <<runq_running, runq_complete, holdoff_tasks, pipe>>
  BY DEF ScanLaunches, Scanned, HardDepsPending, coverVars, runqVars, BrokenPipe
<1>2. t \notin scene.running
  BY <1>1 DEF Candidates
<1>3. t \notin sq_live /\ t \notin Resolved(scene) /\ t \notin runq_running
  BY <1>2 DEF Sound, LiveSound, CoverSound
<1>4. scene \in SceneType
  BY DEF TypeOK, SceneVarsType
<1> DEFINE s == Undeferred(scene, t)
<1>5. /\ s \in SceneType /\ t \notin DOMAIN s.deferred
      /\ Settles(scene, s, {}, {}, {})
  BY <1>4, UndeferredSettles
<1>6. CASE /\ worker = "up" /\ Send(t, "setscene")
           /\ scene' = [s EXCEPT !.running = @ \cup {t}]
           /\ sq_live' = sq_live \cup {t}
           /\ pc' \in {"after", "holdoff"}
  <2> HIDE DEF s
  <2>1. /\ OneToken' /\ ExitTids' = ExitTids
        /\ Executing' = Executing /\ Restoring' = Restoring \cup {t}
    BY <1>1, <1>3, <1>6, SendToken DEF Kinds
  <2>2. Accounted'
    BY <1>1, <1>6, <2>1 DEF Sound, Accounted
  <2>3. /\ Resolved(scene') = Resolved(scene)
        /\ scene'.running = scene.running \cup {t}
        /\ DOMAIN scene'.deferred \subseteq DOMAIN scene.deferred \ {t}
        /\ scene'.dirty = scene.dirty
    <3>1. scene'.covered = s.covered /\ scene'.notcovered = s.notcovered
          /\ scene'.running = s.running \cup {t} /\ scene'.deferred = s.deferred
          /\ scene'.dirty = s.dirty
      BY <1>5, <1>6 DEF SceneType
    <3>2. /\ s.covered = scene.covered /\ s.notcovered = scene.notcovered
          /\ s.running = scene.running /\ s.dirty = scene.dirty
          /\ DOMAIN s.deferred \subseteq DOMAIN scene.deferred
      <4>1. /\ s.covered = scene.covered \cup {} /\ s.notcovered = scene.notcovered \cup {}
            /\ s.running = scene.running \cup {} /\ s.dirty = (scene.dirty \/ {} \cup {} # {})
            /\ DOMAIN s.deferred \subseteq DOMAIN scene.deferred
        BY <1>5 DEF Settles
      <4>2. scene.dirty \in BOOLEAN
        BY <1>4 DEF SceneType
      <4>3. QED
        BY <4>1, <4>2
    <3>3. DOMAIN scene'.deferred \subseteq DOMAIN scene.deferred \ {t}
      BY <1>5, <3>1, <3>2
    <3>4. QED
      BY <3>1, <3>2, <3>3 DEF Resolved
  <2>4. LiveSound'
    BY <1>1, <1>3, <1>6, <2>3 DEF Sound, LiveSound
  <2>5. CoverSound'
    BY <1>1, <1>6, <2>3 DEF Sound, CoverSound, HoldoffFresh, Busy
  <2>6. QED
    BY <2>1, <2>2, <2>4, <2>5 DEF Sound
<1>7. CASE BrokenPipe /\ scene' = s /\ UNCHANGED <<sq_live, build_stamps>>
  <2>1. pc' = "done" /\ UNCHANGED <<jobs, pipe, sq_live>>
    BY <1>7 DEF BrokenPipe
  <2> HIDE DEF s
  <2>2. LiveSound
    BY DEF Sound
  <2>3. SceneStep
    BY <1>5, <1>7, <2>2 DEF Settles, SceneStep, Resolved, LiveSound
  <2>4. LiveSound' /\ CoverSound'
    BY <1>1, <2>1, <2>3, SceneStepKeeps DEF Sound, CoverSound
  <2>5. QED
    BY <1>1, <2>1, <2>4, SameTokens DEF Sound
<1>8. QED
  BY <1>6, <1>7 DEF ScanLaunches

\* The other scans settle a task that was neither running nor settled.
LEMMA ScansSettle ==
  ASSUME TypeOK, Sound, NEW t \in Setscene,
         ScanSkipsUnneeded(t) \/ ScanParks(t) \/ ScanFails(t) \/ ScanSkipsStamped(t)
  PROVE  SceneStep
<1>1. t \in Candidates /\ UNCHANGED sq_live
  BY DEF ScanSkipsUnneeded, ScanParks, ScanFails, ScanSkipsStamped, Scanned
<1>2. t \notin scene.running
  BY <1>1 DEF Candidates
<1>3. t \notin sq_live /\ t \notin Resolved(scene)
  BY <1>2 DEF Sound, LiveSound
<1>4. scene \in SceneType /\ sq_live \subseteq Setscene
  BY DEF TypeOK, SceneVarsType
<1>5. LiveSound
  BY DEF Sound
<1> DEFINE u == Undeferred(scene, t)
<1>6. u \in SceneType /\ Settles(scene, u, {}, {}, {})
  BY <1>4, UndeferredSettles
<1>7. CASE ScanSkipsUnneeded(t)
  <2> DEFINE k == SkipScene(scene, {t})
             s == Undeferred(k, t)
  <2>1. k \in SceneType /\ Settles(scene, k, {t}, {}, {t})
    BY <1>4, SkipSceneType, SkipSceneSettles
  <2> HIDE DEF k
  <2>2. s \in SceneType /\ Settles(k, s, {}, {}, {})
    BY <2>1, UndeferredSettles
  <2>3. scene' = [s EXCEPT !.notneeded = @ \cup {t}]
    BY <1>7 DEF ScanSkipsUnneeded, s, k
  <2> HIDE DEF s
  <2>4. scene'.covered = s.covered /\ scene'.notcovered = s.notcovered
        /\ scene'.running = s.running /\ scene'.deferred = s.deferred
        /\ scene'.dirty = s.dirty
    BY <2>2, <2>3 DEF SceneType
  <2>5. Settles(scene, scene', {t}, {}, {t})
    BY <2>1, <2>2, <2>4 DEF Settles
  <2>6. ({t} \cup {}) \cap sq_live' = {} /\ {t} \cup {} \subseteq {t} \cup scene.running
    BY <1>1, <1>3
  <2>7. QED
    BY <1>1, <1>5, <2>5, <2>6, SettlesSceneStep
<1>8. CASE ScanParks(t)
  <2>1. /\ scene'.covered = scene.covered /\ scene'.notcovered = scene.notcovered
        /\ scene'.running = scene.running /\ scene'.deferred = scene.deferred
        /\ scene'.dirty = scene.dirty
    BY <1>4, <1>8 DEF ScanParks, SceneType
  <2>2. QED
    BY <1>1, <1>5, <2>1 DEF LiveSound, SceneStep, Resolved
<1>9. CASE ScanFails(t)
  <2> DEFINE K == FailClosure(u, {t}, Settled)
  <2>1. scene' = FailScene(u, {t}, TRUE, Settled)
    BY <1>9 DEF ScanFails
  <2>2. Resolved(u) = Resolved(scene)
    BY <1>6 DEF Settles, Resolved
  <2> HIDE DEF u
  <2>3. Settles(u, scene', {}, K, K)
    BY <1>6, <2>1, FailSceneSettles
  <2>4. ASSUME NEW v \in sq_live
        PROVE  v \notin K
    <3>1. HardDeps[v] \subseteq Resolved(u) \ {t} /\ v # t
      BY <1>3, <1>5, <2>2 DEF LiveSound
    <3>2. QED
      BY <1>4, <3>1, FailClosureSpares
  <2> HIDE DEF K
  <2>5. Settles(scene, scene', {}, K, K)
    BY <1>6, <2>3 DEF Settles
  <2>6. ({} \cup K) \cap sq_live' = {} /\ {} \cup K \subseteq K \cup scene.running
    BY <1>1, <2>4
  <2>7. QED
    BY <1>1, <1>5, <2>5, <2>6, SettlesSceneStep
<1>10. CASE ScanSkipsStamped(t)
  <2>1. scene' = SkipScene(u, {t})
    BY <1>10 DEF ScanSkipsStamped
  <2> HIDE DEF u
  <2>2. Settles(u, scene', {t}, {}, {t})
    BY <1>6, <2>1, SkipSceneSettles
  <2>3. Settles(scene, scene', {t}, {}, {t})
    BY <1>6, <2>2 DEF Settles
  <2>4. ({t} \cup {}) \cap sq_live' = {} /\ {t} \cup {} \subseteq {t} \cup scene.running
    BY <1>1, <1>3
  <2>5. QED
    BY <1>1, <1>5, <2>3, <2>4, SettlesSceneStep
<1>11. QED
  BY <1>7, <1>8, <1>9, <1>10

LEMMA ScansSound == TypeOK /\ Sound /\ Scans => Sound'
<1> SUFFICES ASSUME TypeOK, Sound, Scans PROVE Sound'
  OBVIOUS
<1>1. CASE ScanEnds
  <2>1. /\ UNCHANGED <<jobs, pipe, sq_live, runq_running, runq_complete, scene,
                       holdoff_tasks>>
        /\ pc' = "holdoff"
    BY <1>1 DEF ScanEnds, Goto, sceneVars, coverVars, runqVars, workerVars
  <2>2. QED
    BY <2>1, SameTokens, IdleStepKeeps DEF Sound
<1>2. ASSUME NEW t \in Setscene,
             ScanSkipsUnneeded(t) \/ ScanParks(t) \/ ScanFails(t) \/ ScanSkipsStamped(t)
      PROVE  Sound'
  <2>1. /\ UNCHANGED <<jobs, pipe, sq_live, runq_running, runq_complete, holdoff_tasks>>
        /\ pc' # "sched" /\ pc' # "init"
    BY <1>2 DEF ScanSkipsUnneeded, ScanParks, ScanFails, ScanSkipsStamped, OnlyScene,
                coverVars, runqVars
  <2>2. SceneStep
    BY <1>2, ScansSettle
  <2>3. LiveSound' /\ CoverSound'
    BY <2>1, <2>2, SceneStepKeeps DEF Sound, CoverSound
  <2>4. QED
    BY <2>1, <2>3, SameTokens DEF Sound
<1>3. QED
  BY <1>1, <1>2, ScanLaunchesSound DEF Scans

-----------------------------------------------------------------------------
(* The scheduler.                                                          *)

\* What the scheduler takes up can no longer be restored or covered by a restore.
LEMMA ScheduledFree ==
  ASSUME TypeOK, Sound, NEW t \in Tasks, Scheduled(t)
  PROVE  /\ t \notin sq_live \cup runq_running
         /\ t \in Setscene => t \in Resolved(scene)
         /\ \A u \in Setscene \ Resolved(scene) : t \notin SqCovered(u)
<1>1. t \notin runq_running /\ t \notin holdoff_tasks /\ pc = "sched"
  BY DEF Scheduled, Runnable
<1>2. HoldoffFresh
  BY <1>1 DEF Sound, CoverSound
<1>3. t \notin runq_complete
  BY <1>1 DEF Sound, CoverSound
<1>4. sq_live \subseteq Setscene \ Resolved(scene)
  BY DEF TypeOK, SceneVarsType, Sound, LiveSound
<1>5. QED
  BY <1>1, <1>2, <1>3, <1>4 DEF HoldoffFresh

LEMMA SchedCompletesSound ==
  ASSUME TypeOK, Sound, NEW t \in Tasks, SchedSkips(t) \/ SchedNoExec(t)
  PROVE  Sound'
<1>1. Scheduled(t)
  BY DEF SchedSkips, SchedNoExec
<1>2. /\ UNCHANGED <<sq_live, holdoff_tasks, jobs, pipe>> /\ pc' = "after"
      /\ runq_running' = runq_running \cup {t}
      /\ runq_complete' = runq_complete \cup {t}
      /\ \E extra, disk : CompleteOutright(t, extra, disk)
  BY DEF SchedSkips, SchedNoExec, Finishes, Goto, coverVars, workerVars,
         CompleteOutright
<1>3. /\ t \notin sq_live \cup runq_running
      /\ t \in Setscene => t \in Resolved(scene)
  BY <1>1, ScheduledFree
<1>4. SceneStep
  BY <1>2, CompleteOutrightSceneStep DEF Sound
<1>5. OneToken' /\ Accounted'
  BY <1>2, <1>3 DEF Sound, OneToken, Accounted, ExitTids, Executing, Restoring
<1>6. LiveSound' /\ CoverSound'
  <2>1. /\ runq_complete' \subseteq runq_running'
        /\ runq_running' \ runq_complete' \subseteq runq_running \ runq_complete
        /\ Setscene \cap runq_running' \subseteq Resolved(scene)
    BY <1>2, <1>3 DEF Sound, CoverSound
  <2>2. QED
    BY <1>2, <1>4, <2>1, SceneStepKeeps DEF Sound
<1>7. QED
  BY <1>5, <1>6 DEF Sound

LEMMA SchedLaunchesSound ==
  ASSUME TypeOK, Sound, NEW t \in Tasks, SchedLaunches(t)
  PROVE  Sound'
<1>1. /\ Scheduled(t)
      /\ UNCHANGED <<scene, sq_live, holdoff_tasks, runq_complete, pipe>>
  BY DEF SchedLaunches, sceneVars, coverVars, BrokenPipe
<1>2. /\ t \notin sq_live \cup runq_running
      /\ t \in Setscene => t \in Resolved(scene)
      /\ \A u \in Setscene \ Resolved(scene) : t \notin SqCovered(u)
  BY <1>1, ScheduledFree
<1>3. CASE /\ worker = "up" /\ Send(t, "run")
           /\ runq_running' = runq_running \cup {t}
           /\ pc' \in {"after", "tail"}
  <2>1. /\ OneToken' /\ ExitTids' = ExitTids
        /\ Executing' = Executing \cup {t} /\ Restoring' = Restoring
    BY <1>1, <1>2, <1>3, SendToken DEF Kinds
  <2>2. t \notin runq_complete
    BY <1>2 DEF Sound, CoverSound
  <2>3. Accounted'
    BY <1>1, <1>3, <2>1, <2>2 DEF Sound, Accounted
  <2>4. LiveSound'
    BY <1>1 DEF Sound, LiveSound
  <2>5. CoverSound'
    BY <1>1, <1>2, <1>3 DEF Sound, CoverSound, HoldoffFresh, Busy
  <2>6. QED
    BY <2>1, <2>3, <2>4, <2>5 DEF Sound
<1>4. CASE BrokenPipe /\ UNCHANGED <<runq_running, active, build_stamps>>
  <2>1. pc' = "done" /\ UNCHANGED <<jobs, pipe, runq_running>>
    BY <1>4 DEF BrokenPipe
  <2>2. QED
    BY <1>1, <2>1, SameTokens, IdleStepKeeps DEF Sound
<1>5. QED
  BY <1>3, <1>4 DEF SchedLaunches

LEMMA UpdateHoldoffSound ==
  ASSUME TypeOK, Sound, UpdateHoldoff
  PROVE  Sound'
<1>1. /\ pc = "holdoff" /\ pc' = "holdoff"
      /\ UNCHANGED <<sq_live, runq_running, runq_complete, jobs, pipe>>
      /\ scene' = [scene EXCEPT !.dirty = FALSE]
      /\ holdoff_tasks' = (Setscene \ Resolved(scene)) \cup
           {d \in UNION {SqCovered(t) : t \in Setscene \ Resolved(scene)} :
              d \notin runq_complete}
  BY DEF UpdateHoldoff, controlVars, workerVars
<1>2. /\ Resolved(scene') = Resolved(scene) /\ scene'.running = scene.running
      /\ scene'.deferred = scene.deferred
  BY <1>1 DEF TypeOK, SceneVarsType, SceneType, Resolved
<1>3. LiveSound'
  BY <1>1, <1>2 DEF Sound, LiveSound
<1>4. HoldoffFresh'
  BY <1>1, <1>2 DEF HoldoffFresh
<1>5. CoverSound'
  BY <1>1, <1>2, <1>4 DEF Sound, CoverSound, Busy
<1>6. QED
  BY <1>1, <1>3, <1>5, SameTokens DEF Sound

LEMMA SchedulesSound == TypeOK /\ Sound /\ Schedules => Sound'
<1> SUFFICES ASSUME TypeOK, Sound, Schedules PROVE Sound'
  OBVIOUS
<1>1. CASE SettleScene \/ SchedNothing \/ TailWaits \/ TailEnds
             \/ \E t \in Tasks : SchedRefuses(t)
  <2>1. UNCHANGED <<scene, jobs, pipe, sq_live, runq_running, runq_complete,
                    holdoff_tasks>>
    BY <1>1 DEF SettleScene, SchedNothing, TailWaits, TailEnds, SchedRefuses,
                sceneVars, coverVars, runqVars, workerVars
  <2>2. pc' # "init" /\ (pc' = "sched" => ~scene.dirty)
    BY <1>1 DEF SettleScene, SchedNothing, TailWaits, TailEnds, SchedRefuses, Goto
  <2>3. QED
    BY <2>1, <2>2, SameTokens, IdleStepKeeps DEF Sound
<1>2. ASSUME NEW t \in Setscene, TailForces(t) PROVE Sound'
  <2>1. /\ UNCHANGED <<jobs, pipe, sq_live, runq_running, runq_complete, holdoff_tasks>>
        /\ pc' = "after" /\ scene' = Undeferred(scene, t)
    BY <1>2 DEF TailForces, Goto, coverVars, runqVars, workerVars
  <2>2. Settles(scene, scene', {}, {}, {})
    BY <2>1, UndeferredSettles DEF TypeOK, SceneVarsType
  <2>3. LiveSound
    BY DEF Sound
  <2>4. SceneStep
    BY <2>1, <2>2, <2>3 DEF Settles, SceneStep, Resolved, LiveSound
  <2>5. LiveSound' /\ CoverSound'
    BY <2>1, <2>4, SceneStepKeeps DEF Sound, CoverSound
  <2>6. QED
    BY <2>1, <2>5, SameTokens DEF Sound
<1>3. QED
  BY <1>1, <1>2, UpdateHoldoffSound, SchedCompletesSound, SchedLaunchesSound
  DEF Schedules

-----------------------------------------------------------------------------
(* The worker.                                                             *)

\* Steps of the worker and the user leave the cooker's books alone.
LEMMA BooksAlone ==
  Environment \/ Done \/ UNCHANGED vars
    => UNCHANGED <<pc, scene, sq_live, holdoff_tasks, runq_running, runq_complete,
                   pending_migrations, updated_taskhash_queue>>
BY DEF Environment, WorkerSteps, WorkerFinishesNow, WorkerQuits, JobEnds, WorkerDies,
       JobReports, UserStops, OnlyWorker, Done, vars, controlVars, sceneVars,
       coverVars, runqVars, hashVars

LEMMA JobEndsTokens ==
  ASSUME TypeOK, OneToken, Accounted, NEW j \in jobs, NEW ok \in BOOLEAN, JobEnds(j, ok)
  PROVE  OneToken' /\ Accounted'
<1>1. /\ jobs' = jobs \ {j}
      /\ pipe' = IF worker = "up"
                 THEN Append(pipe, [type |-> "exit", tid |-> j.tid, ok |-> ok])
                 ELSE pipe
      /\ UNCHANGED <<sq_live, runq_running, runq_complete>>
  BY DEF JobEnds, OnlyWorker, sceneVars, runqVars
<1>2. j \in Jobs /\ (j.kind = "run" \/ j.kind = "setscene")
  BY DEF TypeOK, WorkerType, Jobs, Kinds
<1> DEFINE m == [type |-> "exit", tid |-> j.tid, ok |-> ok]
<1>3. m \in Messages /\ m.type = "exit" /\ m.tid = j.tid
  BY <1>2 DEF Messages, Jobs
<1>4. pipe \in Seq(Messages) /\ Once(pipe) /\ j.tid \notin ExitsOf(pipe)
  BY DEF TypeOK, WorkerType, OneToken, ExitTids
<1> HIDE DEF m
<1>5. /\ Once(Append(pipe, m))
      /\ ExitsOf(Append(pipe, m)) = ExitsOf(pipe) \cup {j.tid}
  BY <1>3, <1>4, AppendExits
<1>6. Once(pipe') /\ ExitTids \subseteq ExitTids' /\ ExitTids' \subseteq ExitTids \cup {j.tid}
  BY <1>1, <1>4, <1>5 DEF ExitTids, m
<1>7. /\ \A i \in jobs' : i \in jobs /\ i.tid # j.tid
      /\ Executing' \subseteq Executing /\ Restoring' \subseteq Restoring
  BY <1>1 DEF OneToken, Executing, Restoring
<1>8. OneToken'
  BY <1>6, <1>7 DEF OneToken
<1>9. j.tid \in sq_live \cup (runq_running \ runq_complete)
  BY <1>2 DEF Accounted, Executing, Restoring
<1>10. Accounted'
  BY <1>1, <1>6, <1>7, <1>9 DEF Accounted
<1>11. QED
  BY <1>8, <1>10

LEMMA JobReportsTokens ==
  ASSUME TypeOK, OneToken, Accounted, NEW j \in jobs, NEW h \in Hashes, JobReports(j, h)
  PROVE  OneToken' /\ Accounted' /\ Executing' = Executing /\ Restoring' = Restoring
         /\ ExitTids' = ExitTids
<1> DEFINE k == [j EXCEPT !.hash = h, !.said = TRUE]
           m == [type |-> "event", tid |-> j.tid, hash |-> h]
<1>1. /\ jobs' = (jobs \ {j}) \cup {k} /\ pipe' = Append(pipe, m)
      /\ UNCHANGED <<sq_live, runq_running, runq_complete>>
  BY DEF JobReports, OnlyWorker, sceneVars, runqVars
<1>2. j \in Jobs /\ j.tid \in Setscene
  BY DEF JobReports, TypeOK, WorkerType
<1>3. k.tid = j.tid /\ k.kind = j.kind
  BY <1>2 DEF Jobs
<1>4. m \in Messages /\ m.type # "exit"
  BY <1>2 DEF Messages
<1>5. pipe \in Seq(Messages) /\ Once(pipe)
  BY DEF TypeOK, WorkerType, OneToken
<1> HIDE DEF k, m
<1>6. Once(pipe') /\ ExitTids' = ExitTids
  BY <1>1, <1>4, <1>5, AppendExits DEF ExitTids
<1>7. Executing' = Executing /\ Restoring' = Restoring
  BY <1>1, <1>3 DEF Executing, Restoring
<1>8. OneToken'
  BY <1>1, <1>3, <1>6 DEF OneToken
<1>9. QED
  BY <1>1, <1>6, <1>7, <1>8 DEF Accounted

LEMMA OthersSound == TypeOK /\ Sound /\ (Environment \/ Done \/ UNCHANGED vars) => Sound'
<1> SUFFICES ASSUME TypeOK, Sound, Environment \/ Done \/ UNCHANGED vars PROVE Sound'
  OBVIOUS
<1>1. UNCHANGED <<pc, scene, sq_live, holdoff_tasks, runq_running, runq_complete>>
  BY BooksAlone
<1>2. LiveSound' /\ CoverSound'
  <2>1. pc' = "sched" => ~scene.dirty
    BY <1>1 DEF Sound, CoverSound
  <2>2. QED
    BY <1>1, <2>1, IdleStepKeeps DEF Sound
<1>3. OneToken' /\ Accounted'
  <2>1. CASE WorkerFinishesNow
    <3>1. jobs' = {} /\ UNCHANGED pipe
      BY <2>1 DEF WorkerFinishesNow
    <3>2. QED
      BY <1>1, <3>1 DEF Sound, OneToken, Accounted, ExitTids, Executing, Restoring
  <2>2. CASE WorkerQuits \/ WorkerDies \/ (\E r \in Requests : UserStops(r)) \/ Done
               \/ UNCHANGED vars
    <3>1. UNCHANGED <<jobs, pipe>>
      BY <2>2 DEF WorkerQuits, WorkerDies, UserStops, Done, vars, workerVars
    <3>2. QED
      BY <1>1, <3>1, SameTokens DEF Sound
  <2>3. QED
    BY <2>1, <2>2, JobEndsTokens, JobReportsTokens DEF Sound, Environment, WorkerSteps
<1>4. QED
  BY <1>2, <1>3 DEF Sound

LEMMA InitSound == Init => Sound /\ HardDepsStay /\ NoNews
<1> SUFFICES ASSUME Init PROVE Sound /\ HardDepsStay /\ NoNews
  OBVIOUS
<1>1. /\ scene.covered = {} /\ scene.notcovered = {} /\ scene.running = {}
      /\ scene.dirty = TRUE /\ pc = "init" /\ pipe = <<>> /\ jobs = {}
      /\ sq_live = {} /\ runq_running = {} /\ runq_complete = {}
      /\ updated_taskhash_queue = {} /\ pending_migrations = {}
  BY DEF Init
<1>2. ExitsAt(pipe) = {}
  BY <1>1 DEF ExitsAt
<1>3. OneToken /\ Accounted
  BY <1>1, <1>2 DEF OneToken, Accounted, ExitTids, ExitsOf, Once, Executing, Restoring
<1>4. LiveSound
  BY <1>1 DEF LiveSound, Resolved
<1>5. CoverSound
  BY <1>1 DEF CoverSound, Busy
<1>6. HardDepsStay /\ NoNews
  BY <1>1 DEF HardDepsStay, NoNews
<1>7. QED
  BY <1>3, <1>4, <1>5, <1>6 DEF Sound

\* Without reports there is nothing to take up, and the first migration needs one.
LEMMA NoNewsStep == TypeOK /\ NoNews /\ [Next]_vars => NoNews'
<1> SUFFICES ASSUME TypeOK, NoNews, [Next]_vars, MaxRehash = 0 PROVE NoNews'
  BY DEF NoNews
<1>1. /\ updated_taskhash_queue = {} /\ pending_migrations = {}
      /\ \A i \in 1..Len(pipe) : pipe[i].type # "event"
  BY DEF NoNews
<1>2. pipe \in Seq(Messages)
  BY DEF TypeOK, WorkerType
<1>3. ASSUME UNCHANGED <<updated_taskhash_queue, pending_migrations>>,
             pipe' = pipe \/ (pipe # <<>> /\ pipe' = Tail(pipe))
             \/ \E m \in Messages : m.type = "exit" /\ pipe' = Append(pipe, m)
      PROVE  NoNews'
  <2>1. \A i \in 1..Len(pipe') : pipe'[i].type # "event"
    <3>1. CASE pipe' = pipe
      BY <1>1, <3>1
    <3>2. CASE pipe # <<>> /\ pipe' = Tail(pipe)
      <4> TAKE i \in 1..Len(pipe')
      <4>1. pipe'[i] = pipe[i + 1] /\ i + 1 \in 1..Len(pipe)
        BY <1>2, <3>2
      <4>2. QED
        BY <1>1, <4>1
    <3>3. ASSUME NEW m \in Messages, m.type = "exit", pipe' = Append(pipe, m)
          PROVE  \A i \in 1..Len(pipe') : pipe'[i].type # "event"
      <4> TAKE i \in 1..Len(pipe')
      <4>1. pipe'[i] = m \/ (i \in 1..Len(pipe) /\ pipe'[i] = pipe[i])
        BY <1>2, <3>3
      <4>2. QED
        BY <1>1, <3>3, <4>1
    <3>4. QED
      BY <1>3, <3>1, <3>2, <3>3
  <2>2. QED
    BY <1>1, <1>3, <2>1 DEF NoNews
<1>4. CASE Control
  BY <1>3, <1>4 DEF Control, SceneInit, StopBeforeInit, IdleForce, IdleShutdown, Idle,
     AfterExecute, Finish, BuildDone, Return, hashVars, workerVars
<1>5. CASE Reads
  <2>1. ~ReadEvent
    <3> SUFFICES ASSUME ReadEvent PROVE FALSE
      OBVIOUS
    <3>1. pipe # <<>> /\ Head(pipe).type = "event"
      BY DEF ReadEvent
    <3>2. Head(pipe) = pipe[1] /\ 1 \in 1..Len(pipe)
      BY <1>2, <3>1
    <3>3. QED
      BY <1>1, <3>1, <3>2
  <2>2. UNCHANGED <<updated_taskhash_queue, pending_migrations>>
        /\ (pipe' = pipe \/ (pipe # <<>> /\ pipe' = Tail(pipe)))
    BY <1>5, <2>1 DEF Reads, Poll, ReadDone, ReadSuccess, ReadFailure,
       ReadSetsceneExit, Exited, hashVars, workerVars
  <2>3. QED
    BY <1>3, <2>2
<1>6. CASE Migrates
  <2>1. NoMigrations
    BY <1>1, <1>6 DEF Migrates, Migrate
  <2>2. QED
    BY <1>3, <2>1 DEF NoMigrations, hashVars, workerVars
<1>7. CASE Scans
  <2>1. UNCHANGED <<updated_taskhash_queue, pending_migrations, pipe>>
    BY <1>7 DEF Scans, ScanEnds, ScanSkipsUnneeded, ScanParks, ScanFails,
       ScanSkipsStamped, ScanLaunches, BrokenPipe, OnlyScene, hashVars, workerVars
  <2>2. QED
    BY <1>3, <2>1
<1>8. CASE Schedules
  <2>1. UNCHANGED <<updated_taskhash_queue, pending_migrations, pipe>>
    BY <1>8 DEF Schedules, UpdateHoldoff, SettleScene, SchedNothing, SchedRefuses,
       SchedSkips, SchedNoExec, SchedLaunches, BrokenPipe, Finishes, TailWaits,
       TailEnds, TailForces, hashVars, workerVars
  <2>2. QED
    BY <1>3, <2>1
<1>9. CASE Environment \/ Done \/ UNCHANGED vars
  <2>1. UNCHANGED <<updated_taskhash_queue, pending_migrations>>
    BY <1>9, BooksAlone
  <2>2. ASSUME NEW j \in jobs, NEW ok \in BOOLEAN, JobEnds(j, ok)
        PROVE  NoNews'
    <3> DEFINE m == [type |-> "exit", tid |-> j.tid, ok |-> ok]
    <3>1. m \in Messages /\ m.type = "exit"
      BY DEF TypeOK, WorkerType, Jobs, Messages
    <3>2. pipe' = pipe \/ pipe' = Append(pipe, m)
      BY <2>2 DEF JobEnds
    <3> HIDE DEF m
    <3>3. QED
      BY <1>3, <2>1, <3>1, <3>2
  <2>3. ASSUME NEW j \in jobs, NEW h \in Hashes, JobReports(j, h)
        PROVE  FALSE
    BY <2>3 DEF JobReports, TypeOK, EnvType
  <2>4. CASE WorkerFinishesNow \/ WorkerQuits \/ WorkerDies
               \/ (\E r \in Requests : UserStops(r)) \/ Done \/ UNCHANGED vars
    <3>1. UNCHANGED pipe
      BY <2>4 DEF WorkerFinishesNow, WorkerQuits, WorkerDies, UserStops, Done, vars,
         workerVars
    <3>2. QED
      BY <1>3, <2>1, <3>1
  <2>5. QED
    BY <1>9, <2>2, <2>3, <2>4 DEF Environment, WorkerSteps
<1>10. QED
  BY <1>4, <1>5, <1>6, <1>7, <1>8, <1>9 DEF Next, Cooker

LEMMA HardDepsStayStep == HardDepsStay /\ [Next]_vars => HardDepsStay' \/ Migrates
<1> SUFFICES ASSUME HardDepsStay, [Next]_vars, ~Migrates PROVE HardDepsStay'
  OBVIOUS
<1>1. UNCHANGED pending_migrations
  <2>1. CASE Control
    BY <2>1 DEF Control, SceneInit, StopBeforeInit, IdleForce, IdleShutdown, Idle,
       AfterExecute, Finish, BuildDone, Return, hashVars
  <2>2. CASE Reads
    BY <2>2 DEF Reads, Poll, ReadEvent, ReadDone, ReadSuccess, ReadFailure,
       ReadSetsceneExit, hashVars
  <2>3. CASE Scans
    BY <2>3 DEF Scans, ScanEnds, ScanSkipsUnneeded, ScanParks, ScanFails,
       ScanSkipsStamped, ScanLaunches, OnlyScene, hashVars
  <2>4. CASE Schedules
    BY <2>4 DEF Schedules, UpdateHoldoff, SettleScene, SchedNothing, SchedRefuses,
       SchedSkips, SchedNoExec, SchedLaunches, Finishes, TailWaits,
       TailEnds, TailForces, hashVars
  <2>5. QED
    BY <2>1, <2>2, <2>3, <2>4, BooksAlone DEF Next, Cooker
<1>2. QED
  BY <1>1 DEF HardDepsStay

QueueInv == TypeOK /\ StartedBuildable /\ NoNews /\ HardDepsStay /\ Sound

LEMMA QueueInvStep == ASSUME SteadyHardDeps PROVE QueueInv /\ [Next]_vars => QueueInv'
<1> SUFFICES ASSUME QueueInv, [Next]_vars PROVE QueueInv'
  OBVIOUS
<1>1. TypeOK' /\ StartedBuildable' /\ NoNews'
  BY NextKeepsType, NextStarts, StartStepKeeps, NoNewsStep DEF QueueInv
<1>2. HardDepsStay'
  BY HardDepsStayStep, MigratesSound DEF QueueInv
<1>3. Sound'
  BY ControlSound, ReadsSound, MigratesSound, ScansSound, SchedulesSound, OthersSound
  DEF QueueInv, Next, Cooker
<1>4. QED
  BY <1>1, <1>2, <1>3 DEF QueueInv

\* While a task is restored from shared state, neither it nor a task the restore covers
\* executes.
THEOREM RestoresApart == ASSUME SteadyHardDeps PROVE Spec => []RestoreExcludesCovered
<1>1. Init => QueueInv
  BY InitType, InitSound DEF QueueInv, Init, StartedBuildable, Executing
<1>2. QueueInv /\ [Next]_vars => QueueInv'
  BY QueueInvStep
<1>3. QueueInv => RestoreExcludesCovered
  <2> SUFFICES ASSUME QueueInv, NEW t \in Restoring
               PROVE  (SqCovered(t) \cup {t}) \cap Executing = {}
    BY DEF RestoreExcludesCovered
  <2>1. t \in sq_live
    BY DEF QueueInv, Sound, Accounted
  <2>2. t \in Setscene \ Resolved(scene)
    BY <2>1 DEF QueueInv, Sound, LiveSound, TypeOK, SceneVarsType
  <2>3. \A d \in Executing : Busy(d)
    BY DEF QueueInv, Sound, Accounted, Busy
  <2>4. QED
    BY <2>2, <2>3 DEF QueueInv, Sound, CoverSound, Busy
<1>4. QED
  BY <1>1, <1>2, <1>3, PTL DEF Spec

-----------------------------------------------------------------------------
(* The counter the loop waits on.                                          *)

Outstanding == Executing \cup Unread

\* No task of the worker was or will be dropped.
Heard == request # "force" /\ budget.crash = 0

Counts ==
  /\ IsFiniteSet(sq_live) /\ IsFiniteSet(Outstanding)
  /\ Cardinality(Outstanding) <= active
  /\ worker = "dead" => budget.crash > 0
  /\ pc = "init" => active = 0
  /\ Heard => /\ "finishnow" \notin commands
              /\ worker = "up" => Cardinality(Outstanding) = active

LEMMA UnreadExits ==
  /\ Unread = ExitTids \ sq_live
  /\ Unread' = ExitTids' \ sq_live'
BY DEF Unread, ExitTids, ExitsOf, ExitsAt

LEMMA CountsKept ==
  ASSUME Counts, IsFiniteSet(sq_live'), Outstanding' = Outstanding, UNCHANGED active,
         Heard' => Heard, Heard' => "finishnow" \notin commands',
         worker' = worker \/ worker' = "exited",
         budget.crash > 0 => budget'.crash > 0, pc' # "init" \/ pc = "init"
  PROVE  Counts'
BY DEF Counts

LEMMA SameOutstanding ==
  ASSUME UNCHANGED <<jobs, pipe, sq_live>>
  PROVE  Outstanding' = Outstanding
BY DEF Outstanding, Executing, Unread

LEMMA SameHeard ==
  ASSUME UNCHANGED envVars
  PROVE  (Heard' <=> Heard) /\ UNCHANGED budget
BY DEF Heard, envVars

\* One task less: it was outstanding, and the counter follows.
LEMMA CountsLess ==
  ASSUME TypeOK, Counts, NEW t \in Outstanding, Outstanding' = Outstanding \ {t},
         active' = Decremented(active), UNCHANGED <<sq_live, worker, commands, envVars>>,
         pc # "init", pc' # "init"
  PROVE  Counts'
<1>1. /\ IsFiniteSet(Outstanding \ {t})
      /\ Cardinality(Outstanding \ {t}) = Cardinality(Outstanding) - 1
      /\ Cardinality(Outstanding) \in Nat /\ Cardinality(Outstanding \ {t}) \in Nat
  BY FS_RemoveElement, FS_CardinalityType DEF Counts
<1>2. active \in Int /\ active >= 1 /\ ActiveFloor \in Nat
  BY <1>1, RunAssumption DEF Counts, TypeOK, CountType
<1>3. active' = active - 1
  BY <1>2 DEF Decremented
<1>4. QED
  BY <1>1, <1>2, <1>3, SameHeard DEF Counts

LEMMA ControlCounts == TypeOK /\ Sound /\ Counts /\ Control => Counts'
<1> SUFFICES ASSUME TypeOK, Sound, Counts, Control PROVE Counts'
  OBVIOUS
<1>1. /\ UNCHANGED <<jobs, pipe, sq_live, active, envVars>> /\ pc' # "init"
  BY DEF Control, SceneInit, StopBeforeInit, IdleForce, IdleShutdown, Idle,
     AfterExecute, Finish, BuildDone, Return, Goto, sceneVars, workerVars, countVars
<1>2. /\ Outstanding' = Outstanding /\ (Heard' <=> Heard) /\ UNCHANGED budget
      /\ IsFiniteSet(sq_live')
  BY <1>1, SameOutstanding, SameHeard DEF Counts
<1>3. CASE SceneInit
  <2>1. pc = "init" /\ worker' = "up" /\ UNCHANGED commands
    BY <1>3 DEF SceneInit
  <2>2. Outstanding = {}
    BY <2>1, UnreadExits DEF Sound, CoverSound, Accounted, Outstanding
  <2>3. Cardinality(Outstanding) = 0 /\ active = 0
    BY <2>1, <2>2, FS_EmptySet DEF Counts
  <2>4. QED
    BY <1>1, <1>2, <2>1, <2>3 DEF Counts
<1>4. CASE IdleForce
  <2>1. ~Heard /\ UNCHANGED worker
    BY <1>4 DEF IdleForce, Heard
  <2>2. QED
    BY <1>1, <1>2, <2>1, CountsKept
<1>5. CASE StopBeforeInit \/ IdleShutdown \/ Idle \/ AfterExecute \/ Finish
             \/ BuildDone \/ Return
  <2>1. UNCHANGED worker /\ commands' \subseteq commands \cup {"quit"}
    BY <1>5 DEF StopBeforeInit, IdleShutdown, Idle, AfterExecute, Finish, BuildDone,
       Return, workerVars
  <2>2. Heard' => "finishnow" \notin commands'
    BY <1>2, <2>1 DEF Counts
  <2>3. QED
    BY <1>1, <1>2, <2>1, <2>2, CountsKept
<1>6. QED
  BY <1>3, <1>4, <1>5 DEF Control

\* The exit code of an ordinary task is read.
LEMMA ExitedCounts ==
  ASSUME TypeOK, Sound, Counts, NEW t \in Tasks, NEW ok \in BOOLEAN, Exited(t, ok),
         t \notin sq_live, active' = Decremented(active),
         UNCHANGED <<pc, jobs, sq_live, worker, commands, envVars>>
  PROVE  Counts'
<1>1. /\ t \in ExitTids /\ ExitTids' = ExitTids \ {t} /\ t \notin Executing
      /\ Executing' = Executing
  BY ExitedOnce
<1>2. t \in Outstanding /\ Outstanding' = Outstanding \ {t}
  BY <1>1, UnreadExits DEF Outstanding
<1>3. pc = "read"
  BY DEF Exited
<1>4. QED
  BY <1>2, <1>3, CountsLess

LEMMA ReadsCounts == TypeOK /\ Sound /\ Counts /\ Reads => Counts'
<1> SUFFICES ASSUME TypeOK, Sound, Counts, Reads PROVE Counts'
  OBVIOUS
<1>1. CASE Poll
  <2>1. /\ UNCHANGED <<jobs, pipe, sq_live, active, envVars, worker>> /\ pc' = "read"
        /\ worker # "dead" => UNCHANGED commands
    BY <1>1 DEF Poll, Goto, sceneVars, countVars
  <2>2. Outstanding' = Outstanding /\ (Heard' <=> Heard) /\ UNCHANGED budget
    BY <2>1, SameOutstanding, SameHeard
  <2>3. Heard => worker # "dead" /\ "finishnow" \notin commands
    BY DEF Counts, Heard, TypeOK, EnvType
  <2>4. IsFiniteSet(sq_live')
    BY <2>1 DEF Counts
  <2>5. QED
    BY <2>1, <2>2, <2>3, <2>4, CountsKept
<1>2. CASE ReadDone
  <2>1. /\ UNCHANGED <<jobs, pipe, sq_live, active, envVars, commands>>
        /\ worker' = worker \/ worker' = "exited"
        /\ pc = "read" /\ pc' # "init"
    <3>1. pc' # "init"
      <4>1. pc' = CASE reading = "top" -> "migrate"
                    [] reading = "tail" -> "after"
                    [] reading = "finish" -> "build_done"
                    [] reading = "teardown" -> "return"
        BY <1>2 DEF ReadDone, Goto
      <4>2. reading \in {"top", "tail", "finish", "teardown"}
        BY DEF TypeOK, ControlType
      <4>3. pc' \in {"migrate", "after", "build_done", "return"}
        BY <4>1, <4>2, Zenon
      <4>4. QED
        BY <4>3
    <3>2. QED
      BY <1>2, <3>1 DEF ReadDone, sceneVars, countVars
  <2>2. Outstanding' = Outstanding /\ (Heard' <=> Heard) /\ UNCHANGED budget
    BY <2>1, SameOutstanding, SameHeard
  <2>3. IsFiniteSet(sq_live') /\ (Heard' => "finishnow" \notin commands')
    BY <2>1, <2>2 DEF Counts
  <2>4. QED
    BY <2>1, <2>2, <2>3, CountsKept
<1>3. CASE ReadEvent
  <2>1. /\ UNCHANGED <<jobs, sq_live, active, envVars, worker, commands, pc>>
        /\ pc = "read" /\ pipe # <<>> /\ Head(pipe).type = "event" /\ pipe' = Tail(pipe)
    BY <1>3 DEF ReadEvent, sceneVars, countVars, controlVars
  <2>2. pipe \in Seq(Messages) /\ Once(pipe)
    BY DEF TypeOK, WorkerType, Sound, OneToken
  <2>3. ExitsOf(pipe') = ExitsOf(pipe)
    BY <2>1, <2>2, TailExits
  <2>4. Outstanding' = Outstanding
    BY <2>1, <2>3, UnreadExits DEF Outstanding, Executing, ExitTids
  <2>5. /\ (Heard' <=> Heard) /\ UNCHANGED budget /\ IsFiniteSet(sq_live')
        /\ Heard' => "finishnow" \notin commands'
    BY <2>1, SameHeard DEF Counts
  <2>6. QED
    BY <2>1, <2>4, <2>5, CountsKept
<1>4. ASSUME NEW t \in Tasks, ReadSuccess(t) PROVE Counts'
  BY <1>4, ExitedCounts DEF ReadSuccess, controlVars
<1>5. ASSUME NEW t \in Tasks, ReadFailure(t) PROVE Counts'
  BY <1>5, ExitedCounts DEF ReadFailure, TaskFail, sceneVars
<1>6. ASSUME NEW t \in Tasks, NEW ok \in BOOLEAN, ReadSetsceneExit(t, ok)
      PROVE  Counts'
  <2>1. /\ Exited(t, ok) /\ t \in sq_live /\ sq_live' = sq_live \ {t}
        /\ UNCHANGED <<jobs, active, envVars, worker, commands, pc>>
    BY <1>6 DEF ReadSetsceneExit
  <2>2. ExitTids' = ExitTids \ {t} /\ Executing' = Executing
    BY <2>1, ExitedOnce
  <2>3. Outstanding' = Outstanding
    BY <2>1, <2>2, UnreadExits DEF Outstanding
  <2>4. /\ (Heard' <=> Heard) /\ UNCHANGED budget /\ IsFiniteSet(sq_live')
        /\ Heard' => "finishnow" \notin commands'
    BY <2>1, SameHeard, FS_RemoveElement DEF Counts
  <2>5. QED
    BY <2>1, <2>3, <2>4, CountsKept
<1>7. QED
  BY <1>1, <1>2, <1>3, <1>4, <1>5, <1>6 DEF Reads

\* Steps of the cooker that send nothing and read nothing.
LEMMA QuietCounts ==
  ASSUME Counts, UNCHANGED <<jobs, pipe, sq_live, active, envVars, commands>>,
         worker' = worker \/ worker' = "exited", pc' # "init"
  PROVE  Counts'
<1>1. Outstanding' = Outstanding /\ (Heard' <=> Heard) /\ UNCHANGED budget
  BY SameOutstanding, SameHeard
<1>2. IsFiniteSet(sq_live') /\ (Heard' => "finishnow" \notin commands')
  BY <1>1 DEF Counts
<1>3. QED
  BY <1>1, <1>2, CountsKept

LEMMA MigratesCounts == Counts /\ Migrates => Counts'
<1> SUFFICES ASSUME Counts, Migrates PROVE Counts'
  OBVIOUS
<1>1. UNCHANGED <<jobs, pipe, sq_live, active, envVars, commands, worker>> /\ pc' # "init"
  BY DEF Migrates, NoMigrations, Migrate, Goto, sceneVars, workerVars, countVars
<1>2. QED
  BY <1>1, QuietCounts

LEMMA ScansCounts == TypeOK /\ Sound /\ Counts /\ Scans => Counts'
<1> SUFFICES ASSUME TypeOK, Sound, Counts, Scans PROVE Counts'
  OBVIOUS
<1>1. CASE ScanEnds \/ \E t \in Setscene : \/ ScanSkipsUnneeded(t) \/ ScanParks(t)
                                            \/ ScanFails(t) \/ ScanSkipsStamped(t)
  <2>1. UNCHANGED <<jobs, pipe, sq_live, active, envVars, commands, worker>>
        /\ pc' # "init"
    BY <1>1 DEF ScanEnds, ScanSkipsUnneeded, ScanParks, ScanFails, ScanSkipsStamped,
       OnlyScene, Goto, sceneVars, workerVars, countVars
  <2>2. QED
    BY <2>1, QuietCounts
<1>2. ASSUME NEW t \in Setscene, ScanLaunches(t) PROVE Counts'
  <2>1. CASE worker = "up" /\ Send(t, "setscene") /\ sq_live' = sq_live \cup {t}
             /\ pc' \in {"after", "holdoff"}
             /\ UNCHANGED <<state, outcome, worker, commands, pipe>>
    <3>1. UNCHANGED <<active, envVars>> /\ t \in Candidates
      BY <1>2 DEF ScanLaunches, Scanned
    <3>2. t \notin sq_live /\ t \notin runq_running
      BY <3>1 DEF Candidates, Sound, LiveSound, CoverSound
    <3>3. ExitTids' = ExitTids /\ Executing' = Executing
      BY <2>1, <3>2, SendToken DEF Kinds
    <3>4. t \notin ExitTids
      BY <3>2 DEF Sound, Accounted
    <3>5. Outstanding' = Outstanding
      BY <2>1, <3>3, <3>4, UnreadExits DEF Outstanding
    <3>6. /\ (Heard' <=> Heard) /\ UNCHANGED budget /\ IsFiniteSet(sq_live')
          /\ Heard' => "finishnow" \notin commands'
      BY <2>1, <3>1, SameHeard, FS_AddElement DEF Counts
    <3>7. QED
      BY <2>1, <3>1, <3>5, <3>6, CountsKept
  <2>2. CASE BrokenPipe /\ UNCHANGED sq_live
    <3>1. UNCHANGED <<jobs, pipe, sq_live, active, envVars, commands>>
          /\ worker' = "exited" /\ pc' = "done"
      BY <1>2, <2>2 DEF ScanLaunches, BrokenPipe
    <3>2. QED
      BY <3>1, QuietCounts
  <2>3. QED
    BY <1>2, <2>1, <2>2 DEF ScanLaunches
<1>3. QED
  BY <1>1, <1>2 DEF Scans

LEMMA SchedulesCounts ==
  ASSUME NoEnforce
  PROVE  TypeOK /\ Sound /\ Counts /\ Schedules => Counts'
<1> SUFFICES ASSUME TypeOK, Sound, Counts, Schedules PROVE Counts'
  OBVIOUS
<1>1. CASE UpdateHoldoff \/ SettleScene \/ SchedNothing \/ TailWaits \/ TailEnds
             \/ (\E t \in Tasks : SchedSkips(t) \/ SchedNoExec(t))
             \/ \E t \in Setscene : TailForces(t)
  <2>1. UNCHANGED <<jobs, pipe, sq_live, active, envVars, commands, worker>>
    BY <1>1 DEF UpdateHoldoff, SettleScene, SchedNothing, SchedSkips, SchedNoExec,
       Finishes, TailWaits, TailEnds, TailForces, sceneVars, workerVars, countVars
  <2>2. pc' # "init"
    BY <1>1 DEF UpdateHoldoff, controlVars, SettleScene, SchedNothing, SchedSkips,
       SchedNoExec, Finishes, TailWaits, TailEnds, TailForces, Goto
  <2>3. QED
    BY <2>1, <2>2, QuietCounts
<1>2. ASSUME NEW t \in Tasks, SchedRefuses(t) PROVE FALSE
  <2>1. mode.enforce /\ mode \in Modes
    BY <1>2 DEF SchedRefuses, Unexpected, TypeOK, EnvType
  <2>2. QED
    BY <2>1 DEF NoEnforce
<1>3. ASSUME NEW t \in Tasks, SchedLaunches(t) PROVE Counts'
  <2>1. CASE worker = "up" /\ Send(t, "run") /\ active' = active + 1
             /\ pc' \in {"after", "tail"}
             /\ UNCHANGED <<state, outcome, worker, commands, pipe>>
    <3>1. UNCHANGED <<sq_live, envVars>> /\ Scheduled(t)
      BY <1>3 DEF SchedLaunches, sceneVars
    <3>2. t \notin sq_live \cup runq_running
      BY <3>1, ScheduledFree
    <3>3. ExitTids' = ExitTids /\ Executing' = Executing \cup {t}
      BY <2>1, <3>2, SendToken DEF Kinds
    <3>4. t \notin Outstanding
      BY <3>2, UnreadExits DEF Sound, Accounted, Outstanding
    <3>5. Outstanding' = Outstanding \cup {t}
      BY <3>1, <3>3, UnreadExits DEF Outstanding
    <3>6. /\ IsFiniteSet(Outstanding')
          /\ Cardinality(Outstanding') = Cardinality(Outstanding) + 1
          /\ Cardinality(Outstanding) \in Nat
      BY <3>4, <3>5, FS_AddElement, FS_CardinalityType DEF Counts
    <3>7. (Heard' <=> Heard) /\ UNCHANGED budget /\ active \in Int
      BY <3>1, SameHeard DEF TypeOK, CountType
    <3>8. QED
      BY <2>1, <3>1, <3>6, <3>7 DEF Counts
  <2>2. CASE BrokenPipe /\ UNCHANGED <<runq_running, active, build_stamps>>
    <3>1. UNCHANGED <<jobs, pipe, sq_live, active, envVars, commands>>
          /\ worker' = "exited" /\ pc' = "done"
      BY <1>3, <2>2 DEF SchedLaunches, BrokenPipe, sceneVars
    <3>2. QED
      BY <3>1, QuietCounts
  <2>3. QED
    BY <1>3, <2>1, <2>2 DEF SchedLaunches
<1>4. QED
  BY <1>1, <1>2, <1>3 DEF Schedules

\* As long as the worker is up, a task that ends stays outstanding.
LEMMA JobEndsOutstanding ==
  ASSUME TypeOK, Sound, NEW j \in jobs, NEW ok \in BOOLEAN, JobEnds(j, ok)
  PROVE  IF worker = "up" THEN Outstanding' = Outstanding
         ELSE Outstanding' \subseteq Outstanding
<1>1. /\ jobs' = jobs \ {j}
      /\ pipe' = IF worker = "up"
                 THEN Append(pipe, [type |-> "exit", tid |-> j.tid, ok |-> ok])
                 ELSE pipe
      /\ UNCHANGED sq_live
  BY DEF JobEnds, OnlyWorker, sceneVars
<1>2. j.kind = "run" \/ j.kind = "setscene"
  BY DEF TypeOK, WorkerType, Jobs, Kinds
<1>3. \A i \in jobs' : i.tid # j.tid
  BY <1>1 DEF Sound, OneToken
<1>4. /\ j.kind = "run" => Executing' = Executing \ {j.tid} /\ j.tid \in Executing
      /\ j.kind = "setscene" => Executing' = Executing /\ j.tid \in sq_live
  <2>1. ASSUME j.kind = "run" PROVE Executing' = Executing \ {j.tid} /\ j.tid \in Executing
    BY <1>1, <1>3, <2>1 DEF Executing
  <2>2. ASSUME j.kind = "setscene" PROVE Executing' = Executing /\ j.tid \in sq_live
    <3>1. Executing' = Executing
      BY <1>1, <2>2 DEF Executing
    <3>2. j.tid \in Restoring
      BY <2>2 DEF Restoring
    <3>3. QED
      BY <3>1, <3>2 DEF Sound, Accounted
  <2>3. QED
    BY <2>1, <2>2
<1>5. CASE worker = "up"
  <2> DEFINE m == [type |-> "exit", tid |-> j.tid, ok |-> ok]
  <2>1. m \in Messages /\ m.type = "exit" /\ m.tid = j.tid
    BY DEF TypeOK, WorkerType, Jobs, Messages
  <2>2. pipe \in Seq(Messages) /\ Once(pipe) /\ pipe' = Append(pipe, m)
    BY <1>1, <1>5 DEF TypeOK, WorkerType, Sound, OneToken
  <2> HIDE DEF m
  <2>3. ExitTids' = ExitTids \cup {j.tid}
    BY <2>1, <2>2, AppendExits DEF ExitTids
  <2>4. j.tid \in Executing => j.tid \notin sq_live
    BY DEF Sound, Accounted, LiveSound, CoverSound, TypeOK, SceneVarsType
  <2>5. QED
    BY <1>1, <1>2, <1>4, <1>5, <2>3, <2>4, UnreadExits DEF Outstanding
<1>6. CASE worker # "up"
  <2>1. ExitTids' = ExitTids
    BY <1>1, <1>6 DEF ExitTids
  <2>2. QED
    BY <1>1, <1>2, <1>4, <1>6, <2>1, UnreadExits DEF Outstanding
<1>7. QED
  BY <1>5, <1>6

LEMMA JobEndsCounts ==
  ASSUME TypeOK, Sound, Counts, NEW j \in jobs, NEW ok \in BOOLEAN, JobEnds(j, ok)
  PROVE  Counts'
<1>1. /\ UNCHANGED <<pc, sq_live, active, worker, commands, request>>
      /\ budget' = IF ok THEN budget ELSE [budget EXCEPT !.fail = @ + 1]
  BY DEF JobEnds, OnlyWorker, controlVars, sceneVars, countVars
<1>2. budget'.crash = budget.crash
  BY <1>1 DEF TypeOK, EnvType
<1>3. /\ (Heard' <=> Heard) /\ IsFiniteSet(sq_live')
      /\ Heard' => "finishnow" \notin commands'
  BY <1>1, <1>2 DEF Heard, Counts
<1>4. CASE worker = "up"
  <2>1. Outstanding' = Outstanding
    BY <1>4, JobEndsOutstanding
  <2>2. QED
    BY <1>1, <1>2, <1>3, <2>1, CountsKept DEF Counts
<1>5. CASE worker # "up"
  <2>1. Outstanding' \subseteq Outstanding
    BY <1>5, JobEndsOutstanding
  <2>2. /\ IsFiniteSet(Outstanding') /\ Cardinality(Outstanding') <= Cardinality(Outstanding)
        /\ Cardinality(Outstanding) \in Nat /\ Cardinality(Outstanding') \in Nat
    BY <2>1, FS_Subset, FS_CardinalityType DEF Counts
  <2>3. active \in Int
    BY DEF TypeOK, CountType
  <2>4. QED
    BY <1>1, <1>2, <1>3, <1>5, <2>2, <2>3 DEF Counts
<1>6. QED
  BY <1>4, <1>5

LEMMA OthersCounts ==
  TypeOK /\ Sound /\ Counts /\ (Environment \/ Done \/ UNCHANGED vars) => Counts'
<1> SUFFICES ASSUME TypeOK, Sound, Counts, Environment \/ Done \/ UNCHANGED vars
             PROVE  Counts'
  OBVIOUS
<1>1. UNCHANGED <<pc, sq_live, active>>
  BY DEF Environment, WorkerSteps, WorkerFinishesNow, WorkerQuits, JobEnds, WorkerDies,
     JobReports, UserStops, OnlyWorker, Done, vars, controlVars, sceneVars, countVars
<1>2. IsFiniteSet(sq_live')
  BY <1>1 DEF Counts
<1>3. CASE WorkerFinishesNow
  <2>1. /\ jobs' = {} /\ "finishnow" \in commands /\ UNCHANGED <<pipe, worker, envVars>>
    BY <1>3 DEF WorkerFinishesNow
  <2>2. ~Heard /\ (Heard' <=> Heard) /\ UNCHANGED budget
    BY <2>1, SameHeard DEF Counts
  <2>3. Outstanding' \subseteq Outstanding
    BY <1>1, <2>1 DEF Outstanding, Executing, Unread
  <2>4. /\ IsFiniteSet(Outstanding') /\ Cardinality(Outstanding') <= Cardinality(Outstanding)
        /\ Cardinality(Outstanding) \in Nat /\ Cardinality(Outstanding') \in Nat
    BY <2>3, FS_Subset, FS_CardinalityType DEF Counts
  <2>5. active \in Int
    BY DEF TypeOK, CountType
  <2>6. QED
    BY <1>1, <1>2, <2>1, <2>2, <2>4, <2>5 DEF Counts
<1>4. CASE WorkerQuits
  <2>1. /\ UNCHANGED <<jobs, pipe, envVars>> /\ worker' = "exited" /\ commands' = {}
    BY <1>4 DEF WorkerQuits
  <2>2. Outstanding' = Outstanding /\ (Heard' <=> Heard) /\ UNCHANGED budget
    BY <1>1, <2>1, SameOutstanding, SameHeard
  <2>3. QED
    BY <1>1, <1>2, <2>1, <2>2, CountsKept
<1>5. CASE WorkerDies
  <2>1. /\ UNCHANGED <<jobs, pipe>> /\ worker' = "dead" /\ commands' = {}
        /\ budget' = [budget EXCEPT !.crash = @ + 1]
    BY <1>5 DEF WorkerDies
  <2>2. budget'.crash > 0
    BY <2>1 DEF TypeOK, EnvType
  <2>3. ~Heard'
    BY <2>2 DEF Heard
  <2>4. Outstanding' = Outstanding
    BY <1>1, <2>1, SameOutstanding
  <2>5. QED
    BY <1>1, <1>2, <2>1, <2>2, <2>3, <2>4 DEF Counts
<1>6. ASSUME NEW j \in jobs, NEW h \in Hashes, JobReports(j, h) PROVE Counts'
  <2>1. /\ UNCHANGED <<worker, commands, request>>
        /\ budget' = [budget EXCEPT !.rehash = @ + 1]
    BY <1>6 DEF JobReports
  <2>2. budget'.crash = budget.crash
    BY <2>1 DEF TypeOK, EnvType
  <2>3. Executing' = Executing /\ ExitTids' = ExitTids
    BY <1>6, JobReportsTokens DEF Sound
  <2>4. Outstanding' = Outstanding
    BY <1>1, <2>3, UnreadExits DEF Outstanding
  <2>5. (Heard' <=> Heard) /\ (Heard' => "finishnow" \notin commands')
    BY <2>1, <2>2 DEF Heard, Counts
  <2>6. QED
    BY <1>1, <1>2, <2>1, <2>2, <2>4, <2>5, CountsKept
<1>7. ASSUME NEW r \in Requests, UserStops(r) PROVE Counts'
  <2>1. /\ UNCHANGED <<jobs, pipe, worker, commands, budget>>
        /\ request = "none" \/ request = "shutdown"
    BY <1>7 DEF UserStops, workerVars, None
  <2>2. Outstanding' = Outstanding
    BY <1>1, <2>1, SameOutstanding
  <2>3. (Heard' => Heard) /\ (Heard' => "finishnow" \notin commands')
    BY <2>1 DEF Heard, Counts
  <2>4. QED
    BY <1>1, <1>2, <2>1, <2>2, <2>3, CountsKept
<1>8. CASE Done \/ UNCHANGED vars
  <2>1. UNCHANGED <<jobs, pipe, worker, commands, envVars>>
    BY <1>8 DEF Done, vars, workerVars
  <2>2. Outstanding' = Outstanding /\ (Heard' <=> Heard) /\ UNCHANGED budget
    BY <1>1, <2>1, SameOutstanding, SameHeard
  <2>3. Heard' => "finishnow" \notin commands'
    BY <2>1, <2>2 DEF Counts
  <2>4. QED
    BY <1>1, <1>2, <2>1, <2>2, <2>3, CountsKept
<1>9. QED
  BY <1>3, <1>4, <1>5, <1>6, <1>7, <1>8, JobEndsCounts DEF Environment, WorkerSteps

LEMMA InitCounts == Init => Counts
<1> SUFFICES ASSUME Init PROVE Counts
  OBVIOUS
<1>1. /\ jobs = {} /\ pipe = <<>> /\ sq_live = {} /\ active = 0 /\ commands = {}
      /\ worker = "exited"
  BY DEF Init
<1>2. Outstanding = {}
  BY <1>1 DEF Outstanding, Executing, Unread
<1>3. QED
  BY <1>1, <1>2, FS_EmptySet DEF Counts

LEMMA CountsStep ==
  ASSUME NoEnforce
  PROVE  QueueInv /\ Counts /\ [Next]_vars => Counts'
BY ControlCounts, ReadsCounts, MigratesCounts, ScansCounts, SchedulesCounts,
   OthersCounts DEF QueueInv, Next, Cooker

LEMMA QueueInvariant == ASSUME SteadyHardDeps PROVE Spec => []QueueInv
<1>1. Init => QueueInv
  BY InitType, InitSound DEF QueueInv, Init, StartedBuildable, Executing
<1>2. QueueInv /\ [Next]_vars => QueueInv'
  BY QueueInvStep
<1>3. QED
  BY <1>1, <1>2, PTL DEF Spec

LEMMA CountsInvariant == ASSUME SteadyHardDeps, NoEnforce PROVE Spec => []Counts
<1>1. QueueInv /\ Counts /\ [Next]_vars => Counts'
  BY CountsStep
<1>2. QED
  BY <1>1, InitCounts, QueueInvariant, PTL DEF Spec

\* stats.active counts what the worker has or has reported and the cooker not read.
THEOREM ActiveCounts ==
  ASSUME SteadyHardDeps, NoEnforce
  PROVE  Spec => []ActiveIsOutstanding
<1>1. QueueInv /\ Counts => ActiveIsOutstanding
  BY DEF QueueInv, Sound, Accounted, Counts, Heard, Outstanding, ActiveIsOutstanding
<1>2. QED
  BY <1>1, QueueInvariant, CountsInvariant, PTL

-----------------------------------------------------------------------------
(* The abstract promise: module BuildOrder.                                *)

OrderInv == QueueInv /\ Counts /\ DepsComplete

\* A process of each kind is told from the task it is of.
LEMMA ProcessesAre ==
  ASSUME TypeOK
  PROVE  /\ \A t : <<"run", t>> \in Processes <=> t \in Executing
         /\ \A t : <<"setscene", t>> \in Processes <=> t \in Restoring
         /\ \A p \in Processes : p = <<"run", p[2]>> \/ p = <<"setscene", p[2]>>
<1>1. \A j \in jobs : j.kind = "run" \/ j.kind = "setscene"
  BY DEF TypeOK, WorkerType, Jobs, Kinds
<1>2. QED
  BY <1>1 DEF Processes, Executing, Restoring

\* Every process is of another task, and each task is counted.
LEMMA ProcessesCounted ==
  ASSUME TypeOK, Sound, Counts
  PROVE  /\ Cardinality(Processes) \in Nat /\ Cardinality(sq_live) \in Nat
         /\ Cardinality(Processes) <= active + Cardinality(sq_live)
<1> DEFINE B == Outstanding \cup sq_live
           f == [p \in Processes |-> p[2]]
<1>1. IsFiniteSet(B) /\ Cardinality(B) <= Cardinality(Outstanding) + Cardinality(sq_live)
  <2>1. IsFiniteSet(Outstanding) /\ IsFiniteSet(sq_live)
    BY DEF Counts
  <2>2. /\ IsFiniteSet(B)
        /\ Cardinality(B) = Cardinality(Outstanding) + Cardinality(sq_live)
                              - Cardinality(Outstanding \cap sq_live)
    BY <2>1, FS_Union
  <2>3. Outstanding \cap sq_live \in SUBSET sq_live
    OBVIOUS
  <2>4. IsFiniteSet(Outstanding \cap sq_live)
    BY <2>1, <2>3, FS_Subset
  <2>5. /\ Cardinality(Outstanding) \in Nat /\ Cardinality(sq_live) \in Nat
        /\ Cardinality(Outstanding \cap sq_live) \in Nat
    BY <2>1, <2>4, FS_CardinalityType
  <2>6. QED
    BY <2>2, <2>5
<1>2. f \in Injection(Processes, B)
  <2>1. \A p \in Processes : p[2] \in B
    BY ProcessesAre DEF Sound, Accounted, Outstanding
  <2>2. \A p, q \in Processes : p[2] = q[2] => p = q
    <3> SUFFICES ASSUME NEW i \in jobs, NEW j \in jobs, i.tid = j.tid
                 PROVE  <<i.kind, i.tid>> = <<j.kind, j.tid>>
      BY DEF Processes
    <3>1. i = j
      BY DEF Sound, OneToken
    <3>2. QED
      BY <3>1
  <2>3. QED
    BY <2>1, <2>2 DEF Injection, IsInjective
<1>3. IsFiniteSet(Processes) /\ Cardinality(Processes) <= Cardinality(B)
  <2> HIDE DEF f, B
  <2>1. QED
    BY <1>1, <1>2, FS_Injection
<1>4. /\ Cardinality(Processes) \in Nat /\ Cardinality(B) \in Nat
      /\ Cardinality(Outstanding) \in Nat /\ Cardinality(sq_live) \in Nat
  BY <1>1, <1>3, FS_CardinalityType DEF Counts
<1>5. active \in Int /\ Cardinality(Outstanding) <= active
  BY DEF TypeOK, CountType, Counts
<1>6. QED
  BY <1>1, <1>3, <1>4, <1>5

\* The instance has an operator Cardinality of its own, defined alike.
LEMMA SameCardinality == \A S : Order!Cardinality(S) = Cardinality(S)
BY DEF Order!Cardinality, Cardinality

LEMMA RoomToStart ==
  ASSUME TypeOK, Sound, Counts, CanStartTask
  PROVE  Order!HasRoom
<1>1. /\ Cardinality(Processes) \in Nat /\ Cardinality(sq_live) \in Nat
      /\ Cardinality(Processes) <= active + Cardinality(sq_live)
  BY ProcessesCounted
<1>2. active \in Int /\ NumberTasks \in Nat
  BY RunAssumption DEF TypeOK, CountType
<1>3. active + Cardinality(sq_live) < NumberTasks
  BY DEF CanStartTask
<1>4. QED
  BY <1>1, <1>2, <1>3, SameCardinality DEF Order!HasRoom

LEMMA SameOrder ==
  ASSUME UNCHANGED <<runq_running, runq_complete, jobs>>
  PROVE  UNCHANGED Order!orderVars
BY DEF Order!orderVars, Processes

LEMMA SendProcess ==
  ASSUME NEW t, NEW kind, Send(t, kind)
  PROVE  Processes' = Processes \cup {<<kind, t>>}
<1> DEFINE j0 == [tid |-> t, kind |-> kind, hash |-> unihash[t], said |-> FALSE]
<1>1. jobs' = jobs \cup {j0} /\ j0.tid = t /\ j0.kind = kind
  BY DEF Send
<1> HIDE DEF j0
<1>2. QED
  BY <1>1 DEF Processes

\* What the scheduler takes up is ready in the abstract queue.
LEMMA ScheduledReady ==
  ASSUME DepsComplete, NEW t \in Tasks, Scheduled(t)
  PROVE  Order!Ready(t)
BY DEF DepsComplete, Scheduled, Runnable, Order!Ready

LEMMA ReadsInOrder ==
  ASSUME TypeOK, Sound, Reads
  PROVE  [Order!Next]_(Order!orderVars)
<1>1. ASSUME NEW t \in Tasks, ReadSuccess(t) PROVE Order!Finish(t)
  <2>1. /\ Exited(t, TRUE) /\ t \notin sq_live /\ UNCHANGED <<runq_running, jobs>>
        /\ runq_complete' = runq_complete \cup {t}
    BY <1>1 DEF ReadSuccess, CompleteOutright
  <2>2. t \in ExitTids /\ t \notin Executing
    BY <2>1, ExitedOnce
  <2>3. t \in runq_running \ runq_complete
    BY <2>1, <2>2 DEF Sound, Accounted
  <2>4. <<"run", t>> \notin Processes
    BY <2>2, ProcessesAre
  <2>5. Processes' = Processes
    BY <2>1 DEF Processes
  <2>6. QED
    BY <2>1, <2>3, <2>4, <2>5 DEF Order!Finish
<1>2. CASE Poll \/ ReadEvent \/ ReadDone
             \/ \E t \in Tasks : \/ ReadFailure(t)
                                 \/ \E ok \in BOOLEAN : ReadSetsceneExit(t, ok)
  <2>1. UNCHANGED <<runq_running, runq_complete, jobs>>
    BY <1>2 DEF Poll, ReadEvent, ReadDone, ReadFailure, ReadSetsceneExit, runqVars
  <2>2. QED
    BY <2>1, SameOrder
<1>3. QED
  BY <1>1, <1>2 DEF Reads, Order!Next

LEMMA ScansInOrder ==
  ASSUME TypeOK, Sound, Counts, Scans
  PROVE  [Order!Next]_(Order!orderVars)
<1>1. ASSUME NEW t \in Setscene, ScanLaunches(t), worker = "up", Send(t, "setscene")
      PROVE  Order!Restore(t)
  <2>1. /\ t \in Candidates /\ CanStartTask
        /\ UNCHANGED <<runq_running, runq_complete>>
    BY <1>1 DEF ScanLaunches, Scanned, runqVars
  <2>2. t \notin sq_live /\ t \notin runq_running
    BY <2>1 DEF Candidates, Sound, LiveSound, CoverSound
  <2>3. t \notin Executing /\ t \notin Restoring
    BY <2>2 DEF Sound, Accounted
  <2>4. Order!HasRoom
    BY <2>1, RoomToStart
  <2>5. Processes' = Processes \cup {<<"setscene", t>>}
    BY <1>1, SendProcess
  <2>6. QED
    BY <2>1, <2>3, <2>4, <2>5, ProcessesAre DEF Order!Restore
<1>2. CASE \/ ScanEnds
           \/ \E t \in Setscene : \/ ScanSkipsUnneeded(t) \/ ScanParks(t)
                                  \/ ScanFails(t) \/ ScanSkipsStamped(t)
                                  \/ ScanLaunches(t) /\ BrokenPipe
  <2>1. UNCHANGED <<runq_running, runq_complete, jobs>>
    BY <1>2 DEF ScanEnds, ScanSkipsUnneeded, ScanParks, ScanFails, ScanSkipsStamped,
       ScanLaunches, BrokenPipe, OnlyScene, runqVars, workerVars
  <2>2. QED
    BY <2>1, SameOrder
<1>3. ASSUME NEW t \in Setscene, ScanLaunches(t)
      PROVE  (worker = "up" /\ Send(t, "setscene")) \/ BrokenPipe
  BY <1>3 DEF ScanLaunches
<1>4. QED
  BY <1>1, <1>2, <1>3 DEF Scans, Order!Next

LEMMA SchedulesInOrder ==
  ASSUME TypeOK, Sound, Counts, DepsComplete, Schedules
  PROVE  [Order!Next]_(Order!orderVars)
<1>1. ASSUME NEW t \in Tasks, SchedLaunches(t), worker = "up", Send(t, "run"),
             runq_running' = runq_running \cup {t}
      PROVE  Order!Execute(t)
  <2>1. Scheduled(t) /\ CanStartTask /\ UNCHANGED runq_complete
    BY <1>1 DEF SchedLaunches, Scheduled
  <2>2. Order!Ready(t) /\ Order!HasRoom
    BY <2>1, ScheduledReady, RoomToStart
  <2>3. Processes' = Processes \cup {<<"run", t>>}
    BY <1>1, SendProcess
  <2>4. QED
    BY <1>1, <2>1, <2>2, <2>3 DEF Order!Execute
<1>2. ASSUME NEW t \in Tasks, SchedSkips(t) \/ SchedNoExec(t)
      PROVE  Order!Skip(t)
  <2>1. /\ Scheduled(t) /\ UNCHANGED jobs
        /\ runq_running' = runq_running \cup {t}
        /\ runq_complete' = runq_complete \cup {t}
    BY <1>2 DEF SchedSkips, SchedNoExec, Finishes, CompleteOutright, workerVars
  <2>2. Order!Ready(t) /\ Processes' = Processes
    BY <2>1, ScheduledReady DEF Processes
  <2>3. QED
    BY <2>1, <2>2 DEF Order!Skip
<1>3. CASE \/ UpdateHoldoff \/ SettleScene \/ SchedNothing \/ TailWaits \/ TailEnds
           \/ \E t \in Tasks : \/ SchedRefuses(t)
                               \/ /\ SchedLaunches(t)
                                  /\ BrokenPipe /\ UNCHANGED runq_running
           \/ \E t \in Setscene : TailForces(t)
  <2>1. UNCHANGED <<runq_running, runq_complete, jobs>>
    BY <1>3 DEF UpdateHoldoff, SettleScene, SchedNothing, TailWaits, TailEnds,
       SchedRefuses, SchedLaunches, BrokenPipe, TailForces, runqVars, workerVars
  <2>2. QED
    BY <2>1, SameOrder
<1>4. ASSUME NEW t \in Tasks, SchedLaunches(t)
      PROVE  \/ /\ worker = "up" /\ Send(t, "run")
                /\ runq_running' = runq_running \cup {t}
             \/ BrokenPipe /\ UNCHANGED runq_running
  BY <1>4 DEF SchedLaunches
<1>5. QED
  BY <1>1, <1>2, <1>3, <1>4 DEF Schedules, Order!Next

LEMMA OthersInOrder ==
  ASSUME TypeOK, Sound, Environment \/ Done \/ UNCHANGED vars
  PROVE  [Order!Next]_(Order!orderVars)
<1>1. UNCHANGED <<runq_running, runq_complete>>
  BY BooksAlone
<1>2. ASSUME NEW j \in jobs, NEW ok \in BOOLEAN, JobEnds(j, ok)
      PROVE  Order!End({<<j.kind, j.tid>>})
  <2>1. jobs' = jobs \ {j}
    BY <1>2 DEF JobEnds
  <2>2. \A i \in jobs : i # j => <<i.kind, i.tid>> # <<j.kind, j.tid>>
    BY DEF Sound, OneToken
  <2>3. Processes' = Processes \ {<<j.kind, j.tid>>}
    BY <2>1, <2>2 DEF Processes
  <2>4. QED
    BY <1>1, <2>3 DEF Order!End
<1>3. ASSUME WorkerFinishesNow PROVE Order!End(Processes)
  BY <1>1, <1>3 DEF WorkerFinishesNow, Order!End, Processes
<1>4. ASSUME NEW j \in jobs, NEW h \in Hashes, JobReports(j, h)
      PROVE  UNCHANGED Order!orderVars
  <2> DEFINE k == [j EXCEPT !.hash = h, !.said = TRUE]
  <2>1. j \in Jobs /\ jobs' = (jobs \ {j}) \cup {k}
    BY <1>4 DEF JobReports, TypeOK, WorkerType
  <2>2. k.tid = j.tid /\ k.kind = j.kind
    BY <2>1 DEF Jobs
  <2> HIDE DEF k
  <2>3. Processes' = Processes
    BY <2>1, <2>2 DEF Processes
  <2>4. QED
    BY <1>1, <2>3 DEF Order!orderVars
<1>5. CASE WorkerQuits \/ WorkerDies \/ (\E r \in Requests : UserStops(r)) \/ Done
             \/ UNCHANGED vars
  <2>1. UNCHANGED jobs
    BY <1>5 DEF WorkerQuits, WorkerDies, UserStops, Done, vars, workerVars
  <2>2. QED
    BY <1>1, <2>1, SameOrder
<1>6. ASSUME NEW j \in jobs, NEW ok \in BOOLEAN, JobEnds(j, ok)
      PROVE  Order!Next
  <2>1. {<<j.kind, j.tid>>} \in SUBSET Processes
    BY DEF Processes
  <2>2. QED
    BY <1>2, <1>6, <2>1 DEF Order!Next
<1>7. ASSUME WorkerFinishesNow PROVE Order!Next
  BY <1>3, <1>7 DEF Order!Next
<1>8. QED
  BY <1>4, <1>5, <1>6, <1>7 DEF Environment, WorkerSteps

LEMMA StepInOrder ==
  ASSUME OrderInv, [Next]_vars
  PROVE  [Order!Next]_(Order!orderVars)
<1>1. TypeOK /\ Sound /\ Counts /\ DepsComplete
  BY DEF OrderInv, QueueInv
<1>2. CASE Control
  <2>1. UNCHANGED <<runq_running, runq_complete, jobs>>
    BY <1>2 DEF Control, SceneInit, StopBeforeInit, IdleForce, IdleShutdown, Idle,
       AfterExecute, Finish, BuildDone, Return, runqVars, workerVars
  <2>2. QED
    BY <2>1, SameOrder
<1>3. CASE Migrates
  <2>1. UNCHANGED <<runq_running, runq_complete, jobs>>
    BY <1>3 DEF Migrates, NoMigrations, Migrate, runqVars, workerVars
  <2>2. QED
    BY <2>1, SameOrder
<1>4. QED
  BY <1>1, <1>2, <1>3, ReadsInOrder, ScansInOrder, SchedulesInOrder, OthersInOrder
  DEF Next, Cooker

\* The run queue implements module BuildOrder: whatever the scheduler, the cache and
\* the worker do, a task starts once, after all it depends on is complete, ends
\* before others rely on it, and no more than BB_NUMBER_THREADS run at a time.
THEOREM KeepsOrder ==
  ASSUME SteadyHardDeps, NoEnforce
  PROVE  Spec => BuildsInOrder
<1>1. Init => Order!Init
  BY DEF Init, Order!Init, Processes
<1>2. OrderInv /\ [Next]_vars => [Order!Next]_(Order!orderVars)
  BY StepInOrder
<1>3. Spec => []OrderInv
  BY QueueInvariant, CountsInvariant, DepsAlwaysComplete, PTL DEF OrderInv
<1>4. QED
  BY <1>1, <1>2, <1>3, PTL DEF Spec, BuildsInOrder, Order!Spec
=============================================================================
