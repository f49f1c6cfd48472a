-------------------------- MODULE RunQueueOutcome ---------------------------
(***************************************************************************)
(* What a build may skip and how it ends, for every task graph: nothing is *)
(* taken back after what it covers was skipped, the setscene half is never *)
(* found inconsistent, a build that ends complete has built its targets,   *)
(* nothing is left running, and what executes finds its inputs; the queue  *)
(* never gets stuck, bitbake -k builds all it can, and bitbake -f executes *)
(* its targets; what shares PN and hash is restored one after another.     *)
(*                                                                         *)
(* The invariant SkipInv ties the bookkeeping of the setscene half, which  *)
(* the code updates in place as tasks settle, to the graph: who is visited *)
(* and who may go are the tasks the graph says (GraphSound), the covered   *)
(* and notcovered sets are what they are derived from where they are used  *)
(* (CoverFresh), and what was skipped may be skipped (MaySkip). The other  *)
(* invariants build on it.                                                 *)
(***************************************************************************)
EXTENDS RunQueueOrder

-----------------------------------------------------------------------------
(* Starting tasks over, and the graph of the setscene half.                *)

\* What fails is what failed first, and what was not settled.
LEMMA FailClosureOf ==
  ASSUME NEW s, NEW F, NEW settled
  PROVE  /\ FailClosure(s, F, settled) \subseteq Setscene
         /\ F \cap Setscene \subseteq FailClosure(s, F, settled)
         /\ \A t \in FailClosure(s, F, settled) \ F : t \notin Resolved(s)
<1>1. FailClosure(s, F, settled) \subseteq Setscene
  BY DEF FailClosure
<1> QED
  BY <1>1, FailClosureRule

\* Who may go is buildable: each setscene task whose users are all settled.
BuildableSound(s) ==
  /\ \A t \in Setscene : SqRevdeps(t) \subseteq Resolved(s) => t \in s.buildable
  /\ Resolved(s) \subseteq s.buildable

LEMMA SpreadsBuildable ==
  ASSUME NEW s, NEW s2, NEW C, NEW N, NEW M, Spreads(s, s2, C, N, M),
         BuildableSound(s), C \cup N \subseteq s.buildable \cup M
  PROVE  BuildableSound(s2)
<1>1. Resolved(s2) = Resolved(s) \cup C \cup N
  BY DEF Spreads, Settles, Resolved
<1>2. ASSUME NEW t \in Setscene, SqRevdeps(t) \subseteq Resolved(s2)
      PROVE  t \in s2.buildable
  <2>1. CASE SqRevdeps(t) \cap (C \cup N) = {}
    <3>1. SqRevdeps(t) \subseteq Resolved(s)
      BY <1>1, <1>2, <2>1
    <3> QED
      BY <3>1 DEF BuildableSound, Spreads
  <2>2. CASE SqRevdeps(t) \cap (C \cup N) # {}
    BY <1>2, <2>2 DEF Spreads
  <2> QED
    BY <2>1, <2>2
<1>3. Resolved(s2) \subseteq s2.buildable
  BY <1>1 DEF BuildableSound, Spreads
<1> QED
  BY <1>2, <1>3 DEF BuildableSound

LEMMA SpreadsDone ==
  ASSUME NEW s \in SceneType, NEW s2, NEW C, NEW N, NEW M, Spreads(s, s2, C, N, M),
         NEW complete, ClosedBelow(complete), C \cup N \subseteq Setscene,
         DoneSound(s.done, Resolved(s), complete)
  PROVE  DoneSound(s2.done, Resolved(s2), complete)
<1> DEFINE K == C \cup N
<1>1. Resolved(s2) = Resolved(s) \cup K
  BY DEF Spreads, Settles, Resolved
<1>2. s2.done = s.done \cup K \cup NewlyDone(s.done, K)
  BY DEF Spreads
<1>3. s.done \subseteq Tasks /\ K \subseteq Setscene
  BY DEF SceneType
<1> HIDE DEF K
<1>4. DoneSound(s.done \cup K \cup NewlyDone(s.done, K), Resolved(s) \cup K, complete)
  BY <1>3, DoneGrows
<1> QED
  BY <1>1, <1>2, <1>4

\* Starting over with the hashes uh, u waits for a task that had its new hash.
Defers(u, uh) ==
  /\ Sharing(PendingIndex(u, uh[u])) # {}
  /\ Leader(PendingIndex(u, uh[u])) # u

\* s is s0 after the tasks R started over: as RestartedAs, with the rest of the scene.
StartsOver(s0, s, R, K, N) ==
  /\ RestartedAs(s0, s, R, K, N)
  /\ N \subseteq R \cup (Setscene \ Resolved(s0))
  /\ (\A t \in R : HardDeps[t] = {}) => N = {}
  /\ s.covered = (s0.covered \ R) \cup K /\ s.notcovered = (s0.notcovered \ R) \cup N
  /\ s.notneeded = s0.notneeded \ R
  /\ s0.buildable \ R \subseteq s.buildable
  /\ BuildableSound(s0) => BuildableSound(s)
  /\ ClosedBelow(runq_complete) /\ DoneSound(s0.done, Resolved(s0), runq_complete)
       => DoneSound(s.done, Resolved(s), runq_complete)

LEMMA RestartStartsOver ==
  ASSUME NEW s0 \in SceneType, NEW R, R \subseteq Setscene, NEW uh, NEW disk,
         runq_complete \in SUBSET Tasks
  PROVE  LET s == Restart(s0, R, uh, disk)
         IN  /\ DOMAIN s.deferred \subseteq DOMAIN s0.deferred
                    \cup {u \in R : Defers(u, uh)}
             /\ \E K \in SUBSET R, N \in SUBSET Setscene :
                  /\ StartsOver(s0, s, R, K, N)
                  /\ \A d \in K : SettledByStamps(disk, d, uh)
<1> DEFINE s == Reset(s0, R)
           failed == {t \in R : HardDepFail(s, t)}
           Leads(t) == Defers(t, uh)
           ready == {t \in R : \/ SqRevdeps(t) = {}
                               \/ /\ t \notin failed
                                  /\ SqRevdeps(t) \subseteq Resolved(s)}
           buildable == s.buildable \cup ready
           D == DOMAIN s.deferred \cup {u \in R : Leads(u)}
           deferred == [t \in D |-> IF t \in R /\ Leads(t)
                                    THEN Leader(PendingIndex(t, uh[t]))
                                    ELSE s.deferred[t]]
           s1 == [s EXCEPT !.buildable = buildable, !.deferred = deferred]
           s2 == UpdateScene(s1, R, disk, uh, sstate)
           settled == {t \in Setscene : SettledByStamps(disk, t, uh)}
           gone == R \cup {d \in UNION {SqCovered(t) : t \in R} :
                             d \notin runq_complete /\ d \notin Unskippable}
<1>1. /\ s \in SceneType
      /\ s.covered = s0.covered \ R /\ s.notcovered = s0.notcovered \ R
      /\ s.running = s0.running \ R /\ s.buildable = s0.buildable \ R
      /\ s.notneeded = s0.notneeded \ R /\ s.deferred = s0.deferred
      /\ s.done = s0.done \ gone
  <2>1. s \in SceneType
    BY ResetType
  <2> HIDE DEF gone
  <2>2. s = [s0 EXCEPT !.done = @ \ gone, !.buildable = @ \ R, !.running = @ \ R,
                       !.outright = @ \ R, !.notcovered = @ \ R, !.covered = @ \ R,
                       !.notneeded = @ \ R]
    BY DEF Reset, gone
  <2> HIDE DEF s
  <2> QED
    BY <2>1, <2>2 DEF SceneType
<1>2. s.deferred \in Deferrals
  BY <1>1 DEF SceneType, Deferrals
<1>3. /\ DOMAIN s.deferred \subseteq Setscene
      /\ \A t \in DOMAIN s.deferred : s.deferred[t] \in Setscene
  BY <1>2, DeferralsElim
<1>4. \A t : Leads(t) => Leader(PendingIndex(t, uh[t])) \in Setscene
  BY LeaderType DEF Defers
<1>5. failed \subseteq R /\ ((\A t \in R : HardDeps[t] = {}) => failed = {})
  BY DEF HardDepFail
<1>6. /\ Resolved(s) = Resolved(s0) \ R
      /\ ClosedBelow(runq_complete) /\ DoneSound(s0.done, Resolved(s0), runq_complete)
           => DoneSound(s.done, Resolved(s), runq_complete)
  <2>1. Resolved(s) = Resolved(s0) \ R
    BY <1>1 DEF Resolved
  <2>2. s0.done \subseteq Tasks
    BY DEF SceneType
  <2>3. ASSUME ClosedBelow(runq_complete), DoneSound(s0.done, Resolved(s0), runq_complete)
        PROVE  DoneSound(s0.done \ gone, Resolved(s0) \ R, runq_complete)
    BY <2>2, <2>3, DoneShrinks
  <2> HIDE DEF gone, s
  <2> QED
    BY <1>1, <2>1, <2>3
<1>7. ready \subseteq R /\ \A t \in R :
          t \notin failed /\ SqRevdeps(t) \subseteq Resolved(s) => t \in ready
  OBVIOUS
<1> HIDE DEF s, Leads, failed, gone, ready
<1>8. D \subseteq Setscene
  BY <1>3
<1>9. /\ deferred \in [D -> Setscene]
      /\ DOMAIN deferred \subseteq DOMAIN s.deferred \cup {u \in R : Leads(u)}
  <2> SUFFICES ASSUME NEW t \in D
               PROVE  (IF t \in R /\ Leads(t) THEN Leader(PendingIndex(t, uh[t]))
                       ELSE s.deferred[t]) \in Setscene
    OBVIOUS
  <2>1. CASE t \in R /\ Leads(t)
    BY <1>4, <2>1
  <2>2. CASE ~(t \in R /\ Leads(t))
    <3>1. t \in DOMAIN s.deferred
      BY <2>2
    <3> QED
      BY <1>3, <2>2, <3>1
  <2> QED
    BY <2>1, <2>2
<1>10. deferred \in Deferrals
  BY <1>8, <1>9, DeferralsIntro
<1> HIDE DEF deferred, D
<1>11. buildable \subseteq Setscene
  BY <1>1, <1>7 DEF SceneType
<1>12. s0.buildable \ R \subseteq buildable /\ ready \subseteq buildable
  BY <1>1
<1> HIDE DEF buildable
<1>13. /\ s1 \in SceneType
       /\ s1.covered = s.covered /\ s1.notcovered = s.notcovered
       /\ s1.running = s.running /\ s1.deferred = deferred /\ s1.buildable = buildable
       /\ s1.done = s.done /\ s1.notneeded = s.notneeded
  <2>1. s1 \in SceneType
    BY <1>1, <1>10, <1>11 DEF SceneType, Deferrals
  <2> QED
    BY <1>1, <2>1 DEF SceneType
<1>14. Restart(s0, R, uh, disk) =
         IF failed = {} THEN s2 ELSE FailScene(s2, failed, TRUE, settled)
  BY DEF Restart, s2, s1, deferred, D, buildable, ready, s, Leads, Defers, failed
<1> HIDE DEF s1
<1>15. s2 \in SceneType
  BY <1>13, UpdateSceneType
<1>16. PICK K \in SUBSET R :
         Spreads(s1, s2, K, {}, K) /\ \A d \in K : SettledByStamps(disk, d, uh)
  BY <1>13, UpdateSceneSpreads
<1> HIDE DEF s2
<1> DEFINE s3 == IF failed = {} THEN s2 ELSE FailScene(s2, failed, TRUE, settled)
<1>17. PICK N \in SUBSET Setscene :
         /\ Spreads(s2, s3, {}, N, N)
         /\ failed \subseteq N /\ \A t \in N \ failed : t \notin Resolved(s2)
         /\ failed = {} => N = {}
         /\ \A t \in Setscene \ R : HardDeps[t] \subseteq Resolved(s0) \ R => t \notin N
  <2>1. CASE failed = {}
    <3>1. Spreads(s2, s2, {}, {}, {})
      BY <1>15, NothingSpreads
    <3>2. s3 = s2
      BY <2>1
    <3> HIDE DEF s3
    <3> QED
      BY <2>1, <3>1, <3>2
  <2>2. CASE failed # {}
    <3> DEFINE N == FailClosure(s2, failed, settled)
    <3>1. Spreads(s2, FailScene(s2, failed, TRUE, settled), {}, N, N)
      BY <1>15, FailSceneSpreads
    <3>2. s3 = FailScene(s2, failed, TRUE, settled)
      BY <2>2
    <3>3. /\ N \subseteq Setscene /\ failed \subseteq N
          /\ \A t \in N \ failed : t \notin Resolved(s2)
      BY <1>5, FailClosureOf
    <3>4. Resolved(s0) \ R \subseteq Resolved(s2)
      BY <1>6, <1>13, <1>16 DEF Spreads, Settles, Resolved
    <3>5. ASSUME NEW t \in Setscene \ R, HardDeps[t] \subseteq Resolved(s0) \ R
          PROVE  t \notin N
      <4>1. HardDeps[t] \subseteq Resolved(s2) \ failed /\ t \notin failed
        BY <1>5, <3>4, <3>5
      <4> QED
        BY <4>1, FailClosureSpares
    <3> HIDE DEF N, s3
    <3> QED
      BY <2>2, <3>1, <3>2, <3>3, <3>5
  <2> QED
    BY <2>1, <2>2
<1>18. Restart(s0, R, uh, disk) = s3
  BY <1>14
<1> HIDE DEF s3
<1>19. /\ s3.covered = (s0.covered \ R) \cup K
       /\ s3.notcovered = (s0.notcovered \ R) \cup N
       /\ s3.running = (s0.running \ R) \cup K \cup N
       /\ s3.notneeded = s0.notneeded \ R
       /\ DOMAIN s3.deferred \subseteq DOMAIN s0.deferred \cup {u \in R : Leads(u)}
       /\ buildable \cup K \subseteq s2.buildable
       /\ s2.buildable \cup N \subseteq s3.buildable
  BY <1>1, <1>9, <1>13, <1>16, <1>17 DEF Spreads, Settles
<1>20. /\ Resolved(s2) = Resolved(s) \cup K /\ Resolved(s3) = Resolved(s) \cup K \cup N
       /\ Resolved(s1) = Resolved(s)
  BY <1>13, <1>16, <1>17 DEF Spreads, Settles, Resolved
<1>21. RestartedAs(s0, s3, R, K, N)
  BY <1>6, <1>17, <1>19, <1>20 DEF RestartedAs
<1>22. N \subseteq R \cup (Setscene \ Resolved(s0))
  BY <1>5, <1>6, <1>17, <1>20
<1>23. ASSUME BuildableSound(s0) PROVE BuildableSound(s3)
  <2>1. ASSUME NEW t \in Setscene, SqRevdeps(t) \subseteq Resolved(s3)
        PROVE  t \in s3.buildable
    <3>1. CASE SqRevdeps(t) \cap N # {}
      BY <2>1, <3>1, <1>17 DEF Spreads
    <3>2. CASE SqRevdeps(t) \cap N = {} /\ SqRevdeps(t) \cap K # {}
      <4>1. SqRevdeps(t) \subseteq Resolved(s2)
        BY <1>20, <2>1, <3>2
      <4>2. t \in s2.buildable
        BY <1>16, <3>2, <4>1 DEF Spreads
      <4> QED
        BY <1>19, <4>2
    <3>3. CASE SqRevdeps(t) \cap N = {} /\ SqRevdeps(t) \cap K = {}
      <4>1. SqRevdeps(t) \subseteq Resolved(s)
        BY <1>20, <2>1, <3>3
      <4>2. CASE t \in failed
        BY <1>17, <1>19, <4>2
      <4>3. CASE t \in R \ failed
        BY <1>7, <1>12, <1>19, <4>1, <4>3
      <4>4. CASE t \notin R
        BY <1>6, <1>12, <1>19, <1>23, <4>1, <4>4 DEF BuildableSound
      <4> QED
        BY <4>2, <4>3, <4>4
    <3> QED
      BY <3>1, <3>2, <3>3
  <2>2. Resolved(s3) \subseteq s3.buildable
    BY <1>6, <1>12, <1>19, <1>20, <1>23 DEF BuildableSound
  <2> QED
    BY <2>1, <2>2 DEF BuildableSound
<1>24. ASSUME ClosedBelow(runq_complete), DoneSound(s0.done, Resolved(s0), runq_complete)
       PROVE  DoneSound(s3.done, Resolved(s3), runq_complete)
  <2>1. DoneSound(s1.done, Resolved(s1), runq_complete)
    BY <1>6, <1>13, <1>20, <1>24
  <2>2. K \cup {} \subseteq Setscene /\ {} \cup N \subseteq Setscene
    OBVIOUS
  <2>3. DoneSound(s2.done, Resolved(s2), runq_complete)
    BY <1>13, <1>16, <1>24, <2>1, <2>2, SpreadsDone
  <2> QED
    BY <1>15, <1>17, <1>24, <2>2, <2>3, SpreadsDone
<1>25. s0.buildable \ R \subseteq s3.buildable
  BY <1>12, <1>19
<1>26. StartsOver(s0, s3, R, K, N)
  BY <1>5, <1>17, <1>19, <1>21, <1>22, <1>23, <1>24, <1>25 DEF StartsOver
<1> QED
  BY <1>16, <1>18, <1>19, <1>26 DEF Leads

LEMMA RestartIsOver ==
  ASSUME NEW s0 \in SceneType, NEW R, R \subseteq Setscene, NEW uh, NEW disk,
         runq_complete \in SUBSET Tasks
  PROVE  \E K \in SUBSET R, N \in SUBSET Setscene :
           StartsOver(s0, Restart(s0, R, uh, disk), R, K, N)
BY RestartStartsOver

LEMMA RestartDefers ==
  ASSUME NEW s0 \in SceneType, NEW R, R \subseteq Setscene, NEW uh, NEW disk,
         runq_complete \in SUBSET Tasks
  PROVE  DOMAIN Restart(s0, R, uh, disk).deferred
           \subseteq DOMAIN s0.deferred \cup {u \in R : Defers(u, uh)}
BY RestartStartsOver

\* s2 differs from s in what waits for what at most.
SameBooks(s, s2) ==
  /\ s2.covered = s.covered /\ s2.notcovered = s.notcovered /\ s2.running = s.running
  /\ s2.buildable = s.buildable /\ s2.done = s.done /\ s2.needed = s.needed
  /\ s2.parked = s.parked /\ s2.notneeded = s.notneeded /\ s2.dirty = s.dirty
  /\ DOMAIN s2.deferred \subseteq DOMAIN s.deferred

LEMMA UndeferredBooks ==
  ASSUME NEW s \in SceneType, NEW t
  PROVE  Undeferred(s, t) \in SceneType /\ SameBooks(s, Undeferred(s, t))
<1>1. Undeferred(s, t) \in SceneType
  BY UndeferredType
<1> DEFINE f == Without(s.deferred, {t})
<1>2. DOMAIN f \subseteq DOMAIN s.deferred
  BY DEF Without
<1> HIDE DEF f
<1>3. Undeferred(s, t) = [s EXCEPT !.deferred = f]
  BY DEF Undeferred, f
<1> QED
  BY <1>1, <1>2, <1>3 DEF SameBooks, SceneType

LEMMA SpreadsAfter ==
  ASSUME NEW s, NEW s1, NEW s2, NEW C, NEW N, NEW M,
         SameBooks(s, s1), Spreads(s1, s2, C, N, M)
  PROVE  Spreads(s, s2, C, N, M)
BY DEF SameBooks, Spreads, Settles

-----------------------------------------------------------------------------
(* Steps of the cooker that settle some tasks, and how they move the scene. *)

\* Who is parked waits for a hard dependency, which was brought forward.
ParkSound(s) ==
  /\ s.needed \subseteq s.buildable
  /\ \A d \in s.parked : /\ HardDeps[d] \subseteq s.needed
                         /\ ~(HardDeps[d] \subseteq Resolved(s))

LEMMA SpreadsParks ==
  ASSUME NEW s, NEW s2, NEW C, NEW N, NEW M, Spreads(s, s2, C, N, M), ParkSound(s)
  PROVE  ParkSound(s2)
<1>1. Resolved(s2) = Resolved(s) \cup C \cup N
  BY DEF Spreads, Settles, Resolved
<1>2. ASSUME NEW d \in s2.parked, HardDeps[d] \subseteq Resolved(s2) PROVE FALSE
  <2>1. d \in s.parked /\ HardDeps[d] \cap (C \cup N) = {}
    BY <1>2 DEF Spreads
  <2> QED
    BY <1>1, <1>2, <2>1 DEF ParkSound
<1> QED
  BY <1>2 DEF ParkSound, Spreads

\* The scene agrees with the graph.
GraphSound(s) ==
  BuildableSound(s) /\ DoneSound(s.done, Resolved(s), runq_complete)

\* Tasks only become settled; the scene still agrees with the graph, and is marked dirty
\* unless nothing that matters has changed.
SceneMoves ==
  /\ scene.covered \subseteq scene'.covered
  /\ scene.notcovered \subseteq scene'.notcovered
  /\ (scene'.notcovered \ scene.notcovered) \cap Resolved(scene) = {}
  /\ scene.buildable \subseteq scene'.buildable
  /\ ClosedBelow(runq_complete) /\ GraphSound(scene)
       => /\ BuildableSound(scene')
          /\ DoneSound(scene'.done, Resolved(scene'), runq_complete)
  /\ ~scene'.dirty => /\ ~scene.dirty /\ scene'.done = scene.done
                      /\ scene'.covered = scene.covered
                      /\ scene'.notcovered = scene.notcovered
  /\ \A d \in scene'.notneeded \ scene.notneeded :
       d \notin Unskippable \cup Targets /\ SqRevdeps(d) \subseteq scene.covered
  /\ DOMAIN scene'.deferred \subseteq DOMAIN scene.deferred
  /\ DOMAIN scene.deferred = {} /\ scene.covered \cap scene.notcovered = {}
       => scene'.covered \cap scene'.notcovered = {}
  /\ ParkSound(scene) => ParkSound(scene')
  /\ scene'.running \subseteq scene.running \cup Resolved(scene') \cup sq_live'

LEMMA SameMoves ==
  ASSUME SameBooks(scene, scene')
  PROVE  SceneMoves
BY DEF SameBooks, SceneMoves, GraphSound, BuildableSound, ParkSound, Resolved

LEMMA SpreadsMoves ==
  ASSUME scene \in SceneType, NEW s2, NEW C, NEW N, NEW M, Spreads(scene, s2, C, N, M),
         C \cup N \subseteq Setscene, C \cup N \subseteq scene.buildable \cup M,
         M \subseteq C \cup N, N \cap Resolved(scene) = {},
         scene'.running = s2.running, scene'.needed = s2.needed,
         scene'.parked = s2.parked,
         scene'.covered = s2.covered, scene'.notcovered = s2.notcovered,
         scene'.buildable = s2.buildable, scene'.done = s2.done, scene'.dirty = s2.dirty,
         \A d \in scene'.notneeded \ s2.notneeded :
           d \notin Unskippable \cup Targets /\ SqRevdeps(d) \subseteq scene.covered,
         DOMAIN scene'.deferred \subseteq DOMAIN s2.deferred,
         DOMAIN scene.deferred = {} => C \cap (Resolved(scene) \cup N) = {}
  PROVE  SceneMoves
<1>1. /\ s2.covered = scene.covered \cup C /\ s2.notcovered = scene.notcovered \cup N
      /\ s2.dirty = (scene.dirty \/ C \cup N # {})
      /\ s2.done = scene.done \cup C \cup N \cup NewlyDone(scene.done, C \cup N)
  BY DEF Spreads, Settles
<1>2. Resolved(scene') = Resolved(s2)
  BY DEF Resolved
<1>3. ASSUME ClosedBelow(runq_complete), GraphSound(scene)
      PROVE  /\ BuildableSound(scene')
             /\ DoneSound(scene'.done, Resolved(scene'), runq_complete)
  <2>1. BuildableSound(s2)
    BY <1>3, SpreadsBuildable DEF GraphSound
  <2>2. DoneSound(s2.done, Resolved(s2), runq_complete)
    BY <1>3, SpreadsDone DEF GraphSound
  <2> QED
    BY <1>2, <2>1, <2>2 DEF BuildableSound
<1>4. ASSUME ~scene'.dirty
      PROVE  /\ ~scene.dirty /\ scene'.done = scene.done
             /\ scene'.covered = scene.covered /\ scene'.notcovered = scene.notcovered
  <2>1. ~scene.dirty /\ C \cup N = {}
    BY <1>1, <1>4 DEF SceneType
  <2>2. C = {} /\ N = {}
    BY <2>1
  <2>3. NewlyDone(scene.done, C \cup N) = {}
    BY <2>1, NothingNewlyDone
  <2> QED
    BY <1>1, <2>1, <2>2, <2>3
<1>5. (scene'.notcovered \ scene.notcovered) \cap Resolved(scene) = {}
  BY <1>1
<1>6. scene.buildable \subseteq scene'.buildable
  BY DEF Spreads
<1>7. s2.notneeded = scene.notneeded /\ DOMAIN s2.deferred \subseteq DOMAIN scene.deferred
  BY DEF Spreads, Settles
<1>8. ASSUME DOMAIN scene.deferred = {}, scene.covered \cap scene.notcovered = {}
      PROVE  scene'.covered \cap scene'.notcovered = {}
  BY <1>1, <1>8 DEF Resolved
<1>9. ASSUME ParkSound(scene) PROVE ParkSound(scene')
  <2>1. ParkSound(s2)
    BY <1>9, SpreadsParks
  <2> QED
    BY <1>2, <2>1 DEF ParkSound
<1>10. scene'.running \subseteq scene.running \cup Resolved(scene') \cup sq_live'
  BY <1>1, <1>2 DEF Spreads, Settles, Resolved
<1> QED
  BY <1>1, <1>3, <1>4, <1>5, <1>6, <1>7, <1>8, <1>9, <1>10 DEF SceneMoves

LEMMA CompleteOutrightMoves ==
  ASSUME TypeOK, NEW t, NEW extra, NEW disk, CompleteOutright(t, extra, disk)
  PROVE  SceneMoves
<1>1. scene \in SceneType
  BY DEF TypeOK, SceneVarsType
<1>2. scene' = ReleaseDeferred(scene, t, disk, unihash, sstate)
  BY DEF CompleteOutright
<1>3. PICK K \in SUBSET (Setscene \cap DOMAIN scene.deferred) :
        Spreads(scene, scene', K, {}, K)
  BY <1>1, <1>2, ReleaseDeferredSpreads
<1>4. /\ K \cup {} \subseteq Setscene /\ K \cup {} \subseteq scene.buildable \cup K
      /\ K \subseteq K \cup {}
      /\ (DOMAIN scene.deferred = {} => K = {})
  OBVIOUS
<1> QED
  BY <1>1, <1>3, <1>4, SpreadsMoves

LEMMA ReadSetsceneExitMoves ==
  ASSUME TypeOK, Sound, sq_live \subseteq scene.buildable,
         NEW t \in Tasks, NEW ok \in BOOLEAN, ReadSetsceneExit(t, ok)
  PROVE  SceneMoves
<1>1. /\ t \in sq_live
      /\ scene' = IF ok THEN CoverScene(scene, {t})
                  ELSE FailScene(scene, {t}, FALSE, Settled)
  BY DEF ReadSetsceneExit
<1>2. scene \in SceneType /\ t \in Setscene
  BY <1>1 DEF TypeOK, SceneVarsType
<1>3. t \notin Resolved(scene) /\ t \in scene.buildable
  BY <1>1 DEF Sound, LiveSound
<1>4. CASE ok
  <2>1. Spreads(scene, scene', {t}, {}, {})
    BY <1>1, <1>2, <1>4, CoverSceneSpreads
  <2>2. /\ {t} \cup {} \subseteq Setscene /\ {t} \cup {} \subseteq scene.buildable \cup {}
        /\ {t} \cap (Resolved(scene) \cup {}) = {}
    BY <1>2, <1>3
  <2> QED
    BY <1>2, <2>1, <2>2, SpreadsMoves
<1>5. CASE ~ok
  <2> DEFINE K == FailClosure(scene, {t}, Settled)
  <2>1. Spreads(scene, scene', {}, K, K \ {t})
    BY <1>1, <1>2, <1>5, FailSceneSpreads
  <2>2. K \subseteq Setscene /\ \A u \in K \ {t} : u \notin Resolved(scene)
    BY FailClosureOf
  <2> HIDE DEF K
  <2>3. /\ {} \cup K \subseteq Setscene
        /\ {} \cup K \subseteq scene.buildable \cup (K \ {t})
        /\ K \cap Resolved(scene) = {} /\ K \ {t} \subseteq {} \cup K
    BY <1>3, <2>2
  <2> QED
    BY <1>2, <2>1, <2>3, SpreadsMoves
<1> QED
  BY <1>4, <1>5

LEMMA ScansMove ==
  ASSUME TypeOK, Sound, Scans
  PROVE  SceneMoves
<1>1. scene \in SceneType
  BY DEF TypeOK, SceneVarsType
<1>2. CASE ScanEnds
  <2>1. UNCHANGED scene
    BY <1>2 DEF ScanEnds, sceneVars
  <2> QED
    BY <2>1, SameMoves DEF SameBooks
<1>3. ASSUME NEW t \in Setscene,
             \/ ScanSkipsUnneeded(t) \/ ScanParks(t) \/ ScanFails(t)
             \/ ScanSkipsStamped(t) \/ ScanLaunches(t)
      PROVE  SceneMoves
  <2> DEFINE u == Undeferred(scene, t)
  <2>1. u \in SceneType /\ SameBooks(scene, u)
    BY <1>1, UndeferredBooks
  <2>2. t \in Candidates
    BY <1>3 DEF ScanSkipsUnneeded, ScanParks, ScanFails, ScanSkipsStamped,
                ScanLaunches, Scanned
  <2>3. t \in scene.buildable /\ t \notin Resolved(scene) /\ Resolved(u) = Resolved(scene)
    <3>1. t \in scene.buildable /\ t \notin scene.running
      BY <2>2 DEF Candidates
    <3> HIDE DEF u
    <3> QED
      BY <2>1, <3>1 DEF Sound, LiveSound, SameBooks, Resolved
  <2>4. CASE ScanSkipsUnneeded(t)
    <3> DEFINE k == SkipScene(scene, {t})
               s == Undeferred(k, t)
    <3>1. k \in SceneType /\ Spreads(scene, k, {t}, {}, {t})
      BY <1>1, SkipSceneType, SkipSceneSpreads
    <3> HIDE DEF k
    <3>2. s \in SceneType /\ SameBooks(k, s)
      BY <3>1, UndeferredBooks
    <3>3. scene' = [s EXCEPT !.notneeded = @ \cup {t}]
      BY <2>4 DEF ScanSkipsUnneeded, s, k
    <3> HIDE DEF s
    <3>4. /\ scene'.covered = k.covered /\ scene'.notcovered = k.notcovered
          /\ scene'.buildable = k.buildable /\ scene'.done = k.done
          /\ scene'.dirty = k.dirty /\ scene'.running = k.running
          /\ scene'.needed = k.needed /\ scene'.parked = k.parked
          /\ scene'.notneeded = k.notneeded \cup {t}
          /\ DOMAIN scene'.deferred \subseteq DOMAIN k.deferred
      BY <3>2, <3>3 DEF SceneType, SameBooks
    <3>5. /\ {t} \cup {} \subseteq Setscene
          /\ {t} \cup {} \subseteq scene.buildable \cup {t}
          /\ {} \cap Resolved(scene) = {} /\ {t} \cap (Resolved(scene) \cup {}) = {}
      BY <2>3
    <3>6. t \notin Unskippable \cup Targets /\ SqRevdeps(t) \subseteq scene.covered
      BY <2>4 DEF ScanSkipsUnneeded, MaybeNotNeeded
    <3> QED
      BY <1>1, <3>1, <3>4, <3>5, <3>6, SpreadsMoves
  <2>5. CASE ScanParks(t)
    <3>1. HardDeps[t] \subseteq Setscene
      BY GraphAssumption
    <3>2. /\ scene'.covered = scene.covered /\ scene'.notcovered = scene.notcovered
          /\ scene.buildable \subseteq scene'.buildable
          /\ scene'.done = scene.done /\ scene'.dirty = scene.dirty
          /\ scene'.notneeded = scene.notneeded /\ scene'.deferred = scene.deferred
          /\ scene'.running = scene.running
          /\ scene'.buildable = scene.buildable \cup (HardDeps[t] \ scene.needed)
          /\ scene'.needed = scene.needed \cup HardDeps[t]
          /\ scene'.parked = scene.parked \cup {t}
      BY <1>1, <2>5 DEF ScanParks, SceneType
    <3>3. ~(HardDeps[t] \subseteq Resolved(scene))
      BY <2>5 DEF ScanParks, HardDepsPending
    <3>4. ParkSound(scene) => ParkSound(scene')
      BY <3>2, <3>3 DEF ParkSound, Resolved
    <3> QED
      BY <3>2, <3>4 DEF SceneMoves, GraphSound, BuildableSound, Resolved
  <2>6. CASE ScanFails(t)
    <3> DEFINE K == FailClosure(u, {t}, Settled)
    <3>1. scene' = FailScene(u, {t}, TRUE, Settled)
      BY <2>6 DEF ScanFails
    <3>2. K \subseteq Setscene /\ \A v \in K \ {t} : v \notin Resolved(u)
      BY FailClosureOf
    <3> HIDE DEF u
    <3>3. Spreads(u, scene', {}, K, K)
      BY <2>1, <3>1, FailSceneSpreads
    <3> HIDE DEF K
    <3>4. Spreads(scene, scene', {}, K, K)
      BY <2>1, <3>3, SpreadsAfter
    <3>5. /\ {} \cup K \subseteq Setscene /\ {} \cup K \subseteq scene.buildable \cup K
          /\ K \cap Resolved(scene) = {}
      BY <2>3, <3>2
    <3> QED
      BY <1>1, <3>4, <3>5, SpreadsMoves
  <2>7. CASE ScanSkipsStamped(t)
    <3>1. scene' = SkipScene(u, {t})
      BY <2>7 DEF ScanSkipsStamped
    <3> HIDE DEF u
    <3>2. Spreads(u, scene', {t}, {}, {t})
      BY <2>1, <3>1, SkipSceneSpreads
    <3>3. Spreads(scene, scene', {t}, {}, {t})
      BY <2>1, <3>2, SpreadsAfter
    <3>4. /\ {t} \cup {} \subseteq Setscene
          /\ {t} \cup {} \subseteq scene.buildable \cup {t}
          /\ {} \cap Resolved(scene) = {} /\ {t} \cap (Resolved(scene) \cup {}) = {}
      BY <2>3
    <3> QED
      BY <1>1, <3>3, <3>4, SpreadsMoves
  <2>8. CASE ScanLaunches(t)
    <3>1. \/ scene' = u
          \/ scene' = [u EXCEPT !.running = @ \cup {t}] /\ t \in sq_live'
      BY <2>8 DEF ScanLaunches
    <3> HIDE DEF u
    <3>2. /\ scene'.covered = u.covered /\ scene'.notcovered = u.notcovered
          /\ scene'.buildable = u.buildable /\ scene'.done = u.done
          /\ scene'.dirty = u.dirty
          /\ scene'.notneeded = u.notneeded /\ scene'.deferred = u.deferred
          /\ scene'.needed = u.needed /\ scene'.parked = u.parked
          /\ scene'.running \subseteq u.running \cup sq_live'
      BY <2>1, <3>1 DEF SceneType
    <3>3. ParkSound(scene) => ParkSound(scene')
      BY <2>1, <3>2 DEF SameBooks, ParkSound, Resolved
    <3> QED
      BY <2>1, <3>2, <3>3 DEF SameBooks, SceneMoves, GraphSound, BuildableSound, Resolved
  <2> QED
    BY <1>3, <2>4, <2>5, <2>6, <2>7, <2>8
<1> QED
  BY <1>2, <1>3 DEF Scans

-----------------------------------------------------------------------------
(* What was skipped may be skipped.                                        *)

\* Tasks counted as complete without having run, found current or got their stamp.
Skipped == runq_complete \ runq_tasksrun

\* What covers d was restored, or needed no restore, and never failed.
MaySkip(d) ==
  IF d \in Setscene THEN d \in scene.covered \ scene.notcovered
  ELSE d \notin Unskippable /\ Owners[d] \subseteq scene.covered \ scene.notcovered

\* update_scenequeue_data leaves the sets it derives; dirty says they are out of date.
CoverFresh ==
  ~scene.dirty => tasks_covered = Covered /\ tasks_notcovered = NotCovered

\* The invariant.
SkipInv ==
  /\ pc \notin {"init", "done"} => GraphSound(scene)
  /\ sq_live \subseteq scene.buildable
  /\ CoverFresh
  /\ pending_migrations \subseteq scene.notcovered
  /\ pc = "init" => pending_migrations = {}
  /\ \A d \in Skipped : MaySkip(d)
  /\ scene.notneeded \cap (Targets \cup Unskippable) = {}

LEMMA CompleteClosed ==
  ASSUME QueueInv, DepsComplete
  PROVE  ClosedBelow(runq_complete)
BY DEF QueueInv, Sound, CoverSound, StartedBuildable, DepsComplete, ClosedBelow

LEMMA DoneMore ==
  ASSUME NEW done, NEW res, NEW c, NEW c2, c \subseteq c2, DoneSound(done, res, c)
  PROVE  DoneSound(done, res, c2)
BY DEF DoneSound

LEMMA MovesKeep ==
  ASSUME QueueInv, DepsComplete, SkipInv, SceneMoves,
         pc \notin {"init", "done"}, pc' # "init",
         sq_live' \subseteq scene.buildable,
         UNCHANGED <<tasks_covered, tasks_notcovered, pending_migrations>>,
         runq_complete \subseteq runq_complete',
         \A d \in Skipped' \ Skipped : MaySkip(d)
  PROVE  SkipInv'
<1>1. GraphSound(scene) /\ ClosedBelow(runq_complete)
  BY CompleteClosed DEF SkipInv
<1>2. BuildableSound(scene') /\ DoneSound(scene'.done, Resolved(scene'), runq_complete)
  BY <1>1 DEF SceneMoves
<1>3. DoneSound(scene'.done, Resolved(scene'), runq_complete')
  BY <1>2, DoneMore
<1>4. GraphSound(scene)'
  BY <1>2, <1>3 DEF GraphSound, BuildableSound
<1>5. CoverFresh'
  BY DEF SkipInv, SceneMoves, CoverFresh, Covered, NotCovered
<1>6. \A d : MaySkip(d) => MaySkip(d)'
  <2>1. scene.covered \ scene.notcovered \subseteq scene'.covered \ scene'.notcovered
    BY DEF SceneMoves, Resolved
  <2> QED
    BY <2>1 DEF MaySkip
<1>7. \A d \in Skipped' : MaySkip(d)'
  BY <1>6 DEF SkipInv
<1>8. /\ sq_live' \subseteq scene'.buildable
      /\ pending_migrations' \subseteq scene'.notcovered
  BY DEF SkipInv, SceneMoves
<1>9. scene'.notneeded \cap (Targets \cup Unskippable) = {}
  BY DEF SkipInv, SceneMoves
<1> QED
  BY <1>4, <1>5, <1>7, <1>8, <1>9 DEF SkipInv

\* Steps that leave the scene and what it covers alone.
LEMMA StillKeeps ==
  ASSUME QueueInv, SkipInv,
         UNCHANGED <<scene, sq_live, tasks_covered, tasks_notcovered, pending_migrations,
                     runq_complete, runq_tasksrun>>,
         pc' # "init" \/ pc = "init",
         pc' \in {"init", "done"} \/ pc \notin {"init", "done"}
  PROVE  SkipInv'
<1>1. GraphSound(scene) => GraphSound(scene)'
  BY DEF GraphSound, BuildableSound, Resolved
<1>2. CoverFresh' /\ Skipped' = Skipped /\ \A d : MaySkip(d) => MaySkip(d)'
  BY DEF SkipInv, CoverFresh, Covered, NotCovered, Skipped, MaySkip
<1> QED
  BY <1>1, <1>2 DEF SkipInv

LEMMA InitialSceneSound ==
  ASSUME NEW disk, NEW cache
  PROVE  LET s == InitialScene(disk, cache)
         IN  s.dirty = TRUE /\ BuildableSound(s) /\ DoneSound(s.done, Resolved(s), {})
             /\ s.notneeded = {} /\ s.notcovered = {}
             /\ DOMAIN s.deferred \subseteq DOMAIN InitiallyDeferred
             /\ ParkSound(s) /\ s.running \subseteq Resolved(s)
             /\ \A d \in s.covered : SettledByStamps(disk, d, InitHash)
<1> DEFINE s0 == [buildable |-> {t \in Setscene : SqRevdeps(t) = {}},
                  running |-> {}, covered |-> {}, notcovered |-> {}, notneeded |-> {},
                  done |-> Unskippable \ Setscene,
                  needed |-> {}, parked |-> {}, deferred |-> InitiallyDeferred,
                  outright |-> {}, dirty |-> TRUE]
           s == InitialScene(disk, cache)
<1>1. s0 \in SceneType
  <2>1. InitiallyDeferred \in UNION {[D -> Setscene] : D \in SUBSET Setscene}
    BY InitiallyDeferredType DEF Deferrals
  <2>2. Unskippable \ Setscene \subseteq Tasks
    BY DEF Unskippable
  <2> QED
    BY <2>1, <2>2 DEF SceneType
<1>2. /\ s0.covered = {} /\ s0.notcovered = {} /\ s0.dirty = TRUE /\ s0.notneeded = {}
      /\ s0.done = Unskippable \ Setscene /\ Resolved(s0) = {}
      /\ s0.deferred = InitiallyDeferred /\ s0.running = {} /\ ParkSound(s0)
  BY DEF Resolved, ParkSound
<1>3. BuildableSound(s0)
  BY <1>2 DEF BuildableSound
<1>4. DoneSound(s0.done, Resolved(s0), {})
  <2>1. \A t \in Tasks : RevDeps(t) = {} => t \in Unskippable
    BY UnskippableRule DEF Unskippable
  <2>2. \A t \in Tasks : \A r \in RevDeps(t) \ Setscene : r \in Unskippable
            => t \in Unskippable
    BY UnskippableAre
  <2>3. \A t \in Tasks \ Setscene : RevDeps(t) \subseteq s0.done => t \in s0.done
    BY <1>2, <2>1, <2>2
  <2> QED
    BY <1>2, <2>3 DEF DoneSound
<1>5. s = UpdateScene(s0, Setscene, disk, InitHash, cache)
  BY DEF InitialScene
<1> HIDE DEF s0
<1>6. PICK K \in SUBSET Setscene :
        /\ Spreads(s0, UpdateScene(s0, Setscene, disk, InitHash, cache), K, {}, K)
        /\ \A d \in K : SettledByStamps(disk, d, InitHash)
  BY <1>1, UpdateSceneSpreads
<1> HIDE DEF s
<1>7. Spreads(s0, s, K, {}, K)
  BY <1>5, <1>6
<1>8. K \cup {} \subseteq s0.buildable \cup K /\ K \cup {} \subseteq Setscene
  OBVIOUS
<1>9. BuildableSound(s)
  BY <1>3, <1>7, <1>8, SpreadsBuildable
<1>10. DoneSound(s.done, Resolved(s), {})
  BY <1>1, <1>4, <1>7, <1>8, SpreadsDone DEF ClosedBelow
<1>11. /\ s.dirty = TRUE /\ s.notneeded = {} /\ s.notcovered = {}
       /\ DOMAIN s.deferred \subseteq DOMAIN InitiallyDeferred /\ s.covered = K
  BY <1>2, <1>7 DEF Spreads, Settles
<1>12. ParkSound(s) /\ s.running \subseteq Resolved(s)
  <2>1. ParkSound(s)
    BY <1>2, <1>7, SpreadsParks
  <2> QED
    BY <1>2, <1>7, <2>1 DEF Spreads, Settles, Resolved
<1> QED
  BY <1>6, <1>9, <1>10, <1>11, <1>12 DEF s

\* What it rests on: types, the order of the tasks, and the books on the worker.
SkipBase == QueueInv /\ DepsComplete /\ SkipInv

LEMMA ControlSkips == SkipBase /\ Control => SkipInv'
<1> SUFFICES ASSUME SkipBase, Control PROVE SkipInv'
  OBVIOUS
<1>1. CASE SceneInit
  <2>1. /\ pc = "init" /\ pc' = "poll" /\ scene' = InitialScene(files', sstate)
        /\ UNCHANGED <<sq_live, tasks_covered, runq_complete, runq_tasksrun,
                       runq_running, pending_migrations>>
    BY <1>1 DEF SceneInit, hashVars
  <2>2. /\ sq_live = {} /\ runq_complete = {} /\ pending_migrations = {}
    BY <2>1 DEF SkipBase, QueueInv, Sound, CoverSound, SkipInv
  <2>3. /\ scene'.dirty = TRUE /\ BuildableSound(scene')
        /\ DoneSound(scene'.done, Resolved(scene'), {}) /\ scene'.notneeded = {}
    BY <2>1, InitialSceneSound
  <2>4. DoneSound(scene'.done, Resolved(scene'), runq_complete')
    BY <2>1, <2>2, <2>3
  <2>5. GraphSound(scene)'
    BY <2>3, <2>4 DEF GraphSound, BuildableSound
  <2> QED
    BY <2>1, <2>2, <2>3, <2>5 DEF SkipInv, CoverFresh, Skipped
<1>2. CASE StopBeforeInit \/ IdleForce \/ IdleShutdown \/ Idle \/ AfterExecute
             \/ Finish \/ BuildDone \/ Return
  <2>1. UNCHANGED <<scene, sq_live, tasks_covered, tasks_notcovered, pending_migrations,
                    runq_complete, runq_tasksrun>>
    BY <1>2 DEF StopBeforeInit, IdleForce, IdleShutdown, Idle, AfterExecute, Finish,
                BuildDone, Return, sceneVars, coverVars, runqVars, hashVars
  <2>2. pc' # "init" /\ (pc' = "done" \/ pc \notin {"init", "done"})
    BY <1>2 DEF StopBeforeInit, IdleForce, IdleShutdown, Idle, AfterExecute, Finish,
                BuildDone, Return, Goto
  <2> QED
    BY <2>1, <2>2, StillKeeps DEF SkipBase
<1> QED
  BY <1>1, <1>2 DEF Control

LEMMA ReadsSkip == SkipBase /\ Reads => SkipInv'
<1> SUFFICES ASSUME SkipBase, Reads PROVE SkipInv'
  OBVIOUS
<1>1. TypeOK /\ Sound
  BY DEF SkipBase, QueueInv
<1>2. CASE Poll \/ ReadEvent \/ ReadDone \/ \E t \in Tasks : ReadFailure(t)
  <2>1. UNCHANGED <<scene, sq_live, tasks_covered, tasks_notcovered, pending_migrations,
                    runq_complete, runq_tasksrun>>
    BY <1>2 DEF Poll, ReadEvent, ReadDone, ReadFailure, sceneVars, coverVars,
                runqVars, hashVars
  <2>2. pc \notin {"init", "done"} /\ pc' # "init"
    <3>1. CASE Poll \/ ReadEvent \/ \E t \in Tasks : ReadFailure(t)
      BY <3>1 DEF Poll, ReadEvent, ReadFailure, Exited, Goto, controlVars
    <3>2. CASE ReadDone
      <4>1. pc = "read" /\ pc' = CASE reading = "top" -> "migrate"
                                   [] reading = "tail" -> "after"
                                   [] reading = "finish" -> "build_done"
                                   [] reading = "teardown" -> "return"
        BY <3>2 DEF ReadDone, Goto
      <4>2. reading \in {"top", "tail", "finish", "teardown"}
        BY <1>1 DEF TypeOK, ControlType
      <4>3. pc' \in {"migrate", "after", "build_done", "return"}
        BY <4>1, <4>2, Zenon
      <4> QED
        BY <4>1, <4>3
    <3> QED
      BY <1>2, <3>1, <3>2
  <2> QED
    BY <2>1, <2>2, StillKeeps DEF SkipBase
<1>3. ASSUME NEW t \in Tasks, ReadSuccess(t) PROVE SkipInv'
  <2>1. /\ pc = "read" /\ pc' = "read" /\ CompleteOutright(t, {}, files)
        /\ UNCHANGED <<sq_live, tasks_covered, tasks_notcovered, pending_migrations>>
        /\ runq_complete' = runq_complete \cup {t}
        /\ runq_tasksrun' = runq_tasksrun \cup {t}
    BY <1>3 DEF ReadSuccess, Exited, CompleteOutright, controlVars, coverVars, hashVars
  <2>2. SceneMoves
    BY <1>1, <2>1, CompleteOutrightMoves
  <2>3. Skipped' \subseteq Skipped
    BY <2>1 DEF Skipped
  <2>4. sq_live' \subseteq scene.buildable
    BY <2>1 DEF SkipBase, SkipInv
  <2> QED
    BY <2>1, <2>2, <2>3, <2>4, MovesKeep DEF SkipBase
<1>4. ASSUME NEW t \in Tasks, NEW ok \in BOOLEAN, ReadSetsceneExit(t, ok) PROVE SkipInv'
  <2>1. /\ pc = "read" /\ pc' = "read" /\ sq_live' \subseteq sq_live
        /\ UNCHANGED <<tasks_covered, tasks_notcovered, pending_migrations,
                       runq_complete, runq_tasksrun>>
    BY <1>4 DEF ReadSetsceneExit, Exited, coverVars, hashVars, runqVars
  <2>2. sq_live \subseteq scene.buildable
    BY DEF SkipBase, SkipInv
  <2>3. SceneMoves
    BY <1>1, <1>4, <2>2, ReadSetsceneExitMoves
  <2>4. Skipped' = Skipped /\ sq_live' \subseteq scene.buildable
    BY <2>1, <2>2 DEF Skipped
  <2> QED
    BY <2>1, <2>3, <2>4, MovesKeep DEF SkipBase
<1> QED
  BY <1>2, <1>3, <1>4 DEF Reads

LEMMA ScansSkip == SkipBase /\ Scans => SkipInv'
<1> SUFFICES ASSUME SkipBase, Scans PROVE SkipInv'
  OBVIOUS
<1>1. TypeOK /\ Sound
  BY DEF SkipBase, QueueInv
<1>2. SceneMoves
  BY <1>1, ScansMove
<1>3. /\ pc = "setscene" /\ pc' # "init"
      /\ UNCHANGED <<tasks_covered, tasks_notcovered, pending_migrations,
                     runq_complete, runq_tasksrun>>
  BY DEF Scans, ScanEnds, ScanSkipsUnneeded, ScanParks, ScanFails, ScanSkipsStamped,
         ScanLaunches, Scanned, OnlyScene, BrokenPipe, Goto, coverVars, runqVars, hashVars
<1>4. sq_live' \subseteq sq_live \cup Candidates
  BY DEF Scans, ScanEnds, ScanSkipsUnneeded, ScanParks, ScanFails, ScanSkipsStamped,
         ScanLaunches, Scanned, sceneVars
<1>5. sq_live' \subseteq scene.buildable /\ Skipped' = Skipped
  BY <1>3, <1>4 DEF SkipBase, SkipInv, Candidates, Skipped
<1> QED
  BY <1>2, <1>3, <1>5, MovesKeep DEF SkipBase

LEMMA NotNotCovered ==
  ASSUME NEW d \in scene.done, d \notin NotCovered
  PROVE  /\ d \notin scene.notcovered /\ d \notin Unskippable \ Setscene
         /\ \A t \in scene.notcovered : d \notin SqCovered(t)
<1> DEFINE below == UNION {SqCovered(t) : t \in scene.notcovered}
<1>1. \A t \in scene.notcovered : SqCovered(t) \subseteq below
  OBVIOUS
<1>2. NotCovered = scene.done \cap (scene.notcovered \cup Cantskip
                                     \cup (Unskippable \ Setscene) \cup below)
  BY DEF NotCovered
<1> HIDE DEF below
<1>3. d \notin scene.notcovered /\ d \notin Unskippable \ Setscene /\ d \notin below
  BY <1>2
<1> QED
  BY <1>1, <1>3

\* A task the scheduler skips as covered may be skipped: all that could restore it did.
LEMMA CoveredMaySkip ==
  ASSUME SkipBase, NEW t \in Tasks, Scheduled(t), t \in tasks_covered
  PROVE  MaySkip(t)
<1>1. pc = "sched" /\ ~scene.dirty /\ t \notin runq_complete
  BY DEF SkipBase, QueueInv, Sound, CoverSound, Scheduled, Runnable
<1>2. t \in Covered
  BY <1>1 DEF SkipBase, SkipInv, CoverFresh
<1>3. DoneSound(scene.done, Resolved(scene), runq_complete)
  BY <1>1 DEF SkipBase, SkipInv, GraphSound
<1>4. /\ t \in scene.done /\ t \notin scene.notcovered
      /\ t \notin Unskippable \ Setscene
      /\ \A s \in scene.notcovered : t \notin SqCovered(s)
  <2>1. t \in scene.done /\ t \notin NotCovered
    BY <1>2 DEF Covered
  <2> QED
    BY <2>1, NotNotCovered
<1>5. CASE t \in Setscene
  <2>1. t \in Resolved(scene)
    BY <1>3, <1>4, <1>5 DEF DoneSound
  <2> QED
    BY <1>4, <1>5, <2>1 DEF MaySkip, Resolved
<1>6. CASE t \notin Setscene
  <2>1. t \notin Unskippable /\ Owners[t] \subseteq Resolved(scene)
    BY <1>1, <1>3, <1>4, <1>6 DEF DoneSound
  <2>2. Owners[t] \cap scene.notcovered = {}
    BY <1>4, <1>6 DEF SqCovered
  <2> QED
    BY <1>6, <2>1, <2>2 DEF MaySkip, Resolved
<1> QED
  BY <1>5, <1>6

LEMMA UpdateHoldoffSkips == SkipBase /\ UpdateHoldoff => SkipInv'
<1> SUFFICES ASSUME SkipBase, UpdateHoldoff PROVE SkipInv'
  OBVIOUS
<1>1. /\ pc = "holdoff" /\ pc' = "holdoff"
      /\ tasks_notcovered' = NotCovered /\ tasks_covered' = Covered
      /\ scene' = [scene EXCEPT !.dirty = FALSE]
      /\ UNCHANGED <<sq_live, pending_migrations, runq_complete, runq_tasksrun>>
  BY DEF UpdateHoldoff, controlVars, hashVars
<1>2. /\ scene'.covered = scene.covered /\ scene'.notcovered = scene.notcovered
      /\ scene'.done = scene.done /\ scene'.buildable = scene.buildable
      /\ scene'.notneeded = scene.notneeded
  BY <1>1 DEF SkipBase, QueueInv, TypeOK, SceneVarsType, SceneType
<1>3. GraphSound(scene)'
  BY <1>1, <1>2 DEF SkipBase, SkipInv, GraphSound, BuildableSound, Resolved
<1>4. Covered' = Covered /\ NotCovered' = NotCovered
  BY <1>2 DEF Covered, NotCovered
<1>5. CoverFresh'
  BY <1>1, <1>4 DEF CoverFresh
<1>6. Skipped' = Skipped /\ \A d : MaySkip(d) => MaySkip(d)'
  BY <1>1, <1>2 DEF Skipped, MaySkip
<1> QED
  BY <1>1, <1>2, <1>3, <1>5, <1>6 DEF SkipBase, SkipInv

LEMMA SchedulesSkip == SkipBase /\ Schedules => SkipInv'
<1> SUFFICES ASSUME SkipBase, Schedules PROVE SkipInv'
  OBVIOUS
<1>1. TypeOK /\ scene \in SceneType
  BY DEF SkipBase, QueueInv, TypeOK, SceneVarsType
<1>2. CASE SettleScene \/ SchedNothing \/ TailWaits \/ TailEnds
             \/ \E t \in Tasks : SchedRefuses(t) \/ SchedLaunches(t)
  <2>1. UNCHANGED <<scene, sq_live, tasks_covered, tasks_notcovered, pending_migrations,
                    runq_complete, runq_tasksrun>>
    BY <1>2 DEF SettleScene, SchedNothing, TailWaits, TailEnds, SchedRefuses,
                SchedLaunches, sceneVars, coverVars, runqVars, hashVars
  <2>2. pc \notin {"init", "done"} /\ pc' # "init"
    BY <1>2 DEF SettleScene, SchedNothing, TailWaits, TailEnds, SchedRefuses,
                SchedLaunches, Scheduled, TailStops, BrokenPipe, Goto
  <2> QED
    BY <2>1, <2>2, StillKeeps DEF SkipBase
<1>3. ASSUME NEW t \in Setscene, TailForces(t) PROVE SkipInv'
  <2>1. /\ pc = "tail" /\ pc' = "after" /\ scene' = Undeferred(scene, t)
        /\ UNCHANGED <<sq_live, tasks_covered, tasks_notcovered, pending_migrations,
                       runq_complete, runq_tasksrun>>
    BY <1>3 DEF TailForces, TailStops, Goto, coverVars, runqVars, hashVars
  <2>2. SceneMoves
    BY <1>1, <2>1, UndeferredBooks, SameMoves
  <2>3. sq_live' \subseteq scene.buildable /\ Skipped' = Skipped
    BY <2>1 DEF SkipBase, SkipInv, Skipped
  <2> QED
    BY <2>1, <2>2, <2>3, MovesKeep DEF SkipBase
<1>4. ASSUME NEW t \in Tasks, SchedSkips(t) \/ SchedNoExec(t) PROVE SkipInv'
  <2>1. /\ Scheduled(t) /\ pc = "sched" /\ pc' = "after"
        /\ \E extra, disk : CompleteOutright(t, extra, disk)
        /\ UNCHANGED <<sq_live, tasks_covered, tasks_notcovered, pending_migrations>>
        /\ runq_complete' = runq_complete \cup {t}
        /\ runq_tasksrun' = IF t \in tasks_covered THEN runq_tasksrun
                            ELSE runq_tasksrun \cup {t}
    <3>1. CASE SchedSkips(t)
      BY <3>1 DEF SchedSkips, Scheduled, Finishes, Goto, CompleteOutright, coverVars,
                  hashVars
    <3>2. CASE SchedNoExec(t)
      BY <3>2 DEF SchedNoExec, Scheduled, Finishes, Goto, CompleteOutright, coverVars,
                  hashVars
    <3> QED
      BY <1>4, <3>1, <3>2
  <2>2. SceneMoves
    BY <1>1, <2>1, CompleteOutrightMoves
  <2>3. \A d \in Skipped' \ Skipped : MaySkip(d)
    <3>1. CASE t \in tasks_covered
      BY <2>1, <3>1, CoveredMaySkip DEF Skipped
    <3>2. CASE t \notin tasks_covered
      BY <2>1, <3>2 DEF Skipped
    <3> QED
      BY <3>1, <3>2
  <2>4. sq_live' \subseteq scene.buildable
    BY <2>1 DEF SkipBase, SkipInv
  <2> QED
    BY <2>1, <2>2, <2>3, <2>4, MovesKeep DEF SkipBase
<1> QED
  BY <1>2, <1>3, <1>4, UpdateHoldoffSkips DEF Schedules

LEMMA OthersSkip == SkipBase /\ (Environment \/ Done \/ UNCHANGED vars) => SkipInv'
<1> SUFFICES ASSUME SkipBase, Environment \/ Done \/ UNCHANGED vars PROVE SkipInv'
  OBVIOUS
<1>1. UNCHANGED <<pc, scene, sq_live, pending_migrations>>
  BY BooksAlone
<1>2. UNCHANGED <<tasks_covered, tasks_notcovered, runq_complete, runq_tasksrun>>
  BY DEF Environment, WorkerSteps, WorkerFinishesNow, WorkerQuits, JobEnds, WorkerDies,
         JobReports, UserStops, OnlyWorker, Done, vars, coverVars, runqVars
<1> QED
  BY <1>1, <1>2, StillKeeps DEF SkipBase

\* What may be taken back is neither restored nor counted as needless.
LEMMA PendingAre ==
  ASSUME QueueInv, SkipInv, NEW uh
  PROVE  /\ Pending(uh) \subseteq Setscene
         /\ Pending(uh) \cap (scene.covered \ scene.notcovered) = {}
         /\ Pending(uh) \cap (runq_running \cup sq_live) = {}
         /\ Pending(uh) \ Ready(uh) \subseteq scene.notcovered
<1>1. /\ pending_migrations \subseteq Setscene
      /\ pending_migrations \subseteq scene.notcovered
  BY DEF QueueInv, TypeOK, HashType, SkipInv
<1>2. Changed(uh) \cap scene.covered = {}
  BY DEF Changed, Open
<1>3. \A t \in Pending(uh) \ Ready(uh) : t \in Setscene /\ \E d \in SqCovered(t) : Busy(d)
  BY <1>1 DEF Pending, Ready
<1>4. \A t \in Pending(uh) \ Ready(uh) : t \in Resolved(scene)
  BY <1>3 DEF QueueInv, Sound, CoverSound
<1> QED
  BY <1>1, <1>2, <1>4 DEF Pending, Resolved

LEMMA MigratesSkip == SkipBase /\ Migrates => SkipInv'
<1> SUFFICES ASSUME SkipBase, Migrates PROVE SkipInv'
  OBVIOUS
<1>1. CASE NoMigrations
  <2>1. /\ UNCHANGED <<scene, sq_live, tasks_covered, tasks_notcovered,
                       pending_migrations, runq_complete, runq_tasksrun>>
        /\ pc = "migrate" /\ pc' = "setscene"
    BY <1>1 DEF NoMigrations, Goto, sceneVars, coverVars, runqVars, hashVars
  <2> QED
    BY <2>1, StillKeeps DEF SkipBase
<1>2. ASSUME NEW uh \in NewHashes, Migrate(uh) PROVE SkipInv'
  <2> DEFINE R == Ready(uh)
  <2>1. /\ pc = "migrate" /\ pc' = "setscene"
        /\ pending_migrations' = Pending(uh) \ R
        /\ scene' = IF R = {} /\ Changed(uh) = {} THEN scene
                    ELSE [Restart(scene, R, uh, files')
                            EXCEPT !.needed = {}, !.parked = {}, !.dirty = TRUE]
        /\ UNCHANGED <<sq_live, tasks_covered, tasks_notcovered, runq_complete,
                       runq_tasksrun>>
    BY <1>2 DEF Migrate, Goto, coverVars, runqVars
  <2>2. R \subseteq Pending(uh)
    BY DEF Ready
  <2>3. /\ Pending(uh) \subseteq Setscene
        /\ Pending(uh) \cap (scene.covered \ scene.notcovered) = {}
        /\ Pending(uh) \cap (runq_running \cup sq_live) = {}
        /\ Pending(uh) \ R \subseteq scene.notcovered
    BY PendingAre DEF SkipBase
  <2>4. /\ GraphSound(scene) /\ sq_live \subseteq scene.buildable /\ CoverFresh
        /\ \A d \in Skipped : MaySkip(d)
        /\ scene.notneeded \cap (Targets \cup Unskippable) = {}
    BY <2>1 DEF SkipBase, SkipInv
  <2>5. /\ scene \in SceneType /\ runq_complete \in SUBSET Tasks
        /\ ClosedBelow(runq_complete)
    BY CompleteClosed DEF SkipBase, QueueInv, TypeOK, SceneVarsType, RunqType
  <2> HIDE DEF R
  <2>6. CASE scene' = scene
    <3>1. GraphSound(scene)' /\ CoverFresh'
      BY <2>1, <2>4, <2>6 DEF GraphSound, BuildableSound, Resolved, CoverFresh,
                             Covered, NotCovered
    <3>2. Skipped' = Skipped /\ \A d : MaySkip(d) => MaySkip(d)'
      BY <2>1, <2>6 DEF Skipped, MaySkip
    <3> QED
      BY <2>1, <2>3, <2>4, <2>6, <3>1, <3>2 DEF SkipInv
  <2>7. CASE scene' # scene
    <3> DEFINE s == Restart(scene, R, uh, files')
    <3>1. s \in SceneType
      BY <2>2, <2>3, <2>5, RestartType
    <3>2. PICK K \in SUBSET R, N \in SUBSET Setscene : StartsOver(scene, s, R, K, N)
      BY <2>2, <2>3, <2>5, RestartIsOver
    <3>3. scene' = [s EXCEPT !.needed = {}, !.parked = {}, !.dirty = TRUE]
      BY <2>1, <2>7
    <3> HIDE DEF s
    <3>4. /\ scene'.covered = s.covered /\ scene'.notcovered = s.notcovered
          /\ scene'.done = s.done /\ scene'.buildable = s.buildable /\ scene'.dirty = TRUE
          /\ scene'.notneeded = s.notneeded
      BY <3>1, <3>3 DEF SceneType
    <3>5. /\ s.covered = (scene.covered \ R) \cup K
          /\ s.notcovered = (scene.notcovered \ R) \cup N
          /\ s.notneeded \subseteq scene.notneeded
          /\ N \subseteq R \cup (Setscene \ Resolved(scene))
          /\ scene.buildable \ R \subseteq s.buildable
          /\ BuildableSound(s) /\ DoneSound(s.done, Resolved(s), runq_complete)
      BY <2>4, <2>5, <3>2 DEF StartsOver, GraphSound
    <3>6. GraphSound(scene)'
      BY <2>1, <3>4, <3>5 DEF GraphSound, BuildableSound, Resolved
    <3>7. scene.covered \ scene.notcovered \subseteq scene'.covered \ scene'.notcovered
      BY <2>2, <2>3, <3>4, <3>5 DEF Resolved
    <3>8. Skipped' = Skipped /\ \A d : MaySkip(d) => MaySkip(d)'
      BY <2>1, <3>7 DEF Skipped, MaySkip
    <3>9. sq_live' \subseteq scene'.buildable
      BY <2>1, <2>2, <2>3, <2>4, <3>4, <3>5
    <3>10. pending_migrations' \subseteq scene'.notcovered
      BY <2>1, <2>3, <3>4, <3>5
    <3>11. scene'.notneeded \cap (Targets \cup Unskippable) = {}
      BY <3>4, <3>5 DEF SkipBase, SkipInv
    <3> QED
      BY <2>1, <2>4, <3>4, <3>6, <3>8, <3>9, <3>10, <3>11 DEF SkipInv, CoverFresh
  <2> QED
    BY <2>6, <2>7
<1> QED
  BY <1>1, <1>2 DEF Migrates

LEMMA SkipStep == SkipBase /\ [Next]_vars => SkipInv'
BY ControlSkips, ReadsSkip, MigratesSkip, ScansSkip, SchedulesSkip, OthersSkip
DEF Next, Cooker

LEMMA SkipInvariant == ASSUME SteadyHardDeps PROVE Spec => []SkipBase
<1>1. Init => SkipInv
  <2> SUFFICES ASSUME Init PROVE SkipInv
    OBVIOUS
  <2>1. /\ pc = "init" /\ sq_live = {} /\ scene.dirty = TRUE /\ pending_migrations = {}
        /\ runq_complete = {} /\ scene.notneeded = {}
    BY DEF Init
  <2> QED
    BY <2>1 DEF SkipInv, CoverFresh, Skipped
<1>2. SkipBase /\ [Next]_vars => SkipInv'
  BY SkipStep
<1> QED
  BY <1>1, <1>2, QueueInvariant, DepsAlwaysComplete, PTL DEF Spec, SkipBase

\* No setscene task is taken back after a task it covers was counted as complete without
\* having run.
THEOREM TakenBackInTime == ASSUME SteadyHardDeps PROVE Spec => []NeverTooLate
<1>1. SkipBase => NeverTooLate
  <2> SUFFICES ASSUME SkipBase, NEW uh \in NewHashes, NEW t \in Ready(uh), TooLate(t)
               PROVE  FALSE
    BY DEF NeverTooLate
  <2>1. t \in Pending(uh) /\ t \notin scene.covered \ scene.notcovered
    BY PendingAre DEF Ready, SkipBase
  <2>2. PICK d \in SqCovered(t) : d \in Skipped
    BY DEF TooLate, Skipped
  <2>3. d \notin Setscene /\ t \in Owners[d] /\ MaySkip(d)
    BY <2>2 DEF SqCovered, SkipBase, SkipInv
  <2> QED
    BY <2>1, <2>3 DEF MaySkip
<1> QED
  BY <1>1, SkipInvariant, PTL

-----------------------------------------------------------------------------
(* How an undisturbed build ends.                                          *)

\* Nobody stops the build, no worker dies, nothing is refused.
Calm == Undisturbed /\ ~mode.enforce

\* The verdict is given: what is left is the way out.
Over ==
  \/ pc \in {"after", "build_done", "return", "done"}
  \/ pc = "read" /\ reading = "teardown"

\* The verdict "Complete": all is done, and nothing can fail any more.
AllDone == failed_tids = {} /\ runq_complete = Tasks /\ sq_live = {}

\* Nothing but the run's own verdict ends a calm build.
CalmEnd ==
  /\ state \in {"Complete", "Failed"} => Over
  /\ state = "CleanUp" => failed_tids # {}
  /\ pc = "finish" => failed_tids # {}
  /\ state = "Complete" /\ ~mode.only => AllDone

\* The invariant, whatever happens.
EndInv ==
  /\ state = "SceneInit" => pc = "init"
  /\ outcome # None => pc = "done"
  /\ outcome = "complete" => state = "Complete"
  /\ worker = "dead" => budget.crash > 0
  /\ Calm => CalmEnd

LEMMA SameCalm ==
  ASSUME UNCHANGED envVars
  PROVE  (Calm' <=> Calm) /\ UNCHANGED <<mode, budget>>
BY DEF Calm, Undisturbed, envVars

\* The exit code of a task that is not being restored is read: it was not complete.
LEMMA ExitedNotDone ==
  ASSUME QueueInv, NEW t \in Tasks, NEW ok \in BOOLEAN, Exited(t, ok), UNCHANGED jobs,
         t \notin sq_live
  PROVE  ~AllDone
<1>1. t \in ExitTids
  BY ExitedOnce DEF QueueInv, Sound
<1> QED
  BY <1>1 DEF QueueInv, Sound, Accounted, AllDone

LEMMA ControlEnds == QueueInv /\ EndInv /\ Control => EndInv'
<1> SUFFICES ASSUME QueueInv, EndInv, Control PROVE EndInv'
  OBVIOUS
<1>1. /\ UNCHANGED <<budget, mode>> /\ (Calm' <=> Calm)
      /\ (worker' = "dead" => worker = "dead")
  <2>1. UNCHANGED envVars /\ (worker' = "dead" => worker = "dead")
    BY DEF Control, SceneInit, StopBeforeInit, IdleForce, IdleShutdown, Idle,
       AfterExecute, Finish, BuildDone, Return, workerVars
  <2> QED
    BY <2>1, SameCalm
<1>2. CASE SceneInit
  <2>1. pc = "init" /\ pc' = "poll" /\ state' = "Running" /\ outcome' = outcome
    BY <1>2 DEF SceneInit
  <2> QED
    BY <1>1, <2>1 DEF EndInv, CalmEnd, None
<1>3. CASE StopBeforeInit \/ IdleForce \/ IdleShutdown
  <2>1. ~Calm
    BY <1>3 DEF StopBeforeInit, IdleForce, IdleShutdown, Calm, Undisturbed, None
  <2>2. /\ state' # "SceneInit" /\ (outcome' # None => pc' = "done")
        /\ (outcome' = "complete" => state' = "Complete")
    <3>1. CASE StopBeforeInit
      BY <3>1 DEF StopBeforeInit
    <3>2. CASE IdleForce
      BY <3>2 DEF IdleForce, FinishNow, Goto, EndInv, None
    <3>3. CASE IdleShutdown
      BY <3>3 DEF IdleShutdown, Goto, EndInv, None
    <3> QED
      BY <1>3, <3>1, <3>2, <3>3
  <2> QED
    BY <1>1, <2>1, <2>2 DEF EndInv
<1>4. CASE Idle \/ AfterExecute \/ Finish \/ BuildDone \/ Return
  <2>1. UNCHANGED <<failed_tids, runq_complete, sq_live>>
    BY <1>4 DEF Idle, AfterExecute, Finish, BuildDone, Return, countVars, runqVars,
                sceneVars
  <2>2. AllDone' <=> AllDone
    BY <2>1 DEF AllDone
  <2>3. state \in {"SceneInit", "Running", "CleanUp", "Failed", "Complete"}
    BY DEF QueueInv, TypeOK, ControlType
  <2>4. CASE Idle
    <3>1. /\ pc = "idle" /\ UNCHANGED <<state, outcome>>
          /\ pc' = IF state = "Running" THEN "poll" ELSE "finish"
      BY <2>4 DEF Idle
    <3> QED
      BY <1>1, <2>1, <2>2, <2>3, <3>1 DEF EndInv, CalmEnd, Over, None
  <2>5. CASE AfterExecute
    <3>1. /\ pc = "after" /\ UNCHANGED <<state, outcome>>
          /\ pc' = IF state = "CleanUp" THEN "finish" ELSE "build_done"
      BY <2>5 DEF AfterExecute, Goto
    <3> QED
      BY <1>1, <2>1, <2>2, <2>3, <3>1 DEF EndInv, CalmEnd, Over, None
  <2>6. CASE Finish
    <3>1. /\ pc = "finish" /\ outcome' = outcome
          /\ \/ state' = "CleanUp" /\ pc' = "poll"
             \/ state' = (IF failed_tids # {} THEN "Failed" ELSE "Complete")
                /\ pc' = "build_done"
      BY <2>6 DEF Finish
    <3> QED
      BY <1>1, <2>1, <2>2, <2>3, <3>1 DEF EndInv, CalmEnd, Over, None
  <2>7. CASE BuildDone
    <3>1. /\ pc = "build_done" /\ state' = state
          /\ \/ pc' = "read" /\ reading' = "teardown" /\ outcome' = outcome
             \/ /\ state \notin {"Complete", "Failed"}
                /\ \/ pc' = "done" /\ outcome' = "lost"
                   \/ pc' = "idle" /\ outcome' = outcome
      BY <2>7 DEF BuildDone
    <3> QED
      BY <1>1, <2>1, <2>2, <2>3, <3>1 DEF EndInv, CalmEnd, Over, None
  <2>8. CASE Return
    <3>1. /\ pc = "return" /\ state' = state
          /\ pc' = IF state = "CleanUp" THEN "idle" ELSE "done"
      BY <2>8 DEF Return
    <3>2. outcome = None
      BY <3>1 DEF EndInv
    <3>3. /\ outcome' = CASE state = "Failed" -> "failed"
                          [] state = "Complete" -> "complete"
                          [] OTHER -> outcome
      BY <2>8 DEF Return
    <3>4. /\ outcome' = "complete" => state = "Complete"
          /\ state = "CleanUp" => outcome' = None
      <4>1. CASE state = "Failed" \/ state = "Complete"
        BY <3>3, <4>1
      <4>2. CASE ~(state = "Failed" \/ state = "Complete")
        <5>1. outcome' = outcome
          BY <3>3, <4>2, Zenon
        <5> QED
          BY <3>2, <4>2, <5>1 DEF None
      <4> QED
        BY <4>1, <4>2
    <3> QED
      BY <1>1, <2>1, <2>2, <2>3, <3>1, <3>4 DEF EndInv, CalmEnd, Over, None
  <2> QED
    BY <1>4, <2>4, <2>5, <2>6, <2>7, <2>8
<1> QED
  BY <1>2, <1>3, <1>4 DEF Control

LEMMA ReadsEnd == QueueInv /\ EndInv /\ Reads => EndInv'
<1> SUFFICES ASSUME QueueInv, EndInv, Reads PROVE EndInv'
  OBVIOUS
<1>1. /\ UNCHANGED <<budget, mode>> /\ (Calm' <=> Calm)
      /\ (worker' = "dead" => worker = "dead")
  <2>1. UNCHANGED envVars /\ (worker' = "dead" => worker = "dead")
    BY DEF Reads, Poll, ReadEvent, ReadDone, ReadSuccess, ReadFailure, ReadSetsceneExit,
           envVars
  <2> QED
    BY <2>1, SameCalm
<1>2. CASE Poll
  <2>1. /\ pc = "poll" /\ pc' = "read" /\ UNCHANGED <<reading, outcome, worker>>
        /\ \/ worker = "dead" /\ state' \in {"Failed", "Complete"}
           \/ worker # "dead" /\ state' = state
        /\ UNCHANGED <<failed_tids, runq_complete, sq_live>>
    BY <1>2 DEF Poll, FinishNow, Goto, countVars, runqVars, sceneVars
  <2>2. CASE worker = "dead"
    <3>1. ~Calm'
      BY <1>1, <2>2 DEF EndInv, Calm, Undisturbed
    <3> QED
      BY <1>1, <2>1, <2>2, <3>1 DEF EndInv, None
  <2>3. CASE worker # "dead"
    BY <1>1, <2>1, <2>3 DEF EndInv, CalmEnd, Over, None, AllDone
  <2> QED
    BY <2>2, <2>3
<1>3. CASE ReadEvent \/ ReadDone
  <2>1. /\ UNCHANGED <<state, outcome, reading, failed_tids, runq_complete, sq_live>>
        /\ pc = "read"
    BY <1>3 DEF ReadEvent, ReadDone, Goto, controlVars, countVars, runqVars, sceneVars
  <2>2. pc' = pc \/ /\ pc' \in {"migrate", "after", "build_done", "return"}
                    /\ reading = "teardown" => pc' = "return"
    <3>1. CASE ReadEvent
      BY <3>1 DEF ReadEvent, controlVars
    <3>2. CASE ReadDone
      <4>1. pc' = CASE reading = "top" -> "migrate"
                    [] reading = "tail" -> "after"
                    [] reading = "finish" -> "build_done"
                    [] reading = "teardown" -> "return"
        BY <3>2 DEF ReadDone, Goto
      <4>2. reading \in {"top", "tail", "finish", "teardown"}
        BY DEF QueueInv, TypeOK, ControlType
      <4>3. pc' \in {"migrate", "after", "build_done", "return"}
        BY <4>1, <4>2, Zenon
      <4>4. reading = "teardown" => pc' = "return"
        BY <4>1
      <4> QED
        BY <4>3, <4>4
    <3> QED
      BY <1>3, <3>1, <3>2
  <2> QED
    BY <1>1, <2>1, <2>2 DEF EndInv, CalmEnd, Over, None, AllDone
<1>4. ASSUME NEW t \in Tasks, ReadSuccess(t) PROVE EndInv'
  <2>1. /\ UNCHANGED <<pc, state, outcome, reading, failed_tids, sq_live>>
        /\ runq_complete' = runq_complete \cup {t}
    BY <1>4 DEF ReadSuccess, CompleteOutright, controlVars
  <2>2. AllDone => AllDone'
    BY <2>1 DEF AllDone
  <2> QED
    BY <1>1, <2>1, <2>2 DEF EndInv, CalmEnd, Over
<1>5. ASSUME NEW t \in Tasks, ReadFailure(t) PROVE EndInv'
  <2>1. ~AllDone /\ pc = "read"
    BY <1>5, ExitedNotDone DEF ReadFailure, Exited
  <2>2. /\ UNCHANGED <<pc, outcome, reading>>
        /\ failed_tids' = failed_tids \cup {t}
        /\ state' = IF mode.halt THEN "CleanUp" ELSE state
    BY <1>5 DEF ReadFailure, TaskFail
  <2>3. outcome = None /\ pc = "read" /\ failed_tids' # {}
    BY <2>1, <2>2 DEF EndInv
  <2> QED
    BY <1>1, <2>1, <2>2, <2>3 DEF EndInv, CalmEnd, Over, None
<1>6. ASSUME NEW t \in Tasks, NEW ok \in BOOLEAN, ReadSetsceneExit(t, ok) PROVE EndInv'
  <2>1. /\ UNCHANGED <<pc, outcome, reading, failed_tids, runq_complete>> /\ pc = "read"
        /\ sq_live' \subseteq sq_live
        /\ state' = state \/ (mode.enforce /\ state' = "CleanUp")
    BY <1>6 DEF ReadSetsceneExit, Exited, runqVars
  <2>2. AllDone => AllDone'
    BY <2>1 DEF AllDone
  <2> QED
    BY <1>1, <2>1, <2>2 DEF EndInv, CalmEnd, Over, None, Calm
<1> QED
  BY <1>2, <1>3, <1>4, <1>5, <1>6 DEF Reads

LEMMA ScansEnd == QueueInv /\ EndInv /\ (Migrates \/ Scans) => EndInv'
<1> SUFFICES ASSUME QueueInv, EndInv, Migrates \/ Scans PROVE EndInv'
  OBVIOUS
<1>1. /\ pc \in {"migrate", "setscene"} /\ UNCHANGED envVars
      /\ (worker' = "dead" => worker = "dead")
      /\ \/ UNCHANGED <<state, outcome>> /\ pc' \in {"setscene", "holdoff", "after"}
         \/ /\ worker = "dead" /\ pc' = "done"
            /\ outcome' = "exception" /\ state' = "Complete"
  BY DEF Migrates, NoMigrations, Migrate, Scans, ScanEnds, ScanSkipsUnneeded, ScanParks,
         ScanFails, ScanSkipsStamped, ScanLaunches, Scanned, OnlyScene, BrokenPipe, Goto,
         workerVars, envVars
<1>2. failed_tids' = failed_tids
  BY DEF Migrates, NoMigrations, Migrate, Scans, ScanEnds, ScanSkipsUnneeded, ScanParks,
         ScanFails, ScanSkipsStamped, ScanLaunches, OnlyScene, countVars
<1>3. UNCHANGED <<budget, mode>> /\ (Calm' <=> Calm)
  BY <1>1, SameCalm
<1>4. worker = "dead" => ~Calm
  BY DEF EndInv, Calm, Undisturbed
<1>5. state # "SceneInit" /\ outcome = None
  BY <1>1 DEF EndInv
<1>6. Calm => state \notin {"Complete", "Failed"}
  BY <1>1 DEF EndInv, CalmEnd, Over
<1> QED
  BY <1>1, <1>2, <1>3, <1>4, <1>5, <1>6 DEF EndInv, CalmEnd, Over, None

LEMMA SchedulesEnd == QueueInv /\ EndInv /\ Schedules => EndInv'
<1> SUFFICES ASSUME QueueInv, EndInv, Schedules PROVE EndInv'
  OBVIOUS
<1>1. /\ pc \in {"holdoff", "sched", "tail"} /\ UNCHANGED envVars
      /\ (worker' = "dead" => worker = "dead")
  BY DEF Schedules, UpdateHoldoff, SettleScene, SchedNothing, SchedRefuses, SchedSkips,
         SchedNoExec, SchedLaunches, Scheduled, Finishes, TailWaits, TailEnds, TailForces,
         TailStops, BrokenPipe, workerVars, envVars
<1>2. UNCHANGED <<budget, mode>> /\ (Calm' <=> Calm)
  BY <1>1, SameCalm
<1>3. worker = "dead" => ~Calm
  BY DEF EndInv, Calm, Undisturbed
<1>4. /\ state # "SceneInit" /\ outcome = None
      /\ (Calm => state \notin {"Complete", "Failed"})
  BY <1>1 DEF EndInv, CalmEnd, Over
<1>5. CASE UpdateHoldoff \/ SchedNothing \/ TailWaits \/ \E t \in Setscene : TailForces(t)
  <2>1. /\ UNCHANGED <<state, outcome, failed_tids>>
        /\ pc' \in {"holdoff", "tail", "poll", "after"}
    BY <1>5 DEF UpdateHoldoff, SchedNothing, TailWaits, TailForces, Goto, controlVars,
                countVars
  <2> QED
    BY <1>1, <1>2, <1>4, <2>1 DEF EndInv, CalmEnd, None
<1>6. CASE SettleScene
  <2>1. /\ UNCHANGED <<outcome, failed_tids>> /\ pc' \in {"sched", "after"}
        /\ \/ state' = state
           \/ state' = "Failed" /\ pc' = "after"
           \/ state' = "Complete" /\ mode.only /\ pc' = "after"
    BY <1>6 DEF SettleScene, countVars
  <2> QED
    BY <1>1, <1>2, <1>4, <2>1 DEF EndInv, CalmEnd, Over, None
<1>7. ASSUME NEW t \in Tasks, SchedRefuses(t) PROVE EndInv'
  <2>1. /\ ~Calm /\ pc' = "after" /\ outcome' = outcome
        /\ state' = IF mode.halt THEN "CleanUp" ELSE state
    BY <1>7 DEF SchedRefuses, Unexpected, TaskFail, Goto, Calm
  <2> QED
    BY <1>1, <1>2, <1>4, <2>1 DEF EndInv, None
<1>8. ASSUME NEW t \in Tasks, SchedSkips(t) \/ SchedNoExec(t) PROVE EndInv'
  <2>1. UNCHANGED <<state, outcome, failed_tids>> /\ pc' = "after"
    BY <1>8 DEF SchedSkips, SchedNoExec, Finishes, Goto, countVars
  <2> QED
    BY <1>1, <1>2, <1>4, <2>1 DEF EndInv, CalmEnd, None
<1>9. ASSUME NEW t \in Tasks, SchedLaunches(t) PROVE EndInv'
  <2>1. /\ UNCHANGED failed_tids
        /\ \/ UNCHANGED <<state, outcome>> /\ pc' \in {"after", "tail"}
           \/ /\ worker = "dead" /\ pc' = "done"
              /\ outcome' = "exception" /\ state' = "Complete"
    BY <1>9 DEF SchedLaunches, BrokenPipe
  <2> QED
    BY <1>1, <1>2, <1>3, <1>4, <2>1 DEF EndInv, CalmEnd, Over, None
<1>10. CASE TailEnds
  <2>1. /\ pc = "tail" /\ pc' = "after" /\ sq_live = {}
        /\ UNCHANGED <<outcome, failed_tids, runq_complete, sq_live>>
        /\ state' = IF failed_tids # {} \/ SceneErrors \/ NeverRan
                    THEN "Failed" ELSE "Complete"
    BY <1>10 DEF TailEnds, TailStops, Goto, countVars, runqVars, sceneVars
  <2>2. state' = "Complete" => failed_tids = {} /\ runq_complete = Tasks
    <3>1. runq_complete \subseteq Tasks
      BY DEF QueueInv, TypeOK, RunqType
    <3>2. ~NeverRan => Tasks \subseteq runq_complete
      BY DEF NeverRan
    <3> HIDE DEF NeverRan, SceneErrors
    <3> QED
      BY <2>1, <3>1, <3>2
  <2> QED
    BY <1>1, <1>2, <1>4, <2>1, <2>2 DEF EndInv, CalmEnd, Over, None, AllDone
<1> QED
  BY <1>5, <1>6, <1>7, <1>8, <1>9, <1>10 DEF Schedules

LEMMA OthersEnd == QueueInv /\ EndInv /\ (Environment \/ Done \/ UNCHANGED vars)
                  => EndInv'
<1> SUFFICES ASSUME QueueInv, EndInv, Environment \/ Done \/ UNCHANGED vars
             PROVE  EndInv'
  OBVIOUS
<1>1. UNCHANGED <<pc, reading, state, outcome, failed_tids, runq_complete, sq_live, mode>>
  BY DEF Environment, WorkerSteps, WorkerFinishesNow, WorkerQuits, JobEnds, WorkerDies,
         JobReports, UserStops, OnlyWorker, Done, vars, controlVars, sceneVars, runqVars,
         countVars, envVars
<1>2. budget.crash \in Nat
  BY DEF QueueInv, TypeOK, EnvType
<1>3. /\ request' = None => request = None
      /\ budget'.crash = budget.crash \/ budget'.crash = budget.crash + 1
      /\ worker' = "dead" => worker = "dead" \/ budget'.crash = budget.crash + 1
  <2>1. CASE WorkerFinishesNow \/ WorkerQuits \/ Done \/ UNCHANGED vars
    BY <2>1 DEF WorkerFinishesNow, WorkerQuits, Done, vars, envVars, workerVars
  <2>2. ASSUME NEW j \in jobs, NEW ok \in BOOLEAN, JobEnds(j, ok)
        PROVE  UNCHANGED <<request, worker>> /\ budget'.crash = budget.crash
    <3>1. budget \in [fail : Nat, rehash : Nat, crash : Nat]
      BY DEF QueueInv, TypeOK, EnvType
    <3> QED
      BY <2>2, <3>1 DEF JobEnds
  <2>3. ASSUME NEW j \in jobs, NEW h \in Hashes, JobReports(j, h)
        PROVE  UNCHANGED <<request, worker>> /\ budget'.crash = budget.crash
    <3>1. budget \in [fail : Nat, rehash : Nat, crash : Nat]
      BY DEF QueueInv, TypeOK, EnvType
    <3> QED
      BY <2>3, <3>1 DEF JobReports
  <2>4. CASE WorkerDies
    <3>1. budget \in [fail : Nat, rehash : Nat, crash : Nat]
      BY DEF QueueInv, TypeOK, EnvType
    <3> QED
      BY <2>4, <3>1 DEF WorkerDies
  <2>5. ASSUME NEW r \in Requests, UserStops(r)
        PROVE  request' # None /\ UNCHANGED <<worker, budget>>
    BY <2>5, RunAssumption DEF UserStops, workerVars, None
  <2> QED
    BY <2>1, <2>2, <2>3, <2>4, <2>5 DEF Environment, WorkerSteps
<1>4. Calm' => Calm
  BY <1>1, <1>2, <1>3 DEF Calm, Undisturbed
<1> QED
  BY <1>1, <1>2, <1>3, <1>4 DEF EndInv, CalmEnd, Over, AllDone

LEMMA EndInvariant == ASSUME SteadyHardDeps PROVE Spec => []EndInv
<1>1. Init => EndInv
  BY DEF Init, EndInv, CalmEnd, Over, None
<1>2. QueueInv /\ EndInv /\ [Next]_vars => EndInv'
  BY ControlEnds, ReadsEnd, ScansEnd, SchedulesEnd, OthersEnd DEF Next, Cooker
<1> QED
  BY <1>1, <1>2, QueueInvariant, PTL DEF Spec

\* An undisturbed build that ends complete has built all it was asked for.
THEOREM CompleteIsBuilt == ASSUME SteadyHardDeps PROVE Spec => []CompleteMeansBuilt
<1>1. SkipBase /\ EndInv => CompleteMeansBuilt
  <2> SUFFICES ASSUME SkipBase, EndInv, outcome = "complete", Undisturbed, ~mode.only,
                      ~mode.enforce
               PROVE  /\ failed_tids = {} /\ runq_complete = Tasks
                      /\ \A t \in Targets : Present(t)
    BY DEF CompleteMeansBuilt
  <2>1. failed_tids = {} /\ runq_complete = Tasks
    BY DEF EndInv, Calm, CalmEnd, AllDone
  <2>2. ASSUME NEW t \in Targets, t \notin runq_tasksrun PROVE Present(t)
    <3>1. t \in Tasks /\ t \in Skipped
      BY <2>1, <2>2, GraphAssumption DEF Skipped
    <3>2. MaySkip(t) /\ t \notin scene.notneeded
      BY <3>1, <2>2 DEF SkipBase, SkipInv
    <3>3. t \in Unskippable \/ t \in Setscene
      BY <3>1, <2>2, UnskippableAre DEF Cantskip
    <3> QED
      BY <3>2, <3>3 DEF MaySkip, Present
  <2> QED
    BY <2>1, <2>2 DEF Present
<1> QED
  BY <1>1, SkipInvariant, EndInvariant, PTL

-----------------------------------------------------------------------------
(* The setscene half is never found inconsistent.                          *)

\* Whatever the setscene half has decided on is buildable when its dependencies are
\* complete.
ReadyBuildable ==
  /\ pc = "init" => tasks_covered = {}
  /\ \A t \in tasks_covered \cup tasks_notcovered :
       Depends[t] \subseteq runq_complete => t \in runq_buildable

LEMMA StillReady ==
  ASSUME ReadyBuildable, UNCHANGED <<tasks_covered, tasks_notcovered, runq_complete>>,
         runq_buildable \subseteq runq_buildable', pc' # "init" \/ pc = "init"
  PROVE  ReadyBuildable'
BY DEF ReadyBuildable

LEMMA CompleteOutrightReady ==
  ASSUME QueueInv, ReadyBuildable, NEW t, NEW extra, NEW disk,
         CompleteOutright(t, extra, disk), UNCHANGED <<tasks_covered, tasks_notcovered>>,
         pc' # "init"
  PROVE  ReadyBuildable'
<1>1. /\ tasks_covered \subseteq Tasks /\ tasks_notcovered \subseteq Tasks
      /\ runq_running \subseteq runq_buildable
  BY DEF QueueInv, TypeOK, CoverType, StartedBuildable
<1>2. /\ runq_complete' = runq_complete \cup {t}
      /\ runq_buildable' = runq_buildable \cup extra \cup
           {r \in RevDeps(t) : /\ r \notin runq_running
                               /\ Depends[r] \subseteq runq_complete \cup {t}}
  BY DEF CompleteOutright
<1>3. ASSUME NEW u \in tasks_covered \cup tasks_notcovered,
             Depends[u] \subseteq runq_complete \cup {t}
      PROVE  u \in runq_buildable'
  <2>1. CASE t \in Depends[u]
    <3>1. u \in RevDeps(t)
      BY <1>1, <2>1 DEF RevDeps
    <3> QED
      BY <1>1, <1>2, <1>3, <3>1
  <2>2. CASE t \notin Depends[u]
    BY <1>2, <1>3, <2>2 DEF ReadyBuildable
  <2> QED
    BY <2>1, <2>2
<1> QED
  BY <1>2, <1>3 DEF ReadyBuildable

LEMMA ReadyStep == QueueInv /\ ReadyBuildable /\ [Next]_vars => ReadyBuildable'
<1> SUFFICES ASSUME QueueInv, ReadyBuildable, [Next]_vars PROVE ReadyBuildable'
  OBVIOUS
<1>1. CASE SceneInit
  <2>1. /\ pc = "init" /\ pc' = "poll" /\ UNCHANGED <<tasks_covered, runq_complete>>
        /\ runq_buildable' = InitiallyBuildable \cup
             IF Setscene = {} THEN {t \in Tasks : Depends[t] = {}} ELSE {}
        /\ tasks_notcovered' = IF Setscene = {} THEN Tasks ELSE {}
    BY <1>1 DEF SceneInit
  <2>2. tasks_covered = {} /\ runq_complete = {}
    BY <2>1 DEF ReadyBuildable, QueueInv, Sound, CoverSound
  <2> QED
    BY <2>1, <2>2 DEF ReadyBuildable
<1>2. CASE UpdateHoldoff
  <2>1. /\ tasks_notcovered' = NotCovered /\ tasks_covered' = Covered
        /\ runq_buildable' = runq_buildable \cup
             {t \in NotCovered \cup Covered : Depends[t] \subseteq runq_complete}
        /\ runq_complete' = runq_complete /\ pc' = "holdoff"
    BY <1>2 DEF UpdateHoldoff, controlVars
  <2> QED
    BY <2>1 DEF ReadyBuildable
<1>3. ASSUME NEW t \in Tasks, ReadSuccess(t) \/ SchedSkips(t) \/ SchedNoExec(t)
      PROVE  ReadyBuildable'
  <2>1. /\ \E extra, disk : CompleteOutright(t, extra, disk)
        /\ UNCHANGED <<tasks_covered, tasks_notcovered>> /\ pc' # "init"
    <3>1. CASE ReadSuccess(t)
      BY <3>1 DEF ReadSuccess, Exited, CompleteOutright, controlVars, coverVars
    <3>2. CASE SchedSkips(t)
      BY <3>2 DEF SchedSkips, Finishes, Goto, CompleteOutright, coverVars
    <3>3. CASE SchedNoExec(t)
      BY <3>3 DEF SchedNoExec, Finishes, Goto, CompleteOutright, coverVars
    <3> QED
      BY <1>3, <3>1, <3>2, <3>3
  <2> QED
    BY <2>1, CompleteOutrightReady
<1>4. CASE StopBeforeInit \/ IdleForce \/ IdleShutdown \/ Idle \/ AfterExecute \/ Finish
             \/ BuildDone \/ Return
  BY <1>4, StillReady DEF StopBeforeInit, IdleForce, IdleShutdown, Idle, AfterExecute,
     Finish, BuildDone, Return, Goto, coverVars, runqVars
<1>5. CASE \/ Poll \/ ReadEvent
           \/ \E t \in Tasks :
                ReadFailure(t) \/ \E ok \in BOOLEAN : ReadSetsceneExit(t, ok)
  BY <1>5, StillReady DEF Poll, ReadEvent, ReadFailure, ReadSetsceneExit, Exited, Goto,
     controlVars, coverVars, runqVars
<1>6. CASE ReadDone
  <2>1. /\ UNCHANGED <<tasks_covered, tasks_notcovered, runq_complete, runq_buildable>>
        /\ pc' = CASE reading = "top" -> "migrate"
                   [] reading = "tail" -> "after"
                   [] reading = "finish" -> "build_done"
                   [] reading = "teardown" -> "return"
    BY <1>6 DEF ReadDone, Goto, coverVars, runqVars
  <2>2. reading \in {"top", "tail", "finish", "teardown"}
    BY DEF QueueInv, TypeOK, ControlType
  <2>3. pc' \in {"migrate", "after", "build_done", "return"}
    BY <2>1, <2>2, Zenon
  <2> QED
    BY <2>1, <2>3, StillReady
<1>7. CASE Migrates \/ Scans
  BY <1>7, StillReady DEF Migrates, NoMigrations, Migrate, Scans, ScanEnds,
     ScanSkipsUnneeded, ScanParks, ScanFails, ScanSkipsStamped, ScanLaunches, Scanned,
     OnlyScene, BrokenPipe, Goto, coverVars, runqVars
<1>8. CASE \/ SettleScene \/ SchedNothing \/ TailWaits \/ TailEnds
           \/ \E t \in Tasks : SchedRefuses(t) \/ SchedLaunches(t)
           \/ \E t \in Setscene : TailForces(t)
  BY <1>8, StillReady DEF SettleScene, SchedNothing, TailWaits, TailEnds, TailForces,
     SchedRefuses, SchedLaunches, Scheduled, TailStops, BrokenPipe, Goto, coverVars,
     runqVars
<1>9. CASE Environment \/ Done \/ UNCHANGED vars
  <2>1. UNCHANGED <<pc, tasks_covered, tasks_notcovered, runq_complete, runq_buildable>>
    BY <1>9 DEF Environment, WorkerSteps, WorkerFinishesNow, WorkerQuits, JobEnds,
       WorkerDies, JobReports, UserStops, OnlyWorker, Done, vars, controlVars, coverVars,
       runqVars
  <2> QED
    BY <2>1, StillReady
<1> QED
  BY <1>1, <1>2, <1>3, <1>4, <1>5, <1>6, <1>7, <1>8, <1>9
  DEF Next, Cooker, Control, Reads, Schedules

LEMMA ReadyInvariant == ASSUME SteadyHardDeps PROVE Spec => []ReadyBuildable
<1>1. Init => ReadyBuildable
  BY DEF Init, ReadyBuildable
<1>2. QueueInv /\ ReadyBuildable /\ [Next]_vars => ReadyBuildable'
  BY ReadyStep
<1> QED
  BY <1>1, <1>2, QueueInvariant, PTL DEF Spec

\* Once every setscene task is settled, every task is visited.
LEMMA SettledAllDone ==
  ASSUME NEW done, NEW res, NEW complete, DoneSound(done, res, complete),
         Setscene \subseteq res
  PROVE  Tasks \subseteq done
<1> DEFINE S == Tasks \ done
<1>1. SUFFICES ASSUME S # {} PROVE FALSE
  OBVIOUS
<1>2. PICK t \in S : RevDeps(t) \cap S = {}
  BY <1>1, AcyclicAssumption
<1>3. RevDeps(t) \subseteq done
  BY <1>2, RevDepsAre
<1> QED
  BY <1>2, <1>3 DEF DoneSound

LEMMA DoneDecided ==
  ASSUME NEW t \in Tasks, t \in scene.done, Setscene \subseteq Resolved(scene)
  PROVE  t \in Covered \cup NotCovered
<1>1. t \notin NotCovered => t \notin scene.notcovered /\ t \notin Unskippable \ Setscene
                             /\ \A s \in scene.notcovered : t \notin SqCovered(s)
  BY NotNotCovered
<1>2. SUFFICES ASSUME t \notin NotCovered PROVE t \in Covered
  OBVIOUS
<1>3. CASE t \in Setscene
  <2>1. t \in scene.covered
    BY <1>1, <1>2, <1>3 DEF Resolved
  <2> QED
    BY <1>2, <2>1 DEF Covered
<1>4. CASE t \notin Setscene
  <2>1. PICK s \in Setscene : s \in Owners[t]
    BY <1>1, <1>2, <1>4, UnskippableAre, OwnersAre
  <2>2. t \in SqCovered(s)
    BY <1>4, <2>1 DEF SqCovered
  <2>3. s \in scene.covered
    BY <1>1, <1>2, <2>2 DEF Resolved
  <2> DEFINE below == UNION {SqCovered(r) : r \in scene.covered}
  <2>4. t \in below
    BY <2>2, <2>3
  <2>5. Covered = (scene.done \cap (scene.covered \cup below)) \ NotCovered
    BY DEF Covered
  <2> HIDE DEF below
  <2> QED
    BY <1>2, <2>4, <2>5
<1> QED
  BY <1>3, <1>4

\* What makes it so, at any step of the loop: nothing waits, nothing is held off.
LEMMA NoSceneErrors ==
  ASSUME SkipBase, ReadyBuildable, pc \notin {"init", "done"}, ~scene.dirty,
         DOMAIN scene.deferred = {}, updated_taskhash_queue = {}, holdoff_tasks = {}
  PROVE  ~SceneErrors
<1>1. Setscene \subseteq Resolved(scene)
  BY DEF SkipBase, QueueInv, Sound, CoverSound, HoldoffFresh
<1>2. GraphSound(scene) /\ CoverFresh
  BY DEF SkipBase, SkipInv
<1>3. \A t \in Setscene : t \in Resolved(scene) /\ t \in scene.buildable
                          /\ t \in scene.running
  BY <1>1, <1>2 DEF GraphSound, BuildableSound, SkipBase, QueueInv, Sound, LiveSound
<1>4. Tasks \subseteq scene.done
  BY <1>1, <1>2, SettledAllDone DEF GraphSound
<1>5. \A t \in Tasks : t \in tasks_covered \cup tasks_notcovered
  BY <1>1, <1>2, <1>4, DoneDecided DEF CoverFresh
<1>6. \A t \in Tasks : Depends[t] = {} => t \in runq_buildable
  BY <1>5 DEF ReadyBuildable
<1> QED
  BY <1>3, <1>4, <1>5, <1>6 DEF SceneErrors

\* summarise_scenequeue_errors, which the executor calls when the setscene half has
\* finished, never finds a task buildable and not run, or neither covered nor not.
THEOREM SceneConsistent == ASSUME SteadyHardDeps PROVE Spec => []SceneChecksPass
<1>1. SkipBase /\ ReadyBuildable => SceneChecksPass
  BY NoSceneErrors DEF SceneChecksPass, SceneFinished
<1> QED
  BY <1>1, SkipInvariant, ReadyInvariant, PTL

-----------------------------------------------------------------------------
(* Nothing is left running when the build ends.                            *)

\* No task process is left, and no exit code is under way.
Silent == jobs = {} /\ ExitTids = {}

\* The workers are being torn down, or are gone.
Leaving ==
  \/ pc \in {"return", "done"}
  \/ pc = "read" /\ reading = "teardown"

\* The state the idle function returns on.
Final == state \in {"Complete", "Failed"}

\* A verdict is given when nothing is running, and the workers are told to quit after it.
QuietEnd ==
  /\ Final => Over /\ Silent
  /\ Leaving => Final
  /\ worker # "up" \/ "quit" \in commands => pc = "init" \/ Leaving
  /\ pc \in {"return", "done"} => pipe = <<>>

\* The invariant.
QuietInv ==
  /\ pc = "init" => jobs = {} /\ pipe = <<>> /\ state = "SceneInit" /\ commands = {}
  /\ mode.only => runq_running = {}
  /\ pc = "poll" => reading # "teardown"
  /\ Heard => QuietEnd

LEMMA NothingOutstanding ==
  ASSUME QueueInv, Counts, Outstanding = {}, sq_live = {}
  PROVE  Silent
<1>1. Executing = {} /\ ExitTids = {} /\ Restoring = {}
  BY UnreadExits DEF Outstanding, QueueInv, Sound, Accounted
<1>2. \A j \in jobs : j.kind \in {"run", "setscene"}
  BY DEF QueueInv, TypeOK, WorkerType, Jobs, Kinds
<1>3. ASSUME NEW j \in jobs PROVE FALSE
  BY <1>1, <1>2 DEF Executing, Restoring
<1> QED
  BY <1>1, <1>3 DEF Silent

LEMMA CountZero ==
  ASSUME QueueInv, Counts, active <= 0, sq_live = {}
  PROVE  Silent
<1>1. IsFiniteSet(Outstanding) /\ Cardinality(Outstanding) \in Nat
      /\ Cardinality(Outstanding) <= active
  BY FS_CardinalityType DEF Counts
<1>2. active \in Int
  BY DEF QueueInv, TypeOK, CountType
<1>3. Cardinality(Outstanding) = 0
  BY <1>1, <1>2
<1>4. Outstanding = {}
  BY <1>1, <1>3, FS_EmptySet
<1> QED
  BY <1>4, NothingOutstanding

LEMMA NoExits ==
  ASSUME pipe = <<>>
  PROVE  ExitTids = {}
BY DEF ExitTids, ExitsOf, ExitsAt

QuietBase == SkipBase /\ ReadyBuildable /\ Counts /\ QuietInv

LEMMA ControlQuiet == QuietBase /\ Control => QuietInv'
<1> SUFFICES ASSUME QuietBase, Control PROVE QuietInv'
  OBVIOUS
<1>1. /\ UNCHANGED <<jobs, pipe, runq_running, mode>>
      /\ (Heard' <=> Heard) /\ pc' # "init"
  <2>1. UNCHANGED <<jobs, pipe, runq_running, envVars>> /\ pc' # "init"
    BY DEF Control, SceneInit, StopBeforeInit, IdleForce, IdleShutdown, Idle,
       AfterExecute, Finish, BuildDone, Return, Goto, workerVars, runqVars
  <2> QED
    BY <2>1, SameHeard DEF envVars
<1>2. Silent' <=> Silent
  BY <1>1 DEF Silent, ExitTids
<1>3. (mode.only => runq_running = {})'
  BY <1>1 DEF QuietBase, QuietInv
<1>4. pc' = "poll" => reading' # "teardown"
  BY DEF Control, SceneInit, StopBeforeInit, IdleForce, IdleShutdown, Idle,
     AfterExecute, Finish, BuildDone, Return, Goto
<1>5. SUFFICES ASSUME Heard PROVE QuietEnd'
  BY <1>1, <1>3, <1>4 DEF QuietInv
<1>6. QuietEnd
  BY <1>5 DEF QuietBase, QuietInv
<1>7. CASE SceneInit
  <2>1. pc = "init" /\ pc' = "poll" /\ state' = "Running" /\ worker' = "up"
        /\ commands' = commands
    BY <1>7 DEF SceneInit
  <2>2. commands = {}
    BY <2>1 DEF QuietBase, QuietInv
  <2> QED
    BY <2>1, <2>2 DEF QuietEnd, Final, Leaving
<1>8. CASE StopBeforeInit
  <2>1. pc = "init" /\ pc' = "done" /\ state' = "Complete"
    BY <1>8 DEF StopBeforeInit
  <2>2. jobs = {} /\ pipe = <<>>
    BY <2>1 DEF QuietBase, QuietInv
  <2> QED
    BY <1>1, <1>2, <2>1, <2>2, NoExits DEF QuietEnd, Final, Leaving, Over, Silent
<1>9. CASE IdleForce
  BY <1>5, <1>9 DEF IdleForce, Heard
<1>10. CASE IdleShutdown \/ Idle \/ AfterExecute
  <2>1. /\ UNCHANGED <<state, worker, commands>> /\ pc \in {"idle", "after"}
        /\ pc' \in {"finish", "poll"} \/ (pc = "after" /\ pc' = "build_done")
    BY <1>10 DEF IdleShutdown, Idle, AfterExecute, Goto, workerVars
  <2>2. CASE pc = "after" /\ pc' = "build_done"
    BY <1>2, <1>6, <2>1, <2>2 DEF QuietEnd, Final, Leaving, Over
  <2>3. CASE pc' \in {"finish", "poll"}
    <3>1. ~Final
      <4>1. CASE pc = "idle"
        BY <1>6, <4>1 DEF QuietEnd, Over
      <4>2. CASE pc = "after"
        <5>1. AfterExecute
          BY <1>10, <4>2 DEF IdleShutdown, Idle
        <5> QED
          BY <2>3, <5>1 DEF AfterExecute, Goto, Final
      <4> QED
        BY <2>1, <4>1, <4>2
    <3> QED
      BY <1>6, <2>1, <2>3, <3>1 DEF QuietEnd, Final, Leaving
  <2> QED
    BY <2>1, <2>2, <2>3
<1>11. CASE Finish
  <2>1. /\ pc = "finish" /\ UNCHANGED <<worker, commands, sq_live, active>>
        /\ \/ state' = "CleanUp" /\ pc' = "poll"
           \/ /\ ~(active + Cardinality(sq_live) > 0)
              /\ pc' = "build_done"
    BY <1>11 DEF Finish, workerVars, sceneVars, countVars
  <2>2. ASSUME ~(active + Cardinality(sq_live) > 0) PROVE Silent
    <3>1. IsFiniteSet(sq_live) /\ Cardinality(sq_live) \in Nat
      BY FS_CardinalityType DEF QuietBase, Counts
    <3>2. active \in Int /\ active >= 0
      <4>1. active \in Int
        BY DEF QuietBase, SkipBase, QueueInv, TypeOK, CountType
      <4>2. Cardinality(Outstanding) \in Nat /\ Cardinality(Outstanding) <= active
        BY FS_CardinalityType DEF QuietBase, Counts
      <4> QED
        BY <4>1, <4>2
    <3>3. Cardinality(sq_live) = 0 /\ active <= 0
      BY <2>2, <3>1, <3>2
    <3>4. sq_live = {}
      BY <3>1, <3>3, FS_EmptySet
    <3> QED
      BY <3>3, <3>4, CountZero DEF QuietBase, SkipBase
  <2>3. pc' \in {"poll", "build_done"} /\ (pc' = "build_done" => Silent)
    BY <2>1, <2>2
  <2>4. Final' => pc' = "build_done"
    BY <2>1 DEF Final
  <2> QED
    BY <1>2, <1>6, <2>1, <2>3, <2>4 DEF QuietEnd, Final, Leaving, Over
<1>12. CASE BuildDone
  <2>1. /\ pc = "build_done" /\ UNCHANGED <<state, worker>>
        /\ \/ /\ Final /\ pc' = "read" /\ reading' = "teardown"
           \/ /\ ~Final /\ commands' = commands
              /\ pc' = IF worker = "exited" THEN "done" ELSE "idle"
    BY <1>12 DEF BuildDone, Final
  <2>2. worker = "up" /\ "quit" \notin commands
    BY <1>6, <2>1 DEF QuietEnd, Leaving
  <2> QED
    BY <1>2, <1>6, <2>1, <2>2 DEF QuietEnd, Final, Leaving, Over
<1>13. CASE Return
  <2>1. /\ pc = "return" /\ UNCHANGED <<state, worker, commands, reading>>
        /\ pc' = IF state = "CleanUp" THEN "idle" ELSE "done"
    BY <1>13 DEF Return, workerVars
  <2>2. Final /\ pc' = "done"
    BY <1>6, <2>1 DEF QuietEnd, Leaving, Final
  <2> QED
    BY <1>1, <1>2, <1>6, <2>1, <2>2 DEF QuietEnd, Final, Leaving, Over
<1> QED
  BY <1>7, <1>8, <1>9, <1>10, <1>11, <1>12, <1>13 DEF Control

LEMMA ReadsQuiet == QuietBase /\ Reads => QuietInv'
<1> SUFFICES ASSUME QuietBase, Reads PROVE QuietInv'
  OBVIOUS
<1>1. /\ UNCHANGED <<jobs, runq_running, mode>> /\ (Heard' <=> Heard)
      /\ pc \in {"poll", "read"}
  <2>1. UNCHANGED <<jobs, runq_running, envVars>> /\ pc \in {"poll", "read"}
    BY DEF Reads, Poll, ReadEvent, ReadDone, ReadSuccess, ReadFailure, ReadSetsceneExit,
           Exited, envVars, runqVars
  <2> QED
    BY <2>1, SameHeard DEF envVars
<1>2. pc' \in {"read", "migrate", "after", "build_done", "return"}
  <2>1. CASE Poll \/ ReadEvent \/ \E t \in Tasks : ReadSuccess(t) \/ ReadFailure(t)
                                    \/ \E ok \in BOOLEAN : ReadSetsceneExit(t, ok)
    BY <2>1 DEF Poll, ReadEvent, ReadSuccess, ReadFailure, ReadSetsceneExit, Exited,
                Goto, controlVars
  <2>2. CASE ReadDone
    <3>1. pc' = CASE reading = "top" -> "migrate"
                  [] reading = "tail" -> "after"
                  [] reading = "finish" -> "build_done"
                  [] reading = "teardown" -> "return"
      BY <2>2 DEF ReadDone, Goto
    <3>2. reading \in {"top", "tail", "finish", "teardown"}
      BY DEF QuietBase, SkipBase, QueueInv, TypeOK, ControlType
    <3> QED
      BY <3>1, <3>2, Zenon
  <2> QED
    BY <2>1, <2>2 DEF Reads
<1>3. (mode.only => runq_running = {})'
  BY <1>1 DEF QuietBase, QuietInv
<1>4. SUFFICES ASSUME Heard PROVE QuietEnd'
  BY <1>1, <1>2, <1>3 DEF QuietInv
<1>5. QuietEnd
  BY <1>4 DEF QuietBase, QuietInv
<1>6. CASE Poll
  <2>1. worker # "dead"
    BY <1>4 DEF Heard, QuietBase, Counts
  <2>2. /\ pc = "poll" /\ pc' = "read"
        /\ UNCHANGED <<state, worker, commands, reading, pipe>>
    BY <1>6, <2>1 DEF Poll, Goto
  <2>3. ~Final /\ ~Leaving
    BY <1>5, <2>2 DEF QuietEnd, Over, Leaving
  <2>4. worker = "up" /\ "quit" \notin commands
    BY <1>5, <2>2, <2>3 DEF QuietEnd
  <2>5. reading # "teardown"
    BY <2>2 DEF QuietBase, QuietInv
  <2> QED
    BY <2>2, <2>3, <2>4, <2>5 DEF QuietEnd, Final, Leaving
<1>7. CASE ReadEvent
  <2>1. /\ pc = "read" /\ pipe' = Tail(pipe) /\ Head(pipe).type = "event" /\ pipe # <<>>
        /\ UNCHANGED <<pc, state, worker, commands, reading>>
    BY <1>7 DEF ReadEvent, controlVars
  <2>2. ExitTids' = ExitTids
    <3>1. pipe \in Seq(Messages) /\ Once(pipe)
      BY DEF QuietBase, SkipBase, QueueInv, TypeOK, WorkerType, Sound, OneToken
    <3>2. ExitsOf(Tail(pipe)) = ExitsOf(pipe)
      BY <2>1, <3>1, TailExits
    <3> QED
      BY <2>1, <3>2 DEF ExitTids
  <2> QED
    BY <1>1, <1>5, <2>1, <2>2 DEF QuietEnd, Final, Leaving, Over, Silent
<1>8. CASE ReadDone
  <2>1. /\ pc = "read" /\ pipe = <<>> /\ pipe' = <<>>
        /\ UNCHANGED <<state, commands, reading>>
        /\ (reading # "teardown" => worker' = worker)
    BY <1>8 DEF ReadDone, Goto
  <2>2. ExitTids' = {}
    BY <2>1, NoExits DEF ExitTids
  <2>3. CASE reading = "teardown"
    <3>1. pc' = "return"
      BY <1>8, <2>3 DEF ReadDone, Goto
    <3>2. Final /\ Silent
      BY <1>5, <2>1, <2>3 DEF QuietEnd, Leaving
    <3> QED
      BY <1>1, <2>1, <2>2, <3>1, <3>2 DEF QuietEnd, Final, Leaving, Over, Silent
  <2>4. CASE reading # "teardown"
    <3>1. ~Final /\ worker = "up" /\ "quit" \notin commands
      BY <1>5, <2>1, <2>4 DEF QuietEnd, Over, Leaving
    <3>2. pc' # "return" /\ pc' # "read"
      <4>1. pc' = CASE reading = "top" -> "migrate"
                    [] reading = "tail" -> "after"
                    [] reading = "finish" -> "build_done"
                    [] reading = "teardown" -> "return"
        BY <1>8 DEF ReadDone, Goto
      <4>2. reading \in {"top", "tail", "finish"}
        BY <2>4 DEF QuietBase, SkipBase, QueueInv, TypeOK, ControlType
      <4>3. pc' \in {"migrate", "after", "build_done"}
        BY <4>1, <4>2, Zenon
      <4> QED
        BY <4>3
    <3> QED
      BY <1>2, <2>1, <2>4, <3>1, <3>2 DEF QuietEnd, Final, Leaving
  <2> QED
    BY <2>3, <2>4
<1>9. ASSUME NEW t \in Tasks, NEW ok \in BOOLEAN, Exited(t, ok),
          UNCHANGED <<pc, reading>>,
             UNCHANGED <<worker, commands>>, state' \in {state, "CleanUp"}
      PROVE  QuietEnd'
  <2>1. t \in ExitTids /\ pc = "read"
    BY <1>1, <1>9, ExitedOnce DEF QuietBase, SkipBase, QueueInv, Exited
  <2>2. ~Final
    BY <1>5, <2>1 DEF QuietEnd, Silent
  <2>3. ~Leaving
    BY <1>5, <2>2 DEF QuietEnd
  <2> QED
    BY <1>5, <1>9, <2>1, <2>2, <2>3 DEF QuietEnd, Final, Leaving
<1>10. ASSUME NEW t \in Tasks, NEW ok \in BOOLEAN,
              ReadSuccess(t) \/ ReadFailure(t) \/ ReadSetsceneExit(t, ok)
       PROVE  QuietEnd'
  <2>1. CASE ReadSuccess(t)
    BY <2>1, <1>9 DEF ReadSuccess, controlVars
  <2>2. CASE ReadFailure(t)
    BY <2>2, <1>9 DEF ReadFailure, TaskFail
  <2>3. CASE ReadSetsceneExit(t, ok)
    BY <2>3, <1>9 DEF ReadSetsceneExit
  <2> QED
    BY <1>10, <2>1, <2>2, <2>3
<1> QED
  BY <1>6, <1>7, <1>8, <1>10 DEF Reads

\* Steps of the middle of the loop, where no verdict has been given.
LEMMA MiddleQuiet ==
  ASSUME QuietBase, pc \notin {"init", "read", "return", "done"}, Heard => ~Final,
         UNCHANGED envVars, UNCHANGED <<worker, commands>>,
         pc' \notin {"init", "read", "return", "done"},
         mode.only => runq_running' = {}, pc' = "poll" => reading' # "teardown",
         Heard /\ Final' => Over' /\ Silent'
  PROVE  QuietInv'
<1>1. UNCHANGED mode /\ (Heard' <=> Heard)
  BY SameHeard DEF envVars
<1>2. Heard => worker = "up" /\ "quit" \notin commands
  BY DEF QuietBase, QuietInv, QuietEnd, Leaving
<1> QED
  BY <1>1, <1>2 DEF QuietInv, QuietEnd, Leaving

LEMMA NotDead ==
  ASSUME Counts, Heard
  PROVE  worker # "dead"
BY DEF Counts, Heard

\* A broken pipe: the worker has died.
LEMMA BrokenQuiet ==
  ASSUME QuietBase, BrokenPipe, UNCHANGED envVars, UNCHANGED runq_running
  PROVE  QuietInv'
<1>1. UNCHANGED mode /\ (Heard' <=> Heard) /\ pc' = "done" /\ ~Heard
  BY SameHeard, NotDead DEF envVars, BrokenPipe, QuietBase
<1> QED
  BY <1>1 DEF QuietBase, QuietInv

LEMMA ScansQuiet == QuietBase /\ (Migrates \/ Scans) => QuietInv'
<1> SUFFICES ASSUME QuietBase, Migrates \/ Scans PROVE QuietInv'
  OBVIOUS
<1>1. /\ pc \in {"migrate", "setscene"} /\ UNCHANGED envVars /\ UNCHANGED runq_running
      /\ \/ /\ UNCHANGED <<state, worker, commands>>
            /\ pc' \in {"setscene", "holdoff", "after"}
         \/ BrokenPipe
  BY DEF Migrates, NoMigrations, Migrate, Scans, ScanEnds, ScanSkipsUnneeded, ScanParks,
         ScanFails, ScanSkipsStamped, ScanLaunches, Scanned, OnlyScene, Goto,
         workerVars, envVars, runqVars
<1>2. CASE BrokenPipe
  BY <1>1, <1>2, BrokenQuiet
<1>3. CASE /\ UNCHANGED <<state, worker, commands>>
           /\ pc' \in {"setscene", "holdoff", "after"}
  <2>1. Heard => ~Final
    BY <1>1 DEF QuietBase, QuietInv, QuietEnd, Over
  <2>2. mode.only => runq_running' = {}
    BY <1>1 DEF QuietBase, QuietInv
  <2>3. Final' <=> Final
    BY <1>3 DEF Final
  <2> QED
    BY <1>1, <1>3, <2>1, <2>2, <2>3, MiddleQuiet
<1> QED
  BY <1>1, <1>2, <1>3

LEMMA SchedulesQuiet == QuietBase /\ Schedules => QuietInv'
<1> SUFFICES ASSUME QuietBase, Schedules PROVE QuietInv'
  OBVIOUS
<1>1. pc \in {"holdoff", "sched", "tail"} /\ UNCHANGED envVars
  BY DEF Schedules, UpdateHoldoff, SettleScene, SchedNothing, SchedRefuses, SchedSkips,
         SchedNoExec, SchedLaunches, Scheduled, Finishes, TailWaits, TailEnds, TailForces,
         TailStops, envVars
<1>2. Heard => ~Final
  BY <1>1 DEF QuietBase, QuietInv, QuietEnd, Over
<1>3. mode.only => runq_running = {}
  BY DEF QuietBase, QuietInv
<1>4. CASE UpdateHoldoff \/ SchedNothing \/ TailWaits \/ \E t \in Setscene : TailForces(t)
  <2>1. /\ UNCHANGED <<state, worker, commands, runq_running>>
        /\ pc' \in {"holdoff", "tail", "poll", "after"}
        /\ (pc' = "poll" => reading' # "teardown")
    BY <1>4 DEF UpdateHoldoff, SchedNothing, TailWaits, TailForces, Goto, controlVars,
                runqVars, workerVars
  <2> QED
    BY <1>1, <1>2, <1>3, <2>1, MiddleQuiet DEF Final
<1>5. CASE SettleScene
  <2>1. /\ UNCHANGED <<worker, commands, runq_running, jobs, pipe>>
        /\ pc = "holdoff" /\ ~scene.dirty /\ pc' \in {"sched", "after"}
        /\ \/ state' = state
           \/ SceneFinished /\ SceneErrors
           \/ SceneFinished /\ mode.only /\ pc' = "after"
    BY <1>5 DEF SettleScene, runqVars, workerVars
  <2>2. ~(SceneFinished /\ SceneErrors)
    BY <2>1, NoSceneErrors DEF SceneFinished, QuietBase
  <2>3. SceneFinished => sq_live = {}
    BY DEF SceneFinished
  <2>4. ASSUME SceneFinished, mode.only PROVE Silent
    <3>1. runq_running = {} /\ sq_live = {}
      BY <1>3, <2>3, <2>4
    <3>2. Outstanding = {}
      BY <3>1, UnreadExits DEF Outstanding, QuietBase, SkipBase, QueueInv, Sound,
                                          Accounted
    <3> QED
      BY <3>1, <3>2, NothingOutstanding DEF QuietBase, SkipBase
  <2>5. Silent' <=> Silent
    BY <2>1 DEF Silent, ExitTids
  <2>6. Heard /\ Final' => Over' /\ Silent'
    BY <1>2, <2>1, <2>2, <2>4, <2>5 DEF Final, Over
  <2> QED
    BY <1>1, <1>2, <1>3, <2>1, <2>6, MiddleQuiet
<1>6. ASSUME NEW t \in Tasks, SchedRefuses(t) PROVE QuietInv'
  <2>1. /\ UNCHANGED <<worker, commands, runq_running>> /\ pc' = "after"
        /\ state' \in {state, "CleanUp"}
    BY <1>6 DEF SchedRefuses, TaskFail, Goto, runqVars, workerVars
  <2>2. Heard => ~Final'
    BY <1>2, <2>1 DEF Final
  <2> QED
    BY <1>1, <1>2, <1>3, <2>1, <2>2, MiddleQuiet
<1>7. ASSUME NEW t \in Tasks, SchedSkips(t) \/ SchedNoExec(t) PROVE QuietInv'
  <2>1. /\ UNCHANGED <<worker, commands, state>> /\ pc' = "after" /\ ~mode.only
    BY <1>7 DEF SchedSkips, SchedNoExec, Scheduled, Finishes, Goto, workerVars
  <2> QED
    BY <1>1, <1>2, <2>1, MiddleQuiet DEF Final
<1>8. ASSUME NEW t \in Tasks, SchedLaunches(t) PROVE QuietInv'
  <2>1. /\ ~mode.only
        /\ \/ UNCHANGED <<worker, commands, state>> /\ pc' \in {"after", "tail"}
           \/ BrokenPipe /\ UNCHANGED runq_running
    BY <1>8 DEF SchedLaunches, Scheduled
  <2>2. CASE BrokenPipe /\ UNCHANGED runq_running
    BY <1>1, <2>2, BrokenQuiet
  <2>3. CASE UNCHANGED <<worker, commands, state>> /\ pc' \in {"after", "tail"}
    BY <1>1, <1>2, <2>1, <2>3, MiddleQuiet DEF Final
  <2> QED
    BY <2>1, <2>2, <2>3
<1>9. CASE TailEnds
  <2>1. /\ UNCHANGED <<worker, commands, runq_running, jobs, pipe>>
        /\ active <= 0 /\ sq_live = {} /\ pc' = "after"
    BY <1>9 DEF TailEnds, TailStops, Goto, runqVars, workerVars
  <2>2. Silent
    BY <2>1, CountZero DEF QuietBase, SkipBase
  <2>3. Silent'
    BY <2>1, <2>2 DEF Silent, ExitTids
  <2> QED
    BY <1>1, <1>2, <1>3, <2>1, <2>3, MiddleQuiet DEF Over
<1> QED
  BY <1>4, <1>5, <1>6, <1>7, <1>8, <1>9 DEF Schedules

LEMMA OthersQuiet ==
  QuietBase /\ (Environment \/ Done \/ UNCHANGED vars) => QuietInv'
<1> SUFFICES ASSUME QuietBase, Environment \/ Done \/ UNCHANGED vars
             PROVE  QuietInv'
  OBVIOUS
<1>1. /\ UNCHANGED <<pc, reading, state, runq_running, mode>>
      /\ commands' \subseteq commands
  BY DEF Environment, WorkerSteps, WorkerFinishesNow, WorkerQuits, JobEnds, WorkerDies,
         JobReports, UserStops, OnlyWorker, Done, vars, controlVars, runqVars, envVars,
         workerVars
<1>2. budget \in [fail : Nat, rehash : Nat, crash : Nat]
  BY DEF QuietBase, SkipBase, QueueInv, TypeOK, EnvType
<1>3. jobs = {} => jobs' = {} /\ pipe' = pipe
  BY DEF Environment, WorkerSteps, WorkerFinishesNow, WorkerQuits, JobEnds, WorkerDies,
         JobReports, UserStops, Done, vars, workerVars
<1>4. Silent => Silent' /\ pipe' = pipe
  BY <1>3 DEF Silent, ExitTids
<1>5. Heard' => Heard /\ (worker' = worker \/ "quit" \in commands)
  <2>1. CASE WorkerFinishesNow \/ WorkerQuits \/ Done \/ UNCHANGED vars
    BY <2>1 DEF WorkerFinishesNow, WorkerQuits, Done, vars, envVars, workerVars, Heard
  <2>2. ASSUME NEW j \in jobs, NEW ok \in BOOLEAN, JobEnds(j, ok)
        PROVE  UNCHANGED <<request, worker>> /\ budget'.crash = budget.crash
    BY <1>2, <2>2 DEF JobEnds
  <2>3. ASSUME NEW j \in jobs, NEW h \in Hashes, JobReports(j, h)
        PROVE  UNCHANGED <<request, worker>> /\ budget'.crash = budget.crash
    BY <1>2, <2>3 DEF JobReports
  <2>4. CASE WorkerDies
    BY <1>2, <2>4 DEF WorkerDies, Heard
  <2>5. ASSUME NEW r \in Requests, UserStops(r)
        PROVE  request # "force" /\ UNCHANGED <<worker, budget>>
    BY <2>5 DEF UserStops, workerVars, None
  <2> QED
    BY <2>1, <2>2, <2>3, <2>4, <2>5 DEF Environment, WorkerSteps, Heard
<1>6. pc = "init" => commands = {} /\ jobs = {} /\ pipe = <<>>
  BY DEF QuietBase, QuietInv
<1>7. Heard' => QuietEnd'
  <2> SUFFICES ASSUME Heard' PROVE QuietEnd'
    OBVIOUS
  <2>1. Heard /\ QuietEnd
    BY <1>5 DEF QuietBase, QuietInv
  <2> QED
    BY <1>1, <1>4, <1>5, <2>1 DEF QuietEnd, Final, Leaving, Over
<1> QED
  BY <1>1, <1>3, <1>6, <1>7 DEF QuietBase, QuietInv

LEMMA QuietInvariant ==
  ASSUME SteadyHardDeps, NoEnforce PROVE Spec => []QuietInv
<1>1. Init => QuietInv
  BY DEF Init, QuietInv, QuietEnd, Final, Leaving
<1>2. SkipBase /\ ReadyBuildable /\ Counts /\ QuietInv /\ [Next]_vars => QuietInv'
  BY ControlQuiet, ReadsQuiet, ScansQuiet, SchedulesQuiet, OthersQuiet
  DEF Next, Cooker, QuietBase
<1> QED
  BY <1>1, <1>2, SkipInvariant, ReadyInvariant, CountsInvariant, PTL DEF Spec

\* A build that is not cut short ends with no task running and every exit code read.
THEOREM QuietlyEnds == ASSUME SteadyHardDeps, NoEnforce PROVE Spec => []EndsQuiet
<1>1. QuietInv => EndsQuiet
  BY DEF QuietInv, QuietEnd, EndsQuiet, Heard, Leaving, Silent
<1> QED
  BY <1>1, QuietInvariant, PTL

-----------------------------------------------------------------------------
(* Covered or not, where nothing waits for another to be restored first.   *)

LEMMA FirstOfOne ==
  ASSUME NEW t \in Tasks
  PROVE  FirstOf({t}) = t
<1>1. Rank[t] \in Nat
  BY GraphAssumption
<1>2. t \in {t} /\ \A u \in {t} : Rank[t] <= Rank[u]
  BY <1>1
<1> QED
  BY <1>2 DEF FirstOf

LEMMA SharesAlone ==
  ASSUME NothingShared, NEW t \in Setscene, NEW h, MaxRehash # 0 \/ h = InitHash[t],
         Sharing(PendingIndex(t, h)) # {}
  PROVE  Leader(PendingIndex(t, h)) = t
<1>1. \A u \in Sharing(PendingIndex(t, h)) : u = t
  BY DEF Sharing, PendingIndex, NothingShared
<1>2. Sharing(PendingIndex(t, h)) = {t}
  BY <1>1
<1> QED
  BY <1>2, FirstOfOne, GraphAssumption DEF Leader

LEMMA NothingWaits ==
  ASSUME NothingShared
  PROVE  DOMAIN InitiallyDeferred = {}
<1>1. \A u \in Setscene : u \in Sharing(PendingIndex(u, InitHash[u]))
  BY DEF Sharing
<1>2. {u \in Setscene : Leader(PendingIndex(u, InitHash[u])) # u} = {}
  BY <1>1, SharesAlone
<1> QED
  BY <1>2 DEF InitiallyDeferred

\* Why a task executes: it was not restored, or what it is for was not.
MayExecute(t) ==
  IF t \in Setscene THEN t \in scene.notcovered
  ELSE t \in Unskippable \/ \E s \in scene.notcovered : t \in SqCovered(s)

\* The invariant: nothing waits, so nothing is settled twice.
ApartInv ==
  /\ DOMAIN scene.deferred = {}
  /\ CoveredOrNot
  /\ \A t \in pending_migrations : HardDeps[t] = {}
  /\ \A d \in scene.notneeded : SqRevdeps(d) \subseteq scene.covered
  /\ \A t \in Executing : MayExecute(t)

LEMMA MovesApart ==
  ASSUME ApartInv, SceneMoves, Executing' \subseteq Executing,
         UNCHANGED pending_migrations
  PROVE  ApartInv'
<1>1. \A t : MayExecute(t) => MayExecute(t)'
  BY DEF MayExecute, SceneMoves
<1>2. CoveredOrNot'
  BY DEF ApartInv, SceneMoves, CoveredOrNot
<1>3. \A d \in scene'.notneeded : SqRevdeps(d) \subseteq scene'.covered
  BY DEF ApartInv, SceneMoves
<1> QED
  BY <1>1, <1>2, <1>3 DEF ApartInv, SceneMoves

LEMMA StillApart ==
  ASSUME ApartInv, UNCHANGED <<scene, pending_migrations>>, Executing' \subseteq Executing
  PROVE  ApartInv'
BY DEF ApartInv, CoveredOrNot, MayExecute

LEMMA SceneInitApart ==
  ASSUME NothingShared, SkipBase, ApartInv, SceneInit
  PROVE  ApartInv'
<1>1. /\ pc = "init" /\ scene' = InitialScene(files', sstate)
      /\ UNCHANGED <<jobs, pending_migrations>>
  BY DEF SceneInit, hashVars
<1>2. /\ scene'.notneeded = {} /\ scene'.notcovered = {}
      /\ DOMAIN scene'.deferred \subseteq DOMAIN InitiallyDeferred
  BY <1>1, InitialSceneSound
<1>3. DOMAIN scene'.deferred = {}
  BY <1>2, NothingWaits
<1>4. Executing = {} /\ Executing' = Executing
  BY <1>1 DEF SkipBase, QueueInv, Sound, CoverSound, Accounted, Executing
<1> QED
  BY <1>1, <1>2, <1>3, <1>4 DEF ApartInv, CoveredOrNot

LEMMA ReadsApart == SkipBase /\ ApartInv /\ Reads => ApartInv'
<1> SUFFICES ASSUME SkipBase, ApartInv, Reads PROVE ApartInv'
  OBVIOUS
<1>1. TypeOK /\ Sound /\ sq_live \subseteq scene.buildable
  BY DEF SkipBase, QueueInv, SkipInv
<1>2. UNCHANGED <<jobs, pending_migrations>>
  BY DEF Reads, Poll, ReadEvent, ReadDone, ReadSuccess, ReadFailure, ReadSetsceneExit,
         hashVars
<1>3. Executing' = Executing
  BY <1>2 DEF Executing
<1>4. CASE Poll \/ ReadEvent \/ ReadDone \/ \E t \in Tasks : ReadFailure(t)
  <2>1. UNCHANGED scene
    BY <1>4 DEF Poll, ReadEvent, ReadDone, ReadFailure, sceneVars
  <2> QED
    BY <1>2, <1>3, <2>1, StillApart
<1>5. ASSUME NEW t \in Tasks, ReadSuccess(t) PROVE ApartInv'
  BY <1>1, <1>2, <1>3, <1>5, CompleteOutrightMoves, MovesApart DEF ReadSuccess
<1>6. ASSUME NEW t \in Tasks, NEW ok \in BOOLEAN, ReadSetsceneExit(t, ok) PROVE ApartInv'
  BY <1>1, <1>2, <1>3, <1>6, ReadSetsceneExitMoves, MovesApart
<1> QED
  BY <1>4, <1>5, <1>6 DEF Reads

LEMMA ScansApart == SkipBase /\ ApartInv /\ Scans => ApartInv'
<1> SUFFICES ASSUME SkipBase, ApartInv, Scans PROVE ApartInv'
  OBVIOUS
<1>1. TypeOK /\ Sound
  BY DEF SkipBase, QueueInv
<1>2. UNCHANGED pending_migrations
  BY DEF Scans, ScanEnds, ScanSkipsUnneeded, ScanParks, ScanFails, ScanSkipsStamped,
         ScanLaunches, OnlyScene, hashVars
<1>3. ASSUME ScanEnds \/ \E t \in Setscene :
               ScanSkipsUnneeded(t) \/ ScanParks(t) \/ ScanFails(t) \/ ScanSkipsStamped(t)
      PROVE  Executing' \subseteq Executing
  <2>1. UNCHANGED jobs
    BY <1>3 DEF ScanEnds, ScanSkipsUnneeded, ScanParks, ScanFails, ScanSkipsStamped,
                OnlyScene, workerVars
  <2> QED
    BY <2>1 DEF Executing
<1>4. ASSUME NEW t \in Setscene, ScanLaunches(t) PROVE Executing' \subseteq Executing
  <2>1. CASE Send(t, "setscene")
    <3> DEFINE j0 == [tid |-> t, kind |-> "setscene", hash |-> unihash[t], said |-> FALSE]
    <3>1. jobs' = jobs \cup {j0} /\ j0.kind = "setscene"
      BY <2>1 DEF Send
    <3> HIDE DEF j0
    <3> QED
      BY <3>1 DEF Executing
  <2>2. CASE BrokenPipe
    BY <2>2 DEF BrokenPipe, Executing
  <2> QED
    BY <1>4, <2>1, <2>2 DEF ScanLaunches
<1>5. Executing' \subseteq Executing
  BY <1>3, <1>4 DEF Scans
<1> QED
  BY <1>1, <1>2, <1>5, ScansMove, MovesApart

LEMMA LaunchMayExecute ==
  ASSUME SkipBase, NEW t \in Tasks, Scheduled(t), t \notin tasks_covered
  PROVE  MayExecute(t)
<1>1. pc = "sched" /\ ~scene.dirty /\ t \in tasks_notcovered
  BY DEF SkipBase, QueueInv, Sound, CoverSound, Scheduled, Runnable
<1>2. t \in NotCovered
  BY <1>1 DEF SkipBase, SkipInv, CoverFresh
<1> DEFINE below == UNION {SqCovered(s) : s \in scene.notcovered}
<1>3. t \in below => \E s \in scene.notcovered : t \in SqCovered(s)
  OBVIOUS
<1>4. \/ t \in scene.notcovered \/ t \in Cantskip
      \/ t \in Unskippable \ Setscene \/ t \in below
  BY <1>2 DEF NotCovered
<1> HIDE DEF below
<1>5. t \in Cantskip => t \in Unskippable /\ t \notin Setscene
  BY UnskippableAre DEF Cantskip
<1>6. scene.notcovered \subseteq Setscene
  BY DEF SkipBase, QueueInv, TypeOK, SceneVarsType, SceneType
<1>7. \A s : t \in SqCovered(s) => t \notin Setscene
  BY DEF SqCovered
<1> QED
  BY <1>3, <1>4, <1>5, <1>6, <1>7 DEF MayExecute

LEMMA SchedulesApart == SkipBase /\ ApartInv /\ Schedules => ApartInv'
<1> SUFFICES ASSUME SkipBase, ApartInv, Schedules PROVE ApartInv'
  OBVIOUS
<1>1. TypeOK /\ scene \in SceneType
  BY DEF SkipBase, QueueInv, TypeOK, SceneVarsType
<1>2. UNCHANGED pending_migrations
  BY DEF Schedules, UpdateHoldoff, SettleScene, SchedNothing, SchedRefuses, SchedSkips,
         SchedNoExec, SchedLaunches, Finishes, TailWaits, TailEnds, TailForces, hashVars
<1>3. CASE \/ SettleScene \/ SchedNothing \/ TailWaits \/ TailEnds
           \/ \E t \in Tasks : SchedRefuses(t)
  <2>1. UNCHANGED <<scene, jobs>>
    BY <1>3 DEF SettleScene, SchedNothing, TailWaits, TailEnds, SchedRefuses, sceneVars,
                workerVars
  <2> QED
    BY <1>2, <2>1, StillApart DEF Executing
<1>4. CASE UpdateHoldoff
  <2>1. scene' = [scene EXCEPT !.dirty = FALSE] /\ UNCHANGED jobs
    BY <1>4 DEF UpdateHoldoff, workerVars
  <2>2. /\ scene'.covered = scene.covered /\ scene'.notcovered = scene.notcovered
        /\ scene'.notneeded = scene.notneeded /\ scene'.deferred = scene.deferred
    BY <1>1, <2>1 DEF SceneType
  <2> QED
    BY <1>2, <2>1, <2>2 DEF ApartInv, CoveredOrNot, MayExecute, Executing
<1>5. ASSUME NEW t \in Setscene, TailForces(t) PROVE ApartInv'
  <2>1. scene' = Undeferred(scene, t) /\ UNCHANGED jobs
    BY <1>5 DEF TailForces, workerVars
  <2>2. SceneMoves
    BY <1>1, <2>1, UndeferredBooks, SameMoves
  <2> QED
    BY <1>2, <2>1, <2>2, MovesApart DEF Executing
<1>6. ASSUME NEW t \in Tasks, SchedSkips(t) \/ SchedNoExec(t) PROVE ApartInv'
  <2>1. /\ \E extra, disk : CompleteOutright(t, extra, disk)
        /\ UNCHANGED jobs
    BY <1>6 DEF SchedSkips, SchedNoExec, Finishes, CompleteOutright, workerVars
  <2> QED
    BY <1>1, <1>2, <2>1, CompleteOutrightMoves, MovesApart DEF Executing
<1>7. ASSUME NEW t \in Tasks, SchedLaunches(t) PROVE ApartInv'
  <2>1. UNCHANGED scene /\ Executing' \subseteq Executing \cup {t}
    BY <1>7 DEF SchedLaunches, Send, BrokenPipe, Executing, sceneVars
  <2>2. MayExecute(t)
    BY <1>7, LaunchMayExecute DEF SchedLaunches
  <2> QED
    BY <1>2, <2>1, <2>2 DEF ApartInv, CoveredOrNot, MayExecute
<1> QED
  BY <1>3, <1>4, <1>5, <1>6, <1>7 DEF Schedules

LEMMA OthersApart == SkipBase /\ ApartInv /\ (Environment \/ Done \/ UNCHANGED vars)
                  => ApartInv'
<1> SUFFICES ASSUME SkipBase, ApartInv, Environment \/ Done \/ UNCHANGED vars
             PROVE  ApartInv'
  OBVIOUS
<1>1. UNCHANGED <<scene, pending_migrations>>
  BY BooksAlone
<1>2. Executing' \subseteq Executing
  <2>1. CASE WorkerFinishesNow \/ WorkerQuits \/ WorkerDies \/ Done \/ UNCHANGED vars
             \/ \E r \in Requests : UserStops(r)
    BY <2>1 DEF WorkerFinishesNow, WorkerQuits, WorkerDies, Done, vars, UserStops,
                workerVars, Executing
  <2>2. ASSUME NEW j \in jobs, NEW ok \in BOOLEAN, JobEnds(j, ok)
        PROVE  Executing' \subseteq Executing
    BY <2>2 DEF JobEnds, Executing
  <2>3. ASSUME NEW j \in jobs, NEW h \in Hashes, JobReports(j, h)
        PROVE  Executing' \subseteq Executing
    <3> DEFINE k == [j EXCEPT !.hash = h, !.said = TRUE]
    <3>1. j \in Jobs /\ jobs' = (jobs \ {j}) \cup {k} /\ j.kind = "run"
      BY <2>3 DEF JobReports, SkipBase, QueueInv, TypeOK, WorkerType
    <3>2. k.tid = j.tid
      BY <3>1 DEF Jobs
    <3> HIDE DEF k
    <3> QED
      BY <3>1, <3>2 DEF Executing
  <2> QED
    BY <2>1, <2>2, <2>3 DEF Environment, WorkerSteps
<1> QED
  BY <1>1, <1>2, StillApart

LEMMA MigratesApart ==
  ASSUME NothingShared, NoHardRestarts
  PROVE  SkipBase /\ ApartInv /\ Migrates => ApartInv'
<1> SUFFICES ASSUME SkipBase, ApartInv, Migrates PROVE ApartInv'
  OBVIOUS
<1>1. CASE NoMigrations
  <2>1. UNCHANGED <<scene, pending_migrations, jobs>>
    BY <1>1 DEF NoMigrations, sceneVars, hashVars, workerVars
  <2> QED
    BY <2>1, StillApart DEF Executing
<1>2. ASSUME NEW uh \in NewHashes, Migrate(uh) PROVE ApartInv'
  <2> DEFINE R == Ready(uh)
  <2>1. /\ updated_taskhash_queue # {} \/ pending_migrations # {}
        /\ pending_migrations' = Pending(uh) \ R
        /\ scene' = IF R = {} /\ Changed(uh) = {} THEN scene
                    ELSE [Restart(scene, R, uh, files')
                            EXCEPT !.needed = {}, !.parked = {}, !.dirty = TRUE]
        /\ UNCHANGED <<jobs, runq_running, runq_complete>>
    BY <1>2 DEF Migrate, runqVars, workerVars
  <2>2. MaxRehash # 0
    BY <2>1 DEF SkipBase, QueueInv, NoNews
  <2>3. R \subseteq Pending(uh) /\ \A s \in R : \A d \in SqCovered(s) : ~Busy(d)
    BY DEF Ready
  <2>4. /\ Pending(uh) \subseteq Setscene
        /\ Pending(uh) \cap (scene.covered \ scene.notcovered) = {}
        /\ Pending(uh) \cap (runq_running \cup sq_live) = {}
    BY PendingAre DEF SkipBase
  <2>5. R \cap scene.covered = {}
    BY <2>3, <2>4 DEF ApartInv, CoveredOrNot
  <2>6. \A t \in Pending(uh) : HardDeps[t] = {}
    <3>1. \A t \in Changed(uh) : \E s \in Setscene : t \in Dependents[s]
      BY ChangedAbove DEF SkipBase, QueueInv
    <3>2. \A t \in Changed(uh) \cap Setscene : HardDeps[t] = {}
      BY <2>2, <3>1 DEF NoHardRestarts
    <3> QED
      BY <3>2 DEF Pending, ApartInv
  <2>7. Executing' = Executing /\ \A t \in Executing : Busy(t)
    BY <2>1 DEF Executing, SkipBase, QueueInv, Sound, Accounted, Busy
  <2>8. scene \in SceneType /\ runq_complete \in SUBSET Tasks
    BY DEF SkipBase, QueueInv, TypeOK, SceneVarsType, RunqType
  <2>9. {u \in R : Defers(u, uh)} = {}
    BY <2>2, <2>3, <2>4, SharesAlone DEF Defers
  <2> HIDE DEF R
  <2>10. CASE scene' = scene
    BY <2>1, <2>6, <2>7, <2>10 DEF ApartInv, CoveredOrNot, MayExecute
  <2>11. CASE scene' # scene
    <3> DEFINE s == Restart(scene, R, uh, files')
    <3>0. R \subseteq Setscene
      BY <2>3, <2>4
    <3>1. s \in SceneType
      BY <3>0, <2>8, RestartType
    <3>2. /\ DOMAIN s.deferred \subseteq DOMAIN scene.deferred
                 \cup {u \in R : Defers(u, uh)}
      BY <3>0, <2>8, RestartDefers
    <3>3. PICK K \in SUBSET R, N \in SUBSET Setscene : StartsOver(scene, s, R, K, N)
      BY <3>0, <2>8, RestartIsOver
    <3>4. scene' = [s EXCEPT !.needed = {}, !.parked = {}, !.dirty = TRUE]
      BY <2>1, <2>11
    <3>5. DOMAIN s.deferred = {}
      BY <2>9, <3>2 DEF ApartInv
    <3> HIDE DEF s
    <3>6. /\ scene'.covered = s.covered /\ scene'.notcovered = s.notcovered
          /\ scene'.notneeded = s.notneeded /\ scene'.deferred = s.deferred
      BY <3>1, <3>4 DEF SceneType
    <3>7. /\ s.covered = (scene.covered \ R) \cup K
          /\ s.notcovered = scene.notcovered \ R
          /\ s.notneeded = scene.notneeded \ R
      BY <2>3, <2>6, <3>3 DEF StartsOver
    <3>8. CoveredOrNot'
      BY <3>6, <3>7 DEF ApartInv, CoveredOrNot
    <3>9. \A d \in scene'.notneeded : SqRevdeps(d) \subseteq scene'.covered
      BY <2>5, <3>6, <3>7 DEF ApartInv
    <3>10. ASSUME NEW t \in Executing PROVE MayExecute(t)'
      <4>1. MayExecute(t) /\ t \notin R /\ \A r \in R : t \notin SqCovered(r)
        <5>1. Busy(t) /\ t \in runq_running
          BY <2>7 DEF Busy
        <5> QED
          BY <2>3, <2>4, <5>1 DEF ApartInv
      <4> QED
        BY <3>6, <3>7, <4>1 DEF MayExecute
    <3> QED
      BY <2>1, <2>6, <2>7, <3>5, <3>6, <3>8, <3>9, <3>10 DEF ApartInv
  <2> QED
    BY <2>10, <2>11
<1> QED
  BY <1>1, <1>2 DEF Migrates

LEMMA ApartInvariant ==
  ASSUME SteadyHardDeps, NothingShared, NoHardRestarts
  PROVE  Spec => []ApartInv
<1>1. Init => ApartInv
  BY DEF Init, ApartInv, CoveredOrNot, Executing
<1>2. SkipBase /\ ApartInv /\ [Next]_vars => ApartInv'
  <2> SUFFICES ASSUME SkipBase, ApartInv, [Next]_vars PROVE ApartInv'
    OBVIOUS
  <2>1. CASE StopBeforeInit \/ IdleForce \/ IdleShutdown \/ Idle \/ AfterExecute
               \/ Finish \/ BuildDone \/ Return
    <3>1. UNCHANGED <<scene, pending_migrations, jobs>>
      BY <2>1 DEF StopBeforeInit, IdleForce, IdleShutdown, Idle, AfterExecute, Finish,
                  BuildDone, Return, sceneVars, hashVars, workerVars
    <3> QED
      BY <3>1, StillApart DEF Executing
  <2> QED
    BY <2>1, SceneInitApart, ReadsApart, MigratesApart, ScansApart, SchedulesApart,
       OthersApart DEF Next, Cooker, Control
<1> QED
  BY <1>1, <1>2, SkipInvariant, PTL DEF Spec

\* "No task should end up in both covered and uncovered, that is a bug."
THEOREM CoveredApart ==
  ASSUME SteadyHardDeps, NothingShared, NoHardRestarts
  PROVE  Spec => []CoveredOrNot
<1>1. ApartInv => CoveredOrNot
  BY DEF ApartInv
<1> QED
  BY <1>1, ApartInvariant, PTL

\* A task that executes finds everything it depends on executed, current or restored.
THEOREM InputsPresent ==
  ASSUME SteadyHardDeps, NothingShared, NoHardRestarts
  PROVE  Spec => []NoMissingInputs
<1>1. SkipBase /\ ApartInv => NoMissingInputs
  <2> SUFFICES ASSUME SkipBase, ApartInv, NEW t \in Executing, NEW d \in Depends[t],
                      d \notin runq_tasksrun
               PROVE  d \in scene.covered \ scene.notneeded
    BY DEF NoMissingInputs, Present
  <2>1. t \in Tasks /\ t \in runq_buildable /\ MayExecute(t)
    BY DEF SkipBase, QueueInv, StartedBuildable, TypeOK, RunqType, ApartInv
  <2>2. d \in Tasks /\ t \in RevDeps(d)
    BY <2>1, GraphAssumption DEF RevDeps
  <2>3. d \in Skipped
    BY <2>1 DEF SkipBase, DepsComplete, Skipped
  <2>4. MaySkip(d)
    BY <2>3 DEF SkipBase, SkipInv
  <2>5. IF t \in Setscene THEN t \in Owners[d] ELSE Owners[t] \subseteq Owners[d]
    BY <2>2, OwnersAre
  <2>6. t \notin Setscene /\ t \in Unskippable => d \in Unskippable
    BY <2>2, UnskippableAre
  <2>7. \A s : t \in SqCovered(s) => s \in Owners[t]
    BY DEF SqCovered
  <2>8. ASSUME Owners[d] \subseteq scene.covered, d \notin Unskippable PROVE FALSE
    BY <2>1, <2>5, <2>6, <2>7, <2>8 DEF MayExecute, ApartInv, CoveredOrNot
  <2>9. d \in Setscene
    BY <2>4, <2>8 DEF MaySkip
  <2>10. d \notin scene.notneeded
    <3>1. d \in scene.notneeded
              => d \notin Unskippable /\ Owners[d] \subseteq scene.covered
      BY DEF ApartInv, SqRevdeps, SkipBase, SkipInv
    <3> QED
      BY <2>8, <3>1
  <2> QED
    BY <2>4, <2>9, <2>10 DEF MaySkip
<1> QED
  BY <1>1, SkipInvariant, ApartInvariant, PTL

-----------------------------------------------------------------------------
(* The queue does not get stuck.                                           *)

\* Ordinary tasks started and not complete; those that failed are among them.
Begun == runq_running \ runq_complete

\* Stamps are promised for what is under way only, and as long as nothing has failed
\* the counter covers all of it.
BookInv ==
  /\ DOMAIN build_stamps \subseteq sq_live \cup Begun
  /\ failed_tids = {} => Cardinality(Begun) <= active

LEMMA BegunFinite ==
  ASSUME TypeOK
  PROVE  IsFiniteSet(Begun) /\ Cardinality(Begun) \in Nat
<1>1. Begun \subseteq Tasks
  BY DEF TypeOK, RunqType, Begun
<1> QED
  BY <1>1, AcyclicAssumption, FS_Subset, FS_CardinalityType

LEMMA SameBookInv ==
  ASSUME BookInv, UNCHANGED <<sq_live, runq_running, runq_complete, countVars>>
  PROVE  BookInv'
BY DEF BookInv, Begun, countVars

LEMMA WithoutDomain ==
  ASSUME NEW S, build_stamps' = Without(build_stamps, S)
  PROVE  DOMAIN build_stamps' = DOMAIN build_stamps \ S
BY DEF Without

\* A task sent is one more, if it is an ordinary one.
LEMMA SendBooks ==
  ASSUME NEW t, NEW kind, Send(t, kind)
  PROVE  DOMAIN build_stamps' = DOMAIN build_stamps \cup {t}
BY DEF Send

LEMMA ReadsBook == QueueInv /\ BookInv /\ Reads => BookInv'
<1> SUFFICES ASSUME QueueInv, BookInv, Reads PROVE BookInv'
  OBVIOUS
<1>1. TypeOK /\ Sound
  BY DEF QueueInv
<1>2. CASE Poll \/ ReadEvent \/ ReadDone
  BY <1>2, SameBookInv DEF Poll, ReadEvent, ReadDone, sceneVars, runqVars, countVars
<1>3. ASSUME NEW t \in Tasks, NEW ok \in BOOLEAN, ReadSetsceneExit(t, ok) PROVE BookInv'
  <2>1. /\ sq_live' = sq_live \ {t} /\ build_stamps' = Without(build_stamps, {t})
        /\ UNCHANGED <<runq_running, runq_complete, active, failed_tids>>
    BY <1>3 DEF ReadSetsceneExit, Exited, runqVars
  <2>2. DOMAIN build_stamps' = DOMAIN build_stamps \ {t}
    BY <2>1, WithoutDomain
  <2> QED
    BY <2>1, <2>2 DEF BookInv, Begun
<1>4. ASSUME NEW t \in Tasks, ReadFailure(t) PROVE BookInv'
  <2>1. /\ build_stamps' = Without(build_stamps, {t})
        /\ failed_tids' = failed_tids \cup {t}
        /\ UNCHANGED <<sq_live, runq_running, runq_complete>>
    BY <1>4 DEF ReadFailure, Exited, TaskFail, sceneVars, runqVars
  <2>2. DOMAIN build_stamps' = DOMAIN build_stamps \ {t}
    BY <2>1, WithoutDomain
  <2> QED
    BY <2>1, <2>2 DEF BookInv, Begun
<1>5. ASSUME NEW t \in Tasks, ReadSuccess(t) PROVE BookInv'
  <2>1. /\ Exited(t, TRUE) /\ UNCHANGED jobs /\ t \notin sq_live
        /\ build_stamps' = Without(build_stamps, {t})
        /\ runq_complete' = runq_complete \cup {t}
        /\ active' = Decremented(active)
        /\ UNCHANGED <<sq_live, runq_running, failed_tids>>
    BY <1>5 DEF ReadSuccess, Exited, CompleteOutright
  <2>2. t \in Begun
    BY <1>1, <2>1, ExitedOnce DEF Sound, Accounted, Begun
  <2>3. Begun' = Begun \ {t}
    BY <2>1 DEF Begun
  <2>4. /\ IsFiniteSet(Begun) /\ Cardinality(Begun) \in Nat
        /\ Cardinality(Begun \ {t}) = Cardinality(Begun) - 1
        /\ Cardinality(Begun \ {t}) \in Nat
    BY <1>1, <2>2, BegunFinite, FS_RemoveElement, FS_CardinalityType
  <2>5. active \in Int /\ ActiveFloor \in Nat
    BY <1>1, RunAssumption DEF TypeOK, CountType
  <2>6. failed_tids' = {} => Cardinality(Begun') <= active'
    BY <2>1, <2>3, <2>4, <2>5 DEF BookInv, Decremented
  <2>7. DOMAIN build_stamps' = DOMAIN build_stamps \ {t}
    BY <2>1, WithoutDomain
  <2> QED
    BY <2>1, <2>3, <2>6, <2>7 DEF BookInv
<1> QED
  BY <1>2, <1>3, <1>4, <1>5 DEF Reads

LEMMA ScansBook == BookInv /\ (Migrates \/ Scans) => BookInv'
<1> SUFFICES ASSUME BookInv, Migrates \/ Scans PROVE BookInv'
  OBVIOUS
<1>1. /\ UNCHANGED <<runq_running, runq_complete, active, failed_tids>>
      /\ sq_live \subseteq sq_live'
      /\ DOMAIN build_stamps' \subseteq DOMAIN build_stamps \cup sq_live'
  <2>1. CASE Migrates
    <3>1. /\ UNCHANGED <<runq_running, runq_complete, active, failed_tids, sq_live>>
          /\ \/ UNCHANGED build_stamps
             \/ \E S : build_stamps' = Without(build_stamps, S)
      BY <2>1 DEF Migrates, NoMigrations, Migrate, sceneVars, runqVars, countVars
    <3>2. DOMAIN build_stamps' \subseteq DOMAIN build_stamps
      BY <3>1, WithoutDomain
    <3> QED
      BY <3>1, <3>2
  <2>2. CASE ScanEnds \/ \E t \in Setscene : \/ ScanSkipsUnneeded(t) \/ ScanParks(t)
                                             \/ ScanFails(t) \/ ScanSkipsStamped(t)
    BY <2>2 DEF ScanEnds, ScanSkipsUnneeded, ScanParks, ScanFails, ScanSkipsStamped,
       OnlyScene, sceneVars, runqVars, countVars
  <2>3. ASSUME NEW t \in Setscene, ScanLaunches(t)
        PROVE  /\ UNCHANGED <<runq_running, runq_complete, active, failed_tids>>
               /\ sq_live \subseteq sq_live'
               /\ DOMAIN build_stamps' \subseteq DOMAIN build_stamps \cup sq_live'
    <3>1. UNCHANGED <<runq_running, runq_complete, active, failed_tids>>
      BY <2>3 DEF ScanLaunches, runqVars
    <3>2. \/ Send(t, "setscene") /\ sq_live' = sq_live \cup {t}
          \/ UNCHANGED <<sq_live, build_stamps>>
      BY <2>3 DEF ScanLaunches
    <3> QED
      BY <3>1, <3>2, SendBooks
  <2> QED
    BY <2>1, <2>2, <2>3 DEF Scans
<1> QED
  BY <1>1 DEF BookInv, Begun

LEMMA SchedulesBook == QueueInv /\ BookInv /\ Schedules => BookInv'
<1> SUFFICES ASSUME QueueInv, BookInv, Schedules PROVE BookInv'
  OBVIOUS
<1>1. TypeOK /\ Sound
  BY DEF QueueInv
<1>2. CASE \/ UpdateHoldoff \/ SettleScene \/ SchedNothing \/ TailWaits \/ TailEnds
           \/ \E t \in Setscene : TailForces(t)
  <2>1. UNCHANGED <<sq_live, runq_running, runq_complete, countVars>>
    BY <1>2 DEF UpdateHoldoff, SettleScene, SchedNothing, TailWaits, TailEnds,
       TailForces, sceneVars, runqVars
  <2> QED
    BY <2>1, SameBookInv
<1>3. ASSUME NEW t \in Tasks, SchedRefuses(t) PROVE BookInv'
  <2>1. /\ UNCHANGED <<sq_live, runq_running, runq_complete, build_stamps>>
        /\ failed_tids' = failed_tids \cup {t}
    BY <1>3 DEF SchedRefuses, TaskFail, sceneVars, runqVars
  <2> QED
    BY <2>1 DEF BookInv, Begun
<1>4. ASSUME NEW t \in Tasks, SchedSkips(t) \/ SchedNoExec(t) PROVE BookInv'
  <2>1. /\ Scheduled(t) /\ UNCHANGED <<sq_live, countVars>>
        /\ runq_complete' = runq_complete \cup {t}
        /\ runq_running' = runq_running \cup {t}
    BY <1>4 DEF SchedSkips, SchedNoExec, Finishes, CompleteOutright
  <2>2. t \notin runq_running
    BY <1>1, <2>1, ScheduledFree
  <2>3. Begun' = Begun
    BY <2>1, <2>2 DEF Begun
  <2> QED
    BY <2>1, <2>3 DEF BookInv, countVars
<1>5. ASSUME NEW t \in Tasks, SchedLaunches(t) PROVE BookInv'
  <2>1. Scheduled(t) /\ UNCHANGED <<sq_live, runq_complete, failed_tids>>
    BY <1>5 DEF SchedLaunches, sceneVars
  <2>2. t \notin runq_running /\ t \notin runq_complete
    BY <1>1, <2>1, ScheduledFree DEF Sound, CoverSound
  <2>3. CASE /\ Send(t, "run") /\ runq_running' = runq_running \cup {t}
             /\ active' = active + 1
    <3>1. Begun' = Begun \cup {t} /\ t \notin Begun
      BY <2>1, <2>2, <2>3 DEF Begun
    <3>2. /\ Cardinality(Begun \cup {t}) = Cardinality(Begun) + 1
          /\ Cardinality(Begun) \in Nat /\ active \in Int
      BY <1>1, <3>1, BegunFinite, FS_AddElement DEF TypeOK, CountType
    <3>3. failed_tids' = {} => Cardinality(Begun') <= active'
      BY <2>1, <2>3, <3>1, <3>2 DEF BookInv
    <3> QED
      BY <2>1, <2>3, <3>1, <3>3, SendBooks DEF BookInv
  <2>4. CASE UNCHANGED <<runq_running, active, build_stamps>>
    BY <2>1, <2>4 DEF BookInv, Begun
  <2> QED
    BY <1>5, <2>3, <2>4 DEF SchedLaunches
<1> QED
  BY <1>2, <1>3, <1>4, <1>5 DEF Schedules

LEMMA BookStep == QueueInv /\ BookInv /\ [Next]_vars => BookInv'
<1> SUFFICES ASSUME QueueInv, BookInv, [Next]_vars PROVE BookInv'
  OBVIOUS
<1>1. CASE Control
  <2>1. UNCHANGED <<sq_live, runq_running, runq_complete, countVars>>
    BY <1>1 DEF Control, SceneInit, StopBeforeInit, IdleForce, IdleShutdown, Idle,
       AfterExecute, Finish, BuildDone, Return, sceneVars, runqVars
  <2> QED
    BY <2>1, SameBookInv
<1>2. CASE Environment \/ Done \/ UNCHANGED vars
  <2>1. UNCHANGED <<sq_live, runq_running, runq_complete, countVars>>
    BY <1>2, BooksAlone DEF Environment, WorkerSteps, WorkerFinishesNow, WorkerQuits,
       JobEnds, WorkerDies, JobReports, UserStops, OnlyWorker, Done, vars
  <2> QED
    BY <2>1, SameBookInv
<1> QED
  BY <1>1, <1>2, ReadsBook, ScansBook, SchedulesBook DEF Next, Cooker

\* What the search for a task to restore leaves undecided, it can take up again.
SettleInv ==
  /\ ParkSound(scene)
  /\ scene.running \subseteq Resolved(scene) \cup sq_live
  /\ ~scene.dirty /\ Setscene \subseteq Resolved(scene) => holdoff_tasks = {}
  /\ sqdone => Setscene \subseteq Resolved(scene)
  /\ mode.only /\ sqdone => Setscene = {}

LEMMA MovesSettle ==
  ASSUME SettleInv, SceneMoves, sq_live \ sq_live' \subseteq Resolved(scene'),
         UNCHANGED <<sqdone, holdoff_tasks, mode>>
  PROVE  SettleInv'
<1>1. Resolved(scene) \subseteq Resolved(scene')
  BY DEF SceneMoves, Resolved
<1>2. ParkSound(scene') /\ scene'.running \subseteq Resolved(scene') \cup sq_live'
  BY <1>1 DEF SettleInv, SceneMoves
<1>3. ~scene'.dirty => ~scene.dirty /\ Resolved(scene') = Resolved(scene)
  BY DEF SceneMoves, Resolved
<1> QED
  BY <1>1, <1>2, <1>3 DEF SettleInv, ParkSound, Resolved

LEMMA StillSettle ==
  ASSUME SettleInv, UNCHANGED <<scene, sq_live, sqdone, holdoff_tasks, mode>>
  PROVE  SettleInv'
BY DEF SettleInv, ParkSound, Resolved

LEMMA ControlSettleInv == QueueInv /\ SettleInv /\ Control => SettleInv'
<1> SUFFICES ASSUME QueueInv, SettleInv, Control PROVE SettleInv'
  OBVIOUS
<1>1. CASE SceneInit
  <2>1. /\ pc = "init" /\ scene' = InitialScene(files', sstate)
        /\ sqdone' = (Setscene = {}) /\ UNCHANGED <<sq_live, holdoff_tasks, mode>>
    BY <1>1 DEF SceneInit, envVars
  <2>2. /\ scene'.dirty = TRUE /\ ParkSound(scene')
        /\ scene'.running \subseteq Resolved(scene')
    BY <2>1, InitialSceneSound
  <2> QED
    BY <2>1, <2>2 DEF SettleInv, ParkSound, Resolved
<1>2. CASE \/ StopBeforeInit \/ IdleForce \/ IdleShutdown \/ Idle \/ AfterExecute \/ Finish
           \/ BuildDone \/ Return
  <2>1. UNCHANGED <<scene, sq_live, sqdone, holdoff_tasks, mode>>
    BY <1>2 DEF StopBeforeInit, IdleForce, IdleShutdown, Idle, AfterExecute, Finish,
       BuildDone, Return, sceneVars, coverVars, envVars
  <2> QED
    BY <2>1, StillSettle
<1> QED
  BY <1>1, <1>2 DEF Control

LEMMA ReadsSettleInv == SkipBase /\ SettleInv /\ Reads => SettleInv'
<1> SUFFICES ASSUME SkipBase, SettleInv, Reads PROVE SettleInv'
  OBVIOUS
<1>1. TypeOK /\ Sound /\ scene \in SceneType /\ sq_live \subseteq scene.buildable
  BY DEF SkipBase, QueueInv, TypeOK, SceneVarsType, SkipInv
<1>2. CASE Poll \/ ReadEvent \/ ReadDone \/ \E t \in Tasks : ReadFailure(t)
  <2>1. UNCHANGED <<scene, sq_live, sqdone, holdoff_tasks, mode>>
    BY <1>2 DEF Poll, ReadEvent, ReadDone, ReadFailure, sceneVars, coverVars, envVars
  <2> QED
    BY <2>1, StillSettle
<1>3. ASSUME NEW t \in Tasks, ReadSuccess(t) PROVE SettleInv'
  <2>1. /\ CompleteOutright(t, {}, files)
        /\ UNCHANGED <<sq_live, sqdone, holdoff_tasks, mode>>
    BY <1>3 DEF ReadSuccess, coverVars, envVars
  <2>2. SceneMoves
    BY <1>1, <2>1, CompleteOutrightMoves
  <2> QED
    BY <2>1, <2>2, MovesSettle
<1>4. ASSUME NEW t \in Tasks, NEW ok \in BOOLEAN, ReadSetsceneExit(t, ok) PROVE SettleInv'
  <2>1. /\ t \in sq_live /\ sq_live' = sq_live \ {t}
        /\ scene' = IF ok THEN CoverScene(scene, {t})
                    ELSE FailScene(scene, {t}, FALSE, Settled)
        /\ UNCHANGED <<sqdone, holdoff_tasks, mode>>
    BY <1>4 DEF ReadSetsceneExit, coverVars, envVars
  <2>2. SceneMoves
    BY <1>1, <1>4, ReadSetsceneExitMoves
  <2>3. {t} \subseteq Setscene
    BY <1>1, <2>1 DEF TypeOK, SceneVarsType
  <2>4. t \in Resolved(scene')
    <3>1. CASE ok
      <4>1. Settles(scene, scene', {t}, {}, {})
        BY <1>1, <2>1, <2>3, <3>1, CoverSceneSettles
      <4> QED
        BY <4>1 DEF Settles, Resolved
    <3>2. CASE ~ok
      <4> DEFINE K == FailClosure(scene, {t}, Settled)
      <4>1. Spreads(scene, scene', {}, K, K \ {t})
        BY <1>1, <2>1, <3>2, FailSceneSpreads
      <4>2. t \in K
        BY <2>3, FailClosureOf
      <4> HIDE DEF K
      <4> QED
        BY <4>1, <4>2 DEF Spreads, Settles, Resolved
    <3> QED
      BY <3>1, <3>2
  <2> QED
    BY <2>1, <2>2, <2>4, MovesSettle
<1> QED
  BY <1>2, <1>3, <1>4 DEF Reads

LEMMA MigratesSettleInv == SkipBase /\ SettleInv /\ Migrates => SettleInv'
<1> SUFFICES ASSUME SkipBase, SettleInv, Migrates PROVE SettleInv'
  OBVIOUS
<1>1. CASE NoMigrations
  <2>1. UNCHANGED <<scene, sq_live, sqdone, holdoff_tasks, mode>>
    BY <1>1 DEF NoMigrations, sceneVars, coverVars, envVars
  <2> QED
    BY <2>1, StillSettle
<1>2. ASSUME NEW uh \in NewHashes, Migrate(uh) PROVE SettleInv'
  <2> DEFINE R == Ready(uh)
             s == Restart(scene, R, uh, files')
  <2>1. /\ scene' = IF R = {} /\ Changed(uh) = {} THEN scene
                    ELSE [s EXCEPT !.needed = {}, !.parked = {}, !.dirty = TRUE]
        /\ sqdone' = (sqdone /\ R = {})
        /\ UNCHANGED <<sq_live, holdoff_tasks, mode>>
    BY <1>2 DEF Migrate, coverVars, envVars
  <2>2. R \subseteq Setscene
    BY PendingAre DEF Ready, SkipBase
  <2>3. scene \in SceneType /\ runq_complete \in SUBSET Tasks
    BY DEF SkipBase, QueueInv, TypeOK, SceneVarsType, RunqType
  <2>4. s \in SceneType
    BY <2>2, <2>3, RestartType
  <2>5. PICK K \in SUBSET R, N \in SUBSET Setscene : StartsOver(scene, s, R, K, N)
    BY <2>2, <2>3, RestartIsOver
  <2> HIDE DEF R, s
  <2>6. CASE scene' = scene
    BY <2>1, <2>6 DEF SettleInv, ParkSound, Resolved
  <2>7. CASE scene' # scene
    <3>1. scene' = [s EXCEPT !.needed = {}, !.parked = {}, !.dirty = TRUE]
      BY <2>1, <2>7
    <3>2. /\ scene'.covered = s.covered /\ scene'.notcovered = s.notcovered
          /\ scene'.running = s.running /\ scene'.needed = {} /\ scene'.parked = {}
          /\ scene'.dirty = TRUE
      BY <2>4, <3>1 DEF SceneType
    <3>3. /\ Resolved(scene') = (Resolved(scene) \ R) \cup K \cup N
          /\ scene'.running = (scene.running \ R) \cup K \cup N
      BY <2>5, <3>2 DEF StartsOver, RestartedAs, Resolved
    <3>4. ParkSound(scene')
      BY <3>2 DEF ParkSound
    <3> QED
      BY <2>1, <3>2, <3>3, <3>4 DEF SettleInv, ParkSound, Resolved
  <2> QED
    BY <2>6, <2>7
<1> QED
  BY <1>1, <1>2 DEF Migrates

LEMMA ScansSettleInv == SkipBase /\ SettleInv /\ Scans => SettleInv'
<1> SUFFICES ASSUME SkipBase, SettleInv, Scans PROVE SettleInv'
  OBVIOUS
<1>1. SceneMoves
  BY ScansMove DEF SkipBase, QueueInv
<1>2. UNCHANGED <<sqdone, holdoff_tasks, mode>> /\ sq_live \subseteq sq_live'
  BY DEF Scans, ScanEnds, ScanSkipsUnneeded, ScanParks, ScanFails, ScanSkipsStamped,
         ScanLaunches, OnlyScene, sceneVars, coverVars, envVars
<1> QED
  BY <1>1, <1>2, MovesSettle

LEMMA SchedulesSettleInv == SkipBase /\ SettleInv /\ Schedules => SettleInv'
<1> SUFFICES ASSUME SkipBase, SettleInv, Schedules PROVE SettleInv'
  OBVIOUS
<1>1. TypeOK /\ scene \in SceneType
  BY DEF SkipBase, QueueInv, TypeOK, SceneVarsType
<1>2. CASE UpdateHoldoff
  <2> DEFINE open == Setscene \ Resolved(scene)
             below == {d \in UNION {SqCovered(t) : t \in open} : d \notin runq_complete}
  <2>1. /\ holdoff_tasks' = open \cup below /\ scene' = [scene EXCEPT !.dirty = FALSE]
        /\ UNCHANGED <<sq_live, sqdone, mode>>
    BY <1>2 DEF UpdateHoldoff, envVars
  <2>2. open = {} => open \cup below = {}
    OBVIOUS
  <2>3. /\ scene'.covered = scene.covered /\ scene'.notcovered = scene.notcovered
        /\ scene'.running = scene.running /\ scene'.needed = scene.needed
        /\ scene'.parked = scene.parked /\ scene'.buildable = scene.buildable
    BY <1>1, <2>1 DEF SceneType
  <2> HIDE DEF below
  <2> QED
    BY <2>1, <2>2, <2>3 DEF SettleInv, ParkSound, Resolved
<1>3. CASE SettleScene
  <2>1. /\ UNCHANGED <<scene, sq_live, holdoff_tasks, mode>>
        /\ UNCHANGED sqdone \/ (~SceneErrors /\ ~mode.only)
    BY <1>3 DEF SettleScene, coverVars, envVars
  <2>2. ~SceneErrors => Setscene \subseteq Resolved(scene)
    BY DEF SceneErrors
  <2> QED
    BY <2>1, <2>2 DEF SettleInv, ParkSound, Resolved
<1>4. CASE \/ SchedNothing \/ TailWaits \/ TailEnds
           \/ \E t \in Tasks : SchedRefuses(t) \/ SchedLaunches(t)
  <2>1. UNCHANGED <<scene, sq_live, sqdone, holdoff_tasks, mode>>
    BY <1>4 DEF SchedNothing, TailWaits, TailEnds, SchedRefuses, SchedLaunches,
       sceneVars, coverVars, envVars
  <2> QED
    BY <2>1, StillSettle
<1>5. ASSUME NEW t \in Setscene, TailForces(t) PROVE SettleInv'
  <2>1. /\ scene' = Undeferred(scene, t)
        /\ UNCHANGED <<sq_live, sqdone, holdoff_tasks, mode>>
    BY <1>5 DEF TailForces, coverVars, envVars
  <2>2. SceneMoves
    BY <1>1, <2>1, UndeferredBooks, SameMoves
  <2> QED
    BY <2>1, <2>2, MovesSettle
<1>6. ASSUME NEW t \in Tasks, SchedSkips(t) \/ SchedNoExec(t) PROVE SettleInv'
  <2>1. /\ \E extra, disk : CompleteOutright(t, extra, disk)
        /\ UNCHANGED <<sq_live, sqdone, holdoff_tasks, mode>>
    BY <1>6 DEF SchedSkips, SchedNoExec, Finishes, coverVars, envVars, CompleteOutright
  <2>2. SceneMoves
    BY <1>1, <2>1, CompleteOutrightMoves
  <2> QED
    BY <2>1, <2>2, MovesSettle
<1> QED
  BY <1>2, <1>3, <1>4, <1>5, <1>6 DEF Schedules

LEMMA SettleStep == SkipBase /\ SettleInv /\ [Next]_vars => SettleInv'
<1> SUFFICES ASSUME SkipBase, SettleInv, [Next]_vars PROVE SettleInv'
  OBVIOUS
<1>1. CASE Environment \/ Done \/ UNCHANGED vars
  <2>1. UNCHANGED <<scene, sq_live, holdoff_tasks>>
    BY <1>1, BooksAlone
  <2>2. UNCHANGED <<sqdone, mode>>
    BY <1>1 DEF Environment, WorkerSteps, WorkerFinishesNow, WorkerQuits, JobEnds,
       WorkerDies, JobReports, UserStops, OnlyWorker, Done, vars, sceneVars, envVars
  <2> QED
    BY <2>1, <2>2, StillSettle
<1> QED
  BY <1>1, ControlSettleInv, ReadsSettleInv, MigratesSettleInv, ScansSettleInv,
      SchedulesSettleInv
  DEF Next, Cooker, SkipBase

\* Where the loop is, what it has just found: the reports that could be taken up have
\* been, there is no task to restore, none to run.
PhaseInv ==
  /\ pc \in {"sched", "tail"} => ~scene.dirty /\ ~SceneFinished
  /\ pc \in {"setscene", "holdoff", "sched", "tail"}
       => \A e \in updated_taskhash_queue : Busy(e[1])
  /\ pc \in {"holdoff", "sched", "tail"} /\ ~sqdone /\ sq_live = {} /\ active = 0
       => Candidates = {}
  /\ pc = "tail" /\ ~mode.only /\ sq_live = {} /\ active = 0 => Runnable = {}

LEMMA OtherPhase ==
  ASSUME pc' \notin {"setscene", "holdoff", "sched", "tail"}
  PROVE  PhaseInv'
BY DEF PhaseInv

LEMMA RoomWhenIdle ==
  ASSUME sq_live = {}, active = 0
  PROVE  CanStartTask
<1>1. Cardinality(sq_live) = 0
  BY FS_EmptySet
<1> QED
  BY <1>1, RunAssumption DEF CanStartTask

LEMMA ScansPhase == TypeOK /\ PhaseInv /\ (Migrates \/ Scans) => PhaseInv'
<1> SUFFICES ASSUME TypeOK, PhaseInv, Migrates \/ Scans PROVE PhaseInv'
  OBVIOUS
<1>1. CASE Migrates
  <2>1. /\ pc' = "setscene" /\ UNCHANGED <<runq_running, runq_complete>>
        /\ \/ updated_taskhash_queue' = {}
           \/ updated_taskhash_queue' = updated_taskhash_queue \ Reports
    BY <1>1 DEF Migrates, NoMigrations, Migrate, Goto, hashVars, runqVars
  <2>2. \A e \in updated_taskhash_queue' : Busy(e[1])'
    BY <2>1 DEF Reports, Busy
  <2> QED
    BY <2>1, <2>2 DEF PhaseInv
<1>2. CASE Scans
  <2>1. /\ pc = "setscene"
        /\ UNCHANGED <<runq_running, runq_complete, updated_taskhash_queue>>
    BY <1>2 DEF Scans, ScanEnds, ScanSkipsUnneeded, ScanParks, ScanFails,
       ScanSkipsStamped, ScanLaunches, Scanned, OnlyScene, hashVars, runqVars
  <2>2. \A e \in updated_taskhash_queue' : Busy(e[1])'
    BY <2>1 DEF PhaseInv, Busy
  <2>3. CASE ScanEnds
    <3>1. /\ pc' = "holdoff"
          /\ sqdone \/ ~CanStartTask \/ Candidates = {}
          /\ UNCHANGED <<scene, sq_live, sqdone, sq_stamps, active, build_stamps>>
      BY <2>3 DEF ScanEnds, Goto, sceneVars, countVars
    <3>2. Candidates' = Candidates
      BY <2>1, <3>1 DEF Candidates
    <3>3. ~sqdone /\ sq_live = {} /\ active = 0 => Candidates = {}
      BY <3>1, RoomWhenIdle
    <3>4. ~sqdone' /\ sq_live' = {} /\ active' = 0 => Candidates' = {}
      BY <3>1, <3>2, <3>3
    <3> QED
      BY <2>2, <3>1, <3>4 DEF PhaseInv
  <2>4. ASSUME NEW t \in Setscene, ScanLaunches(t) PROVE PhaseInv'
    <3>1. pc' \in {"after", "done"} \/ (pc' = "holdoff" /\ t \in sq_live')
      BY <2>4 DEF ScanLaunches, BrokenPipe
    <3> QED
      BY <2>2, <3>1 DEF PhaseInv
  <2>5. ASSUME NEW t \in Setscene, \/ ScanSkipsUnneeded(t) \/ ScanParks(t)
                                   \/ ScanFails(t) \/ ScanSkipsStamped(t)
        PROVE  PhaseInv'
    <3>1. pc' \in {"setscene", "after"}
      BY <2>5 DEF ScanSkipsUnneeded, ScanParks, ScanFails, ScanSkipsStamped
    <3> QED
      BY <2>2, <3>1 DEF PhaseInv
  <2> QED
    BY <1>2, <2>3, <2>4, <2>5 DEF Scans
<1> QED
  BY <1>1, <1>2

LEMMA SchedulesPhase == TypeOK /\ PhaseInv /\ Schedules => PhaseInv'
<1> SUFFICES ASSUME TypeOK, PhaseInv, Schedules PROVE PhaseInv'
  OBVIOUS
<1>1. scene \in SceneType /\ active \in Int
  BY DEF TypeOK, SceneVarsType, CountType
<1>2. CASE UpdateHoldoff
  <2>1. /\ pc = "holdoff" /\ pc' = "holdoff" /\ scene' = [scene EXCEPT !.dirty = FALSE]
        /\ UNCHANGED <<sq_live, sqdone, sq_stamps, runq_running, runq_complete,
                       updated_taskhash_queue, active, build_stamps>>
    BY <1>2 DEF UpdateHoldoff, controlVars, hashVars, countVars
  <2>2. /\ scene'.buildable = scene.buildable /\ scene'.running = scene.running
        /\ scene'.parked = scene.parked /\ scene'.deferred = scene.deferred
    BY <1>1, <2>1 DEF SceneType
  <2>3. Candidates' = Candidates
    BY <2>1, <2>2 DEF Candidates
  <2>4. \A d : Busy(d)' <=> Busy(d)
    BY <2>1 DEF Busy
  <2> QED
    BY <2>1, <2>3, <2>4 DEF PhaseInv
<1>3. CASE SettleScene
  <2>1. /\ pc = "holdoff" /\ ~scene.dirty
        /\ UNCHANGED <<scene, sq_live, sq_stamps, holdoff_tasks, runq_running,
                       runq_complete, updated_taskhash_queue, active, build_stamps>>
        /\ \/ pc' = "after"
           \/ pc' = "sched" /\ ~SceneFinished /\ sqdone' = sqdone
           \/ pc' = "sched" /\ sqdone' = TRUE
    BY <1>3 DEF SettleScene, coverVars, runqVars, hashVars, countVars
  <2>2. Candidates' = Candidates /\ \A d : Busy(d)' <=> Busy(d)
    BY <2>1 DEF Candidates, Busy
  <2>3. pc' = "sched" => ~SceneFinished'
    BY <2>1 DEF SceneFinished
  <2>4. sqdone' = sqdone \/ sqdone' = TRUE \/ pc' = "after"
    BY <2>1
  <2> QED
    BY <2>1, <2>2, <2>3, <2>4 DEF PhaseInv
<1>4. CASE SchedNothing
  <2>1. /\ pc = "sched" /\ pc' = "tail"
        /\ mode.only \/ ~CanStartTask \/ Runnable = {} \/ active # 0
        /\ UNCHANGED <<scene, sq_live, sqdone, sq_stamps, tasks_covered,
                       tasks_notcovered, holdoff_tasks>>
        /\ UNCHANGED <<runq_buildable, runq_running, runq_complete,
                       updated_taskhash_queue, active, build_stamps, mode>>
    BY <1>4 DEF SchedNothing, Goto, sceneVars, coverVars, runqVars, hashVars, countVars,
       envVars
  <2>2. \A d : Busy(d)' <=> Busy(d)
    BY <2>1 DEF Busy
  <2>3. Candidates' = Candidates /\ (SceneFinished' <=> SceneFinished)
    BY <2>1 DEF Candidates, SceneFinished
  <2>4. \A t : ThreadsExceeded(t)' <=> ThreadsExceeded(t)
    BY <2>1 DEF ThreadsExceeded, Busy
  <2>5. Runnable' = Runnable
    BY <2>1, <2>4 DEF Runnable
  <2> QED
    BY <2>1, <2>2, <2>3, <2>5, RoomWhenIdle DEF PhaseInv
<1>5. ASSUME NEW t \in Tasks, SchedLaunches(t) PROVE PhaseInv'
  <2>1. /\ pc = "sched"
        /\ UNCHANGED <<scene, sq_live, sqdone, holdoff_tasks, runq_complete,
                       updated_taskhash_queue>>
    BY <1>5 DEF SchedLaunches, Scheduled, sceneVars, coverVars, hashVars
  <2>2. \/ pc' \in {"after", "done"}
        \/ /\ pc' = "tail" /\ runq_running' = runq_running \cup {t}
           /\ ~(active' + Cardinality(sq_live) < NumberTasks)
    BY <1>5 DEF SchedLaunches, BrokenPipe
  <2>3. pc' = "tail" => ~(active' = 0 /\ sq_live = {})
    <3>1. sq_live = {} => Cardinality(sq_live) = 0
      BY FS_EmptySet
    <3> QED
      BY <2>2, <3>1, RunAssumption
  <2>4. pc' = "tail" => \A d : Busy(d) => Busy(d)'
    BY <2>1, <2>2 DEF Busy
  <2>5. SceneFinished' <=> SceneFinished
    BY <2>1 DEF SceneFinished
  <2> QED
    BY <2>1, <2>2, <2>3, <2>4, <2>5 DEF PhaseInv
<1>6. CASE \/ TailWaits \/ TailEnds \/ \E t \in Setscene : TailForces(t)
           \/ \E t \in Tasks : SchedRefuses(t) \/ SchedSkips(t) \/ SchedNoExec(t)
  BY <1>6, OtherPhase DEF TailWaits, TailEnds, TailForces, SchedRefuses, SchedSkips,
     SchedNoExec, Finishes, Goto
<1> QED
  BY <1>2, <1>3, <1>4, <1>5, <1>6 DEF Schedules

LEMMA PhaseStep == TypeOK /\ PhaseInv /\ [Next]_vars => PhaseInv'
<1> SUFFICES ASSUME TypeOK, PhaseInv, [Next]_vars PROVE PhaseInv'
  OBVIOUS
<1>1. CASE Control
  BY <1>1, OtherPhase DEF Control, SceneInit, StopBeforeInit, IdleForce, IdleShutdown,
     Idle, AfterExecute, Finish, BuildDone, Return, Goto
<1>2. CASE Reads
  <2>1. CASE ReadDone
    <3>1. pc' = CASE reading = "top" -> "migrate"
                  [] reading = "tail" -> "after"
                  [] reading = "finish" -> "build_done"
                  [] reading = "teardown" -> "return"
      BY <2>1 DEF ReadDone, Goto
    <3>2. reading \in {"top", "tail", "finish", "teardown"}
      BY DEF TypeOK, ControlType
    <3>3. pc' \in {"migrate", "after", "build_done", "return"}
      BY <3>1, <3>2, Zenon
    <3> QED
      BY <3>3, OtherPhase
  <2>2. CASE ~ReadDone
    BY <1>2, <2>2, OtherPhase DEF Reads, Poll, ReadEvent, ReadSuccess, ReadFailure,
       ReadSetsceneExit, Exited, Goto, controlVars
  <2> QED
    BY <2>1, <2>2
<1>3. CASE Environment \/ Done \/ UNCHANGED vars
  <2>1. UNCHANGED <<pc, scene, sq_live, holdoff_tasks, runq_running, runq_complete,
                    updated_taskhash_queue>>
    BY <1>3, BooksAlone
  <2>2. UNCHANGED <<sqdone, sq_stamps, tasks_covered, tasks_notcovered, runq_buildable,
                    active, build_stamps, mode>>
    BY <1>3 DEF Environment, WorkerSteps, WorkerFinishesNow, WorkerQuits, JobEnds,
       WorkerDies, JobReports, UserStops, OnlyWorker, Done, vars, sceneVars, coverVars,
       runqVars, countVars, envVars
  <2>3. \A d : Busy(d)' <=> Busy(d)
    BY <2>1 DEF Busy
  <2>4. Candidates' = Candidates /\ (SceneFinished' <=> SceneFinished)
    BY <2>1, <2>2 DEF Candidates, SceneFinished
  <2>5. \A t : ThreadsExceeded(t)' <=> ThreadsExceeded(t)
    BY <2>1 DEF ThreadsExceeded, Busy
  <2>6. Runnable' = Runnable
    BY <2>1, <2>2, <2>5 DEF Runnable
  <2> QED
    BY <2>1, <2>2, <2>3, <2>4, <2>6 DEF PhaseInv
<1> QED
  BY <1>1, <1>2, <1>3, ScansPhase, SchedulesPhase DEF Next, Cooker

\* Among unsettled setscene tasks there is one whose users are all settled.
LEMMA FirstOpen ==
  ASSUME NEW res, NEW s \in Setscene \ res
  PROVE  \E t \in Setscene \ res : SqRevdeps(t) \subseteq res
<1> DEFINE O == Setscene \ res
           S == {x \in Tasks : x \in O \/ (x \notin Setscene /\ Owners[x] \cap O # {})}
<1>1. S # {} /\ S \subseteq Tasks
  BY GraphAssumption
<1>2. PICK t \in S : RevDeps(t) \cap S = {}
  BY <1>1, AcyclicAssumption
<1>3. \A u \in Owners[t] : u \notin O
  <2> SUFFICES ASSUME NEW u \in Owners[t], u \in O PROVE FALSE
    OBVIOUS
  <2>1. PICK r \in RevDeps(t) : r = u \/ (r \notin Setscene /\ u \in Owners[r])
    BY OwnersAre
  <2>2. r \in Tasks
    BY <2>1, RevDepsAre
  <2> QED
    BY <1>2, <2>1, <2>2
<1>4. t \in O
  BY <1>3
<1>5. Owners[t] \subseteq Setscene
  BY OwnersAre
<1> QED
  BY <1>3, <1>4, <1>5 DEF SqRevdeps

\* When nothing is being restored, waits for another task or can be started, every
\* setscene task is settled: a task left out would be buildable, hence parked, and have
\* a hard dependency left out as well.
LEMMA AllSettled ==
  ASSUME HardAcyclic, TypeOK, SettleInv, BuildableSound(scene), sq_live = {},
         DOMAIN scene.deferred = {}, DOMAIN build_stamps = {}, Candidates = {}
  PROVE  Setscene \subseteq Resolved(scene)
<1> DEFINE B == (Setscene \ Resolved(scene)) \cap scene.buildable
<1>1. SUFFICES ASSUME NEW s \in Setscene \ Resolved(scene) PROVE FALSE
  OBVIOUS
<1>2. B # {}
  BY FirstOpen DEF BuildableSound
<1>3. ValuesOf(build_stamps) = {}
  BY DEF ValuesOf
<1>4. B \subseteq scene.parked
  BY <1>3 DEF Candidates, SettleInv
<1>5. PICK t \in B : HardDeps[t] \cap B = {}
  <2>1. B \in SUBSET Setscene
    OBVIOUS
  <2> QED
    BY <1>2, <2>1 DEF HardAcyclic
<1>6. PICK h \in HardDeps[t] : h \notin Resolved(scene)
  BY <1>4 DEF SettleInv, ParkSound
<1>7. h \in Setscene /\ h \in scene.buildable
  BY <1>4, GraphAssumption DEF SettleInv, ParkSound
<1> QED
  BY <1>5, <1>6, <1>7

\* Nor is a task that is ready left out by the scheduler, when nothing else is under way.
LEMMA ReadyIsRunnable ==
  ASSUME QueueInv, ReadyBuildable, GraphSound(scene), CoverFresh, ~scene.dirty,
         Setscene \subseteq Resolved(scene), holdoff_tasks = {}, DOMAIN build_stamps = {},
         NEW t \in Tasks, t \notin runq_running, Depends[t] \subseteq runq_complete,
         ~ThreadsExceeded(t)
  PROVE  t \in Runnable
<1>1. ValuesOf(build_stamps) = {}
  BY DEF ValuesOf
<1>2. t \in scene.done
  BY SettledAllDone DEF GraphSound
<1>3. t \in tasks_covered \cup tasks_notcovered
  BY <1>2, DoneDecided DEF CoverFresh
<1>4. t \in runq_buildable
  BY <1>3 DEF ReadyBuildable
<1> QED
  BY <1>1, <1>3, <1>4 DEF Runnable

\* What it rests on.
LoopInv == SkipBase /\ ReadyBuildable /\ BookInv /\ SettleInv /\ PhaseInv

LEMMA TailSettled ==
  ASSUME HardAcyclic, LoopInv, pc = "tail", active = 0, sq_live = {},
         DOMAIN scene.deferred = {}, DOMAIN build_stamps = {}
  PROVE  /\ Setscene \subseteq Resolved(scene) /\ holdoff_tasks = {} /\ ~scene.dirty
         /\ GraphSound(scene) /\ CoverFresh
<1>1. GraphSound(scene) /\ CoverFresh /\ TypeOK
  BY DEF LoopInv, SkipBase, SkipInv, QueueInv
<1>2. ~scene.dirty
  BY DEF LoopInv, PhaseInv
<1>3. Setscene \subseteq Resolved(scene)
  <2>1. CASE sqdone
    BY <2>1 DEF LoopInv, SettleInv
  <2>2. CASE ~sqdone
    <3>1. Candidates = {}
      BY <2>2 DEF LoopInv, PhaseInv
    <3> QED
      BY <1>1, <3>1, AllSettled DEF LoopInv, GraphSound
  <2> QED
    BY <2>1, <2>2
<1> QED
  BY <1>1, <1>2, <1>3 DEF LoopInv, SettleInv

\* When the loop stops without a failed task, there is nothing it never dealt with.
LEMMA NotStuck ==
  ASSUME HardAcyclic, OnlyRestores, LoopInv, TailEnds, failed_tids = {}
  PROVE  ~SceneErrors /\ ~NeverRan
<1>1. pc = "tail" /\ active <= 0 /\ sq_live = {} /\ DOMAIN scene.deferred = {}
  BY DEF TailEnds, TailStops
<1>2. QueueInv /\ TypeOK /\ StartedBuildable /\ ReadyBuildable
  BY DEF LoopInv, SkipBase, QueueInv
<1>3. active = 0 /\ Begun = {}
  <2>1. active \in Int /\ IsFiniteSet(Begun) /\ Cardinality(Begun) \in Nat
    BY <1>2, BegunFinite DEF TypeOK, CountType
  <2>2. Cardinality(Begun) <= active
    BY DEF LoopInv, BookInv
  <2>3. Cardinality(Begun) = 0 /\ active = 0
    BY <1>1, <2>1, <2>2
  <2> QED
    BY <2>1, <2>3, FS_EmptySet
<1>4. DOMAIN build_stamps = {}
  BY <1>1, <1>3 DEF LoopInv, BookInv
<1>5. /\ Setscene \subseteq Resolved(scene) /\ holdoff_tasks = {} /\ ~scene.dirty
      /\ GraphSound(scene) /\ CoverFresh
  BY <1>1, <1>3, <1>4, TailSettled
<1>6. \A d : ~Busy(d)
  BY <1>3 DEF Busy, Begun
<1>7. updated_taskhash_queue = {}
  BY <1>1, <1>6 DEF LoopInv, PhaseInv
<1>8. ~SceneErrors
  BY <1>1, <1>5, <1>7, NoSceneErrors DEF LoopInv
<1>9. sqdone
  BY <1>1, <1>5, <1>7 DEF LoopInv, PhaseInv, SceneFinished, TypeOK, SceneVarsType
<1>10. ~mode.only
  BY <1>2, <1>9 DEF LoopInv, SettleInv, OnlyRestores, TypeOK, EnvType
<1>11. Runnable = {}
  BY <1>1, <1>3, <1>10 DEF LoopInv, PhaseInv
<1>12. runq_running \subseteq runq_complete /\ runq_running \subseteq runq_buildable
  BY <1>2, <1>3 DEF Begun, StartedBuildable
<1>13. Tasks \subseteq runq_running
  <2> DEFINE S == Tasks \ runq_running
  <2>1. SUFFICES ASSUME S # {} PROVE FALSE
    OBVIOUS
  <2>2. PICK t \in S : Depends[t] \cap S = {}
    BY <2>1, AcyclicAssumption
  <2>3. Depends[t] \subseteq runq_complete
    BY <1>12, <2>2, GraphAssumption
  <2>4. ~ThreadsExceeded(t)
    <3>1. {r \in Tasks : Busy(r) /\ TaskName[r] = TaskName[t]} = {}
      BY <1>6
    <3>2. Cardinality({}) = 0 /\ NumberThreads[t] \in Nat
      BY FS_EmptySet, RunAssumption
    <3> QED
      BY <3>1, <3>2 DEF ThreadsExceeded
  <2>5. t \in Runnable
    BY <1>2, <1>4, <1>5, <2>2, <2>3, <2>4, ReadyIsRunnable
  <2> QED
    BY <1>11, <2>5
<1> QED
  BY <1>8, <1>12, <1>13 DEF NeverRan

\* The invariant.
ReasonInv ==
  /\ state = "Failed" => failed_tids # {}
  /\ outcome = "failed" => failed_tids # {}

LEMMA SameReason ==
  ASSUME ReasonInv, failed_tids \subseteq failed_tids',
         state' = "Failed" => state = "Failed" \/ failed_tids' # {},
         outcome' = outcome \/ outcome' # "failed"
  PROVE  ReasonInv'
BY DEF ReasonInv

LEMMA ControlReason == ReasonInv /\ Control => ReasonInv'
<1> SUFFICES ASSUME ReasonInv, Control PROVE ReasonInv'
  OBVIOUS
<1>1. UNCHANGED failed_tids
  BY DEF Control, SceneInit, StopBeforeInit, IdleForce, IdleShutdown, Idle,
     AfterExecute, Finish, BuildDone, Return, countVars
<1>2. CASE Return
  <2>1. /\ state' = state
        /\ outcome' = CASE state = "Failed" -> "failed"
                        [] state = "Complete" -> "complete"
                        [] OTHER -> outcome
    BY <1>2 DEF Return
  <2>2. CASE state = "Failed"
    BY <1>1, <2>1, <2>2 DEF ReasonInv
  <2>3. CASE state = "Complete"
    <3>1. outcome' = "complete"
      BY <2>1, <2>3
    <3> QED
      BY <1>1, <2>1, <3>1, SameReason
  <2>4. CASE state # "Failed" /\ state # "Complete"
    <3>1. outcome' = outcome
      BY <2>1, <2>4, Zenon
    <3> QED
      BY <1>1, <2>1, <3>1, SameReason
  <2> QED
    BY <2>2, <2>3, <2>4
<1>3. CASE ~Return
  <2>1. /\ state' = "Failed" => state = "Failed" \/ failed_tids' # {}
        /\ outcome' = outcome \/ outcome' # "failed"
    BY <1>1, <1>3 DEF Control, SceneInit, StopBeforeInit, IdleForce, IdleShutdown, Idle,
       AfterExecute, Finish, BuildDone, FinishNow, Goto
  <2> QED
    BY <1>1, <2>1, SameReason
<1> QED
  BY <1>2, <1>3

LEMMA ReadsReason == ReasonInv /\ (Reads \/ Migrates \/ Scans) => ReasonInv'
<1> SUFFICES ASSUME ReasonInv, Reads \/ Migrates \/ Scans PROVE ReasonInv'
  OBVIOUS
<1>1. CASE Reads
  <2>1. /\ failed_tids \subseteq failed_tids' /\ outcome' = outcome
        /\ state' = "Failed" => state = "Failed" \/ failed_tids' # {}
    BY <1>1 DEF Reads, Poll, ReadEvent, ReadDone, ReadSuccess, ReadFailure,
       ReadSetsceneExit, TaskFail, FinishNow, Goto, controlVars, countVars
  <2> QED
    BY <2>1, SameReason
<1>2. CASE Migrates \/ Scans
  <2>1. /\ failed_tids' = failed_tids /\ (state' = state \/ state' = "Complete")
        /\ outcome' = outcome \/ outcome' # "failed"
    BY <1>2 DEF Migrates, NoMigrations, Migrate, Scans, ScanEnds, ScanSkipsUnneeded,
       ScanParks, ScanFails, ScanSkipsStamped, ScanLaunches, OnlyScene, BrokenPipe, Goto,
       countVars
  <2> QED
    BY <2>1, SameReason
<1> QED
  BY <1>1, <1>2

LEMMA SchedulesReason ==
  ASSUME HardAcyclic, OnlyRestores
  PROVE  LoopInv /\ ReasonInv /\ Schedules => ReasonInv'
<1> SUFFICES ASSUME LoopInv, ReasonInv, Schedules PROVE ReasonInv'
  OBVIOUS
<1>1. CASE SettleScene
  <2>1. pc = "holdoff" /\ ~scene.dirty
    BY <1>1 DEF SettleScene
  <2>2. SceneFinished => ~SceneErrors
    BY <2>1, NoSceneErrors DEF SceneFinished, LoopInv
  <2>3. /\ UNCHANGED <<failed_tids, outcome>>
        /\ state' = state \/ state' = "Complete"
    BY <1>1, <2>2 DEF SettleScene, countVars
  <2> QED
    BY <2>3, SameReason
<1>2. CASE TailEnds
  <2>1. /\ UNCHANGED <<failed_tids, outcome>>
        /\ state' = IF failed_tids # {} \/ SceneErrors \/ NeverRan
                    THEN "Failed" ELSE "Complete"
    BY <1>2 DEF TailEnds, Goto, countVars
  <2>2. failed_tids = {} => ~SceneErrors /\ ~NeverRan
    BY <1>2, NotStuck
  <2> QED
    BY <2>1, <2>2, SameReason
<1>3. CASE \/ UpdateHoldoff \/ SchedNothing \/ TailWaits
           \/ \E t \in Setscene : TailForces(t)
           \/ \E t \in Tasks : \/ SchedRefuses(t) \/ SchedSkips(t) \/ SchedNoExec(t)
                               \/ SchedLaunches(t)
  <2>1. /\ failed_tids \subseteq failed_tids'
        /\ outcome' = outcome \/ outcome' # "failed"
        /\ state' = "Failed" => state = "Failed" \/ failed_tids' # {}
    BY <1>3 DEF UpdateHoldoff, SchedNothing, TailWaits, TailForces, SchedRefuses,
       SchedSkips, SchedNoExec, SchedLaunches, Finishes, TaskFail, BrokenPipe, Goto,
       controlVars, countVars
  <2> QED
    BY <2>1, SameReason
<1> QED
  BY <1>1, <1>2, <1>3 DEF Schedules

LEMMA ReasonStep ==
  ASSUME HardAcyclic, OnlyRestores
  PROVE  LoopInv /\ ReasonInv /\ [Next]_vars => ReasonInv'
<1> SUFFICES ASSUME LoopInv, ReasonInv, [Next]_vars PROVE ReasonInv'
  OBVIOUS
<1>1. CASE Environment \/ Done \/ UNCHANGED vars
  <2>1. UNCHANGED <<state, outcome, failed_tids>>
    BY <1>1 DEF Environment, WorkerSteps, WorkerFinishesNow, WorkerQuits, JobEnds,
       WorkerDies, JobReports, UserStops, OnlyWorker, Done, vars, controlVars, countVars
  <2> QED
    BY <2>1, SameReason
<1> QED
  BY <1>1, ControlReason, ReadsReason, SchedulesReason DEF Next, Cooker

LEMMA LoopInvariant == ASSUME SteadyHardDeps PROVE Spec => []LoopInv
<1>1. Init => BookInv /\ SettleInv /\ PhaseInv
  <2> SUFFICES ASSUME Init PROVE BookInv /\ SettleInv /\ PhaseInv
    OBVIOUS
  <2>1. /\ pc = "init" /\ sqdone = FALSE /\ sq_live = {} /\ active = 0
        /\ runq_running = {} /\ build_stamps = <<>>
        /\ scene.running = {} /\ scene.needed = {} /\ scene.parked = {}
        /\ scene.dirty = TRUE
    BY DEF Init
  <2>2. Begun = {} /\ Cardinality({}) = 0 /\ DOMAIN build_stamps = {}
    BY <2>1, FS_EmptySet DEF Begun
  <2> QED
    BY <2>1, <2>2 DEF BookInv, SettleInv, PhaseInv, ParkSound
<1>2. SkipBase /\ BookInv /\ SettleInv /\ PhaseInv /\ [Next]_vars
        => (BookInv /\ SettleInv /\ PhaseInv)'
  BY BookStep, SettleStep, PhaseStep DEF SkipBase, QueueInv
<1> QED
  BY <1>1, <1>2, SkipInvariant, ReadyInvariant, PTL DEF Spec, LoopInv

\* The queue never gets stuck: a build fails only because some task failed.
THEOREM FailsForAReason ==
  ASSUME SteadyHardDeps, HardAcyclic, OnlyRestores
  PROVE  Spec => []FailedForAReason
<1>1. Init => ReasonInv
  BY DEF Init, ReasonInv, None
<1>2. LoopInv /\ ReasonInv /\ [Next]_vars => ReasonInv'
  BY ReasonStep
<1>3. ReasonInv => FailedForAReason
  BY DEF ReasonInv, FailedForAReason
<1> QED
  BY <1>1, <1>2, <1>3, LoopInvariant, PTL DEF Spec

-----------------------------------------------------------------------------
(* bitbake -k builds all it can.                                           *)

\* As long as the worker is heard, the cooker knows where every task is that was started:
\* it is complete, has failed, or is still to be heard of; so is every stamp promised.
GoneInv ==
  /\ failed_tids \subseteq runq_running
  /\ Heard => /\ DOMAIN build_stamps \subseteq sq_live \cup Outstanding
              /\ Begun \subseteq failed_tids \cup Outstanding

LEMMA SameGone ==
  ASSUME GoneInv, UNCHANGED <<sq_live, runq_running, runq_complete, countVars>>,
         Heard' => Heard, Heard' => Outstanding' = Outstanding
  PROVE  GoneInv'
BY DEF GoneInv, Begun, countVars

LEMMA StillGone ==
  ASSUME GoneInv, UNCHANGED <<sq_live, runq_running, runq_complete, countVars>>,
         UNCHANGED <<jobs, pipe, envVars>>
  PROVE  GoneInv'
BY SameGone, SameOutstanding, SameHeard

\* The exit code of an ordinary task is read: it is complete now, or has failed.
LEMMA ExitedGone ==
  ASSUME QueueInv, GoneInv, NEW t \in Tasks, NEW ok \in BOOLEAN, Exited(t, ok),
         t \notin sq_live, UNCHANGED <<jobs, sq_live, runq_running, envVars>>,
         runq_complete \subseteq runq_complete', failed_tids \subseteq failed_tids',
         failed_tids' \subseteq failed_tids \cup {t},
         t \in runq_complete' \cup failed_tids'
  PROVE  GoneInv'
<1>1. /\ t \in ExitTids /\ ExitTids' = ExitTids \ {t} /\ Executing' = Executing
  BY ExitedOnce DEF QueueInv, Sound
<1>2. t \in runq_running
  BY <1>1 DEF QueueInv, Sound, Accounted
<1>3. Outstanding \subseteq Outstanding' \cup {t}
  BY <1>1, UnreadExits DEF Outstanding
<1>4. DOMAIN build_stamps' = DOMAIN build_stamps \ {t}
  BY WithoutDomain DEF Exited
<1>5. Begun' \subseteq Begun /\ (t \in Begun' => t \in failed_tids')
  BY DEF Begun
<1>6. Heard' <=> Heard
  BY SameHeard
<1> QED
  BY <1>2, <1>3, <1>4, <1>5, <1>6 DEF GoneInv

LEMMA ReadsGone == QueueInv /\ GoneInv /\ Reads => GoneInv'
<1> SUFFICES ASSUME QueueInv, GoneInv, Reads PROVE GoneInv'
  OBVIOUS
<1>1. CASE Poll \/ ReadDone
  BY <1>1, StillGone DEF Poll, ReadDone, sceneVars, runqVars
<1>2. CASE ReadEvent
  <2>1. /\ UNCHANGED <<sq_live, runq_running, runq_complete, countVars, jobs, envVars>>
        /\ pipe # <<>> /\ Head(pipe).type = "event" /\ pipe' = Tail(pipe)
    BY <1>2 DEF ReadEvent, sceneVars, runqVars
  <2>2. pipe \in Seq(Messages) /\ Once(pipe)
    BY DEF QueueInv, TypeOK, WorkerType, Sound, OneToken
  <2>3. ExitsOf(pipe') = ExitsOf(pipe)
    BY <2>1, <2>2, TailExits
  <2>4. Outstanding' = Outstanding
    BY <2>1, <2>3, UnreadExits DEF Outstanding, Executing, ExitTids
  <2> QED
    BY <2>1, <2>4, SameGone, SameHeard
<1>3. ASSUME NEW t \in Tasks, ReadSuccess(t) PROVE GoneInv'
  BY <1>3, ExitedGone DEF ReadSuccess, CompleteOutright
<1>4. ASSUME NEW t \in Tasks, ReadFailure(t) PROVE GoneInv'
  BY <1>4, ExitedGone DEF ReadFailure, TaskFail, sceneVars, runqVars
<1>5. ASSUME NEW t \in Tasks, NEW ok \in BOOLEAN, ReadSetsceneExit(t, ok)
      PROVE  GoneInv'
  <2>1. /\ Exited(t, ok) /\ t \in sq_live /\ sq_live' = sq_live \ {t}
        /\ build_stamps' = Without(build_stamps, {t})
        /\ UNCHANGED <<jobs, envVars, runq_running, runq_complete, failed_tids>>
    BY <1>5 DEF ReadSetsceneExit, Exited, runqVars
  <2>2. ExitTids' = ExitTids \ {t} /\ Executing' = Executing
    BY <2>1, ExitedOnce DEF QueueInv, Sound
  <2>3. Outstanding' = Outstanding
    BY <2>1, <2>2, UnreadExits DEF Outstanding
  <2>4. DOMAIN build_stamps' = DOMAIN build_stamps \ {t}
    BY <2>1, WithoutDomain
  <2>5. Heard' <=> Heard
    BY <2>1, SameHeard
  <2> QED
    BY <2>1, <2>3, <2>4, <2>5 DEF GoneInv, Begun
<1> QED
  BY <1>1, <1>2, <1>3, <1>4, <1>5 DEF Reads

LEMMA MigratesGone == GoneInv /\ Migrates => GoneInv'
<1> SUFFICES ASSUME GoneInv, Migrates PROVE GoneInv'
  OBVIOUS
<1>1. /\ UNCHANGED <<jobs, pipe, sq_live, runq_running, runq_complete, failed_tids>>
      /\ UNCHANGED envVars
      /\ UNCHANGED build_stamps \/ \E S : build_stamps' = Without(build_stamps, S)
  BY DEF Migrates, NoMigrations, Migrate, sceneVars, runqVars, workerVars, countVars
<1>2. DOMAIN build_stamps' \subseteq DOMAIN build_stamps
  BY <1>1, WithoutDomain
<1>3. Outstanding' = Outstanding /\ (Heard' <=> Heard)
  BY <1>1, SameOutstanding, SameHeard
<1> QED
  BY <1>1, <1>2, <1>3 DEF GoneInv, Begun

LEMMA ScansGone == QueueInv /\ Counts /\ GoneInv /\ Scans => GoneInv'
<1> SUFFICES ASSUME QueueInv, Counts, GoneInv, Scans PROVE GoneInv'
  OBVIOUS
<1>1. CASE ScanEnds \/ \E t \in Setscene : \/ ScanSkipsUnneeded(t) \/ ScanParks(t)
                                            \/ ScanFails(t) \/ ScanSkipsStamped(t)
  <2>1. /\ UNCHANGED <<sq_live, runq_running, runq_complete, countVars>>
        /\ UNCHANGED <<jobs, pipe, envVars>>
    BY <1>1 DEF ScanEnds, ScanSkipsUnneeded, ScanParks, ScanFails, ScanSkipsStamped,
       OnlyScene, sceneVars, runqVars, workerVars, countVars
  <2> QED
    BY <2>1, StillGone
<1>2. ASSUME NEW t \in Setscene, ScanLaunches(t) PROVE GoneInv'
  <2>1. UNCHANGED <<envVars, failed_tids, runq_running, runq_complete>> /\ t \in Candidates
    BY <1>2 DEF ScanLaunches, Scanned, runqVars
  <2>2. CASE Send(t, "setscene") /\ sq_live' = sq_live \cup {t} /\ UNCHANGED pipe
    <3>1. t \notin sq_live /\ t \notin runq_running
      BY <2>1 DEF Candidates, QueueInv, Sound, LiveSound, CoverSound
    <3>2. ExitTids' = ExitTids /\ Executing' = Executing
      BY <2>2, <3>1, SendToken DEF Kinds, QueueInv, Sound
    <3>3. t \notin ExitTids
      BY <3>1 DEF QueueInv, Sound, Accounted
    <3>4. Outstanding' = Outstanding
      BY <2>2, <3>2, <3>3, UnreadExits DEF Outstanding
    <3>5. DOMAIN build_stamps' = DOMAIN build_stamps \cup {t}
      BY <2>2, SendBooks
    <3>6. Heard' <=> Heard
      BY <2>1, SameHeard
    <3> QED
      BY <2>1, <2>2, <3>4, <3>5, <3>6 DEF GoneInv, Begun
  <2>3. CASE BrokenPipe
    <3>1. ~Heard' /\ UNCHANGED <<failed_tids, runq_running>>
      BY <2>1, <2>3, NotDead, SameHeard DEF BrokenPipe
    <3> QED
      BY <3>1 DEF GoneInv
  <2> QED
    BY <1>2, <2>2, <2>3 DEF ScanLaunches
<1> QED
  BY <1>1, <1>2 DEF Scans

LEMMA SchedulesGone ==
  ASSUME NoEnforce
  PROVE  QueueInv /\ Counts /\ GoneInv /\ Schedules => GoneInv'
<1> SUFFICES ASSUME QueueInv, Counts, GoneInv, Schedules PROVE GoneInv'
  OBVIOUS
<1>1. CASE \/ UpdateHoldoff \/ SettleScene \/ SchedNothing \/ TailWaits \/ TailEnds
           \/ \E t \in Setscene : TailForces(t)
  <2>1. /\ UNCHANGED <<sq_live, runq_running, runq_complete, countVars>>
        /\ UNCHANGED <<jobs, pipe, envVars>>
    BY <1>1 DEF UpdateHoldoff, SettleScene, SchedNothing, TailWaits, TailEnds,
       TailForces, sceneVars, runqVars, workerVars
  <2> QED
    BY <2>1, StillGone
<1>2. ASSUME NEW t \in Tasks, SchedRefuses(t) PROVE FALSE
  <2>1. mode.enforce /\ mode \in Modes
    BY <1>2 DEF SchedRefuses, Unexpected, QueueInv, TypeOK, EnvType
  <2> QED
    BY <2>1 DEF NoEnforce
<1>3. ASSUME NEW t \in Tasks, SchedSkips(t) \/ SchedNoExec(t) PROVE GoneInv'
  <2>1. /\ UNCHANGED <<sq_live, countVars, jobs, pipe, envVars>>
        /\ runq_complete' = runq_complete \cup {t}
        /\ runq_running' = runq_running \cup {t}
    BY <1>3 DEF SchedSkips, SchedNoExec, Finishes, CompleteOutright, workerVars
  <2>2. Begun' \subseteq Begun
    BY <2>1 DEF Begun
  <2>3. Outstanding' = Outstanding /\ (Heard' <=> Heard)
    BY <2>1, SameOutstanding, SameHeard
  <2> QED
    BY <2>1, <2>2, <2>3 DEF GoneInv, countVars
<1>4. ASSUME NEW t \in Tasks, SchedLaunches(t) PROVE GoneInv'
  <2>1. UNCHANGED <<sq_live, runq_complete, failed_tids, envVars>> /\ Scheduled(t)
    BY <1>4 DEF SchedLaunches, sceneVars
  <2>2. CASE /\ Send(t, "run") /\ runq_running' = runq_running \cup {t}
             /\ UNCHANGED pipe
    <3>1. t \notin sq_live \cup runq_running
      BY <2>1, ScheduledFree DEF QueueInv
    <3>2. ExitTids' = ExitTids /\ Executing' = Executing \cup {t}
      BY <2>2, <3>1, SendToken DEF Kinds, QueueInv, Sound
    <3>3. Outstanding' = Outstanding \cup {t}
      BY <2>1, <3>2, UnreadExits DEF Outstanding
    <3>4. DOMAIN build_stamps' = DOMAIN build_stamps \cup {t}
      BY <2>2, SendBooks
    <3>5. Heard' <=> Heard
      BY <2>1, SameHeard
    <3>6. Begun' \subseteq Begun \cup {t}
      BY <2>1, <2>2 DEF Begun
    <3> QED
      BY <2>1, <2>2, <3>3, <3>4, <3>5, <3>6 DEF GoneInv
  <2>3. CASE BrokenPipe /\ UNCHANGED runq_running
    <3>1. ~Heard'
      BY <2>1, <2>3, NotDead, SameHeard DEF BrokenPipe
    <3> QED
      BY <2>1, <2>3, <3>1 DEF GoneInv
  <2> QED
    BY <1>4, <2>2, <2>3 DEF SchedLaunches
<1> QED
  BY <1>1, <1>2, <1>3, <1>4 DEF Schedules

LEMMA ControlGone == GoneInv /\ Control => GoneInv'
<1> SUFFICES ASSUME GoneInv, Control PROVE GoneInv'
  OBVIOUS
<1>1. /\ UNCHANGED <<sq_live, runq_running, runq_complete, countVars>>
      /\ UNCHANGED <<jobs, pipe, envVars>>
  BY DEF Control, SceneInit, StopBeforeInit, IdleForce, IdleShutdown, Idle,
     AfterExecute, Finish, BuildDone, Return, sceneVars, runqVars, workerVars
<1> QED
  BY <1>1, StillGone

\* What the worker does while it is heard: nothing gets lost.
LEMMA OthersKept ==
  ASSUME QuietBase, Environment \/ Done \/ UNCHANGED vars, Heard'
  PROVE  Heard /\ Outstanding' = Outstanding
<1>1. QueueInv /\ TypeOK /\ Sound /\ Counts /\ QuietInv
  BY DEF QuietBase, SkipBase, QueueInv
<1>2. UNCHANGED sq_live
  BY BooksAlone
<1>3. CASE WorkerFinishesNow
  BY <1>1, <1>3 DEF WorkerFinishesNow, Counts, Heard, envVars
<1>4. CASE WorkerQuits \/ Done \/ UNCHANGED vars
  <2>1. UNCHANGED <<jobs, pipe, envVars>>
    BY <1>4 DEF WorkerQuits, Done, vars, workerVars
  <2> QED
    BY <1>2, <2>1, SameOutstanding, SameHeard
<1>5. CASE WorkerDies
  <2>1. budget'.crash > 0
    BY <1>1, <1>5 DEF WorkerDies, TypeOK, EnvType
  <2> QED
    BY <2>1 DEF Heard
<1>6. ASSUME NEW j \in jobs, NEW h \in Hashes, JobReports(j, h)
      PROVE  Heard /\ Outstanding' = Outstanding
  <2>1. UNCHANGED request /\ budget'.crash = budget.crash
    BY <1>1, <1>6 DEF JobReports, TypeOK, EnvType
  <2>2. Executing' = Executing /\ ExitTids' = ExitTids
    BY <1>1, <1>6, JobReportsTokens DEF Sound
  <2> QED
    BY <1>2, <2>1, <2>2, UnreadExits DEF Outstanding, Heard
<1>7. ASSUME NEW r \in Requests, UserStops(r) PROVE Heard /\ Outstanding' = Outstanding
  <2>1. /\ UNCHANGED <<jobs, pipe, budget>>
        /\ request = "none" \/ request = "shutdown"
    BY <1>7 DEF UserStops, workerVars, None
  <2> QED
    BY <1>2, <2>1, SameOutstanding DEF Heard
<1>8. ASSUME NEW j \in jobs, NEW ok \in BOOLEAN, JobEnds(j, ok)
      PROVE  Heard /\ Outstanding' = Outstanding
  <2>1. UNCHANGED <<request, worker>> /\ budget'.crash = budget.crash
    BY <1>1, <1>8 DEF JobEnds, TypeOK, EnvType
  <2>2. Heard
    BY <2>1 DEF Heard
  <2>3. pc # "init" /\ ~Leaving
    BY <1>1, <2>2 DEF QuietInv, QuietEnd, Silent
  <2>4. worker = "up"
    BY <1>1, <2>2, <2>3 DEF QuietInv, QuietEnd
  <2>5. Outstanding' = Outstanding
    BY <1>1, <1>8, <2>4, JobEndsOutstanding
  <2> QED
    BY <2>2, <2>5
<1> QED
  BY <1>3, <1>4, <1>5, <1>6, <1>7, <1>8 DEF Environment, WorkerSteps

LEMMA OthersGone ==
  QuietBase /\ GoneInv /\ (Environment \/ Done \/ UNCHANGED vars) => GoneInv'
<1> SUFFICES ASSUME QuietBase, GoneInv, Environment \/ Done \/ UNCHANGED vars
             PROVE  GoneInv'
  OBVIOUS
<1>1. UNCHANGED <<sq_live, runq_running, runq_complete>>
  BY BooksAlone
<1>2. UNCHANGED countVars
  BY DEF Environment, WorkerSteps, WorkerFinishesNow, WorkerQuits, JobEnds, WorkerDies,
     JobReports, UserStops, OnlyWorker, Done, vars
<1> QED
  BY <1>1, <1>2, OthersKept, SameGone

LEMMA GoneStep ==
  ASSUME NoEnforce
  PROVE  QuietBase /\ GoneInv /\ [Next]_vars => GoneInv'
BY ControlGone, ReadsGone, MigratesGone, ScansGone, SchedulesGone, OthersGone
DEF Next, Cooker, QuietBase, SkipBase

\* What is not built could not be built.
AllItCan ==
  \A t \in Tasks \ (runq_complete \cup failed_tids) :
    Depends[t] \cap (failed_tids \cup (Tasks \ runq_complete)) # {}

\* A calm build that goes on after an error is not stopped by one, and fails only when
\* it has done all it can.
Keeps ==
  /\ state # "CleanUp" /\ pc # "finish"
  /\ state = "Failed" => AllItCan
KeepInv ==
  /\ outcome = "failed" => state = "Failed"
  /\ Calm /\ ~mode.halt => Keeps

\* What it rests on.
KeepBase == QuietBase /\ EndInv /\ LoopInv /\ GoneInv

LEMMA CalmHeard == Calm => Heard
BY DEF Calm, Undisturbed, Heard, None

\* When the loop stops with a failure, no task is left that could be started.
LEMMA EndsHavingDoneAll ==
  ASSUME HardAcyclic, OnlyRestores, NoThreadLimits, KeepBase, Heard, TailEnds,
         state' = "Failed"
  PROVE  AllItCan
<1>1. /\ pc = "tail" /\ active <= 0 /\ sq_live = {} /\ DOMAIN scene.deferred = {}
      /\ failed_tids # {} \/ SceneErrors \/ NeverRan
  BY DEF TailEnds, TailStops
<1>2. QueueInv /\ Counts /\ QuietInv /\ ReadyBuildable /\ LoopInv
  BY DEF KeepBase, QuietBase, SkipBase
<1>3. active = 0 /\ Outstanding = {}
  <2>1. /\ IsFiniteSet(Outstanding) /\ Cardinality(Outstanding) \in Nat
        /\ Cardinality(Outstanding) <= active /\ active \in Int
    BY <1>2, FS_CardinalityType DEF Counts, QueueInv, TypeOK, CountType
  <2>2. Cardinality(Outstanding) = 0 /\ active = 0
    BY <1>1, <2>1
  <2> QED
    BY <2>1, <2>2, FS_EmptySet
<1>4. DOMAIN build_stamps = {} /\ Begun \subseteq failed_tids
  BY <1>1, <1>3 DEF KeepBase, GoneInv
<1>5. failed_tids # {}
  BY <1>1, <1>2, NotStuck
<1>6. ~mode.only
  BY <1>2, <1>5 DEF QuietInv, KeepBase, GoneInv
<1>7. Runnable = {}
  BY <1>1, <1>2, <1>3, <1>6 DEF LoopInv, PhaseInv
<1>8. /\ Setscene \subseteq Resolved(scene) /\ holdoff_tasks = {} /\ ~scene.dirty
      /\ GraphSound(scene) /\ CoverFresh
  BY <1>1, <1>2, <1>3, <1>4, TailSettled
<1>9. SUFFICES ASSUME NEW t \in Tasks \ (runq_complete \cup failed_tids),
                      Depends[t] \cap (failed_tids \cup (Tasks \ runq_complete)) = {}
               PROVE  FALSE
  BY DEF AllItCan
<1>10. Depends[t] \subseteq runq_complete
  BY <1>9, GraphAssumption
<1>11. t \notin runq_running
  BY <1>4, <1>9 DEF Begun
<1>12. ~ThreadsExceeded(t)
  BY <1>9 DEF NoThreadLimits, ThreadsExceeded
<1> QED
  BY <1>2, <1>4, <1>7, <1>8, <1>9, <1>10, <1>11, <1>12, ReadyIsRunnable

\* Nothing changes once the verdict is given.
LEMMA SameKeeps ==
  ASSUME KeepInv, UNCHANGED <<pc, state, outcome, failed_tids, runq_complete, mode>>,
         Calm' => Calm
  PROVE  KeepInv'
BY DEF KeepInv, Keeps, AllItCan

LEMMA OnlyVerdict ==
  ASSUME KeepInv, outcome' # "failed", UNCHANGED envVars,
         Calm /\ ~mode.halt => pc' # "finish" /\ state' \in {"Running", "Complete"}
  PROVE  KeepInv'
<1>1. (Calm' <=> Calm) /\ UNCHANGED mode
  BY SameCalm
<1> QED
  BY <1>1 DEF KeepInv, Keeps

LEMMA VerdictStays ==
  ASSUME KeepInv, UNCHANGED <<state, failed_tids, runq_complete, envVars>>,
         Calm /\ ~mode.halt => pc' # "finish", outcome' = "failed" => state = "Failed"
  PROVE  KeepInv'
<1>1. (Calm' <=> Calm) /\ UNCHANGED mode
  BY SameCalm
<1> QED
  BY <1>1 DEF KeepInv, Keeps, AllItCan

\* As long as no verdict is given, such a build is running.
LEMMA StillRunning ==
  ASSUME KeepBase, KeepInv, Calm, ~mode.halt, pc # "init", ~Over \/ ~Silent
  PROVE  state = "Running"
<1>1. state \in {"SceneInit", "Running", "CleanUp", "Failed", "Complete"}
  BY DEF KeepBase, QuietBase, SkipBase, QueueInv, TypeOK, ControlType
<1>2. state # "SceneInit" /\ state # "CleanUp"
  BY DEF KeepBase, EndInv, KeepInv, Keeps
<1>3. ~Final
  BY CalmHeard DEF KeepBase, QuietBase, QuietInv, QuietEnd
<1> QED
  BY <1>1, <1>2, <1>3 DEF Final

LEMMA ControlKeep == KeepBase /\ KeepInv /\ Control => KeepInv'
<1> SUFFICES ASSUME KeepBase, KeepInv, Control PROVE KeepInv'
  OBVIOUS
<1>1. UNCHANGED envVars
  BY DEF Control, SceneInit, StopBeforeInit, IdleForce, IdleShutdown, Idle,
     AfterExecute, Finish, BuildDone, Return
<1>2. pc # "done" => outcome # "failed"
  BY DEF KeepBase, EndInv, None
<1>3. CASE \/ SceneInit \/ StopBeforeInit \/ IdleForce \/ IdleShutdown \/ Finish
  <2>1. /\ outcome' # "failed"
        /\ Calm /\ ~mode.halt => pc' # "finish" /\ state' \in {"Running", "Complete"}
    <3>1. CASE SceneInit
      BY <1>2, <3>1 DEF SceneInit
    <3>2. CASE StopBeforeInit
      BY <3>2 DEF StopBeforeInit
    <3>3. CASE IdleForce \/ IdleShutdown
      BY <1>2, <3>3 DEF IdleForce, IdleShutdown, Goto, Calm, Undisturbed, None
    <3>4. CASE Finish
      BY <1>2, <3>4 DEF Finish, KeepInv, Keeps
    <3> QED
      BY <1>3, <3>1, <3>2, <3>3, <3>4
  <2> QED
    BY <1>1, <2>1, OnlyVerdict
<1>4. CASE Idle
  <2>1. /\ pc = "idle" /\ UNCHANGED <<state, outcome>>
        /\ pc' = IF state = "Running" THEN "poll" ELSE "finish"
    BY <1>4 DEF Idle
  <2>2. Calm /\ ~mode.halt => state = "Running"
    BY <2>1, StillRunning DEF Over
  <2> QED
    BY <1>1, <1>2, <2>1, <2>2, OnlyVerdict
<1>5. CASE AfterExecute \/ BuildDone \/ Return
  <2>1. UNCHANGED <<state, failed_tids, runq_complete>>
    BY <1>5 DEF AfterExecute, BuildDone, Return, countVars, runqVars
  <2>2. Calm /\ ~mode.halt => state # "CleanUp"
    BY DEF KeepInv, Keeps
  <2>3. Calm /\ ~mode.halt => pc' # "finish"
    BY <1>5, <2>2 DEF AfterExecute, BuildDone, Return, Goto
  <2>4. outcome' = "failed" => state = "Failed"
    <3>1. CASE AfterExecute \/ BuildDone
      BY <1>2, <3>1 DEF AfterExecute, BuildDone, Goto
    <3>2. CASE Return
      <4>1. /\ pc = "return"
            /\ outcome' = CASE state = "Failed" -> "failed"
                            [] state = "Complete" -> "complete"
                            [] OTHER -> outcome
        BY <3>2 DEF Return
      <4>2. CASE state = "Complete"
        <5>1. outcome' = "complete"
          BY <4>1, <4>2
        <5> QED
          BY <5>1
      <4>3. CASE state # "Complete" /\ state # "Failed"
        <5>1. outcome' = outcome
          BY <4>1, <4>3, Zenon
        <5> QED
          BY <1>2, <4>1, <5>1
      <4> QED
        BY <4>2, <4>3
    <3> QED
      BY <1>5, <3>1, <3>2
  <2> QED
    BY <1>1, <2>1, <2>3, <2>4, VerdictStays
<1> QED
  BY <1>3, <1>4, <1>5 DEF Control

LEMMA ReadsKeep == KeepBase /\ KeepInv /\ Reads => KeepInv'
<1> SUFFICES ASSUME KeepBase, KeepInv, Reads PROVE KeepInv'
  OBVIOUS
<1>1. UNCHANGED <<envVars, outcome>> /\ pc \in {"poll", "read"}
  BY DEF Reads, Poll, ReadEvent, ReadDone, ReadSuccess, ReadFailure, ReadSetsceneExit,
     Exited, Goto, controlVars
<1>2. outcome' # "failed"
  BY <1>1 DEF KeepBase, EndInv, None
<1>3. CASE Poll
  <2>1. /\ pc' = "read" /\ UNCHANGED <<failed_tids, runq_complete>>
        /\ worker # "dead" => state' = state
    BY <1>3 DEF Poll, Goto, countVars, runqVars
  <2>2. CASE worker # "dead"
    BY <1>1, <1>2, <2>1, <2>2, VerdictStays
  <2>3. CASE worker = "dead"
    <3>1. ~Calm
      BY <2>3, CalmHeard, NotDead DEF KeepBase, QuietBase
    <3> QED
      BY <1>1, <1>2, <3>1, OnlyVerdict
  <2> QED
    BY <2>2, <2>3
<1>4. CASE ReadEvent
  <2>1. UNCHANGED <<pc, state, failed_tids, runq_complete>>
    BY <1>4 DEF ReadEvent, controlVars, countVars, runqVars
  <2> QED
    BY <1>1, <1>2, <2>1, VerdictStays
<1>5. CASE ReadDone
  <2>1. UNCHANGED <<state, failed_tids, runq_complete>>
    BY <1>5 DEF ReadDone, countVars, runqVars
  <2>2. pc' = CASE reading = "top" -> "migrate"
                [] reading = "tail" -> "after"
                [] reading = "finish" -> "build_done"
                [] reading = "teardown" -> "return"
    BY <1>5 DEF ReadDone, Goto
  <2>3. reading \in {"top", "tail", "finish", "teardown"}
    BY DEF KeepBase, QuietBase, SkipBase, QueueInv, TypeOK, ControlType
  <2>4. pc' \in {"migrate", "after", "build_done", "return"}
    BY <2>2, <2>3, Zenon
  <2> QED
    BY <1>1, <1>2, <2>1, <2>4, VerdictStays
<1>6. ASSUME NEW t \in Tasks, NEW ok \in BOOLEAN, Exited(t, ok), UNCHANGED <<pc, jobs>>,
             ~mode.halt /\ ~mode.enforce => state' = state
      PROVE  KeepInv'
  <2>1. t \in ExitTids /\ pc = "read"
    BY <1>6, ExitedOnce DEF KeepBase, QuietBase, SkipBase, QueueInv, Sound, Exited
  <2>2. Calm /\ ~mode.halt => state = "Running" /\ state' = state
    BY <1>6, <2>1, StillRunning DEF Silent, Calm
  <2> QED
    BY <1>1, <1>2, <1>6, <2>1, <2>2, OnlyVerdict
<1>7. ASSUME NEW t \in Tasks, NEW ok \in BOOLEAN,
             ReadSuccess(t) \/ ReadFailure(t) \/ ReadSetsceneExit(t, ok)
      PROVE  KeepInv'
  <2>1. CASE ReadSuccess(t)
    BY <1>6, <2>1 DEF ReadSuccess, controlVars
  <2>2. CASE ReadFailure(t)
    BY <1>6, <2>2 DEF ReadFailure, TaskFail
  <2>3. CASE ReadSetsceneExit(t, ok)
    BY <1>6, <2>3 DEF ReadSetsceneExit
  <2> QED
    BY <1>7, <2>1, <2>2, <2>3
<1> QED
  BY <1>3, <1>4, <1>5, <1>7 DEF Reads

LEMMA ScansKeep == KeepBase /\ KeepInv /\ (Migrates \/ Scans) => KeepInv'
<1> SUFFICES ASSUME KeepBase, KeepInv, Migrates \/ Scans PROVE KeepInv'
  OBVIOUS
<1>1. /\ pc \in {"migrate", "setscene"} /\ UNCHANGED envVars
      /\ pc' \in {"setscene", "holdoff", "after", "done"}
      /\ state' \in {state, "Complete"} /\ outcome' \in {outcome, "exception"}
  BY DEF Migrates, NoMigrations, Migrate, Scans, ScanEnds, ScanSkipsUnneeded, ScanParks,
         ScanFails, ScanSkipsStamped, ScanLaunches, Scanned, OnlyScene, BrokenPipe, Goto,
         envVars
<1>2. outcome' # "failed"
  BY <1>1 DEF KeepBase, EndInv, None
<1>3. Calm /\ ~mode.halt => state = "Running"
  BY <1>1, StillRunning DEF Over
<1> QED
  BY <1>1, <1>2, <1>3, OnlyVerdict

LEMMA SchedulesKeep ==
  ASSUME HardAcyclic, OnlyRestores, NoThreadLimits
  PROVE  KeepBase /\ KeepInv /\ Schedules => KeepInv'
<1> SUFFICES ASSUME KeepBase, KeepInv, Schedules PROVE KeepInv'
  OBVIOUS
<1>1. /\ pc \in {"holdoff", "sched", "tail"} /\ UNCHANGED envVars
      /\ pc' \in {"holdoff", "sched", "tail", "poll", "after", "done"}
      /\ outcome' \in {outcome, "exception"}
  BY DEF Schedules, UpdateHoldoff, SettleScene, SchedNothing, SchedRefuses, SchedSkips,
         SchedNoExec, SchedLaunches, Scheduled, Finishes, TailWaits, TailEnds, TailForces,
         TailStops, BrokenPipe, Goto, controlVars, envVars
<1>2. outcome' # "failed"
  BY <1>1 DEF KeepBase, EndInv, None
<1>3. Calm /\ ~mode.halt => state = "Running"
  BY <1>1, StillRunning DEF Over
<1>4. CASE TailEnds
  <2>1. /\ state' \in {"Failed", "Complete"} /\ UNCHANGED <<failed_tids, runq_complete>>
    BY <1>4 DEF TailEnds, countVars, runqVars
  <2>2. Calm /\ state' = "Failed" => AllItCan
    BY <1>4, EndsHavingDoneAll, CalmHeard
  <2>3. (Calm' <=> Calm) /\ UNCHANGED mode
    BY <1>1, SameCalm
  <2> QED
    BY <1>1, <1>2, <2>1, <2>2, <2>3 DEF KeepInv, Keeps, AllItCan
<1>5. CASE ~TailEnds
  <2>1. SceneFinished /\ pc = "holdoff" /\ ~scene.dirty => ~SceneErrors
    BY NoSceneErrors DEF SceneFinished, KeepBase, QuietBase
  <2>2. Calm /\ ~mode.halt => state' \in {state, "Complete"}
    BY <1>5, <2>1 DEF Schedules, UpdateHoldoff, SettleScene, SchedNothing, SchedRefuses,
       SchedSkips, SchedNoExec, SchedLaunches, Finishes, TailWaits, TailForces,
       TaskFail, BrokenPipe, controlVars
  <2> QED
    BY <1>1, <1>2, <1>3, <2>2, OnlyVerdict
<1> QED
  BY <1>4, <1>5

LEMMA OthersKeep == KeepBase /\ KeepInv /\ (Environment \/ Done \/ UNCHANGED vars)
    => KeepInv'
<1> SUFFICES ASSUME KeepBase, KeepInv, Environment \/ Done \/ UNCHANGED vars
             PROVE  KeepInv'
  OBVIOUS
<1>1. UNCHANGED <<pc, state, outcome, failed_tids, runq_complete, mode>>
  BY DEF Environment, WorkerSteps, WorkerFinishesNow, WorkerQuits, JobEnds, WorkerDies,
     JobReports, UserStops, OnlyWorker, Done, vars, controlVars, countVars, runqVars,
     envVars
<1>2. Calm' => Calm
  <2> SUFFICES ASSUME Calm' PROVE Calm
    OBVIOUS
  <2>1. Heard
    BY OthersKept, CalmHeard DEF KeepBase, Heard, Calm, Undisturbed, None
  <2>2. request' = None => request = None
    BY DEF Environment, WorkerSteps, WorkerFinishesNow, WorkerQuits, JobEnds, WorkerDies,
       JobReports, UserStops, Done, vars, envVars, None, RunAssumption
  <2> QED
    BY <1>1, <2>1, <2>2 DEF Calm, Undisturbed, Heard
<1> QED
  BY <1>1, <1>2, SameKeeps

\* bitbake -k: when the build stops, what was not built could not be built.
THEOREM KeepsGoing ==
  ASSUME SteadyHardDeps, HardAcyclic, OnlyRestores, NoEnforce, NoThreadLimits
  PROVE  Spec => []BuildsAllItCan
<1>1. Init => GoneInv /\ KeepInv
  <2> SUFFICES ASSUME Init PROVE GoneInv /\ KeepInv
    OBVIOUS
  <2>1. /\ runq_running = {} /\ failed_tids = {} /\ DOMAIN build_stamps = {}
        /\ outcome # "failed" /\ pc = "init" /\ state = "SceneInit"
    BY DEF Init, None
  <2> QED
    BY <2>1 DEF GoneInv, Begun, KeepInv, Keeps
<1>2. QuietBase /\ GoneInv /\ [Next]_vars => GoneInv'
  BY GoneStep
<1>3. QuietBase /\ EndInv /\ LoopInv /\ GoneInv /\ KeepInv /\ [Next]_vars => KeepInv'
  BY ControlKeep, ReadsKeep, ScansKeep, SchedulesKeep, OthersKeep
  DEF Next, Cooker, KeepBase
<1>4. QueueInv /\ KeepInv => BuildsAllItCan
  <2> SUFFICES ASSUME QueueInv, KeepInv, outcome = "failed", Undisturbed, ~mode.halt
               PROVE  AllItCan
    BY DEF BuildsAllItCan, AllItCan
  <2>1. ~mode.enforce
    BY DEF QueueInv, TypeOK, EnvType, NoEnforce
  <2> QED
    BY <2>1 DEF KeepInv, Keeps, Calm
<1> QED
  BY <1>1, <1>2, <1>3, <1>4, QueueInvariant, SkipInvariant, ReadyInvariant,
     CountsInvariant, QuietInvariant, EndInvariant, LoopInvariant, PTL DEF Spec, QuietBase

-----------------------------------------------------------------------------
(* bitbake -f                                                              *)

LEMMA DeepValue ==
  ASSUME NEW u, NEW L, NEW B, NEW H, NEW g,
         \A d \in H : g[d] <=> d \in L,
         u \in L <=> (B /\ \A d \in H : d \in L)
  PROVE  (u \in L) = (B /\ \A d \in H : g[d])
<1>1. u \in L <=> (B /\ \A d \in H : g[d])
  OBVIOUS
<1> QED
  BY <1>1

\* A stamp current with all that is below it is current: the greatest set of tasks that
\* keeps to the rule of check_stamp_task is a solution of the recursive definition.
LEMMA DeepIsCurrent ==
  ASSUME NEW disk, NEW uh, NEW t \in Tasks, StampCurrentDeep(disk, t, uh)
  PROVE  StampCurrent(disk, t, uh)
<1> DEFINE Deep[u \in Tasks] ==
             /\ StampCurrent(disk, u, uh)
             /\ \A d \in Depends[u] : ComparesStamp(disk, u, d, uh) => Deep[d]
           Rule(g) == [u \in Tasks |->
             /\ StampCurrent(disk, u, uh)
             /\ \A d \in Depends[u] : ComparesStamp(disk, u, d, uh) => g[d]]
           Current == {u \in Tasks : StampCurrent(disk, u, uh)}
           Below(u) == {d \in Depends[u] : ComparesStamp(disk, u, d, uh)}
           Closed(S) == \A u \in S : u \in Current /\ Below(u) \subseteq S
           Greatest == {u \in Tasks : \E S \in SUBSET Tasks : Closed(S) /\ u \in S}
           greatest == [u \in Tasks |-> u \in Greatest]
<1>1. \A u \in Tasks : Below(u) \subseteq Tasks
  BY GraphAssumption
<1>2. \A u \in Tasks : u \in Greatest => u \in Current /\ Below(u) \subseteq Greatest
  BY <1>1
<1>3. \A u \in Tasks : u \in Current /\ Below(u) \subseteq Greatest => u \in Greatest
  <2> SUFFICES ASSUME NEW u \in Current, Below(u) \subseteq Greatest
               PROVE  u \in Greatest
    OBVIOUS
  <2> DEFINE S == Greatest \cup {u}
  <2>1. S \in SUBSET Tasks /\ u \in S
    OBVIOUS
  <2>2. Closed(S)
    <3> HIDE DEF Greatest, Current, Below
    <3>1. \A v \in Greatest : v \in Current /\ Below(v) \subseteq Greatest
      BY <1>2 DEF Greatest
    <3> QED
      BY <3>1
  <2> QED
    BY <2>1, <2>2
<1>4. greatest = Rule(greatest)
  <2>1. \A u \in Tasks : u \in Greatest <=> (u \in Current /\ \A d \in Below(u) : d \in Greatest)
    BY <1>2, <1>3
  <2>2. \A u \in Tasks : \A d \in Below(u) : greatest[d] <=> d \in Greatest
    BY <1>1
  <2> HIDE DEF Greatest, greatest
  <2>3. \A u \in Tasks :
          (u \in Greatest) = (/\ StampCurrent(disk, u, uh)
                              /\ \A d \in Depends[u] :
                                   ComparesStamp(disk, u, d, uh) => greatest[d])
    <3> TAKE u \in Tasks
    <3>1. \A d \in Below(u) : greatest[d] <=> d \in Greatest
      BY <2>2
    <3>2. u \in Greatest <=> (u \in Current /\ \A d \in Below(u) : d \in Greatest)
      BY <2>1
    <3>3. (u \in Greatest) = (u \in Current /\ \A d \in Below(u) : greatest[d])
      <4> HIDE DEF Below, Current
      <4> QED
        BY <3>1, <3>2, DeepValue
    <3>4. (u \in Current /\ \A d \in Below(u) : greatest[d])
            <=> (/\ StampCurrent(disk, u, uh)
                 /\ \A d \in Depends[u] : ComparesStamp(disk, u, d, uh) => greatest[d])
      OBVIOUS
    <3> QED
      BY <3>3, <3>4
  <2>4. greatest = [u \in Tasks |-> u \in Greatest]
    BY DEF greatest
  <2> QED
    BY <2>3, <2>4, Zenon
<1>5. Deep = Rule(Deep)
  BY <1>4
<1>6. Deep[t]
  BY DEF StampCurrentDeep
<1> QED
  BY <1>5, <1>6

\* What stamps settle has one, or is noexec.
LEMMA SettledHasStamp ==
  ASSUME NEW disk, NEW uh, NEW t \in Tasks \ NoExec, SettledByStamps(disk, t, uh)
  PROVE  \E f \in disk : f[1] = StampName[t]
<1>1. \E kind \in Kinds : HasStamp(disk, t, kind, uh)
  BY DeepIsCurrent DEF SettledByStamps, SetsceneStampCurrent, StampCurrent, Kinds
<1> QED
  BY <1>1 DEF HasStamp

\* A target that could be restored, and has something to execute.
Forced == (Targets \cap Setscene) \ NoExec

\* Until such a target was started, nothing stands for it: no stamp, no restore.
ForceInv ==
  mode.force =>
    /\ sq_live \cap Forced = {}
    /\ \A t \in Forced \ runq_running :
         t \notin scene.covered /\ \A f \in files : f[1] # StampName[t]
    /\ (Targets \ NoExec) \cap tasks_covered \subseteq runq_running
    /\ (Targets \ NoExec) \cap runq_complete \subseteq runq_tasksrun

\* What a step does to that.
ForceStep ==
  /\ sq_live' \cap Forced \subseteq sq_live
  /\ runq_running \subseteq runq_running'
  /\ \A t \in Forced \ runq_running :
       /\ t \in scene'.covered => t \in scene.covered
       /\ \A f \in files' : f[1] = StampName[t] => f \in files
  /\ (Targets \ NoExec) \cap tasks_covered' \subseteq tasks_covered \cup runq_running
  /\ (Targets \ NoExec) \cap runq_complete' \subseteq runq_complete \cup runq_tasksrun'
  /\ runq_tasksrun \subseteq runq_tasksrun'

LEMMA ForceStepKeeps ==
  ASSUME ForceInv, UNCHANGED mode, mode.force => ForceStep
  PROVE  ForceInv'
BY DEF ForceInv, ForceStep

LEMMA StillForced ==
  ASSUME UNCHANGED <<sq_live, scene, files, tasks_covered, runq_complete, runq_tasksrun>>,
         runq_running \subseteq runq_running'
  PROVE  ForceStep
BY DEF ForceStep

\* Stamping noexec tasks leaves the stamps of a target alone,
LEMMA NoExecElsewhere ==
  ASSUME TargetsOwnStamps, NEW disk, NEW S, S \subseteq Tasks, NEW uh, NEW t \in Forced,
         NEW f \in StampNoExec(disk, S, uh), f[1] = StampName[t]
  PROVE  f \in disk
<1>1. CASE f \in disk
  BY <1>1
<1>2. CASE f \notin disk
  <2>1. PICK u \in S \cap NoExec : f = <<StampName[u], "setscene", uh[u], TRUE>>
    BY <1>2 DEF StampNoExec
  <2>2. StampName[u] = StampName[t] /\ u \in Tasks \ {t}
    BY <2>1 DEF Forced
  <2> QED
    BY <2>2 DEF TargetsOwnStamps, Forced
<1> QED
  BY <1>1, <1>2

\* and so does the stamp of another task.
LEMMA StampElsewhere ==
  ASSUME TargetsOwnStamps, NEW disk, NEW u \in Tasks, NEW kind, NEW h, NEW t \in Forced,
         u # t, NEW f \in MakeStamp(disk, u, kind, h), f[1] = StampName[t]
  PROVE  f \in disk
<1>1. StampName[u] # StampName[t]
  BY DEF TargetsOwnStamps, Forced
<1>2. f # <<StampName[u], kind, h, TRUE>>
  <2>1. <<StampName[u], kind, h, TRUE>>[1] = StampName[u]
    OBVIOUS
  <2> QED
    BY <1>1, <2>1, Zenon
<1> QED
  BY <1>2 DEF MakeStamp

\* A target not started yet has no stamp, so none settles it.
LEMMA NotSettled ==
  ASSUME ForceInv, mode.force, NEW disk, NEW uh, NEW t \in Forced \ runq_running,
         \A f \in disk : f[1] = StampName[t] => f \in files
  PROVE  ~SettledByStamps(disk, t, uh)
<1>1. t \in Tasks \ NoExec
  BY GraphAssumption DEF Forced
<1> QED
  BY <1>1, SettledHasStamp DEF ForceInv

LEMMA ControlForce ==
  ASSUME TargetsOwnStamps, QueueInv, ForceInv, mode.force, Control
  PROVE  ForceStep
<1>1. CASE SceneInit
  <2>1. /\ files' = StampNoExec(files, Setscene, InitHash)
        /\ scene' = InitialScene(files', sstate)
        /\ UNCHANGED <<sq_live, tasks_covered, runq_running, runq_complete, runq_tasksrun>>
    BY <1>1 DEF SceneInit
  <2>2. \A d \in scene'.covered : SettledByStamps(files', d, InitHash)
    BY <2>1, InitialSceneSound
  <2>3. ASSUME NEW t \in Forced \ runq_running
        PROVE  /\ t \notin scene'.covered
               /\ \A f \in files' : f[1] = StampName[t] => f \in files
    <3>1. \A f \in files' : f[1] = StampName[t] => f \in files
      BY <2>1, NoExecElsewhere, GraphAssumption
    <3> QED
      BY <2>2, <3>1, NotSettled
  <2> QED
    BY <2>1, <2>3 DEF ForceStep
<1>2. CASE \/ StopBeforeInit \/ IdleForce \/ IdleShutdown \/ Idle \/ AfterExecute
           \/ Finish \/ BuildDone \/ Return
  BY <1>2, StillForced DEF StopBeforeInit, IdleForce, IdleShutdown, Idle, AfterExecute,
     Finish, BuildDone, Return, sceneVars, coverVars, runqVars, diskVars
<1> QED
  BY <1>1, <1>2 DEF Control

\* A task that completes may release a deferred one, which its stamps may settle.
LEMMA CompleteOutrightForce ==
  ASSUME TargetsOwnStamps, QueueInv, ForceInv, mode.force, NEW u \in Tasks, NEW extra,
         NEW disk, CompleteOutright(u, extra, disk),
         \A t \in Forced \ runq_running : \A f \in disk : f[1] = StampName[t] => f \in files
  PROVE  \A t \in Forced \ runq_running :
           /\ t \in scene'.covered => t \in scene.covered
           /\ \A f \in files' : f[1] = StampName[t] => f \in files
<1>1. /\ files' = StampNoExec(disk, Released(scene, u), unihash)
      /\ scene' = ReleaseDeferred(scene, u, disk, unihash, sstate)
  BY DEF CompleteOutright
<1>2. scene \in SceneType
  BY DEF QueueInv, TypeOK, SceneVarsType
<1>3. PICK K \in SUBSET (Setscene \cap DOMAIN scene.deferred) :
        /\ Spreads(scene, scene', K, {}, K)
        /\ \A d \in K : SettledByStamps(disk, d, unihash)
  BY <1>1, <1>2, ReleaseDeferredSpreads
<1>4. Released(scene, u) \subseteq Tasks
  <2>1. scene.deferred \in Deferrals
    BY <1>2 DEF SceneType, Deferrals
  <2>2. Waiting(scene, u) \subseteq Tasks
    BY <2>1, DeferralsElim, GraphAssumption DEF Waiting
  <2> QED
    BY <2>2, FirstOfIn DEF Released
<1>5. scene'.covered = scene.covered \cup K
  BY <1>3 DEF Spreads, Settles
<1> TAKE t \in Forced \ runq_running
<1>6. t \notin K
  BY <1>3, NotSettled
<1>7. \A f \in files' : f[1] = StampName[t] => f \in files
  BY <1>1, <1>4, NoExecElsewhere
<1> QED
  BY <1>5, <1>6, <1>7

LEMMA ReadsForce ==
  ASSUME TargetsOwnStamps, QueueInv, ForceInv, mode.force, Reads
  PROVE  ForceStep
<1>1. CASE Poll \/ ReadEvent \/ ReadDone \/ \E t \in Tasks : ReadFailure(t)
  BY <1>1, StillForced DEF Poll, ReadEvent, ReadDone, ReadFailure, sceneVars, coverVars,
     runqVars, diskVars
<1>2. ASSUME NEW u \in Tasks, ReadSuccess(u) PROVE ForceStep
  <2>1. /\ CompleteOutright(u, {}, files) /\ runq_complete' = runq_complete \cup {u}
        /\ runq_tasksrun' = runq_tasksrun \cup {u}
        /\ UNCHANGED <<sq_live, tasks_covered, runq_running>>
    BY <1>2 DEF ReadSuccess, CompleteOutright, coverVars
  <2> QED
    BY <2>1, CompleteOutrightForce DEF ForceStep
<1>3. ASSUME NEW u \in Tasks, NEW ok \in BOOLEAN, ReadSetsceneExit(u, ok) PROVE ForceStep
  <2>1. /\ u \in sq_live /\ sq_live' = sq_live \ {u}
        /\ scene' = IF ok THEN CoverScene(scene, {u})
                    ELSE FailScene(scene, {u}, FALSE, Settled)
        /\ UNCHANGED <<files, tasks_covered, runq_running, runq_complete, runq_tasksrun>>
    BY <1>3 DEF ReadSetsceneExit, coverVars, runqVars, diskVars
  <2>2. scene \in SceneType /\ u \in Setscene /\ u \notin Forced
    BY <2>1 DEF QueueInv, TypeOK, SceneVarsType, ForceInv
  <2>3. scene'.covered \subseteq scene.covered \cup {u}
    <3>1. CASE ok
      BY <2>1, <2>2, <3>1, CoverSceneSettles DEF Settles
    <3>2. CASE ~ok
      <4> DEFINE K == FailClosure(scene, {u}, Settled)
      <4>1. Settles(scene, FailScene(scene, {u}, FALSE, Settled), {}, K, K \ {u})
        BY <2>2, FailSceneSettles
      <4> HIDE DEF K
      <4> QED
        BY <2>1, <3>2, <4>1 DEF Settles
    <3> QED
      BY <3>1, <3>2
  <2> QED
    BY <2>1, <2>2, <2>3 DEF ForceStep
<1> QED
  BY <1>1, <1>2, <1>3 DEF Reads

\* Among the tasks a restart starts over, it covers those their stamps settle.
LEMMA RestartCoversSettled ==
  ASSUME NEW s0 \in SceneType, NEW R, R \subseteq Setscene, NEW uh, NEW disk,
         runq_complete \in SUBSET Tasks
  PROVE  \E K \in SUBSET R, N \in SUBSET Setscene :
           /\ StartsOver(s0, Restart(s0, R, uh, disk), R, K, N)
           /\ \A d \in K : SettledByStamps(disk, d, uh)
BY RestartStartsOver

LEMMA MigratesForce ==
  ASSUME TargetsOwnStamps, SkipBase, ForceInv, mode.force, Migrates
  PROVE  ForceStep
<1>1. CASE NoMigrations
  BY <1>1, StillForced DEF NoMigrations, sceneVars, coverVars, runqVars, diskVars
<1>2. ASSUME NEW uh \in NewHashes, Migrate(uh) PROVE ForceStep
  <2> DEFINE R == Ready(uh)
  <2>1. /\ files' = StampNoExec(files, R, uh)
        /\ scene' = IF R = {} /\ Changed(uh) = {} THEN scene
                    ELSE [Restart(scene, R, uh, files')
                            EXCEPT !.needed = {}, !.parked = {}, !.dirty = TRUE]
        /\ UNCHANGED <<sq_live, tasks_covered, runq_running, runq_complete, runq_tasksrun>>
    BY <1>2 DEF Migrate, coverVars, runqVars
  <2>2. R \subseteq Setscene /\ R \subseteq Tasks
    BY PendingAre, GraphAssumption DEF SkipBase, Ready
  <2>3. scene \in SceneType /\ runq_complete \in SUBSET Tasks
    BY DEF SkipBase, QueueInv, TypeOK, SceneVarsType, RunqType
  <2> HIDE DEF R
  <2>4. ASSUME NEW t \in Forced PROVE \A f \in files' : f[1] = StampName[t] => f \in files
    BY <2>1, <2>2, <2>4, NoExecElsewhere
  <2>5. ASSUME NEW t \in Forced \ runq_running, t \in scene'.covered
        PROVE  t \in scene.covered
    <3>1. CASE scene' = scene
      BY <2>5, <3>1
    <3>2. CASE scene' # scene
      <4>0. PICK disk : disk = files'
        OBVIOUS
      <4> DEFINE s == Restart(scene, R, uh, disk)
      <4>1. s \in SceneType
        BY <2>2, <2>3, RestartType
      <4>2. PICK K \in SUBSET R, N \in SUBSET Setscene :
              /\ StartsOver(scene, s, R, K, N)
              /\ \A d \in K : SettledByStamps(disk, d, uh)
        <5>1. R \subseteq Setscene /\ scene \in SceneType /\ runq_complete \in SUBSET Tasks
          BY <2>2, <2>3
        <5> QED
          BY <5>1, RestartCoversSettled
      <4>3. scene' = [s EXCEPT !.needed = {}, !.parked = {}, !.dirty = TRUE]
        BY <2>1, <3>2, <4>0
      <4> HIDE DEF s
      <4>4. scene'.covered = (scene.covered \ R) \cup K
        BY <4>1, <4>2, <4>3 DEF SceneType, StartsOver
      <4>5. t \notin K
        BY <2>4, <4>0, <4>2, NotSettled
      <4> QED
        BY <2>5, <4>4, <4>5
    <3> QED
      BY <3>1, <3>2
  <2> QED
    BY <2>1, <2>4, <2>5 DEF ForceStep
<1> QED
  BY <1>1, <1>2 DEF Migrates

LEMMA ScansForce ==
  ASSUME QueueInv, ForceInv, mode.force, Scans
  PROVE  ForceStep
<1>1. scene \in SceneType
  BY DEF QueueInv, TypeOK, SceneVarsType
<1>2. CASE ScanEnds
  BY <1>2, StillForced DEF ScanEnds, sceneVars, coverVars, runqVars, diskVars
<1>3. ASSUME NEW u \in Setscene,
             \/ ScanSkipsUnneeded(u) \/ ScanParks(u) \/ ScanFails(u)
             \/ ScanSkipsStamped(u) \/ ScanLaunches(u)
      PROVE  ForceStep
  <2> DEFINE v == Undeferred(scene, u)
  <2>1. v \in SceneType /\ v.covered = scene.covered
    BY <1>1, UndeferredBooks DEF SameBooks
  <2>2. /\ sq_live' \subseteq sq_live \cup {u}
        /\ UNCHANGED <<files, tasks_covered, runq_running, runq_complete, runq_tasksrun>>
    BY <1>3 DEF ScanSkipsUnneeded, ScanParks, ScanFails, ScanSkipsStamped, ScanLaunches,
       OnlyScene, coverVars, runqVars, diskVars
  <2>3. CASE ScanParks(u) \/ ScanFails(u)
    <3>1. sq_live' = sq_live
      BY <2>3 DEF ScanParks, ScanFails
    <3>2. scene'.covered = scene.covered
      <4>1. CASE ScanParks(u)
        BY <1>1, <4>1 DEF ScanParks, SceneType
      <4>2. CASE ScanFails(u)
        <5>1. scene' = FailScene(v, {u}, TRUE, Settled)
          BY <4>2 DEF ScanFails
        <5> HIDE DEF v
        <5> QED
          <6> DEFINE K == FailClosure(v, {u}, Settled)
          <6>1. Settles(v, FailScene(v, {u}, TRUE, Settled), {}, K, K)
            BY <2>1, FailSceneSettles
          <6> HIDE DEF K
          <6> QED
            BY <2>1, <5>1, <6>1 DEF Settles
      <4> QED
        BY <2>3, <4>1, <4>2
    <3> QED
      BY <2>2, <3>1, <3>2 DEF ForceStep
  <2>4. CASE ScanSkipsUnneeded(u) \/ ScanSkipsStamped(u) \/ ScanLaunches(u)
    <3>1. u \notin Forced
      BY <2>4 DEF ScanSkipsUnneeded, ScanSkipsStamped, ScanLaunches, MaybeNotNeeded,
         Hopeless, Forced
    <3>2. scene'.covered \subseteq scene.covered \cup {u}
      <4>1. CASE ScanSkipsUnneeded(u)
        <5> DEFINE k == SkipScene(scene, {u})
                   s == Undeferred(k, u)
        <5>1. k \in SceneType /\ k.covered = scene.covered \cup {u}
          BY <1>1, SkipSceneType, SkipSceneSettles DEF Settles
        <5> HIDE DEF k
        <5>2. s \in SceneType /\ s.covered = k.covered
          BY <5>1, UndeferredBooks DEF SameBooks
        <5>3. scene' = [s EXCEPT !.notneeded = @ \cup {u}]
          BY <4>1 DEF ScanSkipsUnneeded, s, k
        <5> HIDE DEF s
        <5> QED
          BY <5>1, <5>2, <5>3 DEF SceneType
      <4>2. CASE ScanSkipsStamped(u)
        <5>1. scene' = SkipScene(v, {u})
          BY <4>2 DEF ScanSkipsStamped
        <5> HIDE DEF v
        <5> QED
          BY <2>1, <5>1, SkipSceneSettles DEF Settles
      <4>3. CASE ScanLaunches(u)
        <5>1. scene' = v \/ scene' = [v EXCEPT !.running = @ \cup {u}]
          BY <4>3 DEF ScanLaunches
        <5> HIDE DEF v
        <5> QED
          BY <2>1, <5>1 DEF SceneType
      <4> QED
        BY <2>4, <4>1, <4>2, <4>3
    <3> QED
      BY <2>2, <3>1, <3>2 DEF ForceStep
  <2> QED
    BY <1>3, <2>3, <2>4
<1> QED
  BY <1>2, <1>3 DEF Scans

\* What becomes covered is covered in the scene, or no target.
LEMMA UpdateHoldoffForce ==
  ASSUME QueueInv, ForceInv, mode.force, UpdateHoldoff
  PROVE  ForceStep
<1>1. /\ tasks_covered' = Covered /\ scene' = [scene EXCEPT !.dirty = FALSE]
      /\ UNCHANGED <<sq_live, files, runq_running, runq_complete, runq_tasksrun>>
  BY DEF UpdateHoldoff, diskVars
<1>2. scene'.covered = scene.covered
  BY <1>1 DEF QueueInv, TypeOK, SceneVarsType, SceneType
<1>3. ASSUME NEW t \in (Targets \ NoExec) \cap Covered PROVE t \in runq_running
  <2>1. t \in scene.done /\ t \notin NotCovered
    BY <1>3 DEF Covered
  <2>2. t \in Forced
    BY <2>1 DEF NotCovered, Cantskip, Forced
  <2>3. t \in scene.covered
    BY <1>3, <2>2 DEF Covered, SqCovered, Forced
  <2> QED
    BY <2>2, <2>3 DEF ForceInv
<1> QED
  BY <1>1, <1>2, <1>3 DEF ForceStep

LEMMA SchedulesForce ==
  ASSUME TargetsOwnStamps, QueueInv, ForceInv, mode.force, Schedules
  PROVE  ForceStep
<1>1. CASE \/ SettleScene \/ SchedNothing \/ TailWaits \/ TailEnds
           \/ \E t \in Tasks : SchedRefuses(t) \/ SchedLaunches(t)
  BY <1>1, StillForced DEF SettleScene, SchedNothing, TailWaits, TailEnds, SchedRefuses,
     SchedLaunches, sceneVars, coverVars, runqVars, diskVars
<1>2. ASSUME NEW u \in Tasks, SchedSkips(u) \/ SchedNoExec(u) PROVE ForceStep
  <2>1. /\ u \notin runq_running /\ runq_running' = runq_running \cup {u}
        /\ runq_complete' = runq_complete \cup {u}
        /\ runq_tasksrun' = IF u \in tasks_covered THEN runq_tasksrun
                            ELSE runq_tasksrun \cup {u}
        /\ UNCHANGED <<sq_live, tasks_covered>>
    <3>1. CASE SchedSkips(u)
      BY <3>1 DEF SchedSkips, Scheduled, Runnable, Finishes, CompleteOutright, coverVars
    <3>2. CASE SchedNoExec(u)
      BY <3>2 DEF SchedNoExec, Scheduled, Runnable, Finishes, CompleteOutright, coverVars
    <3> QED
      BY <1>2, <3>1, <3>2
  <2>2. u \in Targets \ NoExec => u \notin tasks_covered
    BY <2>1 DEF ForceInv
  <2>3. \A t \in Forced \ runq_running :
          /\ t \in scene'.covered => t \in scene.covered
          /\ \A f \in files' : f[1] = StampName[t] => f \in files
    <3>1. CASE SchedSkips(u)
      BY <3>1, CompleteOutrightForce DEF SchedSkips
    <3>2. CASE SchedNoExec(u)
      <4> DEFINE disk == IF mode.enforce THEN files
                         ELSE MakeStamp(files, u, "run", unihash[u])
      <4>1. u \in NoExec /\ CompleteOutright(u, {}, disk)
        BY <3>2 DEF SchedNoExec
      <4>2. \A t \in Forced \ runq_running : \A f \in disk :
              f[1] = StampName[t] => f \in files
        BY <4>1, StampElsewhere DEF Forced
      <4> HIDE DEF disk
      <4> QED
        BY <4>1, <4>2, CompleteOutrightForce
    <3> QED
      BY <1>2, <3>1, <3>2
  <2> QED
    BY <2>1, <2>2, <2>3 DEF ForceStep
<1>3. ASSUME NEW u \in Setscene, TailForces(u) PROVE ForceStep
  <2>1. /\ scene' = Undeferred(scene, u)
        /\ UNCHANGED <<sq_live, files, tasks_covered, runq_running, runq_complete,
                       runq_tasksrun>>
    BY <1>3 DEF TailForces, coverVars, runqVars, diskVars
  <2>2. scene'.covered = scene.covered
    BY <2>1, UndeferredBooks DEF QueueInv, TypeOK, SceneVarsType, SameBooks
  <2> QED
    BY <2>1, <2>2 DEF ForceStep
<1> QED
  BY <1>1, <1>2, <1>3, UpdateHoldoffForce DEF Schedules

\* Only a process of the target itself writes its stamp, and the cooker started that one.
LEMMA OthersForce ==
  ASSUME TargetsOwnStamps, QueueInv, ForceInv, mode.force,
         Environment \/ Done \/ UNCHANGED vars
  PROVE  ForceStep
<1>1. UNCHANGED <<scene, sq_live, tasks_covered, runq_running, runq_complete,
                  runq_tasksrun>>
  BY DEF Environment, WorkerSteps, WorkerFinishesNow, WorkerQuits, JobEnds, WorkerDies,
     JobReports, UserStops, OnlyWorker, Done, vars, sceneVars, coverVars, runqVars
<1>2. CASE UNCHANGED files
  BY <1>1, <1>2, StillForced
<1>3. CASE UNCHANGED files \/ \E j \in jobs, ok \in BOOLEAN : JobEnds(j, ok)
  <2> SUFFICES ASSUME NEW j \in jobs, NEW ok \in BOOLEAN, JobEnds(j, ok) PROVE ForceStep
    BY <1>2, <1>3
  <2>1. /\ j.tid \in Tasks /\ j.kind \in Kinds
    BY DEF QueueInv, TypeOK, WorkerType, Jobs
  <2>2. files' = files \/ files' = MakeStamp(files, j.tid, j.kind, j.hash)
    BY DEF JobEnds, diskVars
  <2>3. ASSUME NEW t \in Forced \ runq_running PROVE t # j.tid
    <3>1. j.tid \in Executing \cup Restoring
      BY <2>1 DEF Executing, Restoring, Kinds
    <3> QED
      BY <3>1 DEF QueueInv, Sound, Accounted, ForceInv
  <2>4. \A t \in Forced \ runq_running : \A f \in files' :
          f[1] = StampName[t] => f \in files
    BY <2>1, <2>2, <2>3, StampElsewhere
  <2> QED
    BY <1>1, <2>4 DEF ForceStep
<1> QED
  BY <1>2, <1>3 DEF Environment, WorkerSteps, WorkerFinishesNow, WorkerQuits, WorkerDies,
     JobReports, UserStops, Done, vars, diskVars

LEMMA ModeStays == [Next]_vars => UNCHANGED mode
BY DEF Next, Cooker, Control, SceneInit, StopBeforeInit, IdleForce, IdleShutdown, Idle,
   AfterExecute, Finish, BuildDone, Return, Reads, Poll, ReadEvent, ReadDone, ReadSuccess,
   ReadFailure, ReadSetsceneExit, Migrates, NoMigrations, Migrate, Scans, ScanEnds,
   ScanSkipsUnneeded, ScanParks, ScanFails, ScanSkipsStamped, ScanLaunches, OnlyScene,
   Schedules, UpdateHoldoff, SettleScene, SchedNothing, SchedRefuses, SchedSkips,
   SchedNoExec, SchedLaunches, Finishes, TailWaits, TailEnds, TailForces, Environment,
   WorkerSteps, WorkerFinishesNow, WorkerQuits, JobEnds, WorkerDies, JobReports, UserStops,
   Done, envVars, vars

\* bitbake -f: the targets are executed.
THEOREM ForcedRun ==
  ASSUME SteadyHardDeps, NoEnforce, TargetsOwnStamps
  PROVE  Spec => []ForcedTargetsRun
<1>1. Init => ForceInv
  <2> SUFFICES ASSUME Init, mode.force PROVE ForceInv
    BY DEF ForceInv
  <2>1. /\ sq_live = {} /\ scene.covered = {} /\ tasks_covered = {} /\ runq_complete = {}
        /\ \E S \in InitStamps : files = AtStart(S)
    BY DEF Init
  <2>2. \A t \in Forced : \A f \in files : f[1] # StampName[t]
    BY <2>1 DEF AtStart, Forced
  <2> QED
    BY <2>1, <2>2 DEF ForceInv
<1>2. SkipBase /\ ForceInv /\ [Next]_vars => ForceInv'
  <2> SUFFICES ASSUME SkipBase, ForceInv, [Next]_vars PROVE ForceInv'
    OBVIOUS
  <2>1. mode.force => ForceStep
    BY ControlForce, ReadsForce, MigratesForce, ScansForce, SchedulesForce, OthersForce
    DEF Next, Cooker, SkipBase
  <2> QED
    BY <2>1, ModeStays, ForceStepKeeps
<1>3. SkipBase /\ EndInv /\ ForceInv => ForcedTargetsRun
  <2> SUFFICES ASSUME SkipBase, EndInv, ForceInv, outcome = "complete", Undisturbed,
                      mode.force, ~mode.only
               PROVE  Targets \ NoExec \subseteq runq_tasksrun
    BY DEF ForcedTargetsRun
  <2>1. ~mode.enforce
    BY DEF SkipBase, QueueInv, TypeOK, EnvType, NoEnforce
  <2>2. runq_complete = Tasks
    BY <2>1 DEF EndInv, Calm, CalmEnd, AllDone
  <2> QED
    BY <2>2, GraphAssumption DEF ForceInv
<1> QED
  BY <1>1, <1>2, <1>3, SkipInvariant, EndInvariant, PTL DEF Spec

-----------------------------------------------------------------------------
(* Setscene tasks with the same PN and hash, one by one.                   *)

\* They have the same place in sqdata.hashes.
Alike(t, u) == PendingIndex(t, InitHash[t]) = PendingIndex(u, InitHash[u])

\* What waits is not settled, and waits for a task that does not wait itself and is not
\* complete; of those alike, one at most neither waits nor is complete.
Turns(s, complete) ==
  /\ \A t \in DOMAIN s.deferred : /\ t \notin Resolved(s)
                                  /\ s.deferred[t] \notin DOMAIN s.deferred \cup complete
                                  /\ Alike(t, s.deferred[t])
  /\ \A t, u \in Setscene \ (DOMAIN s.deferred \cup complete) : Alike(t, u) => t = u

\* Before the executor is built the stamps are those the build started with.
TurnInv ==
  /\ unihash = InitHash
  /\ DeferredApart
  /\ pc = "init" => \E S \in InitStamps : files \subseteq S
  /\ pc \notin {"init", "done"} => Turns(scene, runq_complete)

\* The operators on the scene leave sq_deferred alone.
LEMMA DeferralsStay ==
  ASSUME NEW s \in SceneType, NEW S, S \subseteq Setscene
  PROVE  /\ \A K : UpdateCounters(s, K).deferred = s.deferred
         /\ CoverScene(s, S).deferred = s.deferred
         /\ SkipScene(s, S).deferred = s.deferred
         /\ \A outright \in BOOLEAN : \A settled :
              FailScene(s, S, outright, settled).deferred = s.deferred
         /\ \A disk, uh, cache : UpdateScene(s, S, disk, uh, cache).deferred = s.deferred
<1>1. \A s1 \in SceneType : \A K : UpdateCounters(s1, K).deferred = s1.deferred
  BY DEF UpdateCounters, SceneType
<1>2. \A C \in SUBSET Setscene : CoverScene(s, C).deferred = s.deferred
  <2> TAKE C \in SUBSET Setscene
  <2> DEFINE s1 == [s EXCEPT !.covered = @ \cup C]
  <2>1. s1 \in SceneType /\ s1.deferred = s.deferred
    BY DEF SceneType
  <2> HIDE DEF s1
  <2>2. UpdateCounters(s1, C).deferred = s.deferred
    BY <1>1, <2>1
  <2> QED
    BY <2>2 DEF CoverScene, s1
<1>3. \A C \in SUBSET Setscene : SkipScene(s, C).deferred = s.deferred
  <2> TAKE C \in SUBSET Setscene
  <2> DEFINE s1 == [s EXCEPT !.running = @ \cup C, !.buildable = @ \cup C]
             s2 == [s1 EXCEPT !.covered = @ \cup C]
  <2>1. s1 \in SceneType /\ s1.deferred = s.deferred
    BY DEF SceneType
  <2> HIDE DEF s1
  <2>2. s2 \in SceneType /\ s2.deferred = s.deferred
    BY <2>1 DEF SceneType
  <2> HIDE DEF s2
  <2>3. UpdateCounters(s2, C).deferred = s.deferred
    BY <1>1, <2>2
  <2> QED
    BY <2>3 DEF SkipScene, CoverScene, s1, s2
<1>4. ASSUME NEW outright \in BOOLEAN, NEW settled
      PROVE  FailScene(s, S, outright, settled).deferred = s.deferred
  <2> DEFINE K == FailClosure(s, S, settled)
             marked == IF outright THEN K ELSE K \ S
             s1 == [s EXCEPT !.notcovered = @ \cup K, !.running = @ \cup marked,
                             !.buildable = @ \cup marked]
  <2>1. K \subseteq Setscene
    BY FailClosureOf
  <2> HIDE DEF K
  <2>2. s1 \in SceneType /\ s1.deferred = s.deferred
    BY <2>1 DEF SceneType
  <2> HIDE DEF s1
  <2>3. UpdateCounters(s1, K).deferred = s.deferred
    BY <1>1, <2>2
  <2> QED
    BY <2>3 DEF FailScene, s1, marked, K
<1>5. ASSUME NEW disk, NEW uh, NEW cache
      PROVE  UpdateScene(s, S, disk, uh, cache).deferred = s.deferred
  <2> DEFINE skipped == {t \in S : SettledByStamps(disk, t, uh)}
             valid == {t \in S \ skipped : SstateObject(t, uh[t]) \in cache}
             s1 == SkipScene(s, skipped)
             hopeless == (s1.outright \ S) \cup
                           (S \ (skipped \cup valid \cup Resolved(s1)
                                   \cup DOMAIN s1.deferred))
  <2>1. skipped \in SUBSET Setscene
    OBVIOUS
  <2> HIDE DEF skipped
  <2>2. s1 \in SceneType /\ s1.deferred = s.deferred
    BY <1>3, <2>1, SkipSceneType
  <2> HIDE DEF s1, hopeless
  <2>3. [s1 EXCEPT !.outright = hopeless].deferred = s.deferred
    BY <2>2 DEF SceneType
  <2> QED
    BY <2>3 DEF UpdateScene, hopeless, s1, valid, skipped
<1> QED
  BY <1>1, <1>2, <1>3, <1>4, <1>5

\* What the functions of sq_deferred are.
LEMMA DeferredAre ==
  ASSUME NEW s \in SceneType
  PROVE  /\ DOMAIN s.deferred \subseteq Setscene
         /\ s.deferred \in [DOMAIN s.deferred -> Setscene]
         /\ \A t \in DOMAIN s.deferred : s.deferred[t] \in Setscene
<1>1. s.deferred \in Deferrals
  BY DEF SceneType, Deferrals
<1>2. PICK D \in SUBSET Setscene : s.deferred \in [D -> Setscene]
  BY <1>1 DEF Deferrals
<1> QED
  BY <1>2

\* A task that waits has no hard dependencies: it is like the one it waits for.
LEMMA WaitsFree ==
  ASSUME SharersWait, NEW s \in SceneType, NEW complete, Turns(s, complete),
         NEW t \in DOMAIN s.deferred
  PROVE  t \in Setscene /\ HardDeps[t] = {} /\ t \notin Resolved(s)
<1>1. /\ t \in Setscene /\ s.deferred[t] \in Setscene
  BY DeferredAre
<1>2. s.deferred[t] # t /\ Alike(t, s.deferred[t]) /\ t \notin Resolved(s)
  BY DEF Turns
<1> QED
  BY <1>1, <1>2 DEF SharersWait, Alike

LEMMA SameTurns ==
  ASSUME NEW s, NEW s2, NEW complete, Turns(s, complete), s2.deferred = s.deferred,
         Resolved(s2) \cap DOMAIN s.deferred = {}
  PROVE  Turns(s2, complete)
BY DEF Turns

\* Settling tasks that do not wait leaves the turns as they are.
LEMMA SettlesTurns ==
  ASSUME NEW s, NEW s2, NEW complete, NEW C, NEW N, NEW M, Turns(s, complete),
         Settles(s, s2, C, N, M), s2.deferred = s.deferred,
         (C \cup N) \cap DOMAIN s.deferred = {}
  PROVE  Turns(s2, complete)
<1>1. Resolved(s2) = Resolved(s) \cup C \cup N
  BY DEF Settles, Resolved
<1>2. Resolved(s2) \cap DOMAIN s.deferred = {}
  BY <1>1 DEF Turns
<1> QED
  BY <1>2, SameTurns

\* What fails with a task that does not wait does not wait either.
LEMMA FailTurns ==
  ASSUME SharersWait, NEW s \in SceneType, NEW complete, Turns(s, complete),
         NEW t \in Setscene, t \notin DOMAIN s.deferred, NEW outright \in BOOLEAN,
         NEW settled
  PROVE  Turns(FailScene(s, {t}, outright, settled), complete)
<1> DEFINE K == FailClosure(s, {t}, settled)
           s2 == FailScene(s, {t}, outright, settled)
<1>1. ASSUME NEW u \in DOMAIN s.deferred PROVE u \notin K
  <2>1. u \in Setscene /\ HardDeps[u] = {} /\ u \notin {t}
    BY WaitsFree
  <2> QED
    BY <2>1, FailClosureSpares
<1>2. \E M : Settles(s, s2, {}, K, M)
  BY FailSceneSettles
<1>3. s2.deferred = s.deferred
  <2>1. {t} \subseteq Setscene
    OBVIOUS
  <2>2. \A o \in BOOLEAN : \A d : FailScene(s, {t}, o, d).deferred = s.deferred
    BY <2>1, DeferralsStay
  <2> QED
    BY <2>2
<1> HIDE DEF s2, K
<1>4. ({} \cup K) \cap DOMAIN s.deferred = {}
  BY <1>1
<1>5. Turns(s2, complete)
  BY <1>2, <1>3, <1>4, SettlesTurns
<1> QED
  BY <1>5 DEF s2

LEMMA SkipTurns ==
  ASSUME NEW s \in SceneType, NEW complete, Turns(s, complete),
         NEW t \in Setscene, t \notin DOMAIN s.deferred
  PROVE  Turns(SkipScene(s, {t}), complete) /\ Turns(CoverScene(s, {t}), complete)
<1>1. /\ Settles(s, SkipScene(s, {t}), {t}, {}, {t})
      /\ Settles(s, CoverScene(s, {t}), {t}, {}, {})
  BY SkipSceneSettles, CoverSceneSettles
<1>2. /\ SkipScene(s, {t}).deferred = s.deferred
      /\ CoverScene(s, {t}).deferred = s.deferred
  BY DeferralsStay
<1>3. ({t} \cup {}) \cap DOMAIN s.deferred = {}
  OBVIOUS
<1> QED
  BY <1>1, <1>2, <1>3, SettlesTurns

\* When t is complete the first task that waits for it takes its place.
LEMMA CompleteTurns ==
  ASSUME TypeOK, Turns(scene, runq_complete), NEW t, NEW extra, NEW disk,
         CompleteOutright(t, extra, disk),
         Setscene \cap (runq_complete \cup {t}) \subseteq Resolved(scene)
  PROVE  Turns(scene', runq_complete')
<1>1. scene \in SceneType
  BY DEF TypeOK, SceneVarsType
<1>2. /\ scene' = ReleaseDeferred(scene, t, disk, unihash, sstate)
      /\ runq_complete' = runq_complete \cup {t}
  BY DEF CompleteOutright
<1>3. /\ DOMAIN scene.deferred \subseteq Setscene
      /\ \A d \in DOMAIN scene.deferred : scene.deferred[d] \in Setscene
  BY <1>1, DeferredAre
<1>4. DOMAIN scene.deferred \cap (runq_complete \cup {t}) = {}
  BY <1>3 DEF Turns
<1>5. CASE Waiting(scene, t) = {}
  <2>1. scene' = scene
    BY <1>2, <1>5 DEF ReleaseDeferred
  <2>2. \A d \in DOMAIN scene.deferred : scene.deferred[d] # t
    BY <1>5 DEF Waiting
  <2> QED
    BY <1>2, <2>1, <2>2 DEF Turns
<1>6. CASE Waiting(scene, t) # {}
  <2> DEFINE first == FirstOf(Waiting(scene, t))
             rest == [d \in DOMAIN scene.deferred \ {first} |->
                        IF scene.deferred[d] = t THEN first ELSE scene.deferred[d]]
             s1 == [scene EXCEPT !.deferred = rest]
  <2>1. first \in DOMAIN scene.deferred /\ scene.deferred[first] = t /\ first \in Setscene
    <3>1. Waiting(scene, t) \subseteq Tasks
      BY <1>3, GraphAssumption DEF Waiting
    <3>2. first \in Waiting(scene, t)
      BY <1>6, <3>1, FirstOfIn
    <3> QED
      BY <1>3, <3>2 DEF Waiting
  <2>2. /\ DOMAIN rest = DOMAIN scene.deferred \ {first}
        /\ \A d \in DOMAIN rest :
             rest[d] = IF scene.deferred[d] = t THEN first ELSE scene.deferred[d]
        /\ rest \in [DOMAIN scene.deferred \ {first} -> Setscene]
    BY <1>3, <2>1
  <2>3. scene' = UpdateScene(s1, {first}, disk, unihash, sstate)
    BY <1>2, <1>6 DEF ReleaseDeferred
  <2> HIDE DEF first, rest
  <2>4. DOMAIN scene.deferred \ {first} \subseteq Setscene
    BY <1>3
  <2>5. rest \in Deferrals
    BY <2>2, <2>4, DeferralsIntro
  <2>6. /\ s1 \in SceneType /\ s1.deferred = rest
        /\ Resolved(s1) = Resolved(scene)
    BY <1>1, <2>5 DEF SceneType, Deferrals, Resolved
  <2> HIDE DEF s1
  <2>7. t \notin DOMAIN scene.deferred \cup runq_complete /\ t \in Setscene
    BY <1>3, <1>4, <2>1 DEF Turns
  <2>8. Turns(s1, runq_complete')
    <3>1. ASSUME NEW d \in DOMAIN rest
          PROVE  /\ d \notin Resolved(s1)
                 /\ rest[d] \notin DOMAIN rest \cup runq_complete'
                 /\ Alike(d, rest[d])
      <4>1. d \in DOMAIN scene.deferred /\ d \notin Resolved(s1)
        BY <2>2, <2>6 DEF Turns
      <4>2. CASE scene.deferred[d] = t
        <5>1. rest[d] = first /\ Alike(d, t) /\ Alike(first, t)
          BY <2>1, <2>2, <4>1, <4>2 DEF Turns
        <5>2. first \notin DOMAIN rest \cup runq_complete'
          BY <1>2, <1>4, <2>1, <2>2
        <5> QED
          BY <4>1, <5>1, <5>2 DEF Alike
      <4>3. CASE scene.deferred[d] # t
        <5>1. rest[d] = scene.deferred[d]
          BY <2>2, <4>3
        <5> QED
          BY <1>2, <2>2, <4>1, <4>3, <5>1 DEF Turns
      <4> QED
        BY <4>2, <4>3
    <3>2. ASSUME NEW v \in Setscene, NEW w \in Setscene,
                 v \notin DOMAIN rest \cup runq_complete',
                 w \notin DOMAIN rest \cup runq_complete', Alike(v, w)
          PROVE  v = w
      <4>1. Alike(first, t)
        BY <2>1 DEF Turns
      <4>2. /\ v = first \/ (v \notin DOMAIN scene.deferred \cup runq_complete /\ v # t)
            /\ w = first \/ (w \notin DOMAIN scene.deferred \cup runq_complete /\ w # t)
        BY <1>2, <2>2, <3>2
      <4>3. CASE v = first /\ w # first
        BY <2>7, <3>2, <4>1, <4>2, <4>3 DEF Turns, Alike
      <4>4. CASE v # first /\ w = first
        BY <2>7, <3>2, <4>1, <4>2, <4>4 DEF Turns, Alike
      <4>5. CASE v # first /\ w # first
        BY <3>2, <4>2, <4>5 DEF Turns
      <4> QED
        BY <4>3, <4>4, <4>5
    <3> QED
      BY <2>6, <3>1, <3>2 DEF Turns
  <2>9. {first} \subseteq Setscene /\ first \notin DOMAIN s1.deferred
    BY <2>1, <2>2, <2>6
  <2>10. PICK K \in SUBSET {first} : Settles(s1, scene', K, {}, K)
    BY <2>3, <2>6, <2>9, UpdateSceneSettles
  <2>11. scene'.deferred = s1.deferred
    <3>1. \A d, u, c : UpdateScene(s1, {first}, d, u, c).deferred = s1.deferred
      BY <2>6, <2>9, DeferralsStay
    <3> QED
      BY <2>3, <3>1
  <2>12. (K \cup {}) \cap DOMAIN s1.deferred = {}
    BY <2>9
  <2> QED
    BY <2>8, <2>10, <2>11, <2>12, SettlesTurns
<1> QED
  BY <1>5, <1>6

\* At first all but the leader of those alike wait.
LEMMA InitialTurns ==
  ASSUME SharersWait, TypeOK, TurnInv, QueueInv, SceneInit
  PROVE  Turns(scene', runq_complete')
<1>1. /\ pc = "init" /\ files' = StampNoExec(files, Setscene, InitHash)
      /\ scene' = InitialScene(files', sstate) /\ UNCHANGED runq_complete
  BY DEF SceneInit
<1>2. runq_complete' = {}
  BY <1>1 DEF QueueInv, Sound, CoverSound
<1> DEFINE s0 == [buildable |-> {t \in Setscene : SqRevdeps(t) = {}},
                  running |-> {}, covered |-> {}, notcovered |-> {}, notneeded |-> {},
                  done |-> Unskippable \ Setscene,
                  needed |-> {}, parked |-> {}, deferred |-> InitiallyDeferred,
                  outright |-> {}, dirty |-> TRUE]
           K == {t \in Setscene : SettledByStamps(files', t, InitHash)}
<1>3. s0 \in SceneType
  <2>1. InitiallyDeferred \in UNION {[D -> Setscene] : D \in SUBSET Setscene}
    BY InitiallyDeferredType DEF Deferrals
  <2>2. Unskippable \ Setscene \subseteq Tasks
    BY DEF Unskippable
  <2> QED
    BY <2>1, <2>2 DEF SceneType
<1>4. /\ s0.deferred = InitiallyDeferred /\ Resolved(s0) = {}
      /\ scene' = UpdateScene(s0, Setscene, files', InitHash, sstate)
  BY <1>1 DEF InitialScene, Resolved
<1> HIDE DEF s0
<1>5. \A t \in Setscene : /\ Leader(PendingIndex(t, InitHash[t])) \in Setscene
                          /\ Alike(t, Leader(PendingIndex(t, InitHash[t])))
  <2> TAKE t \in Setscene
  <2> DEFINE G == Sharing(PendingIndex(t, InitHash[t]))
  <2>1. t \in G /\ G \subseteq Setscene /\ \A u \in G : Alike(t, u)
    BY DEF Sharing, Alike
  <2>2. FirstOf(G) \in G
    BY <2>1, FirstOfIn, GraphAssumption
  <2> QED
    BY <2>1, <2>2 DEF Leader
<1>6. /\ DOMAIN InitiallyDeferred
           = {u \in Setscene : Leader(PendingIndex(u, InitHash[u])) # u}
      /\ \A t \in DOMAIN InitiallyDeferred :
           InitiallyDeferred[t] = Leader(PendingIndex(t, InitHash[t]))
  BY DEF InitiallyDeferred
<1>7. \A t, u : Alike(t, u) => Leader(PendingIndex(t, InitHash[t]))
                              = Leader(PendingIndex(u, InitHash[u]))
  BY DEF Alike
<1>8. Turns(s0, {})
  <2>1. ASSUME NEW t \in DOMAIN s0.deferred
        PROVE  /\ t \notin Resolved(s0)
               /\ s0.deferred[t] \notin DOMAIN s0.deferred
               /\ Alike(t, s0.deferred[t])
    BY <1>4, <1>5, <1>6, <1>7
  <2>2. ASSUME NEW t \in Setscene, NEW u \in Setscene, t \notin DOMAIN s0.deferred,
               u \notin DOMAIN s0.deferred, Alike(t, u)
        PROVE  t = u
    BY <1>4, <1>6, <1>7, <2>2
  <2> QED
    BY <2>1, <2>2 DEF Turns
<1>9. ASSUME NEW t \in DOMAIN s0.deferred PROVE t \notin K
  <2>1. /\ t \in Setscene /\ s0.deferred[t] \in Setscene /\ s0.deferred[t] # t
        /\ Alike(t, s0.deferred[t])
    BY <1>3, <1>8, DeferredAre DEF Turns
  <2>2. /\ \A v \in NoExec : StampName[v] # StampName[t]
        /\ \A S \in InitStamps : \A f \in S : f[1] # StampName[t]
    BY <2>1 DEF SharersWait, Alike
  <2>3. \A f \in files : f[1] # StampName[t]
    BY <1>1, <2>2 DEF TurnInv
  <2>4. ASSUME NEW f \in files' PROVE f[1] # StampName[t]
    <3>1. \/ f \in files
          \/ \E v \in Setscene \cap NoExec :
               f = <<StampName[v], "setscene", InitHash[v], TRUE>>
      BY <1>1 DEF StampNoExec
    <3>2. ASSUME NEW v \in NoExec, f = <<StampName[v], "setscene", InitHash[v], TRUE>>
          PROVE  f[1] # StampName[t]
      <4>1. f[1] = StampName[v]
        BY <3>2
      <4> QED
        BY <2>2, <4>1
    <3> QED
      BY <2>3, <3>1, <3>2
  <2>5. t \in Tasks \ NoExec
    BY <2>1, <2>2, GraphAssumption
  <2> QED
    BY <2>4, <2>5, SettledHasStamp
<1>10. Settles(s0, scene', K, {}, K)
  BY <1>3, <1>4, UpdateSceneSkips
<1>11. scene'.deferred = s0.deferred
  <2>1. \A d, u, c : UpdateScene(s0, Setscene, d, u, c).deferred = s0.deferred
    BY <1>3, DeferralsStay
  <2> QED
    BY <1>4, <2>1
<1> HIDE DEF K
<1>12. (K \cup {}) \cap DOMAIN s0.deferred = {}
  BY <1>9
<1> QED
  BY <1>2, <1>8, <1>10, <1>11, <1>12, SettlesTurns

\* A scan takes up only what does not wait.
LEMMA CandidateFree ==
  ASSUME TypeOK, Turns(scene, runq_complete), NEW t \in Candidates
  PROVE  t \notin DOMAIN scene.deferred /\ Undeferred(scene, t) = scene
<1>1. t \notin DOMAIN scene.deferred
  BY DEF Candidates, Turns
<1>2. scene \in SceneType
  BY DEF TypeOK, SceneVarsType
<1>3. Without(scene.deferred, {t}) = scene.deferred
  <2>1. scene.deferred \in [DOMAIN scene.deferred -> Setscene]
    BY <1>2, DeferredAre
  <2>2. DOMAIN scene.deferred \ {t} = DOMAIN scene.deferred
    BY <1>1
  <2> QED
    BY <2>1, <2>2 DEF Without
<1> DEFINE f == Without(scene.deferred, {t})
<1>4. Undeferred(scene, t) = [scene EXCEPT !.deferred = f]
  BY DEF Undeferred
<1> HIDE DEF f
<1>5. f = scene.deferred
  BY <1>3 DEF f
<1>6. [scene EXCEPT !.deferred = f] = scene
  BY <1>2, <1>5 DEF SceneType
<1> QED
  BY <1>1, <1>4, <1>6

LEMMA ScansTurns ==
  ASSUME SharersWait
  PROVE  TypeOK /\ Turns(scene, runq_complete) /\ Scans
           => Turns(scene', runq_complete')
<1> SUFFICES ASSUME TypeOK, Turns(scene, runq_complete), Scans
             PROVE  Turns(scene', runq_complete')
  OBVIOUS
<1>1. scene \in SceneType
  BY DEF TypeOK, SceneVarsType
<1>2. UNCHANGED runq_complete
  BY DEF Scans, ScanEnds, ScanSkipsUnneeded, ScanParks, ScanFails, ScanSkipsStamped,
         ScanLaunches, OnlyScene, runqVars
<1>3. CASE ScanEnds
  BY <1>2, <1>3 DEF ScanEnds, sceneVars
<1>4. ASSUME NEW t \in Setscene,
             \/ ScanSkipsUnneeded(t) \/ ScanParks(t) \/ ScanFails(t)
             \/ ScanSkipsStamped(t) \/ ScanLaunches(t)
      PROVE  Turns(scene', runq_complete)
  <2>1. t \in Candidates
    BY <1>4 DEF ScanSkipsUnneeded, ScanParks, ScanFails, ScanSkipsStamped,
                ScanLaunches, Scanned
  <2>2. t \notin DOMAIN scene.deferred /\ Undeferred(scene, t) = scene
    BY <2>1, CandidateFree
  <2>3. CASE ScanSkipsUnneeded(t)
    <3> DEFINE k == SkipScene(scene, {t})
               f == Without(k.deferred, {t})
    <3>1. /\ k \in SceneType /\ Turns(k, runq_complete)
          /\ k.deferred = scene.deferred
      <4>1. {t} \subseteq Setscene
        OBVIOUS
      <4> QED
        BY <1>1, <2>2, <4>1, SkipTurns, SkipSceneType, DeferralsStay
    <3>2. scene' = [[k EXCEPT !.deferred = f] EXCEPT !.notneeded = @ \cup {t}]
      BY <2>3 DEF ScanSkipsUnneeded, Undeferred
    <3>3. f = scene.deferred
      <4>1. scene.deferred \in [DOMAIN scene.deferred -> Setscene]
        BY <1>1, DeferredAre
      <4>2. DOMAIN scene.deferred \ {t} = DOMAIN scene.deferred
        BY <2>2
      <4> QED
        BY <3>1, <4>1, <4>2 DEF Without
    <3> HIDE DEF k, f
    <3>4. scene'.deferred = k.deferred /\ Resolved(scene') = Resolved(k)
      BY <3>1, <3>2, <3>3 DEF SceneType, Resolved
    <3> QED
      BY <3>1, <3>4 DEF Turns
  <2>4. CASE ScanParks(t)
    <3>1. scene'.deferred = scene.deferred /\ Resolved(scene') = Resolved(scene)
      BY <1>1, <2>4 DEF ScanParks, SceneType, Resolved
    <3> QED
      BY <3>1 DEF Turns
  <2>5. CASE ScanFails(t)
    <3>1. scene' = FailScene(scene, {t}, TRUE, Settled)
      BY <2>2, <2>5 DEF ScanFails
    <3> QED
      BY <1>1, <2>2, <3>1, FailTurns
  <2>6. CASE ScanSkipsStamped(t)
    <3>1. scene' = SkipScene(scene, {t})
      BY <2>2, <2>6 DEF ScanSkipsStamped
    <3> QED
      BY <1>1, <2>2, <3>1, SkipTurns
  <2>7. CASE ScanLaunches(t)
    <3>1. scene' = scene \/ scene' = [scene EXCEPT !.running = @ \cup {t}]
      BY <2>2, <2>7 DEF ScanLaunches
    <3>2. scene'.deferred = scene.deferred /\ Resolved(scene') = Resolved(scene)
      BY <1>1, <3>1 DEF SceneType, Resolved
    <3> QED
      BY <3>2 DEF Turns
  <2> QED
    BY <1>4, <2>3, <2>4, <2>5, <2>6, <2>7
<1> QED
  BY <1>2, <1>3, <1>4 DEF Scans

LEMMA ReadsTurns ==
  ASSUME SharersWait
  PROVE  QueueInv /\ Turns(scene, runq_complete) /\ Reads
           => Turns(scene', runq_complete')
<1> SUFFICES ASSUME QueueInv, Turns(scene, runq_complete), Reads
             PROVE  Turns(scene', runq_complete')
  OBVIOUS
<1>1. TypeOK /\ scene \in SceneType
  BY DEF QueueInv, TypeOK, SceneVarsType
<1>2. CASE Poll \/ ReadEvent \/ ReadDone \/ \E t \in Tasks : ReadFailure(t)
  BY <1>2 DEF Poll, ReadEvent, ReadDone, ReadFailure, sceneVars, runqVars
<1>3. ASSUME NEW t \in Tasks, ReadSuccess(t) PROVE Turns(scene', runq_complete')
  <2>1. CompleteOutright(t, {}, files) /\ t \in runq_running \ runq_complete
    BY <1>1, <1>3, ExitedOnce DEF ReadSuccess, QueueInv, Sound, Accounted
  <2>2. Setscene \cap (runq_complete \cup {t}) \subseteq Resolved(scene)
    BY <2>1 DEF QueueInv, Sound, CoverSound
  <2> QED
    BY <1>1, <2>1, <2>2, CompleteTurns
<1>4. ASSUME NEW t \in Tasks, NEW ok \in BOOLEAN, ReadSetsceneExit(t, ok)
      PROVE  Turns(scene', runq_complete')
  <2>1. /\ t \in sq_live /\ UNCHANGED runq_complete
        /\ scene' = IF ok THEN CoverScene(scene, {t})
                    ELSE FailScene(scene, {t}, FALSE, Settled)
    BY <1>4 DEF ReadSetsceneExit, runqVars
  <2>2. t \in Setscene /\ t \notin DOMAIN scene.deferred
    BY <2>1 DEF QueueInv, TypeOK, SceneVarsType, Sound, LiveSound
  <2> QED
    BY <1>1, <2>1, <2>2, FailTurns, SkipTurns
<1> QED
  BY <1>2, <1>3, <1>4 DEF Reads

LEMMA SchedulesTurns ==
  ASSUME QueueInv, Turns(scene, runq_complete), Schedules,
         ~\E t \in Setscene : TailForces(t)
  PROVE  Turns(scene', runq_complete')
<1>1. TypeOK /\ scene \in SceneType
  BY DEF QueueInv, TypeOK, SceneVarsType
<1>2. CASE \/ SettleScene \/ SchedNothing \/ TailWaits \/ TailEnds
           \/ \E t \in Tasks : SchedRefuses(t) \/ SchedLaunches(t)
  BY <1>2 DEF SettleScene, SchedNothing, TailWaits, TailEnds, SchedRefuses,
              SchedLaunches, sceneVars, runqVars
<1>3. CASE UpdateHoldoff
  <2>1. scene' = [scene EXCEPT !.dirty = FALSE] /\ UNCHANGED runq_complete
    BY <1>3 DEF UpdateHoldoff
  <2>2. scene'.deferred = scene.deferred /\ Resolved(scene') = Resolved(scene)
    BY <1>1, <2>1 DEF SceneType, Resolved
  <2> QED
    BY <2>1, <2>2 DEF Turns
<1>4. ASSUME NEW t \in Tasks, SchedSkips(t) \/ SchedNoExec(t)
      PROVE  Turns(scene', runq_complete')
  <2>1. Scheduled(t) /\ \E extra, disk : CompleteOutright(t, extra, disk)
    BY <1>4 DEF SchedSkips, SchedNoExec, CompleteOutright
  <2>2. t \in Setscene => t \in Resolved(scene)
    BY <1>1, <2>1, ScheduledFree DEF QueueInv
  <2>3. Setscene \cap (runq_complete \cup {t}) \subseteq Resolved(scene)
    BY <2>2 DEF QueueInv, Sound, CoverSound
  <2> QED
    BY <1>1, <2>1, <2>3, CompleteTurns
<1> QED
  BY <1>2, <1>3, <1>4 DEF Schedules

\* Without reports no hash changes.
LEMMA SteadyHashes ==
  ASSUME MaxRehash = 0, QueueInv, [Next]_vars
  PROVE  unihash' = unihash /\ (Migrates => NoMigrations)
<1>1. Migrates => NoMigrations
  BY DEF QueueInv, NoNews, Migrates, Migrate
<1> SUFFICES unihash' = unihash
  BY <1>1
<1>2. CASE Control
  BY <1>2 DEF Control, SceneInit, StopBeforeInit, IdleForce, IdleShutdown, Idle,
     AfterExecute, Finish, BuildDone, Return, hashVars
<1>3. CASE Reads
  BY <1>3 DEF Reads, Poll, ReadEvent, ReadDone, ReadSuccess, ReadFailure,
     ReadSetsceneExit, hashVars
<1>4. CASE NoMigrations
  BY <1>4 DEF NoMigrations, hashVars
<1>5. CASE Scans
  BY <1>5 DEF Scans, ScanEnds, ScanSkipsUnneeded, ScanParks, ScanFails,
     ScanSkipsStamped, ScanLaunches, OnlyScene, hashVars
<1>6. CASE Schedules
  BY <1>6 DEF Schedules, UpdateHoldoff, SettleScene, SchedNothing, SchedRefuses,
     SchedSkips, SchedNoExec, SchedLaunches, Finishes, TailWaits, TailEnds, TailForces,
     hashVars
<1>7. CASE Environment \/ Done \/ UNCHANGED vars
  BY <1>7 DEF Environment, WorkerSteps, WorkerFinishesNow, WorkerQuits, JobEnds,
     WorkerDies, JobReports, UserStops, OnlyWorker, Done, vars, hashVars
<1> QED
  BY <1>1, <1>2, <1>3, <1>4, <1>5, <1>6, <1>7 DEF Next, Cooker

\* Nobody writes a stamp before there is an executor.
LEMMA EarlyStamps ==
  ASSUME QueueInv, pc = "init", pc' = "init", [Next]_vars
  PROVE  UNCHANGED files
<1>1. jobs = {}
  <2>1. Executing = {} /\ Restoring = {}
    BY DEF QueueInv, Sound, Accounted, CoverSound
  <2>2. \A j \in jobs : j.kind = "run" \/ j.kind = "setscene"
    BY DEF QueueInv, TypeOK, WorkerType, Jobs, Kinds
  <2> QED
    BY <2>1, <2>2 DEF Executing, Restoring
<1>2. Environment \/ Done \/ UNCHANGED vars
  BY DEF Next, Cooker, Control, SceneInit, StopBeforeInit, IdleForce, IdleShutdown, Idle,
     AfterExecute, Finish, BuildDone, Return, Reads, Poll, ReadEvent, ReadDone,
     ReadSuccess, ReadFailure, ReadSetsceneExit, Exited, Migrates, NoMigrations, Scans,
     ScanEnds, ScanSkipsUnneeded, ScanParks, ScanFails, ScanSkipsStamped, ScanLaunches,
     Scanned, Schedules, UpdateHoldoff, SettleScene, SchedNothing, SchedRefuses,
     SchedSkips, SchedNoExec, SchedLaunches, Scheduled, TailWaits, TailEnds, TailForces,
     TailStops
<1> QED
  BY <1>1, <1>2 DEF Environment, WorkerSteps, WorkerFinishesNow, WorkerQuits, WorkerDies,
     UserStops, Done, vars, diskVars

\* Of what does not wait, what is being restored is alone of its kind.
LEMMA TurnsApart ==
  ASSUME QueueInv', unihash' = InitHash, Turns(scene', runq_complete')
  PROVE  DeferredApart'
<1>1. \A t \in sq_live' :
        t \in Setscene \ (DOMAIN scene'.deferred \cup runq_complete')
  BY DEF QueueInv, TypeOK, SceneVarsType, Sound, LiveSound, CoverSound
<1> QED
  BY <1>1 DEF DeferredApart, Turns, Alike

LEMMA TurnStep ==
  ASSUME MaxRehash = 0, SharersWait, QueueInv, TurnInv, [Next]_vars, QueueInv',
         ~\E t \in Setscene : TailForces(t)
  PROVE  TurnInv'
<1>1. unihash' = InitHash /\ (Migrates => NoMigrations)
  BY SteadyHashes DEF TurnInv
<1>2. pc' = "init" => \E S \in InitStamps : files' \subseteq S
  <2> SUFFICES ASSUME pc' = "init" PROVE pc = "init"
    BY EarlyStamps DEF TurnInv
  <2>1. ~Control
    BY DEF Control, SceneInit, StopBeforeInit, IdleForce, IdleShutdown, Idle,
       AfterExecute, Finish, BuildDone, Return, Goto
  <2>2. CASE Reads
    BY <2>2 DEF Reads, Poll, ReadEvent, ReadDone, ReadSuccess, ReadFailure,
       ReadSetsceneExit, Goto, controlVars, QueueInv, TypeOK, ControlType
  <2>3. ~Migrates /\ ~Scans
    BY DEF Migrates, NoMigrations, Migrate, Scans, ScanEnds, ScanSkipsUnneeded,
       ScanParks, ScanFails, ScanSkipsStamped, ScanLaunches, BrokenPipe, Goto
  <2>4. CASE Schedules
    BY <2>4 DEF Schedules, UpdateHoldoff, SettleScene, SchedNothing, SchedRefuses,
       SchedSkips, SchedNoExec, SchedLaunches, BrokenPipe, Finishes, TailWaits, TailEnds,
       TailForces, Goto, controlVars
  <2> QED
    BY <2>1, <2>2, <2>3, <2>4, BooksAlone DEF Next, Cooker
<1>3. ASSUME Turns(scene', runq_complete') PROVE TurnInv'
  <2>1. DeferredApart'
    BY <1>1, <1>3, TurnsApart
  <2> QED
    BY <1>1, <1>2, <1>3, <2>1 DEF TurnInv
<1>4. CASE SceneInit
  BY <1>3, <1>4, InitialTurns DEF QueueInv
<1>5. CASE StopBeforeInit
  BY <1>1, <1>5 DEF StopBeforeInit, sceneVars, TurnInv, DeferredApart
<1>6. CASE Environment \/ Done \/ UNCHANGED vars
  <2>1. UNCHANGED <<pc, scene, sq_live, runq_complete>>
    BY <1>6, BooksAlone
  <2> QED
    BY <1>1, <1>2, <2>1 DEF TurnInv, DeferredApart
<1>7. CASE IdleForce \/ IdleShutdown \/ Idle \/ AfterExecute \/ Finish \/ BuildDone
             \/ Return \/ NoMigrations
  <2>1. UNCHANGED <<scene, runq_complete>> /\ pc \notin {"init", "done"}
    BY <1>7 DEF IdleForce, IdleShutdown, Idle, AfterExecute, Finish, BuildDone, Return,
       NoMigrations, sceneVars, runqVars
  <2> QED
    BY <1>3, <2>1 DEF TurnInv
<1>8. CASE Reads \/ Scans \/ Schedules
  <2>1. pc \notin {"init", "done"}
    BY <1>8 DEF Reads, Poll, ReadEvent, ReadDone, ReadSuccess, ReadFailure,
       ReadSetsceneExit, Exited, Scans, ScanEnds, ScanSkipsUnneeded, ScanParks,
       ScanFails, ScanSkipsStamped, ScanLaunches, Scanned, Schedules, UpdateHoldoff,
       SettleScene, SchedNothing, SchedRefuses, SchedSkips, SchedNoExec, SchedLaunches,
       Scheduled, TailWaits, TailEnds, TailForces, TailStops
  <2>2. Turns(scene, runq_complete) /\ TypeOK
    BY <2>1 DEF TurnInv, QueueInv
  <2> QED
    BY <1>3, <1>8, <2>2, ReadsTurns, ScansTurns, SchedulesTurns
<1> QED
  BY <1>1, <1>4, <1>5, <1>6, <1>7, <1>8 DEF Next, Cooker, Control

\* The stamps of what the worker has are in build_stamps, and no two are the same.
StampInv ==
  /\ StampsApart
  /\ \A j \in jobs : /\ j.hash = InitHash[j.tid] /\ j.tid \in DOMAIN build_stamps
                      /\ build_stamps[j.tid] = StampFile(j.tid, j.kind, InitHash)

\* What is sent next has a stamp of its own.
LEMMA SendStamps ==
  ASSUME TypeOK, OneToken', StampInv, unihash = InitHash, NEW t \in Tasks,
         NEW kind \in Kinds, Send(t, kind),
         \A j \in jobs : /\ j.tid # t
                         /\ StampFile(j.tid, j.kind, InitHash) # StampFile(t, kind, InitHash)
  PROVE  StampInv'
<1> DEFINE j0 == [tid |-> t, kind |-> kind, hash |-> InitHash[t], said |-> FALSE]
<1>1. /\ jobs' = jobs \cup {j0} /\ j0.tid = t /\ j0.kind = kind
      /\ j0.hash = InitHash[t]
      /\ DOMAIN build_stamps' = DOMAIN build_stamps \cup {t}
      /\ \A u \in DOMAIN build_stamps' :
           build_stamps'[u] = IF u = t THEN StampFile(t, kind, InitHash)
                              ELSE build_stamps[u]
  BY DEF Send
<1> HIDE DEF j0
<1>2. \A j \in jobs' : /\ j.hash = InitHash[j.tid] /\ j.tid \in DOMAIN build_stamps'
                       /\ build_stamps'[j.tid] = StampFile(j.tid, j.kind, InitHash)
  BY <1>1 DEF StampInv
<1>3. \A i, j \in jobs' : i # j =>
         StampFile(i.tid, i.kind, InitHash) # StampFile(j.tid, j.kind, InitHash)
  <2>1. \A i, j \in jobs : i # j =>
          StampFile(i.tid, i.kind, InitHash) # StampFile(j.tid, j.kind, InitHash)
    BY DEF StampInv, StampsApart, StampFile
  <2> QED
    BY <1>1, <2>1
<1>4. StampsApart'
  BY <1>2, <1>3 DEF StampsApart, StampFile
<1> QED
  BY <1>2, <1>4 DEF StampInv

\* Processes go away, and the book of a task no process is left of.
LEMMA FewerStamps ==
  ASSUME StampInv, jobs' \subseteq jobs,
         \A j \in jobs' : /\ j.tid \in DOMAIN build_stamps'
                          /\ build_stamps'[j.tid] = build_stamps[j.tid]
  PROVE  StampInv'
BY DEF StampInv, StampsApart

LEMMA StampStep ==
  ASSUME MaxRehash = 0, StampsNamePn, QueueInv, TurnInv, StampInv, [Next]_vars, QueueInv',
         DeferredApart'
  PROVE  StampInv'
<1>1. unihash' = InitHash /\ unihash = InitHash /\ (Migrates => NoMigrations)
  BY SteadyHashes DEF TurnInv
<1>2. TypeOK /\ Sound
  BY DEF QueueInv
<1>3. \A j \in jobs : j.kind \in Kinds /\ j.tid \in Tasks
  BY <1>2 DEF TypeOK, WorkerType, Jobs
<1>4. ASSUME UNCHANGED build_stamps, jobs' \subseteq jobs PROVE StampInv'
  BY <1>4, FewerStamps DEF StampInv
<1>5. CASE Control
  BY <1>4, <1>5 DEF Control, SceneInit, StopBeforeInit, IdleForce, IdleShutdown, Idle,
     AfterExecute, Finish, BuildDone, Return, countVars, workerVars
<1>6. CASE Poll \/ ReadEvent \/ ReadDone
  BY <1>4, <1>6 DEF Poll, ReadEvent, ReadDone, countVars
<1>7. ASSUME NEW t \in Tasks, NEW ok \in BOOLEAN, Exited(t, ok), UNCHANGED jobs
      PROVE  StampInv'
  <2>1. \A j \in jobs : j.tid # t
    BY <1>2, <1>7, ExitedOnce DEF Sound, OneToken
  <2>2. build_stamps' = Without(build_stamps, {t})
    BY <1>7 DEF Exited
  <2>3. \A u \in DOMAIN build_stamps \ {t} :
          u \in DOMAIN build_stamps' /\ build_stamps'[u] = build_stamps[u]
    BY <2>2 DEF Without
  <2> QED
    BY <1>7, <2>1, <2>3, FewerStamps DEF StampInv
<1>8. CASE Reads
  BY <1>6, <1>7, <1>8 DEF Reads, ReadSuccess, ReadFailure, ReadSetsceneExit, workerVars
<1>9. CASE NoMigrations
  BY <1>4, <1>9 DEF NoMigrations, countVars, workerVars
<1>10. CASE ScanEnds \/ \E t \in Setscene :
              ScanSkipsUnneeded(t) \/ ScanParks(t) \/ ScanFails(t) \/ ScanSkipsStamped(t)
  BY <1>4, <1>10 DEF ScanEnds, ScanSkipsUnneeded, ScanParks, ScanFails,
     ScanSkipsStamped, countVars, workerVars
<1>11. ASSUME NEW t \in Setscene, ScanLaunches(t) PROVE StampInv'
  <2>1. CASE Send(t, "setscene") /\ sq_live' = sq_live \cup {t} /\ UNCHANGED pipe
    <3>1. t \notin sq_live \cup (runq_running \ runq_complete)
      <4>1. t \in Candidates
        BY <1>11 DEF ScanLaunches, Scanned
      <4> QED
        BY <1>2, <4>1 DEF Candidates, Sound, LiveSound, CoverSound
    <3>2. \A j \in jobs : j.tid # t
      BY <1>3, <3>1 DEF Sound, QueueInv, Accounted, Executing, Restoring, Kinds
    <3>3. \A j \in jobs : StampFile(j.tid, j.kind, InitHash)
                          # StampFile(t, "setscene", InitHash)
      <4> SUFFICES ASSUME NEW j \in jobs, j.kind = "setscene",
                          StampName[j.tid] = StampName[t], InitHash[j.tid] = InitHash[t]
                   PROVE  FALSE
        BY DEF StampFile
      <4>1. j.tid \in sq_live
        BY <1>2 DEF Sound, Accounted, Restoring
      <4>2. j.tid \in Setscene
        BY <1>2, <4>1 DEF TypeOK, SceneVarsType
      <4>3. PendingIndex(j.tid, InitHash[j.tid]) = PendingIndex(t, InitHash[t])
        BY <4>2 DEF PendingIndex, StampsNamePn
      <4> QED
        BY <1>1, <2>1, <3>2, <4>1, <4>3 DEF DeferredApart
    <3> QED
      BY <1>1, <1>2, <2>1, <3>2, <3>3, SendStamps, GraphAssumption
      DEF Kinds, QueueInv, Sound
  <2>2. CASE UNCHANGED <<build_stamps, jobs>>
    BY <1>4, <2>2
  <2> QED
    BY <1>11, <2>1, <2>2 DEF ScanLaunches, BrokenPipe
<1>12. ASSUME Schedules, ~\E t \in Tasks : SchedLaunches(t) PROVE StampInv'
  BY <1>4, <1>12 DEF Schedules, UpdateHoldoff, SettleScene, SchedNothing, SchedRefuses,
     SchedSkips, SchedNoExec, Finishes, TailWaits, TailEnds, TailForces, countVars,
     workerVars
<1>13. ASSUME NEW t \in Tasks, SchedLaunches(t) PROVE StampInv'
  <2>1. CASE Send(t, "run") /\ UNCHANGED pipe
    <3>1. Scheduled(t)
      BY <1>13 DEF SchedLaunches
    <3>2. t \notin sq_live \cup runq_running
      BY <1>2, <3>1, ScheduledFree
    <3>3. \A j \in jobs : j.tid # t
      BY <1>2, <1>3, <3>2 DEF Sound, Accounted, Executing, Restoring, Kinds
    <3>4. SchedStamp(t) \notin ValuesOf(build_stamps)
      BY <3>1 DEF Scheduled, Runnable
    <3>5. \A j \in jobs : StampFile(j.tid, j.kind, InitHash) # StampFile(t, "run", InitHash)
      BY <3>4 DEF StampInv, SchedStamp, ValuesOf
    <3> QED
      BY <1>1, <1>2, <2>1, <3>3, <3>5, SendStamps DEF Kinds, QueueInv, Sound
  <2>2. CASE UNCHANGED <<build_stamps, jobs>>
    BY <1>4, <2>2
  <2> QED
    BY <1>13, <2>1, <2>2 DEF SchedLaunches, BrokenPipe
<1>14. CASE Environment \/ Done \/ UNCHANGED vars
  <2>1. UNCHANGED build_stamps /\ jobs' \subseteq jobs
    <3>1. \A j \in jobs, h \in Hashes : ~JobReports(j, h)
      BY <1>2 DEF JobReports, TypeOK, EnvType
    <3> QED
      BY <1>14, <3>1 DEF Environment, WorkerSteps, WorkerFinishesNow, WorkerQuits,
         JobEnds, WorkerDies, UserStops, OnlyWorker, Done, vars, countVars, workerVars
  <2> QED
    BY <1>4, <2>1
<1>15. CASE Scans
  BY <1>10, <1>11, <1>15 DEF Scans
<1>16. CASE Schedules
  BY <1>12, <1>13, <1>16
<1> QED
  BY <1>1, <1>5, <1>8, <1>9, <1>14, <1>15, <1>16 DEF Next, Cooker

-----------------------------------------------------------------------------
LEMMA TurnInvariant ==
  ASSUME MaxRehash = 0, SharersWait
  PROVE  Spec /\ [][~\E t \in Setscene : TailForces(t)]_vars => [](QueueInv /\ TurnInv)
<1>1. Init => TurnInv
  <2> SUFFICES ASSUME Init PROVE TurnInv
    OBVIOUS
  <2>1. \E S \in InitStamps : files \subseteq S
    BY DEF Init, AtStart
  <2> QED
    BY <2>1 DEF Init, TurnInv, DeferredApart
<1>2. SteadyHardDeps
  BY DEF SteadyHardDeps
<1>3. Spec => []QueueInv
  BY <1>2, QueueInvariant
<1>4. TurnInv /\ UNCHANGED vars => TurnInv'
  BY DEF vars, sceneVars, hashVars, diskVars, controlVars, runqVars, TurnInv, DeferredApart
<1>5. QueueInv /\ TurnInv /\ QueueInv' /\ [Next]_vars
        /\ ~(\E t \in Setscene : TailForces(t)) => TurnInv'
  BY TurnStep
<1> QED
  BY <1>1, <1>3, <1>4, <1>5, PTL DEF Spec

\* Setscene tasks with the same PN and hash are restored one at a time, as long as no
\* hash changes, none of them can be settled before its turn, and the loop has not had
\* to break a deadlock between waiting tasks by force.
THEOREM OneAfterAnother ==
  ASSUME MaxRehash = 0, SharersWait
  PROVE  Spec /\ [][~\E t \in Setscene : TailForces(t)]_vars => []DeferredApart
<1>1. TurnInv => DeferredApart
  BY DEF TurnInv
<1> QED
  BY <1>1, TurnInvariant, PTL

\* In such a build no two tasks that would write the same stamp run at the same time:
\* ordinary tasks because the scheduler looks at build_stamps, restored ones because
\* tasks with the same stamp have the same PN.
THEOREM OneWriterEach ==
  ASSUME MaxRehash = 0, SharersWait, StampsNamePn
  PROVE  Spec /\ [][~\E t \in Setscene : TailForces(t)]_vars => []StampsApart
<1>1. Init => StampInv
  BY DEF Init, StampInv, StampsApart
<1>2. QueueInv /\ TurnInv /\ StampInv /\ QueueInv' /\ TurnInv' /\ [Next]_vars => StampInv'
  BY StampStep DEF TurnInv
<1>3. StampInv => StampsApart
  BY DEF StampInv
<1> QED
  BY <1>1, <1>2, <1>3, TurnInvariant, PTL DEF Spec
=============================================================================
