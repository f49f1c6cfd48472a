--------------------------- MODULE RunQueueProofs ---------------------------
(***************************************************************************)
(* Theorems about the run queue, for every task graph, every number of     *)
(* threads and every mode: types, and that nothing is started before what  *)
(* it depends on is complete.                                              *)
(*                                                                         *)
(* The lemmas come first: the operators of module SceneQueue return scenes *)
(* and say what they settle, and the recursive definitions on the graph    *)
(* obey their equations (tlapm does not unfold them; the least solution is *)
(* one, and the graph has no cycle).                                       *)
(*                                                                         *)
(* DepsComplete is inductive next to TypeOK: runq_complete only grows, and *)
(* whatever adds to runq_buildable has looked at the dependencies first.   *)
(***************************************************************************)
EXTENDS RunQueueProps, WellFoundedInduction, TLAPS

-----------------------------------------------------------------------------
(* The operators of module SceneQueue return scenes.                       *)

\* sorted() on a set of task ids that is not empty has a first element.
LEMMA FirstOfIn ==
  ASSUME NEW S, S \subseteq Tasks, S # {}
  PROVE  FirstOf(S) \in S
<1> DEFINE Ranks == {Rank[t] : t \in S}
<1>1. Ranks \subseteq Nat /\ Ranks # {}
  BY GraphAssumption
<1>2. \E x \in Ranks : \A y \in Ranks : ~(<<y, x>> \in OpToRel(<, Nat))
  BY <1>1, NatLessThanWellFounded, WFMin, Zenon
<1>3. PICK x \in Ranks : \A y \in Ranks : ~(<<y, x>> \in OpToRel(<, Nat))
  BY <1>2
<1>4. \A y \in Ranks : x <= y
  <2> TAKE y \in Ranks
  <2>1. x \in Nat /\ y \in Nat
    BY <1>1, <1>3
  <2>2. ~(y < x)
    BY <1>3, <2>1 DEF OpToRel
  <2>3. QED
    BY <2>1, <2>2
<1>5. PICK t \in S : Rank[t] = x
  BY <1>3
<1>6. \A u \in S : Rank[t] <= Rank[u]
  BY <1>4, <1>5
<1>7. QED
  BY <1>5, <1>6 DEF FirstOf

\* The deferrals of a scene: functions from setscene tasks to setscene tasks.
Deferrals == UNION {[D -> Setscene] : D \in SUBSET Setscene}

LEMMA DeferralsIntro ==
  ASSUME NEW D, D \subseteq Setscene, NEW f, f \in [D -> Setscene]
  PROVE  f \in Deferrals
BY DEF Deferrals

LEMMA DeferralsElim ==
  ASSUME NEW f, f \in Deferrals
  PROVE  /\ DOMAIN f \subseteq Setscene
         /\ f \in [DOMAIN f -> Setscene]
         /\ \A t \in DOMAIN f : f[t] \in Setscene
BY DEF Deferrals

LEMMA WithoutType ==
  ASSUME NEW f, f \in Deferrals, NEW S
  PROVE  Without(f, S) \in Deferrals
<1>1. /\ DOMAIN f \ S \subseteq Setscene
      /\ \A t \in DOMAIN f \ S : f[t] \in Setscene
  BY DeferralsElim
<1>2. Without(f, S) \in [DOMAIN f \ S -> Setscene]
  BY <1>1 DEF Without
<1>3. QED
  BY <1>1, <1>2, DeferralsIntro

LEMMA NewlyDoneType ==
  ASSUME NEW done, NEW K
  PROVE  NewlyDone(done, K) \subseteq Tasks
BY DEF NewlyDone

LEMMA UpdateCountersType ==
  ASSUME NEW s \in SceneType, NEW K, K \subseteq Setscene
  PROVE  UpdateCounters(s, K) \in SceneType
<1>1. s.done \cup K \cup NewlyDone(s.done, K) \subseteq Tasks
  BY NewlyDoneType, GraphAssumption DEF SceneType
<1>2. QED
  BY <1>1 DEF SceneType, UpdateCounters

LEMMA CoverSceneType ==
  ASSUME NEW s \in SceneType, NEW K, K \subseteq Setscene
  PROVE  CoverScene(s, K) \in SceneType
<1>1. [s EXCEPT !.covered = @ \cup K] \in SceneType
  BY DEF SceneType
<1>2. QED
  BY <1>1, UpdateCountersType DEF CoverScene

LEMMA SkipSceneType ==
  ASSUME NEW s \in SceneType, NEW K, K \subseteq Setscene
  PROVE  SkipScene(s, K) \in SceneType
<1>1. [s EXCEPT !.running = @ \cup K, !.buildable = @ \cup K] \in SceneType
  BY DEF SceneType
<1>2. QED
  BY <1>1, CoverSceneType DEF SkipScene

LEMMA FailSceneType ==
  ASSUME NEW s \in SceneType, NEW F, NEW outright, NEW settled
  PROVE  FailScene(s, F, outright, settled) \in SceneType
<1> DEFINE K == FailClosure(s, F, settled)
           marked == IF outright THEN K ELSE K \ F
           s1 == [s EXCEPT !.notcovered = @ \cup K, !.running = @ \cup marked,
                           !.buildable = @ \cup marked]
<1>1. K \subseteq Setscene
  BY DEF FailClosure
<1>2. marked \subseteq Setscene
  BY <1>1
<1> HIDE DEF K, marked
<1>3. s1 \in SceneType
  BY <1>1, <1>2 DEF SceneType
<1> HIDE DEF s1
<1>4. UpdateCounters(s1, K) \in SceneType
  BY <1>1, <1>3, UpdateCountersType
<1>5. QED
  BY <1>4 DEF FailScene, s1, K, marked

LEMMA UpdateSceneType ==
  ASSUME NEW s \in SceneType, NEW tids, tids \subseteq Setscene,
         NEW disk, NEW uh, NEW cache
  PROVE  UpdateScene(s, tids, disk, uh, cache) \in SceneType
<1> DEFINE skipped == {t \in tids : SettledByStamps(disk, t, uh)}
           valid == {t \in tids \ skipped : SstateObject(t, uh[t]) \in cache}
           s1 == SkipScene(s, skipped)
           hopeless == (s1.outright \ tids) \cup
                         (tids \ (skipped \cup valid \cup Resolved(s1)
                                    \cup DOMAIN s1.deferred))
<1>1. skipped \subseteq Setscene
  OBVIOUS
<1> HIDE DEF skipped
<1>2. s1 \in SceneType
  BY <1>1, SkipSceneType
<1> HIDE DEF s1
<1>3. hopeless \subseteq Setscene
  BY <1>2 DEF SceneType
<1> HIDE DEF hopeless
<1>4. [s1 EXCEPT !.outright = hopeless] \in SceneType
  BY <1>2, <1>3 DEF SceneType
<1>5. QED
  BY <1>4 DEF UpdateScene, hopeless, s1, valid, skipped

LEMMA ReleaseDeferredType ==
  ASSUME NEW s \in SceneType, NEW t, NEW disk, NEW uh, NEW cache
  PROVE  ReleaseDeferred(s, t, disk, uh, cache) \in SceneType
<1>1. CASE Waiting(s, t) = {}
  BY <1>1 DEF ReleaseDeferred
<1>2. CASE Waiting(s, t) # {}
  <2> DEFINE first == FirstOf(Waiting(s, t))
             rest == [d \in DOMAIN s.deferred \ {first} |->
                        IF s.deferred[d] = t THEN first ELSE s.deferred[d]]
             s1 == [s EXCEPT !.deferred = rest]
  <2>1. s.deferred \in Deferrals
    BY DEF SceneType, Deferrals
  <2>2. /\ DOMAIN s.deferred \subseteq Setscene
        /\ \A d \in DOMAIN s.deferred : s.deferred[d] \in Setscene
    BY <2>1, DeferralsElim
  <2>3. first \in Setscene
    <3>1. Waiting(s, t) \subseteq Setscene /\ Waiting(s, t) \subseteq Tasks
      BY <2>2, GraphAssumption DEF Waiting
    <3>2. QED
      BY <1>2, <3>1, FirstOfIn
  <2> HIDE DEF first
  <2>4. rest \in [DOMAIN s.deferred \ {first} -> Setscene]
    BY <2>2, <2>3
  <2>5. rest \in Deferrals
    <3>1. DOMAIN s.deferred \ {first} \subseteq Setscene
      BY <2>2
    <3>2. QED
      BY <2>4, <3>1, DeferralsIntro
  <2> HIDE DEF rest
  <2>6. s1 \in SceneType
    BY <2>5 DEF SceneType, Deferrals
  <2> HIDE DEF s1
  <2>7. UpdateScene(s1, {first}, disk, uh, cache) \in SceneType
    BY <2>3, <2>6, UpdateSceneType
  <2>8. QED
    BY <1>2, <2>7 DEF ReleaseDeferred, s1, rest, first
<1>3. QED
  BY <1>1, <1>2

LEMMA LeaderType ==
  ASSUME NEW i, Sharing(i) # {}
  PROVE  Leader(i) \in Setscene
<1>1. Sharing(i) \subseteq Setscene /\ Sharing(i) \subseteq Tasks
  BY GraphAssumption DEF Sharing
<1>2. QED
  BY <1>1, FirstOfIn DEF Leader

LEMMA InitiallyDeferredType == InitiallyDeferred \in Deferrals
<1> DEFINE D == {u \in Setscene : Leader(PendingIndex(u, InitHash[u])) # u}
<1>1. \A t \in D : Leader(PendingIndex(t, InitHash[t])) \in Setscene
  <2> TAKE t \in D
  <2>1. t \in Sharing(PendingIndex(t, InitHash[t]))
    BY DEF Sharing
  <2>2. QED
    BY <2>1, LeaderType
<1>2. D \subseteq Setscene
  OBVIOUS
<1>3. InitiallyDeferred \in [D -> Setscene]
  BY <1>1 DEF InitiallyDeferred
<1>4. QED
  BY <1>2, <1>3, DeferralsIntro

\* The scene the executor starts with is one.
LEMMA InitialSceneType ==
  ASSUME NEW disk, NEW cache
  PROVE  InitialScene(disk, cache) \in SceneType
<1> DEFINE s == [buildable |-> {t \in Setscene : SqRevdeps(t) = {}},
                 running |-> {}, covered |-> {}, notcovered |-> {}, notneeded |-> {},
                 done |-> Unskippable \ Setscene,
                 needed |-> {}, parked |-> {}, deferred |-> InitiallyDeferred,
                 outright |-> {}, dirty |-> TRUE]
<1>1. InitiallyDeferred \in UNION {[D -> Setscene] : D \in SUBSET Setscene}
  BY InitiallyDeferredType DEF Deferrals
<1>2. Unskippable \ Setscene \subseteq Tasks
  BY DEF Unskippable
<1>3. s \in SceneType
  BY <1>1, <1>2 DEF SceneType
<1> HIDE DEF s
<1>4. UpdateScene(s, Setscene, disk, InitHash, cache) \in SceneType
  BY <1>3, UpdateSceneType
<1>5. QED
  BY <1>4 DEF InitialScene, s
-----------------------------------------------------------------------------
(* What the operators on the scene do to the tasks settled and to those being *)
(* restored.                                                                  *)

\* s2 is s after the tasks C were covered, N not covered and M marked as run.
Settles(s, s2, C, N, M) ==
  /\ s2.covered = s.covered \cup C /\ s2.notcovered = s.notcovered \cup N
  /\ s2.running = s.running \cup M
  /\ DOMAIN s2.deferred \subseteq DOMAIN s.deferred
  /\ s2.dirty = (s.dirty \/ C \cup N # {})

LEMMA UpdateCountersFields ==
  ASSUME NEW s \in SceneType, NEW K
  PROVE  LET s2 == UpdateCounters(s, K)
         IN  /\ s2.covered = s.covered /\ s2.notcovered = s.notcovered
             /\ s2.running = s.running /\ s2.deferred = s.deferred
             /\ s2.dirty = (s.dirty \/ K # {})
BY DEF SceneType, UpdateCounters

LEMMA CoverSceneSettles ==
  ASSUME NEW s \in SceneType, NEW K, K \subseteq Setscene
  PROVE  Settles(s, CoverScene(s, K), K, {}, {})
<1> DEFINE s1 == [s EXCEPT !.covered = @ \cup K]
<1>1. s1 \in SceneType
  BY DEF SceneType
<1>2. /\ s1.covered = s.covered \cup K /\ s1.notcovered = s.notcovered
      /\ s1.running = s.running /\ s1.deferred = s.deferred /\ s1.dirty = s.dirty
  BY DEF SceneType
<1> HIDE DEF s1
<1>3. CoverScene(s, K) = UpdateCounters(s1, K)
  BY DEF CoverScene, s1
<1>4. QED
  BY <1>1, <1>2, <1>3, UpdateCountersFields DEF Settles

LEMMA SkipSceneSettles ==
  ASSUME NEW s \in SceneType, NEW K, K \subseteq Setscene
  PROVE  Settles(s, SkipScene(s, K), K, {}, K)
<1> DEFINE s1 == [s EXCEPT !.running = @ \cup K, !.buildable = @ \cup K]
<1>1. s1 \in SceneType
  BY DEF SceneType
<1>2. /\ s1.covered = s.covered /\ s1.notcovered = s.notcovered
      /\ s1.running = s.running \cup K /\ s1.deferred = s.deferred /\ s1.dirty = s.dirty
  BY DEF SceneType
<1> HIDE DEF s1
<1>3. SkipScene(s, K) = CoverScene(s1, K)
  BY DEF SkipScene, s1
<1>4. Settles(s1, CoverScene(s1, K), K, {}, {})
  BY <1>1, CoverSceneSettles
<1>5. QED
  BY <1>2, <1>3, <1>4 DEF Settles

LEMMA FailSceneSettles ==
  ASSUME NEW s \in SceneType, NEW F, NEW outright, NEW settled
  PROVE  LET K == FailClosure(s, F, settled)
         IN  Settles(s, FailScene(s, F, outright, settled), {}, K,
                     IF outright THEN K ELSE K \ F)
<1> DEFINE K == FailClosure(s, F, settled)
           marked == IF outright THEN K ELSE K \ F
           s1 == [s EXCEPT !.notcovered = @ \cup K, !.running = @ \cup marked,
                           !.buildable = @ \cup marked]
<1>1. K \subseteq Setscene
  BY DEF FailClosure
<1>2. marked \subseteq Setscene
  BY <1>1
<1> HIDE DEF K, marked
<1>3. s1 \in SceneType
  BY <1>1, <1>2 DEF SceneType
<1>4. /\ s1.covered = s.covered /\ s1.notcovered = s.notcovered \cup K
      /\ s1.running = s.running \cup marked /\ s1.deferred = s.deferred
      /\ s1.dirty = s.dirty
  BY DEF SceneType
<1> HIDE DEF s1
<1>5. FailScene(s, F, outright, settled) = UpdateCounters(s1, K)
  BY DEF FailScene, s1, K, marked
<1>6. Settles(s, UpdateCounters(s1, K), {}, K, marked)
  BY <1>3, <1>4, UpdateCountersFields DEF Settles
<1>7. QED
  BY <1>5, <1>6 DEF K, marked

\* What the stamps settle is skipped, and nothing else.
LEMMA UpdateSceneSkips ==
  ASSUME NEW s \in SceneType, NEW tids, tids \subseteq Setscene,
         NEW disk, NEW uh, NEW cache
  PROVE  LET K == {t \in tids : SettledByStamps(disk, t, uh)}
         IN  Settles(s, UpdateScene(s, tids, disk, uh, cache), K, {}, K)
<1> DEFINE skipped == {t \in tids : SettledByStamps(disk, t, uh)}
           valid == {t \in tids \ skipped : SstateObject(t, uh[t]) \in cache}
           s1 == SkipScene(s, skipped)
           hopeless == (s1.outright \ tids) \cup
                         (tids \ (skipped \cup valid \cup Resolved(s1)
                                    \cup DOMAIN s1.deferred))
<1>1. skipped \subseteq Setscene
  OBVIOUS
<1> HIDE DEF skipped
<1>2. s1 \in SceneType /\ Settles(s, s1, skipped, {}, skipped)
  BY <1>1, SkipSceneType, SkipSceneSettles
<1> HIDE DEF s1, hopeless
<1>3. Settles(s, [s1 EXCEPT !.outright = hopeless], skipped, {}, skipped)
  BY <1>2 DEF Settles, SceneType
<1>4. UpdateScene(s, tids, disk, uh, cache) = [s1 EXCEPT !.outright = hopeless]
  BY DEF UpdateScene, hopeless, s1, valid, skipped
<1>5. QED
  BY <1>3, <1>4 DEF skipped

LEMMA UpdateSceneSettles ==
  ASSUME NEW s \in SceneType, NEW tids, tids \subseteq Setscene,
         NEW disk, NEW uh, NEW cache
  PROVE  \E K \in SUBSET tids :
           Settles(s, UpdateScene(s, tids, disk, uh, cache), K, {}, K)
<1> DEFINE K == {t \in tids : SettledByStamps(disk, t, uh)}
<1>1. Settles(s, UpdateScene(s, tids, disk, uh, cache), K, {}, K)
  BY UpdateSceneSkips
<1>2. K \in SUBSET tids
  OBVIOUS
<1> HIDE DEF K
<1>3. QED
  BY <1>1, <1>2

LEMMA ReleaseDeferredSettles ==
  ASSUME NEW s \in SceneType, NEW t, NEW disk, NEW uh, NEW cache
  PROVE  \E K \in SUBSET (Setscene \cap DOMAIN s.deferred) :
           Settles(s, ReleaseDeferred(s, t, disk, uh, cache), K, {}, K)
<1>1. CASE Waiting(s, t) = {}
  <2>1. ReleaseDeferred(s, t, disk, uh, cache) = s
    BY <1>1 DEF ReleaseDeferred
  <2>2. Settles(s, s, {}, {}, {})
    BY DEF Settles, SceneType
  <2>3. QED
    BY <2>1, <2>2
<1>2. CASE Waiting(s, t) # {}
  <2> DEFINE first == FirstOf(Waiting(s, t))
             rest == [d \in DOMAIN s.deferred \ {first} |->
                        IF s.deferred[d] = t THEN first ELSE s.deferred[d]]
             s1 == [s EXCEPT !.deferred = rest]
  <2>1. s.deferred \in Deferrals
    BY DEF SceneType, Deferrals
  <2>2. /\ DOMAIN s.deferred \subseteq Setscene
        /\ \A d \in DOMAIN s.deferred : s.deferred[d] \in Setscene
    BY <2>1, DeferralsElim
  <2>3. first \in Setscene /\ first \in DOMAIN s.deferred
    <3>1. /\ Waiting(s, t) \subseteq Setscene /\ Waiting(s, t) \subseteq Tasks
          /\ Waiting(s, t) \subseteq DOMAIN s.deferred
      BY <2>2, GraphAssumption DEF Waiting
    <3>2. first \in Waiting(s, t)
      BY <1>2, <3>1, FirstOfIn
    <3>3. QED
      BY <3>1, <3>2
  <2> HIDE DEF first
  <2>4. rest \in [DOMAIN s.deferred \ {first} -> Setscene]
    BY <2>2, <2>3
  <2>5. rest \in Deferrals
    <3>1. DOMAIN s.deferred \ {first} \subseteq Setscene
      BY <2>2
    <3>2. QED
      BY <2>4, <3>1, DeferralsIntro
  <2>6. DOMAIN rest \subseteq DOMAIN s.deferred
    BY <2>4
  <2> HIDE DEF rest
  <2>7. s1 \in SceneType
    BY <2>5 DEF SceneType, Deferrals
  <2>8. /\ s1.covered = s.covered /\ s1.notcovered = s.notcovered
        /\ s1.running = s.running /\ s1.deferred = rest /\ s1.dirty = s.dirty
    BY DEF SceneType
  <2> HIDE DEF s1
  <2>9. PICK K \in SUBSET {first} :
          Settles(s1, UpdateScene(s1, {first}, disk, uh, cache), K, {}, K)
    BY <2>3, <2>7, UpdateSceneSettles
  <2>10. Settles(s, UpdateScene(s1, {first}, disk, uh, cache), K, {}, K)
    BY <2>6, <2>8, <2>9 DEF Settles
  <2>11. ReleaseDeferred(s, t, disk, uh, cache)
           = UpdateScene(s1, {first}, disk, uh, cache)
    BY <1>2 DEF ReleaseDeferred, s1, rest, first
  <2>12. QED
    BY <2>3, <2>9, <2>10, <2>11
<1>3. QED
  BY <1>1, <1>2

\* The rule of scenequeue_updatecounters(fail = True), as closure of a set S.
FailSpreads(s, F, settled, S) ==
  \A t \in Setscene :
    (\/ t \in F
     \/ t \notin Resolved(s) \cup settled /\ \E h \in HardDeps[t] : h \in S)
    => t \in S

LEMMA RuleValue ==
  ASSUME NEW u, NEW L, NEW F, NEW S, NEW H, NEW g,
         \A h \in H : g[h] <=> h \in L,
         u \in L <=> (u \in F \/ (u \notin S /\ \E h \in H : h \in L))
  PROVE  (u \in L) = (u \in F \/ (u \notin S /\ \E h \in H : g[h]))
<1>1. u \in L <=> (u \in F \/ (u \notin S /\ \E h \in H : g[h]))
  OBVIOUS
<1>2. QED
  BY <1>1

\* FailClosure obeys its rule on every graph of hard dependencies, cyclic ones
\* included: the least closed set is a solution of the recursive definition.
LEMMA FailClosureRule ==
  ASSUME NEW s, NEW F, NEW settled, NEW t \in Setscene
  PROVE  t \in FailClosure(s, F, settled) <=>
           \/ t \in F
           \/ /\ t \notin Resolved(s) \cup settled
              /\ \E h \in HardDeps[t] : h \in FailClosure(s, F, settled)
<1> DEFINE Doomed[u \in Setscene] ==
             \/ u \in F
             \/ /\ u \notin Resolved(s) \cup settled
                /\ \E h \in HardDeps[u] : Doomed[h]
           Rule(g) == [u \in Setscene |->
             \/ u \in F
             \/ /\ u \notin Resolved(s) \cup settled
                /\ \E h \in HardDeps[u] : g[h]]
           Least == {u \in Setscene : \A S \in SUBSET Setscene :
                                        FailSpreads(s, F, settled, S) => u \in S}
           least == [u \in Setscene |-> u \in Least]
<1>1. HardDeps \in [Setscene -> SUBSET Setscene]
  BY GraphAssumption
<1>2. FailSpreads(s, F, settled, Least)
  BY <1>1 DEF FailSpreads
<1>3. \A u \in Least :
        \/ u \in F
        \/ /\ u \notin Resolved(s) \cup settled
           /\ \E h \in HardDeps[u] : h \in Least
  <2> SUFFICES ASSUME NEW u \in Least, u \notin F,
                      ~(/\ u \notin Resolved(s) \cup settled
                        /\ \E h \in HardDeps[u] : h \in Least)
               PROVE  FALSE
    OBVIOUS
  <2>1. FailSpreads(s, F, settled, Least \ {u})
    BY <1>1, <1>2 DEF FailSpreads
  <2>2. QED
    BY <2>1
<1>4. least = Rule(least)
  <2>1. \A u \in Setscene :
          u \in Least <=> (\/ u \in F
                           \/ /\ u \notin Resolved(s) \cup settled
                              /\ \E h \in HardDeps[u] : h \in Least)
    BY <1>2, <1>3 DEF FailSpreads
  <2>2. \A u \in Setscene : \A h \in HardDeps[u] : least[h] <=> h \in Least
    BY <1>1
  <2> HIDE DEF Least, least
  <2>3. \A u \in Setscene :
          (u \in Least) = (\/ u \in F
                           \/ /\ u \notin Resolved(s) \cup settled
                              /\ \E h \in HardDeps[u] : least[h])
    <3> TAKE u \in Setscene
    <3> DEFINE S == Resolved(s) \cup settled
               H == HardDeps[u]
    <3>1. \A h \in H : least[h] <=> h \in Least
      BY <2>2
    <3>2. u \in Least <=> (u \in F \/ (u \notin S /\ \E h \in H : h \in Least))
      BY <2>1
    <3>3. (u \in Least) = (u \in F \/ (u \notin S /\ \E h \in H : least[h]))
      <4> HIDE DEF S, H
      <4>1. QED
        BY <3>1, <3>2, RuleValue
    <3>4. QED
      BY <3>3
  <2>4. least = [u \in Setscene |-> u \in Least]
    BY DEF least
  <2>5. QED
    BY <2>3, <2>4, Zenon
<1>5. Doomed = Rule(Doomed)
  BY <1>4
<1>6. QED
  BY <1>1, <1>5 DEF FailClosure

\* A task whose hard dependencies are settled, and not failing now, is not dragged
\* along; nor is a settled one.
LEMMA FailClosureSpares ==
  ASSUME NEW s, NEW F, NEW settled, NEW t \in Setscene, t \notin F,
         HardDeps[t] \subseteq Resolved(s) \ F \/ t \in Resolved(s)
  PROVE  t \notin FailClosure(s, F, settled)
<1>1. HardDeps[t] \subseteq Setscene
  BY GraphAssumption
<1>2. QED
  BY <1>1, FailClosureRule

-----------------------------------------------------------------------------
(* The recursive definitions of the task graph obey their equations: the   *)
(* least solution is one.                                                  *)

LEMMA RevDepsAre ==
  ASSUME NEW t \in Tasks
  PROVE  /\ RevDeps(t) \subseteq Tasks
         /\ \A r \in Tasks : r \in RevDeps(t) <=> t \in Depends[r]
BY DEF RevDeps

\* Pairs of a task and a setscene task above it.
OwnersClosed(P) ==
  \A t \in Tasks : \A r \in RevDeps(t) : \A s \in Setscene :
    (r = s \/ (r \notin Setscene /\ <<r, s>> \in P)) => <<t, s>> \in P

LEMMA OwnersRule ==
  ASSUME NEW t \in Tasks
  PROVE  Owners[t] = UNION {IF r \in Setscene THEN {r} ELSE Owners[r] : r \in RevDeps(t)}
<1> DEFINE Rule(g) == [u \in Tasks |->
             UNION {IF r \in Setscene THEN {r} ELSE g[r] : r \in RevDeps(u)}]
           Pairs == Tasks \X Setscene
           Least == {p \in Pairs : \A P \in SUBSET Pairs : OwnersClosed(P) => p \in P}
           least == [u \in Tasks |-> {s \in Setscene : <<u, s>> \in Least}]
<1>1. OwnersClosed(Least)
  <2> SUFFICES ASSUME NEW u \in Tasks, NEW r \in RevDeps(u), NEW s \in Setscene,
                      r = s \/ (r \notin Setscene /\ <<r, s>> \in Least),
                      NEW P \in SUBSET Pairs, OwnersClosed(P)
               PROVE  <<u, s>> \in P
    BY DEF OwnersClosed
  <2>1. r = s \/ (r \notin Setscene /\ <<r, s>> \in P)
    OBVIOUS
  <2> QED
    BY <2>1 DEF OwnersClosed
<1>2. \A u \in Tasks : \A s \in Setscene : <<u, s>> \in Least =>
        \E r \in RevDeps(u) : r = s \/ (r \notin Setscene /\ <<r, s>> \in Least)
  <2> SUFFICES ASSUME NEW u \in Tasks, NEW s \in Setscene, <<u, s>> \in Least,
                      \A r \in RevDeps(u) :
                        ~(r = s \/ (r \notin Setscene /\ <<r, s>> \in Least))
               PROVE  FALSE
    OBVIOUS
  <2> DEFINE P == Least \ {<<u, s>>}
  <2>1. P \in SUBSET Pairs
    OBVIOUS
  <2>2. OwnersClosed(P)
    <3> SUFFICES ASSUME NEW v \in Tasks, NEW r \in RevDeps(v), NEW x \in Setscene,
                        r = x \/ (r \notin Setscene /\ <<r, x>> \in P)
                 PROVE  <<v, x>> \in P
      BY DEF OwnersClosed
    <3>1. <<v, x>> \in Least
      BY <1>1 DEF OwnersClosed
    <3>2. <<v, x>> # <<u, s>>
      OBVIOUS
    <3> HIDE DEF Least
    <3> QED
      BY <3>1, <3>2
  <2>3. <<u, s>> \in P
    BY <2>1, <2>2
  <2> QED
    BY <2>3
<1>3. \A u \in Tasks :
        least[u] = UNION {IF r \in Setscene THEN {r} ELSE least[r] : r \in RevDeps(u)}
  <2> SUFFICES ASSUME NEW u \in Tasks
               PROVE  least[u] =
                   UNION {IF r \in Setscene THEN {r} ELSE least[r] : r \in RevDeps(u)}
    OBVIOUS
  <2>1. RevDeps(u) \subseteq Tasks
    BY RevDepsAre
  <2>2. \A v \in Tasks : \A s : s \in least[v] <=> (s \in Setscene /\ <<v, s>> \in Least)
    OBVIOUS
  <2> HIDE DEF Least, least
  <2>3. \A s \in least[u] : \E r \in RevDeps(u) :
          s \in (IF r \in Setscene THEN {r} ELSE least[r])
    <3> SUFFICES ASSUME NEW s \in least[u]
                 PROVE  \E r \in RevDeps(u) :
                          s \in (IF r \in Setscene THEN {r} ELSE least[r])
      OBVIOUS
    <3>1. PICK r \in RevDeps(u) : r = s \/ (r \notin Setscene /\ <<r, s>> \in Least)
      BY <1>2, <2>2
    <3>2. CASE r = s
      <4>1. r \in Setscene
        BY <2>2, <3>2
      <4> QED
        BY <3>2, <4>1
    <3>3. CASE r \notin Setscene /\ <<r, s>> \in Least
      <4>1. s \in least[r]
        BY <2>1, <2>2, <3>3
      <4> QED
        BY <3>3, <4>1
    <3> QED
      BY <3>1, <3>2, <3>3
  <2>4. \A r \in RevDeps(u) : \A s \in (IF r \in Setscene THEN {r} ELSE least[r]) :
          s \in least[u]
    <3> SUFFICES ASSUME NEW r \in RevDeps(u),
                        NEW s \in (IF r \in Setscene THEN {r} ELSE least[r])
                 PROVE  s \in least[u]
      OBVIOUS
    <3>1. s \in Setscene /\ (r = s \/ (r \notin Setscene /\ <<r, s>> \in Least))
      BY <2>1, <2>2
    <3> QED
      BY <1>1, <2>2, <3>1 DEF OwnersClosed
  <2> QED
    BY <2>3, <2>4
<1>4. least = Rule(least)
  <2> HIDE DEF Least
  <2>1. least = [u \in Tasks |-> least[u]]
    OBVIOUS
  <2> HIDE DEF least
  <2> QED
    BY <1>3, <2>1, Zenon
<1> HIDE DEF least
<1>5. Owners = Rule(Owners)
  BY <1>4, Zenon DEF Owners
<1> QED
  BY <1>5

LEMMA OwnersAre ==
  ASSUME NEW t \in Tasks
  PROVE  /\ Owners[t] \subseteq Setscene
         /\ \A r \in RevDeps(t) : IF r \in Setscene THEN r \in Owners[t]
                                  ELSE Owners[r] \subseteq Owners[t]
         /\ \A s \in Owners[t] : \E r \in RevDeps(t) :
              r = s \/ (r \notin Setscene /\ s \in Owners[r])
<1>1. \A u \in Tasks :
        /\ \A r \in RevDeps(u) : IF r \in Setscene THEN r \in Owners[u]
                                 ELSE Owners[r] \subseteq Owners[u]
        /\ \A s \in Owners[u] : \E r \in RevDeps(u) :
             (r \in Setscene /\ r = s) \/ (r \notin Setscene /\ s \in Owners[r])
  <2> SUFFICES ASSUME NEW u \in Tasks
               PROVE  /\ \A r \in RevDeps(u) : IF r \in Setscene THEN r \in Owners[u]
                                               ELSE Owners[r] \subseteq Owners[u]
                      /\ \A s \in Owners[u] : \E r \in RevDeps(u) :
                           (r \in Setscene /\ r = s) \/ (r \notin Setscene /\ s \in Owners[r])
    OBVIOUS
  <2>1. Owners[u] = UNION {IF r \in Setscene THEN {r} ELSE Owners[r] : r \in RevDeps(u)}
    BY OwnersRule
  <2> QED
    BY <2>1
<1>2. Owners[t] \subseteq Setscene
  <2> DEFINE X == {u \in Tasks : ~(Owners[u] \subseteq Setscene)}
  <2>1. ASSUME X # {} PROVE FALSE
    <3>1. PICK u \in X : RevDeps(u) \cap X = {}
      BY <2>1, AcyclicAssumption
    <3>2. RevDeps(u) \subseteq Tasks
      BY RevDepsAre
    <3> QED
      BY <1>1, <3>1, <3>2
  <2> QED
    BY <2>1
<1> QED
  BY <1>1, <1>2

\* The tasks the endpoints of the build reach without passing a setscene task.
ReachClosed(S) ==
  \A t \in Tasks : (\/ RevDeps(t) = {} \/ t \in Cantskip
                    \/ \E r \in RevDeps(t) \ Setscene : r \in S) => t \in S

LEMMA ReachValue ==
  ASSUME NEW u, NEW L, NEW E, NEW C, NEW D, NEW g,
         \A r \in D : g[r] <=> r \in L,
         u \in L <=> (E = {} \/ u \in C \/ \E r \in D : r \in L)
  PROVE  (u \in L) = (E = {} \/ u \in C \/ \E r \in D : g[r])
<1>1. u \in L <=> (E = {} \/ u \in C \/ \E r \in D : g[r])
  OBVIOUS
<1> QED
  BY <1>1

LEMMA UnskippableRule ==
  ASSUME NEW t \in Tasks
  PROVE  IsUnskippable[t] <=> \/ RevDeps(t) = {} \/ t \in Cantskip
                              \/ \E r \in RevDeps(t) \ Setscene : IsUnskippable[r]
<1> DEFINE Rule(g) == [u \in Tasks |-> \/ RevDeps(u) = {} \/ u \in Cantskip
                                       \/ \E r \in RevDeps(u) \ Setscene : g[r]]
           Least == {u \in Tasks : \A S \in SUBSET Tasks : ReachClosed(S) => u \in S}
           least == [u \in Tasks |-> u \in Least]
<1>1. ReachClosed(Least)
  BY DEF ReachClosed
<1>2. \A u \in Least : \/ RevDeps(u) = {} \/ u \in Cantskip
                       \/ \E r \in RevDeps(u) \ Setscene : r \in Least
  <2> SUFFICES ASSUME NEW u \in Least,
                      ~(\/ RevDeps(u) = {} \/ u \in Cantskip
                        \/ \E r \in RevDeps(u) \ Setscene : r \in Least)
               PROVE  FALSE
    OBVIOUS
  <2>1. ReachClosed(Least \ {u})
    BY <1>1 DEF ReachClosed
  <2> QED
    BY <2>1
<1>3. least = Rule(least)
  <2>1. \A u \in Tasks : u \in Least <=>
          (\/ RevDeps(u) = {} \/ u \in Cantskip
           \/ \E r \in RevDeps(u) \ Setscene : r \in Least)
    BY <1>1, <1>2 DEF ReachClosed
  <2>2. \A u \in Tasks : \A r \in RevDeps(u) \ Setscene : least[r] <=> r \in Least
    BY RevDepsAre
  <2> HIDE DEF Least, least
  <2>3. \A u \in Tasks : (u \in Least) = (\/ RevDeps(u) = {} \/ u \in Cantskip
                                          \/ \E r \in RevDeps(u) \ Setscene : least[r])
    <3> TAKE u \in Tasks
    <3> DEFINE D == RevDeps(u) \ Setscene
               none == RevDeps(u)
    <3>1. \A r \in D : least[r] <=> r \in Least
      BY <2>2
    <3>2. u \in Least <=> (none = {} \/ u \in Cantskip \/ \E r \in D : r \in Least)
      BY <2>1
    <3>3. (u \in Least) = (none = {} \/ u \in Cantskip \/ \E r \in D : least[r])
      <4> HIDE DEF D, none
      <4> QED
        BY <3>1, <3>2, ReachValue
    <3> QED
      BY <3>3
  <2>4. least = [u \in Tasks |-> u \in Least]
    BY DEF least
  <2> QED
    BY <2>3, <2>4, Zenon
<1>4. IsUnskippable = Rule(IsUnskippable)
  <2> HIDE DEF Least, least
  <2>1. IsUnskippable = CHOOSE g : g = Rule(g)
    BY DEF IsUnskippable
  <2> HIDE DEF Rule
  <2> QED
    BY <1>3, <2>1, Zenon
<1> HIDE DEF Least, least
<1>5. IsUnskippable[t] = (\/ RevDeps(t) = {} \/ t \in Cantskip
                          \/ \E r \in RevDeps(t) \ Setscene : IsUnskippable[r])
  BY <1>4
<1> QED
  BY <1>5

LEMMA UnskippableAre ==
  ASSUME NEW t \in Tasks
  PROVE  /\ t \in Cantskip => t \in Unskippable
         /\ \A r \in RevDeps(t) \ Setscene : r \in Unskippable => t \in Unskippable
         /\ Owners[t] = {} => t \in Unskippable
<1>1. \A u \in Tasks : u \in Unskippable <=>
        (\/ RevDeps(u) = {} \/ u \in Cantskip
         \/ \E r \in RevDeps(u) \ Setscene : r \in Unskippable)
  <2> TAKE u \in Tasks
  <2>1. IsUnskippable[u] <=> \/ RevDeps(u) = {} \/ u \in Cantskip
                             \/ \E r \in RevDeps(u) \ Setscene : IsUnskippable[r]
    BY UnskippableRule
  <2>2. \A r \in RevDeps(u) \ Setscene : IsUnskippable[r] <=> r \in Unskippable
    BY RevDepsAre DEF Unskippable
  <2> QED
    BY <2>1, <2>2 DEF Unskippable
<1>2. Owners[t] = {} => t \in Unskippable
  <2> DEFINE X == {u \in Tasks : Owners[u] = {} /\ u \notin Unskippable}
  <2>1. ASSUME X # {} PROVE FALSE
    <3>1. PICK u \in X : RevDeps(u) \cap X = {}
      BY <2>1, AcyclicAssumption
    <3>2. RevDeps(u) # {}
      BY <1>1, <3>1
    <3>3. PICK r \in RevDeps(u) : TRUE
      BY <3>2
    <3>4. r \in Tasks \ Setscene /\ Owners[r] = {}
      BY <3>1, RevDepsAre, OwnersAre
    <3> QED
      BY <1>1, <3>1, <3>4
  <2> QED
    BY <2>1
<1> QED
  BY <1>1, <1>2

\* The rule of NewlyDone as closure.
DoneClosed(done, K, S) ==
  \A t \in Tasks :
    (/\ t \notin Setscene \cup done
     /\ \A r \in RevDeps(t) : r \in done \cup K \/ r \in S
     /\ \E r \in RevDeps(t) : r \in K \/ r \in S) => t \in S

LEMMA DoneValue ==
  ASSUME NEW u, NEW L, NEW E, NEW K, NEW D, NEW R, NEW g,
         \A r \in R : g[r] <=> r \in L,
         u \in L <=> (/\ u \notin E /\ \A r \in R : r \in D \/ r \in L
                      /\ \E r \in R : r \in K \/ r \in L)
  PROVE  (u \in L) = (u \notin E /\ (\A r \in R : r \in D \/ g[r])
                      /\ (\E r \in R : r \in K \/ g[r]))
<1>1. u \in L <=> (/\ u \notin E /\ \A r \in R : r \in D \/ g[r]
                   /\ \E r \in R : r \in K \/ g[r])
  OBVIOUS
<1> QED
  BY <1>1

LEMMA NewlyDoneRule ==
  ASSUME NEW done, NEW K, NEW t \in Tasks
  PROVE  t \in NewlyDone(done, K) <=>
           /\ t \notin Setscene \cup done
           /\ \A r \in RevDeps(t) : r \in done \cup K \cup NewlyDone(done, K)
           /\ \E r \in RevDeps(t) : r \in K \cup NewlyDone(done, K)
<1> DEFINE New[u \in Tasks] ==
             /\ u \notin Setscene \cup done
             /\ \A r \in RevDeps(u) : r \in done \cup K \/ New[r]
             /\ \E r \in RevDeps(u) : r \in K \/ New[r]
           Rule(g) == [u \in Tasks |->
             /\ u \notin Setscene \cup done
             /\ \A r \in RevDeps(u) : r \in done \cup K \/ g[r]
             /\ \E r \in RevDeps(u) : r \in K \/ g[r]]
           Least == {u \in Tasks :
                       \A S \in SUBSET Tasks : DoneClosed(done, K, S) => u \in S}
           least == [u \in Tasks |-> u \in Least]
<1>1. DoneClosed(done, K, Least)
  <2> SUFFICES ASSUME NEW u \in Tasks, u \notin Setscene \cup done,
                      \A r \in RevDeps(u) : r \in done \cup K \/ r \in Least,
                      \E r \in RevDeps(u) : r \in K \/ r \in Least,
                      NEW S \in SUBSET Tasks, DoneClosed(done, K, S)
               PROVE  u \in S
    BY DEF DoneClosed
  <2>1. Least \subseteq S
    OBVIOUS
  <2> HIDE DEF Least
  <2> QED
    BY <2>1 DEF DoneClosed
<1>2. \A u \in Least : /\ u \notin Setscene \cup done
                       /\ \A r \in RevDeps(u) : r \in done \cup K \/ r \in Least
                       /\ \E r \in RevDeps(u) : r \in K \/ r \in Least
  <2> SUFFICES ASSUME NEW u \in Least,
                      ~(/\ u \notin Setscene \cup done
                        /\ \A r \in RevDeps(u) : r \in done \cup K \/ r \in Least
                        /\ \E r \in RevDeps(u) : r \in K \/ r \in Least)
               PROVE  FALSE
    OBVIOUS
  <2>1. DoneClosed(done, K, Least \ {u})
    <3> HIDE DEF Least
    <3> SUFFICES ASSUME NEW v \in Tasks, v \notin Setscene \cup done,
                        \A r \in RevDeps(v) : r \in done \cup K \/ r \in Least \ {u},
                        \E r \in RevDeps(v) : r \in K \/ r \in Least \ {u}
                 PROVE  v \in Least \ {u}
      BY DEF DoneClosed
    <3>1. v \in Least
      BY <1>1 DEF DoneClosed
    <3>2. v # u
      OBVIOUS
    <3> QED
      BY <3>1, <3>2
  <2>2. Least \ {u} \in SUBSET Tasks
    OBVIOUS
  <2> QED
    BY <2>1, <2>2
<1>3. least = Rule(least)
  <2>1. \A u \in Tasks : u \in Least <=>
          (/\ u \notin Setscene \cup done
           /\ \A r \in RevDeps(u) : r \in done \cup K \/ r \in Least
           /\ \E r \in RevDeps(u) : r \in K \/ r \in Least)
    <3> HIDE DEF Least
    <3> QED
      BY <1>1, <1>2 DEF DoneClosed
  <2>2. \A u \in Tasks : \A r \in RevDeps(u) : least[r] <=> r \in Least
    BY RevDepsAre
  <2> HIDE DEF Least, least
  <2>3. \A u \in Tasks : (u \in Least) =
          (/\ u \notin Setscene \cup done
           /\ \A r \in RevDeps(u) : r \in done \cup K \/ least[r]
           /\ \E r \in RevDeps(u) : r \in K \/ least[r])
    <3> TAKE u \in Tasks
    <3> DEFINE R == RevDeps(u)
               E == Setscene \cup done
               D == done \cup K
    <3>1. \A r \in R : least[r] <=> r \in Least
      BY <2>2
    <3>2. u \in Least <=> (/\ u \notin E /\ \A r \in R : r \in D \/ r \in Least
                           /\ \E r \in R : r \in K \/ r \in Least)
      BY <2>1
    <3>3. (u \in Least) = (u \notin E /\ (\A r \in R : r \in D \/ least[r])
                           /\ (\E r \in R : r \in K \/ least[r]))
      <4> HIDE DEF R, E, D
      <4> QED
        BY <3>1, <3>2, DoneValue
    <3> QED
      BY <3>3
  <2>4. least = [u \in Tasks |-> u \in Least]
    BY DEF least
  <2> QED
    BY <2>3, <2>4, Zenon
<1> HIDE DEF Least, least
<1>4. New = Rule(New)
  BY <1>3, Zenon
<1>5. NewlyDone(done, K) = {u \in Tasks : New[u]}
  BY DEF NewlyDone
<1> HIDE DEF New
<1>6. New[t] <=> (/\ t \notin Setscene \cup done
                  /\ \A r \in RevDeps(t) : r \in done \cup K \/ New[r]
                  /\ \E r \in RevDeps(t) : r \in K \/ New[r])
  <2>1. New[t] = (/\ t \notin Setscene \cup done
                  /\ \A r \in RevDeps(t) : r \in done \cup K \/ New[r]
                  /\ \E r \in RevDeps(t) : r \in K \/ New[r])
    BY <1>4
  <2> QED
    BY <2>1
<1>7. \A r \in RevDeps(t) : r \in NewlyDone(done, K) <=> New[r]
  BY <1>5, RevDepsAre
<1> QED
  BY <1>5, <1>6, <1>7

\* Nothing becomes done because of no task.
LEMMA NothingNewlyDone ==
  ASSUME NEW done
  PROVE  NewlyDone(done, {}) = {}
<1> DEFINE X == NewlyDone(done, {})
<1>1. X \subseteq Tasks
  BY NewlyDoneType
<1>2. \A t \in X : \E r \in RevDeps(t) : r \in X
  BY <1>1, NewlyDoneRule
<1> HIDE DEF X
<1>3. ASSUME X # {} PROVE FALSE
  <2>1. PICK t \in X : RevDeps(t) \cap X = {}
    BY <1>1, <1>3, AcyclicAssumption
  <2> QED
    BY <1>2, <2>1
<1> QED
  BY <1>3 DEF X

\* What is complete has complete dependencies.
ClosedBelow(complete) == \A t \in complete : Depends[t] \subseteq complete

\* tasks_scenequeue_done, with the tasks res settled: the setscene tasks settled, what
\* has to be visited anyway, and ordinary tasks all of whose owners are settled, or that
\* are complete; and none of those whose reverse dependencies are all done is left out.
DoneSound(done, res, complete) ==
  /\ done \cap Setscene = res
  /\ Unskippable \ Setscene \subseteq done
  /\ \A d \in done \ Setscene :
       d \in Unskippable \cup complete \/ Owners[d] \subseteq res
  /\ \A t \in Tasks \ Setscene : RevDeps(t) \subseteq done => t \in done

LEMMA DoneGrows ==
  ASSUME NEW done, done \subseteq Tasks, NEW res, NEW complete, ClosedBelow(complete),
         DoneSound(done, res, complete), NEW K, K \subseteq Setscene
  PROVE  DoneSound(done \cup K \cup NewlyDone(done, K), res \cup K, complete)
<1> DEFINE X == NewlyDone(done, K)
           D == done \cup K \cup X
<1>1. X \subseteq Tasks /\ K \subseteq Tasks
  BY NewlyDoneType, GraphAssumption
<1>2. \A t \in Tasks : t \in X <=> /\ t \notin Setscene \cup done
                                   /\ \A r \in RevDeps(t) : r \in D
                                   /\ \E r \in RevDeps(t) : r \in K \cup X
  BY NewlyDoneRule
<1> HIDE DEF X
<1>3. D \cap Setscene = res \cup K
  BY <1>1, <1>2 DEF DoneSound
<1>4. Unskippable \ Setscene \subseteq D
  BY DEF DoneSound
<1>5. \A t \in Tasks \ Setscene : RevDeps(t) \subseteq D => t \in D
  BY <1>2 DEF DoneSound
<1>6. \A d \in D \ Setscene :
          d \in Unskippable \cup complete \/ Owners[d] \subseteq res \cup K
  <2> DEFINE B == {d \in D \ Setscene : ~(\/ d \in Unskippable \cup complete
                                          \/ Owners[d] \subseteq res \cup K)}
  <2>1. B \subseteq X
    BY DEF DoneSound
  <2>2. ASSUME B # {} PROVE FALSE
    <3>1. PICK d \in B : RevDeps(d) \cap B = {}
      BY <1>1, <2>1, <2>2, AcyclicAssumption
    <3>2. /\ d \in Tasks /\ d \notin Setscene /\ d \notin Unskippable /\ d \notin complete
          /\ ~(Owners[d] \subseteq res \cup K) /\ \A r \in RevDeps(d) : r \in D
      BY <1>1, <1>2, <2>1
    <3>3. PICK s \in Owners[d] : s \notin res \cup K
      BY <3>2
    <3>4. PICK r \in RevDeps(d) : r = s \/ (r \notin Setscene /\ s \in Owners[r])
      BY <3>2, OwnersAre
    <3>5. s \in Setscene /\ r \in Tasks /\ d \in Depends[r]
      BY <3>2, OwnersAre, RevDepsAre
    <3>6. CASE r = s
      BY <1>3, <3>2, <3>3, <3>5, <3>6
    <3>7. CASE r \notin Setscene /\ s \in Owners[r]
      <4>1. r \in D \ Setscene /\ r \notin B
        BY <3>1, <3>2, <3>7
      <4>2. r \notin Unskippable
        BY <3>2, <3>7, UnskippableAre
      <4>3. r \notin complete
        BY <3>2, <3>5 DEF ClosedBelow
      <4> QED
        BY <3>3, <3>7, <4>1, <4>2, <4>3
    <3> QED
      BY <3>4, <3>6, <3>7
  <2> QED
    BY <2>2
<1> QED
  BY <1>3, <1>4, <1>5, <1>6 DEF DoneSound, X

LEMMA DoneShrinks ==
  ASSUME NEW done, done \subseteq Tasks, NEW res, NEW complete, ClosedBelow(complete),
         DoneSound(done, res, complete), NEW R, R \subseteq Setscene
  PROVE  DoneSound(done \ (R \cup {d \in UNION {SqCovered(t) : t \in R} :
                                     d \notin complete /\ d \notin Unskippable}),
                   res \ R, complete)
<1> DEFINE Below == {d \in UNION {SqCovered(t) : t \in R} :
                       d \notin complete /\ d \notin Unskippable}
           D == done \ (R \cup Below)
<1>1. \A d : d \in Below <=> /\ d \in Tasks \ Setscene /\ d \notin complete
                             /\ d \notin Unskippable /\ \E t \in R : t \in Owners[d]
  BY DEF SqCovered
<1> HIDE DEF Below
<1>2. D \cap Setscene = res \ R
  BY <1>1 DEF DoneSound
<1>3. Unskippable \ Setscene \subseteq D
  BY <1>1 DEF DoneSound
<1>4. \A d \in D \ Setscene :
          d \in Unskippable \cup complete \/ Owners[d] \subseteq res \ R
  BY <1>1 DEF DoneSound
<1>5. ASSUME NEW t \in Tasks \ Setscene, RevDeps(t) \subseteq D
      PROVE  t \in D
  <2>1. t \in done
    BY <1>5 DEF DoneSound
  <2>2. ASSUME t \in Below PROVE FALSE
    <3>1. PICK x \in R : x \in Owners[t]
      BY <1>1, <2>2
    <3>2. PICK r \in RevDeps(t) : r = x \/ (r \notin Setscene /\ x \in Owners[r])
      BY <3>1, OwnersAre
    <3>3. r \in Tasks /\ t \in Depends[r] /\ r \in D
      BY <1>5, <3>2, RevDepsAre
    <3>4. r \notin Setscene /\ x \in Owners[r]
      BY <3>1, <3>2, <3>3
    <3>5. r \notin Unskippable
      BY <1>1, <2>2, <3>2, <3>4, UnskippableAre
    <3>6. r \notin complete
      BY <1>1, <2>2, <3>3 DEF ClosedBelow
    <3> QED
      BY <1>1, <3>1, <3>3, <3>4, <3>5, <3>6
  <2> QED
    BY <1>5, <2>1, <2>2
<1> QED
  BY <1>2, <1>3, <1>4, <1>5 DEF DoneSound, Below

\* Settles, and what follows for the rest of the scene: what becomes done and buildable
\* with the tasks settled, and who need not stay parked.
Spreads(s, s2, C, N, M) ==
  LET K == C \cup N IN
  /\ Settles(s, s2, C, N, M)
  /\ s2.done = s.done \cup K \cup NewlyDone(s.done, K)
  /\ s.buildable \cup M \subseteq s2.buildable
  /\ \A t \in Setscene :
       SqRevdeps(t) \cap K # {} /\ SqRevdeps(t) \subseteq Resolved(s2) => t \in s2.buildable
  /\ s2.needed = s.needed /\ s2.notneeded = s.notneeded
  /\ s2.parked \subseteq s.parked
  /\ \A d \in s2.parked : HardDeps[d] \subseteq Resolved(s2) => HardDeps[d] \cap K = {}

LEMMA NothingSpreads ==
  ASSUME NEW s \in SceneType
  PROVE  Spreads(s, s, {}, {}, {})
<1>1. Settles(s, s, {}, {}, {})
  BY DEF Settles, SceneType
<1>2. NewlyDone(s.done, {}) = {}
  BY NothingNewlyDone
<1> QED
  BY <1>1, <1>2 DEF Spreads

LEMMA UpdateCountersSpreads ==
  ASSUME NEW s \in SceneType, NEW K, K \subseteq Setscene
  PROVE  LET s2 == UpdateCounters(s, K)
         IN  /\ s2.done = s.done \cup K \cup NewlyDone(s.done, K)
             /\ s.buildable \subseteq s2.buildable
             /\ \A t \in Setscene :
                    SqRevdeps(t) \cap K # {} /\ SqRevdeps(t) \subseteq Resolved(s)
                        => t \in s2.buildable
             /\ s2.needed = s.needed /\ s2.notneeded = s.notneeded
             /\ s2.parked \subseteq s.parked
             /\ \A d \in s2.parked : HardDeps[d] \subseteq Resolved(s)
                    => HardDeps[d] \cap K = {}
<1> DEFINE s2 == UpdateCounters(s, K)
           more == {d \in Setscene : /\ SqRevdeps(d) \cap K # {}
                                     /\ SqRevdeps(d) \subseteq Resolved(s)}
           waiting == IF \E d \in Setscene : HardDeps[d] \cap K # {}
                      THEN {d \in s.parked : ~(HardDeps[d] \subseteq Resolved(s))}
                      ELSE s.parked
           new == NewlyDone(s.done, K)
<1>1. waiting \subseteq s.parked
  BY Zenon
<1>2. \A d \in waiting : HardDeps[d] \subseteq Resolved(s) => HardDeps[d] \cap K = {}
  <2>1. s.parked \subseteq Setscene
    BY DEF SceneType
  <2>2. CASE \E d \in Setscene : HardDeps[d] \cap K # {}
    BY <2>2
  <2>3. CASE ~\E d \in Setscene : HardDeps[d] \cap K # {}
    BY <1>1, <2>1, <2>3
  <2> QED
    BY <2>2, <2>3
<1>3. s2 = [s EXCEPT !.buildable = @ \cup more, !.done = @ \cup K \cup new,
                     !.parked = waiting, !.dirty = @ \/ K # {}]
  BY DEF UpdateCounters
<1> HIDE DEF waiting, more, new, s2
<1>4. /\ s2.done = s.done \cup K \cup new /\ s2.buildable = s.buildable \cup more
      /\ s2.needed = s.needed /\ s2.notneeded = s.notneeded /\ s2.parked = waiting
  BY <1>3 DEF SceneType
<1>5. \A t \in Setscene : SqRevdeps(t) \cap K # {} /\ SqRevdeps(t) \subseteq Resolved(s)
          => t \in more
  BY DEF more
<1> QED
  BY <1>1, <1>2, <1>4, <1>5 DEF s2, new

LEMMA CoverSceneSpreads ==
  ASSUME NEW s \in SceneType, NEW K, K \subseteq Setscene
  PROVE  Spreads(s, CoverScene(s, K), K, {}, {})
<1> DEFINE s1 == [s EXCEPT !.covered = @ \cup K]
           s2 == UpdateCounters(s1, K)
<1>1. s1 \in SceneType
  BY DEF SceneType
<1>2. /\ s1.done = s.done /\ s1.buildable = s.buildable /\ s1.needed = s.needed
      /\ s1.notneeded = s.notneeded /\ s1.parked = s.parked
      /\ s1.covered = s.covered \cup K /\ s1.notcovered = s.notcovered
  BY DEF SceneType
<1> HIDE DEF s1
<1>3. CoverScene(s, K) = s2
  BY DEF CoverScene, s1
<1>4. Settles(s, s2, K, {}, {})
  BY <1>3, CoverSceneSettles
<1>5. Resolved(s2) = Resolved(s1)
  BY <1>2, <1>4 DEF Settles, Resolved
<1>6. /\ s2.done = s1.done \cup K \cup NewlyDone(s1.done, K)
      /\ s1.buildable \subseteq s2.buildable
      /\ \A t \in Setscene :
             SqRevdeps(t) \cap K # {} /\ SqRevdeps(t) \subseteq Resolved(s1)
                 => t \in s2.buildable
      /\ s2.needed = s1.needed /\ s2.notneeded = s1.notneeded
      /\ s2.parked \subseteq s1.parked
      /\ \A d \in s2.parked : HardDeps[d] \subseteq Resolved(s1)
             => HardDeps[d] \cap K = {}
  BY <1>1, UpdateCountersSpreads
<1> HIDE DEF s2
<1>7. K \cup {} = K
  OBVIOUS
<1>8. Spreads(s, s2, K, {}, {})
  BY <1>2, <1>4, <1>5, <1>6, <1>7 DEF Spreads
<1> QED
  BY <1>3, <1>8

LEMMA SkipSceneSpreads ==
  ASSUME NEW s \in SceneType, NEW K, K \subseteq Setscene
  PROVE  Spreads(s, SkipScene(s, K), K, {}, K)
<1> DEFINE s1 == [s EXCEPT !.running = @ \cup K, !.buildable = @ \cup K]
<1>1. s1 \in SceneType
  BY DEF SceneType
<1>2. /\ s1.done = s.done /\ s1.buildable = s.buildable \cup K /\ s1.needed = s.needed
      /\ s1.notneeded = s.notneeded /\ s1.parked = s.parked
  BY DEF SceneType
<1> HIDE DEF s1
<1>3. SkipScene(s, K) = CoverScene(s1, K)
  BY DEF SkipScene, s1
<1>4. Spreads(s1, CoverScene(s1, K), K, {}, {})
  BY <1>1, CoverSceneSpreads
<1>5. Settles(s, SkipScene(s, K), K, {}, K)
  BY SkipSceneSettles
<1> DEFINE s2 == CoverScene(s1, K)
<1> HIDE DEF s2
<1>6. K \cup {} = K
  OBVIOUS
<1>7. Spreads(s, s2, K, {}, K)
  BY <1>2, <1>3, <1>4, <1>5, <1>6 DEF Spreads, s2
<1> QED
  BY <1>3, <1>7 DEF s2

LEMMA FailSceneSpreads ==
  ASSUME NEW s \in SceneType, NEW F, NEW outright, NEW settled
  PROVE  LET K == FailClosure(s, F, settled)
         IN  Spreads(s, FailScene(s, F, outright, settled), {}, K,
                     IF outright THEN K ELSE K \ F)
<1> DEFINE K == FailClosure(s, F, settled)
           marked == IF outright THEN K ELSE K \ F
           s1 == [s EXCEPT !.notcovered = @ \cup K, !.running = @ \cup marked,
                           !.buildable = @ \cup marked]
           s2 == UpdateCounters(s1, K)
<1>1. K \subseteq Setscene
  BY DEF FailClosure
<1>2. marked \subseteq Setscene
  BY <1>1
<1>3. Settles(s, FailScene(s, F, outright, settled), {}, K, marked)
  BY FailSceneSettles
<1> HIDE DEF K, marked
<1>4. s1 \in SceneType
  BY <1>1, <1>2 DEF SceneType
<1>5. /\ s1.done = s.done /\ s1.buildable = s.buildable \cup marked
      /\ s1.needed = s.needed /\ s1.notneeded = s.notneeded /\ s1.parked = s.parked
      /\ s1.covered = s.covered /\ s1.notcovered = s.notcovered \cup K
  BY DEF SceneType
<1> HIDE DEF s1
<1>6. FailScene(s, F, outright, settled) = s2
  BY DEF FailScene, s1, K, marked
<1>7. Resolved(s2) = Resolved(s1)
  BY <1>3, <1>5, <1>6 DEF Settles, Resolved
<1>8. /\ s2.done = s1.done \cup K \cup NewlyDone(s1.done, K)
      /\ s1.buildable \subseteq s2.buildable
      /\ \A t \in Setscene :
             SqRevdeps(t) \cap K # {} /\ SqRevdeps(t) \subseteq Resolved(s1)
                 => t \in s2.buildable
      /\ s2.needed = s1.needed /\ s2.notneeded = s1.notneeded
      /\ s2.parked \subseteq s1.parked
      /\ \A d \in s2.parked : HardDeps[d] \subseteq Resolved(s1)
             => HardDeps[d] \cap K = {}
  BY <1>1, <1>4, UpdateCountersSpreads
<1> HIDE DEF s2
<1>9. {} \cup K = K
  OBVIOUS
<1>10. Spreads(s, s2, {}, K, marked)
  BY <1>3, <1>5, <1>6, <1>7, <1>8, <1>9 DEF Spreads
<1> QED
  BY <1>6, <1>10 DEF K, marked

LEMMA UpdateSceneSpreads ==
  ASSUME NEW s \in SceneType, NEW tids, tids \subseteq Setscene,
         NEW disk, NEW uh, NEW cache
  PROVE  \E K \in SUBSET tids :
           /\ Spreads(s, UpdateScene(s, tids, disk, uh, cache), K, {}, K)
           /\ \A d \in K : SettledByStamps(disk, d, uh)
<1> DEFINE skipped == {t \in tids : SettledByStamps(disk, t, uh)}
           valid == {t \in tids \ skipped : SstateObject(t, uh[t]) \in cache}
           s1 == SkipScene(s, skipped)
           hopeless == (s1.outright \ tids) \cup
                         (tids \ (skipped \cup valid \cup Resolved(s1)
                                    \cup DOMAIN s1.deferred))
           s2 == [s1 EXCEPT !.outright = hopeless]
<1>1. /\ skipped \subseteq Setscene /\ skipped \subseteq tids
      /\ \A d \in skipped : SettledByStamps(disk, d, uh)
  OBVIOUS
<1>2. UpdateScene(s, tids, disk, uh, cache) = s2
  BY DEF UpdateScene
<1> HIDE DEF skipped
<1>3. s1 \in SceneType /\ Spreads(s, s1, skipped, {}, skipped)
  BY <1>1, SkipSceneType, SkipSceneSpreads
<1> HIDE DEF s1, hopeless
<1>4. /\ s2.covered = s1.covered /\ s2.notcovered = s1.notcovered
      /\ s2.running = s1.running /\ s2.deferred = s1.deferred /\ s2.dirty = s1.dirty
      /\ s2.done = s1.done /\ s2.buildable = s1.buildable /\ s2.needed = s1.needed
      /\ s2.notneeded = s1.notneeded /\ s2.parked = s1.parked
  BY <1>3 DEF SceneType
<1> HIDE DEF s2
<1>5. Spreads(s, s2, skipped, {}, skipped)
  BY <1>3, <1>4 DEF Spreads, Settles, Resolved
<1> QED
  BY <1>1, <1>2, <1>5

LEMMA ReleaseDeferredSpreads ==
  ASSUME NEW s \in SceneType, NEW t, NEW disk, NEW uh, NEW cache
  PROVE  \E K \in SUBSET (Setscene \cap DOMAIN s.deferred) :
           /\ Spreads(s, ReleaseDeferred(s, t, disk, uh, cache), K, {}, K)
           /\ \A d \in K : SettledByStamps(disk, d, uh)
<1>1. CASE Waiting(s, t) = {}
  <2>1. ReleaseDeferred(s, t, disk, uh, cache) = s
    BY <1>1 DEF ReleaseDeferred
  <2> QED
    BY <2>1, NothingSpreads
<1>2. CASE Waiting(s, t) # {}
  <2> DEFINE first == FirstOf(Waiting(s, t))
             rest == [d \in DOMAIN s.deferred \ {first} |->
                        IF s.deferred[d] = t THEN first ELSE s.deferred[d]]
             s1 == [s EXCEPT !.deferred = rest]
  <2>1. s.deferred \in Deferrals
    BY DEF SceneType, Deferrals
  <2>2. /\ DOMAIN s.deferred \subseteq Setscene
        /\ \A d \in DOMAIN s.deferred : s.deferred[d] \in Setscene
    BY <2>1, DeferralsElim
  <2>3. first \in Setscene /\ first \in DOMAIN s.deferred
    <3>1. /\ Waiting(s, t) \subseteq Setscene /\ Waiting(s, t) \subseteq Tasks
          /\ Waiting(s, t) \subseteq DOMAIN s.deferred
      BY <2>2, GraphAssumption DEF Waiting
    <3>2. first \in Waiting(s, t)
      BY <1>2, <3>1, FirstOfIn
    <3> QED
      BY <3>1, <3>2
  <2> HIDE DEF first
  <2>4. rest \in [DOMAIN s.deferred \ {first} -> Setscene]
    BY <2>2, <2>3
  <2>5. rest \in Deferrals
    <3>1. DOMAIN s.deferred \ {first} \subseteq Setscene
      BY <2>2
    <3> QED
      BY <2>4, <3>1, DeferralsIntro
  <2>6. DOMAIN rest \subseteq DOMAIN s.deferred
    BY <2>4
  <2> HIDE DEF rest
  <2>7. s1 \in SceneType
    BY <2>5 DEF SceneType, Deferrals
  <2>8. /\ s1.covered = s.covered /\ s1.notcovered = s.notcovered
        /\ s1.running = s.running /\ s1.deferred = rest /\ s1.dirty = s.dirty
        /\ s1.done = s.done /\ s1.buildable = s.buildable /\ s1.needed = s.needed
        /\ s1.notneeded = s.notneeded /\ s1.parked = s.parked
    BY DEF SceneType
  <2> HIDE DEF s1
  <2>9. PICK K \in SUBSET {first} :
          /\ Spreads(s1, UpdateScene(s1, {first}, disk, uh, cache), K, {}, K)
          /\ \A d \in K : SettledByStamps(disk, d, uh)
    BY <2>3, <2>7, UpdateSceneSpreads
  <2>10. Spreads(s, UpdateScene(s1, {first}, disk, uh, cache), K, {}, K)
    BY <2>6, <2>8, <2>9 DEF Spreads, Settles
  <2>11. ReleaseDeferred(s, t, disk, uh, cache)
           = UpdateScene(s1, {first}, disk, uh, cache)
    BY <1>2 DEF ReleaseDeferred, s1, rest, first
  <2> QED
    BY <2>3, <2>9, <2>10, <2>11
<1> QED
  BY <1>1, <1>2

-----------------------------------------------------------------------------
(* The parts of a step.                                                    *)

LEMMA ResetType ==
  ASSUME NEW s \in SceneType, NEW R, runq_complete \in SUBSET Tasks
  PROVE  Reset(s, R) \in SceneType
BY DEF SceneType, Reset

LEMMA RestartType ==
  ASSUME NEW s0 \in SceneType, NEW R, R \subseteq Setscene, NEW uh, NEW disk,
         runq_complete \in SUBSET Tasks
  PROVE  Restart(s0, R, uh, disk) \in SceneType
<1> DEFINE s == Reset(s0, R)
           failed == {t \in R : HardDepFail(s, t)}
           Leads(t) == /\ Sharing(PendingIndex(t, uh[t])) # {}
                       /\ Leader(PendingIndex(t, uh[t])) # t
           buildable == s.buildable \cup
                          {t \in R : \/ SqRevdeps(t) = {}
                                     \/ /\ t \notin failed
                                        /\ SqRevdeps(t) \subseteq Resolved(s)}
           D == DOMAIN s.deferred \cup {u \in R : Leads(u)}
           deferred == [t \in D |-> IF t \in R /\ Leads(t)
                                    THEN Leader(PendingIndex(t, uh[t]))
                                    ELSE s.deferred[t]]
           s1 == [s EXCEPT !.buildable = buildable, !.deferred = deferred]
           s2 == UpdateScene(s1, R, disk, uh, sstate)
<1>1. s \in SceneType
  BY ResetType
<1>2. s.deferred \in Deferrals
  BY <1>1 DEF SceneType, Deferrals
<1>3. /\ DOMAIN s.deferred \subseteq Setscene
      /\ \A t \in DOMAIN s.deferred : s.deferred[t] \in Setscene
  BY <1>2, DeferralsElim
<1>4. \A t : Leads(t) => Leader(PendingIndex(t, uh[t])) \in Setscene
  BY LeaderType
<1> HIDE DEF s, Leads
<1>5. D \subseteq Setscene
  BY <1>3
<1>6. deferred \in [D -> Setscene]
  <2> SUFFICES ASSUME NEW t \in D
               PROVE  (IF t \in R /\ Leads(t) THEN Leader(PendingIndex(t, uh[t]))
                       ELSE s.deferred[t]) \in Setscene
    OBVIOUS
  <2>1. CASE t \in R /\ Leads(t)
    BY <1>4, <2>1
  <2>2. CASE ~(t \in R /\ Leads(t))
    <3>1. t \in DOMAIN s.deferred
      BY <2>2
    <3>2. QED
      BY <1>3, <2>2, <3>1
  <2>3. QED
    BY <2>1, <2>2
<1>7. deferred \in Deferrals
  BY <1>5, <1>6, DeferralsIntro
<1> HIDE DEF deferred
<1>8. buildable \subseteq Setscene
  BY <1>1 DEF SceneType
<1> HIDE DEF buildable
<1>9. s1 \in SceneType
  BY <1>1, <1>7, <1>8 DEF SceneType, Deferrals
<1> HIDE DEF s1
<1>10. s2 \in SceneType
  BY <1>9, UpdateSceneType
<1> HIDE DEF s2
<1>11. FailScene(s2, failed, TRUE, {t \in Setscene : SettledByStamps(disk, t, uh)})
         \in SceneType
  BY <1>10, FailSceneType
<1>12. Restart(s0, R, uh, disk) =
         IF failed = {} THEN s2
         ELSE FailScene(s2, failed, TRUE, {t \in Setscene : SettledByStamps(disk, t, uh)})
  BY DEF Restart, s2, s1, deferred, buildable, s, Leads
<1>13. QED
  BY <1>10, <1>11, <1>12

LEMMA WithoutStampsType ==
  ASSUME CountType, NEW S
  PROVE  /\ DOMAIN Without(build_stamps, S) \subseteq Tasks
         /\ Without(build_stamps, S) \in [DOMAIN Without(build_stamps, S) -> StampFiles]
BY DEF CountType, Without

LEMMA StampFileType ==
  ASSUME NEW t \in Tasks, NEW kind \in Kinds, NEW uh \in [Tasks -> Hashes]
  PROVE  StampFile(t, kind, uh) \in StampFiles
BY DEF StampFile, StampFiles

LEMMA HeadTailType ==
  ASSUME WorkerType, pipe # <<>>
  PROVE  Head(pipe) \in Messages /\ Tail(pipe) \in Seq(Messages)
BY DEF WorkerType

LEMMA AppendType ==
  ASSUME WorkerType, NEW m \in Messages
  PROVE  Append(pipe, m) \in Seq(Messages)
BY DEF WorkerType

\* CompleteOutright and TaskFail keep the types of what they change.
LEMMA CompleteOutrightType ==
  ASSUME TypeOK, NEW t \in Tasks, NEW extra, extra \subseteq Tasks, NEW disk,
         CompleteOutright(t, extra, disk)
  PROVE  /\ runq_complete' \subseteq Tasks /\ runq_buildable' \subseteq Tasks
         /\ scene' \in SceneType
<1>1. runq_complete' \subseteq Tasks /\ runq_buildable' \subseteq Tasks
  BY DEF CompleteOutright, TypeOK, RunqType, RevDeps
<1>2. scene' \in SceneType
  BY ReleaseDeferredType DEF CompleteOutright, TypeOK, SceneVarsType
<1>3. QED
  BY <1>1, <1>2

LEMMA TaskFailType ==
  ASSUME TypeOK, NEW t \in Tasks, TaskFail(t)
  PROVE  /\ active' \in Int /\ failed_tids' \subseteq Tasks
         /\ state' \in {"SceneInit", "Running", "CleanUp", "Failed", "Complete"}
<1>1. active \in Int /\ failed_tids \subseteq Tasks
  BY DEF TypeOK, CountType
<1>2. Decremented(active) \in Int
  BY <1>1 DEF Decremented
<1>3. /\ active' = Decremented(active)
      /\ failed_tids' = failed_tids \cup {t}
      /\ state' = IF mode.halt THEN "CleanUp" ELSE state
  BY DEF TaskFail
<1>4. state' \in {"SceneInit", "Running", "CleanUp", "Failed", "Complete"}
  <2>1. state \in {"SceneInit", "Running", "CleanUp", "Failed", "Complete"}
    BY DEF TypeOK, ControlType
  <2>2. CASE mode.halt
    BY <1>3, <2>2, Zenon
  <2>3. CASE ~mode.halt
    BY <1>3, <2>1, <2>3, Zenon
  <2>4. QED
    BY <2>2, <2>3
<1>5. QED
  BY <1>1, <1>2, <1>3, <1>4

LEMMA SendType ==
  ASSUME TypeOK, NEW t \in Tasks, NEW kind \in Kinds, Send(t, kind)
  PROVE  /\ jobs' \subseteq Jobs
         /\ DOMAIN build_stamps' \subseteq Tasks
         /\ build_stamps' \in [DOMAIN build_stamps' -> StampFiles]
<1>1. unihash \in [Tasks -> Hashes]
  BY DEF TypeOK, HashType
<1>2. jobs' \subseteq Jobs
  <2>1. [tid |-> t, kind |-> kind, hash |-> unihash[t], said |-> FALSE] \in Jobs
    BY <1>1 DEF Jobs
  <2>2. jobs \subseteq Jobs
    BY DEF TypeOK, WorkerType
  <2>3. QED
    BY <2>1, <2>2 DEF Send
<1>3. StampFile(t, kind, unihash) \in StampFiles
  BY <1>1, StampFileType
<1>4. /\ DOMAIN build_stamps' \subseteq Tasks
      /\ build_stamps' \in [DOMAIN build_stamps' -> StampFiles]
  BY <1>3 DEF Send, TypeOK, CountType
<1>5. QED
  BY <1>2, <1>4

LEMMA InitType == Init => TypeOK
<1> SUFFICES ASSUME Init PROVE TypeOK
  OBVIOUS
<1>1. <<>> \in [{} -> Setscene] /\ <<>> \in Seq(Messages)
  OBVIOUS
<1>2. scene \in SceneType
  BY <1>1 DEF Init, SceneType
<1>3. sq_stamps \in [Setscene -> StampFiles]
  BY StampFileType, SceneAssumption, GraphAssumption DEF Init, Kinds
<1>4. ControlType /\ SceneVarsType /\ CoverType /\ RunqType
  BY <1>2, <1>3 DEF Init, ControlType, Labels, SceneVarsType, CoverType, RunqType
<1>5. HashType
  BY SceneAssumption DEF Init, HashType
<1>6. CountType
  BY DEF Init, CountType
<1>7. WorkerType /\ EnvType
  BY <1>1 DEF Init, WorkerType, EnvType, Labels
<1>8. QED
  BY <1>4, <1>5, <1>6, <1>7 DEF TypeOK

-----------------------------------------------------------------------------
(* Every step keeps the types: a lemma for each part of Next.              *)

LEMMA ControlKeepsType == TypeOK /\ Control => TypeOK'
<1> USE DEF TypeOK, ControlType, SceneVarsType, CoverType, RunqType, HashType,
            CountType, WorkerType, EnvType, Labels, sceneVars, coverVars, runqVars,
            hashVars, diskVars, workerVars, controlVars, countVars, envVars, Goto
<1> SUFFICES ASSUME TypeOK, Control PROVE TypeOK'
  OBVIOUS
<1>1. CASE SceneInit
  <2>1. scene' \in SceneType
    BY <1>1, InitialSceneType DEF SceneInit
  <2>2. runq_buildable' \subseteq Tasks /\ tasks_notcovered' \subseteq Tasks
    BY <1>1 DEF SceneInit, InitiallyBuildable, Unskippable
  <2>3. QED
    BY <1>1, <2>1, <2>2 DEF SceneInit
<1>2. CASE StopBeforeInit
  BY <1>2 DEF StopBeforeInit
<1>3. CASE IdleForce
  BY <1>3 DEF IdleForce, FinishNow
<1>4. CASE IdleShutdown
  BY <1>4 DEF IdleShutdown
<1>5. CASE Idle
  BY <1>5 DEF Idle
<1>6. CASE AfterExecute
  BY <1>6 DEF AfterExecute
<1>7. CASE Finish
  BY <1>7 DEF Finish
<1>8. CASE BuildDone
  BY <1>8 DEF BuildDone
<1>9. CASE Return
  BY <1>9 DEF Return
<1>10. QED
  BY <1>1, <1>2, <1>3, <1>4, <1>5, <1>6, <1>7, <1>8, <1>9 DEF Control

\* What Exited says: an exit message was taken from the pipe.
LEMMA ExitedType ==
  ASSUME TypeOK, NEW t \in Tasks, NEW ok \in BOOLEAN, Exited(t, ok)
  PROVE  /\ pipe' \in Seq(Messages)
         /\ DOMAIN build_stamps' \subseteq Tasks
         /\ build_stamps' \in [DOMAIN build_stamps' -> StampFiles]
<1>1. pipe' \in Seq(Messages)
  BY HeadTailType DEF Exited, TypeOK
<1>2. /\ DOMAIN build_stamps' \subseteq Tasks
      /\ build_stamps' \in [DOMAIN build_stamps' -> StampFiles]
  BY WithoutStampsType DEF Exited, TypeOK
<1>3. QED
  BY <1>1, <1>2

LEMMA ReadsKeepType == TypeOK /\ Reads => TypeOK'
<1> USE DEF TypeOK, ControlType, SceneVarsType, CoverType, RunqType, HashType,
            CountType, WorkerType, EnvType, Labels, sceneVars, coverVars, runqVars,
            hashVars, diskVars, workerVars, controlVars, countVars, envVars, Goto
<1> SUFFICES ASSUME TypeOK, Reads PROVE TypeOK'
  OBVIOUS
<1>1. CASE Poll
  BY <1>1 DEF Poll, FinishNow
<1>2. CASE ReadEvent
  <2>1. Head(pipe) \in Messages /\ pipe' \in Seq(Messages)
    BY <1>2, HeadTailType DEF ReadEvent
  <2>2. <<Head(pipe).tid, Head(pipe).hash>> \in Setscene \X Hashes
    BY <1>2, <2>1 DEF ReadEvent, Messages
  <2>3. QED
    BY <1>2, <2>1, <2>2 DEF ReadEvent
<1>3. CASE ReadDone
  BY <1>3 DEF ReadDone
<1>4. ASSUME NEW t \in Tasks, ReadSuccess(t) PROVE TypeOK'
  <2>1. /\ runq_complete' \subseteq Tasks /\ runq_buildable' \subseteq Tasks
        /\ scene' \in SceneType
    BY <1>4, CompleteOutrightType DEF ReadSuccess
  <2>2. /\ pipe' \in Seq(Messages)
        /\ DOMAIN build_stamps' \subseteq Tasks
        /\ build_stamps' \in [DOMAIN build_stamps' -> StampFiles]
    BY <1>4, ExitedType DEF ReadSuccess
  <2>3. active' \in Int
    BY <1>4 DEF ReadSuccess, Decremented
  <2>4. QED
    BY <1>4, <2>1, <2>2, <2>3 DEF ReadSuccess
<1>5. ASSUME NEW t \in Tasks, ReadFailure(t) PROVE TypeOK'
  <2>1. /\ active' \in Int /\ failed_tids' \subseteq Tasks
        /\ state' \in {"SceneInit", "Running", "CleanUp", "Failed", "Complete"}
    BY <1>5, TaskFailType DEF ReadFailure
  <2>2. /\ pipe' \in Seq(Messages)
        /\ DOMAIN build_stamps' \subseteq Tasks
        /\ build_stamps' \in [DOMAIN build_stamps' -> StampFiles]
    BY <1>5, ExitedType DEF ReadFailure
  <2>3. QED
    BY <1>5, <2>1, <2>2 DEF ReadFailure
<1>6. ASSUME NEW t \in Tasks, NEW ok \in BOOLEAN, ReadSetsceneExit(t, ok)
      PROVE  TypeOK'
  <2>1. /\ pipe' \in Seq(Messages)
        /\ DOMAIN build_stamps' \subseteq Tasks
        /\ build_stamps' \in [DOMAIN build_stamps' -> StampFiles]
    BY <1>6, ExitedType DEF ReadSetsceneExit
  <2>2. t \in Setscene
    BY <1>6 DEF ReadSetsceneExit
  <2>3. scene' \in SceneType
    <3>1. /\ CoverScene(scene, {t}) \in SceneType
          /\ FailScene(scene, {t}, FALSE, Settled) \in SceneType
      BY <2>2, CoverSceneType, FailSceneType
    <3>2. scene' = IF ok THEN CoverScene(scene, {t})
                   ELSE FailScene(scene, {t}, FALSE, Settled)
      BY <1>6 DEF ReadSetsceneExit
    <3>3. QED
      BY <3>1, <3>2
  <2>4. state' \in {"SceneInit", "Running", "CleanUp", "Failed", "Complete"}
    <3>1. state' \in {state, "CleanUp"}
      BY <1>6, Zenon DEF ReadSetsceneExit
    <3>2. QED
      BY <3>1
  <2>5. /\ sq_live' = sq_live \ {t}
        /\ UNCHANGED <<pc, reading, outcome, sqdone, sq_stamps, coverVars, runqVars,
                       hashVars, diskVars, worker, commands, jobs, active,
                       failed_tids, envVars>>
    BY <1>6, Zenon DEF ReadSetsceneExit
  <2>6. QED
    BY <2>1, <2>3, <2>4, <2>5
<1>7. QED
  BY <1>1, <1>2, <1>3, <1>4, <1>5, <1>6 DEF Reads

LEMMA NewHashesType ==
  ASSUME TypeOK, NEW uh \in NewHashes
  PROVE  uh \in [Tasks -> Hashes]
<1>1. unihash \in [Tasks -> Hashes]
  BY DEF TypeOK, HashType
<1>2. PICK computed \in [Open -> Hashes],
           told \in {m \in [ToProcess -> Hashes] : \A t \in ToProcess : m[t] \in Retold(t)} :
             uh = [t \in Tasks |-> IF t \in Open THEN computed[t]
                                   ELSE IF t \in ToProcess THEN told[t] ELSE unihash[t]]
  BY DEF NewHashes
<1>3. QED
  BY <1>1, <1>2

LEMMA MigratesKeepType == TypeOK /\ Migrates => TypeOK'
<1> USE DEF TypeOK, ControlType, SceneVarsType, CoverType, RunqType, HashType,
            CountType, WorkerType, EnvType, Labels, sceneVars, coverVars, runqVars,
            hashVars, diskVars, workerVars, controlVars, countVars, envVars, Goto
<1> SUFFICES ASSUME TypeOK, Migrates PROVE TypeOK'
  OBVIOUS
<1>1. CASE NoMigrations
  BY <1>1 DEF NoMigrations
<1>2. ASSUME NEW uh \in NewHashes, Migrate(uh) PROVE TypeOK'
  <2> DEFINE R == Ready(uh)
  <2>1. uh \in [Tasks -> Hashes]
    BY NewHashesType
  <2>2. Pending(uh) \subseteq Setscene /\ R \subseteq Setscene
    BY DEF Pending, Ready
  <2>3. \A disk : Restart(scene, R, uh, disk) \in SceneType
    BY <2>2, RestartType
  <2>4. scene' \in SceneType
    <3>1. CASE R = {} /\ Changed(uh) = {}
      BY <1>2, <3>1 DEF Migrate
    <3>2. CASE ~(R = {} /\ Changed(uh) = {})
      <4> DEFINE s == Restart(scene, R, uh, files')
      <4>1. s \in SceneType
        BY <2>3
      <4>2. scene' = [s EXCEPT !.needed = {}, !.parked = {}, !.dirty = TRUE]
        BY <1>2, <3>2 DEF Migrate
      <4> HIDE DEF s
      <4>3. QED
        BY <4>1, <4>2 DEF SceneType
    <3>3. QED
      BY <3>1, <3>2
  <2>5. sq_stamps' \in [Setscene -> StampFiles]
    <3>1. \A t \in Setscene : StampFile(t, "run", uh) \in StampFiles
      BY <2>1, StampFileType, GraphAssumption DEF Kinds
    <3>2. QED
      BY <1>2, <3>1 DEF Migrate
  <2>6. /\ DOMAIN build_stamps' \subseteq Tasks
        /\ build_stamps' \in [DOMAIN build_stamps' -> StampFiles]
    BY <1>2, WithoutStampsType DEF Migrate
  <2>7. QED
    BY <1>2, <2>1, <2>2, <2>4, <2>5, <2>6 DEF Migrate
<1>3. QED
  BY <1>1, <1>2 DEF Migrates

LEMMA UndeferredType ==
  ASSUME NEW s \in SceneType, NEW t
  PROVE  Undeferred(s, t) \in SceneType
<1>1. s.deferred \in Deferrals
  BY DEF SceneType, Deferrals
<1>2. Without(s.deferred, {t}) \in UNION {[D -> Setscene] : D \in SUBSET Setscene}
  BY <1>1, WithoutType DEF Deferrals
<1> DEFINE f == Without(s.deferred, {t})
<1> HIDE DEF f
<1>3. [s EXCEPT !.deferred = f] \in SceneType
  BY <1>2 DEF SceneType, f
<1>4. QED
  BY <1>3 DEF Undeferred, f

LEMMA OnlySceneType ==
  ASSUME TypeOK, OnlyScene, UNCHANGED <<sq_live, files, jobs, build_stamps>>,
         scene' \in SceneType, pc' \in {"setscene", "after"}
  PROVE  TypeOK'
BY DEF TypeOK, ControlType, SceneVarsType, CoverType, RunqType, HashType, CountType,
       WorkerType, EnvType, Labels, coverVars, runqVars, hashVars, envVars, OnlyScene

LEMMA ScansKeepType == TypeOK /\ Scans => TypeOK'
<1> USE DEF TypeOK, ControlType, SceneVarsType, CoverType, RunqType, HashType,
            CountType, WorkerType, EnvType, Labels, sceneVars, coverVars, runqVars,
            hashVars, diskVars, workerVars, controlVars, countVars, envVars, Goto
<1> SUFFICES ASSUME TypeOK, Scans PROVE TypeOK'
  OBVIOUS
<1>1. CASE ScanEnds
  BY <1>1 DEF ScanEnds
<1>2. ASSUME NEW t \in Setscene, ScanSkipsUnneeded(t) PROVE TypeOK'
  <2> DEFINE s == Undeferred(SkipScene(scene, {t}), t)
  <2>1. s \in SceneType
    BY SkipSceneType, UndeferredType
  <2> HIDE DEF s
  <2>2. [s EXCEPT !.notneeded = @ \cup {t}] \in SceneType
    BY <2>1 DEF SceneType
  <2>3. scene' = [s EXCEPT !.notneeded = @ \cup {t}]
    BY <1>2 DEF ScanSkipsUnneeded, s
  <2>4. QED
    <3>1. /\ OnlyScene /\ UNCHANGED <<sq_live, files, jobs, build_stamps>>
          /\ pc' \in {"setscene", "after"}
      BY <1>2 DEF ScanSkipsUnneeded
    <3> QED
      BY <2>2, <2>3, <3>1, OnlySceneType
<1>3. ASSUME NEW t \in Setscene, ScanParks(t) PROVE TypeOK'
  <2>1. HardDeps[t] \subseteq Setscene
    BY GraphAssumption
  <2>2. scene' \in SceneType
    BY <1>3, <2>1 DEF ScanParks, SceneType
  <2>3. QED
    <3>1. /\ OnlyScene /\ UNCHANGED <<sq_live, files, jobs, build_stamps>>
          /\ pc' \in {"setscene", "after"}
      BY <1>3 DEF ScanParks
    <3> QED
      BY <2>2, <3>1, OnlySceneType
<1>4. ASSUME NEW t \in Setscene, ScanFails(t) PROVE TypeOK'
  <2>1. scene' \in SceneType
    BY <1>4, UndeferredType, FailSceneType DEF ScanFails
  <2>2. QED
    <3>1. /\ OnlyScene /\ UNCHANGED <<sq_live, files, jobs, build_stamps>>
          /\ pc' \in {"setscene", "after"}
      BY <1>4 DEF ScanFails
    <3> QED
      BY <2>1, <3>1, OnlySceneType
<1>5. ASSUME NEW t \in Setscene, ScanSkipsStamped(t) PROVE TypeOK'
  <2>1. scene' \in SceneType
    BY <1>5, UndeferredType, SkipSceneType DEF ScanSkipsStamped
  <2>2. QED
    <3>1. /\ OnlyScene /\ UNCHANGED <<sq_live, files, jobs, build_stamps>>
          /\ pc' \in {"setscene", "after"}
      BY <1>5 DEF ScanSkipsStamped
    <3> QED
      BY <2>1, <3>1, OnlySceneType
<1>6. ASSUME NEW t \in Setscene, ScanLaunches(t) PROVE TypeOK'
  <2> DEFINE s == Undeferred(scene, t)
  <2>1. s \in SceneType
    BY UndeferredType
  <2>2. CASE /\ worker = "up" /\ Send(t, "setscene")
             /\ scene' = [s EXCEPT !.running = @ \cup {t}]
             /\ sq_live' = sq_live \cup {t}
             /\ pc' \in {"after", "holdoff"}
             /\ UNCHANGED <<state, outcome, worker, commands, pipe>>
    <3> HIDE DEF s
    <3>1. scene' \in SceneType
      BY <2>1, <2>2 DEF SceneType
    <3>2. /\ jobs' \subseteq Jobs
          /\ DOMAIN build_stamps' \subseteq Tasks
          /\ build_stamps' \in [DOMAIN build_stamps' -> StampFiles]
      BY <2>2, SendType, GraphAssumption DEF Kinds
    <3>3. QED
      BY <1>6, <2>2, <3>1, <3>2 DEF ScanLaunches
  <2>3. CASE BrokenPipe /\ scene' = s /\ UNCHANGED <<sq_live, build_stamps>>
    <3> HIDE DEF s
    <3>1. QED
      BY <1>6, <2>1, <2>3 DEF ScanLaunches, BrokenPipe
  <2>4. QED
    BY <1>6, <2>2, <2>3 DEF ScanLaunches
<1>7. QED
  BY <1>1, <1>2, <1>3, <1>4, <1>5, <1>6 DEF Scans

LEMMA UpdateHoldoffKeepsType ==
  ASSUME TypeOK, UpdateHoldoff
  PROVE  TypeOK'
<1>1. /\ scene \in SceneType /\ runq_buildable \subseteq Tasks /\ runq_complete \subseteq Tasks
  BY DEF TypeOK, SceneVarsType, RunqType
<1>2. /\ \A S : UNION {SqCovered(t) : t \in S} \subseteq Tasks
      /\ Setscene \subseteq Tasks
  BY GraphAssumption DEF SqCovered
<1>3. NotCovered \subseteq Tasks /\ Covered \subseteq Tasks
  BY <1>1 DEF NotCovered, Covered, SceneType
<1>4. scene' \in SceneType
  BY <1>1 DEF UpdateHoldoff, SceneType
<1>5. holdoff_tasks' \subseteq Tasks /\ runq_buildable' \subseteq Tasks
  BY <1>1, <1>2, <1>3 DEF UpdateHoldoff
<1>6. /\ tasks_notcovered' = NotCovered /\ tasks_covered' = Covered
      /\ UNCHANGED <<sq_live, sqdone, sq_stamps, runq_running, runq_complete, runq_tasksrun,
                     hashVars, diskVars, workerVars, controlVars, countVars, envVars>>
  BY DEF UpdateHoldoff
<1>7. ControlType' /\ CountType'
  BY <1>6 DEF TypeOK, ControlType, CountType, controlVars, countVars
<1>8. HashType' /\ EnvType'
  BY <1>6 DEF TypeOK, HashType, EnvType, hashVars, diskVars, envVars
<1>9. WorkerType'
  BY <1>6 DEF TypeOK, WorkerType, workerVars
<1>10. SceneVarsType'
  BY <1>4, <1>6 DEF TypeOK, SceneVarsType
<1>11. CoverType' /\ RunqType'
  BY <1>3, <1>5, <1>6 DEF TypeOK, CoverType, RunqType
<1> QED
  BY <1>7, <1>8, <1>9, <1>10, <1>11 DEF TypeOK

LEMMA SettleSceneKeepsType ==
  ASSUME TypeOK, SettleScene
  PROVE  TypeOK'
<1>1. /\ UNCHANGED <<reading, outcome, scene, sq_live, sq_stamps, coverVars, runqVars,
                     hashVars, diskVars, workerVars, countVars, envVars>>
      /\ pc' \in {"sched", "after"} /\ state' \in {state, "Failed", "Complete"}
      /\ sqdone' \in {sqdone, TRUE}
  BY DEF SettleScene
<1>2. ControlType' /\ CountType'
  BY <1>1 DEF TypeOK, ControlType, CountType, Labels, countVars
<1>3. HashType' /\ EnvType'
  BY <1>1 DEF TypeOK, HashType, EnvType, hashVars, diskVars, envVars
<1>4. WorkerType'
  BY <1>1 DEF TypeOK, WorkerType, workerVars
<1>5. SceneVarsType'
  BY <1>1 DEF TypeOK, SceneVarsType
<1>6. CoverType' /\ RunqType'
  BY <1>1 DEF TypeOK, CoverType, RunqType, coverVars, runqVars
<1> QED
  BY <1>2, <1>3, <1>4, <1>5, <1>6 DEF TypeOK

LEMMA SchedulesKeepType == TypeOK /\ Schedules => TypeOK'
<1> SUFFICES ASSUME TypeOK, Schedules PROVE TypeOK'
  OBVIOUS
<1>1. CASE UpdateHoldoff
  BY <1>1, UpdateHoldoffKeepsType
<1>2. CASE SettleScene
  BY <1>2, SettleSceneKeepsType
<1> USE DEF TypeOK, ControlType, SceneVarsType, CoverType, RunqType, HashType,
            CountType, WorkerType, EnvType, Labels, sceneVars, coverVars, runqVars,
            hashVars, diskVars, workerVars, controlVars, countVars, envVars, Goto
<1>3. CASE SchedNothing
  BY <1>3 DEF SchedNothing
<1>4. ASSUME NEW t \in Tasks, SchedRefuses(t) PROVE TypeOK'
  <2>1. /\ active' \in Int /\ failed_tids' \subseteq Tasks
        /\ state' \in {"SceneInit", "Running", "CleanUp", "Failed", "Complete"}
    BY <1>4, TaskFailType DEF SchedRefuses
  <2>2. QED
    BY <1>4, <2>1 DEF SchedRefuses
<1>5. ASSUME NEW t \in Tasks, SchedSkips(t) PROVE TypeOK'
  <2>1. /\ runq_complete' \subseteq Tasks /\ runq_buildable' \subseteq Tasks
        /\ scene' \in SceneType
    BY <1>5, CompleteOutrightType DEF SchedSkips
  <2>2. QED
    BY <1>5, <2>1 DEF SchedSkips, Finishes
<1>6. ASSUME NEW t \in Tasks, SchedNoExec(t) PROVE TypeOK'
  <2>1. /\ runq_complete' \subseteq Tasks /\ runq_buildable' \subseteq Tasks
        /\ scene' \in SceneType
    BY <1>6, CompleteOutrightType DEF SchedNoExec
  <2>2. QED
    BY <1>6, <2>1 DEF SchedNoExec, Finishes
<1>7. ASSUME NEW t \in Tasks, SchedLaunches(t) PROVE TypeOK'
  <2>1. CASE Send(t, "run")
    <3>1. /\ jobs' \subseteq Jobs
          /\ DOMAIN build_stamps' \subseteq Tasks
          /\ build_stamps' \in [DOMAIN build_stamps' -> StampFiles]
      BY <2>1, SendType DEF Kinds
    <3>2. QED
      BY <1>7, <2>1, <3>1 DEF SchedLaunches, BrokenPipe
  <2>2. CASE BrokenPipe
    BY <1>7, <2>2 DEF SchedLaunches, BrokenPipe
  <2>3. QED
    BY <1>7, <2>1, <2>2 DEF SchedLaunches
<1>8. CASE TailWaits
  BY <1>8 DEF TailWaits
<1>9. CASE TailEnds
  BY <1>9 DEF TailEnds
<1>10. ASSUME NEW t \in Setscene, TailForces(t) PROVE TypeOK'
  BY <1>10, UndeferredType DEF TailForces
<1>11. QED
  BY <1>1, <1>2, <1>3, <1>4, <1>5, <1>6, <1>7, <1>8, <1>9, <1>10 DEF Schedules
LEMMA EnvironmentKeepsType == TypeOK /\ Environment => TypeOK'
<1> USE DEF TypeOK, ControlType, SceneVarsType, CoverType, RunqType, HashType,
            CountType, WorkerType, EnvType, Labels, sceneVars, coverVars, runqVars,
            hashVars, diskVars, workerVars, controlVars, countVars, envVars, OnlyWorker
<1> SUFFICES ASSUME TypeOK, Environment PROVE TypeOK'
  OBVIOUS
<1>1. CASE WorkerFinishesNow
  BY <1>1 DEF WorkerFinishesNow
<1>2. CASE WorkerQuits
  BY <1>2 DEF WorkerQuits
<1>3. ASSUME NEW j \in jobs, NEW ok \in BOOLEAN, JobEnds(j, ok) PROVE TypeOK'
  <2>1. j.tid \in Tasks
    BY DEF Jobs
  <2>2. [type |-> "exit", tid |-> j.tid, ok |-> ok] \in Messages
    BY <2>1 DEF Messages
  <2>3. pipe' \in Seq(Messages)
    BY <1>3, <2>2, AppendType DEF JobEnds
  <2>4. budget' \in [fail : Nat, rehash : Nat, crash : Nat]
    BY <1>3 DEF JobEnds
  <2>5. QED
    BY <1>3, <2>3, <2>4 DEF JobEnds
<1>4. CASE WorkerDies
  <2>1. budget' \in [fail : Nat, rehash : Nat, crash : Nat]
    BY <1>4 DEF WorkerDies
  <2>2. QED
    BY <1>4, <2>1 DEF WorkerDies
<1>5. ASSUME NEW j \in jobs, NEW h \in Hashes, JobReports(j, h) PROVE TypeOK'
  <2>1. j \in Jobs /\ j.tid \in Setscene
    BY <1>5 DEF JobReports
  <2>2. [j EXCEPT !.hash = h, !.said = TRUE] \in Jobs
    BY <2>1 DEF Jobs
  <2>3. jobs' \subseteq Jobs
    BY <1>5, <2>2 DEF JobReports
  <2>4. [type |-> "event", tid |-> j.tid, hash |-> h] \in Messages
    BY <2>1 DEF Messages
  <2>5. pipe' \in Seq(Messages)
    BY <1>5, <2>4, AppendType DEF JobReports
  <2>6. budget' \in [fail : Nat, rehash : Nat, crash : Nat]
    BY <1>5 DEF JobReports
  <2>7. QED
    BY <1>5, <2>3, <2>5, <2>6 DEF JobReports
<1>6. ASSUME NEW r \in Requests, UserStops(r) PROVE TypeOK'
  BY <1>6, RunAssumption DEF UserStops
<1>7. QED
  BY <1>1, <1>2, <1>3, <1>4, <1>5, <1>6 DEF Environment, WorkerSteps

LEMMA NextKeepsType == TypeOK /\ [Next]_vars => TypeOK'
<1> SUFFICES ASSUME TypeOK, [Next]_vars PROVE TypeOK'
  OBVIOUS
<1>1. CASE Done \/ UNCHANGED vars
  <2>1. UNCHANGED vars
    BY <1>1 DEF Done
  <2>2. QED
    BY <2>1 DEF TypeOK, ControlType, SceneVarsType, CoverType, RunqType, HashType,
         CountType, WorkerType, EnvType, vars, sceneVars, coverVars, runqVars,
         hashVars, diskVars, workerVars, controlVars, countVars, envVars
<1>2. QED
  BY <1>1, ControlKeepsType, ReadsKeepType, MigratesKeepType, ScansKeepType,
     SchedulesKeepType, EnvironmentKeepsType DEF Next, Cooker

\* Every variable of the run queue keeps its type, whatever the task graph, the
\* mode, the number of threads and the bounds.
THEOREM TypeCorrect == Spec => []TypeOK
<1>1. Init => TypeOK
  BY InitType
<1>2. TypeOK /\ [Next]_vars => TypeOK'
  BY NextKeepsType
<1>3. QED
  BY <1>1, <1>2, PTL DEF Spec

-----------------------------------------------------------------------------
(* The order of the tasks.                                                 *)

\* What makes DepsComplete inductive, step by step: no task becomes incomplete, and
\* every task newly buildable has its dependencies complete in the same step.
BuildableStep ==
  /\ runq_complete \subseteq runq_complete'
  /\ \A t \in runq_buildable' \ runq_buildable : Depends[t] \subseteq runq_complete'

LEMMA StepKeepsDeps ==
  ASSUME DepsComplete, BuildableStep
  PROVE  DepsComplete'
BY DEF DepsComplete, BuildableStep

\* task_completeoutright marks buildable what the completed task was the last
\* missing dependency of.
LEMMA CompleteOutrightBuildable ==
  ASSUME NEW t, NEW extra, extra \subseteq runq_buildable, NEW disk,
         CompleteOutright(t, extra, disk)
  PROVE  BuildableStep
BY DEF CompleteOutright, BuildableStep

LEMMA UnchangedBuildable ==
  ASSUME UNCHANGED <<runq_buildable, runq_complete>>
  PROVE  BuildableStep
BY DEF BuildableStep

LEMMA ControlBuildable == TypeOK /\ Control => BuildableStep
<1> SUFFICES ASSUME TypeOK, Control PROVE BuildableStep
  OBVIOUS
<1>1. CASE SceneInit
  <2>1. \A t \in runq_buildable' : Depends[t] = {}
    BY <1>1 DEF SceneInit, InitiallyBuildable
  <2>2. runq_complete' = runq_complete
    BY <1>1 DEF SceneInit
  <2>3. QED
    BY <2>1, <2>2 DEF BuildableStep
<1>2. CASE StopBeforeInit \/ IdleForce \/ IdleShutdown \/ Idle \/ AfterExecute
             \/ Finish \/ BuildDone \/ Return
  <2>1. UNCHANGED <<runq_buildable, runq_complete>>
    BY <1>2 DEF StopBeforeInit, IdleForce, IdleShutdown, Idle, AfterExecute, Finish,
                BuildDone, Return, runqVars
  <2>2. QED
    BY <2>1, UnchangedBuildable
<1>3. QED
  BY <1>1, <1>2 DEF Control

LEMMA ReadsBuildable == Reads => BuildableStep
<1> SUFFICES ASSUME Reads PROVE BuildableStep
  OBVIOUS
<1>1. ASSUME NEW t \in Tasks, ReadSuccess(t) PROVE BuildableStep
  BY <1>1, CompleteOutrightBuildable DEF ReadSuccess
<1>2. CASE Poll \/ ReadEvent \/ ReadDone
             \/ \E t \in Tasks : \/ ReadFailure(t)
                                 \/ \E ok \in BOOLEAN : ReadSetsceneExit(t, ok)
  <2>1. UNCHANGED <<runq_buildable, runq_complete>>
    BY <1>2 DEF Poll, ReadEvent, ReadDone, ReadFailure, ReadSetsceneExit, runqVars
  <2>2. QED
    BY <2>1, UnchangedBuildable
<1>3. QED
  BY <1>1, <1>2 DEF Reads

LEMMA MigratesBuildable == Migrates => BuildableStep
<1> SUFFICES ASSUME Migrates PROVE BuildableStep
  OBVIOUS
<1>1. UNCHANGED <<runq_buildable, runq_complete>>
  BY DEF Migrates, NoMigrations, Migrate, runqVars
<1>2. QED
  BY <1>1, UnchangedBuildable

LEMMA ScansBuildable == Scans => BuildableStep
<1> SUFFICES ASSUME Scans PROVE BuildableStep
  OBVIOUS
<1>1. UNCHANGED <<runq_buildable, runq_complete>>
  BY DEF Scans, ScanEnds, ScanSkipsUnneeded, ScanParks, ScanFails, ScanSkipsStamped,
         ScanLaunches, OnlyScene, runqVars
<1>2. QED
  BY <1>1, UnchangedBuildable

LEMMA SchedulesBuildable == Schedules => BuildableStep
<1> SUFFICES ASSUME Schedules PROVE BuildableStep
  OBVIOUS
<1>1. CASE UpdateHoldoff
  BY <1>1 DEF UpdateHoldoff, BuildableStep
<1>2. ASSUME NEW t \in Tasks, SchedSkips(t) PROVE BuildableStep
  BY <1>2, CompleteOutrightBuildable DEF SchedSkips, Scheduled, Runnable
<1>3. ASSUME NEW t \in Tasks, SchedNoExec(t) PROVE BuildableStep
  BY <1>3, CompleteOutrightBuildable DEF SchedNoExec
<1>4. CASE SettleScene \/ SchedNothing \/ TailWaits \/ TailEnds
             \/ (\E t \in Tasks : SchedRefuses(t) \/ SchedLaunches(t))
             \/ \E t \in Setscene : TailForces(t)
  <2>1. UNCHANGED <<runq_buildable, runq_complete>>
    BY <1>4 DEF SettleScene, SchedNothing, TailWaits, TailEnds, SchedRefuses,
                SchedLaunches, TailForces, runqVars
  <2>2. QED
    BY <2>1, UnchangedBuildable
<1>5. QED
  BY <1>1, <1>2, <1>3, <1>4 DEF Schedules

LEMMA OthersBuildable == Environment \/ Done \/ UNCHANGED vars => BuildableStep
<1> SUFFICES ASSUME Environment \/ Done \/ UNCHANGED vars PROVE BuildableStep
  OBVIOUS
<1>1. UNCHANGED <<runq_buildable, runq_complete>>
  BY DEF Environment, WorkerSteps, WorkerFinishesNow, WorkerQuits, JobEnds, WorkerDies,
         JobReports, UserStops, OnlyWorker, Done, vars, runqVars
<1>2. QED
  BY <1>1, UnchangedBuildable

LEMMA NextBuildable == TypeOK /\ [Next]_vars => BuildableStep
BY ControlBuildable, ReadsBuildable, MigratesBuildable, ScansBuildable,
   SchedulesBuildable, OthersBuildable DEF Next, Cooker

\* Nothing becomes buildable before everything it depends on is complete, in any
\* build: the order RunQueueExecute exists to keep.
THEOREM DepsAlwaysComplete == Spec => []DepsComplete
<1>1. Init => DepsComplete
  BY DEF Init, DepsComplete
<1>2. TypeOK /\ DepsComplete /\ [Next]_vars => DepsComplete'
  BY NextBuildable, StepKeepsDeps
<1>3. QED
  BY <1>1, <1>2, TypeCorrect, PTL DEF Spec

-----------------------------------------------------------------------------
(* From the queue to the processes.                                        *)

\* What executes was started, and what was started was buildable.
StartedBuildable ==
  /\ pc = "init" => runq_buildable = {}
  /\ runq_running \subseteq runq_buildable
  /\ Executing \subseteq runq_running

\* Every ordinary task the worker executes has all its dependencies complete.
DepsBeforeExecution ==
  \A t \in Executing : Depends[t] \subseteq runq_complete

\* What keeps StartedBuildable: only buildable tasks are started, and only started
\* ones are sent to the worker.
StartStep ==
  /\ pc' = "init" => pc = "init" /\ UNCHANGED runq_buildable
  /\ pc = "init" => UNCHANGED runq_running
  /\ pc # "init" => runq_buildable \subseteq runq_buildable'
  /\ runq_running \subseteq runq_running'
  /\ runq_running' \subseteq runq_running \cup runq_buildable
  /\ Executing' \subseteq Executing \cup runq_running'

LEMMA StartStepKeeps == StartedBuildable /\ StartStep => StartedBuildable'
BY DEF StartedBuildable, StartStep

\* Steps of the cooker that start nothing.
LEMMA QuietStart ==
  ASSUME pc' # "init", UNCHANGED <<runq_running, jobs>>,
         pc # "init" => runq_buildable \subseteq runq_buildable'
  PROVE  StartStep
BY DEF StartStep, Executing

LEMMA ControlStarts == Control => StartStep
<1> SUFFICES ASSUME Control PROVE StartStep
  OBVIOUS
<1>1. pc' # "init"
  BY DEF Control, SceneInit, StopBeforeInit, IdleForce, IdleShutdown, Idle,
         AfterExecute, Finish, BuildDone, Return, Goto
<1>2. UNCHANGED <<runq_running, jobs>>
  BY DEF Control, SceneInit, StopBeforeInit, IdleForce, IdleShutdown, Idle,
         AfterExecute, Finish, BuildDone, Return, runqVars, workerVars
<1>3. pc # "init" => UNCHANGED runq_buildable
  BY DEF Control, SceneInit, StopBeforeInit, IdleForce, IdleShutdown, Idle,
         AfterExecute, Finish, BuildDone, Return, runqVars
<1>4. QED
  BY <1>1, <1>2, <1>3, QuietStart

LEMMA ReadsStart == TypeOK /\ Reads => StartStep
<1> SUFFICES ASSUME TypeOK, Reads PROVE StartStep
  OBVIOUS
<1> USE DEF Reads, Poll, ReadEvent, ReadDone, ReadSuccess, ReadFailure,
            ReadSetsceneExit, Exited, Goto, controlVars, runqVars
<1>1. pc' # "init"
  <2>1. CASE ReadDone
    <3>1. pc' = CASE reading = "top" -> "migrate"
                  [] reading = "tail" -> "after"
                  [] reading = "finish" -> "build_done"
                  [] reading = "teardown" -> "return"
      BY <2>1
    <3>2. reading \in {"top", "tail", "finish", "teardown"}
      BY DEF TypeOK, ControlType
    <3>3. pc' \in {"migrate", "after", "build_done", "return"}
      BY <3>1, <3>2, Zenon
    <3>4. QED
      BY <3>3
  <2>2. CASE ~ReadDone
    BY <2>2
  <2>3. QED
    BY <2>1, <2>2
<1>2. UNCHANGED <<runq_running, jobs>>
  OBVIOUS
<1>3. runq_buildable \subseteq runq_buildable'
  BY DEF CompleteOutright
<1>4. QED
  BY <1>1, <1>2, <1>3, QuietStart

LEMMA MigratesStart == Migrates => StartStep
<1> SUFFICES ASSUME Migrates PROVE StartStep
  OBVIOUS
<1>1. pc' # "init" /\ UNCHANGED <<runq_running, jobs, runq_buildable>>
  BY DEF Migrates, NoMigrations, Migrate, Goto, runqVars, workerVars
<1>2. QED
  BY <1>1, QuietStart

\* The worker is sent t: what executes is what did, and t if it is an ordinary task.
LEMMA SendStarts ==
  ASSUME NEW t, NEW kind \in Kinds, Send(t, kind)
  PROVE  Executing' \subseteq Executing \cup (IF kind = "run" THEN {t} ELSE {})
BY DEF Send, Executing, Kinds

LEMMA ScansStart == Scans => StartStep
<1> SUFFICES ASSUME Scans PROVE StartStep
  OBVIOUS
<1> USE DEF OnlyScene, runqVars, Goto
<1>1. ASSUME NEW t \in Setscene, ScanLaunches(t) PROVE StartStep
  <2>1. UNCHANGED <<runq_buildable, runq_running>> /\ pc' # "init"
    BY <1>1 DEF ScanLaunches, BrokenPipe
  <2>2. Executing' \subseteq Executing
    <3>1. CASE Send(t, "setscene")
      BY <3>1, SendStarts DEF Kinds
    <3>2. CASE BrokenPipe
      BY <3>2 DEF BrokenPipe, Executing
    <3>3. QED
      BY <1>1, <3>1, <3>2 DEF ScanLaunches
  <2>3. QED
    BY <2>1, <2>2 DEF StartStep
<1>2. CASE ScanEnds \/ \E t \in Setscene : \/ ScanSkipsUnneeded(t) \/ ScanParks(t)
                                            \/ ScanFails(t) \/ ScanSkipsStamped(t)
  <2>1. pc' # "init" /\ UNCHANGED <<runq_running, jobs, runq_buildable>>
    BY <1>2 DEF ScanEnds, ScanSkipsUnneeded, ScanParks, ScanFails, ScanSkipsStamped,
                workerVars
  <2>2. QED
    BY <2>1, QuietStart
<1>3. QED
  BY <1>1, <1>2 DEF Scans

LEMMA SchedulesStart == Schedules => StartStep
<1> SUFFICES ASSUME Schedules PROVE StartStep
  OBVIOUS
<1> USE DEF runqVars, Goto
<1>1. ASSUME NEW t \in Tasks, Scheduled(t)
      PROVE  t \in runq_buildable /\ pc # "init"
  BY <1>1 DEF Scheduled, Runnable
<1>2. ASSUME NEW t \in Tasks, SchedLaunches(t) PROVE StartStep
  <2>1. /\ UNCHANGED runq_buildable /\ pc' # "init"
        /\ runq_running \subseteq runq_running'
        /\ runq_running' \subseteq runq_running \cup {t}
    BY <1>2 DEF SchedLaunches, BrokenPipe
  <2>2. Executing' \subseteq Executing \cup runq_running'
    <3>1. CASE Send(t, "run") /\ runq_running' = runq_running \cup {t}
      BY <3>1, SendStarts DEF Kinds
    <3>2. CASE BrokenPipe
      BY <3>2 DEF BrokenPipe, Executing
    <3>3. QED
      BY <1>2, <3>1, <3>2 DEF SchedLaunches
  <2>3. t \in runq_buildable /\ pc # "init"
    BY <1>1, <1>2 DEF SchedLaunches
  <2>4. QED
    BY <2>1, <2>2, <2>3 DEF StartStep
<1>3. ASSUME NEW t \in Tasks, SchedSkips(t) \/ SchedNoExec(t) PROVE StartStep
  <2>1. /\ runq_buildable \subseteq runq_buildable' /\ pc' # "init"
        /\ runq_running' = runq_running \cup {t} /\ UNCHANGED jobs
    BY <1>3 DEF SchedSkips, SchedNoExec, Finishes, CompleteOutright, workerVars
  <2>2. t \in runq_buildable /\ pc # "init"
    BY <1>1, <1>3 DEF SchedSkips, SchedNoExec
  <2>3. QED
    BY <2>1, <2>2 DEF StartStep, Executing
<1>4. CASE UpdateHoldoff
  <2>1. pc = "holdoff" /\ pc' = pc /\ runq_buildable \subseteq runq_buildable'
        /\ UNCHANGED <<runq_running, jobs>>
    BY <1>4 DEF UpdateHoldoff, controlVars, workerVars
  <2>2. QED
    BY <2>1, QuietStart
<1>5. CASE SettleScene \/ SchedNothing \/ TailWaits \/ TailEnds
             \/ (\E t \in Tasks : SchedRefuses(t))
             \/ \E t \in Setscene : TailForces(t)
  <2>1. pc' # "init" /\ UNCHANGED <<runq_running, jobs, runq_buildable>>
    BY <1>5 DEF SettleScene, SchedNothing, TailWaits, TailEnds, SchedRefuses,
                TailForces, workerVars
  <2>2. QED
    BY <2>1, QuietStart
<1>6. QED
  BY <1>2, <1>3, <1>4, <1>5 DEF Schedules

LEMMA EnvironmentStarts == Environment => StartStep
<1> SUFFICES ASSUME Environment PROVE StartStep
  OBVIOUS
<1>1. UNCHANGED <<pc, runq_buildable, runq_running>>
  BY DEF Environment, WorkerSteps, WorkerFinishesNow, WorkerQuits, JobEnds, WorkerDies,
         JobReports, UserStops, OnlyWorker, controlVars, runqVars
<1>2. Executing' \subseteq Executing
  <2>1. ASSUME NEW j \in jobs, NEW h \in Hashes, JobReports(j, h)
        PROVE  Executing' \subseteq Executing
    <3> DEFINE k == [j EXCEPT !.hash = h, !.said = TRUE]
    <3>1. k.tid = j.tid /\ k.kind = j.kind
      OBVIOUS
    <3> HIDE DEF k
    <3>2. jobs' = (jobs \ {j}) \cup {k}
      BY <2>1 DEF JobReports, k
    <3>3. QED
      BY <3>1, <3>2 DEF Executing
  <2>2. CASE WorkerSteps \/ WorkerDies \/ \E r \in Requests : UserStops(r)
    <3>1. jobs' \subseteq jobs
      BY <2>2 DEF WorkerSteps, WorkerFinishesNow, WorkerQuits, JobEnds, WorkerDies,
                  UserStops, workerVars
    <3>2. QED
      BY <3>1 DEF Executing
  <2>3. QED
    BY <2>1, <2>2 DEF Environment
<1>3. QED
  BY <1>1, <1>2 DEF StartStep

LEMMA NextStarts == TypeOK /\ [Next]_vars => StartStep
<1> SUFFICES ASSUME TypeOK, [Next]_vars PROVE StartStep
  OBVIOUS
<1>1. CASE Done \/ UNCHANGED vars
  BY <1>1 DEF Done, vars, controlVars, runqVars, workerVars, StartStep, Executing
<1>2. QED
  BY <1>1, ControlStarts, ReadsStart, MigratesStart, ScansStart, SchedulesStart,
     EnvironmentStarts DEF Next, Cooker

\* When the worker executes a task, every task it depends on is complete: the queue's
\* order holds for the processes and not only for the cooker's books.
THEOREM DepsCompleteBeforeExecution == Spec => []DepsBeforeExecution
<1>1. Init => StartedBuildable
  BY DEF Init, StartedBuildable, Executing
<1>2. TypeOK /\ StartedBuildable /\ [Next]_vars => StartedBuildable'
  BY NextStarts, StartStepKeeps
<1>3. StartedBuildable /\ DepsComplete => DepsBeforeExecution
  BY DEF StartedBuildable, DepsComplete, DepsBeforeExecution
<1>4. QED
  BY <1>1, <1>2, <1>3, TypeCorrect, DepsAlwaysComplete, PTL DEF Spec
=============================================================================
