-------------------------- MODULE PreparationProofs -------------------------
(***************************************************************************)
(* What the cooker does before a task runs.  build_scenequeue_data()       *)
(* computes the graph of setscene tasks that module SceneGraph defines,    *)
(* for every task graph and every order of the points: nothing is pushed   *)
(* down to a task that it is not above, and nothing gets lost or stuck on  *)
(* its way although points come up before all that is above them was       *)
(* processed, and then again.  And parsing tells the truth, for any number *)
(* of parsers, recipes and bad recipes, whatever is killed, and whichever  *)
(* thread shuts the pool down.                                             *)
(***************************************************************************)
EXTENDS SceneQueueBuild, ParserPool, FiniteSetTheorems, TLAPS

-----------------------------------------------------------------------------
(* What is defined by recursion, as least sets.                            *)

\* The setscene tasks above t in build b with no other in between.
AboveClosed(b, P) ==
  \A t \in Tasks : \A r \in RevDepsIn(b, t) : \A s \in b.setscene :
    (r = s \/ (r \notin b.setscene /\ <<r, s>> \in P)) => <<t, s>> \in P
AllPairs(b) == Tasks \X b.setscene
AbovePairs(b) ==
  {p \in AllPairs(b) : \A P \in SUBSET AllPairs(b) : AboveClosed(b, P) => p \in P}
Above(b, t) == {s \in b.setscene : <<t, s>> \in AbovePairs(b)}

\* What the endpoints of the build reach without passing a setscene task.
ReachClosed(b, S) ==
  \A t \in Tasks : (\/ RevDepsIn(b, t) = {} \/ t \in Cantskip(b)
                    \/ \E r \in RevDepsIn(b, t) \ b.setscene : r \in S) => t \in S
Reached(b) == {t \in Tasks : \A S \in SUBSET Tasks : ReachClosed(b, S) => t \in S}

LEMMA BuildAre ==
  ASSUME NEW b \in Inputs
  PROVE  /\ b.setscene \subseteq Tasks /\ b.targets \subseteq Tasks
         /\ \A t \in Tasks : /\ b.depends[t] \subseteq Tasks
                             /\ RevDepsIn(b, t) \subseteq Tasks
                             /\ \A r \in Tasks : r \in RevDepsIn(b, t) <=> t \in b.depends[r]
BY InputAssumption DEF RevDepsIn

\* Of some tasks, one depends on no other of them.
LEMMA HasTop ==
  ASSUME NEW b \in Inputs, NEW S, S \subseteq Tasks, S # {}
  PROVE  \E t \in S : RevDepsIn(b, t) \cap S = {}
<1>1. b.depends \in {c.depends : c \in Inputs} /\ S \in SUBSET Tasks
  OBVIOUS
<1>2. PICK t \in S : \A r \in S : t \notin b.depends[r]
  BY <1>1, InputAssumption
<1> QED
  BY <1>2 DEF RevDepsIn

LEMMA AboveRule ==
  ASSUME NEW b \in Inputs, NEW t \in Tasks, NEW s \in b.setscene
  PROVE  s \in Above(b, t) <=>
           \E r \in RevDepsIn(b, t) : r = s \/ (r \notin b.setscene /\ s \in Above(b, r))
<1> DEFINE Least == AbovePairs(b)
<1>1. AboveClosed(b, Least)
  <2> SUFFICES ASSUME NEW u \in Tasks, NEW r \in RevDepsIn(b, u), NEW x \in b.setscene,
                      r = x \/ (r \notin b.setscene /\ <<r, x>> \in Least),
                      NEW P \in SUBSET AllPairs(b), AboveClosed(b, P)
               PROVE  <<u, x>> \in P
    BY DEF AboveClosed, AbovePairs, AllPairs
  <2>1. r = x \/ (r \notin b.setscene /\ <<r, x>> \in P)
    BY DEF AbovePairs
  <2> QED
    BY <2>1 DEF AboveClosed
<1>2. ASSUME s \in Above(b, t),
             \A r \in RevDepsIn(b, t) :
               ~(r = s \/ (r \notin b.setscene /\ s \in Above(b, r)))
      PROVE  FALSE
  <2> DEFINE P == Least \ {<<t, s>>}
  <2>1. P \in SUBSET AllPairs(b)
    BY DEF AbovePairs
  <2>2. AboveClosed(b, P)
    <3> SUFFICES ASSUME NEW v \in Tasks, NEW r \in RevDepsIn(b, v), NEW x \in b.setscene,
                        r = x \/ (r \notin b.setscene /\ <<r, x>> \in P)
                 PROVE  <<v, x>> \in P
      BY DEF AboveClosed
    <3>1. <<v, x>> \in Least
      BY <1>1 DEF AboveClosed
    <3>2. <<v, x>> # <<t, s>>
      BY <1>2 DEF Above
    <3> HIDE DEF Least
    <3> QED
      BY <3>1, <3>2
  <2>3. <<t, s>> \in P
    BY <1>2, <2>1, <2>2 DEF Above, AbovePairs
  <2> QED
    BY <2>3
<1>3. ASSUME NEW r \in RevDepsIn(b, t),
             r = s \/ (r \notin b.setscene /\ s \in Above(b, r))
      PROVE  s \in Above(b, t)
  BY <1>1, <1>3 DEF AboveClosed, Above
<1> QED
  BY <1>2, <1>3

LEMMA ReachRule ==
  ASSUME NEW b \in Inputs, NEW t \in Tasks
  PROVE  t \in Reached(b) <=>
           (\/ RevDepsIn(b, t) = {} \/ t \in Cantskip(b)
            \/ \E r \in RevDepsIn(b, t) \ b.setscene : r \in Reached(b))
<1> DEFINE Least == Reached(b)
<1>1. ReachClosed(b, Least)
  BY DEF ReachClosed, Reached
<1>2. ASSUME t \in Least,
             ~(\/ RevDepsIn(b, t) = {} \/ t \in Cantskip(b)
               \/ \E r \in RevDepsIn(b, t) \ b.setscene : r \in Least)
      PROVE  FALSE
  <2>1. ReachClosed(b, Least \ {t})
    BY <1>1, <1>2 DEF ReachClosed
  <2>2. Least \ {t} \in SUBSET Tasks
    BY DEF Reached
  <2>3. t \in Least \ {t}
    BY <1>2, <2>1, <2>2 DEF Reached
  <2> QED
    BY <2>3
<1> QED
  BY <1>1, <1>2 DEF ReachClosed

\* They are what module SceneGraph defines.
LEMMA OwnersAreAbove ==
  ASSUME build \in Inputs, NEW t \in Tasks
  PROVE  Graph!Owners[t] = Above(build, t)
<1> DEFINE Rule(g) == [u \in Tasks |->
             UNION {IF r \in Setscene THEN {r} ELSE g[r] : r \in Graph!RevDeps(u)}]
           least == [u \in Tasks |-> Above(build, u)]
<1>0. \A u : Graph!RevDeps(u) = RevDepsIn(build, u)
  BY DEF Graph!RevDeps, RevDepsIn
<1>1. \A u \in Tasks :
        least[u] = UNION {IF r \in Setscene THEN {r} ELSE least[r] : r \in Graph!RevDeps(u)}
  <2> SUFFICES ASSUME NEW u \in Tasks
               PROVE  Above(build, u) =
                 UNION {IF r \in Setscene THEN {r} ELSE least[r] : r \in RevDepsIn(build, u)}
    BY <1>0
  <2>1. RevDepsIn(build, u) \subseteq Tasks
    BY BuildAre
  <2>2. \A r \in Tasks : least[r] = Above(build, r) /\ Above(build, r) \subseteq Setscene
    BY DEF Above, Setscene
  <2>3. \A s \in Setscene : s \in Above(build, u) <=> \E r \in RevDepsIn(build, u) :
           r = s \/ (r \notin Setscene /\ s \in Above(build, r))
    BY AboveRule DEF Setscene
  <2> HIDE DEF least
  <2>4. \A s \in Above(build, u) : \E r \in RevDepsIn(build, u) :
          s \in (IF r \in Setscene THEN {r} ELSE least[r])
    <3> SUFFICES ASSUME NEW s \in Above(build, u)
                 PROVE  \E r \in RevDepsIn(build, u) :
                          s \in (IF r \in Setscene THEN {r} ELSE least[r])
      OBVIOUS
    <3>1. PICK r \in RevDepsIn(build, u) :
            r = s \/ (r \notin Setscene /\ s \in Above(build, r))
      BY <2>2, <2>3
    <3> QED
      BY <2>1, <2>2, <3>1
  <2>5. \A r \in RevDepsIn(build, u) :
          \A s \in (IF r \in Setscene THEN {r} ELSE least[r]) : s \in Above(build, u)
    <3> SUFFICES ASSUME NEW r \in RevDepsIn(build, u),
                        NEW s \in (IF r \in Setscene THEN {r} ELSE least[r])
                 PROVE  s \in Above(build, u)
      OBVIOUS
    <3>1. s \in Setscene /\ (r = s \/ (r \notin Setscene /\ s \in Above(build, r)))
      BY <2>1, <2>2
    <3> QED
      BY <2>3, <3>1
  <2> QED
    BY <2>4, <2>5
<1>2. least = Rule(least)
  <2>1. least = [u \in Tasks |-> least[u]]
    OBVIOUS
  <2> HIDE DEF least
  <2> QED
    BY <1>1, <2>1, Zenon
<1>3. Graph!Owners = Rule(Graph!Owners)
  <2> HIDE DEF least
  <2> QED
    BY <1>2, Zenon DEF Graph!Owners
<1>4. \A u \in Tasks : \A s : s \in Graph!Owners[u] <=> \E r \in RevDepsIn(build, u) :
        IF r \in Setscene THEN s = r ELSE s \in Graph!Owners[r]
  <2> TAKE u \in Tasks
  <2>1. Graph!Owners[u] =
          UNION {IF r \in Setscene THEN {r} ELSE Graph!Owners[r] : r \in RevDepsIn(build, u)}
    BY <1>0, <1>3
  <2> DEFINE Part(r) == IF r \in Setscene THEN {r} ELSE Graph!Owners[r]
  <2>2. \A s, r : s \in Part(r) <=> IF r \in Setscene THEN s = r ELSE s \in Graph!Owners[r]
    OBVIOUS
  <2>3. Graph!Owners[u] = UNION {Part(r) : r \in RevDepsIn(build, u)}
    BY <2>1
  <2> HIDE DEF Part
  <2>4. \A s : s \in Graph!Owners[u] <=> \E r \in RevDepsIn(build, u) : s \in Part(r)
    BY <2>3
  <2> QED
    BY <2>2, <2>4
<1>5. \A u \in Tasks : \A s : s \in Above(build, u) <=> \E r \in RevDepsIn(build, u) :
        IF r \in Setscene THEN s = r ELSE s \in Above(build, r)
  <2> TAKE u \in Tasks
  <2>1. \A r : Above(build, r) \subseteq Setscene
    BY DEF Above, Setscene
  <2>2. \A s \in Setscene : s \in Above(build, u) <=> \E r \in RevDepsIn(build, u) :
           r = s \/ (r \notin Setscene /\ s \in Above(build, r))
    BY AboveRule DEF Setscene
  <2>3. ASSUME NEW s \in Setscene, NEW r
        PROVE  (r = s \/ (r \notin Setscene /\ s \in Above(build, r)))
                 <=> IF r \in Setscene THEN s = r ELSE s \in Above(build, r)
    OBVIOUS
  <2>4. ASSUME NEW s, s \notin Setscene, NEW r
        PROVE  ~(IF r \in Setscene THEN s = r ELSE s \in Above(build, r))
    BY <2>1, <2>4
  <2> QED
    BY <2>1, <2>2, <2>3, <2>4
<1> DEFINE Wrong == {u \in Tasks : Graph!Owners[u] # Above(build, u)}
<1>6. ASSUME Wrong # {} PROVE FALSE
  <2>1. PICK u \in Wrong : RevDepsIn(build, u) \cap Wrong = {}
    BY <1>6, HasTop
  <2>2. \A r \in RevDepsIn(build, u) : Graph!Owners[r] = Above(build, r)
    BY <2>1, BuildAre
  <2>3. \A s : s \in Graph!Owners[u] <=> s \in Above(build, u)
    BY <1>4, <1>5, <2>2
  <2> QED
    BY <2>3
<1> QED
  BY <1>6

LEMMA ReachValue ==
  ASSUME NEW u, NEW L, NEW E, NEW C, NEW D, NEW g,
         \A r \in D : g[r] <=> r \in L,
         u \in L <=> (E = {} \/ u \in C \/ \E r \in D : r \in L)
  PROVE  (u \in L) = (E = {} \/ u \in C \/ \E r \in D : g[r])
<1>1. u \in L <=> (E = {} \/ u \in C \/ \E r \in D : g[r])
  OBVIOUS
<1> QED
  BY <1>1

LEMMA UnskippableAreReached ==
  ASSUME build \in Inputs
  PROVE  Graph!Unskippable = Reached(build)
<1> DEFINE Rule(g) == [u \in Tasks |-> \/ Graph!RevDeps(u) = {} \/ u \in Graph!Cantskip
                                       \/ \E r \in Graph!RevDeps(u) \ Setscene : g[r]]
           Least == Reached(build)
           least == [u \in Tasks |-> u \in Least]
<1>1. /\ \A u : Graph!RevDeps(u) = RevDepsIn(build, u)
      /\ Graph!Cantskip = Cantskip(build)
  BY DEF Graph!RevDeps, RevDepsIn, Graph!Cantskip, Cantskip, Setscene
<1>2. \A u \in Tasks : u \in Least <=>
        (\/ Graph!RevDeps(u) = {} \/ u \in Graph!Cantskip
         \/ \E r \in Graph!RevDeps(u) \ Setscene : r \in Least)
  BY <1>1, ReachRule DEF Setscene
<1>3. least = Rule(least)
  <2>1. \A u \in Tasks : \A r \in Graph!RevDeps(u) \ Setscene : least[r] <=> r \in Least
    BY <1>1, BuildAre
  <2>2. least = [u \in Tasks |-> u \in Least]
    BY DEF least
  <2> HIDE DEF Least, least
  <2>3. \A u \in Tasks :
          (u \in Least) = (\/ Graph!RevDeps(u) = {} \/ u \in Graph!Cantskip
                           \/ \E r \in Graph!RevDeps(u) \ Setscene : least[r])
    <3> TAKE u \in Tasks
    <3> DEFINE D == Graph!RevDeps(u) \ Setscene
               all == Graph!RevDeps(u)
               C == Graph!Cantskip
    <3>1. \A r \in D : least[r] <=> r \in Least
      BY <2>1
    <3>2. u \in Least <=> (all = {} \/ u \in C \/ \E r \in D : r \in Least)
      BY <1>2
    <3>3. (u \in Least) = (all = {} \/ u \in C \/ \E r \in D : least[r])
      <4> HIDE DEF D, all, C
      <4> QED
        BY <3>1, <3>2, ReachValue
    <3> QED
      BY <3>3
  <2> QED
    BY <2>2, <2>3, Zenon
<1>4. Graph!IsUnskippable = Rule(Graph!IsUnskippable)
  <2> HIDE DEF Least, least
  <2>1. Graph!IsUnskippable = CHOOSE g : g = Rule(g)
    BY DEF Graph!IsUnskippable
  <2> HIDE DEF Rule
  <2> QED
    BY <1>3, <2>1, Zenon
<1> HIDE DEF Least, least
<1>5. \A u \in Tasks : Graph!IsUnskippable[u] =
        (\/ Graph!RevDeps(u) = {} \/ u \in Graph!Cantskip
         \/ \E r \in Graph!RevDeps(u) \ Setscene : Graph!IsUnskippable[r])
  BY <1>4
<1> DEFINE Wrong == {u \in Tasks : ~(Graph!IsUnskippable[u] <=> u \in Least)}
<1>6. ASSUME Wrong # {} PROVE FALSE
  <2>1. PICK u \in Wrong : RevDepsIn(build, u) \cap Wrong = {}
    BY <1>6, HasTop
  <2>2. \A r \in Graph!RevDeps(u) : Graph!IsUnskippable[r] <=> r \in Least
    BY <1>1, <2>1, BuildAre
  <2> QED
    BY <1>2, <1>5, <2>1, <2>2
<1>7. \A u \in Tasks : Graph!IsUnskippable[u] <=> u \in Least
  BY <1>6
<1>8. Least \subseteq Tasks
  BY DEF Least, Reached
<1> QED
  BY <1>7, <1>8 DEF Graph!Unskippable, Least

-----------------------------------------------------------------------------
(* The invariant.                                                          *)

Ordinary == Tasks \ Setscene

BuildType ==
  /\ build \in Inputs
  /\ stage \in {"chains", "unskippable", "check", "done", "fatal"}
  /\ sq_revdeps_squash \in [Tasks -> SUBSET Setscene]
  /\ sq_collated_deps \in [Setscene -> SUBSET Ordinary]
  /\ sq_revdeps \in [Tasks -> SUBSET Ordinary]
  /\ DOMAIN endpoints \subseteq Tasks /\ DOMAIN newendpoints \subseteq Tasks
  /\ unskippable \subseteq Tasks

\* Nothing is listed with, pushed to or counted as covered by what is not above it.
Sound ==
  /\ \A t \in Tasks : sq_revdeps_squash[t] \subseteq Above(build, t)
  /\ \A t \in DOMAIN endpoints : endpoints[t] \subseteq Above(build, t)
  /\ \A t \in DOMAIN newendpoints : newendpoints[t] \subseteq Above(build, t)
  /\ \A s \in Setscene : \A t \in sq_collated_deps[s] : s \in Above(build, t)
  /\ \A t \in Tasks : sq_revdeps[t] \subseteq RevDepsIn(build, t)

\* Setscene task s has come down to task t, or has been there.
Came(s, t) == s \in sq_revdeps_squash[t] \/ t \in sq_collated_deps[s]

\* What has been at a task, or is listed with it, is not lost: it came down to all
\* that the task depends on.
Passed ==
  /\ \A s \in Setscene : \A p \in sq_collated_deps[s] : \A d \in DependsOn(p) : Came(s, d)
  /\ \A s \in Setscene : \A d \in DependsOn(s) :
       Came(s, d) \/ (d \in DOMAIN endpoints /\ s \in endpoints[d])

\* Nor does it stay where it is: an ordinary task is listed for this batch or the next,
\* or waits for another, or has nothing to pass on and is waited for by no other.
Listed(t) == t \in DOMAIN endpoints \/ t \in DOMAIN newendpoints
Pending ==
  \A t \in Ordinary :
    \/ Listed(t)
    \/ sq_revdeps[t] # {}
    \/ sq_revdeps_squash[t] = {} /\ \A d \in DependsOn(t) : t \notin sq_revdeps[d]

\* The later stages begin when the batches are over, and end when there is nothing to add.
Stages ==
  /\ stage # "chains" => DOMAIN endpoints = {} /\ DOMAIN newendpoints = {}
  /\ Roots(build) \cup Cantskip(build) \subseteq unskippable
  /\ unskippable \subseteq Reached(build)
  /\ \A t \in buildable : t \in unskippable \ Setscene /\ DependsOn(t) = {}
  /\ stage \notin {"chains", "unskippable"} =>
       \A t \in unskippable \ Setscene :
         DependsOn(t) \subseteq unskippable /\ (DependsOn(t) = {} => t \in buildable)
  /\ stage # "fatal"

BuildInv == BuildType /\ Sound /\ Passed /\ Pending /\ Stages

LEMMA DependsAre ==
  ASSUME build \in Inputs
  PROVE  /\ Setscene \subseteq Tasks
         /\ \A t \in Tasks : /\ DependsOn(t) \subseteq Tasks
                             /\ RevDepsIn(build, t) \subseteq Tasks
                             /\ \A r \in Tasks : r \in RevDepsIn(build, t) <=> t \in DependsOn(r)
                             /\ t \notin DependsOn(t)
<1>1. \A t \in Tasks : t \notin RevDepsIn(build, t)
  <2> TAKE t \in Tasks
  <2>1. {t} \subseteq Tasks /\ {t} # {}
    OBVIOUS
  <2>2. \E u \in {t} : RevDepsIn(build, u) \cap {t} = {}
    BY <2>1, HasTop
  <2> QED
    BY <2>2
<1> QED
  BY <1>1, BuildAre DEF DependsOn, Setscene

LEMMA AboveAre ==
  ASSUME build \in Inputs, NEW t \in Tasks
  PROVE  /\ Above(build, t) \subseteq Setscene
         /\ \A r \in RevDepsIn(build, t) : IF r \in Setscene THEN r \in Above(build, t)
                                           ELSE Above(build, r) \subseteq Above(build, t)
         /\ \A s \in Above(build, t) : \E r \in RevDepsIn(build, t) :
              r = s \/ (r \notin Setscene /\ s \in Above(build, r))
<1>1. Above(build, t) \subseteq Setscene /\ \A r : Above(build, r) \subseteq Setscene
  BY DEF Above, Setscene
<1>2. \A s \in Setscene : s \in Above(build, t) <=>
        \E r \in RevDepsIn(build, t) : r = s \/ (r \notin Setscene /\ s \in Above(build, r))
  BY AboveRule DEF Setscene
<1> QED
  BY <1>1, <1>2

LEMMA InitBuild == Init => BuildInv
<1> SUFFICES ASSUME Init PROVE BuildInv
  OBVIOUS
<1>1. build \in Inputs /\ stage = "chains"
  BY DEF Init
<1>2. /\ sq_revdeps = [t \in Tasks |-> RevDepsIn(build, t) \ Setscene]
      /\ sq_revdeps_squash = [t \in Tasks |-> {}]
      /\ sq_collated_deps = [t \in Setscene |-> {}]
      /\ unskippable = Roots(build) \cup Cantskip(build)
      /\ newendpoints = <<>> /\ buildable = {}
  BY DEF Init, Setscene
<1>3. /\ DOMAIN endpoints = (Roots(build) \ Setscene) \cup UNION {DependsOn(s) : s \in Setscene}
      /\ \A t \in DOMAIN endpoints : endpoints[t] = RevDepsIn(build, t) \cap Setscene
  BY DEF Init, Setscene, DependsOn
<1>4. DOMAIN newendpoints = {}
  BY <1>2
<1>5. Roots(build) \subseteq Tasks /\ Cantskip(build) \subseteq Tasks
  BY <1>1, BuildAre DEF Roots, Cantskip
<1>6. DOMAIN endpoints \subseteq Tasks
  BY <1>1, <1>3, <1>5, DependsAre
<1>7. BuildType
  BY <1>1, <1>2, <1>4, <1>5, <1>6, DependsAre DEF BuildType, Ordinary
<1>8. Sound
  <2>1. \A t \in DOMAIN endpoints : endpoints[t] \subseteq Above(build, t)
    BY <1>1, <1>3, <1>6, AboveAre
  <2> QED
    BY <1>2, <1>4, <2>1 DEF Sound
<1>9. Passed
  <2>1. \A s \in Setscene : \A d \in DependsOn(s) : d \in DOMAIN endpoints /\ s \in endpoints[d]
    BY <1>1, <1>3, DependsAre
  <2> QED
    BY <1>2, <2>1 DEF Passed
<1>10. Pending
  <2> SUFFICES ASSUME NEW t \in Ordinary, ~Listed(t), sq_revdeps[t] = {} PROVE FALSE
    BY DEF Pending
  <2>1. t \in Tasks /\ t \notin Setscene /\ RevDepsIn(build, t) \subseteq Setscene
    BY <1>2 DEF Ordinary
  <2>2. RevDepsIn(build, t) # {}
    BY <1>3, <2>1 DEF Listed, Roots
  <2>3. PICK s \in RevDepsIn(build, t) : s \in Setscene
    BY <2>1, <2>2
  <2>4. t \in DependsOn(s)
    BY <1>1, <2>1, <2>3, DependsAre
  <2> QED
    BY <1>3, <2>3, <2>4 DEF Listed
<1>11. Stages
  <2>1. \A t \in Roots(build) \cup Cantskip(build) : t \in Reached(build)
    BY <1>1, <1>5, ReachRule DEF Roots
  <2> QED
    BY <1>1, <1>2, <2>1 DEF Stages
<1> QED
  BY <1>7, <1>8, <1>9, <1>10, <1>11 DEF BuildInv

\* A point passes on what it carries.
LEMMA PointBuild == BuildInv /\ (\E p \in Tasks : ProcessPoint(p)) => BuildInv'
<1> SUFFICES ASSUME BuildInv, NEW p \in Tasks, ProcessPoint(p) PROVE BuildInv'
  OBVIOUS
<1>1. /\ stage = "chains" /\ p \in DOMAIN endpoints
      /\ endpoints' = [t \in DOMAIN endpoints \ {p} |-> endpoints[t]]
      /\ build' = build /\ stage' = stage
      /\ unskippable' = unskippable /\ buildable' = buildable
  BY DEF ProcessPoint
<1>2. BuildType /\ build \in Inputs
  BY DEF BuildInv, BuildType
<1>3. /\ Setscene' = Setscene /\ Ordinary' = Ordinary
      /\ \A t : DependsOn(t)' = DependsOn(t)
  BY <1>1 DEF Setscene, Ordinary, DependsOn
<1>4. Carried(p) \subseteq Above(build, p) /\ sq_revdeps_squash[p] \subseteq Carried(p)
      /\ endpoints[p] \subseteq Carried(p)
  BY <1>1 DEF BuildInv, Sound, Carried
<1>5. Stages'
  BY <1>1, <1>3 DEF BuildInv, Stages
<1>6. CASE p \in Setscene
  <2>1. /\ sq_revdeps_squash' = [sq_revdeps_squash EXCEPT ![p] = Carried(p)]
        /\ UNCHANGED <<newendpoints, sq_revdeps, sq_collated_deps>>
    BY <1>6 DEF ProcessPoint, Kept
  <2>2. \A t \in Tasks : /\ sq_revdeps_squash[t] \subseteq sq_revdeps_squash'[t]
                         /\ t # p => sq_revdeps_squash'[t] = sq_revdeps_squash[t]
    BY <1>2, <1>4, <2>1 DEF BuildType
  <2>3. BuildType'
    BY <1>1, <1>2, <1>3, <1>4, <2>1, AboveAre DEF BuildType
  <2>4. Sound'
    BY <1>1, <1>2, <1>3, <1>4, <2>1 DEF BuildInv, Sound, BuildType
  <2>5. \A s \in Setscene : \A t \in Tasks :
          Came(s, t) \/ (t = p /\ s \in endpoints[p]) => Came(s, t)'
    BY <1>2, <1>4, <2>1, <2>2 DEF Came, BuildType
  <2>6. Passed'
    <3>1. \A t \in Tasks : DependsOn(t) \subseteq Tasks
      BY <1>2, DependsAre
    <3>2. ASSUME NEW s \in Setscene, NEW q \in sq_collated_deps[s], NEW d \in DependsOn(q)
          PROVE  Came(s, d)'
      <4>1. q \in Tasks
        BY <1>2 DEF BuildType, Ordinary
      <4> QED
        BY <2>5, <3>1, <4>1 DEF BuildInv, Passed
    <3>3. ASSUME NEW s \in Setscene, NEW d \in DependsOn(s)
          PROVE  Came(s, d)' \/ (d \in DOMAIN endpoints' /\ s \in endpoints'[d])
      <4>1. s \in Tasks /\ d \in Tasks
        BY <1>2, <3>1, DependsAre
      <4> QED
        BY <1>1, <2>5, <4>1 DEF BuildInv, Passed
    <3> QED
      BY <1>3, <2>1, <3>2, <3>3 DEF Passed
  <2>7. Pending'
    <3> SUFFICES ASSUME NEW t \in Ordinary
                 PROVE  \/ Listed(t)' \/ sq_revdeps'[t] # {}
                        \/ /\ sq_revdeps_squash'[t] = {}
                           /\ \A d \in DependsOn(t) : t \notin sq_revdeps'[d]
      BY <1>3 DEF Pending
    <3>1. t \in Tasks /\ t # p
      BY <1>6 DEF Ordinary
    <3>2. Listed(t) => Listed(t)'
      BY <1>1, <2>1, <3>1 DEF Listed
    <3> QED
      BY <2>1, <2>2, <3>1, <3>2 DEF BuildInv, Pending
  <2> QED
    BY <1>5, <2>3, <2>4, <2>6, <2>7 DEF BuildInv
<1>7. CASE p \notin Setscene
  <2>1. /\ sq_collated_deps' =
             [t \in Setscene |-> sq_collated_deps[t] \cup IF t \in Carried(p) THEN {p} ELSE {}]
        /\ sq_revdeps_squash' =
             [t \in Tasks |-> IF t = p THEN {}
                              ELSE sq_revdeps_squash[t] \cup
                                   IF t \in DependsOn(p) THEN Carried(p) ELSE {}]
        /\ sq_revdeps' =
             [t \in Tasks |-> IF t \in DependsOn(p) THEN sq_revdeps[t] \ {p}
                              ELSE sq_revdeps[t]]
        /\ newendpoints' =
             [d \in DOMAIN newendpoints \cup Freed(p) |->
                IF d \in Freed(p) THEN endpoints[p] ELSE newendpoints[d]]
    BY <1>7 DEF ProcessPoint, Kept
  <2>2. /\ DependsOn(p) \subseteq Tasks /\ p \notin DependsOn(p)
        /\ Freed(p) \subseteq DependsOn(p)
        /\ Carried(p) \subseteq Setscene
    BY <1>2, <1>4, DependsAre, AboveAre DEF Freed
  <2>3. \A d \in DependsOn(p) : Carried(p) \subseteq Above(build, d)
    <3> TAKE d \in DependsOn(p)
    <3>1. d \in Tasks /\ p \in RevDepsIn(build, d)
      BY <1>2, <2>2, DependsAre
    <3> QED
      BY <1>2, <1>4, <1>7, <3>1, AboveAre
  <2>4. BuildType'
    <3>1. p \in Ordinary
      BY <1>7 DEF Ordinary
    <3>2. sq_collated_deps' \in [Setscene -> SUBSET Ordinary]
      BY <1>2, <2>1, <3>1 DEF BuildType
    <3>3. sq_revdeps_squash' \in [Tasks -> SUBSET Setscene]
      BY <1>2, <2>1, <2>2 DEF BuildType
    <3>4. sq_revdeps' \in [Tasks -> SUBSET Ordinary]
      BY <1>2, <2>1 DEF BuildType
    <3>5. DOMAIN endpoints' \subseteq Tasks /\ DOMAIN newendpoints' \subseteq Tasks
      BY <1>1, <1>2, <2>1, <2>2 DEF BuildType
    <3> QED
      BY <1>1, <1>2, <1>3, <3>2, <3>3, <3>4, <3>5 DEF BuildType
  <2>5. Sound'
    <3>1. \A t \in Tasks : sq_revdeps_squash'[t] \subseteq Above(build, t)
      BY <1>2, <2>1, <2>3 DEF BuildInv, Sound
    <3>2. \A t \in DOMAIN endpoints' : endpoints'[t] \subseteq Above(build, t)
      BY <1>1 DEF BuildInv, Sound
    <3>3. \A t \in DOMAIN newendpoints' : newendpoints'[t] \subseteq Above(build, t)
      BY <1>4, <2>1, <2>2, <2>3 DEF BuildInv, Sound
    <3>4. \A s \in Setscene : \A t \in sq_collated_deps'[s] : s \in Above(build, t)
      BY <1>4, <2>1 DEF BuildInv, Sound
    <3>5. \A t \in Tasks : sq_revdeps'[t] \subseteq RevDepsIn(build, t)
      BY <2>1 DEF BuildInv, Sound
    <3> QED
      BY <1>1, <1>3, <3>1, <3>2, <3>3, <3>4, <3>5 DEF Sound
  <2>6. \A s \in Setscene : \A t \in Tasks :
          (\/ Came(s, t)
           \/ t = p /\ s \in endpoints[p]
           \/ t \in DependsOn(p) /\ s \in Carried(p)) => Came(s, t)'
    <3> SUFFICES ASSUME NEW s \in Setscene, NEW t \in Tasks,
                        \/ Came(s, t)
                        \/ t = p /\ s \in endpoints[p]
                        \/ t \in DependsOn(p) /\ s \in Carried(p)
                 PROVE  Came(s, t)'
      OBVIOUS
    <3>1. CASE t \in sq_collated_deps[s]
      BY <2>1, <3>1 DEF Came
    <3>2. CASE t = p /\ s \in Carried(p)
      BY <2>1, <3>2 DEF Came
    <3>3. CASE t # p /\ (s \in sq_revdeps_squash[t] \/ (t \in DependsOn(p) /\ s \in Carried(p)))
      BY <2>1, <3>3 DEF Came
    <3> QED
      BY <1>4, <2>2, <3>1, <3>2, <3>3 DEF Came
  <2>7. Passed'
    <3>1. \A t \in Tasks : DependsOn(t) \subseteq Tasks
      BY <1>2, DependsAre
    <3>2. ASSUME NEW s \in Setscene, NEW q \in sq_collated_deps'[s], NEW d \in DependsOn(q)
          PROVE  Came(s, d)'
      <4>1. q \in sq_collated_deps[s] \/ (q = p /\ s \in Carried(p))
        BY <2>1
      <4>2. q \in Tasks
        BY <1>2, <4>1 DEF BuildType, Ordinary
      <4> QED
        BY <2>6, <3>1, <4>1, <4>2 DEF BuildInv, Passed
    <3>3. ASSUME NEW s \in Setscene, NEW d \in DependsOn(s)
          PROVE  Came(s, d)' \/ (d \in DOMAIN endpoints' /\ s \in endpoints'[d])
      <4>1. s \in Tasks /\ d \in Tasks
        BY <1>2, <3>1, DependsAre
      <4> QED
        BY <1>1, <2>6, <4>1 DEF BuildInv, Passed
    <3> QED
      BY <1>3, <3>2, <3>3 DEF Passed
  <2>8. Pending'
    <3> SUFFICES ASSUME NEW t \in Ordinary, ~Listed(t)', sq_revdeps'[t] = {}
                 PROVE  /\ sq_revdeps_squash'[t] = {}
                        /\ \A d \in DependsOn(t) : t \notin sq_revdeps'[d]
      BY <1>3 DEF Pending
    <3>1. t \in Tasks /\ DependsOn(t) \subseteq Tasks
      BY <1>2, DependsAre DEF Ordinary
    <3>2. CASE t = p
      BY <2>1, <2>2, <3>1, <3>2
    <3>3. CASE t # p
      <4>1. t \notin Freed(p) /\ ~Listed(t)
        BY <1>1, <2>1, <3>3 DEF Listed
      <4>2. t \notin DependsOn(p)
        BY <2>1, <3>1, <4>1 DEF Freed, Ordinary
      <4>3. sq_revdeps[t] = {} /\ sq_revdeps_squash'[t] = sq_revdeps_squash[t]
        BY <2>1, <3>1, <3>3, <4>2
      <4>4. \A d \in DependsOn(t) : sq_revdeps'[d] \subseteq sq_revdeps[d]
        BY <2>1, <3>1
      <4> QED
        BY <4>1, <4>3, <4>4 DEF BuildInv, Pending
    <3> QED
      BY <3>2, <3>3
  <2> QED
    BY <1>5, <2>4, <2>5, <2>7, <2>8 DEF BuildInv
<1> QED
  BY <1>6, <1>7

LEMMA BatchBuild == BuildInv /\ NextBatch => BuildInv'
<1> SUFFICES ASSUME BuildInv, NextBatch PROVE BuildInv'
  OBVIOUS
<1>1. /\ stage = "chains" /\ DOMAIN endpoints = {}
      /\ endpoints' = newendpoints /\ newendpoints' = <<>>
      /\ stage' = IF DOMAIN newendpoints = {} THEN "unskippable" ELSE "chains"
      /\ UNCHANGED <<build, sq_revdeps, sq_revdeps_squash, sq_collated_deps, unskippable,
                     buildable>>
  BY DEF NextBatch
<1>2. DOMAIN newendpoints' = {}
  BY <1>1
<1>3. /\ Setscene' = Setscene /\ Ordinary' = Ordinary
      /\ \A t : DependsOn(t)' = DependsOn(t)
      /\ \A s, t : Came(s, t)' = Came(s, t)
  BY <1>1 DEF Setscene, Ordinary, DependsOn, Came
<1>4. BuildType'
  BY <1>1, <1>2, <1>3 DEF BuildInv, BuildType
<1>5. Sound'
  BY <1>1, <1>2, <1>3 DEF BuildInv, Sound
<1>6. Passed'
  BY <1>1, <1>3 DEF BuildInv, Passed
<1>7. Pending'
  <2>1. \A t : Listed(t)' <=> Listed(t)
    BY <1>1, <1>2 DEF Listed
  <2> QED
    BY <1>1, <1>3, <2>1 DEF BuildInv, Pending
<1>8. Stages'
  BY <1>1, <1>2, <1>3 DEF BuildInv, Stages
<1> QED
  BY <1>4, <1>5, <1>6, <1>7, <1>8 DEF BuildInv

\* When the batches are over nothing is halfway down: a task that something waits for
\* would wait for another one itself, and so on for ever.
LEMMA NothingMissed ==
  ASSUME BuildInv, stage # "chains"
  PROVE  \A t \in Ordinary : sq_revdeps_squash[t] = {}
<1> DEFINE S == {p \in Ordinary : sq_revdeps[p] # {}}
<1>1. \A t : ~Listed(t)
  BY DEF BuildInv, Stages, Listed
<1>2. ASSUME S # {} PROVE FALSE
  <2>1. S \subseteq Tasks /\ build \in Inputs
    BY DEF Ordinary, BuildInv, BuildType
  <2>2. PICK p \in S : RevDepsIn(build, p) \cap S = {}
    BY <1>2, <2>1, HasTop
  <2>3. PICK r \in sq_revdeps[p] : TRUE
    BY <2>2
  <2>4. r \in Ordinary /\ r \in RevDepsIn(build, p) /\ p \in Tasks /\ r \in Tasks
    BY <2>2, <2>3 DEF BuildInv, BuildType, Sound, Ordinary
  <2>5. p \in DependsOn(r)
    BY <2>1, <2>4, DependsAre
  <2>6. sq_revdeps[r] # {}
    BY <1>1, <2>3, <2>4, <2>5 DEF BuildInv, Pending
  <2> QED
    BY <2>2, <2>4, <2>6
<1> QED
  BY <1>1, <1>2 DEF BuildInv, Pending

LEMMA LaterBuild == BuildInv /\ (Pass \/ SanityCheck) => BuildInv'
<1> SUFFICES ASSUME BuildInv, Pass \/ SanityCheck PROVE BuildInv'
  OBVIOUS
<1>1. /\ stage # "chains" /\ stage' # "chains"
      /\ UNCHANGED <<build, endpoints, newendpoints, sq_revdeps, sq_revdeps_squash,
                     sq_collated_deps>>
  BY DEF Pass, SanityCheck, chainVars
<1>2. /\ Setscene' = Setscene /\ Ordinary' = Ordinary
      /\ \A t : DependsOn(t)' = DependsOn(t) /\ Listed(t)' = Listed(t)
      /\ \A s, t : Came(s, t)' = Came(s, t)
  BY <1>1 DEF Setscene, Ordinary, DependsOn, Came, Listed
<1>3. Sound' /\ Passed' /\ Pending'
  <2>1. Sound'
    BY <1>1, <1>2 DEF BuildInv, Sound
  <2>2. Passed'
    BY <1>1, <1>2 DEF BuildInv, Passed
  <2>3. Pending'
    BY <1>1, <1>2 DEF BuildInv, Pending
  <2> QED
    BY <2>1, <2>2, <2>3
<1>4. build \in Inputs /\ unskippable \subseteq Tasks
  BY DEF BuildInv, BuildType
<1>5. CASE Pass
  <2> DEFINE open == unskippable \ Setscene
  <2>1. /\ stage = "unskippable"
        /\ unskippable' = unskippable \cup UNION {DependsOn(t) : t \in open}
        /\ buildable' = buildable \cup {t \in open : DependsOn(t) = {}}
        /\ stage' = IF unskippable' = unskippable THEN "check" ELSE "unskippable"
    BY <1>5 DEF Pass
  <2>2. \A t \in open : DependsOn(t) \subseteq Reached(build)
    <3> SUFFICES ASSUME NEW t \in open, NEW d \in DependsOn(t) PROVE d \in Reached(build)
      OBVIOUS
    <3>1. t \in Tasks /\ t \in Reached(build) /\ d \in Tasks /\ t \in RevDepsIn(build, d)
      BY <1>4, DependsAre DEF BuildInv, Stages
    <3> QED
      BY <1>4, <3>1, ReachRule DEF Setscene
  <2>3. unskippable' \subseteq Tasks
    BY <1>4, <2>1, DependsAre
  <2>4. BuildType'
    BY <1>1, <1>2, <2>1, <2>3 DEF BuildInv, BuildType
  <2>5. Stages'
    <3>1. unskippable \subseteq unskippable' /\ unskippable' \subseteq Reached(build)
      BY <2>1, <2>2 DEF BuildInv, Stages
    <3>2. stage' = "check" => unskippable' = unskippable
      BY <2>1
    <3>3. stage' = "check" =>
            \A t \in open : /\ DependsOn(t) \subseteq unskippable'
                            /\ DependsOn(t) = {} => t \in buildable'
      BY <2>1, <3>2
    <3>4. \A t \in buildable' : t \in unskippable' \ Setscene /\ DependsOn(t) = {}
      BY <2>1, <3>1 DEF BuildInv, Stages
    <3>5. stage' \in {"check", "unskippable"}
      BY <2>1
    <3> QED
      BY <1>1, <1>2, <3>1, <3>2, <3>3, <3>4, <3>5 DEF BuildInv, Stages
  <2> QED
    BY <1>3, <2>4, <2>5 DEF BuildInv
<1>6. CASE SanityCheck
  <2>1. /\ stage = "check" /\ UNCHANGED <<unskippable, buildable>>
        /\ stage' = IF \E t \in Tasks \ Setscene : sq_revdeps_squash[t] # {}
                    THEN "fatal" ELSE "done"
    BY <1>6 DEF SanityCheck
  <2>2. stage' = "done"
    BY <2>1, NothingMissed DEF Ordinary
  <2>3. BuildType' /\ Stages'
    BY <1>1, <1>2, <2>1, <2>2 DEF BuildInv, BuildType, Stages
  <2> QED
    BY <1>3, <2>3 DEF BuildInv
<1> QED
  BY <1>5, <1>6

LEMMA BuildStep == BuildInv /\ [Next]_vars => BuildInv'
<1> SUFFICES ASSUME BuildInv, [Next]_vars PROVE BuildInv'
  OBVIOUS
<1>1. CASE UNCHANGED vars
  <2>1. /\ Setscene' = Setscene /\ Ordinary' = Ordinary
        /\ \A t : DependsOn(t)' = DependsOn(t) /\ Listed(t)' = Listed(t)
        /\ \A s, t : Came(s, t)' = Came(s, t)
    BY <1>1 DEF vars, chainVars, Setscene, Ordinary, DependsOn, Came, Listed
  <2>2. BuildType' /\ Sound' /\ Stages'
    BY <1>1, <2>1 DEF BuildInv, BuildType, Sound, Stages, vars, chainVars
  <2>3. Passed'
    BY <1>1, <2>1 DEF BuildInv, Passed, vars, chainVars
  <2>4. Pending'
    BY <1>1, <2>1 DEF BuildInv, Pending, vars, chainVars
  <2> QED
    BY <2>2, <2>3, <2>4 DEF BuildInv
<1>2. CASE Next
  BY <1>1, <1>2, PointBuild, BatchBuild, LaterBuild DEF Next, Done
<1> QED
  BY <1>1, <1>2

\* What is above a task came down to it.
LEMMA AllCame ==
  ASSUME BuildInv, stage # "chains", NEW t \in Tasks, NEW s \in Above(build, t)
  PROVE  Came(s, t)
<1> DEFINE S == {u \in Tasks : \E x \in Above(build, u) : ~Came(x, u)}
<1>1. ASSUME S # {} PROVE FALSE
  <2>1. build \in Inputs /\ S \subseteq Tasks
    BY DEF BuildInv, BuildType
  <2>2. PICK u \in S : RevDepsIn(build, u) \cap S = {}
    BY <1>1, <2>1, HasTop
  <2>3. PICK x \in Above(build, u) : ~Came(x, u)
    BY <2>2
  <2>4. x \in Setscene
    BY <2>1, <2>2, AboveAre
  <2>5. PICK r \in RevDepsIn(build, u) : r = x \/ (r \notin Setscene /\ x \in Above(build, r))
    BY <2>1, <2>2, <2>3, AboveAre
  <2>6. r \in Tasks /\ u \in DependsOn(r)
    BY <2>1, <2>2, <2>5, DependsAre
  <2>7. CASE r = x
    BY <2>3, <2>4, <2>6, <2>7 DEF BuildInv, Passed, Stages
  <2>8. CASE r \notin Setscene /\ x \in Above(build, r)
    <3>1. Came(x, r)
      BY <2>2, <2>5, <2>6, <2>8
    <3>2. r \in sq_collated_deps[x]
      BY <2>6, <2>8, <3>1, NothingMissed DEF Came, Ordinary
    <3> QED
      BY <2>3, <2>4, <2>6, <3>2 DEF BuildInv, Passed
  <2> QED
    BY <2>5, <2>7, <2>8
<1> QED
  BY <1>1

LEMMA AllReached ==
  ASSUME BuildInv, stage = "done"
  PROVE  Reached(build) \subseteq unskippable
<1> DEFINE S == Reached(build) \ unskippable
<1>1. ASSUME S # {} PROVE FALSE
  <2>1. build \in Inputs /\ S \subseteq Tasks
    BY DEF BuildInv, BuildType, Reached
  <2>2. PICK u \in S : RevDepsIn(build, u) \cap S = {}
    BY <1>1, <2>1, HasTop
  <2>3. u \in Tasks /\ u \notin Roots(build) \cup Cantskip(build)
    BY <2>1, <2>2 DEF BuildInv, Stages
  <2>4. PICK r \in RevDepsIn(build, u) \ build.setscene : r \in Reached(build)
    BY <2>1, <2>2, <2>3, ReachRule DEF Roots
  <2>5. r \in Tasks /\ u \in DependsOn(r) /\ r \in unskippable \ Setscene
    BY <2>1, <2>2, <2>3, <2>4, DependsAre DEF Setscene
  <2> QED
    BY <2>2, <2>5 DEF BuildInv, Stages
<1> QED
  BY <1>1

LEMMA BuildInvariant == Spec => []BuildInv
BY InitBuild, BuildStep, PTL DEF Spec

\* build_scenequeue_data() computes the graph of setscene tasks that module SceneGraph
\* defines, whatever the order of the points.
THEOREM CollapseIsRight == Spec => []Collapsed
<1>1. BuildInv => Collapsed
  <2> SUFFICES ASSUME BuildInv, stage = "done" PROVE Collapsed
    BY DEF Collapsed
  <2>1. BuildType /\ build \in Inputs /\ Setscene \subseteq Tasks
    BY DependsAre DEF BuildInv, BuildType
  <2>2. ASSUME NEW t \in Setscene PROVE sq_revdeps_squash[t] = Graph!SqRevdeps(t)
    <3>1. t \in Tasks /\ \A s \in Above(build, t) : Came(s, t)
      BY <2>1, AllCame
    <3>2. \A s \in Setscene : t \notin sq_collated_deps[s]
      BY <2>1 DEF BuildType, Ordinary
    <3>3. Above(build, t) \subseteq Setscene /\ sq_revdeps_squash[t] \subseteq Above(build, t)
      BY <2>1, <3>1, AboveAre DEF BuildInv, Sound
    <3>4. sq_revdeps_squash[t] = Above(build, t)
      BY <3>1, <3>2, <3>3 DEF Came
    <3> QED
      BY <2>1, <3>1, <3>4, OwnersAreAbove DEF Graph!SqRevdeps
  <2>3. ASSUME NEW s \in Setscene PROVE sq_collated_deps[s] = Graph!SqCovered(s)
    <3>1. sq_collated_deps[s] = {t \in Tasks \ Setscene : s \in Above(build, t)}
      <4>1. sq_collated_deps[s] \subseteq Tasks \ Setscene
        BY <2>1 DEF BuildType, Ordinary
      <4>2. \A t \in sq_collated_deps[s] : s \in Above(build, t)
        BY DEF BuildInv, Sound
      <4>3. ASSUME NEW t \in Tasks \ Setscene, s \in Above(build, t)
            PROVE  t \in sq_collated_deps[s]
        BY <4>3, AllCame, NothingMissed DEF Came, Ordinary
      <4> QED
        BY <4>1, <4>2, <4>3
    <3> QED
      BY <2>1, <3>1, OwnersAreAbove DEF Graph!SqCovered
  <2>4. unskippable = Reached(build)
    BY AllReached DEF BuildInv, Stages
  <2>5. unskippable = Graph!Unskippable
    BY <2>1, <2>4, UnskippableAreReached
  <2>6. buildable = Graph!InitiallyBuildable
    <3>1. buildable = {t \in unskippable \ Setscene : DependsOn(t) = {}}
      BY DEF BuildInv, Stages
    <3> QED
      BY <2>5, <3>1 DEF Graph!InitiallyBuildable, DependsOn
  <2> QED
    BY <2>2, <2>3, <2>5, <2>6 DEF Collapsed
<1> QED
  BY <1>1, BuildInvariant, PTL

\* The sanity check behind the collapse never stops a build.
THEOREM NeverFatal == Spec => [](stage # "fatal")
<1>1. BuildInv => stage # "fatal"
  BY DEF BuildInv, Stages
<1> QED
  BY <1>1, BuildInvariant, PTL

-----------------------------------------------------------------------------
(* The invariant                                                           *)

Reading == {"round", "next", "get"}
Closing == {"check", "drain", "interrupt", "terminate", "join", "merge"}

Outcomes == ToParse \X BOOLEAN
HalvesOf == {1, 2} \X Outcomes

PoolType ==
  /\ plan \in Plans /\ jobs \in [Parsers -> SUBSET ToParse]
  /\ phase \in [Parsers -> {"parse", "flush", "save", "write", "dead"}]
  /\ signal \in [Parsers -> {"no", "int", "term"}]
  /\ buffer \in [Parsers -> Seq(Outcomes)] /\ wlock \in Parsers \cup {None}
  /\ pipe \in Seq(HalvesOf)
  /\ file \in [Parsers -> {"none", "part", "whole"}]
  /\ recv \in Threads \cup {None}
  /\ \E n \in Nat : DOMAIN procs = 1..n /\ procs = [k \in 1..n |-> procs[k]]
  /\ parsed \in Seq(ToParse) /\ killed \in Nat /\ fails \in BOOLEAN /\ quit \in BOOLEAN
  /\ DOMAIN at = Threads
  /\ at.idle \in Reading \cup Closing \cup {"parsed", "failed"}
  /\ at.main \in Closing \cup {"off", "done"}

\* Where a recipe or its result is; of the two halves of a result in the pipe, the second
\* counts.
Unparsed(r) == r \in jobs[plan.chunk[r]]
Buffered(r, k) ==
  LET b == buffer[plan.chunk[r]] IN k \in 1..Len(b) /\ b[k][1] = r
Piped(r, k) == k \in 1..Len(pipe) /\ pipe[k][1] = 2 /\ pipe[k][2][1] = r
Got(r, k) == k \in 1..Len(parsed) /\ parsed[k] = r

\* A recipe is at one place at most.
AtOnce(r) ==
  /\ Unparsed(r) => \A k : ~Buffered(r, k) /\ ~Piped(r, k) /\ ~Got(r, k)
  /\ \A k : Buffered(r, k) =>
       \A l : (Buffered(r, l) => l = k) /\ ~Piped(r, l) /\ ~Got(r, l)
  /\ \A k : Piped(r, k) => \A l : (Piped(r, l) => l = k) /\ ~Got(r, l)
  /\ \A k : Got(r, k) => \A l : Got(r, l) => l = k
Somewhere(r) == Unparsed(r) \/ \E k : Buffered(r, k) \/ Piped(r, k) \/ Got(r, k)

\* Parsers have their own recipes only, and a bad one never counts as parsed.
Own ==
  \A p \in Parsers : /\ \A r \in jobs[p] : plan.chunk[r] = p
                     /\ \A k \in 1..Len(buffer[p]) : plan.chunk[buffer[p][k][1]] = p
Right(x) == x[2] => x[1] \notin plan.bad
Truthful ==
  /\ \A p \in Parsers : \A k \in 1..Len(buffer[p]) : Right(buffer[p][k])
  /\ \A k \in 1..Len(pipe) : Right(pipe[k][2])
  /\ \A k \in 1..Len(parsed) : parsed[k] \notin plan.bad

\* First and second halves alternate.
Halves ==
  /\ \A k \in 1..Len(pipe) : k + 1 <= Len(pipe) => pipe[k + 1][1] # pipe[k][1]
  /\ pipe # <<>> => /\ pipe[1][1] = IF recv = None THEN 1 ELSE 2
                    /\ pipe[Len(pipe)][1] = IF wlock = None THEN 2 ELSE 1
  /\ pipe = <<>> => (recv = None <=> wlock = None)

\* While results are read, nobody has asked for a stop, nothing was killed and no recipe
\* is bad, nothing gets lost: a parser that has left has delivered its results.
Calm == at.idle \in Reading /\ at.main = "off" /\ plan.bad = {} /\ killed = 0
Gone(p) == phase[p] \in {"save", "write", "dead"}
CalmInv ==
  /\ state = "parsing" /\ closed = {} /\ ~quit /\ \A p \in Parsers : signal[p] = "no"
  /\ \A p \in Parsers : \A k \in 1..Len(buffer[p]) : buffer[p][k][2]
  /\ \A k \in 1..Len(pipe) : pipe[k][2][2]
  /\ \A r \in ToParse : Somewhere(r)
  /\ \A p \in Parsers : /\ phase[p] # "parse" => jobs[p] = {}
                        /\ Gone(p) => buffer[p] = <<>> /\ wlock # p
                        /\ phase[p] # "dead" => p \in Range(procs)
  /\ recv = None \/ (recv = "idle" /\ at.idle = "get")
  /\ at.idle # "get" /\ procs = <<>> /\ empty => pipe = <<>>

\* Once decided, the verdict is right.
Reason == plan.bad # {} \/ at.main # "off" \/ killed > 0 \/ Torn
Verdict ==
  /\ at.idle \in Closing => IF fails THEN Reason ELSE AllParsed
  /\ at.idle = "parsed" => AllParsed
  /\ at.idle = "failed" => Reason

Data == (\A r \in ToParse : AtOnce(r)) /\ Own /\ Truthful /\ Halves

\* A file is half written by a parser that is at it, or was ended there.
Parts == \A p \in Parsers : file[p] = "part" => phase[p] \in {"write", "dead"}

PoolInv == PoolType /\ Data /\ Parts /\ (Calm => CalmInv) /\ Verdict

LEMMA PlansAre ==
  ASSUME PlansAssumed, PoolType
  PROVE  /\ IsFiniteSet(ToParse) /\ Cardinality(ToParse) \in Nat /\ plan.bad \subseteq ToParse
         /\ \A r \in ToParse : plan.chunk[r] \in Parsers
<1>1. plan \in Plans
  BY DEF PoolType
<1>2. ToParse \subseteq Recipes /\ plan.bad \subseteq ToParse /\ plan.chunk \in [ToParse -> Parsers]
  BY <1>1 DEF PlansAssumed, ToParse
<1>3. IsFiniteSet(ToParse) /\ Cardinality(ToParse) \in Nat
  BY <1>2, FS_Subset, FS_CardinalityType DEF PlansAssumed
<1> QED
  BY <1>2, <1>3

LEMMA CardinalityTo ==
  ASSUME NEW n \in Nat
  PROVE  IsFiniteSet(1..n) /\ Cardinality(1..n) = n
<1>1. 1 \in Int /\ n \in Int /\ n - 1 + 1 = n /\ (1 > n => n = 0)
  OBVIOUS
<1> QED
  BY <1>1, FS_Interval

\* What was parsed are different good recipes, so that as many as there are to be parsed
\* are all of them, and there is no bad one.
LEMMA AllAreParsed ==
  ASSUME PlansAssumed, PoolType, Data
  PROVE  /\ Range(parsed) \subseteq ToParse \ plan.bad
         /\ Len(parsed) = Cardinality(Range(parsed)) /\ IsFiniteSet(Range(parsed))
         /\ Cardinality(Range(parsed)) <= Cardinality(ToParse)
         /\ AllParsed => /\ Len(parsed) = Cardinality(ToParse) /\ Range(parsed) = ToParse
                         /\ plan.bad = {}
<1>1. parsed \in [1..Len(parsed) -> ToParse] /\ Len(parsed) \in Nat
  BY DEF PoolType
<1>2. Range(parsed) \subseteq ToParse \ plan.bad
  BY <1>1 DEF Range, Data, Truthful
<1>3. \A k, l \in 1..Len(parsed) : parsed[k] = parsed[l] => k = l
  <2> TAKE k, l \in 1..Len(parsed)
  <2>1. parsed[k] \in ToParse
    BY <1>1
  <2> QED
    BY <2>1 DEF Data, AtOnce, Got
<1>4. IsFiniteSet(Range(parsed)) /\ Cardinality(Range(parsed)) <= Cardinality(ToParse)
      /\ (Cardinality(Range(parsed)) = Cardinality(ToParse) => Range(parsed) = ToParse)
      /\ Cardinality(Range(parsed)) \in Nat
  BY <1>2, PlansAre, FS_Subset, FS_CardinalityType
<1>5. parsed \in Bijection(1..Len(parsed), Range(parsed))
  BY <1>1, <1>3 DEF Bijection, Injection, Surjection, IsInjective, Range
<1>6. ExistsBijection(1..Len(parsed), Range(parsed))
  BY <1>5 DEF ExistsBijection
<1>7. IsFiniteSet(1..Len(parsed)) /\ Cardinality(1..Len(parsed)) = Len(parsed)
  BY <1>1, CardinalityTo
<1>8. Len(parsed) = Cardinality(Range(parsed))
  BY <1>6, <1>7, FS_Bijection
<1> QED
  BY <1>2, <1>4, <1>8, PlansAre DEF AllParsed

LEMMA InvProves == PlansAssumed /\ PoolInv => ParsingTellsTruth
BY AllAreParsed DEF PoolInv, Verdict, Reason, ParsingTellsTruth

-----------------------------------------------------------------------------
(* The start                                                               *)

LEMMA PoolStarts == PlansAssumed /\ ParseInit => PoolInv
<1> SUFFICES ASSUME PlansAssumed, ParseInit PROVE PoolInv
  OBVIOUS
<1>1. /\ plan \in Plans /\ ToParse \subseteq Recipes /\ plan.chunk \in [ToParse -> Parsers]
      /\ plan.bad \subseteq ToParse
  BY DEF ParseInit, PlansAssumed, ToParse
<1>2. Range(plan.chunk) \subseteq Parsers
  BY <1>1 DEF Range
<1>3. /\ procs \in [1..Cardinality(Range(plan.chunk)) -> Range(plan.chunk)]
      /\ Cardinality(Range(plan.chunk)) \in Nat
      /\ Range(procs) = Range(plan.chunk)
  <2> DEFINE S == Range(plan.chunk)
             n == Cardinality(S)
  <2>1. IsFiniteSet(S) /\ n \in Nat /\ ExistsBijection(1..n, S)
    BY <1>2, FS_Subset, FS_CardinalityType DEF PlansAssumed
  <2>2. PICK f : f \in Bijection(1..n, S)
    BY <2>1 DEF ExistsBijection
  <2>3. f \in [1..n -> S] /\ IsInjective(f)
    BY <2>2 DEF Bijection, Injection, IsInjective
  <2>4. procs \in [1..n -> S] /\ IsInjective(procs)
    <3> HIDE DEF S, n
    <3>1. (CHOOSE g \in [1..n -> S] : IsInjective(g)) \in [1..n -> S]
          /\ IsInjective(CHOOSE g \in [1..n -> S] : IsInjective(g))
      BY <2>3, Zenon
    <3> QED
      BY <3>1 DEF ParseInit, SetToSeq, S, n
  <2>5. IsFiniteSet(1..n) /\ Cardinality(1..n) = n
    BY <2>1, CardinalityTo
  <2>6. procs \in Injection(1..n, S)
    BY <2>4 DEF Injection, IsInjective
  <2>7. procs \in Surjection(1..n, S)
    BY <2>1, <2>5, <2>6, FS_Injection
  <2>8. Range(procs) = S
    BY <2>7 DEF Surjection, Range
  <2> QED
    BY <2>1, <2>4, <2>8
<1>4. PoolType
  <2>1. at.idle = "round" /\ at.main = "off" /\ DOMAIN at = Threads
    BY DEF ParseInit, Threads
  <2>2. /\ jobs \in [Parsers -> SUBSET ToParse]
        /\ phase \in [Parsers -> {"parse", "flush", "save", "write", "dead"}]
        /\ signal \in [Parsers -> {"no", "int", "term"}]
        /\ buffer \in [Parsers -> Seq(Outcomes)]
        /\ file \in [Parsers -> {"none", "part", "whole"}]
    BY DEF ParseInit
  <2>3. /\ pipe \in Seq(HalvesOf) /\ parsed \in Seq(ToParse)
        /\ killed \in Nat /\ recv \in Threads \cup {None} /\ wlock \in Parsers \cup {None}
    BY DEF ParseInit
  <2>5. fails \in BOOLEAN /\ quit \in BOOLEAN
    BY Zenon DEF ParseInit
  <2>4. \E n \in Nat : DOMAIN procs = 1..n /\ procs = [k \in 1..n |-> procs[k]]
    BY <1>3
  <2> QED
    BY <1>1, <2>1, <2>2, <2>3, <2>4, <2>5 DEF PoolType, Reading, Closing
<1>5. /\ pipe = <<>> /\ parsed = <<>> /\ Len(pipe) = 0 /\ Len(parsed) = 0
      /\ \A p \in Parsers : /\ buffer[p] = <<>> /\ Len(buffer[p]) = 0
                            /\ jobs[p] = {r \in ToParse : plan.chunk[r] = p}
                            /\ signal[p] = "no"
                            /\ phase[p] = IF p \in Range(plan.chunk) THEN "parse" ELSE "dead"
  BY DEF ParseInit
<1>6. \A r \in ToParse : plan.chunk[r] \in Parsers /\ Unparsed(r)
  BY <1>1, <1>5 DEF Unparsed
<1>7. Data
  BY <1>5, <1>6 DEF Data, AtOnce, Own, Truthful, Halves, Buffered, Piped, Got, ParseInit
<1>8. CalmInv
  <2>1. \A p \in Parsers : phase[p] = "dead" => jobs[p] = {}
    BY <1>1, <1>5 DEF Range
  <2>2. wlock = None /\ None \notin Parsers /\ \A r \in ToParse : Somewhere(r)
    BY <1>6 DEF ParseInit, PlansAssumed, Somewhere
  <2>3. state = "parsing" /\ closed = {} /\ ~quit /\ recv = None
    BY DEF ParseInit
  <2> QED
    BY <1>3, <1>5, <2>1, <2>2, <2>3 DEF CalmInv, Gone
<1>9. Verdict /\ Parts
  BY DEF ParseInit, Verdict, Closing, Parts
<1> QED
  BY <1>4, <1>7, <1>8, <1>9 DEF PoolInv

-----------------------------------------------------------------------------
(* What the steps of a parser do to recipes and results                    *)

LEMMA AppendIs ==
  ASSUME NEW S, NEW q \in Seq(S), NEW x \in S
  PROVE  /\ Append(q, x) \in Seq(S) /\ Len(Append(q, x)) = Len(q) + 1 /\ Len(q) \in Nat
         /\ Append(q, x)[Len(q) + 1] = x
         /\ \A k \in 1..Len(q) : Append(q, x)[k] = q[k]
OBVIOUS

LEMMA TailIs ==
  ASSUME NEW S, NEW q \in Seq(S), q # <<>>
  PROVE  /\ Tail(q) \in Seq(S) /\ Len(Tail(q)) = Len(q) - 1 /\ Len(q) \in Nat \ {0}
         /\ Head(q) = q[1] /\ q[1] \in S
         /\ \A k \in 1..(Len(q) - 1) : Tail(q)[k] = q[k + 1]
OBVIOUS

LEMMA PutsData ==
  ASSUME PlansAssumed, PoolType, Data, NEW p \in Parsers, NEW r \in jobs[p],
         NEW ok \in BOOLEAN, ok => r \notin plan.bad, Puts(p, r, ok),
         UNCHANGED <<plan, parsed, recv, pipe, wlock>>
  PROVE  /\ Data' /\ jobs' \in [Parsers -> SUBSET ToParse]
         /\ buffer' \in [Parsers -> Seq(Outcomes)]
         /\ \A x \in ToParse : Somewhere(x) => Somewhere(x)'
<1> DEFINE b == buffer[p]
           n == Len(b) + 1
<1>1. r \in ToParse /\ plan.chunk[r] = p /\ <<r, ok>> \in Outcomes /\ b \in Seq(Outcomes)
  BY DEF PoolType, Data, Own, Outcomes
<1>2. /\ jobs'[p] = jobs[p] \ {r} /\ \A d \in Parsers \ {p} : jobs'[d] = jobs[d]
      /\ buffer'[p] = Append(b, <<r, ok>>)
      /\ \A d \in Parsers \ {p} : buffer'[d] = buffer[d]
      /\ jobs' \in [Parsers -> SUBSET ToParse] /\ buffer' \in [Parsers -> Seq(Outcomes)]
  BY <1>1, AppendIs DEF Puts, PoolType
<1>3. /\ Len(buffer'[p]) = n /\ n \in Nat /\ buffer'[p][n] = <<r, ok>>
      /\ \A k \in 1..(n - 1) : buffer'[p][k] = b[k] /\ Len(b) = n - 1
  BY <1>1, <1>2, AppendIs
<1> HIDE DEF b, n
<1>4. \A x \in ToParse : /\ plan.chunk[x] \in Parsers
                         /\ Unparsed(x)' <=> Unparsed(x) /\ x # r
                         /\ \A k : Buffered(x, k)' <=> Buffered(x, k) \/ (x = r /\ k = n)
                         /\ \A k : Piped(x, k)' = Piped(x, k) /\ Got(x, k)' = Got(x, k)
  <2> TAKE x \in ToParse
  <2>1. plan.chunk[x] \in Parsers
    BY PlansAre
  <2>2. Unparsed(x)' <=> Unparsed(x) /\ x # r
    BY <1>1, <1>2, <2>1 DEF Unparsed
  <2>3. ASSUME NEW k PROVE Buffered(x, k)' <=> Buffered(x, k) \/ (x = r /\ k = n)
    <3>1. CASE plan.chunk[x] # p
      BY <1>1, <1>2, <2>1, <3>1 DEF Buffered
    <3>2. CASE plan.chunk[x] = p
      <4>1. Buffered(x, k) <=> k \in 1..(n - 1) /\ b[k][1] = x
        BY <1>3, <3>2 DEF Buffered, b, n
      <4>2. Buffered(x, k)' <=> k \in 1..n /\ buffer'[p][k][1] = x
        BY <1>3, <3>2 DEF Buffered
      <4>3. k \in 1..n <=> k \in 1..(n - 1) \/ k = n
        BY <1>3 DEF n
      <4> QED
        BY <1>3, <4>1, <4>2, <4>3
    <3> QED
      BY <3>1, <3>2
  <2>4. \A k : Piped(x, k)' = Piped(x, k) /\ Got(x, k)' = Got(x, k)
    BY DEF Piped, Got
  <2> QED
    BY <2>1, <2>2, <2>3, <2>4
<1>5. Unparsed(r)
  BY <1>1 DEF Unparsed
<1>6. \A x \in ToParse : AtOnce(x)'
  BY <1>4, <1>5 DEF Data, AtOnce
<1>7. Own'
  <2>1. \A d \in Parsers : \A x \in jobs'[d] : plan.chunk[x] = d
    BY <1>2 DEF Data, Own
  <2>2. \A d \in Parsers : \A k \in 1..Len(buffer'[d]) : plan.chunk[buffer'[d][k][1]] = d
    <3> TAKE d \in Parsers
    <3>1. CASE d # p
      BY <1>2, <3>1 DEF Data, Own
    <3>2. CASE d = p
      <4> TAKE k \in 1..Len(buffer'[d])
      <4>1. k = n \/ k \in 1..(n - 1)
        BY <1>3, <3>2
      <4> QED
        BY <1>1, <1>3, <3>2, <4>1 DEF Data, Own, b
    <3> QED
      BY <3>1, <3>2
  <2> QED
    BY <2>1, <2>2 DEF Own
<1>8. Truthful'
  <2>1. \A d \in Parsers : \A k \in 1..Len(buffer'[d]) : Right(buffer'[d][k])
    <3> TAKE d \in Parsers
    <3>1. CASE d # p
      BY <1>2, <3>1 DEF Data, Truthful
    <3>2. CASE d = p
      <4> TAKE k \in 1..Len(buffer'[d])
      <4>1. k = n \/ k \in 1..(n - 1)
        BY <1>3, <3>2
      <4> QED
        BY <1>1, <1>3, <3>2, <4>1 DEF Data, Truthful, b, Right
    <3> QED
      BY <3>1, <3>2
  <2> QED
    BY <2>1 DEF Data, Truthful, Right
<1>9. Halves'
  BY DEF Data, Halves
<1>10. \A x \in ToParse : Somewhere(x) => Somewhere(x)'
  BY <1>4 DEF Somewhere
<1> QED
  BY <1>2, <1>6, <1>7, <1>8, <1>9, <1>10 DEF Data, ToParse

LEMMA DeadData ==
  ASSUME PlansAssumed, PoolType, Data, NEW p \in Parsers, Dead(p),
         UNCHANGED <<plan, parsed, recv, pipe, wlock>>
  PROVE  /\ Data' /\ jobs' \in [Parsers -> SUBSET ToParse]
         /\ buffer' \in [Parsers -> Seq(Outcomes)]
<1>1. /\ jobs'[p] = {} /\ \A d \in Parsers \ {p} : jobs'[d] = jobs[d]
      /\ buffer'[p] = <<>> /\ Len(buffer'[p]) = 0
      /\ \A d \in Parsers \ {p} : buffer'[d] = buffer[d]
      /\ jobs' \in [Parsers -> SUBSET ToParse] /\ buffer' \in [Parsers -> Seq(Outcomes)]
  BY DEF Dead, PoolType
<1>2. \A x \in ToParse : /\ Unparsed(x)' => Unparsed(x)
                         /\ \A k : Buffered(x, k)' => Buffered(x, k)
                         /\ \A k : Piped(x, k)' = Piped(x, k) /\ Got(x, k)' = Got(x, k)
  BY <1>1, PlansAre DEF Unparsed, Buffered, Piped, Got
<1>3. \A x \in ToParse : AtOnce(x)'
  BY <1>2 DEF Data, AtOnce
<1>4. \A d \in Parsers : /\ jobs'[d] \subseteq jobs[d]
                        /\ \A k \in 1..Len(buffer'[d]) :
                             k \in 1..Len(buffer[d]) /\ buffer'[d][k] = buffer[d][k]
  <2> TAKE d \in Parsers
  <2>1. CASE d = p
    BY <1>1, <2>1
  <2>2. CASE d # p
    BY <1>1, <2>2
  <2> QED
    BY <2>1, <2>2
<1>5. Own' /\ Truthful'
  <2>1. Own /\ Truthful
    BY DEF Data
  <2>2. Own'
    BY <1>4, <2>1 DEF Own
  <2>3. \A x : Right(x)' <=> Right(x)
    BY DEF Right
  <2>4. \A d \in Parsers : \A k \in 1..Len(buffer'[d]) : Right(buffer'[d][k])
    BY <1>4, <2>1 DEF Truthful
  <2> QED
    BY <2>1, <2>2, <2>3, <2>4 DEF Truthful
<1>6. Halves'
  BY DEF Data, Halves
<1> QED
  BY <1>1, <1>3, <1>5, <1>6 DEF Data, ToParse

\* The same recipes and results.
LEMMA SameData ==
  ASSUME Data, UNCHANGED <<plan, jobs, buffer, parsed, pipe>>,
         UNCHANGED <<wlock, recv>>
  PROVE  Data' /\ \A x : Somewhere(x) => Somewhere(x)'
<1>1. \A x : /\ Unparsed(x)' = Unparsed(x)
             /\ \A k : /\ Buffered(x, k)' = Buffered(x, k) /\ Piped(x, k)' = Piped(x, k)
                      /\ Got(x, k)' = Got(x, k)
  BY DEF Unparsed, Buffered, Piped, Got
<1>2. \A x \in ToParse : AtOnce(x)'
  BY <1>1 DEF Data, AtOnce
<1>3. Own' /\ Truthful' /\ Halves'
  BY DEF Data, Own, Truthful, Halves, Right
<1> QED
  BY <1>1, <1>2, <1>3 DEF Data, ToParse, Somewhere

LEMMA FeedFirstData ==
  ASSUME PlansAssumed, PoolType, Data, NEW p \in Parsers, buffer[p] # <<>>,
         wlock = None, wlock' = p, pipe' = Append(pipe, <<1, Head(buffer[p])>>),
         UNCHANGED <<plan, parsed, recv, jobs, buffer>>
  PROVE  /\ Data' /\ pipe' \in Seq(HalvesOf) /\ \A x \in ToParse : Somewhere(x) => Somewhere(x)'
         /\ (\A k \in 1..Len(pipe) : pipe[k][2][2]) /\ Head(buffer[p])[2] =>
              \A k \in 1..Len(pipe') : pipe'[k][2][2]
<1> DEFINE x == Head(buffer[p])
           n == Len(pipe) + 1
<1>1. x \in Outcomes /\ Right(x) /\ <<1, x>> \in HalvesOf /\ p # None
  <2>1. buffer[p] \in Seq(Outcomes) /\ p # None
    BY DEF PoolType, PlansAssumed
  <2>2. x = buffer[p][1] /\ x \in Outcomes /\ 1 \in 1..Len(buffer[p])
    BY <2>1, TailIs
  <2> QED
    BY <2>1, <2>2 DEF Data, Truthful, HalvesOf
<1>2. /\ pipe \in Seq(HalvesOf) /\ pipe' \in Seq(HalvesOf) /\ Len(pipe') = n /\ n \in Nat
      /\ Len(pipe) = n - 1 /\ pipe'[n] = <<1, x>> /\ \A k \in 1..(n - 1) : pipe'[k] = pipe[k]
  BY <1>1, AppendIs DEF PoolType
<1> HIDE DEF x, n
<1>3. \A k \in 1..n : k = n \/ k \in 1..(n - 1)
  BY <1>2
<1>4. \A r : /\ Unparsed(r)' = Unparsed(r)
             /\ \A k : Buffered(r, k)' = Buffered(r, k) /\ Got(r, k)' = Got(r, k)
             /\ \A k : Piped(r, k)' <=> Piped(r, k)
  <2> TAKE r
  <2>1. \A k : Piped(r, k)' <=> Piped(r, k)
    BY <1>2, <1>3 DEF Piped
  <2> QED
    BY <2>1 DEF Unparsed, Buffered, Got
<1>5. \A r \in ToParse : AtOnce(r)'
  BY <1>4 DEF Data, AtOnce
<1>6. Own'
  BY DEF Data, Own
<1>7. Truthful'
  BY <1>1, <1>2, <1>3 DEF Data, Truthful, Right
<1>8. Halves'
  <2>1. \A k \in 1..(n - 1) : k + 1 <= n - 1 => pipe[k + 1][1] # pipe[k][1]
    BY <1>2 DEF Data, Halves
  <2>2. pipe # <<>> => n - 1 \in 1..(n - 1) /\ pipe[n - 1][1] = 2 /\ 1 \in 1..(n - 1)
    BY <1>2 DEF Data, Halves
  <2>3. pipe = <<>> => n = 1 /\ recv = None
    BY <1>2 DEF Data, Halves
  <2>4. \A k \in 1..n : k + 1 <= n => pipe'[k + 1][1] # pipe'[k][1]
    <3> TAKE k \in 1..n
    <3>1. CASE k + 1 = n
      <4>1. pipe # <<>> /\ k = n - 1 /\ k \in 1..(n - 1)
        BY <1>2, <2>3, <3>1
      <4> QED
        BY <1>2, <2>2, <3>1, <4>1
    <3>2. CASE k + 1 <= n - 1
      BY <1>2, <2>1, <3>2
    <3> QED
      BY <1>2, <3>1, <3>2
  <2>5. pipe' # <<>> /\ pipe'[1][1] = (IF recv = None THEN 1 ELSE 2)
    BY <1>2, <2>2, <2>3 DEF Data, Halves
  <2>6. pipe'[n][1] = 1 /\ wlock' # None
    BY <1>1, <1>2
  <2> QED
    BY <1>2, <2>4, <2>5, <2>6 DEF Halves
<1>9. (\A k \in 1..Len(pipe) : pipe[k][2][2]) /\ x[2] => \A k \in 1..n : pipe'[k][2][2]
  BY <1>2, <1>3
<1> QED
  BY <1>2, <1>4, <1>5, <1>6, <1>7, <1>8, <1>9 DEF Data, ToParse, Somewhere, x

LEMMA FeedSecondData ==
  ASSUME PlansAssumed, PoolType, Data, NEW p \in Parsers, buffer[p] # <<>>,
         wlock = p, wlock' = None, pipe' = Append(pipe, <<2, Head(buffer[p])>>),
         buffer' = [buffer EXCEPT ![p] = Tail(@)],
         UNCHANGED <<plan, parsed, recv, jobs>>
  PROVE  /\ Data' /\ pipe' \in Seq(HalvesOf) /\ buffer' \in [Parsers -> Seq(Outcomes)]
         /\ \A x \in ToParse : Somewhere(x) => Somewhere(x)'
         /\ (\A k \in 1..Len(pipe) : pipe[k][2][2]) /\ Head(buffer[p])[2] =>
              \A k \in 1..Len(pipe') : pipe'[k][2][2]
<1> DEFINE b == buffer[p]
           x == Head(b)
           n == Len(pipe) + 1
           m == Len(b) - 1
<1>1. /\ x \in Outcomes /\ Right(x) /\ <<2, x>> \in HalvesOf /\ p # None
      /\ x[1] \in ToParse /\ plan.chunk[x[1]] = p /\ b[1] = x /\ m \in Nat
      /\ Len(b) = m + 1 /\ b \in Seq(Outcomes)
  <2>1. b \in Seq(Outcomes) /\ p # None
    BY DEF PoolType, PlansAssumed
  <2>2. x = b[1] /\ x \in Outcomes /\ 1 \in 1..Len(b) /\ m \in Nat /\ Len(b) = m + 1
    BY <2>1, TailIs
  <2> QED
    BY <2>1, <2>2 DEF Data, Own, Truthful, HalvesOf, Outcomes
<1>2. /\ pipe \in Seq(HalvesOf) /\ pipe' \in Seq(HalvesOf) /\ Len(pipe') = n /\ n \in Nat
      /\ Len(pipe) = n - 1 /\ pipe'[n] = <<2, x>> /\ \A k \in 1..(n - 1) : pipe'[k] = pipe[k]
  BY <1>1, AppendIs DEF PoolType
<1>3. /\ buffer' \in [Parsers -> Seq(Outcomes)] /\ \A d \in Parsers \ {p} : buffer'[d] = buffer[d]
      /\ Len(buffer'[p]) = m /\ \A k \in 1..m : buffer'[p][k] = b[k + 1]
  <2>1. Tail(b) \in Seq(Outcomes) /\ Len(Tail(b)) = m /\ \A k \in 1..m : Tail(b)[k] = b[k + 1]
    BY <1>1, TailIs
  <2> QED
    BY <2>1 DEF PoolType
<1> HIDE DEF x, n, b, m
<1> PICK y : y = x[1]
  OBVIOUS
<1>4. \A k \in 1..n : k = n \/ k \in 1..(n - 1)
  BY <1>2
<1>5. \A r \in ToParse :
        /\ plan.chunk[r] \in Parsers /\ Unparsed(r)' = Unparsed(r)
        /\ \A k : Got(r, k)' = Got(r, k)
        /\ \A k : Piped(r, k)' <=> Piped(r, k) \/ (r = y /\ k = n)
        /\ plan.chunk[r] # p => \A k : Buffered(r, k)' <=> Buffered(r, k)
        /\ plan.chunk[r] = p => \A k : Buffered(r, k)' <=> k \in 1..m /\ Buffered(r, k + 1)
        /\ plan.chunk[r] = p => \A k : Buffered(r, k) <=> k \in 1..(m + 1) /\ b[k][1] = r
  <2> TAKE r \in ToParse
  <2>1. plan.chunk[r] \in Parsers
    BY PlansAre
  <2>2. \A k : Piped(r, k)' <=> Piped(r, k) \/ (r = y /\ k = n)
    BY <1>2, <1>4 DEF Piped
  <2>3. plan.chunk[r] # p => \A k : Buffered(r, k)' <=> Buffered(r, k)
    BY <1>3, <2>1 DEF Buffered
  <2>4. plan.chunk[r] = p => \A k : Buffered(r, k) <=> k \in 1..(m + 1) /\ b[k][1] = r
    BY <1>1 DEF Buffered, b
  <2>5. plan.chunk[r] = p => \A k : Buffered(r, k)' <=> k \in 1..m /\ b[k + 1][1] = r
    BY <1>3 DEF Buffered
  <2>6. \A k \in 1..m : k + 1 \in 1..(m + 1)
    BY <1>1
  <2> QED
    BY <2>1, <2>2, <2>3, <2>4, <2>5, <2>6 DEF Unparsed, Got
<1>6. Buffered(y, 1) /\ \A k : Buffered(y, k) => k = 1
  <2>1. y \in ToParse /\ plan.chunk[y] = p
    BY <1>1
  <2>2. b[1][1] = y /\ 1 \in 1..(m + 1)
    BY <1>1
  <2>3. Buffered(y, 1)
    BY <1>5, <2>1, <2>2
  <2> QED
    BY <2>1, <2>3 DEF Data, AtOnce
<1>7. \A k : ~Buffered(y, k)'
  <2>1. \A k \in 1..m : k + 1 # 1
    BY <1>1
  <2> QED
    BY <1>1, <1>5, <1>6, <2>1
<1>8. \A r \in ToParse : AtOnce(r)'
  <2> TAKE r \in ToParse
  <2>1. CASE r = y
    BY <1>1, <1>5, <1>6, <1>7, <2>1 DEF Data, AtOnce
  <2>2. CASE r # y /\ plan.chunk[r] # p
    BY <1>5, <2>2 DEF Data, AtOnce
  <2>3. CASE r # y /\ plan.chunk[r] = p
    <3>1. AtOnce(r)
      BY DEF Data
    <3>2. \A k, l \in 1..m : k + 1 = l + 1 => k = l
      BY <1>1
    <3> QED
      BY <1>5, <2>3, <3>1, <3>2 DEF AtOnce
  <2> QED
    BY <2>1, <2>2, <2>3
<1>9. \A r \in ToParse : Somewhere(r) => Somewhere(r)'
  <2> TAKE r \in ToParse
  <2>1. CASE r = y
    BY <1>1, <1>5, <2>1 DEF Somewhere
  <2>2. CASE r # y
    <3>1. ASSUME NEW k, Buffered(r, k) PROVE \E l : Buffered(r, l)'
      <4>1. CASE plan.chunk[r] # p
        BY <1>5, <3>1, <4>1
      <4>2. CASE plan.chunk[r] = p
        <5>1. k \in 1..(m + 1) /\ b[k][1] = r
          BY <1>5, <3>1, <4>2
        <5>2. k # 1
          BY <1>1, <2>2, <5>1 DEF b
        <5>3. k - 1 \in 1..m /\ (k - 1) + 1 = k
          BY <1>1, <5>1, <5>2
        <5>4. Buffered(r, k - 1)'
          BY <1>5, <3>1, <4>2, <5>3
        <5> QED
          BY <5>4
      <4> QED
        BY <4>1, <4>2
    <3> QED
      BY <1>5, <3>1 DEF Somewhere
  <2> QED
    BY <2>1, <2>2
<1>10. \A d \in Parsers : \A k \in 1..Len(buffer'[d]) :
         \E l \in 1..Len(buffer[d]) : buffer'[d][k] = buffer[d][l]
  <2> TAKE d \in Parsers
  <2>1. CASE d # p
    BY <1>3, <2>1
  <2>2. CASE d = p
    <3> TAKE k \in 1..Len(buffer'[d])
    <3>1. k \in 1..m /\ k + 1 \in 1..Len(b) /\ buffer'[d][k] = b[k + 1]
      BY <1>1, <1>3, <2>2
    <3> QED
      BY <2>2, <3>1 DEF b
  <2> QED
    BY <2>1, <2>2
<1>11. Own'
  <2>1. Own
    BY DEF Data
  <2>2. \A d \in Parsers : \A k \in 1..Len(buffer'[d]) : plan.chunk[buffer'[d][k][1]] = d
    BY <1>10, <2>1 DEF Own
  <2>3. \A d \in Parsers : \A r \in jobs[d] : plan.chunk[r] = d
    BY <2>1 DEF Own
  <2>4. UNCHANGED <<plan, jobs>>
    OBVIOUS
  <2> QED
    BY <2>2, <2>3, <2>4 DEF Own
<1>12. Truthful'
  <2>1. \A d \in Parsers : \A k \in 1..Len(buffer'[d]) : Right(buffer'[d][k])
    BY <1>10 DEF Data, Truthful
  <2>2. \A k \in 1..n : Right(pipe'[k][2])
    BY <1>1, <1>2, <1>4 DEF Data, Truthful
  <2> QED
    BY <1>2, <2>1, <2>2 DEF Data, Truthful, Right
<1>13. Halves'
  <2>1. \A k \in 1..(n - 1) : k + 1 <= n - 1 => pipe[k + 1][1] # pipe[k][1]
    BY <1>2 DEF Data, Halves
  <2>2. pipe # <<>> => n - 1 \in 1..(n - 1) /\ pipe[n - 1][1] = 1 /\ 1 \in 1..(n - 1)
    BY <1>1, <1>2 DEF Data, Halves
  <2>3. pipe = <<>> => n = 1 /\ recv # None
    BY <1>1, <1>2 DEF Data, Halves
  <2>4. \A k \in 1..n : k + 1 <= n => pipe'[k + 1][1] # pipe'[k][1]
    <3> TAKE k \in 1..n
    <3>1. CASE k + 1 = n
      <4>1. pipe # <<>> /\ k = n - 1 /\ k \in 1..(n - 1)
        BY <1>2, <2>3, <3>1
      <4> QED
        BY <1>2, <2>2, <3>1, <4>1
    <3>2. CASE k + 1 <= n - 1
      BY <1>2, <2>1, <3>2
    <3> QED
      BY <1>2, <3>1, <3>2
  <2>5. pipe' # <<>> /\ pipe'[1][1] = (IF recv = None THEN 1 ELSE 2)
    <3>1. CASE pipe = <<>>
      BY <1>2, <2>3, <3>1
    <3>2. CASE pipe # <<>>
      <4>1. pipe[1][1] = (IF recv = None THEN 1 ELSE 2)
        BY <3>2 DEF Data, Halves
      <4>2. n \in Nat /\ n # 0 /\ Len(pipe') = n /\ pipe'[1] = pipe[1]
        BY <1>2, <2>2, <3>2
      <4>3. pipe' # <<>>
        BY <4>2
      <4> QED
        BY <4>1, <4>2, <4>3
    <3> QED
      BY <3>1, <3>2
  <2> QED
    BY <1>2, <2>4, <2>5 DEF Halves
<1>14. (\A k \in 1..Len(pipe) : pipe[k][2][2]) /\ x[2] => \A k \in 1..n : pipe'[k][2][2]
  BY <1>2, <1>4
<1> QED
  BY <1>2, <1>3, <1>8, <1>9, <1>11, <1>12, <1>13, <1>14 DEF Data, ToParse, x, b

\* A thread takes the next half; with the second half of a good result it may count the
\* recipe as parsed.
LEMMA PopData ==
  ASSUME PlansAssumed, PoolType, Data, pipe # <<>>, pipe' = Tail(pipe),
         NEW t \in Threads, recv' = IF recv = None THEN t ELSE None,
         UNCHANGED <<plan, jobs, buffer, wlock>>,
         \/ parsed' = parsed
         \/ /\ recv # None /\ pipe[1][2][2]
            /\ parsed' = Append(parsed, pipe[1][2][1])
  PROVE  /\ Data' /\ pipe' \in Seq(HalvesOf) /\ parsed' \in Seq(ToParse)
         /\ (\A k \in 1..Len(pipe) : pipe[k][2][2]) => \A k \in 1..Len(pipe') : pipe'[k][2][2]
         /\ recv = None \/ parsed' # parsed => \A x \in ToParse : Somewhere(x) => Somewhere(x)'
<1> PICK m, n, y : m = Len(pipe) - 1 /\ n = Len(parsed) + 1 /\ y = pipe[1][2][1]
  OBVIOUS
<1>1. /\ pipe' \in Seq(HalvesOf) /\ Len(pipe') = m /\ m \in Nat /\ Len(pipe) = m + 1
      /\ \A k \in 1..m : pipe'[k] = pipe[k + 1] /\ k + 1 \in 1..(m + 1) /\ k + 1 # 1
      /\ pipe \in Seq(HalvesOf) /\ pipe[1] \in HalvesOf /\ t # None
  BY TailIs DEF PoolType, PlansAssumed
<1>2. /\ pipe[1][1] \in {1, 2} /\ y \in ToParse /\ 1 \in 1..(m + 1) /\ Right(pipe[1][2])
      /\ pipe[1][1] = IF recv = None THEN 1 ELSE 2
  BY <1>1 DEF HalvesOf, Outcomes, Data, Truthful, Halves
<1>3. /\ parsed \in Seq(ToParse) /\ n \in Nat
      /\ parsed' # parsed =>
           /\ recv # None /\ y \notin plan.bad /\ Len(parsed') = n /\ parsed'[n] = y
           /\ \A k \in 1..(n - 1) : parsed'[k] = parsed[k]
      /\ Len(parsed) = n - 1 /\ parsed' \in Seq(ToParse)
  <2>1. parsed \in Seq(ToParse) /\ n \in Nat /\ Len(parsed) = n - 1
    BY DEF PoolType
  <2>2. CASE parsed' = parsed
    BY <2>1, <2>2
  <2>3. CASE parsed' = Append(parsed, y) /\ recv # None /\ pipe[1][2][2]
    <3>1. y \notin plan.bad
      BY <1>2, <2>3 DEF Right
    <3>2. /\ Append(parsed, y) \in Seq(ToParse) /\ Len(Append(parsed, y)) = n
          /\ Append(parsed, y)[n] = y
          /\ \A k \in 1..(n - 1) : Append(parsed, y)[k] = parsed[k]
      BY <1>2, <2>1, AppendIs
    <3> QED
      BY <2>1, <2>3, <3>1, <3>2
  <2> QED
    BY <2>2, <2>3
<1>4. \A k \in 1..n : k = n \/ k \in 1..(n - 1)
  BY <1>3
<1>5. \A r : /\ (Unparsed(r)' <=> Unparsed(r)) /\ \A k : Buffered(r, k)' <=> Buffered(r, k)
             /\ \A k : Piped(r, k) => k \in 1..(m + 1)
             /\ \A k : Piped(r, k)' <=> k \in 1..m /\ Piped(r, k + 1)
             /\ \A k : Got(r, k)' <=> Got(r, k) \/ (parsed' # parsed /\ r = y /\ k = n)
  <2> TAKE r
  <2>1. /\ \A k : Piped(r, k) => k \in 1..(m + 1)
        /\ \A k : Piped(r, k)' <=> k \in 1..m /\ Piped(r, k + 1)
    BY <1>1 DEF Piped
  <2>2. \A k : Got(r, k)' <=> Got(r, k) \/ (parsed' # parsed /\ r = y /\ k = n)
    <3>1. CASE parsed' = parsed
      BY <3>1 DEF Got
    <3>2. CASE parsed' # parsed
      BY <1>3, <1>4, <3>2 DEF Got
    <3> QED
      BY <3>1, <3>2
  <2> QED
    BY <2>1, <2>2 DEF Unparsed, Buffered
<1>6. \A k, l \in 1..m : k + 1 = l + 1 => k = l
  BY <1>1
<1>7. recv # None => Piped(y, 1)
  BY <1>1, <1>2 DEF Piped
<1>8. ASSUME parsed' # parsed
      PROVE  /\ ~Unparsed(y)' /\ \A k : ~Buffered(y, k)' /\ ~Piped(y, k)'
             /\ \A k : Got(y, k)' <=> k = n
  <2>1. AtOnce(y) /\ Piped(y, 1)
    BY <1>2, <1>3, <1>7, <1>8 DEF Data
  <2>2. /\ ~Unparsed(y) /\ \A k : ~Buffered(y, k) /\ ~Got(y, k)
        /\ \A k : Piped(y, k) => k = 1
    BY <2>1 DEF AtOnce
  <2>3. \A k : ~Piped(y, k)'
    BY <1>1, <1>5, <2>2
  <2> QED
    BY <1>5, <1>8, <2>2, <2>3
<1>9. \A r \in ToParse : AtOnce(r)'
  <2> TAKE r \in ToParse
  <2>1. AtOnce(r)
    BY DEF Data
  <2>2. CASE r = y /\ parsed' # parsed
    <3>1. AtOnce(y)'
      BY <1>8, <2>2 DEF AtOnce
    <3> QED
      BY <2>2, <3>1
  <2>3. CASE ~(r = y /\ parsed' # parsed)
    <3>1. /\ (Unparsed(r)' <=> Unparsed(r)) /\ \A k : Buffered(r, k)' <=> Buffered(r, k)
          /\ \A k : Piped(r, k)' <=> k \in 1..m /\ Piped(r, k + 1)
          /\ \A k : Got(r, k)' <=> Got(r, k)
      BY <1>5, <2>3
    <3>2. Unparsed(r)' => \A k : ~Buffered(r, k)' /\ ~Piped(r, k)' /\ ~Got(r, k)'
      BY <2>1, <3>1 DEF AtOnce
    <3>3. ASSUME NEW k, Buffered(r, k)'
          PROVE  \A l : (Buffered(r, l)' => l = k) /\ ~Piped(r, l)' /\ ~Got(r, l)'
      BY <2>1, <3>1, <3>3 DEF AtOnce
    <3>4. ASSUME NEW k, Piped(r, k)'
          PROVE  \A l : (Piped(r, l)' => l = k) /\ ~Got(r, l)'
      BY <1>6, <2>1, <3>1, <3>4 DEF AtOnce
    <3>5. ASSUME NEW k, Got(r, k)' PROVE \A l : Got(r, l)' => l = k
      BY <2>1, <3>1, <3>5 DEF AtOnce
    <3> QED
      BY <3>2, <3>3, <3>4, <3>5 DEF AtOnce
  <2> QED
    BY <2>2, <2>3
<1>10. Own'
  BY DEF Data, Own
<1>11. Truthful'
  <2>1. \A k \in 1..m : Right(pipe'[k][2])
    BY <1>1 DEF Data, Truthful
  <2>2. \A k \in 1..Len(parsed') : parsed'[k] \notin plan.bad
    <3>1. CASE parsed' = parsed
      BY <3>1 DEF Data, Truthful
    <3>2. CASE parsed' # parsed
      BY <1>3, <1>4, <3>2 DEF Data, Truthful
    <3> QED
      BY <3>1, <3>2
  <2> QED
    BY <1>1, <2>1, <2>2 DEF Data, Truthful, Right
<1>12. Halves'
  <2>1. \A k \in 1..(m + 1) : k + 1 <= m + 1 => pipe[k + 1][1] # pipe[k][1]
    BY <1>1 DEF Data, Halves
  <2>2. pipe[m + 1][1] = (IF wlock = None THEN 2 ELSE 1) /\ (m = 0 => m + 1 = 1)
    BY <1>1 DEF Data, Halves
  <2>3. \A k \in 1..m : k + 1 <= m => pipe'[k + 1][1] # pipe'[k][1]
    BY <1>1, <2>1
  <2>4. pipe' # <<>> => /\ pipe'[1][1] = IF recv' = None THEN 1 ELSE 2
                        /\ pipe'[m][1] = IF wlock = None THEN 2 ELSE 1
    <3> SUFFICES ASSUME pipe' # <<>> PROVE /\ pipe'[1][1] = IF recv' = None THEN 1 ELSE 2
                                           /\ pipe'[m][1] = IF wlock = None THEN 2 ELSE 1
      OBVIOUS
    <3>1. m # 0 /\ 1 \in 1..m /\ m \in 1..m /\ 1 + 1 = 2 /\ 2 <= m + 1
      BY <1>1
    <3>2. pipe'[1] = pipe[2] /\ pipe'[m] = pipe[m + 1] /\ pipe[2] \in HalvesOf
      BY <1>1, <3>1
    <3>3. pipe[2][1] \in {1, 2} /\ pipe[2][1] # pipe[1][1]
      BY <1>2, <2>1, <3>1, <3>2 DEF HalvesOf
    <3> QED
      BY <1>1, <1>2, <2>2, <3>2, <3>3
  <2>5. pipe' = <<>> => (recv' = None <=> wlock = None)
    <3> SUFFICES ASSUME pipe' = <<>> PROVE recv' = None <=> wlock = None
      OBVIOUS
    <3>1. m = 0
      BY <1>1
    <3>2. pipe[1][1] = IF wlock = None THEN 2 ELSE 1
      BY <2>2, <3>1
    <3> QED
      BY <1>1, <1>2, <3>2
  <2> QED
    BY <1>1, <2>3, <2>4, <2>5 DEF Halves
<1>13. (\A k \in 1..Len(pipe) : pipe[k][2][2]) => \A k \in 1..m : pipe'[k][2][2]
  BY <1>1
<1>14. ASSUME recv = None \/ parsed' # parsed, NEW r \in ToParse, Somewhere(r) PROVE Somewhere(r)'
  <2>1. ASSUME NEW k, Piped(r, k), k # 1 PROVE Somewhere(r)'
    <3>1. k \in 1..(m + 1)
      BY <1>5, <2>1
    <3>2. k - 1 \in 1..m /\ (k - 1) + 1 = k
      BY <1>1, <2>1, <3>1
    <3>3. Piped(r, k - 1)'
      BY <1>5, <2>1, <3>2
    <3> QED
      BY <3>3 DEF Somewhere
  <2>2. ASSUME Piped(r, 1) PROVE Somewhere(r)'
    <3>1. recv # None /\ r = y
      BY <1>2, <2>2 DEF Piped
    <3>2. Got(r, n)'
      BY <1>5, <1>14, <3>1
    <3> QED
      BY <3>2 DEF Somewhere
  <2> QED
    BY <1>5, <1>14, <2>1, <2>2 DEF Somewhere
<1> QED
  BY <1>1, <1>3, <1>9, <1>10, <1>11, <1>12, <1>13, <1>14 DEF Data, ToParse

-----------------------------------------------------------------------------
(* The steps of the parsers                                                *)

Parsing(p) == Child(p) \/ Feed(p) \/ Killed(p)

\* What a step of a parser is to recipes and results.
ChildEffect(p) ==
  \/ /\ \E r \in jobs[p], ok \in BOOLEAN : Puts(p, r, ok) /\ (ok => r \notin plan.bad)
     /\ UNCHANGED <<pipe, wlock>>
  \/ UNCHANGED <<jobs, buffer, pipe, wlock>>
  \/ Dead(p) /\ UNCHANGED <<pipe, wlock>>
  \/ /\ buffer[p] # <<>> /\ wlock = None /\ wlock' = p
     /\ pipe' = Append(pipe, <<1, Head(buffer[p])>>) /\ UNCHANGED <<jobs, buffer>>
  \/ /\ buffer[p] # <<>> /\ wlock = p /\ wlock' = None
     /\ pipe' = Append(pipe, <<2, Head(buffer[p])>>)
     /\ buffer' = [buffer EXCEPT ![p] = Tail(@)] /\ UNCHANGED jobs

\* What the cooker has stays, but for the pipe, and so do the other parsers.
ChildFrame(p) ==
  /\ UNCHANGED <<plan, quit, procs, closed, recv, parsed, empty, state, fails, at>>
  /\ phase[p] # "dead"
  /\ \A d \in Parsers \ {p} : /\ phase'[d] = phase[d] /\ signal'[d] = signal[d]
                              /\ file'[d] = file[d]
  /\ phase' \in [Parsers -> {"parse", "flush", "save", "write", "dead"}]
  /\ signal' \in [Parsers -> {"no", "int", "term"}]
  /\ file' \in [Parsers -> {"none", "part", "whole"}]
  /\ killed' \in Nat /\ killed <= killed'

LEMMA ParsingFrame ==
  ASSUME PoolType, NEW p \in Parsers, Parsing(p)
  PROVE  ChildFrame(p)
<1>1. Cooker /\ phase[p] # "dead"
  BY DEF Parsing, Child, Parse, Leave, Flushed, Save, Saved, Feed, Interrupted, Terminated,
         Killed
<1>2. killed' = killed \/ killed' = killed + 1
  BY DEF Parsing, Child, Parse, Leave, Flushed, Save, Saved, Feed, Interrupted, Terminated,
         Killed
<1>3. \/ phase' = phase
      \/ \E v \in {"flush", "save", "write", "dead"} : phase' = [phase EXCEPT ![p] = v]
  BY DEF Parsing, Child, Parse, Leave, Flushed, Save, Saved, Feed, Interrupted, Terminated,
         Killed, Enters, Dead
<1>4. signal' = signal \/ signal' = [signal EXCEPT ![p] = "no"]
  BY DEF Parsing, Child, Parse, Leave, Flushed, Save, Saved, Feed, Interrupted, Terminated,
         Killed, Dead
<1>5. file' = file \/ \E v \in {"part", "whole"} : file' = [file EXCEPT ![p] = v]
  BY DEF Parsing, Child, Parse, Leave, Flushed, Save, Saved, Feed, Interrupted, Terminated,
         Killed
<1>6. UNCHANGED <<plan, quit, procs, closed, recv, parsed, empty, state, fails, at>>
  BY <1>1 DEF Cooker, poolVars
<1>. /\ phase \in [Parsers -> {"parse", "flush", "save", "write", "dead"}]
     /\ signal \in [Parsers -> {"no", "int", "term"}]
     /\ file \in [Parsers -> {"none", "part", "whole"}]
  BY DEF PoolType
<1>7. /\ phase' \in [Parsers -> {"parse", "flush", "save", "write", "dead"}]
      /\ \A d \in Parsers \ {p} : phase'[d] = phase[d]
  BY <1>3
<1>8. /\ signal' \in [Parsers -> {"no", "int", "term"}]
      /\ \A d \in Parsers \ {p} : signal'[d] = signal[d]
  BY <1>4
<1>9. /\ file' \in [Parsers -> {"none", "part", "whole"}]
      /\ \A d \in Parsers \ {p} : file'[d] = file[d]
  BY <1>5
<1>10. killed' \in Nat /\ killed <= killed'
  BY <1>2 DEF PoolType
<1> QED
  BY <1>1, <1>6, <1>7, <1>8, <1>9, <1>10 DEF ChildFrame

LEMMA ParsingIs ==
  ASSUME PoolType, NEW p \in Parsers, Parsing(p)
  PROVE  ChildEffect(p)
<1>1. CASE Parse(p)
  <2>1. PICK r \in jobs[p] : Puts(p, r, r \notin plan.bad)
    BY <1>1 DEF Parse
  <2>2. \E ok \in BOOLEAN : Puts(p, r, ok) /\ (ok => r \notin plan.bad)
    BY <2>1
  <2> QED
    BY <1>1, <2>2 DEF Parse, ChildEffect
<1>2. CASE Leave(p) \/ Flushed(p)
  BY <1>2 DEF Leave, Flushed, ChildEffect
<1>3. CASE Save(p) \/ Saved(p)
  BY <1>3 DEF Save, Saved, ChildEffect
<1>4. CASE Feed(p)
  <2>1. UNCHANGED jobs /\ buffer[p] # <<>>
    BY <1>4 DEF Feed
  <2>2. \/ /\ wlock = None /\ wlock' = p
           /\ pipe' = Append(pipe, <<1, Head(buffer[p])>>) /\ buffer' = buffer
        \/ /\ wlock = p /\ wlock' = None
           /\ pipe' = Append(pipe, <<2, Head(buffer[p])>>)
           /\ buffer' = [buffer EXCEPT ![p] = Tail(@)]
    BY <1>4 DEF Feed
  <2> QED
    BY <2>1, <2>2 DEF ChildEffect
<1>5. CASE Interrupted(p)
  <2>1. (\E r \in jobs[p] : Puts(p, r, FALSE)) =>
          \E r \in jobs[p], ok \in BOOLEAN : Puts(p, r, ok) /\ (ok => r \notin plan.bad)
    OBVIOUS
  <2>2. UNCHANGED <<pipe, wlock>>
        /\ \/ \E r \in jobs[p] : Puts(p, r, FALSE)
           \/ UNCHANGED <<jobs, buffer>>
           \/ Dead(p)
    BY <1>5 DEF Interrupted
  <2> QED
    BY <2>1, <2>2 DEF ChildEffect
<1>6. CASE Terminated(p) \/ Killed(p)
  BY <1>6 DEF Terminated, Killed, ChildEffect
<1> QED
  BY <1>1, <1>2, <1>3, <1>4, <1>5, <1>6 DEF Parsing, Child

LEMMA ParsingData ==
  ASSUME PlansAssumed, PoolInv, NEW p \in Parsers, Parsing(p)
  PROVE  /\ PoolType' /\ Data'
         /\ (~Dead(p) \/ UNCHANGED <<jobs, buffer>>) => \A x \in ToParse : Somewhere(x) => Somewhere(x)'
<1>1. PoolType /\ Data /\ ChildEffect(p) /\ ChildFrame(p)
  BY ParsingIs, ParsingFrame DEF PoolInv
<1>2. UNCHANGED <<plan, parsed, recv>>
  BY <1>1 DEF ChildFrame
<1>3. /\ Data' /\ jobs' \in [Parsers -> SUBSET ToParse] /\ pipe' \in Seq(HalvesOf)
      /\ buffer' \in [Parsers -> Seq(Outcomes)] /\ wlock' \in Parsers \cup {None}
      /\ (~Dead(p) \/ UNCHANGED <<jobs, buffer>>) => \A x \in ToParse : Somewhere(x) => Somewhere(x)'
  <2>1. CASE /\ \E r \in jobs[p], ok \in BOOLEAN : Puts(p, r, ok) /\ (ok => r \notin plan.bad)
             /\ UNCHANGED <<pipe, wlock>>
    BY <1>1, <1>2, <2>1, PutsData DEF PoolType
  <2>2. CASE UNCHANGED <<jobs, buffer, pipe, wlock>>
    BY <1>1, <1>2, <2>2, SameData DEF PoolType
  <2>3. CASE Dead(p) /\ UNCHANGED <<pipe, wlock>>
    BY <1>1, <1>2, <2>3, DeadData, SameData DEF PoolType
  <2>4. CASE /\ buffer[p] # <<>> /\ wlock = None /\ wlock' = p
             /\ pipe' = Append(pipe, <<1, Head(buffer[p])>>) /\ UNCHANGED <<jobs, buffer>>
    BY <1>1, <1>2, <2>4, FeedFirstData DEF PoolType
  <2>5. CASE /\ buffer[p] # <<>> /\ wlock = p /\ wlock' = None
             /\ pipe' = Append(pipe, <<2, Head(buffer[p])>>)
             /\ buffer' = [buffer EXCEPT ![p] = Tail(@)] /\ UNCHANGED jobs
    BY <1>1, <1>2, <2>5, FeedSecondData DEF PoolType
  <2> QED
    BY <1>1, <2>1, <2>2, <2>3, <2>4, <2>5 DEF ChildEffect
<1>4. PoolType'
  <2>1. ToParse' = ToParse /\ Outcomes' = Outcomes /\ HalvesOf' = HalvesOf
    BY <1>2 DEF ToParse, Outcomes, HalvesOf
  <2>2. fails' \in BOOLEAN /\ quit' \in BOOLEAN
    BY <1>1, Zenon DEF ChildFrame, PoolType
  <2>3. \E n \in Nat : DOMAIN procs' = 1..n /\ procs' = [k \in 1..n |-> procs'[k]]
    BY <1>1 DEF ChildFrame, PoolType
  <2>4. /\ plan' \in Plans /\ recv' \in Threads \cup {None} /\ parsed' \in Seq(ToParse)
        /\ DOMAIN at' = Threads
        /\ at'.idle \in Reading \cup Closing \cup {"parsed", "failed"}
        /\ at'.main \in Closing \cup {"off", "done"}
    BY <1>1 DEF ChildFrame, PoolType
  <2> QED
    BY <1>1, <1>3, <2>1, <2>2, <2>3, <2>4 DEF PoolType, ChildFrame
<1> QED
  BY <1>3, <1>4

\* A verdict that has a reason keeps it.
LEMMA VerdictStays ==
  ASSUME PoolType, Verdict, at'.idle = at.idle, UNCHANGED <<plan, parsed, fails>>,
         Torn => Torn', at.main # "off" => at'.main # "off", killed' \in Nat,
         killed <= killed'
  PROVE  Verdict'
<1>1. killed \in Nat /\ AllParsed' = AllParsed
  BY DEF PoolType, AllParsed, ToParse
<1>2. Reason => Reason'
  BY <1>1 DEF Reason
<1> QED
  BY <1>1, <1>2 DEF Verdict

LEMMA ParsingParts ==
  ASSUME PoolInv, NEW p \in Parsers, Parsing(p)
  PROVE  Parts'
<1>1. PoolType /\ Parts /\ ChildFrame(p)
  BY ParsingFrame DEF PoolInv
<1>2. \/ file' = file /\ phase' = phase
      \/ file' = file /\ phase[p] # "write" /\ phase' = [phase EXCEPT ![p] = "flush"]
      \/ file' = file /\ phase[p] # "write" /\ phase' = [phase EXCEPT ![p] = "save"]
      \/ file' = file /\ phase' = [phase EXCEPT ![p] = "dead"]
      \/ phase' = [phase EXCEPT ![p] = "write"]
      \/ file' = [file EXCEPT ![p] = "whole"]
  BY DEF Parsing, Child, Parse, Leave, Flushed, Save, Saved, Feed, Interrupted, Terminated,
         Killed, Enters, Dead
<1>3. file'[p] = "part" => phase'[p] \in {"write", "dead"}
  BY <1>1, <1>2 DEF PoolType, Parts, ChildFrame
<1> QED
  BY <1>1, <1>3 DEF Parts, ChildFrame

LEMMA ParsingVerdict ==
  ASSUME PoolInv, NEW p \in Parsers, Parsing(p)
  PROVE  Verdict' /\ (Calm' => Calm)
<1>1. PoolType /\ Verdict /\ ChildFrame(p)
  BY ParsingIs, ParsingFrame DEF PoolInv
<1>2. Torn => Torn'
  BY <1>1 DEF Torn, ChildFrame
<1>3. Verdict'
  BY <1>1, <1>2, VerdictStays DEF ChildFrame
<1> QED
  BY <1>1, <1>3 DEF Calm, ChildFrame, PoolType

\* Who has left while all is calm had nothing to lose.
LEMMA ParsingCalm ==
  ASSUME PlansAssumed, PoolInv, NEW p \in Parsers, Parsing(p), Calm'
  PROVE  CalmInv'
<1>1. PoolType /\ Data /\ Calm /\ CalmInv /\ ChildFrame(p) /\ PoolType'
  BY ParsingFrame, ParsingVerdict, ParsingData DEF PoolInv
<1>2. /\ UNCHANGED <<state, closed, quit, procs, recv, at, empty, plan>> /\ signal[p] = "no"
      /\ p \in Range(procs) /\ procs # <<>> /\ phase[p] # "dead"
  BY <1>1 DEF ChildFrame, CalmInv, Range
<1>3. ~Interrupted(p) /\ ~Terminated(p) /\ ~Killed(p)
  <2>1. killed' # killed + 1
    BY <1>1 DEF Calm, PoolType
  <2> QED
    BY <1>2, <2>1 DEF Interrupted, Terminated, Killed
<1>4. /\ \A d \in Parsers : signal'[d] = "no"
      /\ \A r \in ToParse : Somewhere(r)'
      /\ phase'[p] # "parse" => jobs'[p] = {}
      /\ Gone(p)' => buffer'[p] = <<>> /\ wlock' # p
      /\ \A d \in Parsers \ {p} : /\ jobs'[d] = jobs[d] /\ buffer'[d] = buffer[d]
                                  /\ phase'[d] = phase[d] /\ (wlock' = d => wlock = d)
      /\ \A k \in 1..Len(buffer'[p]) : buffer'[p][k][2]
      /\ \A k \in 1..Len(pipe') : pipe'[k][2][2]
  <2>1. CASE Parse(p)
    <3>1. PICK r \in jobs[p] : Puts(p, r, r \notin plan.bad)
      BY <2>1 DEF Parse
    <3>2. /\ r \notin plan.bad /\ buffer'[p] = Append(buffer[p], <<r, TRUE>>)
          /\ \A d \in Parsers \ {p} : jobs'[d] = jobs[d] /\ buffer'[d] = buffer[d]
      BY <1>1, <3>1 DEF Calm, Puts, PoolType
    <3>3. /\ phase'[p] = "parse" /\ UNCHANGED <<phase, wlock, pipe>>
          /\ ~Dead(p)
      BY <1>1, <2>1 DEF Parse, Dead, Enters, PoolType
    <3>4. \A k \in 1..Len(buffer'[p]) : buffer'[p][k][2]
      <4>1. PICK x : x = <<r, TRUE>>
        OBVIOUS
      <4>2. buffer[p] \in Seq(Outcomes) /\ x \in Outcomes /\ x[2]
        BY <1>1, <3>1, <4>1 DEF PoolType, Outcomes
      <4>3. buffer'[p] = Append(buffer[p], x)
        BY <3>2, <4>1
      <4>4. /\ Len(buffer'[p]) = Len(buffer[p]) + 1 /\ Len(buffer[p]) \in Nat
            /\ buffer'[p][Len(buffer[p]) + 1] = x
            /\ \A k \in 1..Len(buffer[p]) : buffer'[p][k] = buffer[p][k]
        BY <4>2, <4>3, AppendIs
      <4>5. \A k \in 1..Len(buffer'[p]) : k = Len(buffer[p]) + 1 \/ k \in 1..Len(buffer[p])
        BY <4>4
      <4> QED
        BY <1>1, <4>2, <4>4, <4>5 DEF CalmInv
    <3>5. \A x \in ToParse : Somewhere(x)'
      BY <1>1, <3>3, ParsingData DEF CalmInv
    <3>6. (\A d \in Parsers : signal'[d] = "no") /\ \A k \in 1..Len(pipe') : pipe'[k][2][2]
      BY <1>1, <2>1, <3>3 DEF Parse, CalmInv
    <3> QED
      BY <3>2, <3>3, <3>4, <3>5, <3>6 DEF Gone
  <2>2. CASE Leave(p) \/ Flushed(p)
    <3>1. UNCHANGED <<jobs, signal, buffer, wlock, pipe>>
      BY <2>2 DEF Leave, Flushed
    <3>2. \A x \in ToParse : Somewhere(x)'
      BY <1>1, <3>1, ParsingData DEF CalmInv
    <3>3. /\ jobs'[p] = {} /\ (Gone(p)' => buffer'[p] = <<>> /\ wlock' # p)
      <4>0. phase \in [Parsers -> {"parse", "flush", "save", "write", "dead"}]
        BY <1>1 DEF PoolType
      <4>1. CASE Leave(p)
        <5>1. jobs'[p] = {}
          BY <1>1, <3>1, <4>1 DEF Leave, CalmInv
        <5>2. phase'[p] = "flush"
          BY <4>0, <4>1 DEF Leave, Enters
        <5> QED
          BY <5>1, <5>2 DEF Gone
      <4>2. CASE Flushed(p)
        <5>1. phase[p] = "flush" /\ buffer[p] = <<>> /\ wlock # p
          BY <4>2 DEF Flushed
        <5>2. jobs[p] = {}
          BY <1>1, <5>1 DEF CalmInv
        <5> QED
          BY <3>1, <5>1, <5>2
      <4> QED
        BY <2>2, <4>1, <4>2
    <3>4. \A d \in Parsers \ {p} : phase'[d] = phase[d]
      BY <1>1 DEF ChildFrame
    <3> QED
      BY <1>1, <3>1, <3>2, <3>3, <3>4 DEF CalmInv
  <2>3. CASE Save(p) \/ Saved(p)
    <3>1. jobs[p] = {} /\ buffer[p] = <<>> /\ wlock # p
      BY <1>1, <2>3 DEF Save, Saved, CalmInv, Gone
    <3>2. UNCHANGED <<wlock, pipe>>
      BY <2>3 DEF Save, Saved
    <3>3. UNCHANGED <<jobs, buffer, signal>> \/ Dead(p)
      BY <2>3 DEF Save, Saved
    <3>4. UNCHANGED <<jobs, buffer>>
      <4>1. CASE Dead(p)
        <5>1. jobs' = [jobs EXCEPT ![p] = jobs[p]] /\ buffer' = [buffer EXCEPT ![p] = buffer[p]]
          BY <3>1, <4>1 DEF Dead
        <5> QED
          BY <1>1, <5>1 DEF PoolType
      <4> QED
        BY <3>3, <4>1
    <3>5. \A d \in Parsers : signal'[d] = "no"
      BY <1>1, <3>3 DEF Dead, CalmInv, PoolType
    <3>6. \A x \in ToParse : Somewhere(x)'
      BY <1>1, <3>4, ParsingData DEF CalmInv
    <3>7. \A d \in Parsers \ {p} : phase'[d] = phase[d]
      BY <1>1 DEF ChildFrame
    <3> QED
      BY <1>1, <3>1, <3>2, <3>4, <3>5, <3>6, <3>7 DEF CalmInv
  <2>4. CASE Feed(p)
    <3>1. UNCHANGED <<jobs, phase, signal>> /\ ~Dead(p) /\ buffer[p] # <<>>
      BY <1>1, <1>2, <2>4 DEF Feed, Dead, Enters, PoolType
    <3>2. \A x \in ToParse : Somewhere(x)'
      BY <1>1, <3>1, ParsingData DEF CalmInv
    <3>3. buffer[p] \in Seq(Outcomes) /\ Head(buffer[p])[2]
      <4>1. buffer[p] \in Seq(Outcomes) /\ Len(buffer[p]) \in Nat \ {0}
            /\ Head(buffer[p]) = buffer[p][1]
        BY <1>1, <3>1, TailIs DEF PoolType
      <4> QED
        BY <1>1, <4>1 DEF CalmInv
    <3>4. CASE /\ wlock = None /\ wlock' = p
               /\ pipe' = Append(pipe, <<1, Head(buffer[p])>>) /\ buffer' = buffer
      <4>1. \A k \in 1..Len(pipe') : pipe'[k][2][2]
        BY <1>1, <3>1, <3>3, <3>4, FeedFirstData DEF CalmInv, ChildFrame
      <4>2. ~Gone(p)' /\ (phase[p] # "parse" => jobs[p] = {})
        BY <1>1, <3>1 DEF CalmInv, Gone
      <4> QED
        BY <1>1, <3>1, <3>2, <3>4, <4>1, <4>2 DEF CalmInv
    <3>5. CASE /\ wlock = p /\ wlock' = None
               /\ pipe' = Append(pipe, <<2, Head(buffer[p])>>)
               /\ buffer' = [buffer EXCEPT ![p] = Tail(@)]
      <4>1. \A k \in 1..Len(pipe') : pipe'[k][2][2]
        BY <1>1, <3>1, <3>3, <3>5, FeedSecondData DEF CalmInv, ChildFrame
      <4>2. ~Gone(p)' /\ (phase[p] # "parse" => jobs[p] = {})
        BY <1>1, <3>1 DEF CalmInv, Gone
      <4>3. /\ buffer'[p] = Tail(buffer[p])
            /\ \A d \in Parsers \ {p} : buffer'[d] = buffer[d] /\ d # wlock'
        BY <1>1, <3>5 DEF PoolType, PlansAssumed
      <4>4. \A k \in 1..Len(buffer'[p]) : buffer'[p][k][2]
        <5>1. /\ Len(Tail(buffer[p])) = Len(buffer[p]) - 1 /\ Len(buffer[p]) \in Nat \ {0}
              /\ \A k \in 1..(Len(buffer[p]) - 1) : Tail(buffer[p])[k] = buffer[p][k + 1]
          BY <3>1, <3>3, TailIs
        <5>2. \A k \in 1..(Len(buffer[p]) - 1) : k + 1 \in 1..Len(buffer[p])
          BY <5>1
        <5> QED
          BY <1>1, <4>3, <5>1, <5>2 DEF CalmInv
      <4> QED
        BY <1>1, <3>1, <3>2, <3>5, <4>1, <4>2, <4>3, <4>4 DEF CalmInv
    <3>6. \/ /\ wlock = None /\ wlock' = p
             /\ pipe' = Append(pipe, <<1, Head(buffer[p])>>) /\ buffer' = buffer
          \/ /\ wlock = p /\ wlock' = None
             /\ pipe' = Append(pipe, <<2, Head(buffer[p])>>)
             /\ buffer' = [buffer EXCEPT ![p] = Tail(@)]
      BY <2>4 DEF Feed
    <3> QED
      BY <3>4, <3>5, <3>6
  <2> QED
    BY <1>3, <2>1, <2>2, <2>3, <2>4 DEF Parsing, Child
<1>5. \A d \in Parsers : /\ phase'[d] # "parse" => jobs'[d] = {}
                         /\ Gone(d)' => buffer'[d] = <<>> /\ wlock' # d
                         /\ phase'[d] # "dead" => d \in Range(procs)
                         /\ \A k \in 1..Len(buffer'[d]) : buffer'[d][k][2]
  BY <1>1, <1>2, <1>4 DEF CalmInv, Gone
<1> QED
  BY <1>1, <1>2, <1>4, <1>5 DEF CalmInv, ToParse

LEMMA ParsingKeeps ==
  ASSUME PlansAssumed, PoolInv, NEW p \in Parsers, Parsing(p)
  PROVE  PoolInv'
BY ParsingData, ParsingParts, ParsingVerdict, ParsingCalm DEF PoolInv

-----------------------------------------------------------------------------
(* The list of processes                                                   *)

\* Numbers are found by their rank.
LEMMA RankIs ==
  ASSUME NEW S \in SUBSET Nat, IsFiniteSet(S), NEW x \in S
  PROVE  /\ Cardinality({m \in S : m <= x}) \in 1..Cardinality(S)
         /\ x = CHOOSE n \in S :
                  Cardinality({m \in S : m <= n}) = Cardinality({m \in S : m <= x})
<1> DEFINE Rank(n) == Cardinality({m \in S : m <= n})
<1>1. \A n \in S : IsFiniteSet({m \in S : m <= n}) /\ Rank(n) \in Nat
  BY FS_Subset, FS_CardinalityType
<1>2. Rank(x) <= Cardinality(S) /\ Cardinality(S) \in Nat
  BY FS_Subset, FS_CardinalityType
<1>3. Rank(x) # 0
  BY <1>1, FS_EmptySet
<1>4. ASSUME NEW n \in S, NEW k \in S, n < k PROVE Rank(n) # Rank(k)
  <2>1. n \in Nat /\ k \in Nat /\ \A m \in S : m \in Nat
    OBVIOUS
  <2>2. k \in {m \in S : m <= k} /\ k \notin {m \in S : m <= n}
    BY <1>4, <2>1
  <2>3. {m \in S : m <= n} \subseteq {m \in S : m <= k}
    <3>1. \A m \in S : m <= n => m <= k
      BY <1>4, <2>1
    <3> QED
      BY <3>1
  <2> QED
    BY <1>1, <2>2, <2>3, FS_Subset
<1>5. \A n \in S : Rank(n) = Rank(x) => n = x
  <2> TAKE n \in S
  <2>1. n < x \/ x < n \/ n = x
    OBVIOUS
  <2> QED
    BY <1>4, <2>1
<1>6. Rank(x) \in 1..Cardinality(S)
  BY <1>1, <1>2, <1>3
<1> HIDE DEF Rank
<1>7. x = CHOOSE n \in S : Rank(n) = Rank(x)
  BY <1>5, Zenon
<1> QED
  BY <1>6, <1>7, Zenon DEF Rank

LEMMA AliveIs ==
  ASSUME PoolType
  PROVE  /\ \E n \in Nat : DOMAIN Alive = 1..n /\ Alive = [k \in 1..n |-> Alive[k]]
         /\ \A p \in Range(procs) : phase[p] # "dead" => p \in Range(Alive)
<1> DEFINE S == {n \in DOMAIN procs : phase[procs[n]] # "dead"}
           Rank(n) == Cardinality({m \in S : m <= n})
           Place(k) == CHOOSE n \in S : Rank(n) = k
<1>1. S \in SUBSET Nat /\ IsFiniteSet(S) /\ Cardinality(S) \in Nat
  <2>1. PICK n \in Nat : DOMAIN procs = 1..n
    BY DEF PoolType
  <2>2. S \in SUBSET (1..n) /\ IsFiniteSet(1..n)
    BY <2>1, CardinalityTo
  <2> QED
    BY <2>2, FS_Subset, FS_CardinalityType
<1>2. Alive = [k \in 1..Cardinality(S) |-> procs[Place(k)]]
  BY DEF Alive
<1>3. ASSUME NEW p \in Range(procs), phase[p] # "dead" PROVE p \in Range(Alive)
  <2>1. PICK x \in S : p = procs[x]
    BY <1>3 DEF Range
  <2>2. Rank(x) \in 1..Cardinality(S) /\ x = Place(Rank(x))
    <3> HIDE DEF S
    <3> QED
      BY <1>1, RankIs
  <2> HIDE DEF S, Rank, Place
  <2>3. Alive[Rank(x)] = p /\ Rank(x) \in DOMAIN Alive
    BY <1>2, <2>1, <2>2
  <2> QED
    BY <2>3 DEF Range
<1> HIDE DEF S, Place
<1> QED
  BY <1>1, <1>2, <1>3

-----------------------------------------------------------------------------
(* The idle thread                                                         *)

LEMMA GoesTo ==
  ASSUME PoolType, NEW t \in Threads, NEW place, GoTo(t, place)
  PROVE  /\ DOMAIN at' = Threads /\ at'[t] = place
         /\ \A u \in Threads \ {t} : at'[u] = at[u]
BY DEF GoTo, PoolType

\* A step of the cooker leaves the parsers what they have.
LEMMA CookerType ==
  ASSUME PoolType, UNCHANGED <<plan, jobs, phase, buffer, wlock, killed>>,
         signal' \in [Parsers -> {"no", "int", "term"}],
         file' \in [Parsers -> {"none", "part", "whole"}],
         pipe' \in Seq(HalvesOf), recv' \in Threads \cup {None}, parsed' \in Seq(ToParse),
         \/ procs' = procs
         \/ \E n \in Nat : DOMAIN procs' = 1..n /\ procs' = [k \in 1..n |-> procs'[k]],
         fails' \in BOOLEAN, quit' \in BOOLEAN,
         DOMAIN at' = Threads,
         at'["idle"] \in Reading \cup Closing \cup {"parsed", "failed"},
         at'["main"] \in Closing \cup {"off", "done"}
  PROVE  PoolType'
<1>1. ToParse' = ToParse /\ HalvesOf' = HalvesOf /\ Outcomes' = Outcomes
  BY DEF ToParse, HalvesOf, Outcomes
<1>2. \E n \in Nat : DOMAIN procs' = 1..n /\ procs' = [k \in 1..n |-> procs'[k]]
  BY DEF PoolType
<1> QED
  BY <1>1, <1>2 DEF PoolType

\* Without a reason, and while results are read, all is calm.
LEMMA CalmOr ==
  ASSUME PoolInv, at.idle \in Reading
  PROVE  Reason \/ (Calm /\ CalmInv)
BY DEF PoolInv, PoolType, Reason, Calm

LEMMA ReasonStays ==
  ASSUME UNCHANGED <<plan, phase, file, killed>>, at.main # "off" => at'.main # "off"
  PROVE  Reason => Reason'
BY DEF Reason, Torn

\* When no parser is left and nothing is, all was parsed.
LEMMA NothingLeft ==
  ASSUME PlansAssumed, PoolType, Data, CalmInv, at.idle # "get", procs = <<>>, empty
  PROVE  AllParsed
<1>1. pipe = <<>> /\ Len(pipe) = 0 /\ Range(procs) = {}
  BY DEF CalmInv, Range
<1>2. \A p \in Parsers : jobs[p] = {} /\ buffer[p] = <<>> /\ Len(buffer[p]) = 0
  <2> TAKE p \in Parsers
  <2>1. phase[p] = "dead"
    BY <1>1 DEF CalmInv
  <2> QED
    BY <2>1 DEF CalmInv, Gone
<1>3. ToParse \subseteq Range(parsed)
  <2> SUFFICES ASSUME NEW r \in ToParse PROVE r \in Range(parsed)
    OBVIOUS
  <2>1. Somewhere(r) /\ plan.chunk[r] \in Parsers
    BY PlansAre DEF CalmInv
  <2>2. PICK k : Got(r, k)
    BY <1>1, <1>2, <2>1 DEF Somewhere, Unparsed, Buffered, Piped
  <2> QED
    BY <2>2 DEF Got, Range, PoolType
<1>4. IsFiniteSet(ToParse) /\ Cardinality(ToParse) \in Nat
  BY PlansAre
<1>5. Range(parsed) = ToParse /\ Len(parsed) = Cardinality(Range(parsed))
  BY <1>3, AllAreParsed
<1> QED
  BY <1>4, <1>5 DEF AllParsed

LEMMA RoundKeeps ==
  ASSUME PlansAssumed, PoolInv, Round
  PROVE  PoolInv'
<1>1. /\ PoolType /\ Data /\ Parts /\ at.idle = "round"
      /\ UNCHANGED <<plan, childVars, pipe, poolVars, recv, parsed, empty, state>>
      /\ IF state = "stop" THEN GoTo("idle", "check") /\ fails' = TRUE
         ELSE GoTo("idle", "next") /\ UNCHANGED fails
  BY DEF PoolInv, Round, NoChild
<1>2. /\ DOMAIN at' = Threads /\ at'["main"] = at["main"]
      /\ at'["idle"] = IF state = "stop" THEN "check" ELSE "next"
  BY <1>1, GoesTo DEF Threads
<1>3. fails' \in BOOLEAN /\ quit' \in BOOLEAN
  BY <1>1, Zenon DEF PoolType, poolVars
<1>4. PoolType'
  BY <1>1, <1>2, <1>3, CookerType DEF PoolType, childVars, poolVars, Reading, Closing
<1>5. Data' /\ (\A x : Somewhere(x) => Somewhere(x)') /\ Parts'
  BY <1>1, SameData DEF childVars, Parts
<1>6. Calm' => CalmInv'
  BY <1>1, <1>2, <1>5 DEF PoolInv, Calm, CalmInv, Reading, childVars, poolVars, ToParse, Gone
<1>7. Verdict'
  <2>1. state = "stop" => Reason'
    BY <1>1, <1>2, CalmOr, ReasonStays DEF CalmInv, Reading, childVars
  <2> QED
    BY <1>1, <1>2, <2>1 DEF Verdict, Closing
<1> QED
  BY <1>4, <1>5, <1>6, <1>7 DEF PoolInv

LEMMA NextResultKeeps ==
  ASSUME PlansAssumed, PoolInv, NextResult
  PROVE  PoolInv'
<1> PICK over, raises, all :
      /\ over = (procs = <<>> /\ empty)
      /\ raises = (~(procs = <<>> /\ empty) /\ Range(procs) \cap closed # {})
      /\ all = AllParsed
  OBVIOUS
<1>1. /\ PoolType /\ Data /\ Parts /\ at.idle = "next"
      /\ UNCHANGED <<plan, childVars, pipe, quit, closed, recv, parsed, empty>>
      /\ state' = "parsing" /\ procs' = IF over \/ raises THEN procs ELSE Alive
      /\ fails' = (raises \/ (over /\ ~all))
      /\ GoTo("idle", IF over \/ raises \/ all THEN "check" ELSE "get")
  BY DEF PoolInv, NextResult, NoChild
<1>2. /\ DOMAIN at' = Threads /\ at'["main"] = at["main"]
      /\ at'["idle"] = IF over \/ raises \/ all THEN "check" ELSE "get"
  BY <1>1, GoesTo DEF Threads
<1>3. fails' \in BOOLEAN /\ quit' \in BOOLEAN
  BY <1>1, Zenon DEF PoolType
<1>4. PoolType'
  <2>1. procs' = procs \/ procs' = Alive
    BY <1>1
  <2>2. \/ procs' = procs
        \/ \E n \in Nat : DOMAIN procs' = 1..n /\ procs' = [k \in 1..n |-> procs'[k]]
    BY <1>1, <2>1, AliveIs
  <2> QED
    BY <1>1, <1>2, <1>3, <2>2, CookerType DEF PoolType, childVars, Reading, Closing
<1>5. Data' /\ (\A x : Somewhere(x) => Somewhere(x)') /\ Parts'
  BY <1>1, SameData DEF childVars, Parts
<1>6. Calm' => CalmInv'
  <2>1. ASSUME Calm' PROVE CalmInv'
    <3>1. Calm /\ CalmInv /\ at'["idle"] = "get" /\ procs' = Alive
      BY <1>1, <1>2, <2>1 DEF PoolInv, Calm, Reading, childVars
    <3>2. \A p \in Parsers : phase[p] # "dead" => p \in Range(procs')
      BY <1>1, <3>1, AliveIs DEF CalmInv
    <3> QED
      BY <1>1, <1>2, <1>5, <3>1, <3>2 DEF CalmInv, childVars, ToParse, Gone
  <2> QED
    BY <2>1
<1>7. Verdict'
  <2>1. fails' => Reason'
    <3>1. ASSUME fails', ~Reason PROVE FALSE
      <4>1. CalmInv
        BY <1>1, <3>1, CalmOr DEF Reading
      <4>2. ~raises
        BY <4>1 DEF CalmInv
      <4>3. procs = <<>> /\ empty /\ ~AllParsed
        BY <1>1, <3>1, <4>2
      <4> QED
        BY <1>1, <4>1, <4>3, NothingLeft
    <3> QED
      BY <1>1, <1>2, <3>1, ReasonStays DEF childVars
  <2>2. at'["idle"] = "check" /\ ~fails' => AllParsed'
    BY <1>1, <1>2 DEF AllParsed, ToParse
  <2> QED
    BY <1>2, <2>1, <2>2 DEF Verdict, Closing
<1> QED
  BY <1>4, <1>5, <1>6, <1>7 DEF PoolInv

LEMMA BeginResultKeeps ==
  ASSUME PlansAssumed, PoolInv, BeginResult
  PROVE  PoolInv'
<1>1. /\ PoolType /\ Data /\ Parts /\ Verdict /\ at.idle = "get"
      /\ UNCHANGED <<plan, childVars, poolVars, parsed, empty, state, fails, at>>
      /\ recv = None /\ pipe # <<>> /\ recv' = "idle" /\ pipe' = Tail(pipe)
  BY DEF PoolInv, BeginResult, Begins, NoChild
<1>2. /\ Data' /\ pipe' \in Seq(HalvesOf) /\ \A x \in ToParse : Somewhere(x) => Somewhere(x)'
      /\ (\A k \in 1..Len(pipe) : pipe[k][2][2]) => \A k \in 1..Len(pipe') : pipe'[k][2][2]
  BY <1>1, PopData DEF childVars, Threads
<1>3. fails' \in BOOLEAN /\ quit' \in BOOLEAN
  BY <1>1, Zenon DEF PoolType, poolVars
<1>4. PoolType' /\ Parts'
  BY <1>1, <1>2, <1>3, CookerType DEF PoolType, childVars, poolVars, Threads, Parts
<1>5. Calm' => CalmInv'
  BY <1>1, <1>2 DEF PoolInv, Calm, CalmInv, childVars, poolVars, ToParse, Gone
<1>6. Verdict'
  BY <1>1 DEF Verdict, Closing
<1> QED
  BY <1>2, <1>4, <1>5, <1>6 DEF PoolInv

LEMMA EndResultKeeps ==
  ASSUME PlansAssumed, PoolInv, EndResult
  PROVE  PoolInv'
<1> PICK r : r = pipe[1][2]
  OBVIOUS
<1>1. /\ PoolType /\ Data /\ Parts /\ at.idle = "get"
      /\ UNCHANGED <<plan, childVars, poolVars, state>>
      /\ recv = "idle" /\ pipe # <<>> /\ recv' = None /\ pipe' = Tail(pipe) /\ ~empty'
      /\ \/ r[2] /\ parsed' = Append(parsed, r[1]) /\ GoTo("idle", "round") /\ UNCHANGED fails
         \/ ~r[2] /\ UNCHANGED parsed /\ GoTo("idle", "check") /\ fails' = TRUE
  BY DEF PoolInv, EndResult, Ends, NoChild
<1>2. recv # None
  BY <1>1 DEF PlansAssumed, Threads
<1>3. /\ Data' /\ pipe' \in Seq(HalvesOf) /\ parsed' \in Seq(ToParse)
      /\ (\A k \in 1..Len(pipe) : pipe[k][2][2]) => \A k \in 1..Len(pipe') : pipe'[k][2][2]
      /\ parsed' # parsed => \A x \in ToParse : Somewhere(x) => Somewhere(x)'
  BY <1>1, <1>2, PopData DEF childVars, Threads
<1>4. /\ DOMAIN at' = Threads /\ at'["main"] = at["main"]
      /\ at'["idle"] = IF r[2] THEN "round" ELSE "check"
  BY <1>1, GoesTo DEF Threads
<1>5. fails' \in BOOLEAN /\ quit' \in BOOLEAN
  BY <1>1, Zenon DEF PoolType, poolVars
<1>6. PoolType' /\ Parts'
  BY <1>1, <1>3, <1>4, <1>5, CookerType
  DEF PoolType, childVars, poolVars, Parts, Reading, Closing
<1>7. Calm' => CalmInv'
  <2>1. ASSUME Calm' PROVE CalmInv'
    <3>1. Calm /\ CalmInv /\ r[2] /\ at'["idle"] = "round"
      BY <1>1, <1>4, <2>1 DEF PoolInv, Calm, Reading, childVars, Closing
    <3>2. parsed' # parsed
      <4>1. PICK y : y = r[1]
        OBVIOUS
      <4>2. y \in ToParse /\ parsed' = Append(parsed, y) /\ parsed \in Seq(ToParse)
        <5>1. pipe[1] \in HalvesOf
          BY <1>1, TailIs DEF PoolType
        <5> QED
          BY <1>1, <3>1, <4>1, <5>1 DEF PoolType, HalvesOf, Outcomes
      <4>3. Len(parsed') = Len(parsed) + 1 /\ Len(parsed) \in Nat
        BY <4>2, AppendIs
      <4> QED
        BY <4>3
    <3> QED
      BY <1>1, <1>3, <1>4, <3>1, <3>2 DEF CalmInv, childVars, poolVars, ToParse, Gone
  <2> QED
    BY <2>1
<1>8. Verdict'
  <2>1. ~r[2] => Reason'
    <3>1. ASSUME ~r[2], ~Reason PROVE FALSE
      <4>1. CalmInv
        BY <1>1, <3>1, CalmOr DEF Reading
      <4>2. 1 \in 1..Len(pipe)
        BY <1>1, TailIs DEF PoolType
      <4> QED
        BY <3>1, <4>1, <4>2 DEF CalmInv
    <3> QED
      BY <1>1, <1>4, <3>1, ReasonStays DEF childVars
  <2> QED
    BY <1>1, <1>4, <2>1 DEF Verdict, Closing
<1> QED
  BY <1>3, <1>6, <1>7, <1>8 DEF PoolInv

LEMMA NoResultKeeps ==
  ASSUME PlansAssumed, PoolInv, NoResult
  PROVE  PoolInv'
<1>1. /\ PoolType /\ Data /\ Parts /\ at.idle = "get"
      /\ UNCHANGED <<plan, childVars, poolVars, recv, pipe, parsed, state, fails>>
      /\ recv # "idle" /\ (recv # None \/ pipe = <<>>) /\ GoTo("idle", "round")
  BY DEF PoolInv, NoResult, FindsNone, NoChild
<1>2. /\ DOMAIN at' = Threads /\ at'["main"] = at["main"] /\ at'["idle"] = "round"
  BY <1>1, GoesTo DEF Threads
<1>3. fails' \in BOOLEAN /\ quit' \in BOOLEAN
  BY <1>1, Zenon DEF PoolType, poolVars
<1>4. PoolType' /\ Parts'
  BY <1>1, <1>2, <1>3, CookerType DEF PoolType, childVars, poolVars, Parts, Reading
<1>5. Data' /\ \A x : Somewhere(x) => Somewhere(x)'
  BY <1>1, SameData DEF childVars
<1>6. Calm' => CalmInv'
  BY <1>1, <1>2, <1>5 DEF PoolInv, Calm, CalmInv, Reading, childVars, poolVars, ToParse, Gone
<1>7. Verdict'
  BY <1>2 DEF Verdict, Closing
<1> QED
  BY <1>4, <1>5, <1>6, <1>7 DEF PoolInv

-----------------------------------------------------------------------------
(* The shutdown                                                            *)

LEMMA StopKeeps ==
  ASSUME PlansAssumed, PoolInv, Stop
  PROVE  PoolInv'
<1>1. /\ PoolType /\ Data /\ Parts /\ Verdict /\ GoTo("main", "check")
      /\ UNCHANGED <<plan, childVars, pipe, poolVars, recv, parsed, empty, fails>>
  BY DEF PoolInv, Stop, NoChild
<1>2. /\ DOMAIN at' = Threads /\ at'["main"] = "check" /\ at'["idle"] = at["idle"]
  BY <1>1, GoesTo DEF Threads
<1>3. fails' \in BOOLEAN /\ quit' \in BOOLEAN
  BY <1>1, Zenon DEF PoolType, poolVars
<1>4. PoolType' /\ Parts'
  BY <1>1, <1>2, <1>3, CookerType DEF PoolType, childVars, poolVars, Parts, Closing
<1>5. Data'
  BY <1>1, SameData DEF childVars
<1>6. Torn => Torn'
  BY <1>1 DEF Torn, childVars
<1>7. Verdict'
  BY <1>1, <1>2, <1>6, VerdictStays DEF childVars, PoolType
<1> QED
  BY <1>2, <1>4, <1>5, <1>7 DEF PoolInv, Calm

\* A step of a shutdown: the thread does not read results any more, and what it does to
\* the verdict.
Closes(t, place) ==
  /\ at[t] \in Closing
  /\ DOMAIN at' = Threads /\ at'[t] = place /\ \A u \in Threads \ {t} : at'[u] = at[u]
  /\ \/ place \in Closing /\ fails' = fails
     \/ t = "main" /\ place = "done" /\ fails' = fails
     \/ t = "idle" /\ place = IF fails' THEN "failed" ELSE "parsed"

LEMMA ShutdownVerdict ==
  ASSUME PoolInv, NEW t \in Threads, NEW place, Closes(t, place),
         UNCHANGED <<plan, parsed, phase, killed>>, Torn => Torn', fails' \in BOOLEAN,
         fails' => fails \/ Torn, fails => fails'
  PROVE  /\ Verdict' /\ ~Calm' /\ DOMAIN at' = Threads
         /\ at'["idle"] \in Reading \cup Closing \cup {"parsed", "failed"}
         /\ at'["main"] \in Closing \cup {"off", "done"}
<1>1. PoolType /\ Verdict /\ at[t] \in Closing
  BY DEF PoolInv, Closes
<1>2. DOMAIN at' = Threads /\ at'[t] = place /\ \A u \in Threads \ {t} : at'[u] = at[u]
  BY DEF Closes
<1>3. AllParsed' <=> AllParsed
  BY DEF AllParsed, ToParse
<1>4. CASE t = "main"
  <2>1. at'["idle"] = at["idle"] /\ at'["main"] \in Closing \cup {"done"} /\ fails' = fails
    BY <1>2, <1>4 DEF Closes, Threads
  <2>2. at["main"] # "off" /\ at'["main"] # "off"
    BY <1>1, <1>4, <2>1 DEF Closing
  <2>3. Verdict'
    BY <1>1, <2>1, <2>2, VerdictStays DEF PoolType
  <2> QED
    BY <1>1, <1>2, <2>1, <2>2, <2>3 DEF PoolType, Calm
<1>5. CASE t = "idle"
  <2>1. /\ at'["main"] = at["main"] /\ at["idle"] \in Closing
        /\ at'["idle"] \in Closing \cup {"parsed", "failed"}
        /\ at'["idle"] = "parsed" => ~fails'
        /\ at'["idle"] = "failed" => fails'
        /\ at'["idle"] \in Closing => fails' = fails
    BY <1>1, <1>2, <1>5 DEF Closes, Threads, Closing
  <2>2. ~Calm'
    BY <2>1 DEF Calm, Closing, Reading
  <2>3. fails' => Reason'
    BY <1>1, <2>1 DEF Verdict, Reason
  <2>4. ~fails' => AllParsed'
    BY <1>1, <1>3, <2>1 DEF Verdict
  <2>5. Verdict'
    BY <2>1, <2>3, <2>4 DEF Verdict, Closing
  <2> QED
    BY <1>1, <1>2, <2>1, <2>2, <2>5 DEF PoolType
<1> QED
  BY <1>4, <1>5 DEF Threads

\* What a step of a shutdown leaves as it is.
ClosesOnly == UNCHANGED <<plan, jobs, phase, buffer, wlock, killed, parsed, procs>>

\* Such a step that leaves the pipe and the files as they are.
LEMMA ClosingKeeps ==
  ASSUME PlansAssumed, PoolInv, NEW t \in Threads, NEW place, Closes(t, place), ClosesOnly,
         UNCHANGED <<pipe, recv, file, fails>>, quit' \in BOOLEAN,
         signal' \in [Parsers -> {"no", "int", "term"}]
  PROVE  PoolInv'
<1>1. PoolType /\ Data /\ Parts
  BY DEF PoolInv
<1>2. fails' \in BOOLEAN
  BY <1>1, Zenon DEF PoolType
<1>3. Torn => Torn'
  BY DEF Torn, ClosesOnly
<1>4. /\ Verdict' /\ ~Calm' /\ DOMAIN at' = Threads
      /\ at'["idle"] \in Reading \cup Closing \cup {"parsed", "failed"}
      /\ at'["main"] \in Closing \cup {"off", "done"}
  BY <1>2, <1>3, ShutdownVerdict DEF ClosesOnly
<1>5. Data'
  BY <1>1, SameData DEF ClosesOnly
<1>6. PoolType' /\ Parts'
  BY <1>1, <1>2, <1>4, CookerType DEF PoolType, Parts, ClosesOnly
<1> QED
  BY <1>4, <1>5, <1>6 DEF PoolInv

LEMMA CheckKeeps ==
  ASSUME PlansAssumed, PoolInv, NEW t \in Threads, Check(t)
  PROVE  PoolInv'
<1>1. /\ PoolType /\ at[t] \in Closing /\ ClosesOnly
      /\ UNCHANGED <<pipe, recv, file, signal, quit>>
      /\ IF down THEN Over(t, fails) ELSE GoTo(t, "drain") /\ UNCHANGED <<state, fails>>
  BY DEF PoolInv, Check, NoChild, childVars, ClosesOnly, Closing
<1>2. quit' \in BOOLEAN /\ signal' \in [Parsers -> {"no", "int", "term"}]
  BY <1>1, Zenon DEF PoolType
<1>3. fails' = fails
  BY <1>1 DEF Over
<1>4. PICK place : /\ GoTo(t, place)
                   /\ \/ place = "drain"
                      \/ t = "main" /\ place = "done"
                      \/ t = "idle" /\ place = IF fails' THEN "failed" ELSE "parsed"
  BY <1>1, <1>3 DEF Over, Threads
<1>5. Closes(t, place)
  BY <1>1, <1>3, <1>4, GoesTo DEF Closes, Closing
<1> QED
  BY <1>1, <1>2, <1>3, <1>5, ClosingKeeps

LEMMA TerminatingKeeps ==
  ASSUME PlansAssumed, PoolInv, NEW t \in Threads,
         Quit(t) \/ Interrupt(t) \/ Terminate(t) \/ Join(t)
  PROVE  PoolInv'
<1>1. PoolType
  BY DEF PoolInv
<1>2. ClosesOnly /\ UNCHANGED <<pipe, recv, file, fails>> /\ at[t] \in Closing
  BY DEF Quit, Interrupt, Terminate, Join, FindsNone, NoChild, childVars, poolVars, ClosesOnly,
         Closing
<1>3. quit' \in BOOLEAN
  <2>1. quit' = TRUE \/ quit' = quit
    BY DEF Quit, Interrupt, Terminate, Join, poolVars
  <2> QED
    BY <1>1, <2>1, Zenon DEF PoolType
<1>4. signal' \in [Parsers -> {"no", "int", "term"}]
  <2>0. signal \in [Parsers -> {"no", "int", "term"}]
    BY <1>1 DEF PoolType
  <2>1. CASE Quit(t) \/ Join(t)
    <3>1. UNCHANGED signal
      BY <2>1 DEF Quit, Join, NoChild, childVars
    <3> QED
      BY <2>0, <3>1
  <2>2. CASE Interrupt(t) \/ Terminate(t)
    <3>1. PICK sig \in {"int", "term"} : Sends(sig)
      BY <2>2 DEF Interrupt, Terminate
    <3> QED
      BY <2>0, <3>1 DEF Sends
  <2> QED
    BY <2>1, <2>2
<1>5. at' = at \/ \E place \in Closing : GoTo(t, place)
  BY DEF Quit, Interrupt, Terminate, Join, Closing
<1>6. \E place : Closes(t, place)
  BY <1>1, <1>2, <1>5, GoesTo DEF Closes, PoolType
<1> QED
  BY <1>2, <1>3, <1>4, <1>6, ClosingKeeps

LEMMA DrainKeeps ==
  ASSUME PlansAssumed, PoolInv, NEW t \in Threads, Drain(t)
  PROVE  PoolInv'
<1>1. /\ PoolType /\ Parts /\ Data /\ at[t] \in Closing /\ at' = at
      /\ UNCHANGED <<plan, childVars, quit, procs, parsed, fails>>
      /\ pipe # <<>> /\ pipe' = Tail(pipe)
      /\ (recv = None /\ recv' = t) \/ (recv = t /\ recv' = None)
  BY DEF PoolInv, Drain, Begins, Ends, NoChild, Closing, poolVars
<1>2. t # None
  BY DEF PlansAssumed, Threads
<1>3. recv' = (IF recv = None THEN t ELSE None)
  BY <1>1, <1>2
<1>4. Data' /\ pipe' \in Seq(HalvesOf)
  BY <1>1, <1>3, PopData DEF childVars
<1>5. fails' \in BOOLEAN /\ quit' \in BOOLEAN
  BY <1>1, Zenon DEF PoolType
<1>6. Closes(t, at[t])
  BY <1>1 DEF Closes, PoolType
<1>7. Torn => Torn'
  BY <1>1 DEF Torn, childVars
<1>8. Verdict' /\ ~Calm'
  BY <1>1, <1>5, <1>6, <1>7, ShutdownVerdict DEF childVars
<1>9. PoolType' /\ Parts'
  BY <1>1, <1>4, <1>5, CookerType DEF PoolType, Parts, childVars
<1> QED
  BY <1>4, <1>8, <1>9 DEF PoolInv

\* A file that is half written when nobody writes any more is of a parser that was ended.
LEMMA MergeKeeps ==
  ASSUME PlansAssumed, PoolInv, NEW t \in Threads, Merge(t)
  PROVE  PoolInv'
<1> PICK part : part = (\E p \in Parsers : file[p] = "part")
  OBVIOUS
<1>1. /\ PoolType /\ Parts /\ Data /\ at[t] \in Closing /\ ClosesOnly
      /\ UNCHANGED <<signal, pipe, quit, recv>> /\ \A p \in Parsers : phase[p] # "write"
  BY DEF PoolInv, Merge, ClosesOnly, Closing, poolVars
<1>2. PICK S \in SUBSET {p \in Parsers : file[p] = "whole"} :
        file' = [p \in Parsers |-> IF p \in S THEN "none" ELSE file[p]]
  BY DEF Merge
<1>3. Over(t, fails \/ part)
  <2>1. {p \in Parsers : file[p] = "part"} # {} <=> part
    OBVIOUS
  <2> QED
    BY <2>1 DEF Merge
<1>4. UNCHANGED fails \/ (t = "idle" /\ fails' = (fails \/ part))
  BY <1>3, Zenon DEF Over, Threads
<1>5. fails' \in BOOLEAN /\ quit' \in BOOLEAN
  BY <1>1, <1>4, Zenon DEF PoolType
<1>6. part => Torn
  BY <1>1 DEF Torn, Parts, PoolType
<1>7. \A p \in Parsers : file'[p] = "part" <=> file[p] = "part"
  BY <1>2
<1>8. Torn => Torn'
  BY <1>1, <1>7 DEF Torn, ClosesOnly
<1>9. \E place : Closes(t, place)
  <2>1. PICK place : /\ GoTo(t, place)
                     /\ \/ t = "main" /\ place = "done" /\ fails' = fails
                        \/ t = "idle" /\ place = IF fails' THEN "failed" ELSE "parsed"
    BY <1>3 DEF Over, Threads
  <2> QED
    BY <1>1, <2>1, GoesTo DEF Closes
<1>10. /\ Verdict' /\ ~Calm' /\ DOMAIN at' = Threads
       /\ at'["idle"] \in Reading \cup Closing \cup {"parsed", "failed"}
       /\ at'["main"] \in Closing \cup {"off", "done"}
  BY <1>1, <1>4, <1>5, <1>6, <1>8, <1>9, ShutdownVerdict DEF ClosesOnly
<1>11. Data'
  BY <1>1, SameData DEF ClosesOnly
<1>12. file' \in [Parsers -> {"none", "part", "whole"}]
  BY <1>1, <1>2 DEF PoolType
<1>13. PoolType'
  BY <1>1, <1>5, <1>10, <1>12, CookerType DEF PoolType, ClosesOnly
<1>14. Parts'
  BY <1>1, <1>7 DEF Parts, ClosesOnly
<1> QED
  BY <1>10, <1>11, <1>13, <1>14 DEF PoolInv

-----------------------------------------------------------------------------
(* The theorem                                                             *)

LEMMA PoolKeeps == PlansAssumed /\ PoolInv /\ [ParseNext]_parseVars => PoolInv'
<1> SUFFICES ASSUME PlansAssumed, PoolInv, [ParseNext]_parseVars PROVE PoolInv'
  OBVIOUS
<1>1. CASE \E p \in Parsers : Child(p) \/ Feed(p) \/ Killed(p)
  BY <1>1, ParsingKeeps DEF Parsing
<1>2. CASE Idle
  BY <1>2, RoundKeeps, NextResultKeeps, BeginResultKeeps, EndResultKeeps, NoResultKeeps DEF Idle
<1>3. CASE Stop
  BY <1>3, StopKeeps
<1>4. CASE \E t \in Threads : Shutdown(t)
  BY <1>4, CheckKeeps, DrainKeeps, TerminatingKeeps, MergeKeeps DEF Shutdown
<1>5. CASE UNCHANGED parseVars
  <2>1. /\ PoolType /\ Data /\ Parts /\ Verdict /\ UNCHANGED <<fails, quit>>
    BY <1>5 DEF PoolInv, parseVars, poolVars
  <2>2. fails' \in BOOLEAN /\ quit' \in BOOLEAN
    BY <2>1, Zenon DEF PoolType
  <2>3. PoolType' /\ Parts'
    BY <1>5, <2>1, <2>2, CookerType DEF PoolType, Parts, parseVars, childVars, poolVars
  <2>4. Data' /\ \A x : Somewhere(x) => Somewhere(x)'
    BY <1>5, <2>1, SameData DEF parseVars, childVars
  <2>5. Verdict'
    BY <1>5, <2>1 DEF Verdict, Reason, Torn, AllParsed, ToParse, parseVars, childVars
  <2>6. Calm' => CalmInv'
    BY <1>5, <2>4 DEF PoolInv, Calm, CalmInv, parseVars, childVars, poolVars, ToParse, Gone
  <2> QED
    BY <2>3, <2>4, <2>5, <2>6 DEF PoolInv
<1> QED
  BY <1>1, <1>2, <1>3, <1>4, <1>5 DEF ParseNext

\* The command that needs the recipes goes on only when each of them was parsed and
\* counted once, and none was bad; and it fails only for a reason.
THEOREM ParsingToldTruth == PlansAssumed /\ ParseSpec => []ParsingTellsTruth
<1> SUFFICES ASSUME PlansAssumed PROVE ParseSpec => []ParsingTellsTruth
  OBVIOUS
<1>1. ParseInit => PoolInv
  BY PoolStarts
<1>2. PoolInv /\ [ParseNext]_parseVars => PoolInv'
  BY PoolKeeps
<1>3. PoolInv => ParsingTellsTruth
  BY InvProves
<1> QED
  BY <1>1, <1>2, <1>3, PTL DEF ParseSpec
=============================================================================
