---------------------------- MODULE WorkerProofs ----------------------------
(***************************************************************************)
(* What the worker passes on of a task: its events in order, and the exit  *)
(* code last; and nothing is left out unless somebody is stopped by force. *)
(* For any number of tasks and of events, pipes of any size, and whatever  *)
(* is killed.                                                              *)
(***************************************************************************)
EXTENDS Worker, SequenceTheorems, TLAPS

-----------------------------------------------------------------------------
(* Sequences, and what is true of each two of their elements in order.     *)

Has(s, m) == \E i \in DOMAIN s : s[i] = m
Pairwise(s, R) == \A i, j \in DOMAIN s : i < j => <<s[i], s[j]>> \in R

LEMMA ConcatHas ==
  ASSUME NEW S, NEW a \in Seq(S), NEW b \in Seq(S), NEW m
  PROVE  Has(a \o b, m) <=> Has(a, m) \/ Has(b, m)
<1> DEFINE c == a \o b
<1>1. /\ c \in Seq(S) /\ Len(c) = Len(a) + Len(b)
      /\ \A i \in 1..(Len(a) + Len(b)) : c[i] = IF i <= Len(a) THEN a[i] ELSE b[i - Len(a)]
  BY ConcatProperties
<1>2. /\ Len(a) \in Nat /\ Len(b) \in Nat /\ DOMAIN a = 1..Len(a) /\ DOMAIN b = 1..Len(b)
      /\ DOMAIN c = 1..Len(c)
  BY <1>1, LenProperties
<1> HIDE DEF c
<1>3. ASSUME NEW i \in DOMAIN c PROVE Has(a, c[i]) \/ Has(b, c[i])
  <2>1. CASE i <= Len(a)
    <3>1. i \in DOMAIN a /\ c[i] = a[i]
      BY <1>1, <1>2, <2>1
    <3> QED
      BY <3>1 DEF Has
  <2>2. CASE ~(i <= Len(a))
    <3>1. i - Len(a) \in DOMAIN b /\ c[i] = b[i - Len(a)]
      BY <1>1, <1>2, <2>2
    <3> QED
      BY <3>1 DEF Has
  <2> QED
    BY <2>1, <2>2
<1>4. ASSUME NEW i \in DOMAIN a PROVE i \in DOMAIN c /\ c[i] = a[i]
  BY <1>1, <1>2
<1>5. ASSUME NEW i \in DOMAIN b PROVE i + Len(a) \in DOMAIN c /\ c[i + Len(a)] = b[i]
  BY <1>1, <1>2
<1>6. Has(c, m) <=> Has(a, m) \/ Has(b, m)
  BY <1>3, <1>4, <1>5 DEF Has
<1> QED
  BY <1>6 DEF c

LEMMA ConcatPairwise ==
  ASSUME NEW S, NEW a \in Seq(S), NEW b \in Seq(S), NEW R
  PROVE  Pairwise(a \o b, R) <=> /\ Pairwise(a, R) /\ Pairwise(b, R)
                                 /\ \A m, n : Has(a, m) /\ Has(b, n) => <<m, n>> \in R
<1> DEFINE c == a \o b
<1>1. /\ c \in Seq(S) /\ Len(c) = Len(a) + Len(b)
      /\ \A i \in 1..(Len(a) + Len(b)) : c[i] = IF i <= Len(a) THEN a[i] ELSE b[i - Len(a)]
  BY ConcatProperties
<1>2. /\ Len(a) \in Nat /\ Len(b) \in Nat /\ DOMAIN a = 1..Len(a) /\ DOMAIN b = 1..Len(b)
      /\ DOMAIN c = 1..Len(c)
  BY <1>1, LenProperties
<1> HIDE DEF c
<1>3. ASSUME NEW i \in DOMAIN a PROVE i \in DOMAIN c /\ c[i] = a[i]
  BY <1>1, <1>2
<1>4. ASSUME NEW i \in DOMAIN b PROVE i + Len(a) \in DOMAIN c /\ c[i + Len(a)] = b[i]
  BY <1>1, <1>2
<1>5. ASSUME NEW i \in DOMAIN c
      PROVE  \/ i \in DOMAIN a /\ c[i] = a[i]
             \/ /\ i > Len(a) /\ i - Len(a) \in DOMAIN b /\ c[i] = b[i - Len(a)]
  BY <1>1, <1>2
<1>6. ASSUME Pairwise(c, R)
      PROVE  /\ Pairwise(a, R) /\ Pairwise(b, R)
             /\ \A m, n : Has(a, m) /\ Has(b, n) => <<m, n>> \in R
  <2>1. Pairwise(a, R)
    BY <1>3, <1>6 DEF Pairwise
  <2>2. ASSUME NEW i \in DOMAIN b, NEW j \in DOMAIN b, i < j PROVE <<b[i], b[j]>> \in R
    <3>1. i + Len(a) < j + Len(a)
      BY <1>2, <2>2
    <3> QED
      BY <1>4, <1>6, <3>1 DEF Pairwise
  <2>3. ASSUME NEW i \in DOMAIN a, NEW j \in DOMAIN b PROVE <<a[i], b[j]>> \in R
    <3>1. i < j + Len(a)
      BY <1>2
    <3> QED
      BY <1>3, <1>4, <1>6, <3>1 DEF Pairwise
  <2> QED
    BY <2>1, <2>2, <2>3 DEF Pairwise, Has
<1>7. ASSUME Pairwise(a, R), Pairwise(b, R),
             \A m, n : Has(a, m) /\ Has(b, n) => <<m, n>> \in R
      PROVE  Pairwise(c, R)
  <2> SUFFICES ASSUME NEW i \in DOMAIN c, NEW j \in DOMAIN c, i < j
               PROVE  <<c[i], c[j]>> \in R
    BY DEF Pairwise
  <2>1. CASE j \in DOMAIN a /\ c[j] = a[j]
    <3>1. i \in DOMAIN a
      BY <1>2, <2>1
    <3> QED
      BY <1>3, <1>7, <2>1, <3>1 DEF Pairwise
  <2>2. CASE /\ j > Len(a) /\ j - Len(a) \in DOMAIN b /\ c[j] = b[j - Len(a)]
             /\ i \in DOMAIN a
    BY <1>3, <1>7, <2>2 DEF Has
  <2>3. CASE /\ j > Len(a) /\ j - Len(a) \in DOMAIN b /\ c[j] = b[j - Len(a)]
             /\ i > Len(a) /\ i - Len(a) \in DOMAIN b /\ c[i] = b[i - Len(a)]
    <3>1. i - Len(a) < j - Len(a)
      BY <1>2
    <3> QED
      BY <1>7, <2>3, <3>1 DEF Pairwise
  <2> QED
    BY <1>5, <2>1, <2>2, <2>3
<1> QED
  BY <1>6, <1>7 DEF c

LEMMA OneHas ==
  ASSUME NEW x, NEW m, NEW R
  PROVE  /\ Has(<<x>>, m) <=> m = x
         /\ ~Has(<<>>, m)
         /\ Pairwise(<<x>>, R) /\ Pairwise(<<>>, R)
<1>1. DOMAIN <<x>> = 1..1 /\ <<x>>[1] = x /\ DOMAIN <<>> = {}
  OBVIOUS
<1> QED
  BY <1>1 DEF Has, Pairwise

LEMMA HeadFirst ==
  ASSUME NEW S, NEW s \in Seq(S), s # <<>>
  PROVE  /\ Head(s) \in S /\ Tail(s) \in Seq(S) /\ <<Head(s)>> \in Seq(S)
         /\ s = <<Head(s)>> \o Tail(s)
<1>1. /\ Head(s) \in S /\ Tail(s) \in Seq(S) /\ Len(Tail(s)) = Len(s) - 1
      /\ \A i \in 1..Len(Tail(s)) : Tail(s)[i] = s[i + 1]
  BY HeadTailProperties
<1>2. Head(s) = s[1] /\ Len(s) \in Nat /\ Len(s) # 0
  BY LenProperties, EmptySeq
<1> DEFINE h == <<Head(s)>>
           c == h \o Tail(s)
<1>3. h \in Seq(S) /\ Len(h) = 1 /\ h[1] = Head(s)
  BY <1>1
<1> HIDE DEF h
<1>4. /\ c \in Seq(S) /\ Len(c) = 1 + (Len(s) - 1)
      /\ \A i \in 1..(1 + (Len(s) - 1)) : c[i] = IF i <= 1 THEN h[i] ELSE Tail(s)[i - 1]
  <2>1. /\ c \in Seq(S) /\ Len(c) = Len(h) + Len(Tail(s))
        /\ \A i \in 1..(Len(h) + Len(Tail(s))) :
             c[i] = IF i <= Len(h) THEN h[i] ELSE Tail(s)[i - Len(h)]
    <3>1. h \in Seq(S) /\ Tail(s) \in Seq(S)
      BY <1>1, <1>3
    <3> QED
      BY <3>1, ConcatProperties, Zenon
  <2> QED
    BY <1>1, <1>3, <2>1
<1>5. Len(c) = Len(s)
  BY <1>2, <1>4
<1> HIDE DEF c
<1>6. ASSUME NEW i \in 1..Len(s) PROVE s[i] = c[i]
  <2>1. CASE i = 1
    BY <1>2, <1>3, <1>4, <2>1
  <2>2. CASE i # 1
    <3>1. i \in 1..(1 + (Len(s) - 1)) /\ ~(i <= 1) /\ i - 1 \in 1..Len(Tail(s)) /\ (i - 1) + 1 = i
      BY <1>1, <1>2, <2>2
    <3> QED
      BY <1>1, <1>4, <3>1
  <2> QED
    BY <2>1, <2>2
<1>7. s = c
  BY <1>4, <1>5, <1>6, SeqEqual
<1> QED
  BY <1>1, <1>3, <1>7 DEF c, h

LEMMA AppendOne ==
  ASSUME NEW S, NEW s \in Seq(S), NEW x \in S
  PROVE  Append(s, x) = s \o <<x>> /\ Append(s, x) \in Seq(S) /\ <<x>> \in Seq(S)
OBVIOUS
-----------------------------------------------------------------------------
(* Types, and the two counters of a pipe                                   *)

Messages == Tasks \X (0..Events)

\* No more is taken from a pipe than was written to it, and a task writes events it has.
Counts ==
  \A t \in Tasks : taken[t] <= wrote[t] /\ (stage[t] = "write" => wrote[t] < 2 * Events)

CookerType ==
  /\ cooker \in {"up", "quit", "dead"} /\ writing \in Commands \cup {None}
  /\ todo \subseteq Tasks /\ forced \in BOOLEAN /\ got \in [Tasks -> Seq(0..Events)]
WireType ==
  /\ out \in Seq(Messages) /\ queue \in Seq(Messages)
  /\ stdin \in Seq(Commands) /\ inq \in Seq(Commands)
MainType ==
  /\ table \subseteq Tasks /\ orphans \subseteq Tasks
  /\ ready \subseteq Tasks /\ left \subseteq Tasks
  /\ dying \in BOOLEAN /\ tag \in 1..4 /\ started \in Seq(Tasks)
  /\ worker \in {"select", "items", "pipes", "reap", "signal", "wait", "drain", "join", "dead"}
StageType ==
  /\ stage \in [Tasks -> Alive \cup {"none", "zombie", "gone"}]
  /\ term \in [Tasks -> BOOLEAN]
PipeType ==
  /\ part \in [Tasks -> 0..2]
  /\ wrote \in [Tasks -> 0..(2 * Events)] /\ taken \in [Tasks -> 0..(2 * Events)]

TypeInv == TypeOK /\ Counts

LEMMA TypeParts ==
  /\ TypeOK <=> CookerType /\ WireType /\ MainType /\ StageType /\ PipeType
  /\ TypeOK' <=> CookerType' /\ WireType' /\ MainType' /\ StageType' /\ PipeType'
BY DEF TypeOK, CookerType, WireType, MainType, StageType, PipeType, Messages

LEMMA Halves ==
  ASSUME NEW n \in Nat
  PROVE  /\ n \div 2 \in Nat /\ n % 2 \in {0, 1} /\ n = 2 * (n \div 2) + (n % 2)
OBVIOUS

LEMMA WholeAre ==
  ASSUME PipeType, NEW t \in Tasks, taken[t] <= wrote[t]
  PROVE  /\ Seen(t) \in Nat /\ Fired(t) \in Nat /\ Seen(t) <= Fired(t) /\ Fired(t) <= Events
         /\ taken[t] = wrote[t] => Seen(t) = Fired(t)
         /\ WholeEvents(t) \in Seq(Messages)
         /\ \A m : Has(WholeEvents(t), m) <=> \E n \in (Seen(t) + 1)..Fired(t) : m = <<t, n>>
         /\ Pairwise(WholeEvents(t), {p \in Messages \X Messages : Precedes(p[1], p[2])})
<1>1. /\ wrote[t] \in Nat /\ taken[t] \in Nat /\ wrote[t] <= 2 * Events /\ Events \in Nat
  BY WorkerAssumption DEF PipeType
<1> DEFINE w == Fired(t)
           s == Seen(t)
           d == w - s
           e == WholeEvents(t)
<1>2. /\ s \in Nat /\ w \in Nat /\ s <= w /\ w <= Events
      /\ taken[t] = wrote[t] => s = w
  BY <1>1, Halves DEF Fired, Seen
<1>3. e = [i \in 1..d |-> <<t, s + i>>]
  BY DEF WholeEvents
<1> HIDE DEF w, s, e
<1>4. \A i \in 1..d : s + i \in (s + 1)..w /\ s + i \in 1..Events /\ <<t, s + i>> \in Messages
  BY <1>1, <1>2 DEF Messages
<1>5. d \in Nat /\ e \in Seq(Messages) /\ DOMAIN e = 1..d
  <2>1. d \in Nat
    BY <1>2
  <2>2. e \in [1..d -> Messages]
    BY <1>3, <1>4, Zenon
  <2> QED
    BY <2>1, <2>2
<1>6. \A m : Has(e, m) <=> \E n \in (s + 1)..w : m = <<t, n>>
  <2> TAKE m
  <2>1. ASSUME NEW n \in (s + 1)..w, m = <<t, n>> PROVE Has(e, m)
    <3>1. n - s \in 1..d /\ s + (n - s) = n
      BY <1>2, <2>1
    <3>2. e[n - s] = m
      BY <1>3, <2>1, <3>1
    <3> QED
      BY <1>5, <3>1, <3>2 DEF Has
  <2>2. ASSUME NEW i \in DOMAIN e, e[i] = m PROVE \E n \in (s + 1)..w : m = <<t, n>>
    BY <1>3, <1>4, <1>5, <2>2
  <2> QED
    BY <2>1, <2>2 DEF Has
<1>7. ASSUME NEW i \in 1..d, NEW j \in 1..d, i < j
      PROVE  <<e[i], e[j]>> \in {p \in Messages \X Messages : Precedes(p[1], p[2])}
  <2>1. e[i] = <<t, s + i>> /\ e[j] = <<t, s + j>> /\ s + i # 0 /\ s + i < s + j
    BY <1>2, <1>3, <1>7
  <2> QED
    BY <1>4, <2>1 DEF Precedes, Exit
<1>8. Pairwise(e, {p \in Messages \X Messages : Precedes(p[1], p[2])})
  BY <1>5, <1>7 DEF Pairwise
<1> QED
  BY <1>2, <1>5, <1>6, <1>8 DEF s, w, e

LEMMA RunTaskType ==
  ASSUME TypeInv, RunTask
  PROVE  TypeInv'
<1>1. UNCHANGED <<out, queue, stdin, inq, mainVars, stage, term, part, wrote, taken>>
  BY DEF RunTask, Writes, Rest, cookerVars, mainVars, childVars
<1>2. WireType' /\ MainType' /\ StageType' /\ PipeType' /\ Counts'
  BY <1>1, TypeParts DEF TypeInv, WireType, MainType, StageType, PipeType, Counts, mainVars
<1>3. CookerType'
  BY TypeParts DEF TypeInv, CookerType, RunTask, Writes, Rest, cookerVars, Commands
<1> QED
  BY <1>2, <1>3, TypeParts DEF TypeInv

LEMMA FinishNowType ==
  ASSUME TypeInv, FinishNow
  PROVE  TypeInv'
<1>1. UNCHANGED <<out, queue, stdin, inq, mainVars, stage, term, part, wrote, taken>>
  BY DEF FinishNow, Writes, Rest, cookerVars, mainVars, childVars
<1>2. WireType' /\ MainType' /\ StageType' /\ PipeType' /\ Counts'
  BY <1>1, TypeParts DEF TypeInv, WireType, MainType, StageType, PipeType, Counts, mainVars
<1>3. CookerType'
  BY TypeParts DEF TypeInv, CookerType, FinishNow, Writes, Rest, cookerVars, Commands
<1> QED
  BY <1>2, <1>3, TypeParts DEF TypeInv

LEMMA QuitType ==
  ASSUME TypeInv, Quit
  PROVE  TypeInv'
<1>1. UNCHANGED <<out, queue, stdin, inq, mainVars, stage, term, part, wrote, taken>>
  BY DEF Quit, Writes, Rest, cookerVars, mainVars, childVars
<1>2. WireType' /\ MainType' /\ StageType' /\ PipeType' /\ Counts'
  BY <1>1, TypeParts DEF TypeInv, WireType, MainType, StageType, PipeType, Counts, mainVars
<1>3. CookerType'
  BY TypeParts DEF TypeInv, CookerType, Quit, Writes, Rest, cookerVars, Commands
<1> QED
  BY <1>2, <1>3, TypeParts DEF TypeInv

LEMMA WrittenType ==
  ASSUME TypeInv, Written
  PROVE  TypeInv'
<1>1. UNCHANGED <<mainVars, stage, term, part, wrote, taken>>
  BY DEF Written, cookerVars, mainVars, childVars
<1>2. MainType' /\ StageType' /\ PipeType' /\ Counts'
  BY <1>1, TypeParts DEF TypeInv, MainType, StageType, PipeType, Counts, mainVars
<1>3. CookerType'
  BY TypeParts DEF TypeInv, CookerType, Written, cookerVars, Commands
<1>4. WireType'
  <2>1. writing \in Commands /\ stdin \in Seq(Commands)
    BY TypeParts DEF TypeInv, CookerType, WireType, Written
  <2>2. stdin' \in Seq(Commands)
    BY <2>1, AppendOne DEF Written
  <2>3. UNCHANGED <<out, queue, inq>>
    BY DEF Written, mainVars
  <2> QED
    BY <2>2, <2>3, TypeParts DEF TypeInv, WireType
<1> QED
  BY <1>2, <1>3, <1>4, TypeParts DEF TypeInv

LEMMA ReadType ==
  ASSUME TypeInv, Read
  PROVE  TypeInv'
<1>1. UNCHANGED <<mainVars, stage, term, part, wrote, taken>>
  BY DEF Read, cookerVars, mainVars, childVars
<1>2. MainType' /\ StageType' /\ PipeType' /\ Counts'
  BY <1>1, TypeParts DEF TypeInv, MainType, StageType, PipeType, Counts, mainVars
<1>3. CookerType'
  <2>1. Head(out) \in Messages /\ got \in [Tasks -> Seq(0..Events)]
    BY TypeParts, HeadFirst DEF TypeInv, CookerType, WireType, Read
  <2>2. PICK t \in Tasks, n \in 0..Events : Head(out) = <<t, n>>
    BY <2>1 DEF Messages
  <2>3. got' = [got EXCEPT ![t] = Append(@, n)]
    <3>1. got' = [got EXCEPT ![Head(out)[1]] = Append(@, Head(out)[2])]
      BY DEF Read
    <3>2. Head(out)[1] = t /\ Head(out)[2] = n
      BY <2>2
    <3> QED
      BY <3>1, <3>2
  <2>4. Append(got[t], n) \in Seq(0..Events)
    BY <2>1, AppendOne
  <2>5. got' \in [Tasks -> Seq(0..Events)]
    BY <2>1, <2>3, <2>4
  <2>6. UNCHANGED <<cooker, writing, todo, forced>>
    BY DEF Read
  <2> QED
    BY <2>5, <2>6, TypeParts DEF TypeInv, CookerType
<1>4. WireType'
  BY TypeParts, HeadFirst DEF TypeInv, WireType, Read, mainVars
<1> QED
  BY <1>2, <1>3, <1>4, TypeParts DEF TypeInv

LEMMA CookerKilledType ==
  ASSUME TypeInv, CookerKilled
  PROVE  TypeInv'
<1>1. UNCHANGED <<out, queue, stdin, inq, mainVars, stage, term, part, wrote, taken>>
  BY DEF CookerKilled, Rest, cookerVars, mainVars, childVars
<1>2. WireType' /\ MainType' /\ StageType' /\ PipeType' /\ Counts'
  BY <1>1, TypeParts DEF TypeInv, WireType, MainType, StageType, PipeType, Counts, mainVars
<1>3. CookerType'
  BY TypeParts DEF TypeInv, CookerType, CookerKilled, Rest, cookerVars, Commands
<1> QED
  BY <1>2, <1>3, TypeParts DEF TypeInv

LEMMA SelectType ==
  ASSUME TypeInv, Select
  PROVE  TypeInv'
<1>1. UNCHANGED <<cookerVars, stage, term, part, wrote, taken>>
  BY DEF Select, Outside, Goes, Finishing, cookerVars, mainVars, childVars
<1>2. CookerType' /\ StageType' /\ PipeType' /\ Counts'
  BY <1>1, TypeParts DEF TypeInv, CookerType, StageType, PipeType, Counts, cookerVars
<1>3. WireType'
  <2>1. /\ UNCHANGED <<out, queue>>
        /\ \/ inq' = inq \o stdin /\ stdin' = <<>>
           \/ UNCHANGED <<inq, stdin>>
    BY DEF Select, Outside
  <2>2. stdin \in Seq(Commands) /\ inq \in Seq(Commands)
    BY TypeParts DEF TypeInv, WireType
  <2>3. inq \o stdin \in Seq(Commands) /\ <<>> \in Seq(Commands)
    BY <2>2, ConcatProperties, EmptySeq
  <2> QED
    BY <2>1, <2>2, <2>3, TypeParts DEF TypeInv, WireType
<1>4. MainType'
  <2>1. /\ tag' = 1 /\ UNCHANGED <<table, orphans, started>>
        /\ ready' \subseteq table
        /\ left' = table \/ left' = left
        /\ worker' \in {"items", "signal"}
    BY DEF Select, Outside, Goes, Finishing
  <2>2. MainType
    BY TypeParts DEF TypeInv
  <2>3. dying' \in BOOLEAN
    BY <2>2 DEF Select, Finishing, MainType
  <2>4. tag' \in 1..4
    BY <2>1
  <2> QED
    BY <2>1, <2>2, <2>3, <2>4 DEF MainType
<1> QED
  BY <1>2, <1>3, <1>4, TypeParts DEF TypeInv

LEMMA HandleRunTaskType ==
  ASSUME TypeInv, NEW t \in Tasks, HandleRunTask(t)
  PROVE  TypeInv'
<1>1. UNCHANGED <<cookerVars, part, wrote, taken>>
  BY DEF HandleRunTask, Handles, Due, Outside, Kind, cookerVars, mainVars, childVars
<1>2. CookerType' /\ PipeType'
  BY <1>1, TypeParts DEF TypeInv, CookerType, PipeType, cookerVars
<1>3. WireType'
  BY TypeParts, HeadFirst DEF TypeInv, WireType, HandleRunTask, Handles, Due, Outside, Kind, mainVars
<1>4. MainType'
  <2>1. /\ tag' = Kind(t) + 1 /\ Kind(t) = 1 /\ UNCHANGED <<orphans, ready, left, dying, worker>>
        /\ table' = table \cup {t} /\ started' = Append(started, t)
    BY WorkerAssumption DEF HandleRunTask, Handles, Outside, Kind
  <2>2. started' \in Seq(Tasks)
    BY <2>1, TypeParts, AppendOne DEF TypeInv, MainType
  <2> QED
    BY <2>1, <2>2, TypeParts DEF TypeInv, MainType
<1>5. StageType'
  BY TypeParts DEF TypeInv, StageType, HandleRunTask, Handles, Due, Outside, Kind, childVars, Alive, Grouped
<1>6. Counts'
  BY TypeParts DEF TypeInv, Counts, StageType, HandleRunTask, Handles, Due, Outside, Kind, childVars
<1> QED
  BY <1>2, <1>3, <1>4, <1>5, <1>6, TypeParts DEF TypeInv

LEMMA HandleFinishNowType ==
  ASSUME TypeInv, HandleFinishNow
  PROVE  TypeInv'
<1>1. UNCHANGED <<cookerVars, stage, term, part, wrote, taken>>
  BY DEF HandleFinishNow, Handles, Due, Outside, Kind, Finishing, Goes, cookerVars, mainVars, childVars
<1>2. CookerType' /\ StageType' /\ PipeType' /\ Counts'
  BY <1>1, TypeParts DEF TypeInv, CookerType, StageType, PipeType, Counts, cookerVars
<1>3. WireType'
  BY TypeParts, HeadFirst DEF TypeInv, WireType, HandleFinishNow, Handles, Due, Outside, Kind, Finishing, Goes, mainVars
<1>4. MainType'
  <2>1. /\ tag' = 3 /\ UNCHANGED <<table, orphans, started, ready>>
        /\ left' = table /\ dying' = FALSE /\ worker' = "signal"
    BY DEF HandleFinishNow, Handles, Outside, Kind, Finishing, Goes
  <2>2. MainType
    BY TypeParts DEF TypeInv
  <2>3. tag' \in 1..4
    BY <2>1
  <2>4. dying' \in BOOLEAN
    BY <2>1, Zenon
  <2> QED
    BY <2>1, <2>2, <2>3, <2>4 DEF MainType
<1> QED
  BY <1>2, <1>3, <1>4, TypeParts DEF TypeInv

LEMMA HandleQuitType ==
  ASSUME TypeInv, HandleQuit
  PROVE  TypeInv'
<1>1. UNCHANGED <<cookerVars, stage, term, part, wrote, taken>>
  BY DEF HandleQuit, Handles, Due, Outside, Kind, Goes, cookerVars, mainVars, childVars
<1>2. CookerType' /\ StageType' /\ PipeType' /\ Counts'
  BY <1>1, TypeParts DEF TypeInv, CookerType, StageType, PipeType, Counts, cookerVars
<1>3. WireType'
  BY TypeParts, HeadFirst DEF TypeInv, WireType, HandleQuit, Handles, Due, Outside, Kind, Goes, mainVars
<1>4. MainType'
  <2>1. /\ tag' = 4 /\ UNCHANGED <<table, orphans, started, ready, left, dying>>
        /\ worker' = "join"
    BY DEF HandleQuit, Handles, Outside, Kind, Goes
  <2> QED
    BY <2>1, TypeParts DEF TypeInv, MainType
<1> QED
  BY <1>2, <1>3, <1>4, TypeParts DEF TypeInv

LEMMA ItemsDoneType ==
  ASSUME TypeInv, ItemsDone
  PROVE  TypeInv'
<1>1. UNCHANGED <<cookerVars, out, queue, stdin, inq, stage, term, part, wrote, taken>>
  BY DEF ItemsDone, Outside, Goes, cookerVars, mainVars, childVars
<1>2. CookerType' /\ WireType' /\ StageType' /\ PipeType' /\ Counts'
  BY <1>1, TypeParts DEF TypeInv, CookerType, WireType, StageType, PipeType, Counts, cookerVars
<1>3. MainType'
  BY TypeParts DEF TypeInv, MainType, ItemsDone, Outside, Goes, mainVars
<1> QED
  BY <1>2, <1>3, TypeParts DEF TypeInv

LEMMA PipesDoneType ==
  ASSUME TypeInv, PipesDone
  PROVE  TypeInv'
<1>1. UNCHANGED <<cookerVars, out, queue, stdin, inq, stage, term, part, wrote, taken>>
  BY DEF PipesDone, Outside, Goes, cookerVars, mainVars, childVars
<1>2. CookerType' /\ WireType' /\ StageType' /\ PipeType' /\ Counts'
  BY <1>1, TypeParts DEF TypeInv, CookerType, WireType, StageType, PipeType, Counts, cookerVars
<1>3. MainType'
  BY TypeParts DEF TypeInv, MainType, PipesDone, Outside, Goes, mainVars
<1> QED
  BY <1>2, <1>3, TypeParts DEF TypeInv

LEMMA ReapedType ==
  ASSUME TypeInv, Reaped
  PROVE  TypeInv'
<1>1. UNCHANGED <<cookerVars, out, queue, stdin, inq, stage, term, part, wrote, taken>>
  BY DEF Reaped, Outside, Goes, cookerVars, mainVars, childVars
<1>2. CookerType' /\ WireType' /\ StageType' /\ PipeType' /\ Counts'
  BY <1>1, TypeParts DEF TypeInv, CookerType, WireType, StageType, PipeType, Counts, cookerVars
<1>3. MainType'
  BY TypeParts DEF TypeInv, MainType, Reaped, Outside, Goes, mainVars
<1> QED
  BY <1>2, <1>3, TypeParts DEF TypeInv

LEMMA SignalNextType ==
  ASSUME TypeInv, NEW t \in Tasks, SignalNext(t)
  PROVE  TypeInv'
<1>1. UNCHANGED <<cookerVars, out, queue, stdin, inq, part, wrote, taken, stage>>
  BY DEF SignalNext, Outside, Goes, Turn, cookerVars, mainVars, childVars
<1>2. CookerType' /\ WireType' /\ PipeType' /\ Counts'
  BY <1>1, TypeParts DEF TypeInv, CookerType, WireType, PipeType, Counts, cookerVars
<1>3. MainType'
  BY TypeParts DEF TypeInv, MainType, SignalNext, Outside, Goes, Turn, mainVars
<1>4. StageType'
  BY TypeParts DEF TypeInv, StageType, SignalNext, Outside, Goes, Turn, childVars, Alive, Grouped
<1> QED
  BY <1>2, <1>3, <1>4, TypeParts DEF TypeInv

LEMMA WaitAnyType ==
  ASSUME TypeInv, NEW t \in Tasks, WaitAny(t)
  PROVE  TypeInv'
<1>1. UNCHANGED <<cookerVars, out, queue, stdin, inq, part, wrote, taken>>
  BY DEF WaitAny, Outside, Goes, cookerVars, mainVars, childVars
<1>2. CookerType' /\ WireType' /\ PipeType'
  BY <1>1, TypeParts DEF TypeInv, CookerType, WireType, PipeType, cookerVars
<1>3. MainType'
  BY TypeParts DEF TypeInv, MainType, WaitAny, Outside, Goes, mainVars
<1>4. StageType'
  BY TypeParts DEF TypeInv, StageType, WaitAny, Outside, Goes, childVars, Alive, Grouped
<1>5. Counts'
  BY TypeParts DEF TypeInv, Counts, StageType, WaitAny, Outside, Goes, childVars
<1> QED
  BY <1>2, <1>3, <1>4, <1>5, TypeParts DEF TypeInv

LEMMA SignalsDoneType ==
  ASSUME TypeInv, SignalsDone
  PROVE  TypeInv'
<1>1. UNCHANGED <<cookerVars, out, queue, stdin, inq, stage, term, part, wrote, taken>>
  BY DEF SignalsDone, Outside, Goes, cookerVars, mainVars, childVars
<1>2. CookerType' /\ WireType' /\ StageType' /\ PipeType' /\ Counts'
  BY <1>1, TypeParts DEF TypeInv, CookerType, WireType, StageType, PipeType, Counts, cookerVars
<1>3. MainType'
  BY TypeParts DEF TypeInv, MainType, SignalsDone, Outside, Goes, mainVars
<1> QED
  BY <1>2, <1>3, TypeParts DEF TypeInv

LEMMA FinishedType ==
  ASSUME TypeInv, Finished
  PROVE  TypeInv'
<1>1. UNCHANGED <<cookerVars, out, queue, stdin, inq, part, wrote, taken, stage>>
  BY DEF Finished, Dies, Untied, Goes, cookerVars, mainVars, childVars
<1>2. CookerType' /\ WireType' /\ PipeType' /\ Counts'
  BY <1>1, TypeParts DEF TypeInv, CookerType, WireType, PipeType, Counts, cookerVars
<1>3. MainType'
  BY TypeParts DEF TypeInv, MainType, Finished, Dies, Untied, Goes, mainVars
<1>4. StageType'
  BY TypeParts DEF TypeInv, StageType, Finished, Dies, Untied, Goes, childVars, Alive, Grouped
<1> QED
  BY <1>2, <1>3, <1>4, TypeParts DEF TypeInv

LEMMA JoinType ==
  ASSUME TypeInv, Join
  PROVE  TypeInv'
<1>1. UNCHANGED <<cookerVars, out, queue, stdin, inq, part, wrote, taken, stage>>
  BY DEF Join, Dies, Untied, Goes, cookerVars, mainVars, childVars
<1>2. CookerType' /\ WireType' /\ PipeType' /\ Counts'
  BY <1>1, TypeParts DEF TypeInv, CookerType, WireType, PipeType, Counts, cookerVars
<1>3. MainType'
  BY TypeParts DEF TypeInv, MainType, Join, Dies, Untied, Goes, mainVars
<1>4. StageType'
  BY TypeParts DEF TypeInv, StageType, Join, Dies, Untied, Goes, childVars, Alive, Grouped
<1> QED
  BY <1>2, <1>3, <1>4, TypeParts DEF TypeInv

LEMMA WorkerKilledType ==
  ASSUME TypeInv, WorkerKilled
  PROVE  TypeInv'
<1>1. UNCHANGED <<cookerVars, out, queue, stdin, inq, part, wrote, taken, stage>>
  BY DEF WorkerKilled, Dies, Untied, Goes, cookerVars, mainVars, childVars
<1>2. CookerType' /\ WireType' /\ PipeType' /\ Counts'
  BY <1>1, TypeParts DEF TypeInv, CookerType, WireType, PipeType, Counts, cookerVars
<1>3. MainType'
  BY TypeParts DEF TypeInv, MainType, WorkerKilled, Dies, Untied, Goes, mainVars
<1>4. StageType'
  BY TypeParts DEF TypeInv, StageType, WorkerKilled, Dies, Untied, Goes, childVars, Alive, Grouped
<1> QED
  BY <1>2, <1>3, <1>4, TypeParts DEF TypeInv

LEMMA FlushType ==
  ASSUME TypeInv, Flush
  PROVE  TypeInv'
<1>1. UNCHANGED <<cookerVars, mainVars, stage, term, part, wrote, taken>>
  BY DEF Flush, cookerVars, mainVars, childVars
<1>2. CookerType' /\ MainType' /\ StageType' /\ PipeType' /\ Counts'
  BY <1>1, TypeParts DEF TypeInv, CookerType, MainType, StageType, PipeType, Counts, cookerVars, mainVars
<1>3. WireType'
  <2>1. out \in Seq(Messages) /\ queue \in Seq(Messages) /\ queue # <<>>
    BY TypeParts DEF TypeInv, WireType, Flush
  <2>2. out' \in Seq(Messages) /\ queue' \in Seq(Messages)
    BY <2>1, HeadFirst, AppendOne DEF Flush
  <2>3. UNCHANGED <<stdin, inq>>
    BY DEF Flush, mainVars
  <2> QED
    BY <2>2, <2>3, TypeParts DEF TypeInv, WireType
<1> QED
  BY <1>2, <1>3, TypeParts DEF TypeInv

LEMMA BootType ==
  ASSUME TypeInv, NEW t \in Tasks, Boot(t)
  PROVE  TypeInv'
<1>1. UNCHANGED <<cookerVars, out, queue, stdin, inq, mainVars, part, wrote, taken>>
  BY DEF Boot, Becomes, Elsewhere, cookerVars, mainVars, childVars
<1>2. CookerType' /\ WireType' /\ MainType' /\ PipeType'
  BY <1>1, TypeParts DEF TypeInv, CookerType, WireType, MainType, PipeType, cookerVars, mainVars
<1>3. StageType'
  BY TypeParts DEF TypeInv, StageType, Boot, Becomes, Elsewhere, childVars, Alive, Grouped
<1>4. Counts'
  BY TypeParts DEF TypeInv, Counts, StageType, Boot, Becomes, Elsewhere, childVars
<1> QED
  BY <1>2, <1>3, <1>4, TypeParts DEF TypeInv

LEMMA FireType ==
  ASSUME TypeInv, NEW t \in Tasks, Fire(t)
  PROVE  TypeInv'
<1>1. UNCHANGED <<cookerVars, out, queue, stdin, inq, mainVars, part, wrote, taken>>
  BY DEF Fire, Becomes, Elsewhere, cookerVars, mainVars, childVars
<1>2. CookerType' /\ WireType' /\ MainType' /\ PipeType'
  BY <1>1, TypeParts DEF TypeInv, CookerType, WireType, MainType, PipeType, cookerVars, mainVars
<1>3. StageType'
  BY TypeParts DEF TypeInv, StageType, Fire, Becomes, Elsewhere, childVars, Alive, Grouped
<1>4. Counts'
  <2>1. /\ UNCHANGED <<wrote, taken>> /\ stage' = [stage EXCEPT ![t] = "write"] /\ Fired(t) < Events
        /\ stage \in [Tasks -> Alive \cup {"none", "zombie", "gone"}]
    BY TypeParts DEF Fire, Becomes, TypeInv, StageType
  <2>2. wrote[t] \in Nat /\ Events \in Nat
    BY TypeParts, WorkerAssumption DEF TypeInv, PipeType
  <2>3. wrote[t] < 2 * Events
    BY <2>1, <2>2, Halves DEF Fired
  <2> QED
    BY <2>1, <2>3 DEF TypeInv, Counts
<1> QED
  BY <1>2, <1>3, <1>4, TypeParts DEF TypeInv

LEMMA EndType ==
  ASSUME TypeInv, NEW t \in Tasks, End(t)
  PROVE  TypeInv'
<1>1. UNCHANGED <<cookerVars, out, queue, stdin, inq, mainVars, part, wrote, taken>>
  BY DEF End, Becomes, Elsewhere, cookerVars, mainVars, childVars
<1>2. CookerType' /\ WireType' /\ MainType' /\ PipeType'
  BY <1>1, TypeParts DEF TypeInv, CookerType, WireType, MainType, PipeType, cookerVars, mainVars
<1>3. StageType'
  BY TypeParts DEF TypeInv, StageType, End, Becomes, Elsewhere, childVars, Alive, Grouped
<1>4. Counts'
  BY TypeParts DEF TypeInv, Counts, StageType, End, Becomes, Elsewhere, childVars
<1> QED
  BY <1>2, <1>3, <1>4, TypeParts DEF TypeInv

LEMMA TaskKilledType ==
  ASSUME TypeInv, NEW t \in Tasks, TaskKilled(t)
  PROVE  TypeInv'
<1>1. UNCHANGED <<cookerVars, out, queue, stdin, inq, mainVars, part, wrote, taken>>
  BY DEF TaskKilled, Becomes, Elsewhere, cookerVars, mainVars, childVars
<1>2. CookerType' /\ WireType' /\ MainType' /\ PipeType'
  BY <1>1, TypeParts DEF TypeInv, CookerType, WireType, MainType, PipeType, cookerVars, mainVars
<1>3. StageType'
  BY TypeParts DEF TypeInv, StageType, TaskKilled, Becomes, Elsewhere, childVars, Alive, Grouped
<1>4. Counts'
  BY TypeParts DEF TypeInv, Counts, StageType, TaskKilled, Becomes, Elsewhere, childVars
<1> QED
  BY <1>2, <1>3, <1>4, TypeParts DEF TypeInv

LEMMA TerminatedType ==
  ASSUME TypeInv, NEW t \in Tasks, Terminated(t)
  PROVE  TypeInv'
<1>1. UNCHANGED <<cookerVars, out, queue, stdin, inq, mainVars>>
  BY DEF Terminated, Becomes, Elsewhere, cookerVars, mainVars, childVars
<1>2. CookerType' /\ WireType' /\ MainType'
  BY <1>1, TypeParts DEF TypeInv, CookerType, WireType, MainType, cookerVars, mainVars
<1>3. StageType'
  BY TypeParts DEF TypeInv, StageType, Terminated, Becomes, Elsewhere, childVars, Alive, Grouped
<1>4. PipeType'
  <2>1. /\ UNCHANGED <<wrote, part>>
        /\ \/ UNCHANGED taken
           \/ taken' = [u \in Tasks |-> IF u \in Before(t) THEN wrote[u] ELSE taken[u]]
    BY DEF Terminated, Elsewhere
  <2>2. PipeType
    BY TypeParts DEF TypeInv
  <2>3. taken' \in [Tasks -> 0..(2 * Events)]
    BY <2>1, <2>2 DEF PipeType
  <2> QED
    BY <2>1, <2>2, <2>3 DEF PipeType
<1>5. Counts'
  <2>1. /\ wrote' = wrote /\ stage' = [stage EXCEPT ![t] = "zombie"]
        /\ \/ UNCHANGED taken
           \/ taken' = [u \in Tasks |-> IF u \in Before(t) THEN wrote[u] ELSE taken[u]]
    BY DEF Terminated, Becomes, Elsewhere
  <2>2. /\ PipeType /\ Counts
        /\ stage \in [Tasks -> Alive \cup {"none", "zombie", "gone"}]
    BY TypeParts DEF TypeInv, StageType
  <2>3. \A u \in Tasks : taken'[u] <= wrote[u] /\ (stage'[u] = "write" => stage[u] = "write")
    BY <2>1, <2>2 DEF PipeType, Counts
  <2> QED
    BY <2>1, <2>2, <2>3 DEF Counts
<1> QED
  BY <1>2, <1>3, <1>4, <1>5, TypeParts DEF TypeInv

\* Reading a pipe: of the fields of a task, only what was taken and the first half change.
LEMMA ReadPipeType ==
  ASSUME TypeInv, NEW t \in Tasks, NEW then \in Seq(Messages), ReadPipe(t, then)
  PROVE  /\ queue' \in Seq(Messages) /\ part' \in [Tasks -> 0..2]
         /\ taken' \in [Tasks -> 0..(2 * Events)] /\ \A u \in Tasks : taken'[u] <= wrote[u]
         /\ worker' = worker \/ worker' = "join"
<1>1. PipeType /\ Counts /\ queue \in Seq(Messages)
  BY TypeParts DEF TypeInv, WireType
<1>2. CASE Garbled(t)
  <2>1. worker' = "join" /\ UNCHANGED <<queue, taken, part>>
    BY <1>2 DEF ReadPipe, Goes
  <2> QED
    BY <1>1, <2>1 DEF PipeType, Counts
<1>3. CASE ~Garbled(t)
  <2> DEFINE p == IF Seen(t) < Fired(t) THEN wrote[t] % 2
                  ELSE IF taken[t] < wrote[t] /\ part[t] < 2 THEN part[t] + 1 ELSE part[t]
  <2>1. /\ queue' = queue \o WholeEvents(t) \o then /\ UNCHANGED worker
        /\ taken' = [taken EXCEPT ![t] = wrote[t]]
        /\ part' = [part EXCEPT ![t] = p]
    BY <1>3 DEF ReadPipe
  <2>2. queue' \in Seq(Messages)
    <3>1. WholeEvents(t) \in Seq(Messages)
      BY <1>1, WholeAre DEF Counts
    <3>2. queue \o WholeEvents(t) \in Seq(Messages)
      BY <1>1, <3>1, ConcatProperties
    <3> QED
      BY <2>1, <3>2, ConcatProperties
  <2>3. p \in 0..2
    <3>1. wrote[t] \in Nat /\ part[t] \in 0..2
      BY <1>1 DEF PipeType
    <3>2. wrote[t] % 2 \in {0, 1}
      BY <3>1, Halves
    <3> QED
      BY <3>1, <3>2
  <2> HIDE DEF p
  <2>4. part' \in [Tasks -> 0..2]
    BY <1>1, <2>1, <2>3 DEF PipeType
  <2>5. wrote[t] \in 0..(2 * Events) /\ wrote[t] <= wrote[t]
    BY <1>1 DEF PipeType
  <2>6. taken' \in [Tasks -> 0..(2 * Events)] /\ \A u \in Tasks : taken'[u] <= wrote[u]
    BY <1>1, <2>1, <2>5 DEF PipeType, Counts
  <2> QED
    BY <2>1, <2>2, <2>4, <2>6
<1> QED
  BY <1>2, <1>3

LEMMA PipesType ==
  ASSUME TypeInv, NEW t \in Tasks, Pipes(t) \/ DrainNext(t)
  PROVE  TypeInv'
<1>1. ReadPipe(t, <<>>) /\ <<>> \in Seq(Messages)
  BY EmptySeq DEF Pipes, DrainNext
<1>2. /\ UNCHANGED <<cookerVars, out, stdin, inq, stage, term, wrote>>
      /\ UNCHANGED <<table, orphans, dying, tag, started>>
      /\ ready' \subseteq ready /\ left' \subseteq left
  BY DEF Pipes, DrainNext, Outside
<1>3. CookerType' /\ WireType' /\ StageType'
  BY <1>1, <1>2, ReadPipeType, TypeParts DEF TypeInv, CookerType, WireType, StageType, cookerVars
<1>4. PipeType'
  BY <1>1, <1>2, ReadPipeType, TypeParts DEF TypeInv, PipeType
<1>5. Counts'
  BY <1>1, <1>2, ReadPipeType, TypeParts DEF TypeInv, Counts
<1>6. MainType'
  BY <1>1, <1>2, ReadPipeType, TypeParts DEF TypeInv, MainType
<1> QED
  BY <1>3, <1>4, <1>5, <1>6, TypeParts DEF TypeInv

LEMMA ReapType ==
  ASSUME TypeInv, NEW t \in Tasks, Reap(t)
  PROVE  TypeInv'
<1>1. <<<<t, Exit>>>> \in Seq(Messages)
  <2>1. <<t, Exit>> \in Messages
    BY WorkerAssumption DEF Messages, Exit
  <2> QED
    BY <2>1
<1>2. ReadPipe(t, <<<<t, Exit>>>>)
  BY DEF Reap
<1>3. /\ UNCHANGED <<cookerVars, out, stdin, inq, term, wrote>>
      /\ UNCHANGED <<ready, left, orphans, dying, tag, started>>
      /\ table' \subseteq table /\ stage' = [stage EXCEPT ![t] = "gone"]
  BY DEF Reap, Outside
<1>4. CookerType' /\ WireType'
  BY <1>1, <1>2, <1>3, ReadPipeType, TypeParts DEF TypeInv, CookerType, WireType, cookerVars
<1>5. PipeType'
  BY <1>1, <1>2, <1>3, ReadPipeType, TypeParts DEF TypeInv, PipeType
<1>6. StageType'
  BY <1>3, TypeParts DEF TypeInv, StageType
<1>7. \A u \in Tasks : stage'[u] = "write" => stage[u] = "write"
  BY <1>3, TypeParts DEF TypeInv, StageType
<1>8. Counts'
  BY <1>1, <1>2, <1>3, <1>7, ReadPipeType, TypeParts DEF TypeInv, Counts
<1>9. MainType'
  BY <1>1, <1>2, <1>3, ReadPipeType, TypeParts DEF TypeInv, MainType
<1> QED
  BY <1>4, <1>5, <1>6, <1>8, <1>9, TypeParts DEF TypeInv

LEMMA WriteHalfType ==
  ASSUME TypeInv, NEW t \in Tasks, WriteHalf(t)
  PROVE  TypeInv'
<1>1. PipeType /\ Counts /\ StageType /\ Events \in Nat
  BY TypeParts, WorkerAssumption DEF TypeInv
<1>2. UNCHANGED <<cookerVars, stdin, out, mainVars, queue, part, term, taken>>
  BY DEF WriteHalf, Elsewhere
<1>3. CookerType' /\ WireType' /\ MainType'
  BY <1>2, TypeParts DEF TypeInv, CookerType, WireType, MainType, cookerVars, mainVars
<1>4. wrote[t] \in Nat /\ taken[t] \in Nat /\ taken[t] <= wrote[t] /\ wrote[t] < 2 * Events
  BY <1>1 DEF PipeType, Counts, WriteHalf
<1>5. CASE Reader(t)
  <2>1. /\ wrote' = [wrote EXCEPT ![t] = @ + 1]
        /\ stage' = [stage EXCEPT ![t] = IF wrote[t] % 2 = 0 THEN "write" ELSE "run"]
    BY <1>5 DEF WriteHalf, Becomes
  <2>2. wrote[t] + 1 \in 0..(2 * Events) /\ taken[t] <= wrote[t] + 1
    BY <1>1, <1>4
  <2>3. wrote[t] % 2 = 0 => wrote[t] + 1 < 2 * Events
    BY <1>1, <1>4, Halves
  <2>4. PipeType'
    BY <1>1, <1>2, <2>1, <2>2 DEF PipeType
  <2>5. StageType'
    BY <1>1, <1>2, <2>1 DEF StageType, Alive, Grouped
  <2>6. /\ wrote'[t] = wrote[t] + 1
        /\ stage'[t] = "write" => wrote[t] % 2 = 0
        /\ \A u \in Tasks \ {t} : wrote'[u] = wrote[u] /\ stage'[u] = stage[u]
    BY <1>1, <2>1 DEF PipeType, StageType
  <2>7. ASSUME NEW u \in Tasks
        PROVE  taken'[u] <= wrote'[u] /\ (stage'[u] = "write" => wrote'[u] < 2 * Events)
    <3>1. CASE u = t
      BY <1>2, <2>2, <2>3, <2>6, <3>1
    <3>2. CASE u # t
      BY <1>1, <1>2, <2>6, <3>2 DEF Counts
    <3> QED
      BY <3>1, <3>2
  <2>8. Counts'
    BY <2>7 DEF Counts
  <2> QED
    BY <1>3, <2>4, <2>5, <2>8, TypeParts DEF TypeInv
<1>6. CASE ~Reader(t)
  <2>1. wrote' = wrote /\ stage' = [stage EXCEPT ![t] = "zombie"]
    BY <1>6 DEF WriteHalf, Becomes
  <2>2. PipeType' /\ StageType'
    BY <1>1, <1>2, <2>1 DEF PipeType, StageType
  <2>3. \A u \in Tasks : stage'[u] = "write" => stage[u] = "write"
    BY <1>1, <2>1 DEF StageType
  <2>4. Counts'
    BY <1>1, <1>2, <2>1, <2>3 DEF Counts
  <2> QED
    BY <1>3, <2>2, <2>4, TypeParts DEF TypeInv
<1> QED
  BY <1>5, <1>6

LEMMA InitType == Init => TypeInv
<1> SUFFICES ASSUME Init PROVE TypeInv
  OBVIOUS
<1>1. CookerType
  <2>1. forced \in BOOLEAN
    BY Zenon DEF Init
  <2>2. got \in [Tasks -> Seq(0..Events)]
    BY EmptySeq DEF Init
  <2> QED
    BY <2>1, <2>2 DEF Init, CookerType
<1>2. WireType
  BY DEF Init, WireType
<1>3. MainType
  <2>1. dying \in BOOLEAN
    BY Zenon DEF Init
  <2>2. started \in Seq(Tasks) /\ tag \in 1..4
    BY EmptySeq DEF Init
  <2> QED
    BY <2>1, <2>2 DEF Init, MainType
<1>4. StageType /\ PipeType /\ Counts
  BY WorkerAssumption DEF Init, StageType, PipeType, Counts
<1> QED
  BY <1>1, <1>2, <1>3, <1>4, TypeParts DEF TypeInv

LEMMA SameType ==
  ASSUME TypeInv, UNCHANGED vars
  PROVE  TypeInv'
<1>1. CookerType' /\ WireType' /\ MainType'
  BY TypeParts DEF TypeInv, CookerType, WireType, MainType, vars, cookerVars, mainVars
<1>2. StageType' /\ PipeType' /\ Counts'
  BY TypeParts DEF TypeInv, StageType, PipeType, Counts, vars, childVars
<1> QED
  BY <1>1, <1>2, TypeParts DEF TypeInv

LEMMA NextType ==
  ASSUME TypeInv, Next
  PROVE  TypeInv'
<1>1. CASE RunTask \/ FinishNow \/ Quit \/ Written \/ Read \/ CookerKilled
  BY <1>1, RunTaskType, FinishNowType, QuitType, WrittenType, ReadType, CookerKilledType
<1>2. CASE \/ Select \/ HandleFinishNow \/ HandleQuit \/ ItemsDone \/ PipesDone \/ Reaped
           \/ SignalsDone \/ Finished \/ Join \/ WorkerKilled \/ Flush
  BY <1>2, SelectType, HandleFinishNowType, HandleQuitType, ItemsDoneType, PipesDoneType,
     ReapedType, SignalsDoneType, FinishedType, JoinType, WorkerKilledType, FlushType
<1>3. ASSUME NEW t \in Tasks,
             \/ HandleRunTask(t) \/ Pipes(t) \/ Reap(t)
             \/ SignalNext(t) \/ WaitAny(t) \/ DrainNext(t)
      PROVE  TypeInv'
  BY <1>3, HandleRunTaskType, PipesType, ReapType, SignalNextType, WaitAnyType
<1>4. ASSUME NEW t \in Tasks,
             \/ Boot(t) \/ WriteHalf(t) \/ Terminated(t) \/ Fire(t) \/ End(t) \/ TaskKilled(t)
      PROVE  TypeInv'
  BY <1>4, BootType, WriteHalfType, TerminatedType, FireType, EndType, TaskKilledType
<1> QED
  BY <1>1, <1>2, <1>3, <1>4 DEF Next, Main, Cooker, Child

\* The counters of a pipe stay within their bounds, and nothing else leaves its type, for any
\* number of tasks and events and pipes of any size.
THEOREM WorkerTyped == Spec => []TypeOK
<1>1. Init => TypeInv
  BY InitType
<1>2. TypeInv /\ [Next]_vars => TypeInv'
  BY NextType, SameType
<1>3. TypeInv => TypeOK
  BY DEF TypeInv
<1> QED
  BY <1>1, <1>2, <1>3, PTL DEF Spec
-----------------------------------------------------------------------------
(* A task is started once, and finishnow is not heard before it is said.   *)

Line == IF writing = None THEN <<>> ELSE <<writing>>
Lines == (inq \o stdin) \o Line      \* commands under way
Once == {p \in Commands \X Commands : p[1] = p[2] => p[1] \notin Tasks}

\* A task is not started yet, or its command is under way, or it has a process; and
\* finishnow is under way only after the cooker has said it.
Tokens ==
  /\ Pairwise(Lines, Once)
  /\ \A t \in Tasks : Has(Lines, t) => t \notin todo /\ stage[t] = "none"
  /\ Has(Lines, "finishnow") => forced
  /\ \A t \in todo : stage[t] = "none"

\* Commands are under way in this order.
LEMMA LinesAre ==
  ASSUME TypeOK
  PROVE  /\ inq \in Seq(Commands) /\ stdin \in Seq(Commands) /\ Line \in Seq(Commands)
         /\ inq \o stdin \in Seq(Commands) /\ Lines \in Seq(Commands)
         /\ (writing = None) => Lines = inq \o stdin
         /\ (writing # None) => Lines = (inq \o stdin) \o <<writing>> /\ writing \in Commands
<1>1. /\ inq \in Seq(Commands) /\ stdin \in Seq(Commands)
      /\ (writing # None) => writing \in Commands
  BY DEF TypeOK
<1>2. inq \o stdin \in Seq(Commands)
  BY <1>1, ConcatProperties, Zenon
<1>3. Line \in Seq(Commands)
  BY <1>1, EmptySeq DEF Line
<1>4. Lines \in Seq(Commands)
  BY <1>2, <1>3, ConcatProperties, Zenon DEF Lines
<1>5. (writing = None) => Lines = inq \o stdin
  BY <1>2, ConcatEmptySeq, Zenon DEF Lines, Line
<1> QED
  BY <1>1, <1>2, <1>3, <1>4, <1>5 DEF Lines, Line

\* Commands that go away leave the rest as it was.
LEMMA FewerTokens ==
  ASSUME Tokens, Pairwise(Lines', Once), todo' \subseteq todo, todo \subseteq Tasks,
         forced => forced', \A c : Has(Lines', c) => Has(Lines, c),
         \A t \in Tasks : (t \in todo' \/ Has(Lines', t)) /\ stage[t] = "none"
                            => stage'[t] = "none"
  PROVE  Tokens'
BY DEF Tokens

LEMMA SameTokens ==
  ASSUME TypeOK, Tokens, Lines' = Lines, UNCHANGED <<todo, forced>>,
         \A t \in Tasks : stage[t] = "none" => stage'[t] = "none"
  PROVE  Tokens'
<1>1. todo \subseteq Tasks
  BY DEF TypeOK
<1>2. Pairwise(Lines', Once) /\ \A c : Has(Lines', c) => Has(Lines, c)
  BY DEF Tokens
<1> QED
  BY <1>1, <1>2, FewerTokens

\* A new command.
LEMMA WritesTokens ==
  ASSUME TypeOK, TypeOK', Tokens, NEW c \in Commands, Writes(c),
         c \in Tasks => c \in todo /\ c \notin todo',
         (c = "finishnow") => forced', forced => forced', todo' \subseteq todo,
         UNCHANGED <<inq, stdin, stage>>
  PROVE  Tokens'
<1>1. Lines = inq \o stdin /\ Lines' = Lines \o <<c>> /\ Lines \in Seq(Commands)
  <2>1. writing = None /\ writing' = c /\ c # None
    BY WorkerAssumption DEF Writes, Commands
  <2>2. Lines = inq \o stdin /\ Lines \in Seq(Commands)
    BY <2>1, LinesAre
  <2>3. Lines' = (inq \o stdin) \o <<c>>
    BY <2>1 DEF Lines, Line
  <2> QED
    BY <2>2, <2>3
<1>2. <<c>> \in Seq(Commands)
  OBVIOUS
<1>3. \A x : Has(Lines', x) <=> Has(Lines, x) \/ x = c
  <2>1. \A x : Has(Lines \o <<c>>, x) <=> Has(Lines, x) \/ Has(<<c>>, x)
    BY <1>1, <1>2, ConcatHas
  <2> QED
    BY <1>1, <2>1, OneHas
<1>4. \A x : Has(Lines, x) => x \in Commands
  BY <1>1, LenProperties, ElementOfSeq DEF Has
<1>5. ASSUME NEW x, NEW y, Has(Lines, x), Has(<<c>>, y) PROVE <<x, y>> \in Once
  <2>1. y = c /\ x \in Commands
    BY <1>4, <1>5, OneHas
  <2>2. (x = c) => x \notin Tasks
    BY <1>5 DEF Tokens
  <2> QED
    BY <2>1, <2>2 DEF Once
<1>6. Pairwise(Lines', Once)
  <2>1. Pairwise(Lines, Once) /\ Pairwise(<<c>>, Once)
    BY OneHas DEF Tokens
  <2>2. Pairwise(Lines \o <<c>>, Once)
    BY <1>1, <1>2, <1>5, <2>1, ConcatPairwise, Zenon
  <2> QED
    BY <1>1, <2>2
<1>7. \A t \in Tasks : Has(Lines', t) => t \notin todo' /\ stage'[t] = "none"
  BY <1>3 DEF Tokens
<1>8. Has(Lines', "finishnow") => forced'
  BY <1>3 DEF Tokens
<1>9. \A t \in todo' : stage'[t] = "none"
  BY DEF Tokens
<1> QED
  BY <1>6, <1>7, <1>8, <1>9 DEF Tokens

\* The last one is lost.
LEMMA LosesTokens ==
  ASSUME TypeOK, Tokens, writing' = None, UNCHANGED <<inq, stdin, stage, todo, forced>>
  PROVE  Tokens'
<1>1. Lines' = (inq \o stdin) \o <<>>
  BY DEF Lines, Line
<1>2. Lines' = inq \o stdin
  BY <1>1, LinesAre, ConcatEmptySeq, Zenon
<1>3. CASE writing = None
  BY <1>2, <1>3, LinesAre, SameTokens
<1>4. CASE writing # None
  <2>1. Lines = Lines' \o <<writing>> /\ Lines' \in Seq(Commands) /\ <<writing>> \in Seq(Commands)
    <3>1. /\ Lines = (inq \o stdin) \o <<writing>> /\ writing \in Commands
          /\ inq \o stdin \in Seq(Commands)
      BY <1>4, LinesAre
    <3>2. <<writing>> \in Seq(Commands)
      BY <3>1
    <3> QED
      BY <1>2, <3>1, <3>2
  <2>2. Pairwise(Lines', Once)
    BY <2>1, ConcatPairwise DEF Tokens
  <2>3. \A c : Has(Lines', c) => Has(Lines, c)
    BY <2>1, ConcatHas
  <2> QED
    BY <2>2, <2>3, FewerTokens DEF TypeOK
<1> QED
  BY <1>3, <1>4

LEMMA WrittenTokens ==
  ASSUME TypeOK, Tokens, Written
  PROVE  Tokens'
<1>1. writing # None /\ writing' = None /\ UNCHANGED <<inq, stage, todo, forced>>
  BY DEF Written, mainVars, childVars
<1>2. CASE worker = "dead"
  BY <1>1, <1>2, LosesTokens DEF Written
<1>3. CASE worker # "dead"
  <2>1. stdin' = Append(stdin, writing)
    BY <1>3 DEF Written
  <2>2. /\ writing \in Commands /\ <<writing>> \in Seq(Commands) /\ stdin \in Seq(Commands)
        /\ inq \in Seq(Commands) /\ Lines = (inq \o stdin) \o <<writing>>
    BY <1>1, LinesAre
  <2>3. stdin' = stdin \o <<writing>>
    BY <2>1, <2>2, AppendOne
  <2>4. (inq \o stdin) \o <<writing>> = inq \o (stdin \o <<writing>>)
    BY <2>2, ConcatAssociative
  <2>5. Lines' = (inq \o stdin') \o <<>>
    BY <1>1 DEF Lines, Line
  <2>6. inq \o stdin' \in Seq(Commands)
    <3>1. stdin \o <<writing>> \in Seq(Commands)
      BY <2>2, ConcatProperties, Zenon
    <3> QED
      BY <2>2, <2>3, <3>1, ConcatProperties, Zenon
  <2>7. Lines' = inq \o stdin'
    BY <2>5, <2>6, ConcatEmptySeq, Zenon
  <2>8. Lines' = Lines
    BY <2>2, <2>3, <2>4, <2>7
  <2> QED
    BY <1>1, <2>8, SameTokens
<1> QED
  BY <1>2, <1>3

LEMMA SelectTokens ==
  ASSUME TypeOK, Tokens, Select
  PROVE  Tokens'
<1>1. UNCHANGED <<todo, forced, stage, writing>>
  BY DEF Select, Outside, cookerVars, childVars
<1>2. CASE UNCHANGED <<inq, stdin>>
  <2>1. Lines' = Lines
    BY <1>1, <1>2 DEF Lines, Line
  <2> QED
    BY <1>1, <2>1, SameTokens
<1>3. CASE inq' = inq \o stdin /\ stdin' = <<>>
  <2>1. inq' \o stdin' = inq \o stdin
    BY <1>3, LinesAre, ConcatEmptySeq, Zenon
  <2>2. Lines' = Lines
    BY <1>1, <2>1 DEF Lines, Line
  <2> QED
    BY <1>1, <2>2, SameTokens
<1> QED
  BY <1>2, <1>3 DEF Select

\* The first one is taken up.
LEMMA HandlesLines ==
  ASSUME TypeOK, Tokens, NEW c \in Commands, Handles(c)
  PROVE  /\ Has(Lines, c) /\ Pairwise(Lines', Once) /\ \A x : Has(Lines', x) => Has(Lines, x)
         /\ c \in Tasks => ~Has(Lines', c)
         /\ UNCHANGED <<todo, forced>> /\ todo \subseteq Tasks
<1>1. inq # <<>> /\ Head(inq) = c /\ inq' = Tail(inq) /\ UNCHANGED <<stdin, writing, todo, forced>>
  BY DEF Handles, Due, Outside, cookerVars
<1> PICK rest : rest = Tail(inq)
  OBVIOUS
<1>2. /\ inq = <<c>> \o rest /\ rest \in Seq(Commands) /\ <<c>> \in Seq(Commands)
      /\ stdin \in Seq(Commands) /\ Line \in Seq(Commands)
  BY <1>1, LinesAre, HeadFirst
<1>3. Lines' = (rest \o stdin) \o Line
  BY <1>1 DEF Lines, Line
<1>4. rest \o stdin \in Seq(Commands)
  BY <1>2, ConcatProperties, Zenon
<1>5. Lines' \in Seq(Commands)
  BY <1>2, <1>3, <1>4, ConcatProperties, Zenon
<1>6. Lines = <<c>> \o Lines'
  <2>1. (<<c>> \o rest) \o stdin = <<c>> \o (rest \o stdin)
    BY <1>2, ConcatAssociative
  <2>2. (<<c>> \o (rest \o stdin)) \o Line = <<c>> \o ((rest \o stdin) \o Line)
    BY <1>2, <1>4, ConcatAssociative
  <2>3. Lines = (inq \o stdin) \o Line
    BY DEF Lines
  <2> QED
    BY <1>2, <1>3, <2>1, <2>2, <2>3
<1>7. /\ Pairwise(Lines', Once)
      /\ \A x, y : Has(<<c>>, x) /\ Has(Lines', y) => <<x, y>> \in Once
  BY <1>2, <1>5, <1>6, ConcatPairwise DEF Tokens
<1>8. \A x : Has(Lines, x) <=> (x = c \/ Has(Lines', x))
  <2>1. \A x : Has(<<c>> \o Lines', x) <=> (Has(<<c>>, x) \/ Has(Lines', x))
    BY <1>2, <1>5, ConcatHas, Zenon
  <2> QED
    BY <1>6, <2>1, OneHas
<1>9. c \in Tasks => ~Has(Lines', c)
  <2>1. Has(<<c>>, c)
    BY OneHas
  <2> QED
    BY <1>7, <2>1 DEF Once
<1> QED
  BY <1>1, <1>7, <1>8, <1>9 DEF TypeOK

LEMMA HandleRunTaskTokens ==
  ASSUME TypeOK, Tokens, NEW t \in Tasks, HandleRunTask(t)
  PROVE  Tokens' /\ stage[t] = "none"
<1>1. t \in Commands /\ Handles(t) /\ stage' = [stage EXCEPT ![t] = "forked"]
  BY DEF HandleRunTask, Commands
<1>2. stage[t] = "none" /\ t \notin todo /\ ~Has(Lines', t)
  BY <1>1, HandlesLines DEF Tokens
<1>3. \A u \in Tasks : u # t => stage'[u] = stage[u]
  BY <1>1 DEF TypeOK
<1>4. /\ Pairwise(Lines', Once) /\ \A x : Has(Lines', x) => Has(Lines, x)
      /\ UNCHANGED <<todo, forced>> /\ todo \subseteq Tasks
  BY <1>1, HandlesLines
<1>5. \A u \in Tasks : (u \in todo' \/ Has(Lines', u)) /\ stage[u] = "none" => stage'[u] = "none"
  BY <1>2, <1>3, <1>4
<1> QED
  BY <1>2, <1>4, <1>5, FewerTokens

LEMMA HandleOtherTokens ==
  ASSUME TypeOK, Tokens, HandleFinishNow \/ HandleQuit
  PROVE  Tokens' /\ (HandleFinishNow => forced)
<1>1. /\ UNCHANGED stage /\ "finishnow" \in Commands /\ "quit" \in Commands
      /\ Handles("finishnow") \/ Handles("quit")
      /\ HandleFinishNow => Handles("finishnow")
  BY DEF HandleFinishNow, HandleQuit, Commands
<1>2. /\ Pairwise(Lines', Once) /\ \A x : Has(Lines', x) => Has(Lines, x)
      /\ UNCHANGED <<todo, forced>> /\ todo \subseteq Tasks
  BY <1>1, HandlesLines
<1>3. Handles("finishnow") => Has(Lines, "finishnow")
  BY <1>1, HandlesLines
<1>4. HandleFinishNow => forced
  BY <1>1, <1>3 DEF Tokens
<1>5. Tokens'
  BY <1>1, <1>2, FewerTokens
<1> QED
  BY <1>4, <1>5
-----------------------------------------------------------------------------
(* What is passed on                                                       *)

Mine(t) == [i \in DOMAIN got[t] |-> <<t, got[t][i]>>]
Sorted == {p \in Messages \X Messages : Precedes(p[1], p[2])}
Sent(t, n) == Has(Passed(t), <<t, n>>)
UpTo(t, n) == \A k \in 1..Events : Sent(t, k) <=> k <= n

\* A task's events have been passed on in order, none that is still in the pipe, and the
\* exit code only when the pipe was empty.  As long as nobody is stopped by force the worker
\* has passed on whatever it has read, and holds the rest.
Flow ==
  \A t \in Tasks :
    /\ Pairwise(Passed(t), Sorted)
    /\ \A n \in 1..Events : Sent(t, n) => n <= Seen(t)
    /\ Sent(t, Exit) => stage[t] = "gone" /\ taken[t] = wrote[t]
    /\ Calm => IF worker = "dead"
               THEN \E n \in 0..Events : UpTo(t, n) /\ (Sent(t, Exit) => n = Fired(t))
               ELSE UpTo(t, Seen(t)) /\ ~term[t] /\ part[t] = taken[t] % 2

\* The worker handles finishnow only if somebody stops by force.
Places == worker \in {"signal", "wait", "drain"} => ~Calm

FlowInv == TypeInv /\ Tokens /\ Flow /\ Places

\* The three places as one sequence.
LEMMA PassedAre ==
  ASSUME TypeOK, NEW t \in Tasks
  PROVE  /\ Mine(t) \in Seq(Messages) /\ out \in Seq(Messages) /\ queue \in Seq(Messages)
         /\ Mine(t) \o out \in Seq(Messages) /\ Passed(t) \in Seq(Messages)
         /\ Passed(t) = (Mine(t) \o out) \o queue
         /\ \A m : Has(Mine(t), m) => m[1] = t
         /\ \A m : Has(Passed(t), m) <=> Has(Mine(t), m) \/ Has(out, m) \/ Has(queue, m)
<1>1. got[t] \in Seq(0..Events) /\ out \in Seq(Messages) /\ queue \in Seq(Messages)
  BY DEF TypeOK, Messages
<1> PICK g : g = got[t]
  OBVIOUS
<1>2. g \in Seq(0..Events)
  BY <1>1
<1>3. Len(g) \in Nat /\ DOMAIN g = 1..Len(g) /\ \A i \in 1..Len(g) : g[i] \in 0..Events
  BY <1>2, LenProperties, ElementOfSeq
<1>4. Mine(t) = [i \in 1..Len(g) |-> <<t, g[i]>>]
  BY <1>3 DEF Mine
<1>5. Mine(t) \in [1..Len(g) -> Messages]
  BY <1>3, <1>4 DEF Messages
<1>6. Mine(t) \in Seq(Messages)
  BY <1>3, <1>5
<1>7. \A m : Has(Mine(t), m) => m[1] = t
  BY <1>4 DEF Has
<1>8. Mine(t) \o out \in Seq(Messages)
  BY <1>1, <1>6, ConcatProperties, Zenon
<1>9. Passed(t) = (Mine(t) \o out) \o queue
  BY DEF Passed, Mine
<1>10. Passed(t) \in Seq(Messages)
  BY <1>1, <1>8, <1>9, ConcatProperties, Zenon
<1>11. ASSUME NEW m
       PROVE  Has(Passed(t), m) <=> Has(Mine(t), m) \/ Has(out, m) \/ Has(queue, m)
  <2>1. Has(Passed(t), m) <=> Has(Mine(t) \o out, m) \/ Has(queue, m)
    <3>1. Has((Mine(t) \o out) \o queue, m) <=> Has(Mine(t) \o out, m) \/ Has(queue, m)
      BY <1>1, <1>8, ConcatHas, Zenon
    <3> QED
      BY <1>9, <3>1, Zenon
  <2>2. Has(Mine(t) \o out, m) <=> Has(Mine(t), m) \/ Has(out, m)
    BY <1>1, <1>6, ConcatHas
  <2> QED
    BY <2>1, <2>2
<1> QED
  BY <1>1, <1>6, <1>7, <1>8, <1>9, <1>10, <1>11

\* What is under way for u is so in everybody's eyes.
LEMMA PassedOfOthers ==
  ASSUME TypeOK, NEW t \in Tasks, NEW u \in Tasks, NEW n, Has(Passed(t), <<u, n>>)
  PROVE  Sent(u, n)
<1>1. CASE t = u
  BY <1>1 DEF Sent
<1>2. CASE t # u
  <2>1. ~Has(Mine(t), <<u, n>>)
    <3>1. <<u, n>>[1] = u
      OBVIOUS
    <3> QED
      BY <1>2, <3>1, PassedAre
  <2>2. Has(out, <<u, n>>) \/ Has(queue, <<u, n>>)
    BY <2>1, PassedAre
  <2> QED
    BY <2>2, PassedAre DEF Sent
<1> QED
  BY <1>1, <1>2

\* The counters of one pipe, in events and in halves.
LEMMA CountsOf ==
  ASSUME TypeInv, NEW t \in Tasks
  PROVE  /\ PipeType /\ taken[t] <= wrote[t] /\ taken[t] \in Nat /\ wrote[t] \in Nat
         /\ Seen(t) \in 0..Events /\ Fired(t) \in 0..Events /\ Seen(t) <= Fired(t)
         /\ taken[t] = wrote[t] => Seen(t) = Fired(t)
<1>1. PipeType /\ taken[t] <= wrote[t]
  BY TypeParts DEF TypeInv, Counts
<1>2. /\ Seen(t) \in Nat /\ Fired(t) \in Nat /\ Seen(t) <= Fired(t) /\ Fired(t) <= Events
      /\ taken[t] = wrote[t] => Seen(t) = Fired(t)
  BY <1>1, WholeAre
<1>3. taken[t] \in Nat /\ wrote[t] \in Nat /\ Events \in Nat
  BY <1>1, WorkerAssumption DEF PipeType
<1> QED
  BY <1>1, <1>2, <1>3

\* The invariant gives the property.
LEMMA FlowIsRight ==
  ASSUME FlowInv
  PROVE  EventsThenExit
<1> SUFFICES ASSUME NEW t \in Tasks
             PROVE  /\ Orderly(Passed(t))
                    /\ Calm => \E n \in 0..Events : /\ Carried(t) \ {Exit} = 1..n
                                                    /\ Exit \in Carried(t) => n = Fired(t)
  BY DEF EventsThenExit
<1>1. Orderly(Passed(t))
  <2>1. Pairwise(Passed(t), Sorted)
    BY DEF FlowInv, Flow
  <2> QED
    BY <2>1 DEF Orderly, Pairwise, Sorted
<1>2. \A n : n \in Carried(t) <=> n \in 0..Events /\ Sent(t, n)
  BY DEF Carried, Sent, Has
<1>3. Events \in Nat /\ Exit = 0
  BY WorkerAssumption DEF Exit
<1>4. ASSUME NEW n \in 0..Events, UpTo(t, n)
      PROVE  Carried(t) \ {Exit} = 1..n
  <2>1. \A k : k \in Carried(t) \ {Exit} <=> k \in 1..Events /\ Sent(t, k)
    BY <1>2, <1>3
  <2>2. \A k : k \in 1..n <=> k \in 1..Events /\ k <= n
    BY <1>3
  <2> QED
    BY <1>4, <2>1, <2>2 DEF UpTo
<1>5. Calm => \E n \in 0..Events : UpTo(t, n) /\ (Sent(t, Exit) => n = Fired(t))
  <2>1. CASE worker = "dead"
    BY <2>1 DEF FlowInv, Flow
  <2>2. CASE worker # "dead"
    <3>1. /\ Calm => UpTo(t, Seen(t))
          /\ Sent(t, Exit) => taken[t] = wrote[t]
      BY <2>2 DEF FlowInv, Flow
    <3>2. Seen(t) \in 0..Events /\ (taken[t] = wrote[t] => Seen(t) = Fired(t))
      BY CountsOf DEF FlowInv
    <3> QED
      BY <3>1, <3>2
  <2> QED
    BY <2>1, <2>2
<1> QED
  BY <1>1, <1>2, <1>4, <1>5

\* Steps by which nothing new is passed on.
LEMMA QuietFlow ==
  ASSUME TypeInv, TypeInv', Flow,
         \A t \in Tasks : /\ Pairwise(Passed(t)', Sorted)
                          /\ \A n \in 0..Events : Sent(t, n)' <=> Sent(t, n),
         \A t \in Tasks : Seen(t) <= Seen(t)',
         \A t \in Tasks : stage[t] = "gone" /\ taken[t] = wrote[t] =>
                            /\ stage'[t] = "gone" /\ taken'[t] = wrote'[t]
                            /\ wrote'[t] = wrote[t],
         Calm' => Calm,
         Calm' => \/ worker' = "dead"
                  \/ worker # "dead" /\ UNCHANGED <<taken, part, term>>
  PROVE  Flow'
<1> SUFFICES ASSUME NEW t \in Tasks
             PROVE  /\ Pairwise(Passed(t)', Sorted)
                    /\ \A n \in 1..Events : Sent(t, n)' => n <= Seen(t)'
                    /\ Sent(t, Exit)' => stage'[t] = "gone" /\ taken'[t] = wrote'[t]
                    /\ Calm' => IF worker' = "dead"
                                THEN \E n \in 0..Events :
                                       UpTo(t, n)' /\ (Sent(t, Exit)' => n = Fired(t)')
                                ELSE UpTo(t, Seen(t))' /\ ~term'[t] /\ part'[t] = taken'[t] % 2
  BY DEF Flow
<1>1. Exit \in 0..Events /\ \A k \in 1..Events : k \in 0..Events
  BY WorkerAssumption DEF Exit
<1>2. Sent(t, Exit)' <=> Sent(t, Exit)
  BY <1>1
<1>3. \A k \in 1..Events : Sent(t, k)' <=> Sent(t, k)
  BY <1>1
<1>4. \A n : UpTo(t, n)' <=> UpTo(t, n)
  BY <1>3 DEF UpTo
<1>5. Seen(t) \in Nat /\ Seen(t)' \in Nat /\ Seen(t) <= Seen(t)'
  <2>1. Seen(t) \in Nat
    BY CountsOf
  <2>2. taken'[t] \in Nat
    BY TypeParts, WorkerAssumption DEF TypeInv, PipeType
  <2>3. Seen(t)' \in Nat
    BY <2>2, Halves DEF Seen
  <2> QED
    BY <2>1, <2>3
<1>6. \A n \in 1..Events : Sent(t, n)' => n <= Seen(t)'
  <2>1. \A n \in 1..Events : Sent(t, n) => n <= Seen(t)
    BY DEF Flow
  <2> QED
    BY <1>3, <1>5, <2>1
<1>7. /\ Sent(t, Exit) => stage[t] = "gone" /\ taken[t] = wrote[t]
      /\ Calm => IF worker = "dead"
                 THEN \E n \in 0..Events : UpTo(t, n) /\ (Sent(t, Exit) => n = Fired(t))
                 ELSE UpTo(t, Seen(t)) /\ ~term[t] /\ part[t] = taken[t] % 2
  BY DEF Flow
<1>8. Sent(t, Exit) => /\ stage'[t] = "gone" /\ taken'[t] = wrote'[t] /\ Fired(t)' = Fired(t)
                       /\ Seen(t) = Fired(t)
  BY <1>7, CountsOf DEF Fired
<1>9. Calm' => IF worker' = "dead"
               THEN \E n \in 0..Events : UpTo(t, n)' /\ (Sent(t, Exit)' => n = Fired(t)')
               ELSE UpTo(t, Seen(t))' /\ ~term'[t] /\ part'[t] = taken'[t] % 2
  <2> SUFFICES ASSUME Calm'
               PROVE  IF worker' = "dead"
                      THEN \E n \in 0..Events : UpTo(t, n)' /\ (Sent(t, Exit)' => n = Fired(t)')
                      ELSE UpTo(t, Seen(t))' /\ ~term'[t] /\ part'[t] = taken'[t] % 2
    OBVIOUS
  <2>1. CASE worker' = "dead" /\ worker = "dead"
    BY <1>2, <1>4, <1>7, <1>8, <2>1
  <2>2. CASE worker' = "dead" /\ worker # "dead"
    <3>1. UpTo(t, Seen(t)) /\ Seen(t) \in 0..Events
      BY <1>7, <2>2, CountsOf
    <3> PICK n : n = Seen(t)
      OBVIOUS
    <3>2. n \in 0..Events /\ UpTo(t, n)' /\ (Sent(t, Exit)' => n = Fired(t)')
      BY <1>2, <1>4, <1>8, <3>1
    <3> QED
      BY <2>2, <3>2
  <2>3. CASE worker' # "dead"
    <3>1. worker # "dead" /\ UNCHANGED <<taken, part, term>>
      BY <2>3
    <3>2. UpTo(t, Seen(t)) /\ ~term[t] /\ part[t] = taken[t] % 2
      BY <1>7, <3>1
    <3>3. Seen(t)' = Seen(t)
      BY <3>1 DEF Seen
    <3>4. UpTo(t, Seen(t))'
      BY <1>3, <3>2, <3>3 DEF UpTo
    <3> QED
      BY <2>3, <3>1, <3>2, <3>4
  <2> QED
    BY <2>1, <2>2, <2>3
<1> QED
  BY <1>2, <1>6, <1>7, <1>8, <1>9

\* Events leave a pipe and do not come back.
LEMMA SeenGrows ==
  ASSUME TypeInv, TypeInv', NEW t \in Tasks, taken[t] <= taken'[t]
  PROVE  Seen(t) <= Seen(t)'
<1>1. taken[t] \in Nat /\ taken'[t] \in Nat
  BY TypeParts, WorkerAssumption DEF TypeInv, PipeType
<1> QED
  BY <1>1, Halves DEF Seen

LEMMA SameFlow ==
  ASSUME TypeInv, TypeInv', Flow, UNCHANGED <<got, out, queue>>,
         \A t \in Tasks : taken'[t] = taken[t] \/ taken'[t] = wrote[t],
         \A t \in Tasks : stage[t] = "gone" => stage'[t] = "gone" /\ wrote'[t] = wrote[t],
         Calm' => Calm,
         Calm' => \/ worker' = "dead"
                  \/ worker # "dead" /\ UNCHANGED <<taken, part, term>>
  PROVE  Flow'
<1>1. \A t \in Tasks : /\ Pairwise(Passed(t)', Sorted)
                       /\ \A n \in 0..Events : Sent(t, n)' <=> Sent(t, n)
  <2> TAKE t \in Tasks
  <2>1. Passed(t)' = Passed(t)
    BY DEF Passed
  <2>2. Pairwise(Passed(t), Sorted)
    BY DEF Flow
  <2> QED
    BY <2>1, <2>2 DEF Sent
<1>2. \A t \in Tasks : Seen(t) <= Seen(t)'
  <2> TAKE t \in Tasks
  <2>1. taken[t] <= taken'[t]
    BY CountsOf
  <2> QED
    BY <2>1, SeenGrows
<1>3. \A t \in Tasks : stage[t] = "gone" /\ taken[t] = wrote[t] =>
                         /\ stage'[t] = "gone" /\ taken'[t] = wrote'[t] /\ wrote'[t] = wrote[t]
  OBVIOUS
<1> QED
  BY <1>1, <1>2, <1>3, QuietFlow

LEMMA CookerFlow ==
  ASSUME FlowInv, TypeInv', RunTask \/ FinishNow \/ Quit \/ Written \/ CookerKilled
  PROVE  Flow' /\ Places'
<1>1. /\ UNCHANGED <<got, out, queue, taken, part, term, stage, wrote, worker, dying>>
      /\ cooker = "dead" => cooker' = "dead"
      /\ forced => forced'
  BY DEF RunTask, FinishNow, Quit, Written, CookerKilled, Writes, Rest, mainVars, childVars
<1>2. Calm' => Calm
  BY <1>1 DEF Calm
<1>3. Flow'
  BY <1>1, <1>2, SameFlow DEF FlowInv
<1> QED
  BY <1>1, <1>2, <1>3 DEF FlowInv, Places

LEMMA MainFlow ==
  ASSUME FlowInv, TypeInv',
         \/ Select \/ HandleFinishNow \/ HandleQuit \/ ItemsDone \/ PipesDone \/ Reaped
         \/ SignalsDone
  PROVE  Flow' /\ Places'
<1>1. /\ UNCHANGED <<got, out, queue, taken, part, term, stage, wrote, cooker, forced>>
      /\ worker # "dead"
  BY DEF Select, HandleFinishNow, HandleQuit, ItemsDone, PipesDone, Reaped, SignalsDone, Handles,
         Outside, cookerVars, childVars
<1>2. \/ ~dying' /\ forced
      \/ dying' /\ worker' = "signal"
      \/ UNCHANGED dying /\ (worker' \in {"signal", "wait", "drain"} => worker = "signal")
  <2>1. CASE HandleFinishNow
    BY <2>1, HandleOtherTokens DEF FlowInv, TypeInv, HandleFinishNow, Finishing
  <2>2. CASE \/ Select \/ HandleQuit \/ ItemsDone \/ PipesDone \/ Reaped \/ SignalsDone
    BY <2>2 DEF Select, HandleQuit, ItemsDone, PipesDone, Reaped, SignalsDone, Goes, Finishing
  <2> QED
    BY <2>1, <2>2
<1>3. Calm' => Calm
  BY <1>1, <1>2 DEF Calm
<1>4. Flow'
  BY <1>1, <1>3, SameFlow DEF FlowInv
<1>5. Places'
  BY <1>1, <1>2, <1>3 DEF FlowInv, Places, Calm
<1> QED
  BY <1>4, <1>5

LEMMA HandleRunTaskFlow ==
  ASSUME FlowInv, TypeInv', NEW t \in Tasks, HandleRunTask(t)
  PROVE  Flow' /\ Places'
<1>1. /\ UNCHANGED <<got, out, queue, taken, part, term, wrote, cooker, forced, dying, worker>>
      /\ worker = "items" /\ stage' = [stage EXCEPT ![t] = "forked"]
  BY DEF HandleRunTask, Handles, Outside, cookerVars
<1>2. stage[t] = "none"
  BY HandleRunTaskTokens DEF FlowInv, TypeInv
<1>3. \A u \in Tasks : stage[u] = "gone" => stage'[u] = "gone"
  BY <1>1, <1>2, TypeParts DEF FlowInv, TypeInv, StageType
<1>4. Calm' => Calm
  BY <1>1 DEF Calm
<1>5. Flow'
  BY <1>1, <1>3, <1>4, SameFlow DEF FlowInv
<1> QED
  BY <1>1, <1>4, <1>5 DEF Places

\* While finishnow is handled, and when the worker ends.
LEMMA StopFlow ==
  ASSUME FlowInv, TypeInv',
         \/ Finished \/ Join \/ WorkerKilled
         \/ \E t \in Tasks : SignalNext(t) \/ WaitAny(t)
  PROVE  Flow' /\ Places'
<1>1. /\ UNCHANGED <<got, out, queue, taken, part, wrote, cooker, forced>>
      /\ dying => dying'
  BY DEF Finished, Join, WorkerKilled, SignalNext, WaitAny, Outside, cookerVars
<1>2. \A u \in Tasks : stage[u] = "gone" => stage'[u] = "gone"
  <2>1. StageType
    BY TypeParts DEF FlowInv, TypeInv
  <2>2. \/ UNCHANGED stage
        \/ \E t \in Tasks : stage' = [stage EXCEPT ![t] = "gone"]
    BY DEF Finished, Join, WorkerKilled, SignalNext, WaitAny
  <2> QED
    BY <2>1, <2>2 DEF StageType
<1>3. Calm' => Calm
  BY <1>1 DEF Calm
<1>4. \/ worker \in {"signal", "wait", "drain"}
      \/ worker' = "dead"
  BY DEF Finished, Join, WorkerKilled, SignalNext, WaitAny, Dies, Goes
<1>5. Calm' => worker' = "dead"
  BY <1>3, <1>4 DEF FlowInv, Places
<1>6. Flow'
  BY <1>1, <1>2, <1>3, <1>5, SameFlow DEF FlowInv
<1> QED
  BY <1>5, <1>6 DEF Places

\* What a task does to itself: it writes, or leaves.
LEMMA TaskFlow ==
  ASSUME FlowInv, TypeInv', NEW t \in Tasks,
         Boot(t) \/ Fire(t) \/ WriteHalf(t) \/ End(t) \/ TaskKilled(t)
  PROVE  Flow' /\ Places'
<1>1. UNCHANGED <<got, out, queue, taken, part, term, cooker, forced, dying, worker>>
  BY DEF Boot, Fire, WriteHalf, End, TaskKilled, Elsewhere, cookerVars, mainVars
<1>2. /\ stage[t] # "gone"
      /\ \E x : stage' = [stage EXCEPT ![t] = x]
      /\ wrote' = wrote \/ \E x : wrote' = [wrote EXCEPT ![t] = x]
  BY DEF Boot, Fire, WriteHalf, End, TaskKilled, Becomes, Alive, Grouped
<1>3. StageType /\ PipeType
  BY TypeParts DEF FlowInv, TypeInv
<1>4. \A u \in Tasks : stage[u] = "gone" => stage'[u] = "gone" /\ wrote'[u] = wrote[u]
  BY <1>2, <1>3 DEF StageType, PipeType
<1>5. Calm' <=> Calm
  BY <1>1 DEF Calm
<1>6. Flow'
  BY <1>1, <1>4, <1>5, SameFlow DEF FlowInv
<1> QED
  BY <1>1, <1>5, <1>6 DEF FlowInv, Places

\* A task that ends by the worker's own handler, and may empty the pipes of others.
LEMMA TerminatedFlow ==
  ASSUME FlowInv, TypeInv', NEW t \in Tasks, Terminated(t)
  PROVE  Flow' /\ Places'
<1>1. /\ UNCHANGED <<got, out, queue, part, wrote, cooker, forced, dying, worker>>
      /\ term[t] /\ stage[t] # "gone" /\ stage' = [stage EXCEPT ![t] = "zombie"]
      /\ \/ taken' = taken
         \/ taken' = [u \in Tasks |-> IF u \in Before(t) THEN wrote[u] ELSE taken[u]]
  BY DEF Terminated, Elsewhere, Becomes, cookerVars, mainVars
<1>2. \A u \in Tasks : taken'[u] = taken[u] \/ taken'[u] = wrote[u]
  BY <1>1
<1>3. \A u \in Tasks : stage[u] = "gone" => stage'[u] = "gone"
  BY <1>1, TypeParts DEF FlowInv, TypeInv, StageType
<1>4. Calm' <=> Calm
  BY <1>1 DEF Calm
<1>5. Calm' => worker' = "dead"
  <2>1. Calm => worker = "dead" \/ ~term[t]
    BY DEF FlowInv, Flow
  <2> QED
    BY <1>1, <1>4, <2>1
<1>6. Flow'
  BY <1>1, <1>2, <1>3, <1>4, <1>5, SameFlow DEF FlowInv
<1> QED
  BY <1>1, <1>4, <1>6 DEF FlowInv, Places

\* From the queue to the cooker: what was passed on stays the same.
LEMMA FlushFlow ==
  ASSUME FlowInv, TypeInv', Flush
  PROVE  Flow' /\ Places'
<1>1. /\ UNCHANGED <<got, taken, part, term, stage, wrote, cooker, forced, dying, worker>>
      /\ queue # <<>> /\ out' = Append(out, Head(queue)) /\ queue' = Tail(queue)
      /\ worker # "dead"
  BY DEF Flush, cookerVars, mainVars, childVars
<1> PICK h : h = Head(queue)
  OBVIOUS
<1>2. TypeOK /\ out \in Seq(Messages) /\ queue \in Seq(Messages)
  BY TypeParts DEF FlowInv, TypeInv, WireType
<1>3. h \in Messages /\ <<h>> \in Seq(Messages) /\ queue' \in Seq(Messages) /\ queue = <<h>> \o queue'
  BY <1>1, <1>2, HeadFirst
<1>4. out' = out \o <<h>>
  BY <1>1, <1>2, <1>3, AppendOne
<1>5. ASSUME NEW t \in Tasks PROVE Passed(t)' = Passed(t)
  <2>1. /\ Mine(t) \in Seq(Messages) /\ Mine(t) \o out \in Seq(Messages)
        /\ Passed(t) = (Mine(t) \o out) \o queue
    BY <1>2, PassedAre
  <2>2. Mine(t)' = Mine(t)
    BY <1>1 DEF Mine
  <2>3. Passed(t)' = (Mine(t)' \o out') \o queue'
    BY DEF Passed, Mine
  <2>4. Mine(t) \o (out \o <<h>>) = (Mine(t) \o out) \o <<h>>
    BY <1>2, <1>3, <2>1, ConcatAssociative
  <2>5. ((Mine(t) \o out) \o <<h>>) \o queue' = (Mine(t) \o out) \o (<<h>> \o queue')
    BY <1>3, <2>1, ConcatAssociative
  <2> QED
    BY <1>3, <1>4, <2>1, <2>2, <2>3, <2>4, <2>5
<1>6. \A t \in Tasks : /\ Pairwise(Passed(t)', Sorted)
                       /\ \A n \in 0..Events : Sent(t, n)' <=> Sent(t, n)
  <2> TAKE t \in Tasks
  <2>1. Pairwise(Passed(t), Sorted)
    BY DEF FlowInv, Flow
  <2> QED
    BY <1>5, <2>1 DEF Sent
<1>7. \A t \in Tasks : Seen(t) <= Seen(t)'
  <2> TAKE t \in Tasks
  <2>1. Seen(t)' = Seen(t) /\ Seen(t) \in 0..Events
    BY <1>1, CountsOf DEF FlowInv, Seen
  <2> QED
    BY <2>1, WorkerAssumption
<1>8. Calm' <=> Calm
  BY <1>1 DEF Calm
<1>9. Flow'
  BY <1>1, <1>6, <1>7, <1>8, QuietFlow DEF FlowInv
<1> QED
  BY <1>1, <1>8, <1>9 DEF FlowInv, Places

\* What the cooker has read is in order as before; for the other tasks a message of
\* somebody else is gone.
LEMMA ReadPasses ==
  ASSUME FlowInv, TypeInv', Read, NEW t \in Tasks
  PROVE  /\ Pairwise(Passed(t)', Sorted)
         /\ \A n \in 0..Events : Sent(t, n)' <=> Sent(t, n)
<1>1. UNCHANGED queue /\ out # <<>> /\ out' = Tail(out)
  BY DEF Read
<1> PICK h : h = Head(out)
  OBVIOUS
<1> PICK a : a = Mine(t)
  OBVIOUS
<1>2. TypeOK /\ out \in Seq(Messages) /\ queue \in Seq(Messages) /\ got \in [Tasks -> Seq(0..Events)]
  BY TypeParts DEF FlowInv, TypeInv, WireType, CookerType
<1>3. h \in Messages /\ <<h>> \in Seq(Messages) /\ out' \in Seq(Messages) /\ out = <<h>> \o out'
  BY <1>1, <1>2, HeadFirst
<1>4. got' = [got EXCEPT ![h[1]] = Append(@, h[2])] /\ h[1] \in Tasks /\ h[2] \in 0..Events
  BY <1>3 DEF Read, Messages
<1>5. a \in Seq(Messages) /\ a \o out \in Seq(Messages) /\ Passed(t) = (a \o out) \o queue
  BY <1>2, PassedAre
<1>6. Passed(t)' = (Mine(t)' \o out') \o queue
  BY <1>1 DEF Passed, Mine
<1>7. a \o (<<h>> \o out') = (a \o <<h>>) \o out' /\ a \o <<h>> \in Seq(Messages)
  <2>1. a \o <<h>> \in Seq(Messages)
    BY <1>3, <1>5, ConcatProperties, Zenon
  <2>2. (a \o <<h>>) \o out' = a \o (<<h>> \o out')
    BY <1>3, <1>5, ConcatAssociative
  <2> QED
    BY <2>1, <2>2
<1>8. Pairwise(Passed(t), Sorted)
  BY DEF FlowInv, Flow
<1>9. CASE h[1] = t
  <2>1. got[t] \in Seq(0..Events) /\ got'[t] = Append(got[t], h[2])
    BY <1>2, <1>4, <1>9
  <2> PICK g, x : g = got[t] /\ x = h[2]
    OBVIOUS
  <2>2. g \in Seq(0..Events) /\ x \in 0..Events /\ h = <<t, x>>
    BY <1>3, <1>4, <1>9, <2>1 DEF Messages
  <2>3. /\ Len(g) \in Nat /\ DOMAIN g = 1..Len(g) /\ DOMAIN Append(g, x) = 1..(Len(g) + 1)
        /\ Append(g, x)[Len(g) + 1] = x /\ \A i \in 1..Len(g) : Append(g, x)[i] = g[i]
    BY <2>2
  <2>4. Mine(t)' = [i \in 1..(Len(g) + 1) |-> <<t, Append(g, x)[i]>>]
    BY <2>1, <2>3 DEF Mine
  <2>5. a = [i \in 1..Len(g) |-> <<t, g[i]>>]
    BY <2>3 DEF Mine
  <2>6. Append(a, h) = [i \in 1..(Len(g) + 1) |-> IF i = Len(g) + 1 THEN h ELSE a[i]]
    BY <1>3, <1>5, <2>3, <2>5
  <2>7. Mine(t)' = Append(a, h)
    <3>1. ASSUME NEW i \in 1..(Len(g) + 1)
          PROVE  <<t, Append(g, x)[i]>> = IF i = Len(g) + 1 THEN h ELSE a[i]
      <4>1. CASE i = Len(g) + 1
        BY <2>2, <2>3, <4>1
      <4>2. CASE i # Len(g) + 1
        <5>1. i \in 1..Len(g)
          BY <2>3, <4>2
        <5> QED
          BY <2>3, <2>5, <4>2, <5>1
      <4> QED
        BY <4>1, <4>2
    <3> QED
      BY <2>4, <2>6, <3>1
  <2>8. Mine(t)' = a \o <<h>>
    BY <1>3, <1>5, <2>7, AppendOne
  <2>9. Passed(t)' = Passed(t)
    BY <1>3, <1>5, <1>6, <1>7, <2>8
  <2> QED
    BY <1>8, <2>9 DEF Sent
<1>10. CASE h[1] # t
  <2>1. Mine(t)' = a
    BY <1>2, <1>4, <1>10 DEF Mine
  <2> PICK rest : rest = out'
    OBVIOUS
  <2>2. rest \in Seq(Messages) /\ out = <<h>> \o rest /\ Passed(t)' = (a \o rest) \o queue
    BY <1>3, <1>6, <2>1
  <2>3. a \o rest \in Seq(Messages)
    BY <1>5, <2>2, ConcatProperties, Zenon
  <2>4. \A m : Has(out, m) <=> m = h \/ Has(rest, m)
    <3>1. \A m : Has(<<h>> \o rest, m) <=> Has(<<h>>, m) \/ Has(rest, m)
      BY <1>3, <2>2, ConcatHas
    <3> QED
      BY <2>2, <3>1, OneHas
  <2>5. \A m : Has(a \o out, m) <=> Has(a, m) \/ Has(out, m)
    BY <1>2, <1>5, ConcatHas
  <2>6. \A m : Has(a \o rest, m) <=> Has(a, m) \/ Has(rest, m)
    BY <1>5, <2>2, ConcatHas
  <2>7. \A m : Has(Passed(t)', m) <=> Has(a \o rest, m) \/ Has(queue, m)
    <3>1. \A m : Has((a \o rest) \o queue, m) <=> Has(a \o rest, m) \/ Has(queue, m)
      BY <1>2, <2>3, ConcatHas
    <3> QED
      BY <2>2, <3>1
  <2>8. \A m : Has(Passed(t), m) <=> Has(a \o out, m) \/ Has(queue, m)
    <3>1. \A m : Has((a \o out) \o queue, m) <=> Has(a \o out, m) \/ Has(queue, m)
      BY <1>2, <1>5, ConcatHas
    <3> QED
      BY <1>5, <3>1
  <2>9. \A n : Has(Passed(t)', <<t, n>>) <=> Has(Passed(t), <<t, n>>)
    <3>1. \A n : <<t, n>> # h
      BY <1>10
    <3> QED
      BY <2>4, <2>5, <2>6, <2>7, <2>8, <3>1
  <2>10. /\ Pairwise(a \o out, Sorted) /\ Pairwise(queue, Sorted)
         /\ \A m, n : Has(a \o out, m) /\ Has(queue, n) => <<m, n>> \in Sorted
    <3>1. Pairwise((a \o out) \o queue, Sorted)
      BY <1>5, <1>8
    <3> QED
      BY <1>2, <1>5, <3>1, ConcatPairwise
  <2>11. /\ Pairwise(a, Sorted) /\ Pairwise(out, Sorted)
         /\ \A m, n : Has(a, m) /\ Has(out, n) => <<m, n>> \in Sorted
    BY <1>2, <1>5, <2>10, ConcatPairwise
  <2>12. Pairwise(rest, Sorted)
    <3>1. Pairwise(<<h>> \o rest, Sorted)
      BY <2>2, <2>11
    <3> QED
      BY <1>3, <2>2, <3>1, ConcatPairwise
  <2>13. Pairwise(a \o rest, Sorted)
    <3>1. \A m, n : Has(a, m) /\ Has(rest, n) => <<m, n>> \in Sorted
      BY <2>4, <2>11
    <3> QED
      BY <1>5, <2>2, <2>11, <2>12, <3>1, ConcatPairwise
  <2>14. Pairwise((a \o rest) \o queue, Sorted)
    <3>1. \A m, n : Has(a \o rest, m) /\ Has(queue, n) => <<m, n>> \in Sorted
      BY <2>4, <2>5, <2>6, <2>10
    <3> QED
      BY <1>2, <2>3, <2>10, <2>13, <3>1, ConcatPairwise
  <2>15. Pairwise(Passed(t)', Sorted)
    BY <2>2, <2>14
  <2> QED
    BY <2>9, <2>15 DEF Sent
<1> QED
  BY <1>9, <1>10

\* The cooker reads one message: it moves from the pipe to what the cooker has got.
LEMMA ReadFlow ==
  ASSUME FlowInv, TypeInv', Read
  PROVE  Flow' /\ Places'
<1>1. UNCHANGED <<taken, part, term, stage, wrote, cooker, forced, dying, worker>>
  BY DEF Read, mainVars, childVars
<1>2. \A t \in Tasks : /\ Pairwise(Passed(t)', Sorted)
                       /\ \A n \in 0..Events : Sent(t, n)' <=> Sent(t, n)
  BY ReadPasses
<1>3. \A t \in Tasks : Seen(t) <= Seen(t)'
  <2> TAKE t \in Tasks
  <2>1. Seen(t)' = Seen(t) /\ Seen(t) \in 0..Events
    BY <1>1, CountsOf DEF FlowInv, Seen
  <2> QED
    BY <2>1, WorkerAssumption
<1>4. Calm' <=> Calm
  BY <1>1 DEF Calm
<1>5. Flow'
  BY <1>1, <1>2, <1>3, <1>4, QuietFlow DEF FlowInv
<1> QED
  BY <1>1, <1>4, <1>5 DEF FlowInv, Places

\* The queue grows at its end.
LEMMA Regrouped == \A a, b, c \in Seq(Messages) : (a \o b) \o c = a \o (b \o c)
<1> TAKE a, b, c \in Seq(Messages)
<1> QED
  BY ConcatAssociative

LEMMA PassedGrows ==
  ASSUME TypeOK, NEW t \in Tasks, NEW x \in Seq(Messages), queue' = queue \o x,
         UNCHANGED <<got, out>>
  PROVE  Passed(t)' = Passed(t) \o x
<1>1. /\ queue \in Seq(Messages) /\ Mine(t) \o out \in Seq(Messages)
      /\ Passed(t) = (Mine(t) \o out) \o queue
  BY PassedAre
<1>2. Passed(t)' = (Mine(t) \o out) \o queue'
  BY DEF Passed, Mine
<1>3. ((Mine(t) \o out) \o queue) \o x = (Mine(t) \o out) \o (queue \o x)
  <2> PICK a : a = Mine(t) \o out
    OBVIOUS
  <2>1. a \in Seq(Messages) /\ queue \in Seq(Messages)
    BY <1>1
  <2>2. (a \o queue) \o x = a \o (queue \o x)
    BY <2>1, Regrouped, Zenon
  <2> QED
    BY <2>2
<1> QED
  BY <1>1, <1>2, <1>3

\* Reading the pipe of u: its whole events follow what was passed on of it before.
LEMMA PipePasses ==
  ASSUME FlowInv, TypeInv', NEW u \in Tasks, ~Garbled(u), NEW then \in Seq(Messages),
         ReadPipe(u, then), UNCHANGED <<got, out, wrote>>,
         then = <<>> \/ (then = <<<<u, Exit>>>> /\ stage[u] # "gone"),
         NEW t \in Tasks
  PROVE  /\ Pairwise(Passed(t)', Sorted)
         /\ \A n : Sent(t, n)' <=> \/ Sent(t, n)
                                   \/ t = u /\ n \in (Seen(u) + 1)..Fired(u)
                                   \/ t = u /\ n = Exit /\ then # <<>>
<1>1. queue' = (queue \o WholeEvents(u)) \o then
  BY DEF ReadPipe
<1>2. /\ WholeEvents(u) \in Seq(Messages) /\ Pairwise(WholeEvents(u), Sorted)
      /\ Seen(u) \in Nat /\ Fired(u) \in Nat /\ Fired(u) <= Events
      /\ \A m : Has(WholeEvents(u), m) <=> \E n \in (Seen(u) + 1)..Fired(u) : m = <<u, n>>
  BY CountsOf, WholeAre DEF FlowInv, Sorted
<1> PICK w : w = WholeEvents(u)
  OBVIOUS
<1> PICK p : p = Passed(t)
  OBVIOUS
<1>3. TypeOK /\ Exit = 0 /\ Events \in Nat
  BY TypeParts, WorkerAssumption DEF FlowInv, TypeInv, Exit
<1>4. /\ queue \in Seq(Messages) /\ Mine(t) \o out \in Seq(Messages) /\ p \in Seq(Messages)
      /\ p = (Mine(t) \o out) \o queue
  BY <1>3, PassedAre
<1>5. w \in Seq(Messages) /\ w \o then \in Seq(Messages) /\ queue' = queue \o (w \o then)
  <2>1. w \in Seq(Messages)
    BY <1>2
  <2>2. w \o then \in Seq(Messages)
    BY <2>1, ConcatProperties, Zenon
  <2>3. queue \in Seq(Messages)
    BY <1>4
  <2>4. (queue \o w) \o then = queue \o (w \o then)
    BY <2>1, <2>3, ConcatAssociative
  <2> QED
    BY <1>1, <2>1, <2>2, <2>4
<1>6. Passed(t)' = p \o (w \o then)
  BY <1>3, <1>5, PassedGrows
<1>7. /\ \A m : Has(then, m) <=> m = <<u, Exit>> /\ then # <<>>
      /\ Pairwise(then, Sorted)
  <2>1. CASE then = <<>>
    BY <2>1, OneHas
  <2>2. CASE then = <<<<u, Exit>>>>
    <3>1. <<<<u, Exit>>>> # <<>>
      OBVIOUS
    <3> QED
      BY <2>2, <3>1, OneHas
  <2> QED
    BY <2>1, <2>2
<1>8. \A m : Has(w \o then, m) <=> \/ \E n \in (Seen(u) + 1)..Fired(u) : m = <<u, n>>
                                   \/ m = <<u, Exit>> /\ then # <<>>
  <2> TAKE m
  <2>1. Has(w \o then, m) <=> Has(w, m) \/ Has(then, m)
    BY <1>5, ConcatHas
  <2>2. Has(w, m) <=> \E n \in (Seen(u) + 1)..Fired(u) : m = <<u, n>>
    BY <1>2
  <2>3. Has(then, m) <=> m = <<u, Exit>> /\ then # <<>>
    BY <1>7
  <2> QED
    BY <2>1, <2>2, <2>3
<1>9. \A m : Has(Passed(t)', m) <=> Has(p, m) \/ Has(w \o then, m)
  <2>1. \A m : Has(p \o (w \o then), m) <=> Has(p, m) \/ Has(w \o then, m)
    BY <1>4, <1>5, ConcatHas
  <2> QED
    BY <1>6, <2>1
<1>10. \A n : Sent(t, n)' <=> \/ Sent(t, n)
                              \/ t = u /\ n \in (Seen(u) + 1)..Fired(u)
                              \/ t = u /\ n = Exit /\ then # <<>>
  <2> TAKE n
  <2>1. Sent(t, n)' <=> Has(p, <<t, n>>) \/ Has(w \o then, <<t, n>>)
    BY <1>9 DEF Sent
  <2>2. Has(w \o then, <<t, n>>) <=> \/ t = u /\ n \in (Seen(u) + 1)..Fired(u)
                                     \/ t = u /\ n = Exit /\ then # <<>>
    BY <1>8
  <2> QED
    BY <2>1, <2>2 DEF Sent
\* The exit code is among what was passed on only if there is nothing left to read.
<1>11. ASSUME Sent(u, Exit) PROVE \A m : ~Has(w \o then, m)
  <2>1. stage[u] = "gone" /\ taken[u] = wrote[u]
    BY <1>11 DEF FlowInv, Flow
  <2>2. Seen(u) = Fired(u) /\ then = <<>>
    BY <2>1, CountsOf DEF FlowInv
  <2>3. (Seen(u) + 1)..Fired(u) = {}
    BY <1>2, <2>2
  <2> QED
    BY <1>8, <2>2, <2>3
<1>12. ASSUME NEW m, NEW x, Has(p, m), Has(w \o then, x) PROVE <<m, x>> \in Sorted
  <2>1. m \in Messages
    BY <1>4, <1>12, LenProperties, ElementOfSeq DEF Has
  <2>2. x \in Messages
    BY <1>5, <1>12, LenProperties, ElementOfSeq DEF Has
  <2>3. ~Sent(u, Exit)
    BY <1>11, <1>12
  <2>4. ASSUME m[1] = x[1] PROVE m[2] # Exit /\ (x[2] = Exit \/ m[2] < x[2])
    <3>1. x = <<u, x[2]>> /\ (x[2] = Exit \/ x[2] \in (Seen(u) + 1)..Fired(u))
      BY <1>8, <1>12
    <3>2. m = <<u, m[2]>> /\ m[2] \in 0..Events
      BY <2>1, <2>4, <3>1 DEF Messages
    <3>3. Sent(u, m[2])
      BY <1>3, <1>12, <3>2, PassedOfOthers
    <3>4. m[2] # Exit /\ m[2] \in 1..Events
      BY <1>3, <2>3, <3>2, <3>3
    <3>5. m[2] <= Seen(u)
      BY <3>3, <3>4 DEF FlowInv, Flow
    <3> QED
      BY <1>2, <3>1, <3>4, <3>5
  <2> QED
    BY <2>1, <2>2, <2>4 DEF Sorted, Precedes
<1>13. Pairwise(w \o then, Sorted)
  <2>1. Pairwise(then, Sorted)
    BY <1>7
  <2>2. ASSUME NEW m, NEW x, Has(w, m), Has(then, x) PROVE <<m, x>> \in Sorted
    <3>1. x = <<u, Exit>> /\ x \in Messages
      BY <1>3, <1>7, <2>2 DEF Messages
    <3>2. \E n \in (Seen(u) + 1)..Fired(u) : m = <<u, n>>
      BY <1>2, <2>2
    <3>3. m[2] # Exit /\ m \in Messages
      BY <1>2, <1>3, <3>2 DEF Messages
    <3> QED
      BY <3>1, <3>3 DEF Sorted, Precedes
  <2>3. Pairwise(w, Sorted)
    BY <1>2
  <2> QED
    BY <1>5, <2>1, <2>2, <2>3, ConcatPairwise
<1>14. Pairwise(Passed(t)', Sorted)
  <2>1. Pairwise(p, Sorted)
    BY DEF FlowInv, Flow
  <2>2. Pairwise(p \o (w \o then), Sorted)
    BY <1>4, <1>5, <1>12, <1>13, <2>1, ConcatPairwise
  <2> QED
    BY <1>6, <2>2
<1> QED
  BY <1>10, <1>14
\* A worker that nobody stops finds every event where it expects it, and holds the first half
\* of one afterwards if there is one.
LEMMA HoldsRest ==
  ASSUME FlowInv, NEW u \in Tasks, NEW then, ReadPipe(u, then), part[u] = taken[u] % 2
  PROVE  ~Garbled(u) /\ part'[u] = wrote[u] % 2
<1>1. /\ taken[u] \in Nat /\ wrote[u] \in Nat /\ taken[u] <= wrote[u] /\ PipeType
      /\ Seen(u) \in Nat /\ Fired(u) \in Nat /\ Seen(u) <= Fired(u)
  BY CountsOf DEF FlowInv
<1>2. /\ taken[u] % 2 \in {0, 1} /\ taken[u] = 2 * Seen(u) + (taken[u] % 2)
      /\ wrote[u] % 2 \in {0, 1} /\ wrote[u] = 2 * Fired(u) + (wrote[u] % 2)
  BY <1>1, Halves DEF Seen, Fired
<1>3. ~Garbled(u)
  BY <1>2 DEF Garbled
<1>4. part' = [part EXCEPT ![u] = IF Seen(u) < Fired(u) THEN wrote[u] % 2
                                  ELSE IF taken[u] < wrote[u] /\ @ < 2 THEN @ + 1 ELSE @]
  BY <1>3 DEF ReadPipe
<1>5. part'[u] = IF Seen(u) < Fired(u) THEN wrote[u] % 2
                 ELSE IF taken[u] < wrote[u] /\ part[u] < 2 THEN part[u] + 1 ELSE part[u]
  BY <1>1, <1>4 DEF PipeType
<1>6. ASSUME Seen(u) < Fired(u) PROVE part'[u] = wrote[u] % 2
  BY <1>5, <1>6
<1>7. ASSUME ~(Seen(u) < Fired(u)) PROVE part'[u] = wrote[u] % 2
  <2>1. Seen(u) = Fired(u)
    BY <1>1, <1>7
  <2>2. CASE taken[u] = wrote[u]
    <3>1. ~(taken[u] < wrote[u])
      BY <1>1, <2>2
    <3>2. part'[u] = part[u]
      BY <1>5, <1>7, <3>1
    <3> QED
      BY <2>2, <3>2
  <2>3. CASE taken[u] # wrote[u]
    <3>1. taken[u] < wrote[u] /\ taken[u] % 2 = 0 /\ wrote[u] % 2 = 1
      BY <1>1, <1>2, <2>1, <2>3
    <3>2. part[u] = 0
      BY <3>1
    <3>3. part'[u] = part[u] + 1
      BY <1>5, <1>7, <3>1, <3>2
    <3> QED
      BY <3>1, <3>2, <3>3
  <2> QED
    BY <2>2, <2>3
<1>8. part'[u] = wrote[u] % 2
  BY <1>6, <1>7
<1> QED
  BY <1>3, <1>8

\* Reading a pipe keeps the invariant, with and without the exit code after it.
LEMMA PipeFlow ==
  ASSUME FlowInv, TypeInv', NEW u \in Tasks, NEW then \in Seq(Messages), ReadPipe(u, then),
         worker # "dead", UNCHANGED <<got, out, wrote, term, cooker, forced, dying>>,
         \/ then = <<>> /\ UNCHANGED stage
         \/ /\ then = <<<<u, Exit>>>> /\ stage[u] # "gone"
            /\ stage' = [stage EXCEPT ![u] = "gone"]
  PROVE  Flow' /\ Places'
<1>1. Calm' <=> Calm
  BY DEF Calm
<1>2. worker' = worker \/ worker' = "join"
  BY DEF ReadPipe, Goes
<1>3. Places'
  BY <1>1, <1>2 DEF FlowInv, Places
<1>4. \A t \in Tasks : stage[t] = "gone" => stage'[t] = "gone"
  BY TypeParts DEF FlowInv, TypeInv, StageType
<1>5. CASE Garbled(u)
  <2>1. UNCHANGED <<queue, taken, part>>
    BY <1>5 DEF ReadPipe
  <2>2. ~Calm
    <3>1. part[u] # taken[u] % 2
      BY <1>5, HoldsRest
    <3> QED
      BY <3>1 DEF FlowInv, Flow
  <2> QED
    BY <1>1, <1>3, <1>4, <2>1, <2>2, SameFlow DEF FlowInv
<1>6. CASE ~Garbled(u)
  <2>1. taken' = [taken EXCEPT ![u] = wrote[u]] /\ worker' = worker
    BY <1>6 DEF ReadPipe
  <2>2. /\ taken'[u] = wrote[u] /\ \A t \in Tasks \ {u} : taken'[t] = taken[t]
        /\ \A t \in Tasks \ {u} : part'[t] = part[t] /\ stage'[t] = stage[t]
    BY <1>6, <2>1, TypeParts DEF ReadPipe, FlowInv, TypeInv, PipeType, StageType
  <2>3. /\ Seen(u)' = Fired(u) /\ Fired(u)' = Fired(u)
        /\ \A t \in Tasks \ {u} : Seen(t)' = Seen(t)
    BY <2>2 DEF Seen, Fired
  <2> SUFFICES ASSUME NEW t \in Tasks
               PROVE  /\ Pairwise(Passed(t)', Sorted)
                      /\ \A n \in 1..Events : Sent(t, n)' => n <= Seen(t)'
                      /\ Sent(t, Exit)' => stage'[t] = "gone" /\ taken'[t] = wrote'[t]
                      /\ Calm' => /\ UpTo(t, Seen(t))' /\ ~term'[t]
                                  /\ part'[t] = taken'[t] % 2
    BY <1>3, <2>1 DEF Flow
  <2>4. /\ Pairwise(Passed(t)', Sorted)
        /\ \A n : Sent(t, n)' <=> \/ Sent(t, n)
                                  \/ t = u /\ n \in (Seen(u) + 1)..Fired(u)
                                  \/ t = u /\ n = Exit /\ then # <<>>
    BY <1>6, PipePasses
  <2>5. /\ \A n \in 1..Events : Sent(t, n) => n <= Seen(t)
        /\ Sent(t, Exit) => stage[t] = "gone" /\ taken[t] = wrote[t]
        /\ Calm => UpTo(t, Seen(t)) /\ ~term[t] /\ part[t] = taken[t] % 2
    BY DEF FlowInv, Flow
  <2>6. /\ Seen(t) \in 0..Events /\ Fired(t) \in 0..Events /\ Seen(t) <= Fired(t)
        /\ Exit = 0 /\ Events \in Nat
    BY CountsOf, WorkerAssumption DEF FlowInv, Exit
  <2>7. CASE t # u
    <3>1. \A n : Sent(t, n)' <=> Sent(t, n)
      BY <2>4, <2>7
    <3>2. Seen(t)' = Seen(t) /\ taken'[t] = taken[t] /\ part'[t] = part[t] /\ stage'[t] = stage[t]
      BY <2>2, <2>3, <2>7
    <3>3. UpTo(t, Seen(t))' <=> UpTo(t, Seen(t))
      BY <3>1, <3>2 DEF UpTo
    <3> QED
      BY <1>1, <2>4, <2>5, <3>1, <3>2, <3>3
  <2>8. CASE t = u
    <3>1. \A n \in 1..Events : Sent(t, n)' <=> Sent(t, n) \/ n \in (Seen(t) + 1)..Fired(t)
      BY <2>4, <2>6, <2>8
    <3>2. \A n \in 1..Events : Sent(t, n)' => n <= Seen(t)'
      BY <2>3, <2>5, <2>6, <2>8, <3>1
    <3>3. Sent(t, Exit)' <=> Sent(t, Exit) \/ then # <<>>
      BY <2>4, <2>6, <2>8
    <3>4. Sent(t, Exit)' => stage'[t] = "gone" /\ taken'[t] = wrote'[t]
      <4>1. taken'[t] = wrote'[t]
        BY <2>2, <2>8
      <4>2. (then # <<>>) => stage'[t] = "gone"
        BY <2>8, TypeParts DEF FlowInv, TypeInv, StageType
      <4> QED
        BY <1>4, <2>5, <3>3, <4>1, <4>2
    <3>5. ASSUME Calm' PROVE UpTo(t, Seen(t))' /\ ~term'[t] /\ part'[t] = taken'[t] % 2
      <4>1. UpTo(t, Seen(t)) /\ ~term[t] /\ part[t] = taken[t] % 2
        BY <1>1, <2>5, <3>5
      <4>2. part'[t] = taken'[t] % 2
        BY <2>2, <2>8, <4>1, HoldsRest
      <4>3. \A n \in 1..Events : Sent(t, n)' <=> n <= Fired(t)
        <5>1. \A n \in 1..Events : Sent(t, n) <=> n <= Seen(t)
          BY <4>1 DEF UpTo
        <5> QED
          BY <2>6, <3>1, <5>1
      <4>4. UpTo(t, Seen(t))'
        BY <2>3, <2>8, <4>3 DEF UpTo
      <4> QED
        BY <4>1, <4>2, <4>4
    <3> QED
      BY <2>4, <3>2, <3>4, <3>5
  <2> QED
    BY <2>7, <2>8
<1> QED
  BY <1>5, <1>6

LEMMA ReadingFlow ==
  ASSUME FlowInv, TypeInv', NEW t \in Tasks, Pipes(t) \/ DrainNext(t) \/ Reap(t)
  PROVE  Flow' /\ Places'
<1>1. /\ UNCHANGED <<got, out, wrote, term, cooker, forced>> /\ worker # "dead"
      /\ UNCHANGED dying
  BY DEF Pipes, DrainNext, Reap, Outside, cookerVars
<1>2. CASE Pipes(t) \/ DrainNext(t)
  <2>1. ReadPipe(t, <<>>) /\ UNCHANGED stage /\ <<>> \in Seq(Messages)
    BY <1>2, EmptySeq DEF Pipes, DrainNext
  <2> QED
    BY <1>1, <2>1, PipeFlow
<1>3. CASE Reap(t)
  <2>1. /\ ReadPipe(t, <<<<t, Exit>>>>) /\ stage[t] # "gone"
        /\ stage' = [stage EXCEPT ![t] = "gone"]
    BY <1>3 DEF Reap
  <2>2. <<t, Exit>> \in Messages
    BY WorkerAssumption DEF Messages, Exit
  <2>3. <<<<t, Exit>>>> \in Seq(Messages)
    BY <2>2
  <2> QED
    BY <1>1, <2>1, <2>3, PipeFlow
<1> QED
  BY <1>2, <1>3

\* At the start nothing is under way.
LEMMA InitFlow == Init => FlowInv
<1> SUFFICES ASSUME Init PROVE FlowInv
  OBVIOUS
<1>1. TypeInv /\ TypeOK
  BY InitType DEF TypeInv
<1>2. Lines = <<>>
  <2>1. inq = <<>> /\ stdin = <<>> /\ Lines = inq \o stdin
    BY <1>1, LinesAre DEF Init
  <2>2. <<>> \in Seq(Commands)
    BY EmptySeq
  <2> QED
    BY <2>1, <2>2, ConcatEmptySeq
<1>3. Tokens
  <2>1. \A m : ~Has(<<>>, m)
    BY OneHas
  <2>2. Pairwise(<<>>, Once)
    BY OneHas
  <2>3. \A t \in todo : stage[t] = "none"
    BY DEF Init
  <2> QED
    BY <1>2, <2>1, <2>2, <2>3 DEF Tokens
<1>4. ASSUME NEW t \in Tasks PROVE Passed(t) = <<>>
  <2>1. Mine(t) \in Seq(Messages) /\ Passed(t) = (Mine(t) \o out) \o queue
    BY <1>1, PassedAre
  <2>2. Mine(t) = <<>>
    BY DEF Init, Mine
  <2>3. out = <<>> /\ queue = <<>> /\ <<>> \in Seq(Messages)
    BY EmptySeq DEF Init
  <2> QED
    BY <2>1, <2>2, <2>3, ConcatEmptySeq
<1>5. \A t \in Tasks : /\ Pairwise(Passed(t), Sorted) /\ \A n : ~Sent(t, n)
  <2> TAKE t \in Tasks
  <2>1. Passed(t) = <<>>
    BY <1>4
  <2> QED
    BY <2>1, OneHas DEF Sent
<1>6. \A t \in Tasks : /\ taken[t] = 0 /\ wrote[t] = 0 /\ part[t] = 0 /\ ~term[t]
                       /\ Seen(t) = 0
  <2> TAKE t \in Tasks
  <2>1. taken[t] = 0 /\ wrote[t] = 0 /\ part[t] = 0 /\ ~term[t]
    BY DEF Init
  <2>2. Seen(t) = 0
    BY <2>1 DEF Seen
  <2> QED
    BY <2>1, <2>2
<1>7. Flow
  <2>1. \A t \in Tasks : UpTo(t, Seen(t)) /\ part[t] = taken[t] % 2
    <3> TAKE t \in Tasks
    <3>1. taken[t] = 0 /\ part[t] = 0 /\ Seen(t) = 0
      BY <1>6
    <3>2. part[t] = taken[t] % 2
      BY <3>1
    <3>3. \A k \in 1..Events : ~(k <= 0)
      BY WorkerAssumption
    <3>4. UpTo(t, 0)
      BY <1>5, <3>3 DEF UpTo
    <3> QED
      BY <3>1, <3>2, <3>4
  <2>2. worker # "dead"
    BY DEF Init
  <2> QED
    BY <1>5, <1>6, <2>1, <2>2 DEF Flow
<1> QED
  BY <1>1, <1>3, <1>7 DEF Init, Places, FlowInv
\* Steps that leave the commands alone.
LEMMA ChildrenTokens ==
  ASSUME TypeOK, Tokens, NEW t \in Tasks,
         Pipes(t) \/ Reap(t) \/ SignalNext(t) \/ WaitAny(t) \/ DrainNext(t)
  PROVE  Tokens'
<1>1. UNCHANGED <<inq, stdin, writing, todo, forced>>
  BY DEF Pipes, Reap, SignalNext, WaitAny, DrainNext, Outside, cookerVars
<1>2. Lines' = Lines
  BY <1>1 DEF Lines, Line
<1>3. CASE Reap(t) \/ WaitAny(t)
  <2>1. stage[t] = "zombie" /\ stage' = [stage EXCEPT ![t] = "gone"]
    BY <1>3 DEF Reap, WaitAny
  <2>2. \A u \in Tasks : stage[u] = "none" => stage'[u] = "none"
    BY <2>1, TypeParts DEF StageType
  <2> QED
    BY <1>1, <1>2, <2>2, SameTokens
<1>4. CASE Pipes(t) \/ SignalNext(t) \/ DrainNext(t)
  <2>1. UNCHANGED stage
    BY <1>4 DEF Pipes, SignalNext, DrainNext
  <2> QED
    BY <1>1, <1>2, <2>1, SameTokens
<1> QED
  BY <1>3, <1>4

LEMMA TaskTokens ==
  ASSUME TypeOK, Tokens, NEW t \in Tasks,
         Boot(t) \/ Fire(t) \/ WriteHalf(t) \/ End(t) \/ TaskKilled(t) \/ Terminated(t)
  PROVE  Tokens'
<1>1. UNCHANGED <<inq, stdin, writing, todo, forced>>
  BY DEF Boot, Fire, WriteHalf, End, TaskKilled, Terminated, Elsewhere, mainVars, cookerVars
<1>2. Lines' = Lines
  BY <1>1 DEF Lines, Line
<1>3. stage[t] # "none" /\ \E place : stage' = [stage EXCEPT ![t] = place]
  BY DEF Boot, Fire, WriteHalf, End, TaskKilled, Terminated, Becomes, Alive, Grouped
<1>4. \A u \in Tasks : stage[u] = "none" => stage'[u] = "none"
  BY <1>3, TypeParts DEF StageType
<1> QED
  BY <1>1, <1>2, <1>4, SameTokens

LEMMA CookerTokens ==
  ASSUME TypeOK, TypeOK', Tokens, RunTask \/ FinishNow \/ Quit \/ CookerKilled
  PROVE  Tokens'
<1>1. UNCHANGED <<inq, stdin, stage>>
  BY DEF RunTask, FinishNow, Quit, CookerKilled, Rest, mainVars, childVars
<1>2. CASE RunTask
  <2>1. PICK t \in todo : Writes(t) /\ todo' = todo \ {t} /\ UNCHANGED forced
    BY <1>2 DEF RunTask
  <2>2. t \in Commands /\ t \in Tasks /\ t # "finishnow"
    BY TypeParts, WorkerAssumption DEF CookerType, Commands
  <2> QED
    BY <1>1, <2>1, <2>2, WritesTokens
<1>3. CASE FinishNow
  <2>1. Writes("finishnow") /\ forced' = TRUE /\ UNCHANGED todo
    BY <1>3 DEF FinishNow
  <2>2. "finishnow" \in Commands /\ "finishnow" \notin Tasks
    BY WorkerAssumption DEF Commands
  <2> QED
    BY <1>1, <2>1, <2>2, WritesTokens
<1>4. CASE Quit
  <2>1. Writes("quit") /\ UNCHANGED <<todo, forced>>
    BY <1>4 DEF Quit
  <2>2. "quit" \in Commands /\ "quit" \notin Tasks /\ "quit" # "finishnow"
    BY WorkerAssumption DEF Commands
  <2> QED
    BY <1>1, <2>1, <2>2, WritesTokens
<1>5. CASE CookerKilled
  <2>1. writing' = None /\ UNCHANGED <<todo, forced>>
    BY <1>5 DEF CookerKilled
  <2> QED
    BY <1>1, <2>1, LosesTokens
<1> QED
  BY <1>2, <1>3, <1>4, <1>5

LEMMA QuietTokens ==
  ASSUME TypeOK, Tokens, Read \/ Flush \/ UNCHANGED vars
  PROVE  Tokens'
<1>1. UNCHANGED <<inq, stdin, writing, todo, forced, stage>>
  BY DEF Read, Flush, vars, mainVars, childVars, cookerVars
<1>2. Lines' = Lines
  BY <1>1 DEF Lines, Line
<1> QED
  BY <1>1, <1>2, SameTokens

\* All steps together.
LEMMA StepTokens ==
  ASSUME TypeOK, TypeOK', Tokens, [Next]_vars
  PROVE  Tokens'
<1>1. CASE RunTask \/ FinishNow \/ Quit \/ CookerKilled
  BY <1>1, CookerTokens
<1>2. CASE Written
  BY <1>2, WrittenTokens
<1>3. CASE Read \/ Flush \/ UNCHANGED vars
  BY <1>3, QuietTokens
<1>4. CASE Select
  BY <1>4, SelectTokens
<1>5. CASE HandleFinishNow \/ HandleQuit
  BY <1>5, HandleOtherTokens
<1>6. CASE \/ ItemsDone \/ PipesDone \/ Reaped \/ SignalsDone \/ Finished \/ Join
           \/ WorkerKilled
  <2>1. UNCHANGED <<inq, stdin, writing, todo, forced, stage>>
    BY <1>6 DEF ItemsDone, PipesDone, Reaped, SignalsDone, Finished, Join, WorkerKilled,
                Outside, cookerVars, childVars
  <2>2. Lines' = Lines
    BY <2>1 DEF Lines, Line
  <2> QED
    BY <2>1, <2>2, SameTokens
<1>7. ASSUME NEW t \in Tasks, HandleRunTask(t) PROVE Tokens'
  BY <1>7, HandleRunTaskTokens
<1>8. ASSUME NEW t \in Tasks,
             Pipes(t) \/ Reap(t) \/ SignalNext(t) \/ WaitAny(t) \/ DrainNext(t)
      PROVE  Tokens'
  BY <1>8, ChildrenTokens
<1>9. ASSUME NEW t \in Tasks,
             Boot(t) \/ Fire(t) \/ WriteHalf(t) \/ End(t) \/ TaskKilled(t) \/ Terminated(t)
      PROVE  Tokens'
  BY <1>9, TaskTokens
<1> QED
  BY <1>1, <1>2, <1>3, <1>4, <1>5, <1>6, <1>7, <1>8, <1>9 DEF Next, Main, Cooker, Child

LEMMA StepFlow ==
  ASSUME FlowInv, [Next]_vars
  PROVE  FlowInv'
<1>1. TypeInv' /\ TypeOK /\ TypeOK'
  BY NextType, SameType DEF FlowInv, TypeInv
<1>2. Tokens'
  BY <1>1, StepTokens DEF FlowInv
<1>3. Flow' /\ Places'
  <2>1. CASE RunTask \/ FinishNow \/ Quit \/ Written \/ CookerKilled
    BY <1>1, <2>1, CookerFlow
  <2>2. CASE Read
    BY <1>1, <2>2, ReadFlow
  <2>3. CASE Flush
    BY <1>1, <2>3, FlushFlow
  <2>4. CASE \/ Select \/ HandleFinishNow \/ HandleQuit \/ ItemsDone \/ PipesDone \/ Reaped
             \/ SignalsDone
    BY <1>1, <2>4, MainFlow
  <2>5. CASE \/ Finished \/ Join \/ WorkerKilled
             \/ \E t \in Tasks : SignalNext(t) \/ WaitAny(t)
    BY <1>1, <2>5, StopFlow
  <2>6. ASSUME NEW t \in Tasks, HandleRunTask(t) PROVE Flow' /\ Places'
    BY <1>1, <2>6, HandleRunTaskFlow
  <2>7. ASSUME NEW t \in Tasks, Pipes(t) \/ DrainNext(t) \/ Reap(t) PROVE Flow' /\ Places'
    BY <1>1, <2>7, ReadingFlow
  <2>8. ASSUME NEW t \in Tasks,
               Boot(t) \/ Fire(t) \/ WriteHalf(t) \/ End(t) \/ TaskKilled(t)
        PROVE  Flow' /\ Places'
    BY <1>1, <2>8, TaskFlow
  <2>9. ASSUME NEW t \in Tasks, Terminated(t) PROVE Flow' /\ Places'
    BY <1>1, <2>9, TerminatedFlow
  <2>10. CASE UNCHANGED vars
    <3>1. /\ UNCHANGED <<got, out, queue, taken, part, term, stage, wrote, worker>>
          /\ UNCHANGED <<cooker, forced, dying>>
      BY <2>10 DEF vars, mainVars, childVars, cookerVars
    <3>2. Calm' <=> Calm
      BY <3>1 DEF Calm
    <3>3. Places'
      BY <3>1, <3>2 DEF FlowInv, Places
    <3>4. Flow'
      BY <1>1, <3>1, <3>2, SameFlow DEF FlowInv
    <3> QED
      BY <3>3, <3>4
  <2> QED
    BY <2>1, <2>2, <2>3, <2>4, <2>5, <2>6, <2>7, <2>8, <2>9, <2>10 DEF Next, Main, Cooker, Child
<1> QED
  BY <1>1, <1>2, <1>3 DEF FlowInv

\* What the worker passes on of each task comes in order, whole and with the exit code last,
\* for any number of tasks and events and pipes of any size, whatever is killed and whenever;
\* and as long as nobody is stopped by force, nothing is missing before the exit code.
THEOREM EventsPassed == Spec => []EventsThenExit
<1>1. Init => FlowInv
  BY InitFlow
<1>2. FlowInv /\ [Next]_vars => FlowInv'
  BY StepFlow
<1>3. FlowInv => EventsThenExit
  BY FlowIsRight
<1> QED
  BY <1>1, <1>2, <1>3, PTL DEF Spec
=============================================================================
