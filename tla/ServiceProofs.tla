--------------------------- MODULE ServiceProofs ----------------------------
(***************************************************************************)
(* The services that builds share.  The PR server never gives a smaller    *)
(* value than before, nor one value to two checksums, for any number of    *)
(* clients, checksums, values and restarts.  The hash equivalence server   *)
(* stands by the unihashes it gave, for any number of clients,             *)
(* taskhashes, marks, resends and lost connections.                        *)
(***************************************************************************)
EXTENDS PRServ, HashServ, WellFoundedInduction, TLAPS

-----------------------------------------------------------------------------
(* PR server                                                               *)

\* A value the table holds or has grown beyond.
Covered(v) == v = -1 \/ \E s \in Checksums : table[s] >= v

Gets(c) == at[c] = "done" /\ req[c].op = "get"

\* What is not dirty is committed; what builds know, or will once their reply arrives, is
\* covered by the table.
Kept ==
  /\ ~dirty => table = disk
  /\ \A c \in Clients : Gets(c) => ans[c] \in Nat
  /\ ~lost => /\ Covered(told)
              /\ \A c \in Clients : floor[c] <= told
              /\ \A c \in Clients : Gets(c) => Covered(ans[c])
              /\ \A c \in Clients : ~Backwards(c)

\* The values that checksum s has, or that a build was given or will be.
KnownValues(s) == given[s]
    \cup {ans[c] : c \in {d \in Clients : Gets(d) /\ req[d].sum = s}}
                     \cup ({table[s]} \ {-1})

Apart ==
  lost \/ imported \/
    /\ \A s \in Checksums, v \in Nat : v \in KnownValues(s) => Covered(v)
    /\ \A s, t \in Checksums : s # t => KnownValues(s) \cap KnownValues(t) = {}

PRInv == TypeOK /\ Kept /\ Apart

LEMMA InitPRInv == Init => PRInv
<1> SUFFICES ASSUME Init PROVE PRInv
  OBVIOUS
<1> USE ImportsAssumption, RetriesAssumption
<1>1. TypeOK
  <2>1. table \in [Checksums -> Values] /\ disk \in [Checksums -> Values]
    BY DEF Init, Values
  <2>2. req \in [Clients -> Requests \cup {NoReq}]
            /\ ans \in [Clients -> Nat \cup {NoReply}]
    BY DEF Init
  <2>3. tries \in [Clients -> 0..Retries] /\ floor \in [Clients -> Values]
        /\ given \in [Checksums -> SUBSET Nat] /\ told \in Values
    BY DEF Init, Values
  <2> QED
    BY <2>1, <2>2, <2>3 DEF Init, TypeOK
<1>2. Kept
  BY DEF Init, Kept, Covered, Gets, Backwards, NoReq
<1>3. \A s \in Checksums : KnownValues(s) = {}
  BY DEF Init, KnownValues, Gets
<1>4. Apart
  BY <1>3 DEF Apart
<1> QED
  BY <1>1, <1>2, <1>4 DEF PRInv

LEMMA ReqType ==
  ASSUME TypeOK, NEW c \in Clients
  PROVE  /\ req[c].op = "get" => req[c].sum \in Checksums
         /\ req[c].op = "import" => req[c].sum \in Checksums /\ req[c].value \in Nat
         /\ NoReply \notin Nat
<1>0. NoReply \notin Nat
  BY ImportsAssumption
<1>1. req[c] \in Requests \cup {NoReq}
  BY DEF TypeOK
<1>2. CASE req[c] = NoReq
  <2>1. req[c].op = "none"
    BY <1>2 DEF NoReq
  <2> QED
    BY <2>1, <1>0
<1>3. CASE req[c] \in Requests
  <2>1. req[c].op = "get" => req[c] \in [op : {"get"}, sum : Checksums, value : {NoReply}]
    BY <1>3 DEF Requests
  <2>2. req[c].op = "import"
            => req[c] \in [op : {"import"}, sum : Checksums, value : Imports]
    BY <1>3 DEF Requests
  <2> QED
    BY <2>1, <2>2, <1>0, ImportsAssumption
<1> QED
  BY <1>1, <1>2, <1>3

\* What the actions of a client write has its type.
LEMMA TypeStep == TypeOK /\ Kept /\ [Next]_vars => TypeOK'
<1> SUFFICES ASSUME TypeOK, Kept, [Next]_vars PROVE TypeOK'
  OBVIOUS
<1> USE ImportsAssumption, RetriesAssumption DEF TypeOK, requests, history, Values
<1>1. ASSUME NEW c \in Clients, Ask(c) PROVE TypeOK'
  BY <1>1 DEF Ask
<1>2. ASSUME NEW c \in Clients, Get(c) PROVE TypeOK'
  <2>1. PICK m \in Tops :
          /\ IsMax(m)
          /\ IF table[req[c].sum] # -1 /\ table[req[c].sum] >= m
             THEN Reply(c, table[req[c].sum]) /\ UNCHANGED <<table, dirty>>
             ELSE /\ Reply(c, m + 1) /\ table' = [table EXCEPT ![req[c].sum] = m + 1]
                  /\ dirty' = TRUE
    BY <1>2 DEF Get
  <2>2. m \in Values /\ m + 1 \in Nat
    BY DEF Tops
  <2>3. req[c].sum \in Checksums
    BY <1>2, ReqType DEF Get
  <2>4. table' \in [Checksums -> Values] /\ dirty' \in BOOLEAN
        /\ at' \in [Clients -> {"idle", "sent", "done", "lost"}]
        /\ ans' \in [Clients -> Nat \cup {NoReply}]
    BY <2>1, <2>2, <2>3 DEF Reply
  <2> QED
    BY <1>2, <2>4 DEF Get
<1>3. ASSUME NEW c \in Clients, FindMax(c) PROVE TypeOK'
  BY <1>3 DEF FindMax, Reply, Tops
<1>4. ASSUME NEW c \in Clients, Import(c) PROVE TypeOK'
  <2>1. req[c].sum \in Checksums /\ req[c].value \in Nat
    BY <1>4, ReqType DEF Import
  <2>2. table' \in [Checksums -> Values] /\ table'[req[c].sum] \in Nat
    BY <1>4, <2>1 DEF Import
  <2> QED
    BY <1>4, <2>1, <2>2 DEF Import, Reply
<1>5. ASSUME NEW c \in Clients, Deliver(c) PROVE TypeOK'
  <2>1. CASE req[c].op = "get"
    <3>1. ans[c] \in Nat /\ req[c].sum \in Checksums
      BY <1>5, <2>1, ReqType DEF Deliver, Kept, Gets
    <3> QED
      BY <1>5, <2>1, <3>1 DEF Deliver
  <2> QED
    BY <1>5, <2>1 DEF Deliver
<1>6. ASSUME NEW c \in Clients, Lose(c) PROVE TypeOK'
  BY <1>6 DEF Lose
<1>7. ASSUME NEW c \in Clients, Resend(c) PROVE TypeOK'
  BY <1>7 DEF Resend
<1>8. ASSUME HandlerFails \/ Signal \/ Stop \/ Kill \/ Start PROVE TypeOK'
  BY <1>8 DEF HandlerFails, Signal, Stop, Kill, Start
<1>9. CASE UNCHANGED vars
  BY <1>9 DEF vars
<1> QED
  BY <1>1, <1>2, <1>3, <1>4, <1>5, <1>6, <1>7, <1>8, <1>9 DEF Next

-----------------------------------------------------------------------------
(* No value is taken back                                                  *)

\* What is covered stays covered in a table that only grows.
LEMMA Grow ==
  ASSUME TypeOK, TypeOK', \A s \in Checksums : table'[s] >= table[s],
         NEW v \in Values, Covered(v)
  PROVE  Covered(v)'
<1>1. CASE v = -1
  BY <1>1 DEF Covered
<1>2. CASE v # -1
  <2>1. PICK s \in Checksums : table[s] >= v
    BY <1>2 DEF Covered
  <2>2. table'[s] >= v
    BY <2>1 DEF TypeOK, Values
  <2> QED
    BY <2>2 DEF Covered
<1> QED
  BY <1>1, <1>2

\* The greatest value of the table covers all others.
LEMMA MaxCovers ==
  ASSUME TypeOK, NEW m \in Tops, IsMax(m), NEW v \in Values, Covered(v)
  PROVE  v <= m
<1>1. m \in Values
  BY DEF Tops, TypeOK, Values
<1>2. CASE v = -1
  BY <1>1, <1>2 DEF Values
<1>3. CASE v # -1
  <2>1. PICK s \in Checksums : table[s] >= v
    BY <1>3 DEF Covered
  <2>2. table[s] <= m /\ table[s] \in Values
    BY DEF IsMax, TypeOK
  <2> QED
    BY <1>1, <2>1, <2>2 DEF Values
<1> QED
  BY <1>2, <1>3

\* Get replies with a value that covers all others, and the table grows by it.
LEMMA GetStep ==
  ASSUME TypeOK, Kept, NEW c \in Clients, Get(c), TypeOK'
  PROVE  /\ \A s \in Checksums : table'[s] >= table[s]
         /\ at' = [at EXCEPT ![c] = "done"] /\ ans'[c] \in Nat
         /\ \A d \in Clients \ {c} : ans'[d] = ans[d]
         /\ table'[req[c].sum] = ans'[c]
         /\ \A s \in Checksums \ {req[c].sum} : table'[s] = table[s]
         /\ \A v \in Values : Covered(v) => v <= ans'[c]
         /\ ans'[c] = table[req[c].sum] \/ \A v \in Values : Covered(v) => v < ans'[c]
         /\ ~dirty' => ~dirty /\ table' = table
<1> DEFINE s == req[c].sum
<1>1. s \in Checksums
  BY ReqType DEF Get
<1>2. PICK m \in Tops :
        /\ IsMax(m)
        /\ IF table[s] # -1 /\ table[s] >= m
           THEN Reply(c, table[s]) /\ UNCHANGED <<table, dirty>>
           ELSE Reply(c, m + 1) /\ table' = [table EXCEPT ![s] = m + 1] /\ dirty' = TRUE
  BY DEF Get
<1>3. m \in Values /\ table[s] \in Values /\ table[s] <= m
  <2>1. m \in Values
    BY <1>2 DEF Tops, TypeOK, Values
  <2>2. table[s] \in Values /\ table[s] <= m
    BY <1>1, <1>2 DEF TypeOK, IsMax
  <2> QED
    BY <2>1, <2>2
<1>4. \A v \in Values : Covered(v) => v <= m
  BY <1>2, MaxCovers
<1>5. CASE table[s] # -1 /\ table[s] >= m
  <2>1. Reply(c, table[s]) /\ UNCHANGED <<table, dirty>>
    BY <1>2, <1>5
  <2>2. \A t \in Checksums : table[t] >= table[t]
    BY DEF TypeOK, Values
  <2>3. table[s] = m /\ table[s] \in Nat
    BY <1>3, <1>5 DEF Values
  <2> QED
    BY <1>1, <1>4, <2>1, <2>2, <2>3 DEF Reply, TypeOK
<1>6. CASE ~(table[s] # -1 /\ table[s] >= m)
  <2>1. Reply(c, m + 1) /\ table' = [table EXCEPT ![s] = m + 1] /\ dirty' = TRUE
    BY <1>2, <1>6
  <2>2. m + 1 \in Nat /\ table[s] <= m + 1 /\ \A v \in Values : Covered(v) => v < m + 1
    BY <1>3, <1>4 DEF Values
  <2>3. \A t \in Checksums : table'[t] = IF t = s THEN m + 1 ELSE table[t]
    BY <2>1 DEF TypeOK
  <2>4. \A t \in Checksums : table'[t] >= table[t]
    BY <2>2, <2>3, <1>3 DEF TypeOK, Values
  <2>5. ans'[c] = m + 1 /\ \A d \in Clients \ {c} : ans'[d] = ans[d]
    BY <2>1 DEF Reply, TypeOK
  <2>6. \A v \in Values : Covered(v) => v <= m + 1
    BY <1>3, <1>4 DEF Values
  <2> QED
    BY <1>1, <2>1, <2>2, <2>3, <2>4, <2>5, <2>6 DEF Reply
<1> QED
  BY <1>5, <1>6

\* A step that leaves requests and history alone and keeps the table, or a committed one.
LEMMA KeptServer ==
  ASSUME TypeOK, Kept, HandlerFails \/ Signal \/ Stop \/ Kill \/ Start
  PROVE  Kept' /\ (~lost' => ~lost /\ table' = table)
<1> USE DEF requests, history
<1>1. UNCHANGED <<requests, history>> /\ (~dirty' => table' = disk')
  BY DEF HandlerFails, Signal, Stop, Kill, Start, Kept
<1>2. ~lost' => ~lost /\ table' = table
  BY DEF HandlerFails, Signal, Stop, Kill, Start, Kept
<1>3. ~lost' => /\ Covered(told)'
                /\ \A c \in Clients : floor'[c] <= told'
                /\ \A c \in Clients : Gets(c)' => Covered(ans[c])'
                /\ \A c \in Clients : ~Backwards(c)'
  BY <1>1, <1>2 DEF Kept, Covered, Gets, Backwards
<1>4. \A c \in Clients : Gets(c)' => ans'[c] \in Nat
  BY <1>1 DEF Kept, Gets
<1> QED
  BY <1>1, <1>2, <1>3, <1>4 DEF Kept

\* A step of client c that keeps the table or lets it grow, whose reply is at least what
\* anybody was told.
LEMMA KeptClient ==
  ASSUME TypeOK, TypeOK', Kept, NEW c \in Clients,
         \A s \in Checksums : table'[s] >= table[s],
         ~dirty' => ~dirty /\ table' = table, UNCHANGED <<disk, req, told, floor, lost>>,
         at' = [at EXCEPT ![c] = "done"],
         \A d \in Clients \ {c} : ans'[d] = ans[d],
         req[c].op = "get" => ans'[c] \in Nat /\ Covered(ans[c])',
         ~lost /\ req[c].op # "import" /\ told # -1 => ans'[c] \in Nat /\ ans'[c] >= told
  PROVE  Kept'
<1>1. ~dirty' => table' = disk'
  BY DEF Kept
<1>2. ASSUME NEW d \in Clients, Gets(d)' PROVE ans'[d] \in Nat
  BY <1>2 DEF Kept, Gets, TypeOK
<1>3. ASSUME ~lost'
      PROVE  /\ Covered(told)'
             /\ \A d \in Clients : floor'[d] <= told'
             /\ \A d \in Clients : Gets(d)' => Covered(ans[d])'
             /\ \A d \in Clients : ~Backwards(d)'
  <2>1. Covered(told)'
    <3>1. told \in Values /\ Covered(told)
      BY <1>3 DEF Kept, TypeOK
    <3>2. ASSUME NEW v \in Values, Covered(v) PROVE Covered(v)'
      BY <3>2, Grow
    <3> QED
      BY <3>1, <3>2 DEF Covered
  <2>2. \A d \in Clients : floor'[d] <= told'
    BY <1>3 DEF Kept
  <2>3. ASSUME NEW d \in Clients, Gets(d)' PROVE Covered(ans[d])'
    <3>1. CASE d = c
      BY <2>3, <3>1 DEF Gets
    <3>2. CASE d # c
      <4>1. Gets(d) /\ ans[d] \in Values /\ Covered(ans[d]) /\ ans'[d] = ans[d]
        BY <1>3, <2>3, <3>2 DEF Gets, Kept, TypeOK, Values
      <4>2. ASSUME NEW v \in Values, Covered(v) PROVE Covered(v)'
        BY <4>2, Grow
      <4> QED
        BY <4>1, <4>2 DEF Covered
    <3> QED
      BY <3>1, <3>2
  <2>4. ASSUME NEW d \in Clients PROVE ~Backwards(d)'
    <3>1. CASE d # c
      BY <1>3, <3>1 DEF Backwards, Kept, TypeOK
    <3>2. CASE d = c /\ req[c].op # "import" /\ floor[c] # -1
      <4>1. told \in Values /\ floor[c] \in Values /\ floor[c] <= told
        BY <1>3 DEF Kept, TypeOK
      <4>2. told # -1 /\ NoReply \notin Nat
        BY <4>1, <3>2, ImportsAssumption DEF Values
      <4>3. ans'[c] \in Nat /\ ans'[c] >= floor[c]
        BY <1>3, <4>1, <4>2, <3>2 DEF Values
      <4> QED
        BY <3>2, <4>2, <4>3, <4>1 DEF Backwards, Values
    <3> QED
      BY <3>1, <3>2 DEF Backwards
  <2> QED
    BY <2>1, <2>2, <2>3, <2>4
<1> QED
  BY <1>1, <1>2, <1>3 DEF Kept

\* A step of client c that takes no value from the table and no reply with it.
LEMMA KeptAsk ==
  ASSUME TypeOK, Kept, NEW c \in Clients, Ask(c) \/ Lose(c) \/ Resend(c)
  PROVE  Kept' /\ UNCHANGED <<table, told, given, lost, imported>>
         /\ \A d \in Clients : Gets(d)' => Gets(d) /\ ans'[d] = ans[d] /\ req'[d] = req[d]
<1> USE DEF history
<1>1. \A d \in Clients : at'[d] = "done" =>
        d # c /\ at[d] = "done" /\ ans'[d] = ans[d] /\ req'[d] = req[d]
            /\ floor'[d] = floor[d]
  BY DEF Ask, Lose, Resend, TypeOK
<1>2. UNCHANGED <<table, disk, dirty, told, given, lost, imported>>
  BY DEF Ask, Lose, Resend
<1>3. ~lost => \A d \in Clients : floor'[d] <= told'
  <2>1. told \in Values /\ told <= told
    BY DEF TypeOK, Values
  <2> QED
    BY <2>1 DEF Ask, Lose, Resend, Kept, TypeOK
<1>4. \A d \in Clients : Gets(d)' => Gets(d) /\ ans'[d] = ans[d] /\ req'[d] = req[d]
  BY <1>1 DEF Gets
<1>5. ~lost => \A d \in Clients : ~Backwards(d)'
  BY <1>1 DEF Kept, Backwards
<1>6. ~lost => Covered(told)' /\ \A d \in Clients : Gets(d)' => Covered(ans[d])'
  BY <1>2, <1>4 DEF Kept, Covered
<1> QED
  BY <1>2, <1>3, <1>4, <1>5, <1>6 DEF Kept

LEMMA KeptDeliver ==
  ASSUME TypeOK, Kept, NEW c \in Clients, Deliver(c)
  PROVE  Kept'
<1>1. UNCHANGED <<table, disk, dirty, floor, lost>> /\ at'[c] = "idle"
      /\ \A d \in Clients \ {c} : at'[d] = at[d] /\ ans'[d] = ans[d] /\ req'[d] = req[d]
  BY DEF Deliver, TypeOK
<1>2. \A d \in Clients : Gets(d)' => d # c /\ Gets(d) /\ ans'[d] = ans[d]
  BY <1>1 DEF Gets
<1>3. ~lost => \A d \in Clients : ~Backwards(d)'
  BY <1>1 DEF Kept, Backwards
<1>4. ~lost => Covered(told)' /\ \A d \in Clients : floor'[d] <= told'
  <2>1. told \in Values /\ \A d \in Clients : floor[d] \in Values
    BY DEF TypeOK
  <2>2. CASE req[c].op = "get"
    <3>1. ans[c] \in Nat /\ (~lost => Covered(ans[c]))
      BY <2>2 DEF Deliver, Kept, Gets
    <3>2. told' = IF ans[c] > told THEN ans[c] ELSE told
      BY <2>2 DEF Deliver
    <3>3. ~lost => Covered(told)'
      BY <1>1, <3>1, <3>2 DEF Kept, Covered
    <3>4. ~lost => \A d \in Clients : floor'[d] <= told'
      BY <1>1, <2>1, <3>1, <3>2 DEF Kept, Values
    <3> QED
      BY <3>3, <3>4
  <2>3. CASE req[c].op # "get"
    BY <1>1, <2>3 DEF Deliver, Kept, Covered
  <2> QED
    BY <2>2, <2>3
<1>5. ~lost => \A d \in Clients : Gets(d)' => Covered(ans[d])'
  BY <1>1, <1>2 DEF Kept, Covered
<1> QED
  BY <1>1, <1>2, <1>3, <1>4, <1>5 DEF Kept

LEMMA KeptStep == TypeOK /\ TypeOK' /\ Kept /\ [Next]_vars => Kept'
<1> SUFFICES ASSUME TypeOK, TypeOK', Kept, [Next]_vars PROVE Kept'
  OBVIOUS
<1>1. ASSUME NEW c \in Clients, Get(c) PROVE Kept'
  <2>1. /\ \A s \in Checksums : table'[s] >= table[s]
        /\ at' = [at EXCEPT ![c] = "done"] /\ ans'[c] \in Nat
        /\ \A d \in Clients \ {c} : ans'[d] = ans[d]
        /\ table'[req[c].sum] = ans'[c]
        /\ \A v \in Values : Covered(v) => v <= ans'[c]
        /\ ~dirty' => ~dirty /\ table' = table
    BY <1>1, GetStep
  <2>2. UNCHANGED <<disk, req, told, floor, lost>> /\ req[c].sum \in Checksums
    BY <1>1, ReqType DEF Get, history
  <2>3. Covered(ans[c])'
    <3>1. table'[req[c].sum] >= ans'[c]
      BY <2>1
    <3> QED
      BY <2>2, <3>1 DEF Covered
  <2>4. ~lost => ans'[c] >= told
    BY <2>1 DEF Kept, TypeOK, Values
  <2> QED
    BY <2>1, <2>2, <2>3, <2>4, KeptClient
<1>2. ASSUME NEW c \in Clients, FindMax(c) PROVE Kept'
  <2>1. PICK m \in Tops : IsMax(m) /\ Reply(c, IF m = -1 THEN NoReply ELSE m)
    BY <1>2 DEF FindMax
  <2>2. UNCHANGED <<table, dirty, disk, req, told, floor, lost>> /\ req[c].op = "max"
    BY <1>2 DEF FindMax, history
  <2>3. \A s \in Checksums : table'[s] >= table[s]
    BY <2>2 DEF TypeOK, Values
  <2>4. ans'[c] = (IF m = -1 THEN NoReply ELSE m) /\ at' = [at EXCEPT ![c] = "done"]
        /\ \A d \in Clients \ {c} : ans'[d] = ans[d]
    BY <2>1 DEF Reply, TypeOK
  <2>5. ~lost /\ told # -1 => ans'[c] \in Nat /\ ans'[c] >= told
    <3>1. told \in Values /\ m \in Values
      BY <2>1 DEF TypeOK, Tops, Values
    <3>2. ~lost => told <= m
      BY <2>1, <3>1, MaxCovers DEF Kept
    <3> QED
      BY <2>4, <3>1, <3>2 DEF Values
  <2> QED
    BY <2>2, <2>3, <2>4, <2>5, KeptClient
<1>3. ASSUME NEW c \in Clients, Import(c) PROVE Kept'
  <2>1. req[c].sum \in Checksums /\ req[c].value \in Nat /\ req[c].op = "import"
    BY <1>3, ReqType DEF Import
  <2>2. \A s \in Checksums : table'[s] >= table[s]
    BY <1>3, <2>1 DEF Import, TypeOK, Values
  <2>3. UNCHANGED <<disk, req, told, floor, lost>> /\ dirty'
        /\ at' = [at EXCEPT ![c] = "done"] /\ \A d \in Clients \ {c} : ans'[d] = ans[d]
    BY <1>3 DEF Import, Reply, TypeOK
  <2> QED
    BY <2>1, <2>2, <2>3, KeptClient
<1>4. CASE UNCHANGED vars
  BY <1>4 DEF Kept, Covered, Gets, Backwards, vars, requests, history
<1> QED
  BY <1>1, <1>2, <1>3, <1>4, KeptAsk, KeptDeliver, KeptServer DEF Next

-----------------------------------------------------------------------------
(* No value is given to two checksums                                      *)

\* Nothing new is known, and the table does not shrink.
LEMMA ApartSame ==
  ASSUME Apart, (~lost /\ ~imported)' => ~lost /\ ~imported /\ table' = table,
         \A s \in Checksums : KnownValues(s)' \subseteq KnownValues(s)
  PROVE  Apart'
<1> SUFFICES ASSUME ~lost', ~imported' PROVE Apart'
  BY DEF Apart
<1>1. \A v : Covered(v) => Covered(v)'
  BY DEF Covered
<1> QED
  BY <1>1 DEF Apart

\* A checksum becomes known with its value in the table or with one greater than any.
LEMMA ApartGet ==
  ASSUME TypeOK, TypeOK', Kept, Apart, NEW c \in Clients, Get(c)
  PROVE  Apart'
<1>0. PICK s \in Checksums : s = req[c].sum
  BY ReqType DEF Get
<1>1. /\ \A t \in Checksums : table'[t] >= table[t]
      /\ at' = [at EXCEPT ![c] = "done"] /\ ans'[c] \in Nat
      /\ \A d \in Clients \ {c} : ans'[d] = ans[d]
      /\ table'[s] = ans'[c]
      /\ \A t \in Checksums \ {s} : table'[t] = table[t]
      /\ ans'[c] = table[s] \/ \A v \in Values : Covered(v) => v < ans'[c]
  BY <1>0, GetStep
<1>2. UNCHANGED <<req, given, lost, imported>> /\ req[c].op = "get"
  BY DEF Get, history
<1>3. \A d \in Clients \ {c} : Gets(d)' <=> Gets(d)
  BY <1>1, <1>2 DEF Gets, TypeOK
<1>4. KnownValues(s)' \subseteq KnownValues(s) \cup {ans'[c]}
  BY <1>0, <1>1, <1>2, <1>3 DEF KnownValues
<1>5. \A t \in Checksums \ {s} : KnownValues(t)' \subseteq KnownValues(t)
  BY <1>0, <1>1, <1>2, <1>3 DEF KnownValues
<1>6. ans'[c] = table[s] => ans'[c] \in KnownValues(s)
  BY <1>1 DEF KnownValues
<1>7. SUFFICES ASSUME ~lost, ~imported PROVE Apart'
  BY <1>2 DEF Apart
<1>8. ASSUME NEW t \in Checksums, NEW v \in Nat, v \in KnownValues(t)' PROVE Covered(v)'
  <2>1. CASE v = ans'[c]
    <3>1. table'[s] >= v
      BY <1>1, <2>1
    <3> QED
      BY <1>2, <3>1 DEF Covered
  <2>2. CASE v # ans'[c]
    <3>1. v \in KnownValues(t)
      <4>1. CASE t = s
        BY <1>4, <1>8, <2>2, <4>1
      <4>2. CASE t # s
        BY <1>5, <1>8, <4>2
      <4> QED
        BY <4>1, <4>2
    <3>2. Covered(v) /\ v \in Values
      BY <1>7, <3>1 DEF Apart, Values
    <3> QED
      BY <3>2, <1>1, Grow
  <2> QED
    BY <2>1, <2>2
<1>9. ASSUME NEW t \in Checksums \ {s} PROVE ans'[c] \notin KnownValues(t)
  <2>1. CASE ans'[c] = table[s]
    BY <1>2, <1>6, <1>7, <1>9, <2>1 DEF Apart
  <2>2. CASE \A v \in Values : Covered(v) => v < ans'[c]
    <3>1. ans'[c] \in KnownValues(t) => Covered(ans'[c]) /\ ans'[c] \in Values
      BY <1>1, <1>7 DEF Apart, Values
    <3> QED
      BY <1>1, <2>2, <3>1
  <2> QED
    BY <1>1, <2>1, <2>2
<1>10. \A t, u \in Checksums : t # u => KnownValues(t)' \cap KnownValues(u)' = {}
  <2>1. \A t \in Checksums \ {s} : KnownValues(t)' \cap KnownValues(s)' = {}
    BY <1>2, <1>4, <1>5, <1>7, <1>9 DEF Apart
  <2>2. \A t, u \in Checksums \ {s} : t # u => KnownValues(t)' \cap KnownValues(u)' = {}
    BY <1>5, <1>7 DEF Apart
  <2>3. ASSUME NEW t \in Checksums, NEW u \in Checksums, t # u
        PROVE KnownValues(t)' \cap KnownValues(u)' = {}
    <3>1. CASE t = s
      BY <2>1, <2>3, <3>1
    <3>2. CASE u = s
      BY <2>1, <2>3, <3>2
    <3> QED
      BY <2>2, <2>3, <3>1, <3>2
  <2> QED
    BY <2>3
<1> QED
  BY <1>8, <1>10 DEF Apart

LEMMA ApartStep == TypeOK /\ TypeOK' /\ Kept /\ Apart /\ [Next]_vars => Apart'
<1> SUFFICES ASSUME TypeOK, TypeOK', Kept, Apart, [Next]_vars PROVE Apart'
  OBVIOUS
<1>1. ASSUME NEW c \in Clients, Ask(c) \/ Lose(c) \/ Resend(c) PROVE Apart'
  <2>1. UNCHANGED <<table, given, lost, imported>>
        /\ \A d \in Clients : Gets(d)' => Gets(d) /\ ans'[d] = ans[d] /\ req'[d] = req[d]
    BY <1>1, KeptAsk
  <2>2. \A s \in Checksums : KnownValues(s)' \subseteq KnownValues(s)
    BY <2>1 DEF KnownValues
  <2> QED
    BY <2>1, <2>2, ApartSame
<1>2. ASSUME NEW c \in Clients, FindMax(c) PROVE Apart'
  <2>1. req[c].op = "max" /\ UNCHANGED <<table, req, given, lost, imported>>
        /\ \A d \in Clients \ {c} : at'[d] = at[d] /\ ans'[d] = ans[d]
    BY <1>2 DEF FindMax, Reply, TypeOK, history
  <2>2. \A d \in Clients : Gets(d)' => Gets(d) /\ ans'[d] = ans[d]
    BY <2>1 DEF Gets
  <2>3. \A s \in Checksums : KnownValues(s)' \subseteq KnownValues(s)
    BY <2>1, <2>2 DEF KnownValues
  <2> QED
    BY <2>1, <2>3, ApartSame
<1>3. ASSUME NEW c \in Clients, Deliver(c) PROVE Apart'
  <2>1. UNCHANGED <<table, lost, imported>> /\ at'[c] = "idle"
        /\ \A d \in Clients \ {c} : at'[d] = at[d] /\ ans'[d] = ans[d] /\ req'[d] = req[d]
    BY <1>3 DEF Deliver, TypeOK
  <2>2. \A d \in Clients : Gets(d)' => Gets(d) /\ ans'[d] = ans[d] /\ req'[d] = req[d]
    BY <2>1 DEF Gets
  <2>3. \A s \in Checksums :
          given'[s] \subseteq given[s]
              \cup {ans[d] : d \in {e \in Clients : Gets(e) /\ req[e].sum = s}}
    BY <1>3 DEF Deliver, Gets, TypeOK
  <2>4. \A s \in Checksums : KnownValues(s)' \subseteq KnownValues(s)
    BY <2>1, <2>2, <2>3 DEF KnownValues
  <2> QED
    BY <2>1, <2>4, ApartSame
<1>4. ASSUME NEW c \in Clients, Import(c) PROVE Apart'
  BY <1>4 DEF Import, Apart
<1>5. ASSUME HandlerFails \/ Signal \/ Stop \/ Kill \/ Start PROVE Apart'
  <2>1. UNCHANGED <<requests, history>> /\ (~lost' => ~lost /\ table' = table)
    BY <1>5, KeptServer DEF HandlerFails, Signal, Stop, Kill, Start
  <2>2. ~lost' => \A s \in Checksums : KnownValues(s)' \subseteq KnownValues(s)
    BY <2>1 DEF KnownValues, Gets, requests, history
  <2>3. CASE lost'
    BY <2>3 DEF Apart
  <2> QED
    BY <2>1, <2>2, <2>3, ApartSame DEF history
<1>6. CASE UNCHANGED vars
  <2>1. \A s \in Checksums : KnownValues(s)' \subseteq KnownValues(s)
    BY <1>6 DEF KnownValues, Gets, vars, requests, history
  <2> QED
    BY <1>6, <2>1, ApartSame DEF vars, requests, history
<1> QED
  BY <1>1, <1>2, <1>3, <1>4, <1>5, <1>6, ApartGet DEF Next

-----------------------------------------------------------------------------
(* The theorems                                                            *)

\* PRInv is an invariant of the PR server.
THEOREM PRInvariant == Spec => []PRInv
<1>1. PRInv /\ [Next]_vars => PRInv'
  BY TypeStep, KeptStep, ApartStep DEF PRInv
<1> QED
  BY InitPRInv, <1>1, PTL DEF Spec

\* No build is given a smaller revision than another was given before it asked, however
\* often the server is stopped and started again (db.py:27).
THEOREM RevisionsOnlyGrow == Spec => []NeverBackwards
<1>1. PRInv => NeverBackwards
  BY DEF PRInv, Kept, NeverBackwards, NeverDecremented
<1> QED
  BY PRInvariant, <1>1, PTL

\* Two different checksums are never given the same revision.
THEOREM RevisionsAreOwn == Spec => []OwnValues
<1>1. PRInv => OwnValues
  <2>1. \A s \in Checksums : given[s] \subseteq KnownValues(s)
    BY DEF KnownValues
  <2> QED
    BY <2>1 DEF PRInv, Apart, OwnValues
<1> QED
  BY PRInvariant, <1>1, PTL

-----------------------------------------------------------------------------
(* Hash equivalence server                                                 *)

(* What a build may be told of a taskhash. *)
Passed(t) == (IF t \in Known THEN {HashOf(t)} ELSE {})
             \cup (IF setting.upstream THEN {Theirs[t]} ELSE {})

\* Where a request ends in an answer read back, its row is there unless it was deleted;
\* a handler that waits for upstream has one; an answer may be passed on.
RequestOK(c) ==
  /\ stage[c] = "look" => query[c].task \in Known \cup forgotten
  /\ stage[c] \in {"fetch", "stream"} => setting.upstream
  /\ stage[c] = "done" /\ reply[c] # None =>
       query[c].task \in forgotten \/ reply[c] \in Passed(query[c].task)

Shapes ==
  /\ stage = [c \in Builds |-> stage[c]]
  /\ query = [c \in Builds |-> query[c]]
  /\ reply = [c \in Builds |-> reply[c]]
  /\ learnt = [t \in Taskhashes |-> learnt[t]]

ToldInv == Shapes /\ ToldIsRecorded /\ \A c \in Builds : RequestOK(c)

-----------------------------------------------------------------------------
(* No step changes a unihash but by deleting its row.                      *)

RowsKept ==
  /\ setting' = setting /\ forgotten \subseteq forgotten'
  /\ \A t \in Known : t \in forgotten' \/ (t \in Known' /\ HashOf(t)' = HashOf(t))

LEMMA SameRows ==
  ASSUME UNCHANGED <<setting, uni>>, forgotten' = forgotten
  PROVE  RowsKept
  BY DEF RowsKept, Known, HashOf

LEMMA InsertKeeps ==
  ASSUME NEW t, NEW u, NEW by, InsertUnihash(t, u, by), UNCHANGED <<setting, forgotten>>
  PROVE  RowsKept /\ t \in Known'
  BY DEF InsertUnihash, With, RowsKept, Known, HashOf

LEMMA DeleteKeeps ==
  ASSUME NEW tasks, Delete(tasks), UNCHANGED setting
  PROVE  RowsKept
  BY DEF Delete, RowsKept, Known, HashOf

LEMMA MarkKeeps ==
  ASSUME NEW c, Mark(c)
  PROVE  RowsKept
  BY DEF Mark, With, Row, RowsKept, Known, HashOf

LEMMA PassedStays ==
  ASSUME RowsKept, NEW t, t \notin forgotten'
  PROVE  t \notin forgotten /\ Passed(t) \subseteq Passed(t)'
  BY DEF RowsKept, Passed

LEMMA ToldStays ==
  ASSUME RowsKept, ToldIsRecorded, learnt' = learnt
  PROVE  ToldIsRecorded'
<1> SUFFICES ASSUME NEW t \in Taskhashes, t \notin forgotten'
             PROVE  learnt'[t] \subseteq Passed(t)'
  BY DEF ToldIsRecorded, Passed
<1> QED
  BY PassedStays DEF ToldIsRecorded, Passed

LEMMA RequestStays ==
  ASSUME RowsKept, NEW d, RequestOK(d),
         stage'[d] = stage[d], query'[d] = query[d], reply'[d] = reply[d]
  PROVE  RequestOK(d)'
<1>1. stage'[d] = "look" => query'[d].task \in Known' \cup forgotten'
  BY DEF RowsKept, RequestOK
<1>2. stage'[d] \in {"fetch", "stream"} => setting'.upstream
  BY DEF RowsKept, RequestOK
<1>3. stage'[d] = "done" /\ reply'[d] # None =>
        query'[d].task \in forgotten' \/ reply'[d] \in Passed(query[d].task)'
  BY PassedStays DEF RequestOK
<1> QED
  BY <1>1, <1>2, <1>3 DEF RequestOK, Passed, HashOf, Known

\* One client's request moves, and nothing is told.
LEMMA OneMoves ==
  ASSUME ToldInv, RowsKept, learnt' = learnt, NEW c \in Builds, RequestOK(c)',
         \E place : GoTo(c, place),
         query' = query \/ \E r : query' = [query EXCEPT ![c] = r],
         reply' = reply \/ \E x : reply' = [reply EXCEPT ![c] = x]
  PROVE  ToldInv'
<1>1. Shapes'
  BY DEF ToldInv, Shapes, GoTo
<1>2. \A d \in Builds \ {c} :
          stage'[d] = stage[d] /\ query'[d] = query[d] /\ reply'[d] = reply[d]
  BY DEF ToldInv, Shapes, GoTo
<1>3. \A d \in Builds : RequestOK(d)'
  BY <1>2, RequestStays DEF ToldInv
<1> QED
  BY <1>1, <1>3, ToldStays DEF ToldInv

-----------------------------------------------------------------------------
LEMMA ToldInit == HashInit => ToldInv
  BY DEF HashInit, ToldInv, Shapes, ToldIsRecorded, RequestOK

\* To a place of which the invariant says nothing.
LEMMA MovesOn ==
  ASSUME ToldInv, RowsKept, learnt' = learnt, NEW c \in Builds,
         NEW place, place \notin {"look", "fetch", "stream", "done"}, GoTo(c, place),
         query' = query \/ \E r : query' = [query EXCEPT ![c] = r],
         reply' = reply \/ \E x : reply' = [reply EXCEPT ![c] = x]
  PROVE  ToldInv'
<1>1. stage'[c] = place
  BY DEF ToldInv, Shapes, GoTo
<1>2. RequestOK(c)'
  BY <1>1 DEF RequestOK
<1> QED
  BY <1>2, OneMoves

\* To an answer that the invariant allows.
LEMMA Answers ==
  ASSUME ToldInv, RowsKept, learnt' = learnt, query' = query, NEW c \in Builds,
         NEW x, Answer(c, x),
         x # None => query[c].task \in forgotten' \/ x \in Passed(query[c].task)'
  PROVE  ToldInv'
<1>1. stage'[c] = "done" /\ reply'[c] = x
  BY DEF ToldInv, Shapes, Answer, GoTo
<1>2. RequestOK(c)'
  BY <1>1 DEF RequestOK, Passed, HashOf, Known
<1> QED
  BY <1>2, OneMoves DEF Answer

\* To where it waits for upstream.
LEMMA Waits ==
  ASSUME ToldInv, RowsKept, learnt' = learnt, query' = query, reply' = reply,
      NEW c \in Builds,
         setting.upstream, NEW place \in {"fetch", "stream"}, GoTo(c, place)
  PROVE  ToldInv'
<1>1. stage'[c] = place
  BY DEF ToldInv, Shapes, GoTo
<1>2. RequestOK(c)'
  BY <1>1 DEF RequestOK, RowsKept
<1> QED
  BY <1>2, OneMoves

LEMMA HandlerTold ==
  ASSUME ToldInv, NEW c \in Builds, Handler(c)
  PROVE  ToldInv'
<1> DEFINE t == query[c].task
<1>1. CASE ReportRow(c) \/ ReportMatch(c) \/ ReportAsk(c)
  <2>1. RowsKept /\ learnt' = learnt /\ query' = query
    BY <1>1, SameRows DEF ReportRow, ReportMatch, ReportAsk, db, bounds
  <2>2. reply' = reply \/ \E x : reply' = [reply EXCEPT ![c] = x]
    BY <1>1 DEF ReportRow, ReportMatch, ReportAsk
  <2>3. GoTo(c, "match") \/ GoTo(c, "ask") \/ GoTo(c, "record")
    BY <1>1 DEF ReportRow, ReportMatch, ReportAsk
  <2> QED
    BY <2>1, <2>2, <2>3, MovesOn
<1>2. CASE ReportUnihash(c)
  <2>1. RowsKept /\ t \in Known'
    BY <1>2, InsertKeeps DEF ReportUnihash
  <2>2. GoTo(c, "look") /\ UNCHANGED <<query, reply, learnt>>
    BY <1>2 DEF ReportUnihash
  <2>3. RequestOK(c)'
    BY <2>1, <2>2 DEF RequestOK, ToldInv, Shapes, GoTo
  <2> QED
    BY <2>1, <2>2, <2>3, OneMoves
<1>3. CASE EquivInsert(c)
  <2>1. RowsKept
    BY <1>3, InsertKeeps DEF EquivInsert, Handles
  <2> QED
    BY <1>3, <2>1, MovesOn DEF EquivInsert
<1>4. CASE EquivRead(c) \/ Look(c) \/ Stream(c)
  <2>1. RowsKept /\ learnt' = learnt /\ query' = query /\ Known' = Known
            /\ HashOf(t)' = HashOf(t)
    BY <1>4, SameRows DEF EquivRead, Look, Stream, db, bounds, Known, HashOf
  <2>2. CASE t \in Known /\ Answer(c, HashOf(t))
    BY <2>1, <2>2, Answers DEF Passed
  <2>3. CASE Answer(c, None)
    BY <2>1, <2>3, Answers
  <2>4. CASE Hangup(c)
    BY <2>1, <2>4, MovesOn DEF Hangup
  <2>5. CASE setting.upstream /\ (GoTo(c, "fetch") \/ GoTo(c, "stream")) /\ reply' = reply
    BY <2>1, <2>5, Waits
  <2>6. CASE stage[c] = "look" /\ t \notin Known /\ Answer(c, query[c].uni)
    <3>1. t \in forgotten'
      BY <2>1, <2>6 DEF ToldInv, RequestOK, RowsKept
    <3> QED
      BY <2>1, <2>6, <3>1, Answers
  <2>7. EquivRead(c) => (t \in Known /\ Answer(c, HashOf(t))) \/ Hangup(c)
    BY DEF EquivRead
  <2>8. Stream(c) => \/ t \in Known /\ Answer(c, HashOf(t))
                     \/ Answer(c, None)
                     \/ setting.upstream /\ GoTo(c, "stream") /\ reply' = reply
    BY DEF Stream, HashOf
  <2>9. Look(c) => \/ t \in Known /\ Answer(c, HashOf(t))
                   \/ setting.upstream /\ GoTo(c, "fetch") /\ reply' = reply
                   \/ Answer(c, None)
                   \/ stage[c] = "look" /\ t \notin Known /\ Answer(c, query[c].uni)
    BY DEF Look, Handles
  <2> QED
    BY <1>4, <2>2, <2>3, <2>4, <2>5, <2>6, <2>7, <2>8, <2>9
<1>5. CASE Fetch(c)
  <2>1. learnt' = learnt /\ query' = query /\ setting' = setting /\ forgotten' = forgotten
    BY <1>5 DEF Fetch, bounds
  <2>2. RowsKept
    BY <1>5, <2>1, SameRows, InsertKeeps DEF Fetch
  <2>3. CASE Hangup(c)
    BY <2>1, <2>2, <2>3, MovesOn DEF Hangup
  <2>4. CASE Answer(c, Theirs[t])
    <3>1. Theirs[t] \in Passed(t)'
      BY <1>5, <2>1 DEF Fetch, Passed, ToldInv, RequestOK
    <3> QED
      BY <2>1, <2>2, <2>4, <3>1, Answers
  <2> QED
    BY <1>5, <2>3, <2>4 DEF Fetch
<1>6. CASE StreamFetch(c)
  <2>1. RowsKept /\ learnt' = learnt /\ query' = query /\ setting' = setting
    BY <1>6, SameRows DEF StreamFetch, db, bounds
  <2>2. Theirs[t] \in Passed(t)'
    BY <1>6, <2>1 DEF StreamFetch, Passed, ToldInv, RequestOK
  <2> QED
    BY <1>6, <2>1, <2>2, Answers DEF StreamFetch
<1>7. CASE Remove(c) \/ Mark(c) \/ Sweep(c) \/ CleanUnused(c)
  <2>1. RowsKept
    <3>1. CASE Remove(c) \/ Sweep(c)
      BY <3>1, DeleteKeeps DEF Remove, Sweep
    <3>2. CASE CleanUnused(c)
      BY <3>2, SameRows DEF CleanUnused
    <3> QED
      BY <1>7, <3>1, <3>2, MarkKeeps
  <2>2. Answer(c, None) /\ learnt' = learnt /\ query' = query
    BY <1>7 DEF Remove, Mark, Sweep, CleanUnused
  <2> QED
    BY <2>1, <2>2, Answers
<1>8. CASE SweepCheck(c)
  <2>1. RowsKept /\ learnt' = learnt /\ query' = query
    BY <1>8, SameRows DEF SweepCheck, db, bounds
  <2> QED
    BY <1>8, <2>1, Answers, MovesOn DEF SweepCheck
<1> QED
  BY <1>1, <1>2, <1>3, <1>4, <1>5, <1>6, <1>7, <1>8 DEF Handler

LEMMA ClientTold ==
  ASSUME ToldInv, NEW c \in Builds, Send(c) \/ TakeAnswer(c) \/ Break(c) \/ SendAgain(c)
  PROVE  ToldInv'
<1>1. RowsKept
  BY SameRows DEF Send, TakeAnswer, Break, SendAgain, db, bounds
<1>2. CASE Send(c)
  BY <1>1, <1>2, MovesOn DEF Send
<1>3. CASE Break(c)
  BY <1>1, <1>3, MovesOn DEF Break
<1>4. CASE SendAgain(c)
  <2>1. learnt' = learnt /\ (GoTo(c, "sent") \/ GoTo(c, "idle"))
    BY <1>4 DEF SendAgain
  <2>2. /\ query' = query \/ \E r : query' = [query EXCEPT ![c] = r]
        /\ reply' = reply \/ \E x : reply' = [reply EXCEPT ![c] = x]
    BY <1>4 DEF SendAgain
  <2> QED
    BY <1>1, <2>1, <2>2, MovesOn
<1>5. CASE TakeAnswer(c)
  <2>1. Shapes'
    BY <1>5 DEF TakeAnswer, ToldInv, Shapes, GoTo
  <2>2. \A d \in Builds : stage'[d] = (IF d = c THEN "idle" ELSE stage[d])
                           /\ (d # c => query'[d] = query[d] /\ reply'[d] = reply[d])
    BY <1>5 DEF TakeAnswer, ToldInv, Shapes, GoTo
  <2>3. RequestOK(c)'
    BY <2>2 DEF RequestOK
  <2>4. \A d \in Builds : RequestOK(d)'
    BY <1>1, <2>2, <2>3, RequestStays DEF ToldInv
  <2>5. ToldIsRecorded'
    <3> SUFFICES ASSUME NEW t \in Taskhashes, t \notin forgotten'
                 PROVE  learnt'[t] \subseteq Passed(t)'
      BY DEF ToldIsRecorded, Passed
    <3>1. learnt[t] \subseteq Passed(t) /\ t \notin forgotten
      BY <1>1, PassedStays DEF ToldInv, ToldIsRecorded, Passed
    <3>2. CASE learnt'[t] = learnt[t]
      BY <1>1, <3>1, <3>2, PassedStays
    <3>3. CASE reply[c] # None /\ t = query[c].task /\ learnt'[t] = learnt[t]
              \cup {reply[c]}
      <4>1. reply[c] \in Passed(t)
        BY <1>5, <3>1, <3>3 DEF TakeAnswer, ToldInv, RequestOK
      <4> QED
        BY <1>1, <3>1, <3>3, <4>1, PassedStays
    <3> QED
      BY <1>5, <3>2, <3>3 DEF TakeAnswer, ToldInv, Shapes
  <2> QED
    BY <2>1, <2>4, <2>5 DEF ToldInv
<1> QED
  BY <1>2, <1>3, <1>4, <1>5

LEMMA ServerTold ==
  ASSUME ToldInv, Backfill \/ Crash
  PROVE  ToldInv'
<1>1. CASE Backfill
  <2>1. RowsKept
    BY <1>1, InsertKeeps DEF Backfill, bounds
  <2>2. Shapes' /\ \A c \in Builds :
            stage'[c] = stage[c] /\ query'[c] = query[c] /\ reply'[c] = reply[c]
    BY <1>1 DEF Backfill, ToldInv, Shapes
  <2>3. ToldIsRecorded'
    BY <1>1, <2>1, ToldStays DEF Backfill, ToldInv
  <2> QED
    BY <2>1, <2>2, <2>3, RequestStays DEF ToldInv
<1>2. CASE Crash
  <2>1. RowsKept
    BY <1>2, SameRows DEF Crash, db
  <2>2. Shapes' /\ \A c \in Builds : stage'[c] \in {"idle", "lost"}
    BY <1>2 DEF Crash, ToldInv, Shapes
  <2>3. \A c \in Builds : RequestOK(c)'
    BY <2>2 DEF RequestOK
  <2>4. ToldIsRecorded'
    BY <1>2, <2>1, ToldStays DEF Crash, ToldInv
  <2> QED
    BY <2>2, <2>3, <2>4 DEF ToldInv
<1> QED
  BY <1>1, <1>2

LEMMA ToldNext ==
  ASSUME ToldInv, [HashNext]_hashVars
  PROVE  ToldInv'
<1>1. CASE UNCHANGED hashVars
  BY <1>1 DEF hashVars, db, bounds, ToldInv, Shapes, ToldIsRecorded, RequestOK, Passed,
              HashOf, Known
<1> QED
  BY <1>1, HandlerTold, ClientTold, ServerTold DEF HashNext

\* A unihash a build was told is the one recorded until its row is deleted, or what
\* upstream says: handle_report and handle_get read back what INSERT OR IGNORE left.
THEOREM UnihashesStay == HashSpec => []ToldIsRecorded
<1>1. ToldInv => ToldIsRecorded
  BY DEF ToldInv
<1> QED
  BY <1>1, ToldInit, ToldNext, PTL DEF HashSpec

-----------------------------------------------------------------------------
(* Between a sweep's check of the mark and its deletion nothing waits, so  *)
(* that no other handler changes the mark.                                 *)

SweepInv ==
  /\ stage = [c \in Builds |-> stage[c]]
  /\ query = [c \in Builds |-> query[c]]
  /\ \A c \in Builds : stage[c] = "sweep" => mark = query[c].mark

LEMMA SweepInit == HashInit => SweepInv
  BY DEF HashInit, SweepInv

\* While one handler has the turn, no other is about to delete.
LEMMA TurnAlone ==
  ASSUME NEW c \in Builds, Turn(c), NEW d \in Builds, stage[d] = "sweep"
  PROVE  d = c
  BY DEF Turn, Suspended, Outside

LEMMA SweepHandler ==
  ASSUME SweepInv, NEW c \in Builds, Handler(c)
  PROVE  SweepInv'
<1>1. Turn(c)
  BY DEF Handler, ReportRow, ReportMatch, ReportAsk, ReportUnihash, EquivInsert,
      EquivRead,
         Look, Fetch, Stream, StreamFetch, Remove, Mark, SweepCheck, Sweep, CleanUnused,
             Handles
<1>2. query' = query
  BY DEF Handler, ReportRow, ReportMatch, ReportAsk, ReportUnihash, EquivInsert,
      EquivRead,
         Look, Fetch, Stream, StreamFetch, Remove, Mark, SweepCheck, Sweep, CleanUnused
<1>3. \E place : GoTo(c, place)
                 /\ (place = "sweep" => mark' = mark /\ mark = query[c].mark)
  <2>1. CASE SweepCheck(c)
    BY <2>1 DEF SweepCheck, Answer, db
  <2>2. CASE ReportRow(c) \/ ReportMatch(c) \/ ReportAsk(c) \/ ReportUnihash(c)
             \/ EquivInsert(c) \/ EquivRead(c)
    BY <2>2 DEF ReportRow, ReportMatch, ReportAsk, ReportUnihash, EquivInsert, EquivRead,
                Answer, Hangup
  <2>3. CASE Look(c) \/ Fetch(c) \/ Stream(c) \/ StreamFetch(c)
    BY <2>3 DEF Look, Fetch, Stream, StreamFetch, Answer, Hangup
  <2>4. CASE Remove(c) \/ Mark(c) \/ Sweep(c) \/ CleanUnused(c)
    BY <2>4 DEF Remove, Mark, Sweep, CleanUnused, Answer
  <2> QED
    BY <2>1, <2>2, <2>3, <2>4 DEF Handler
<1>4. PICK place :
          GoTo(c, place) /\ (place = "sweep" => mark' = mark /\ mark = query[c].mark)
  BY <1>3
<1>5. \A d \in Builds : stage'[d] = "sweep" => d = c /\ place = "sweep"
  BY <1>1, <1>4, TurnAlone DEF SweepInv, GoTo
<1>6. stage' = [d \in Builds |-> stage'[d]]
  BY <1>4 DEF SweepInv, GoTo
<1> QED
  BY <1>2, <1>4, <1>5, <1>6 DEF SweepInv

LEMMA SweepOthers ==
  ASSUME SweepInv,
         \/ \E c \in Builds : Send(c) \/ TakeAnswer(c) \/ Break(c) \/ SendAgain(c)
         \/ Backfill \/ Crash \/ UNCHANGED hashVars
  PROVE  SweepInv'
<1>1. CASE \E c \in Builds : Send(c) \/ TakeAnswer(c) \/ Break(c) \/ SendAgain(c)
  <2>1. PICK c \in Builds : Send(c) \/ TakeAnswer(c) \/ Break(c) \/ SendAgain(c)
    BY <1>1
  <2>2. mark' = mark /\ \E place : place # "sweep" /\ GoTo(c, place)
    BY <2>1 DEF Send, TakeAnswer, Break, SendAgain, db
  <2>3. query' = query \/ \E r : query' = [query EXCEPT ![c] = r]
    BY <2>1 DEF Send, TakeAnswer, Break, SendAgain
  <2> QED
    BY <2>2, <2>3 DEF SweepInv, GoTo
<1>2. CASE Backfill \/ Crash \/ UNCHANGED hashVars
  BY <1>2 DEF Backfill, Crash, hashVars, db, SweepInv
<1> QED
  BY <1>1, <1>2

LEMMA SweepNext ==
  ASSUME SweepInv, [HashNext]_hashVars
  PROVE  SweepInv'
  BY SweepHandler, SweepOthers DEF HashNext

\* A sweep deletes no row of the mark it was asked for, whatever others mark and sweep:
\* handle_gc_sweep compares the marks and gc_sweep deletes without giving way in between.
THEOREM SweepsKeepMarked == HashSpec => SweepKeepsMarked
<1>1. ASSUME SweepInv, NEW c \in Builds, NEW t,
             stage[c] = "sweep", t \in Known, uni[t].mark = query[c].mark, Sweep(c)
      PROVE  t \in Known'
  <2>1. t \notin {x \in Known : mark # None /\ uni[x].mark # mark}
    BY <1>1 DEF SweepInv
  <2> QED
    BY <1>1, <2>1 DEF Sweep, Delete, Known
<1>2. SweepInv => [\A c \in Builds, t \in Taskhashes :
                     stage[c] = "sweep" /\ t \in Known /\ uni[t].mark = query[c].mark
                         /\ Sweep(c)
                       => t \in Known']_hashVars
  BY <1>1
<1> QED
  BY <1>2, SweepInit, SweepNext, PTL DEF HashSpec, SweepKeepsMarked

-----------------------------------------------------------------------------
(* Tasks with equal outputs share a unihash.  A report that does not wait  *)
(* for upstream is handled in one go: when another handler has its turn    *)
(* all rows are of tasks that have a unihash.                              *)

IsFirst(i, rows) == i \in rows /\ \A j \in rows : i <= j
RowsOf(t) == {i \in Live : out[i].task = t}
RowsWith(o) == {i \in Live : out[i].out = o}

\* Of some rows one is the first.
LEMMA HasFirst ==
  ASSUME NEW rows, rows \subseteq Nat, rows # {}
  PROVE  \E i \in rows : IsFirst(i, rows)
<1>1. PICK i \in rows : \A j \in rows : ~(<<j, i>> \in OpToRel(<, Nat))
  BY NatLessThanWellFounded, WFMin, Zenon
<1>2. \A j \in rows : i <= j
  <2> TAKE j \in rows
  <2>1. i \in Nat /\ j \in Nat
    BY <1>1
  <2>2. ~(j < i)
    BY <1>1, <2>1 DEF OpToRel
  <2> QED
    BY <2>1, <2>2
<1> QED
  BY <1>1, <1>2 DEF IsFirst

LEMMA OldestIsFirst ==
  ASSUME NEW rows, rows \subseteq Nat, NEW i, IsFirst(i, rows)
  PROVE  Oldest(rows) = out[i]
<1> DEFINE first == CHOOSE j \in rows : \A k \in rows : j <= k
<1>1. first \in rows /\ \A k \in rows : first <= k
  BY DEF IsFirst
<1>2. first <= i /\ i <= first /\ first \in Nat /\ i \in Nat
  BY <1>1 DEF IsFirst
<1> HIDE DEF first
<1>3. first = i
  BY <1>2
<1> QED
  BY <1>3 DEF Oldest, first

Quiet == ~setting.upstream /\ ~crashed /\ forgotten = {}
AllReported == \A t \in Known : uni[t].by = "report"
Reports(c) == stage[c] \in {"match", "record"}

Rows == [task : Taskhashes, out : Outhashes]

\* What a report is about; one handler runs at a time.
RequestType ==
  /\ setting \in Settings
  /\ out \in Seq(Rows \cup {None})
  /\ \A t \in Taskhashes : None \notin learnt[t]
  /\ \A c \in Builds : query[c].op = "report" =>
       query[c].task \in Taskhashes /\ query[c].out \in Outhashes /\ query[c].uni # None
  /\ \A c \in Builds : /\ Reports(c) \/ stage[c] = "ask" =>
                            query[c].op = "report" /\ reply[c] # None
                       /\ stage[c] = "ask" => setting.upstream
  /\ \A c, d \in Builds : stage[c] \notin Suspended /\ d # c => stage[d] \in Suspended

\* Each row is of a task that has a unihash, or will when the report that wrote it has
\* been handled; then it is the last one.
RowsRecorded ==
  /\ \A i \in Live : \/ out[i].task \in Known
                     \/ \E c \in Builds : Reports(c) /\ query[c].task = out[i].task
  /\ \A c \in Builds : Reports(c) =>
       /\ RowsOf(query[c].task) # {}
       /\ query[c].task \notin Known =>
            \A i \in RowsOf(query[c].task) : i = Len(out) /\ out[i].out = query[c].out

\* A task has the unihash of the task that was the first to report its output, and one
\* whose report is handled will have.
OutputsShared ==
  /\ \A t \in Known : HashOf(t) # None /\ RowsOf(t) # {}
  /\ \A t \in Known : \A i, j : 
       IsFirst(i, RowsOf(t)) /\ IsFirst(j, RowsWith(out[i].out)) /\ out[j].task \in Known
         => HashOf(t) = HashOf(out[j].task)
  /\ \A c \in Builds : stage[c] = "record" /\ query[c].task \notin Known =>
       \A j : IsFirst(j, RowsWith(query[c].out)) /\ out[j].task # query[c].task
                => reply[c] = HashOf(out[j].task)

ShareInv ==
  /\ Shapes /\ RequestType
  /\ Quiet => RowsRecorded /\ (AllReported => OutputsShared)

LEMMA LiveAre ==
  ASSUME RequestType
  PROVE  /\ Live \subseteq Nat /\ \A i \in Live : out[i] \in Rows /\ i \in 1..Len(out)
         /\ Len(out) \in Nat /\ DOMAIN out = 1..Len(out)
         /\ \A t : RowsOf(t) \subseteq Nat /\ \A o : RowsWith(o) \subseteq Nat
BY DEF RequestType, Live, RowsOf, RowsWith

\* The inductive invariant says what is promised.
LEMMA ShareProves == ShareInv => EqualOutputsShare
<1> DEFINE First(t) == Oldest({i \in Live : out[i].task = t}).out
<1> SUFFICES ASSUME ShareInv, Quiet, AllReported,
                    NEW s \in Known, NEW t \in Known, First(s) = First(t)
             PROVE  uni[s].hash = uni[t].hash
  BY DEF EqualOutputsShare, Quiet, AllReported
<1>1. RequestType /\ RowsRecorded /\ OutputsShared
  BY DEF ShareInv
<1>2. \A u \in Known : \E i : IsFirst(i, RowsOf(u)) /\ First(u) = out[i].out
  <2> TAKE u \in Known
  <2>1. PICK i : IsFirst(i, RowsOf(u))
    BY <1>1, HasFirst, LiveAre DEF OutputsShared
  <2>2. Oldest(RowsOf(u)) = out[i]
    BY <1>1, <2>1, OldestIsFirst, LiveAre
  <2> QED
    BY <2>1, <2>2 DEF RowsOf
<1> HIDE DEF First
<1>3. PICK i : IsFirst(i, RowsOf(s)) /\ First(s) = out[i].out
  BY <1>2
<1>4. PICK k : IsFirst(k, RowsOf(t)) /\ First(t) = out[k].out
  BY <1>2
<1>5. i \in RowsWith(out[i].out)
  BY <1>3 DEF IsFirst, RowsOf, RowsWith
<1>6. PICK j : IsFirst(j, RowsWith(out[i].out))
  BY <1>1, <1>5, HasFirst, LiveAre
<1>7. out[j].task \in Known
  <2>1. j \in Live /\ j <= i /\ i \in 1..Len(out) /\ j \in 1..Len(out)
    BY <1>1, <1>5, <1>6, LiveAre DEF IsFirst, RowsWith
  <2>2. SUFFICES ASSUME out[j].task \notin Known PROVE FALSE
    OBVIOUS
  <2>3. PICK c \in Builds : Reports(c) /\ query[c].task = out[j].task
    BY <1>1, <2>1, <2>2 DEF RowsRecorded
  <2>4. j = Len(out)
    BY <1>1, <2>1, <2>2, <2>3 DEF RowsRecorded, RowsOf
  <2>5. i = j
    BY <2>1, <2>4
  <2> QED
    BY <1>3, <2>2, <2>5 DEF IsFirst, RowsOf
<1>8. out[k].out = out[i].out
  BY <1>3, <1>4
<1>9. HashOf(s) = HashOf(out[j].task)
  BY <1>1, <1>3, <1>6, <1>7 DEF OutputsShared
<1>10. HashOf(t) = HashOf(out[j].task)
  BY <1>1, <1>4, <1>6, <1>7, <1>8 DEF OutputsShared
<1> QED
  BY <1>9, <1>10 DEF HashOf

LEMMA ShareInit == HashInit => ShareInv
<1> SUFFICES ASSUME HashInit PROVE ShareInv
  OBVIOUS
<1>1. Live = {} /\ Known = {} /\ out \in Seq(Rows \cup {None})
  BY DEF HashInit, Live, Known
<1>2. \A c \in Builds : stage[c] = "idle" /\ query[c].op = "none"
  BY DEF HashInit, Idle
<1>3. Shapes
  BY DEF HashInit, Shapes
<1>4. RequestType
  BY <1>1, <1>2 DEF RequestType, HashInit, Reports, Suspended, Outside
<1>5. RowsRecorded /\ OutputsShared
  BY <1>1, <1>2 DEF RowsRecorded, OutputsShared, Reports
<1> QED
  BY <1>3, <1>4, <1>5 DEF ShareInv

\* A step that writes no rows and changes no unihash, but for one that report-equiv or
\* upstream gave, and that neither begins nor ends a report.
StaysQuiet ==
  Quiet' =>
    /\ Quiet /\ out' = out /\ Known \subseteq Known'
    /\ AllReported' => /\ AllReported /\ Known' = Known
                       /\ \A t \in Known : HashOf(t)' = HashOf(t)
    /\ \A c \in Builds : Reports(c)' =>
         stage'[c] = stage[c] /\ query'[c] = query[c] /\ reply'[c] = reply[c]
    /\ \A c \in Builds : Reports(c) => Reports(c)'

LEMMA StaysShared ==
  ASSUME ShareInv, Shapes', RequestType', StaysQuiet
  PROVE  ShareInv'
<1> SUFFICES ASSUME Quiet' PROVE RowsRecorded' /\ (AllReported' => OutputsShared')
  BY DEF ShareInv
<1>1. /\ Quiet /\ RowsRecorded /\ (AllReported => OutputsShared)
      /\ out' = out /\ Known \subseteq Known'
      /\ \A c \in Builds : Reports(c)' =>
           stage'[c] = stage[c] /\ query'[c] = query[c] /\ reply'[c] = reply[c]
      /\ \A c \in Builds : Reports(c) <=> Reports(c)'
  BY DEF ShareInv, StaysQuiet, Reports
<1>2. /\ Live' = Live /\ \A t : RowsOf(t)' = RowsOf(t) /\ \A o : RowsWith(o)' = RowsWith(o)
  BY <1>1 DEF Live, RowsOf, RowsWith
<1>3. RowsRecorded'
  BY <1>1, <1>2 DEF RowsRecorded
<1>4. ASSUME AllReported' PROVE OutputsShared'
  <2>1. OutputsShared /\ Known' = Known /\ \A t \in Known : HashOf(t)' = HashOf(t)
    BY <1>1, <1>4 DEF StaysQuiet
  <2>2. \A t : HashOf(t)' = HashOf(t)
    BY <2>1 DEF HashOf
  <2> QED
    BY <1>1, <1>2, <2>1, <2>2 DEF OutputsShared, Reports, IsFirst
<1> QED
  BY <1>3, <1>4

\* What a step of build c's request changes of the requests.
OneStep(c, place) ==
  /\ GoTo(c, place)
  /\ query' = query \/ \E r : query' = [query EXCEPT ![c] = r]
  /\ reply' = reply \/ \E x : reply' = [reply EXCEPT ![c] = x]

LEMMA OneStepIs ==
  ASSUME Shapes, NEW c \in Builds, NEW place, OneStep(c, place)
  PROVE  /\ stage' = [d \in Builds |-> stage'[d]] /\ query' = [d \in Builds |-> query'[d]]
         /\ reply' = [d \in Builds |-> reply'[d]]
         /\ stage'[c] = place
         /\ \A d \in Builds \ {c} :
              stage'[d] = stage[d] /\ query'[d] = query[d] /\ reply'[d] = reply[d]
BY DEF Shapes, OneStep, GoTo

\* One handler runs at a time, and requests are well-formed.
LEMMA OneStepTypes ==
  ASSUME Shapes, RequestType, NEW c \in Builds, NEW place, OneStep(c, place),
         setting' = setting, out' \in Seq(Rows \cup {None}), learnt' = learnt,
         place \in Suspended \/ Turn(c),
         query'[c].op = "report" =>
           query'[c].task \in Taskhashes /\ query'[c].out \in Outhashes
           /\ query'[c].uni # None,
         place \in {"match", "ask", "record"} => query'[c].op = "report" /\ reply'[c] # None,
         place = "ask" => setting.upstream
  PROVE  Shapes' /\ RequestType'
<1>1. Shapes'
  BY OneStepIs DEF Shapes
<1>2. /\ stage'[c] = place
      /\ \A d \in Builds \ {c} :
           stage'[d] = stage[d] /\ query'[d] = query[d] /\ reply'[d] = reply[d]
  BY OneStepIs
<1>3. \A d \in Builds : query'[d].op = "report" =>
        query'[d].task \in Taskhashes /\ query'[d].out \in Outhashes /\ query'[d].uni # None
  BY <1>2 DEF RequestType
<1>4. \A d \in Builds : /\ Reports(d)' \/ stage'[d] = "ask" =>
                             query'[d].op = "report" /\ reply'[d] # None
                        /\ stage'[d] = "ask" => setting'.upstream
  BY <1>2 DEF RequestType, Reports
<1>5. \A a, b \in Builds : stage'[a] \notin Suspended /\ b # a => stage'[b] \in Suspended
  BY <1>2 DEF RequestType, Turn
<1> QED
  BY <1>1, <1>3, <1>4, <1>5 DEF RequestType

LEMMA HandlerAre ==
  ASSUME NEW c, Handler(c)
  PROVE  Turn(c) /\ UNCHANGED <<setting, query, learnt, crashed>>
BY DEF Handler, ReportRow, ReportMatch, ReportAsk, ReportUnihash, EquivInsert, EquivRead,
       Look, Fetch, Stream, StreamFetch, Remove, Mark, SweepCheck, Sweep, CleanUnused,
       Handles, bounds

\* When another handler than that of a report runs, all rows are of tasks with a
\* unihash, and none is deleted if no unihash is.
LEMMA TurnsRecorded ==
  ASSUME RowsRecorded, NEW c \in Builds, Turn(c), ~Reports(c)
  PROVE  \A i \in Live : out[i].task \in Known
BY DEF RowsRecorded, Turn, Reports, Suspended, Outside

LEMMA DeletesNone ==
  ASSUME RequestType, NEW tasks, tasks \cap Known = {}, \A i \in Live : out[i].task \in Known,
         DeleteRows(tasks)
  PROVE  out' = out
<1>1. \A i \in DOMAIN out : out'[i] = out[i]
  BY DEF DeleteRows, Live
<1>2. out' = [i \in DOMAIN out |-> out'[i]] /\ out = [i \in DOMAIN out |-> out[i]]
  BY DEF DeleteRows, RequestType
<1> QED
  BY <1>1, <1>2

LEMMA DeletedType ==
  ASSUME RequestType, NEW tasks, DeleteRows(tasks)
  PROVE  out' \in Seq(Rows \cup {None})
BY DEF RequestType, DeleteRows, Live

\* A row that does not come from a report is one that is not counted on.
LEMMA InsertOther ==
  ASSUME NEW t, NEW u, InsertUnihash(t, u, "other")
  PROVE  /\ Known \subseteq Known'
         /\ AllReported' => /\ AllReported /\ Known' = Known
                            /\ \A x \in Known : HashOf(x)' = HashOf(x)
<1>1. CASE t \in Known
  BY <1>1 DEF InsertUnihash, Known, AllReported, HashOf
<1>2. CASE t \notin Known
  BY <1>2 DEF InsertUnihash, With, Row, Known, AllReported
<1> QED
  BY <1>1, <1>2

LEMMA SameUni ==
  ASSUME uni' = uni
  PROVE  /\ Known' = Known /\ AllReported' = AllReported
         /\ \A x : HashOf(x)' = HashOf(x)
BY DEF Known, AllReported, HashOf

LEMMA DeleteQuietly ==
  ASSUME NEW tasks, Delete(tasks), forgotten' = {}
  PROVE  /\ forgotten = {} /\ tasks \cap Known = {}
         /\ Known' = Known /\ AllReported' = AllReported
         /\ \A x \in Known : HashOf(x)' = HashOf(x)
<1>1. forgotten = {} /\ tasks \cap Known = {}
  BY DEF Delete
<1>2. uni' = [x \in Known |-> uni[x]]
  BY <1>1 DEF Delete
<1> QED
  BY <1>1, <1>2 DEF Known, AllReported, HashOf

-----------------------------------------------------------------------------
(* Every step leaves requests well-formed.                                 *)

LEMMA HandlerTypes ==
  ASSUME Shapes, RequestType, NEW c \in Builds, Handler(c)
  PROVE  Shapes' /\ RequestType'
<1>1. Turn(c) /\ UNCHANGED <<setting, query, learnt>>
  BY HandlerAre
<1>2. query[c].op = "report" =>
        query[c].task \in Taskhashes /\ query[c].out \in Outhashes /\ query[c].uni # None
  BY DEF RequestType
<1>3. out' \in Seq(Rows \cup {None})
  <2>1. CASE ReportRow(c)
    <3>1. [task |-> query[c].task, out |-> query[c].out] \in Rows \cup {None}
      BY <1>2, <2>1 DEF ReportRow, Handles, Rows
    <3> QED
      BY <2>1, <3>1 DEF ReportRow, RequestType
  <2>2. CASE Remove(c) \/ CleanUnused(c)
    BY <2>2, DeletedType DEF Remove, CleanUnused, RequestType
  <2>3. CASE ~ReportRow(c) /\ ~Remove(c) /\ ~CleanUnused(c)
    <3>1. out' = out
      BY <2>3 DEF Handler, ReportMatch, ReportAsk, ReportUnihash, EquivInsert, EquivRead,
                  Look, Fetch, Stream, StreamFetch, Mark, SweepCheck, Sweep, db
    <3> QED
      BY <3>1 DEF RequestType
  <2> QED
    BY <2>1, <2>2, <2>3
<1>4. \E place : /\ OneStep(c, place)
                 /\ place \in {"match", "ask", "record"} =>
                      query[c].op = "report" /\ reply'[c] # None
                 /\ place = "ask" => setting.upstream
  <2>1. CASE ReportRow(c)
    <3>1. OneStep(c, "match") /\ reply'[c] = query[c].uni /\ query[c].op = "report"
      BY <2>1 DEF OneStep, ReportRow, Handles, Shapes
    <3> QED
      BY <1>2, <3>1
  <2>2. CASE ReportMatch(c)
    <3>1. query[c].op = "report" /\ reply[c] # None
      BY <2>2 DEF ReportMatch, RequestType, Reports
    <3>2. \E place : OneStep(c, place) /\ (place = "ask" => setting.upstream)
      BY <2>2 DEF OneStep, ReportMatch
    <3>3. reply'[c] # None
      BY <2>2, <3>1 DEF ReportMatch, Shapes
    <3> QED
      BY <3>1, <3>2, <3>3
  <2>3. CASE ReportAsk(c)
    <3>1. query[c].op = "report" /\ reply[c] # None
      BY <2>3 DEF ReportAsk, RequestType
    <3>2. OneStep(c, "record") /\ reply'[c] # None
      BY <2>3, <3>1 DEF OneStep, ReportAsk, Shapes
    <3> QED
      BY <3>1, <3>2
  <2>4. CASE ReportUnihash(c)
    <3>1. OneStep(c, "look")
      BY <2>4 DEF OneStep, ReportUnihash
    <3> QED
      BY <3>1
  <2>5. CASE EquivInsert(c)
    <3>1. OneStep(c, "read")
      BY <2>5 DEF OneStep, EquivInsert
    <3> QED
      BY <3>1
  <2>6. CASE EquivRead(c) \/ Fetch(c)
    <3>1. OneStep(c, "done") \/ OneStep(c, "lost")
      BY <2>6 DEF OneStep, EquivRead, Fetch, Answer, Hangup
    <3> QED
      BY <3>1
  <2>7. CASE Look(c) \/ Stream(c) \/ StreamFetch(c)
    <3>1. OneStep(c, "done") \/ OneStep(c, "fetch") \/ OneStep(c, "stream")
      BY <2>7 DEF OneStep, Look, Stream, StreamFetch, Answer
    <3> QED
      BY <3>1
  <2>8. CASE Remove(c) \/ Mark(c) \/ SweepCheck(c) \/ Sweep(c) \/ CleanUnused(c)
    <3>1. OneStep(c, "done") \/ OneStep(c, "sweep")
      BY <2>8 DEF OneStep, Remove, Mark, SweepCheck, Sweep, CleanUnused, Answer
    <3> QED
      BY <3>1
  <2> QED
    BY <2>1, <2>2, <2>3, <2>4, <2>5, <2>6, <2>7, <2>8 DEF Handler
<1> QED
  BY <1>1, <1>2, <1>3, <1>4, OneStepTypes

LEMMA SendTypes ==
  ASSUME Shapes, RequestType, NEW c \in Builds, Send(c)
  PROVE  Shapes' /\ RequestType'
<1>1. PICK r \in Asked : query' = [query EXCEPT ![c] = r]
  BY DEF Send
<1>2. query'[c] = r
  BY <1>1 DEF Shapes
<1>3. r.op = "report" => r.task \in Taskhashes /\ r.out \in Outhashes /\ r.uni # None
  <2>1. SUFFICES ASSUME r.op = "report"
                 PROVE  r.task \in Taskhashes /\ r.out \in Outhashes /\ r.uni # None
    OBVIOUS
  <2>2. PICK t \in setting.tasks, o \in Outhashes :
          \E u \in {t} \cup learnt[t] : r = [op |-> "report", task |-> t, out |-> o, uni |-> u]
    BY <2>1 DEF Asked
  <2>3. t \in Taskhashes
    BY HashAssumption DEF RequestType
  <2>4. None \notin {t} \cup learnt[t]
    BY <2>3, HashAssumption DEF RequestType
  <2> QED
    BY <2>2, <2>3, <2>4
<1>4. OneStep(c, "sent") /\ UNCHANGED <<setting, out, learnt>>
  BY <1>1 DEF Send, OneStep, db
<1>5. "sent" \in Suspended
  BY DEF Suspended, Outside
<1> QED
  BY <1>2, <1>3, <1>4, <1>5, OneStepTypes DEF RequestType

LEMMA ConnectionTypes ==
  ASSUME Shapes, RequestType, NEW c \in Builds, Break(c) \/ SendAgain(c)
  PROVE  Shapes' /\ RequestType'
<1>1. OneStep(c, "sent") \/ OneStep(c, "idle") \/ OneStep(c, "lost")
  BY DEF Break, SendAgain, OneStep
<1>2. UNCHANGED <<setting, out, learnt>>
  BY DEF Break, SendAgain, db, bounds
<1>3. query'[c] = query[c] \/ query'[c] = Idle
  BY DEF Break, SendAgain, Shapes
<1>4. {"sent", "idle", "lost"} \subseteq Suspended /\ Idle.op # "report"
  BY DEF Suspended, Outside, Idle
<1> QED
  BY <1>1, <1>2, <1>3, <1>4, OneStepTypes DEF RequestType

LEMMA TakeAnswerTypes ==
  ASSUME Shapes, RequestType, NEW c \in Builds, TakeAnswer(c)
  PROVE  Shapes' /\ RequestType'
<1>1. OneStep(c, "idle") /\ UNCHANGED <<setting, out>> /\ query'[c] = Idle
  BY DEF TakeAnswer, OneStep, db, Shapes
<1>2. /\ stage'[c] = "idle"
      /\ \A d \in Builds \ {c} :
           stage'[d] = stage[d] /\ query'[d] = query[d] /\ reply'[d] = reply[d]
  BY <1>1, OneStepIs
<1>3. learnt' = [t \in Taskhashes |-> learnt'[t]] /\ \A t \in Taskhashes : None \notin learnt'[t]
  BY DEF TakeAnswer, Shapes, RequestType
<1>4. Shapes'
  BY <1>1, <1>3, OneStepIs DEF Shapes
<1>5. "idle" \in Suspended /\ Idle.op # "report"
  BY DEF Suspended, Outside, Idle
<1>6. \A d \in Builds : query'[d].op = "report" =>
        query'[d].task \in Taskhashes /\ query'[d].out \in Outhashes /\ query'[d].uni # None
  BY <1>1, <1>2, <1>5 DEF RequestType
<1>7. \A d \in Builds : /\ Reports(d)' \/ stage'[d] = "ask" =>
                             query'[d].op = "report" /\ reply'[d] # None
                        /\ stage'[d] = "ask" => setting'.upstream
  BY <1>1, <1>2 DEF RequestType, Reports
<1>8. \A a, b \in Builds : stage'[a] \notin Suspended /\ b # a => stage'[b] \in Suspended
  BY <1>2, <1>5 DEF RequestType
<1> QED
  BY <1>1, <1>3, <1>4, <1>6, <1>7, <1>8 DEF RequestType

-----------------------------------------------------------------------------
(* Steps that have nothing to do with a report.                            *)

\* What such a step does to the tables.
Quietly ==
  Quiet' =>
    /\ Quiet /\ out' = out /\ Known \subseteq Known'
    /\ AllReported' => /\ AllReported /\ Known' = Known
                       /\ \A t \in Known : HashOf(t)' = HashOf(t)

LEMMA MovesQuietly ==
  ASSUME ShareInv, Shapes', RequestType', Quietly, NEW c \in Builds, NEW place,
         OneStep(c, place), ~Reports(c), place \notin {"match", "record"}
  PROVE  ShareInv'
<1>1. /\ stage'[c] = place
      /\ \A d \in Builds \ {c} :
           stage'[d] = stage[d] /\ query'[d] = query[d] /\ reply'[d] = reply[d]
  BY OneStepIs DEF ShareInv
<1>2. StaysQuiet
  BY <1>1 DEF StaysQuiet, Quietly, Reports
<1> QED
  BY <1>2, StaysShared

LEMMA QuietTables ==
  ASSUME UNCHANGED <<uni, out>>, Quiet' => Quiet
  PROVE  Quietly
BY SameUni DEF Quietly

LEMMA QuietInsert ==
  ASSUME NEW t, NEW u, InsertUnihash(t, u, "other"), out' = out, Quiet' => Quiet
  PROVE  Quietly
BY InsertOther DEF Quietly

LEMMA ReportSteps ==
  ASSUME ShareInv, NEW c \in Builds,
         Handler(c), ~ReportRow(c), ~ReportMatch(c), ~ReportUnihash(c)
  PROVE  ShareInv'
<1>1. Turn(c) /\ UNCHANGED <<setting, query, learnt, crashed>> /\ Shapes' /\ RequestType'
  BY HandlerAre, HandlerTypes DEF ShareInv
<1>2. CASE ReportAsk(c)
  <2>1. ~Quiet'
    BY <1>1, <1>2 DEF ReportAsk, ShareInv, RequestType, Quiet
  <2> QED
    BY <1>1, <2>1 DEF ShareInv
<1>3. CASE EquivInsert(c) \/ Fetch(c)
  <2>1. ~Reports(c) /\ (OneStep(c, "read") \/ OneStep(c, "done") \/ OneStep(c, "lost"))
    BY <1>3 DEF EquivInsert, Fetch, Handles, Reports, OneStep, Answer, Hangup
  <2>2. UNCHANGED <<out, forgotten>>
        /\ (uni' = uni \/ \E t, u : InsertUnihash(t, u, "other"))
    BY <1>3 DEF EquivInsert, Fetch
  <2>3. Quietly
    BY <1>1, <2>2, QuietInsert, QuietTables DEF Quiet
  <2> QED
    BY <1>1, <2>1, <2>3, MovesQuietly
<1>4. CASE EquivRead(c) \/ Look(c) \/ Stream(c) \/ StreamFetch(c) \/ SweepCheck(c)
  <2>1. /\ ~Reports(c)
        /\ \E place \in {"done", "lost", "fetch", "stream", "sweep"} : OneStep(c, place)
    BY <1>4 DEF EquivRead, Look, Stream, StreamFetch, SweepCheck, Handles, Reports, OneStep,
                Answer, Hangup
  <2>2. UNCHANGED <<uni, out, forgotten>>
    BY <1>4 DEF EquivRead, Look, Stream, StreamFetch, SweepCheck, db
  <2>3. Quietly
    BY <1>1, <2>2, QuietTables DEF Quiet
  <2> QED
    BY <1>1, <2>1, <2>3, MovesQuietly
<1>5. CASE Mark(c)
  <2>1. ~Reports(c) /\ OneStep(c, "done")
    BY <1>5 DEF Mark, Handles, Reports, OneStep, Answer
  <2>2. UNCHANGED <<out, forgotten>>
    BY <1>5 DEF Mark
  <2>3. /\ Known' = Known
        /\ AllReported' => AllReported
        /\ \A t \in Known : HashOf(t)' = HashOf(t)
    BY <1>5 DEF Mark, With, Row, Known, HashOf, AllReported
  <2>4. Quietly
    BY <1>1, <2>2, <2>3 DEF Quiet, Quietly
  <2> QED
    BY <1>1, <2>1, <2>4, MovesQuietly
<1>6. CASE Remove(c) \/ Sweep(c) \/ CleanUnused(c)
  <2>1. ~Reports(c) /\ OneStep(c, "done")
    BY <1>6 DEF Remove, Sweep, CleanUnused, Handles, Reports, OneStep, Answer
  <2>2. SUFFICES ASSUME Quiet' PROVE Quietly
    BY <1>1, <2>1, MovesQuietly DEF Quietly
  <2>3. Quiet /\ \A i \in Live : out[i].task \in Known
    <3>1. forgotten = {}
      BY <1>6, <2>2 DEF Quiet, Remove, Sweep, CleanUnused, Delete
    <3>2. Quiet
      BY <1>1, <2>2, <3>1 DEF Quiet
    <3> QED
      BY <1>1, <2>1, <3>2, TurnsRecorded DEF ShareInv
  <2>4. CASE CleanUnused(c)
    <3>1. UNCHANGED <<uni, out>>
      BY <2>3, <2>4, DeletesNone DEF CleanUnused, ShareInv
    <3> QED
      BY <2>3, <3>1, QuietTables
  <2>5. CASE Remove(c) \/ Sweep(c)
    <3>1. PICK tasks : Delete(tasks) /\ (out' = out \/ DeleteRows(tasks))
      BY <2>5 DEF Remove, Sweep
    <3>2. forgotten' = {}
      BY <2>2 DEF Quiet
    <3>3. /\ tasks \cap Known = {} /\ Known' = Known /\ AllReported' = AllReported
          /\ \A x \in Known : HashOf(x)' = HashOf(x)
      BY <3>1, <3>2, DeleteQuietly
    <3>4. out' = out
      BY <2>3, <3>1, <3>3, DeletesNone DEF ShareInv
    <3> QED
      BY <2>3, <3>3, <3>4 DEF Quietly
  <2> QED
    BY <1>6, <2>4, <2>5
<1> QED
  BY <1>2, <1>3, <1>4, <1>5, <1>6 DEF Handler

LEMMA ClientSteps ==
  ASSUME ShareInv, NEW c \in Builds,
         Send(c) \/ TakeAnswer(c) \/ Break(c) \/ SendAgain(c)
  PROVE  ShareInv'
<1>1. Shapes' /\ RequestType'
  BY SendTypes, TakeAnswerTypes, ConnectionTypes DEF ShareInv
<1>2. ~Reports(c) /\ \E place \in {"sent", "idle", "lost"} : OneStep(c, place)
  BY DEF Send, TakeAnswer, Break, SendAgain, Reports, OneStep
<1>3. UNCHANGED <<setting, uni, out, forgotten, crashed>>
  BY DEF Send, TakeAnswer, Break, SendAgain, db, bounds
<1>4. Quietly
  BY <1>3, QuietTables DEF Quiet
<1> QED
  BY <1>1, <1>2, <1>4, MovesQuietly

LEMMA ServerSteps ==
  ASSUME ShareInv, Backfill \/ Crash
  PROVE  ShareInv'
<1>1. CASE Backfill
  <2>1. UNCHANGED <<setting, out, stage, query, reply, learnt, forgotten, crashed>>
    BY <1>1 DEF Backfill, bounds
  <2>2. Shapes' /\ RequestType'
    BY <2>1 DEF ShareInv, Shapes, RequestType, Reports, Suspended, Outside
  <2>3. Quietly
    BY <1>1, <2>1, QuietInsert DEF Backfill, Quiet
  <2>4. StaysQuiet
    BY <2>1, <2>3 DEF StaysQuiet, Quietly, Reports
  <2> QED
    BY <2>2, <2>4, StaysShared
<1>2. CASE Crash
  <2>1. /\ UNCHANGED <<setting, out, query, learnt>> /\ ~Quiet'
        /\ stage' = [c \in Builds |-> stage'[c]] /\ reply' = [c \in Builds |-> reply'[c]]
        /\ \A c \in Builds : stage'[c] \in {"idle", "lost"}
    BY <1>2 DEF Crash, db, Quiet
  <2>2. Shapes' /\ RequestType'
    BY <2>1 DEF ShareInv, Shapes, RequestType, Reports, Suspended, Outside
  <2> QED
    BY <2>1, <2>2 DEF ShareInv
<1> QED
  BY <1>1, <1>2

-----------------------------------------------------------------------------
(* The steps of a report.                                                  *)

LEMMA FirstOf ==
  ASSUME NEW rows, NEW more, NEW n \in Nat, NEW i, rows \subseteq 1..(n - 1), rows # {},
         more \in {rows, rows \cup {n}}, IsFirst(i, more)
  PROVE  IsFirst(i, rows)
<1>1. PICK k \in rows : TRUE
  OBVIOUS
<1>2. i <= k /\ k \in 1..(n - 1) /\ i \in more
  BY <1>1 DEF IsFirst
<1>3. i # n
  BY <1>2
<1> QED
  BY <1>2, <1>3 DEF IsFirst

\* In another handler's turn no report but this one is under way.
LEMMA OnlyReport ==
  ASSUME NEW c \in Builds, Turn(c), NEW d \in Builds, Reports(d)
  PROVE  d = c
BY DEF Turn, Reports, Suspended, Outside

LEMMA RowWritten ==
  ASSUME ShareInv, NEW c \in Builds, ReportRow(c)
  PROVE  ShareInv'
<1> PICK t, o : t = query[c].task /\ o = query[c].out
  OBVIOUS
<1> DEFINE row == [task |-> t, out |-> o]
           n == Len(out) + 1
<1>1. /\ Turn(c) /\ UNCHANGED <<setting, query, learnt, crashed, uni, forgotten>>
      /\ Shapes' /\ RequestType'
  BY HandlerAre, HandlerTypes DEF ShareInv, Handler, ReportRow
<1>2. /\ stage[c] = "sent" /\ OneStep(c, "match") /\ t \in Taskhashes /\ o \in Outhashes
  BY DEF ReportRow, Handles, OneStep, ShareInv, RequestType
<1>3. /\ stage'[c] = "match" /\ \A d \in Builds \ {c} : stage'[d] = stage[d]
  BY <1>2, OneStepIs DEF ShareInv
<1>4. SUFFICES ASSUME Quiet' PROVE RowsRecorded' /\ (AllReported' => OutputsShared')
  BY <1>1 DEF ShareInv
<1>5. /\ Quiet /\ RowsRecorded /\ (AllReported => OutputsShared) /\ RequestType
      /\ \A i \in Live : out[i].task \in Known
  BY <1>1, <1>2, <1>4, TurnsRecorded DEF ShareInv, Quiet, Reports
<1>6. /\ Known' = Known /\ AllReported' = AllReported /\ \A x : HashOf(x)' = HashOf(x)
  BY <1>1, SameUni
<1>7. \A d \in Builds : Reports(d)' => d = c
  BY <1>1, <1>3, OnlyReport DEF Reports
<1>8. CASE out' = out /\ \E i \in Live : out[i].task = t /\ out[i].out = o
  <2>1. /\ Live' = Live /\ \A x : RowsOf(x)' = RowsOf(x) /\ RowsWith(x)' = RowsWith(x)
    BY <1>8 DEF Live, RowsOf, RowsWith
  <2>2. RowsOf(t) # {} /\ t \in Known
    BY <1>5, <1>8 DEF RowsOf
  <2>3. RowsRecorded'
    <3>1. \A i \in Live' : out'[i].task \in Known'
      BY <1>5, <1>6, <1>8, <2>1
    <3>2. \A d \in Builds : Reports(d)' => query'[d].task = t
      BY <1>1, <1>7
    <3>3. \E i \in Live' : out'[i].task = t
      BY <1>8, <2>1
    <3> QED
      BY <1>6, <2>2, <3>1, <3>2, <3>3 DEF RowsRecorded, RowsOf
  <2>4. ASSUME AllReported PROVE OutputsShared'
    <3>1. OutputsShared
      BY <1>5, <2>4
    <3>2. \A d \in Builds : stage'[d] # "record"
      BY <1>3, <1>7 DEF Reports
    <3> QED
      BY <1>6, <1>8, <2>1, <3>1, <3>2 DEF OutputsShared, IsFirst
  <2> QED
    BY <1>6, <2>3, <2>4
<1>9. CASE out' = Append(out, row)
  <2>1. /\ row \in Rows /\ row # None /\ n \in Nat /\ Len(out') = n
        /\ DOMAIN out' = DOMAIN out \cup {n} /\ out'[n] = row
        /\ \A i \in DOMAIN out : out'[i] = out[i] /\ i \in 1..(n - 1)
    BY <1>2, <1>5, <1>9, HashAssumption DEF Rows, RequestType
  <2>2. Live' = Live \cup {n} /\ Live \subseteq 1..(n - 1)
    BY <2>1 DEF Live
  <2>3. /\ RowsOf(t)' = RowsOf(t) \cup {n} /\ \A x : x # t => RowsOf(x)' = RowsOf(x)
        /\ \A x : RowsWith(x)' \in {RowsWith(x), RowsWith(x) \cup {n}}
        /\ \A x : RowsOf(x) \subseteq 1..(n - 1) /\ RowsWith(x) \subseteq 1..(n - 1)
    <3>1. \A i \in Live' : \/ i \in Live /\ out'[i] = out[i]
                           \/ i = n /\ out'[i].task = t /\ out'[i].out = o /\ i \notin Live
      BY <2>1, <2>2 DEF Live
    <3>2. n \in Live' /\ out'[n].task = t /\ out'[n].out = o
          /\ \A i \in Live : i \in Live' /\ out'[i] = out[i] /\ i # n
      BY <2>1, <2>2 DEF Live
    <3> HIDE DEF row, n
    <3>3. RowsOf(t)' = RowsOf(t) \cup {n} /\ \A x : x # t => RowsOf(x)' = RowsOf(x)
      BY <3>1, <3>2 DEF RowsOf
    <3>4. RowsWith(o)' = RowsWith(o) \cup {n} /\ \A x : x # o => RowsWith(x)' = RowsWith(x)
      BY <3>1, <3>2 DEF RowsWith
    <3>5. \A x : RowsOf(x) \subseteq 1..(n - 1) /\ RowsWith(x) \subseteq 1..(n - 1)
      BY <2>2 DEF RowsOf, RowsWith
    <3> QED
      BY <3>3, <3>4, <3>5
  <2>4. RowsRecorded'
    <3>1. \A i \in Live' : out'[i].task \in Known' \/ (i = n /\ out'[i].task = t)
      BY <1>5, <1>6, <2>1, <2>2 DEF Live
    <3>2. Reports(c)'
      BY <1>3 DEF Reports
    <3>3. t \notin Known => RowsOf(t) = {}
      BY <1>5 DEF RowsOf
    <3>4. RowsOf(t)' # {} /\ (t \notin Known' =>
            \A i \in RowsOf(t)' : i = Len(out') /\ out'[i].out = o)
      BY <1>6, <2>1, <2>3, <3>3
    <3>5. \A i \in Live' : \/ out'[i].task \in Known'
                           \/ \E d \in Builds : Reports(d)' /\ query'[d].task = out'[i].task
      BY <1>1, <3>1, <3>2
    <3>6. \A d \in Builds : Reports(d)' =>
            /\ RowsOf(t)' # {} /\ query'[d].task = t /\ query'[d].out = o
            /\ t \notin Known' => \A i \in RowsOf(t)' : i = Len(out') /\ out'[i].out = o
      BY <1>1, <1>7, <3>4
    <3> QED
      BY <3>5, <3>6 DEF RowsRecorded
  <2>5. ASSUME AllReported PROVE OutputsShared'
    <3>1. OutputsShared
      BY <1>5, <2>5
    <3>2. \A d \in Builds : stage'[d] # "record"
      BY <1>3, <1>7 DEF Reports
    <3>3. \A x \in Known' : HashOf(x)' # None /\ RowsOf(x)' # {}
      BY <1>6, <2>3, <3>1 DEF OutputsShared
    <3>4. ASSUME NEW x \in Known, NEW i, NEW j, NEW w, NEW s, IsFirst(i, RowsOf(x)'),
                 w = out'[i].out, IsFirst(j, RowsWith(w)'), s = out'[j].task, s \in Known
          PROVE  HashOf(x) = HashOf(s)
      <4>1. RowsOf(x)' \in {RowsOf(x), RowsOf(x) \cup {n}} /\ RowsOf(x) # {}
        BY <2>3, <3>1 DEF OutputsShared
      <4>2. IsFirst(i, RowsOf(x))
        BY <2>1, <2>3, <3>4, <4>1, FirstOf
      <4>3. i \in Live /\ w = out[i].out /\ i \in RowsWith(w)
        BY <2>1, <3>4, <4>2 DEF IsFirst, RowsOf, RowsWith, Live
      <4>4. IsFirst(j, RowsWith(w))
        BY <2>1, <2>3, <3>4, <4>3, FirstOf
      <4>5. out'[j] = out[j]
        BY <2>1, <4>4 DEF IsFirst, RowsWith, Live
      <4> QED
        BY <3>1, <3>4, <4>2, <4>3, <4>4, <4>5 DEF OutputsShared
    <3>5. \A x \in Known' : \A i, j :
            (/\ IsFirst(i, RowsOf(x))' /\ IsFirst(j, RowsWith(out[i].out))'
             /\ out'[j].task \in Known')
              => HashOf(x)' = HashOf(out[j].task)'
      BY <1>6, <3>4 DEF IsFirst, RowsWith, HashOf
    <3> QED
      BY <3>2, <3>3, <3>5 DEF OutputsShared
  <2> QED
    BY <1>6, <2>4, <2>5
<1> QED
  BY <1>8, <1>9 DEF ReportRow

LEMMA MatchFound ==
  ASSUME ShareInv, NEW c \in Builds, ReportMatch(c)
  PROVE  ShareInv'
<1> PICK t, o : t = query[c].task /\ o = query[c].out
  OBVIOUS
<1>1. /\ Turn(c) /\ UNCHANGED <<setting, query, learnt, crashed, uni, out, forgotten>>
      /\ Shapes' /\ RequestType'
  BY HandlerAre, HandlerTypes DEF ShareInv, Handler, ReportMatch, db
<1>2. SUFFICES ASSUME Quiet' PROVE RowsRecorded' /\ (AllReported' => OutputsShared')
  BY <1>1 DEF ShareInv
<1>3. /\ Quiet /\ RowsRecorded /\ (AllReported => OutputsShared) /\ RequestType
  BY <1>1, <1>2 DEF ShareInv, Quiet
<1>4. OneStep(c, "record") /\ stage[c] = "match"
  BY <1>3 DEF ReportMatch, OneStep, Quiet
<1>5. /\ stage'[c] = "record" /\ \A d \in Builds \ {c} : stage'[d] = stage[d]
  BY <1>4, OneStepIs DEF ShareInv
<1>6. /\ Known' = Known /\ AllReported' = AllReported /\ \A x : HashOf(x)' = HashOf(x)
      /\ Live' = Live /\ \A x : RowsOf(x)' = RowsOf(x) /\ RowsWith(x)' = RowsWith(x)
  BY <1>1, SameUni DEF Live, RowsOf, RowsWith
<1>7. \A d \in Builds : Reports(d)' <=> Reports(d)
  BY <1>4, <1>5 DEF Reports
<1>8. RowsRecorded'
  BY <1>1, <1>3, <1>6, <1>7 DEF RowsRecorded
<1>9. ASSUME AllReported PROVE OutputsShared'
  <2>1. OutputsShared
    BY <1>3, <1>9
  <2>2. \A d \in Builds : stage'[d] = "record" => d = c
    BY <1>1, <1>5, OnlyReport DEF Reports
  <2>3. ASSUME NEW j, IsFirst(j, RowsWith(o)), out[j].task # t
        PROVE  reply'[c] = HashOf(out[j].task)
    <3> DEFINE rows ==
          {i \in Live : out[i].out = o /\ out[i].task # t /\ out[i].task \in Known}
    <3>1. j \in Live /\ out[j].out = o
      BY <2>3 DEF IsFirst, RowsWith
    <3>2. out[j].task \in Known
      BY <1>1, <1>3, <2>3, <3>1, OnlyReport DEF RowsRecorded
    <3>3. IsFirst(j, rows) /\ rows \subseteq Nat /\ rows # {}
      BY <1>3, <2>3, <3>1, <3>2, LiveAre DEF IsFirst, RowsWith
    <3> HIDE DEF rows
    <3>4. Oldest(rows) = out[j]
      BY <3>3, OldestIsFirst
    <3>5. Equivalent(o, t) = HashOf(out[j].task)
      BY <3>3, <3>4 DEF Equivalent, rows
    <3>6. HashOf(out[j].task) # None
      BY <2>1, <3>2 DEF OutputsShared
    <3> QED
      BY <3>5, <3>6 DEF ReportMatch, ShareInv, Shapes
  <2> QED
    BY <1>1, <1>6, <2>1, <2>2, <2>3 DEF OutputsShared, IsFirst
<1> QED
  BY <1>6, <1>8, <1>9

LEMMA UnihashRecorded ==
  ASSUME ShareInv, NEW c \in Builds, ReportUnihash(c)
  PROVE  ShareInv'
<1> PICK t, o : t = query[c].task /\ o = query[c].out
  OBVIOUS
<1>1. /\ Turn(c) /\ UNCHANGED <<setting, query, learnt, crashed, out, reply, forgotten>>
      /\ Shapes' /\ RequestType'
  BY HandlerAre, HandlerTypes DEF ShareInv, Handler, ReportUnihash
<1>2. SUFFICES ASSUME Quiet' PROVE RowsRecorded' /\ (AllReported' => OutputsShared')
  BY <1>1 DEF ShareInv
<1>3. /\ Quiet /\ RowsRecorded /\ (AllReported => OutputsShared) /\ RequestType
  BY <1>1, <1>2 DEF ShareInv, Quiet
<1>4. OneStep(c, "look") /\ stage[c] = "record" /\ reply[c] # None
  BY <1>3 DEF ReportUnihash, OneStep, RequestType, Reports
<1>5. /\ stage'[c] = "look" /\ \A d \in Builds \ {c} : stage'[d] = stage[d]
  BY <1>4, OneStepIs DEF ShareInv
<1>6. /\ \A d \in Builds : ~Reports(d)' /\ stage'[d] # "record"
      /\ Reports(c) /\ \A d \in Builds : Reports(d) => d = c
  BY <1>1, <1>4, <1>5, OnlyReport DEF Reports
<1>7. /\ Live' = Live /\ \A x : RowsOf(x)' = RowsOf(x) /\ RowsWith(x)' = RowsWith(x)
  BY <1>1 DEF Live, RowsOf, RowsWith
<1>8. /\ Known' = Known \cup {t} /\ \A x \in Known : HashOf(x)' = HashOf(x)
      /\ t \notin Known => HashOf(t)' = reply[c]
      /\ AllReported' => AllReported
  BY DEF ReportUnihash, InsertUnihash, With, Row, Known, HashOf, AllReported
<1>9. RowsRecorded'
  <2>1. \A i \in Live : out[i].task \in Known \cup {t}
    BY <1>3, <1>6 DEF RowsRecorded
  <2> QED
    BY <1>1, <1>6, <1>7, <1>8, <2>1 DEF RowsRecorded
<1>10. ASSUME AllReported PROVE OutputsShared'
  <2>1. OutputsShared
    BY <1>3, <1>10
  <2>2. /\ RowsOf(t) # {}
        /\ t \notin Known => \A i \in RowsOf(t) : i = Len(out) /\ out[i].out = o
    BY <1>3, <1>6 DEF RowsRecorded
  <2>3. \A x \in Known' : HashOf(x)' # None /\ RowsOf(x)' # {}
    BY <1>4, <1>7, <1>8, <2>1, <2>2 DEF OutputsShared
  <2>4. ASSUME NEW x \in Known', NEW i, NEW j, NEW s, IsFirst(i, RowsOf(x)),
               IsFirst(j, RowsWith(out[i].out)), s = out[j].task, s \in Known'
        PROVE  HashOf(x)' = HashOf(s)'
    <3>1. CASE x \in Known /\ s \in Known
      BY <1>8, <2>1, <2>4, <3>1 DEF OutputsShared
    <3>2. CASE x \notin Known
      <4>1. x = t /\ out[i].out = o
        BY <1>8, <2>2, <2>4, <3>2 DEF IsFirst
      <4>2. CASE s = t
        BY <4>1, <4>2
      <4>3. CASE s # t
        <5>1. reply[c] = HashOf(s) /\ s \in Known
          BY <1>4, <1>8, <2>1, <2>4, <3>2, <4>1, <4>3 DEF OutputsShared
        <5> QED
          BY <1>8, <3>2, <4>1, <5>1
      <4> QED
        BY <4>2, <4>3
    <3>3. CASE x \in Known /\ s \notin Known
      <4>1. s = t /\ t \notin Known
        BY <1>8, <2>4, <3>3
      <4>2. j \in Live /\ i \in RowsWith(out[i].out) /\ i \in Live
        BY <2>4 DEF IsFirst, RowsOf, RowsWith
      <4>3. j = Len(out)
        BY <2>2, <2>4, <4>1, <4>2 DEF RowsOf
      <4>4. j <= i /\ i \in 1..Len(out)
        BY <1>3, <2>4, <4>2, LiveAre DEF IsFirst
      <4>5. i = j
        BY <1>3, <4>3, <4>4, LiveAre
      <4> QED
        BY <2>4, <3>3, <4>1, <4>5 DEF IsFirst, RowsOf
    <3> QED
      BY <3>1, <3>2, <3>3
  <2> QED
    BY <1>1, <1>6, <1>7, <2>3, <2>4 DEF OutputsShared, IsFirst
<1> QED
  BY <1>8, <1>9, <1>10

LEMMA ShareNext ==
  ASSUME ShareInv, [HashNext]_hashVars
  PROVE  ShareInv'
<1>1. ASSUME NEW c \in Builds, Handler(c) PROVE ShareInv'
  BY <1>1, RowWritten, MatchFound, UnihashRecorded, ReportSteps
<1>2. CASE UNCHANGED hashVars
  <2>1. UNCHANGED <<setting, uni, out, stage, query, reply, learnt, forgotten, crashed>>
    BY <1>2 DEF hashVars, db, bounds
  <2>2. Shapes' /\ RequestType'
    BY <2>1 DEF ShareInv, Shapes, RequestType, Reports, Suspended, Outside
  <2>3. StaysQuiet
    BY <2>1, SameUni DEF StaysQuiet, Quiet, Reports
  <2> QED
    BY <2>2, <2>3, StaysShared
<1> QED
  BY <1>1, <1>2, ClientSteps, ServerSteps DEF HashNext

\* Tasks whose first reported outputs are equal share a unihash, however many builds
\* report at the same time: handle_report writes the row, looks for an equal output and
\* inserts the unihash in one turn of the loop.
THEOREM EqualOutputsAreShared == HashSpec => []EqualOutputsShare
<1>1. HashSpec => []ShareInv
  BY ShareInit, ShareNext, PTL DEF HashSpec
<1> QED
  BY <1>1, ShareProves, PTL
=============================================================================
