------------------------ MODULE ProcessServerProofs ------------------------
(***************************************************************************)
(* Proofs about ProcessServer. For any number of clients, servers, tries,  *)
(* commands and kills, and whatever the timeout: the socket file is that   *)
(* of the server that runs (SocketIsOwn); a client that is accepted finds  *)
(* nothing of the one before it (CleanStarts); it is told of its own       *)
(* commands only (EventsOwn), and of each that was accepted once           *)
(* (OneAnswerEach).                                                        *)
(*                                                                         *)
(* The last three rest on one invariant, ServerInv. A connection is in one *)
(* place of one server (HeldOnce) and is untouched until its turn comes    *)
(* (Untouched); what its client has written and been told agrees with how  *)
(* far it has come (Said); and in each server the idle functions, the      *)
(* command and the state of the cooker fit the places of the main thread   *)
(* and of the idle thread (Servers).                                       *)
(***************************************************************************)
EXTENDS ProcessServer, Integers, TLAPS

(* Where a server has bitbake.lock, where it has the socket file, too, and *)
(* where a client has the lock.                                            *)
Holding == Listening \cup {"boot", "release", "unlock"}
Bound == Listening \ {"close"}

\* The inductive invariant behind SocketReaches.
PlacesOK == pc = [s \in Slots |-> pc[s]] /\ at = [c \in Clients |-> at[c]]

LockIsTheirs ==
  /\ \A s \in Slots : pc[s] \in Holding => lock = s
  /\ \A c \in Clients : at[c] = "giveback" => lock = c

SocketInv == PlacesOK /\ LockIsTheirs /\ SocketReaches

-----------------------------------------------------------------------------
(* What a step may do to the lock, the socket file and the places.         *)

\* A client moves, to a place where it does not hold the lock.
LEMMA ClientMoves ==
  ASSUME SocketInv, NEW c \in Clients,
         UNCHANGED <<lock, sock, pc>>,
         \E place : place # "giveback" /\ at' = [at EXCEPT ![c] = place]
  PROVE  SocketInv'
  BY DEF SocketInv, PlacesOK, LockIsTheirs, SocketReaches

\* A server moves where it needs no more than before.
LEMMA ServerMoves ==
  ASSUME SocketInv, NEW s \in Slots, NEW place,
         UNCHANGED <<lock, sock, at>>,
         pc' = [pc EXCEPT ![s] = place],
         place \in Holding => pc[s] \in Holding,
         place \in Bound => pc[s] \in Bound
  PROVE  SocketInv'
  BY DEF SocketInv, PlacesOK, LockIsTheirs, SocketReaches, Bound

\* A server ends, and a client may move to where it has no lock.
LEMMA ServerEnds ==
  ASSUME SocketInv, NEW s \in Slots, Gone(s),
         \/ UNCHANGED at
         \/ \E c, place : place # "giveback" /\ at' = [at EXCEPT ![c] = place]
  PROVE  SocketInv'
<1>1. pc' = [pc EXCEPT ![s] = "off"] /\ sock' = sock /\ lock' = IF lock = s THEN None ELSE lock
  BY DEF Gone
<1>2. s \notin Clients
  BY ServerAssumption
<1>3. "off" \notin Holding
  BY DEF Holding, Listening
<1>4. PlacesOK'
  BY <1>1 DEF SocketInv, PlacesOK
<1>5. \A t \in Slots : pc'[t] \in Holding => t # s /\ pc[t] \in Holding /\ lock = t
  BY <1>1, <1>3 DEF SocketInv, PlacesOK, LockIsTheirs
<1>6. \A t \in Slots : pc'[t] \in Holding => lock' = t
  BY <1>1, <1>5
<1>7. \A d \in Clients : at'[d] = "giveback" => at[d] = "giveback" /\ lock = d
  BY DEF SocketInv, PlacesOK, LockIsTheirs
<1>8. \A d \in Clients : at'[d] = "giveback" => lock' = d
  BY <1>1, <1>2, <1>7
<1>9. SocketReaches'
  BY <1>1, <1>3 DEF SocketInv, PlacesOK, SocketReaches, Holding
<1> QED
  BY <1>4, <1>6, <1>8, <1>9 DEF SocketInv, LockIsTheirs

\* Retries leads to a place where the client has no lock.
LEMMA RetriesMoves ==
  ASSUME NEW c, Retries(c)
  PROVE  \E place : place # "giveback" /\ at' = [at EXCEPT ![c] = place]
  BY DEF Retries, Goes

-----------------------------------------------------------------------------
LEMMA SocketInit == Init => SocketInv
  BY DEF Init, SocketInv, PlacesOK, LockIsTheirs, SocketReaches, Holding, Listening

LEMMA SocketClients ==
  ASSUME SocketInv, NEW c \in Clients,
         Client(c) \/ Ask(c) \/ Stop(c) \/ Terminate(c) \/ ClientKilled(c)
  PROVE  SocketInv'
<1> USE DEF Goes
<1>1. CASE StartServer(c)
  <2> DEFINE s == CHOOSE s \in Slots : pc[s] = "off"
  <2>1. s \in Slots /\ pc[s] = "off"
    BY <1>1 DEF StartServer
  <2>2. /\ lock = None /\ lock' = s /\ sock' = sock
        /\ pc' = [pc EXCEPT ![s] = "boot"] /\ at' = [at EXCEPT ![c] = "boot"]
    BY <1>1 DEF StartServer
  <2> HIDE DEF s
  <2>3. PlacesOK'
    BY <2>1, <2>2 DEF SocketInv, PlacesOK
  <2>4. /\ \A t \in Slots : pc[t] \notin Holding
        /\ \A d \in Clients : at[d] # "giveback"
    BY <2>2, ServerAssumption DEF SocketInv, LockIsTheirs
  <2>5. LockIsTheirs'
    BY <2>1, <2>2, <2>4 DEF SocketInv, PlacesOK, LockIsTheirs
  <2>6. SocketReaches'
    BY <2>1, <2>2 DEF SocketInv, PlacesOK, SocketReaches, Listening
  <2> QED
    BY <2>3, <2>5, <2>6 DEF SocketInv
<1>2. CASE WaitGets(c)
  <2>1. lock = None /\ lock' = c /\ at' = [at EXCEPT ![c] = "giveback"] /\ UNCHANGED <<sock, pc>>
    BY <1>2 DEF WaitGets
  <2>2. /\ \A t \in Slots : pc[t] \notin Holding
        /\ \A d \in Clients : at[d] # "giveback"
    BY <2>1, ServerAssumption DEF SocketInv, LockIsTheirs
  <2> QED
    BY <2>1, <2>2 DEF SocketInv, PlacesOK, LockIsTheirs, SocketReaches
<1>3. CASE GiveBack(c)
  <2>1. lock = c /\ lock' = None /\ UNCHANGED <<sock, pc>>
    BY <1>3 DEF GiveBack, SocketInv, LockIsTheirs
  <2>2. PICK place : place # "giveback" /\ at' = [at EXCEPT ![c] = place]
    BY <1>3, RetriesMoves DEF GiveBack
  <2>3. \A t \in Slots : pc[t] \notin Holding
    BY <2>1, ServerAssumption DEF SocketInv, LockIsTheirs
  <2>4. \A d \in Clients : at'[d] # "giveback"
    BY <2>1, <2>2 DEF SocketInv, PlacesOK, LockIsTheirs
  <2>5. PlacesOK'
    BY <2>1, <2>2 DEF SocketInv, PlacesOK
  <2> QED
    BY <2>1, <2>3, <2>4, <2>5 DEF SocketInv, LockIsTheirs, SocketReaches
<1>4. CASE ClientKilled(c)
  <2>1. /\ lock' = IF lock = c THEN None ELSE lock
        /\ at' = [at EXCEPT ![c] = "done"] /\ UNCHANGED <<sock, pc>>
    BY <1>4 DEF ClientKilled
  <2>2. PlacesOK'
    BY <2>1 DEF SocketInv, PlacesOK
  <2>3. \A t \in Slots : pc'[t] \in Holding => lock' = t
    BY <2>1, ServerAssumption DEF SocketInv, LockIsTheirs
  <2>4. \A d \in Clients : at'[d] = "giveback" => d # c /\ lock = d
    BY <2>1 DEF SocketInv, PlacesOK, LockIsTheirs
  <2> QED
    BY <2>1, <2>2, <2>3, <2>4 DEF SocketInv, LockIsTheirs, SocketReaches
<1>5. CASE /\ UNCHANGED <<lock, sock, pc>>
           /\ \E place : place # "giveback" /\ at' = [at EXCEPT ![c] = place]
  BY <1>5, ClientMoves
<1>6. CASE WaitEnds(c)
  BY <1>6, <1>5, RetriesMoves DEF WaitEnds
<1>7. CASE Connect(c)
  BY <1>7, <1>5, RetriesMoves DEF Connect
<1>8. CASE Closes(c)
  BY <1>8, <1>5, RetriesMoves DEF Closes
<1>9. CASE \/ LockHeld(c) \/ Look(c) \/ SendFds(c) \/ Connected(c) \/ Accepted(c)
           \/ Stopped(c) \/ NoReply(c) \/ GotFinal(c) \/ Leave(c)
  BY <1>9, <1>5
     DEF LockHeld, Look, SendFds, Connected, Accepted, Stopped, Reads, NoReply, GotFinal, Leave
<1>10. CASE Ask(c) \/ Stop(c) \/ Terminate(c)
  BY <1>10, <1>5 DEF Ask, Stop, Terminate, Sends
<1> QED
  BY <1>1, <1>2, <1>3, <1>4, <1>6, <1>7, <1>8, <1>9, <1>10 DEF Client

LEMMA SocketServers ==
  ASSUME SocketInv, NEW s \in Slots,
         Main(s) \/ Timeout(s) \/ BootFails(s) \/ Killed(s) \/ Idle(s)
  PROVE  SocketInv'
<1> USE DEF MainAt, MainGoes, NoClient, clientVars
<1>1. CASE UNCHANGED <<lock, sock, pc, at>>
  BY <1>1 DEF SocketInv, PlacesOK, LockIsTheirs, SocketReaches
<1>2. CASE Idle(s)
  BY <1>2, <1>1
     DEF Idle, Dies, RunAsync, Parse, ParseMore, ParseEnds, BuildEnds, Remove, Fire, Finish, NoMain
<1>3. CASE Timeout(s) \/ Accept(s)
  BY <1>3, <1>1 DEF Timeout, Accept
<1>4. CASE Bind(s)
  <2>1. pc[s] = "boot" /\ pc' = [pc EXCEPT ![s] = "bound"] /\ sock' = s /\ UNCHANGED <<lock, at>>
    BY <1>4 DEF Bind
  <2>2. lock = s
    BY <2>1 DEF SocketInv, LockIsTheirs, Holding
  <2>3. \A t \in Slots : pc[t] \in Holding => t = s
    BY <2>2 DEF SocketInv, LockIsTheirs
  <2>4. SocketReaches'
    BY <2>1, <2>3 DEF SocketInv, PlacesOK, SocketReaches, Holding
  <2> QED
    BY <2>1, <2>2, <2>4 DEF SocketInv, PlacesOK, LockIsTheirs
<1>5. CASE Serve(s)
  <2>1. /\ pc[s] = "bound" /\ pc' = [pc EXCEPT ![s] = "loop"] /\ UNCHANGED <<lock, sock>>
        /\ \/ UNCHANGED at
           \/ at' = [at EXCEPT ![srv[s].parent] = "connect"]
    BY <1>5 DEF Serve, Goes
  <2>2. at' = [c \in Clients |-> at'[c]]
    BY <2>1 DEF SocketInv, PlacesOK
  <2>3. \A c \in Clients : at'[c] = "giveback" => at[c] = "giveback"
    BY <2>1 DEF SocketInv, PlacesOK
  <2>4. \A t \in Slots : /\ pc'[t] \in Holding => pc[t] \in Holding
                        /\ pc'[t] \in Bound => pc[t] \in Bound
    BY <2>1 DEF SocketInv, PlacesOK, Holding, Bound, Listening
  <2>5. PlacesOK'
    BY <2>1, <2>2 DEF SocketInv, PlacesOK
  <2>6. LockIsTheirs'
    BY <2>1, <2>3, <2>4 DEF SocketInv, LockIsTheirs, Holding, Listening
  <2>7. SocketReaches'
    BY <2>1, <2>4 DEF SocketInv, SocketReaches, Bound, Listening
  <2> QED
    BY <2>5, <2>6, <2>7 DEF SocketInv
<1>6. CASE Unlink(s)
  <2>1. pc[s] = "unlink" /\ pc' = [pc EXCEPT ![s] = "close"] /\ UNCHANGED <<lock, at>>
    BY <1>6 DEF Unlink
  <2>2. lock = s
    BY <2>1 DEF SocketInv, LockIsTheirs, Holding, Listening
  <2>3. \A t \in Slots : pc[t] \in Holding => t = s
    BY <2>2 DEF SocketInv, LockIsTheirs
  <2>4. SocketReaches'
    BY <2>1, <2>3 DEF SocketInv, PlacesOK, SocketReaches, Holding
  <2> QED
    BY <2>1, <2>2, <2>4 DEF SocketInv, PlacesOK, LockIsTheirs
<1>7. CASE Release(s)
  <2>1. /\ pc[s] = "release" /\ pc' = [pc EXCEPT ![s] = "relock"]
        /\ lock' = None /\ UNCHANGED <<sock, at>>
    BY <1>7 DEF Release
  <2>2. lock = s
    BY <2>1 DEF SocketInv, LockIsTheirs, Holding
  <2>3. \A t \in Slots : pc[t] \in Holding => t = s
    BY <2>2 DEF SocketInv, LockIsTheirs
  <2>4. \A d \in Clients : at[d] # "giveback"
    BY <2>2, ServerAssumption DEF SocketInv, LockIsTheirs
  <2> QED
    BY <2>1, <2>3, <2>4 DEF SocketInv, PlacesOK, LockIsTheirs, SocketReaches, Holding, Listening
<1>8. CASE Relock(s)
  <2>1. /\ pc' = [pc EXCEPT ![s] = "unlock"]
        /\ lock = None /\ lock' = s /\ UNCHANGED <<sock, at>>
    BY <1>8 DEF Relock
  <2>2. /\ \A t \in Slots : pc[t] \notin Holding
        /\ \A d \in Clients : at[d] # "giveback"
    BY <2>1, ServerAssumption DEF SocketInv, LockIsTheirs
  <2> QED
    BY <2>1, <2>2 DEF SocketInv, PlacesOK, LockIsTheirs, SocketReaches, Holding, Listening
<1>9. CASE End(s)
  BY <1>9, ServerEnds DEF End
<1>10. CASE BootFails(s) \/ Killed(s)
  <2>1. Gone(s) /\ ParentSees(s)
    BY <1>10 DEF BootFails, Killed
  <2>2. \/ UNCHANGED at
        \/ \E c : Retries(c)
    BY <2>1 DEF ParentSees
  <2> QED
    BY <2>1, <2>2, ServerEnds, RetriesMoves
<1>11. CASE Join(s)
  BY <1>11, ServerMoves DEF Join, Holding, Bound, Listening
<1>12. CASE Drain(s) \/ Refuse(s) \/ Register(s) \/ Exit(s) \/ Hangup(s) \/ Acquire(s)
  BY <1>12, ServerMoves
     DEF Drain, Refuse, Register, Exit, Hangup, Acquire, Looping, Holding, Bound, Listening
<1>13. CASE Close(s)
  BY <1>13, ServerMoves DEF Close, Holding, Bound, Listening
<1>14. CASE Control(s) \/ Command(s)
  <2>1. /\ pc[s] = "loop" /\ UNCHANGED <<lock, sock, at>>
        /\ \/ UNCHANGED pc
           \/ pc' = [pc EXCEPT ![s] = "drain"] \/ pc' = [pc EXCEPT ![s] = "acquire"]
    BY <1>14 DEF Control, Command, Disconnect, Looping
  <2>2. CASE pc' = [pc EXCEPT ![s] = "drain"]
    BY <2>1, <2>2, ServerMoves DEF Holding, Bound, Listening
  <2>3. CASE pc' = [pc EXCEPT ![s] = "acquire"]
    BY <2>1, <2>3, ServerMoves DEF Holding, Bound, Listening
  <2>4. CASE UNCHANGED pc
    BY <2>1, <2>4 DEF SocketInv, PlacesOK, LockIsTheirs, SocketReaches
  <2> QED
    BY <2>1, <2>2, <2>3, <2>4
<1> QED
  BY <1>2, <1>3, <1>4, <1>5, <1>6, <1>7, <1>8, <1>9, <1>10, <1>11, <1>12, <1>13, <1>14 DEF Main

LEMMA SocketStep == SocketInv /\ [Next]_vars => SocketInv'
<1> SUFFICES ASSUME SocketInv, [Next]_vars PROVE SocketInv'
  OBVIOUS
<1>1. CASE Next
  BY <1>1, SocketClients, SocketServers DEF Next
<1>2. CASE UNCHANGED vars
  BY <1>2 DEF vars, SocketInv, PlacesOK, LockIsTheirs, SocketReaches
<1> QED
  BY <1>1, <1>2

\* While a server runs its loop the socket file is its own, for any number
\* of clients and servers, of which any may be killed anywhere: whoever
\* unlinks or replaces the file has bitbake.lock (main and execServer of
\* server/process.py).
THEOREM SocketIsOwn == Spec => []SocketReaches
<1>1. SocketInv => SocketReaches
  BY DEF SocketInv
<1> QED
  BY SocketInit, SocketStep, <1>1, PTL DEF Spec

-----------------------------------------------------------------------------
(* Sequences of connections.                                               *)

\* No connection waits twice in one line.
NoRepeats(q) == \A i, j \in DOMAIN q : q[i] = q[j] => i = j

LEMMA AppendElements ==
  ASSUME NEW S, NEW q \in Seq(S), NEW x
  PROVE  /\ Elements(Append(q, x)) = Elements(q) \cup {x}
         /\ NoRepeats(q) /\ x \notin Elements(q) => NoRepeats(Append(q, x))
<1> DEFINE p == Append(q, x)
           n == Len(q) + 1
<1>1. /\ DOMAIN q = 1..Len(q) /\ DOMAIN p = 1..n /\ p[n] = x /\ Len(q) \in Nat
      /\ \A i \in 1..Len(q) : p[i] = q[i]
  OBVIOUS
<1> HIDE DEF p
<1>2. n \in DOMAIN p /\ \A i \in DOMAIN p : i = n \/ i \in DOMAIN q
  BY <1>1
<1>3. \A i \in DOMAIN q : i \in DOMAIN p /\ p[i] = q[i]
  BY <1>1
<1>4. p[n] = x
  BY <1>1
<1> HIDE DEF n
<1>5. Elements(p) = Elements(q) \cup {x}
  BY <1>2, <1>3, <1>4 DEF Elements
<1>6. NoRepeats(q) /\ x \notin Elements(q) => NoRepeats(p)
  BY <1>2, <1>3, <1>4 DEF NoRepeats, Elements
<1> QED
  BY <1>5, <1>6 DEF p

LEMMA TailElements ==
  ASSUME NEW S, NEW q \in Seq(S), q # <<>>
  PROVE  /\ Elements(q) = {Head(q)} \cup Elements(Tail(q))
         /\ NoRepeats(q) => NoRepeats(Tail(q)) /\ Head(q) \notin Elements(Tail(q))
         /\ Tail(q) \in Seq(S) /\ Head(q) \in S
<1> DEFINE p == Tail(q)
<1>1. /\ DOMAIN q = 1..Len(q) /\ Len(q) \in Nat \ {0} /\ Head(q) = q[1]
      /\ DOMAIN p = 1..(Len(q) - 1) /\ \A i \in 1..(Len(q) - 1) : p[i] = q[i + 1]
      /\ p \in Seq(S) /\ Head(q) \in S
  OBVIOUS
<1> HIDE DEF p
<1>2. \A i \in DOMAIN p : i + 1 \in DOMAIN q /\ p[i] = q[i + 1] /\ i + 1 # 1 /\ i \in Nat
  BY <1>1
<1>3. \A i \in DOMAIN q : i = 1 \/ (i - 1 \in DOMAIN p /\ p[i - 1] = q[i])
  BY <1>1
<1>4. 1 \in DOMAIN q
  BY <1>1
<1>5. Elements(q) = {q[1]} \cup Elements(p)
  BY <1>2, <1>3, <1>4 DEF Elements
<1>6. NoRepeats(q) => NoRepeats(p)
  BY <1>2 DEF NoRepeats
<1>7. NoRepeats(q) => q[1] \notin Elements(p)
  BY <1>2, <1>4 DEF NoRepeats, Elements
<1> QED
  BY <1>1, <1>5, <1>6, <1>7 DEF p

LEMMA ConcatElements ==
  ASSUME NEW S, NEW q \in Seq(S), NEW r \in Seq(S)
  PROVE  /\ q \o r \in Seq(S)
         /\ Elements(q \o r) = Elements(q) \cup Elements(r)
         /\ NoRepeats(q) /\ NoRepeats(r) /\ Elements(q) \cap Elements(r) = {}
              => NoRepeats(q \o r)
<1> DEFINE p == q \o r
           n == Len(q)
<1>1. /\ DOMAIN q = 1..n /\ DOMAIN r = 1..Len(r) /\ n \in Nat /\ Len(r) \in Nat
      /\ DOMAIN p = 1..(n + Len(r)) /\ p \in Seq(S)
      /\ \A i \in 1..n : p[i] = q[i]
      /\ \A i \in 1..Len(r) : p[n + i] = r[i]
  OBVIOUS
<1> HIDE DEF p, n
<1>2. /\ \A i \in DOMAIN q : i \in DOMAIN p /\ p[i] = q[i]
      /\ \A i \in DOMAIN r : n + i \in DOMAIN p /\ p[n + i] = r[i]
  BY <1>1
<1>3. \A i \in DOMAIN p : \/ i \in DOMAIN q /\ p[i] = q[i]
                          \/ /\ i - n \in DOMAIN r /\ p[i] = r[i - n]
                             /\ i \in Int /\ n \in Int
  <2> SUFFICES ASSUME NEW i \in DOMAIN p, i \notin DOMAIN q
               PROVE  i - n \in DOMAIN r /\ p[i] = r[i - n] /\ i \in Int /\ n \in Int
    BY <1>2
  <2>1. i \in Int /\ i - n \in 1..Len(r) /\ n + (i - n) = i
    BY <1>1
  <2> QED
    BY <1>1, <2>1
<1>4. Elements(p) = Elements(q) \cup Elements(r)
  BY <1>2, <1>3 DEF Elements
<1>5. ASSUME NoRepeats(q), NoRepeats(r), Elements(q) \cap Elements(r) = {}
      PROVE  NoRepeats(p)
  <2> SUFFICES ASSUME NEW i \in DOMAIN p, NEW j \in DOMAIN p, p[i] = p[j] PROVE i = j
    BY DEF NoRepeats
  <2>1. \A a \in DOMAIN q, b \in DOMAIN r : q[a] # r[b]
    BY <1>5 DEF Elements
  <2>2. CASE i \in DOMAIN q /\ p[i] = q[i] /\ j \in DOMAIN q /\ p[j] = q[j]
    BY <1>5, <2>2 DEF NoRepeats
  <2>3. CASE i - n \in DOMAIN r /\ j - n \in DOMAIN r /\ p[i] = r[i - n] /\ p[j] = r[j - n]
             /\ i \in Int /\ j \in Int /\ n \in Int
    <3>1. i - n = j - n
      BY <1>5, <2>3 DEF NoRepeats
    <3> QED
      BY <2>3, <3>1
  <2> QED
    BY <1>3, <2>1, <2>2, <2>3
<1> QED
  BY <1>1, <1>4, <1>5 DEF p

LEMMA LastElements ==
  ASSUME NEW S, NEW q \in Seq(S), q # <<>>
  PROVE  LET p == SubSeq(q, 1, Len(q) - 1)
             x == q[Len(q)]
         IN  /\ x \in S /\ x \in Elements(q) /\ p \in Seq(S)
             /\ Elements(p) \subseteq Elements(q)
             /\ NoRepeats(q) => NoRepeats(p) /\ x \notin Elements(p)
<1> DEFINE p == SubSeq(q, 1, Len(q) - 1)
           n == Len(q)
<1>1. n \in Nat \ {0} /\ DOMAIN q = 1..n
  OBVIOUS
<1>2. /\ DOMAIN p = 1..(n - 1) /\ p \in Seq(S)
      /\ \A i \in 1..(n - 1) : p[i] = q[i]
  BY <1>1
<1> HIDE DEF p, n
<1>3. /\ \A i \in DOMAIN p : i \in DOMAIN q /\ i # n /\ p[i] = q[i]
      /\ n \in DOMAIN q
  BY <1>1, <1>2
<1>4. q[n] \in S /\ q[n] \in Elements(q)
  BY <1>1, <1>3 DEF Elements
<1>5. Elements(p) \subseteq Elements(q)
  BY <1>3 DEF Elements
<1>6. NoRepeats(q) => NoRepeats(p) /\ q[n] \notin Elements(p)
  BY <1>3 DEF NoRepeats, Elements
<1> QED
  BY <1>2, <1>4, <1>5, <1>6 DEF p, n
-----------------------------------------------------------------------------
(* The invariant behind the other safety properties.                       *)

\* Connections, the commands they carry, what is written to the command pipe, and
\* the values of the servers' and the idle threads' fields.
Links == Clients \X Nat
Commands == [by : Links, kind : Kinds]
Messages == {"features", "terminate"} \cup Kinds \cup Stops
CookerStates == {"initial", "parsing", "running", "force"} \cup Stops
IdlePlaces == {"none", "copy", "dead", "parse", "parsing", "remove", "fire", "finish"}

SrvType ==
  [parent : Clients \cup {None}, backlog : Seq(Links), queue : Seq(Links),
   control : Links \cup {None}, ui : BOOLEAN, hadui : BOOLEAN, quit : BOOLEAN,
   pending : Commands \cup {None}, fns : SUBSET {"run", "build"},
   cmd : Commands \cup {None}, cooker : CookerStates, events : Seq(Links \cup {None})]
ConnType ==
  [fds : BOOLEAN, shut : SUBSET {"sock", "chan"}, chan : Seq(Messages),
   reply : {"ok", "error", "busy", None}, accepted : Nat, stopped : BOOLEAN,
   finals : Seq(Links \cup {None})]

IdleType == [pc : IdlePlaces, item : {"run", "build", None}, final : BOOLEAN]

Types ==
  /\ plan \in Plans
  /\ sock \in Slots \cup {None}
  /\ srv \in [Slots -> SrvType]
  /\ idle \in [Slots -> IdleType]
  /\ conn \in [Conns -> ConnType]
  /\ tries \in [Clients -> Nat]
  /\ \A c \in Clients : <<c, tries[c]>> \in Conns
  /\ \A s \in Slots : srv[s].ui => srv[s].control # None

LEMMA ConnsAre ==
  ASSUME plan \in Plans
  PROVE  /\ \A k \in Conns : /\ k # None
                              /\ \E c \in Clients : \E n \in 1..plan.tries[c] : k = <<c, n>>
         /\ \A c \in Clients : \A n \in 1..plan.tries[c] : <<c, n>> \in Conns
         /\ Conns \subseteq Links
<1>1. \A c \in Clients : 1..plan.tries[c] \subseteq Nat
  BY ServerAssumption
<1>2. /\ \A k \in Conns : \E c \in Clients : \E n \in 1..plan.tries[c] : k = <<c, n>>
      /\ \A c \in Clients : \A n \in 1..plan.tries[c] : <<c, n>> \in Conns
  BY DEF Conns
<1>3. Conns \subseteq Clients \X Nat
  BY <1>1, <1>2
<1> QED
  BY <1>2, <1>3, NoneAssumption DEF Links

LEMMA ParentType ==
  ASSUME NEW r \in SrvType, NEW c \in Clients
  PROVE  LET rec == [r EXCEPT !.parent = c]
         IN  rec \in SrvType /\ rec.ui = r.ui /\ rec.control = r.control
BY DEF SrvType

LEMMA BacklogType ==
  ASSUME NEW r \in SrvType, NEW more \in Seq(Links)
  PROVE  LET rec == [r EXCEPT !.backlog = more]
         IN  rec \in SrvType /\ rec.ui = r.ui /\ rec.control = r.control
BY DEF SrvType

LEMMA RetriesTypes ==
  ASSUME Types, NEW c \in Clients, Retries(c), UNCHANGED plan
  PROVE  /\ tries' \in [Clients -> Nat]
         /\ \A d \in Clients : <<d, tries'[d]>> \in Conns'
<1>1. Conns' = Conns
  BY DEF Conns
<1>2. plan.tries \in [Clients -> Nat \ {0}]
  BY ServerAssumption DEF Types
<1>3. tries[c] \in 1..plan.tries[c]
  <2>1. PICK d \in Clients : \E n \in 1..plan.tries[d] : <<c, tries[c]>> = <<d, n>>
    BY ConnsAre DEF Types, Conn
  <2> QED
    BY <2>1
<1>4. CASE tries' = tries
  BY <1>1, <1>4 DEF Types, Conn
<1>5. CASE tries[c] < plan.tries[c] /\ tries' = [tries EXCEPT ![c] = @ + 1]
  <2>1. tries' \in [Clients -> Nat] /\ tries'[c] \in 1..plan.tries[c]
    BY <1>2, <1>3, <1>5 DEF Types
  <2>2. <<c, tries'[c]>> \in Conns
    BY <2>1, ConnsAre DEF Types
  <2>3. \A d \in Clients : d # c => tries'[d] = tries[d]
    BY <1>5 DEF Types
  <2> QED
    BY <1>1, <2>1, <2>2, <2>3 DEF Types, Conn
<1> QED
  BY <1>4, <1>5 DEF Retries, Goes

LEMMA InitTypes == Init => Types
<1> SUFFICES ASSUME Init PROVE Types
  OBVIOUS
<1>1. plan \in Plans /\ plan.tries \in [Clients -> Nat \ {0}]
  BY ServerAssumption DEF Init
<1>2. \A c \in Clients : <<c, 1>> \in Conns
  BY <1>1, ConnsAre
<1>3. Fresh \in SrvType /\ Fresh.ui = FALSE
  BY DEF Fresh, SrvType, CookerStates
<1>4. NoConn \in ConnType
  BY DEF NoConn, ConnType
<1>5. NoThread \in IdleType
  BY DEF NoThread, IdleType, IdlePlaces
<1> QED
  BY <1>1, <1>2, <1>3, <1>4, <1>5 DEF Init, Types, Conn

\* A client's step.
LEMMA ClientTypes ==
  ASSUME Types, NEW c \in Clients,
         Client(c) \/ Ask(c) \/ Stop(c) \/ Terminate(c) \/ ClientKilled(c)
  PROVE  Types'
<1>1. UNCHANGED plan /\ Conns' = Conns
  BY DEF Client, Ask, Stop, Terminate, ClientKilled, StartServer, LockHeld, Look, WaitGets,
     WaitEnds, GiveBack, Connect, SendFds, Connected, Accepted, Stopped, Reads, NoReply,
     GotFinal, Leave, Closes, Sends, Conns
<1>2. /\ tries' \in [Clients -> Nat]
      /\ \A d \in Clients : <<d, tries'[d]>> \in Conns'
  <2>1. Retries(c) \/ UNCHANGED tries
    BY DEF Client, Ask, Stop, Terminate, ClientKilled, StartServer, LockHeld, Look, WaitGets,
     WaitEnds, GiveBack, Connect, SendFds, Connected, Accepted, Stopped, Reads, NoReply,
     GotFinal, Leave, Closes, Sends, Goes
  <2> QED
    BY <1>1, <2>1, RetriesTypes DEF Types, Conn
<1>3. UNCHANGED <<sock, idle>>
  BY DEF Client, Ask, Stop, Terminate, ClientKilled, StartServer, LockHeld, Look, WaitGets,
     WaitEnds, GiveBack, Connect, SendFds, Connected, Accepted, Stopped, Reads, NoReply,
     GotFinal, Leave, Closes, Sends
<1>4. /\ srv' \in [Slots -> SrvType]
      /\ \A s \in Slots : srv'[s].ui = srv[s].ui /\ srv'[s].control = srv[s].control
  <2>1. \/ UNCHANGED srv
        \/ \E s \in Slots : \/ srv' = [srv EXCEPT ![s].parent = c]
                           \/ srv' = [srv EXCEPT ![s].backlog = Append(@, Conn(c))]
    <3>1. CASE StartServer(c)
      <4> DEFINE s == CHOOSE s \in Slots : pc[s] = "off"
      <4>1. s \in Slots /\ srv' = [srv EXCEPT ![s].parent = c]
        BY <3>1 DEF StartServer
      <4> HIDE DEF s
      <4> QED
        BY <4>1
    <3>2. CASE Connect(c)
      BY <3>2 DEF Connect, Types
    <3> QED
      BY <3>1, <3>2 DEF Client, Ask, Stop, Terminate, ClientKilled, LockHeld, Look,
       WaitGets, WaitEnds, GiveBack, SendFds, Connected, Accepted, Stopped, Reads, NoReply,
       GotFinal, Leave, Closes, Sends
  <2>2. ASSUME NEW s \in Slots, srv' = [srv EXCEPT ![s].parent = c]
        PROVE  /\ srv' \in [Slots -> SrvType]
               /\ \A t \in Slots : srv'[t].ui = srv[t].ui /\ srv'[t].control = srv[t].control
    <3> DEFINE rec == [srv[s] EXCEPT !.parent = c]
    <3>0. srv[s] \in SrvType /\ c \in Clients
      BY DEF Types
    <3>1. rec \in SrvType /\ rec.ui = srv[s].ui /\ rec.control = srv[s].control
      BY <3>0, ParentType
    <3>2. srv' = [srv EXCEPT ![s] = rec]
      BY <2>2
    <3> HIDE DEF rec
    <3> QED
      BY <3>1, <3>2 DEF Types
  <2>3. ASSUME NEW s \in Slots, srv' = [srv EXCEPT ![s].backlog = Append(@, Conn(c))]
        PROVE  /\ srv' \in [Slots -> SrvType]
               /\ \A t \in Slots : srv'[t].ui = srv[t].ui /\ srv'[t].control = srv[t].control
    <3>1. Append(srv[s].backlog, Conn(c)) \in Seq(Links)
      BY ConnsAre DEF Types, SrvType, Conn
    <3> DEFINE more == Append(srv[s].backlog, Conn(c))
               rec == [srv[s] EXCEPT !.backlog = more]
    <3>2. srv' = [srv EXCEPT ![s] = rec]
      BY <2>3
    <3>0. srv[s] \in SrvType /\ more \in Seq(Links)
      BY <3>1 DEF Types
    <3> HIDE DEF more
    <3>3. rec \in SrvType /\ rec.ui = srv[s].ui /\ rec.control = srv[s].control
      BY <3>0, BacklogType
    <3> HIDE DEF rec
    <3> QED
      BY <3>2, <3>3 DEF Types
  <2> QED
    BY <2>1, <2>2, <2>3 DEF Types
<1>5. conn' \in [Conns -> ConnType]
  <2> DEFINE k == Conn(c)
  <2>1. k \in Conns
    BY DEF Types, Conn
  <2>2. CASE UNCHANGED conn
    BY <2>2 DEF Types
  <2> DEFINE old == conn[k]
  <2>a. ASSUME NEW rec \in ConnType, conn' = [conn EXCEPT ![k] = rec]
        PROVE  conn' \in [Conns -> ConnType]
    BY <2>1, <2>a DEF Types
  <2>b. old \in ConnType
    BY <2>1 DEF Types
  <2>3. CASE SendFds(c)
    <3> DEFINE rec == [old EXCEPT !.fds = TRUE, !.chan = <<"features">>]
    <3>1. conn' = [conn EXCEPT ![k] = rec]
      BY <2>1, <2>3 DEF SendFds, Types
    <3> HIDE DEF old
    <3>2. <<"features">> \in Seq(Messages)
      BY DEF Messages
    <3>3. rec \in ConnType
      BY <2>b, <3>2 DEF ConnType
    <3> QED
      BY <2>a, <3>1, <3>3
  <2>4. ASSUME NEW place, Reads(c, place) PROVE conn' \in [Conns -> ConnType]
    <3> DEFINE rec == [old EXCEPT !.reply = None]
    <3>1. conn' = [conn EXCEPT ![k] = rec]
      BY <2>1, <2>4 DEF Reads, Types
    <3> HIDE DEF old
    <3>2. rec \in ConnType
      BY <2>b DEF ConnType
    <3> QED
      BY <2>a, <3>1, <3>2
  <2>5. ASSUME NEW place, NEW msg \in Messages, Sends(c, msg, place)
        PROVE  conn' \in [Conns -> ConnType]
    <3>1. Append(conn[k].chan, msg) \in Seq(Messages)
      BY <2>1 DEF Types, ConnType
    <3> DEFINE rec == [old EXCEPT !.chan = Append(old.chan, msg), !.stopped = msg \in Stops]
    <3>2. conn' = [conn EXCEPT ![k] = rec]
      BY <2>1, <2>5 DEF Sends, Types
    <3> HIDE DEF old
    <3> DEFINE more == Append(old.chan, msg)
               stops == msg \in Stops
    <3>a. more \in Seq(Messages) /\ stops \in BOOLEAN
      BY <3>1 DEF old
    <3> HIDE DEF more, stops
    <3>3. [old EXCEPT !.chan = more, !.stopped = stops] \in ConnType
      BY <2>b, <3>a DEF ConnType
    <3>4. rec \in ConnType
      BY <3>3 DEF more, stops
    <3> HIDE DEF rec
    <3> QED
      BY <2>a, <3>2, <3>4
  <2>6. ASSUME NEW ends \in SUBSET {"sock", "chan"}, Shut(c, ends)
        PROVE  conn' \in [Conns -> ConnType]
    <3> DEFINE rec == [NoConn EXCEPT !.fds = old.fds, !.chan = old.chan, !.shut = ends]
    <3>1. conn' = [conn EXCEPT ![k] = rec]
      BY <2>6 DEF Shut
    <3> HIDE DEF old
    <3>a. NoConn \in ConnType
      BY DEF ConnType, NoConn
    <3>2. rec \in ConnType
      BY <2>b, <3>a DEF ConnType
    <3> QED
      BY <2>a, <3>1, <3>2
  <2>7. CASE Ask(c) \/ Stop(c) \/ Terminate(c)
    BY <2>5, <2>7 DEF Ask, Stop, Terminate, Messages
  <2>8. CASE Closes(c) \/ ClientKilled(c)
    BY <2>6, <2>8 DEF Closes, ClientKilled
  <2>9. CASE Connected(c) \/ Accepted(c) \/ Stopped(c)
    BY <2>4, <2>9 DEF Connected, Accepted, Stopped
  <2> QED
    BY <2>2, <2>3, <2>7, <2>8, <2>9 DEF Client, StartServer, LockHeld, Look, WaitGets,
       WaitEnds, GiveBack, Connect, NoReply, GotFinal, Leave
<1> QED
  BY <1>1, <1>2, <1>3, <1>4, <1>5 DEF Types

\* The connections a server holds are in one place each, and no other server has them.
Line(r) ==
  /\ NoRepeats(r.backlog) /\ NoRepeats(r.queue)
  /\ Elements(r.backlog) \cap Elements(r.queue) = {}
  /\ r.control \notin Elements(r.backlog) \cup Elements(r.queue)

\* The connections that wait to be accepted, or for their turn, or are served.
Hold(r) == Elements(r.backlog) \cup Elements(r.queue) \cup {r.control}

HeldOnce ==
  /\ \A s \in Slots : Line(srv[s]) /\ Hold(srv[s]) \subseteq Conns \cup {None}
  /\ \A s, t \in Slots : s # t => Hold(srv[s]) \cap Hold(srv[t]) \subseteq {None}

\* A connection that its client has not made is nowhere; one whose descriptors
\* are to be sent, or that waits for its turn, has not been served.
Early == {"start", "look", "wait", "giveback", "boot", "connect"}
Later(c, n) == n > tries[c] \/ (n = tries[c] /\ at[c] \in Early)
Serves(r, k) == r.ui /\ r.control = k

Untouched ==
  /\ \A c \in Clients : \A n \in 1..plan.tries[c] :
       Later(c, n) => conn[<<c, n>>] = NoConn /\ \A s \in Slots : <<c, n>> \notin Hold(srv[s])
  /\ \A c \in Clients : at[c] = "fds" =>
       /\ conn[<<c, tries[c]>>] = NoConn
       /\ \A s \in Slots : ~Serves(srv[s], <<c, tries[c]>>)
  /\ \A s \in Slots : \A k \in Hold(srv[s]) \ {None} :
       ~Serves(srv[s], k) => conn[k].accepted = 0 /\ conn[k].finals = <<>>

\* What a client at this place has said on its connection, and been told.
Spoken(place, r) ==
  /\ place = "features" => /\ r.chan = <<>> \/ r.chan = <<"features">>
                           /\ r.reply = "ok" => r.chan = <<>> \/ r.accepted >= 1
  /\ place \in {"ui", "asked"} =>
       ("features" \in Elements(r.chan) \/ r.reply = "ok" => r.accepted >= 1)
  /\ place \in {"waiting", "stopping"} => r.accepted >= 1

\* A stop is written only to a connection that was served.
StopsLate(r) == "shutdown" \in Elements(r.chan) => r.shut # {} \/ r.accepted >= 1

Said ==
  /\ \A k \in Conns : StopsLate(conn[k])
  /\ \A c \in Clients : Spoken(at[c], conn[<<c, tries[c]>>])

\* What the idle thread at its place i knows of the functions and the command
\* in r, when the main thread is at place.
IdleOK(place, i, r) ==
  LET run == "run" \in r.fns
      build == "build" \in r.fns
  IN
  /\ i.pc = "none" <=> place \in {"off", "boot", "bound"}
  /\ i.pc = "none" => /\ ~run /\ ~build /\ r.cmd = None /\ ~r.ui /\ r.events = <<>>
                      /\ r.cooker = "initial"
  /\ i.pc \in {"copy", "dead"} => /\ ~run \/ ~build
                                  /\ run \/ build => r.cmd # None
                                  /\ r.cmd # None => run \/ build \/ place = "register" \/ r.quit
  /\ i.pc \in {"parse", "parsing"} => run /\ ~build /\ r.cmd # None
  /\ i.pc \in {"fire", "finish"} => ~build /\ r.cmd # None /\ (run => i.item = "run")
  /\ i.pc = "finish" => ~i.final
  /\ i.pc = "remove" =>
       IF i.final
       THEN /\ r.cmd # None
            /\ \/ i.item = "run" /\ run /\ ~build
               \/ i.item = "build" /\ build /\ ~run
       ELSE i.item = "run" /\ run /\ (r.cmd = None <=> ~build)
  /\ i.pc = "dead" => r.quit
  /\ place = "register" => i.pc \in {"copy", "dead"} /\ ~run /\ ~build

\* Places of the main thread: in runCommand, and while a user interface may be served.
Taking == {"acquire", "busy", "register"}
Serving == {"loop", "drain"} \cup Taking

\* What the main thread at its place knows of the command it takes and of the one
\* that runs.
MainOK(place, r) ==
  /\ place \in Taking => r.ui /\ r.pending # None /\ r.pending.by = r.control
  /\ place \notin Taking => r.pending = None
  /\ place = "register" => r.cmd = r.pending
  /\ r.ui /\ r.cmd # None => r.cmd.by = r.control
  /\ r.events # <<>> => r.quit /\ ~r.ui
  /\ place \notin Serving \cup {"off", "boot", "bound"} => r.quit
  /\ place = "drain" => r.ui

\* Nothing runs, unless a command has just been taken.
Quiet(place, r) ==
  /\ "run" \notin r.fns /\ "build" \notin r.fns /\ r.cooker = "initial"
  /\ r.cmd = None \/ place = "register"

\* k is the connection that controls the server.
Clean(place, r, k) ==
  /\ ~r.ui /\ ~r.quit => Quiet(place, r) /\ place \in {"off", "boot", "bound", "loop"}
  /\ place \in Serving /\ r.ui /\ k.shut = {} /\ k.accepted = 0 => Quiet(place, r)

\* A command that was accepted and whose final event is still to come.
Due(place, i, r) == IF r.cmd # None /\ place # "register" /\ i.pc # "finish" THEN 1 ELSE 0

\* The final events written to k and the one that is due are as many as the commands
\* accepted from it.
Counted(place, i, r, k) ==
  r.ui /\ k.shut = {} => Len(k.finals) + Due(place, i, r) = k.accepted

Servers == \A s \in Slots :
  /\ IdleOK(pc[s], idle[s], srv[s]) /\ MainOK(pc[s], srv[s])
  /\ Clean(pc[s], srv[s], conn[srv[s].control])
  /\ Counted(pc[s], idle[s], srv[s], conn[srv[s].control])

\* The final events that r was sent are for the commands of k.
OwnFinals(k, r) == \A i \in DOMAIN r.finals : r.finals[i] = k

\* The inductive invariant.
ServerInv == SocketInv /\ Types /\ HeldOnce /\ Untouched /\ Said /\ Servers /\ EventsAreOwn

-----------------------------------------------------------------------------
(* A step of the server s: what it leaves alone, and what it may do to the *)
(* clients, to the connections in its hands and to the pipes.              *)

Local(s) ==
  /\ UNCHANGED plan
  /\ \A t \in Slots \ {s} : srv'[t] = srv[t] /\ idle'[t] = idle[t] /\ pc'[t] = pc[t]

\* A client that waits for a server to start is let go; the others stay.
Released(c) ==
  \/ at'[c] \in {"connect", "gaveup"} /\ tries'[c] = tries[c]
  \/ at'[c] = "start" /\ tries'[c] = tries[c] + 1

Waits == \A c \in Clients : \/ at'[c] = at[c] /\ tries'[c] = tries[c]
                            \/ at[c] = "boot" /\ Released(c)

\* The connections of a server stay in line, leave it, or come to be served.
HandedOn(r, new) ==
  /\ Line(new) /\ Hold(new) \subseteq Hold(r) \cup {None}
  /\ r.ui => new.ui \/ r.control \notin Hold(new)
  /\ new.ui => new.control = r.control /\ (r.ui \/ conn[r.control].fds)

\* What the server may do to the pipes of the connection it serves: take from the
\* command pipe, reply, count what it accepted, and send final events.
Heard(k, r, new) ==
  /\ new.shut = r.shut /\ new.accepted >= r.accepted
  /\ Elements(new.chan) \subseteq Elements(r.chan)
  /\ r.chan = <<>> => new.chan = <<>>
  /\ r.chan = <<"features">> => new.chan = <<>> \/ new.chan = <<"features">>
  /\ new.reply = "ok" => \/ r.reply = "ok" \/ new.accepted >= 1
                         \/ /\ "features" \in Elements(r.chan)
                            /\ r.chan = <<"features">> => new.chan = <<>>
  /\ OwnFinals(k, r) => OwnFinals(k, new)

\* A connection whose descriptors the server has closed.
Dropped(r) == [r EXCEPT !.fds = FALSE, !.chan = <<>>]

\* What becomes of the connections in a step of s.
Pipes(s) == \A k \in Conns :
  \/ conn'[k] = conn[k]
  \/ conn'[k] = Dropped(conn[k])
  \/ srv[s].ui /\ srv[s].control = k /\ Heard(k, conn[k], conn'[k])

LEMMA DroppedIs ==
  ASSUME NEW r \in ConnType
  PROVE  LET new == Dropped(r) IN
         /\ new.shut = r.shut /\ new.accepted = r.accepted /\ new.finals = r.finals
         /\ new.reply = r.reply /\ new.chan = <<>> /\ Elements(new.chan) = {}
         /\ new \in ConnType
<1>1. <<>> \in Seq(Messages) /\ Elements(<<>>) = {}
  BY DEF Elements
<1> QED
  BY <1>1 DEF ConnType, Dropped

LEMMA DroppedNone == Dropped(NoConn) = NoConn
<1> DEFINE words == Seq(Messages)
           ends == SUBSET {"sock", "chan"}
           answers == {"ok", "error", "busy", None}
           events == Seq(Links \cup {None})
<1>1. NoConn \in ConnType /\ NoConn.fds = FALSE /\ NoConn.chan = <<>>
  BY DEF NoConn, ConnType
<1>2. NoConn \in [fds : BOOLEAN, shut : ends, chan : words, reply : answers, accepted : Nat,
                  stopped : BOOLEAN, finals : events]
  BY <1>1 DEF ConnType
<1> HIDE DEF words, ends, answers, events
<1> QED
  BY <1>1, <1>2 DEF Dropped

LEMMA HoldsConns ==
  ASSUME Types, NEW s \in Slots, Local(s), HandedOn(srv[s], srv'[s]), HeldOnce
  PROVE  HeldOnce'
<1>1. Conns' = Conns
  BY DEF Local, Conns
<1>2. /\ \A t \in Slots \ {s} : srv'[t] = srv[t]
      /\ Line(srv'[s]) /\ Hold(srv'[s]) \subseteq Hold(srv[s]) \cup {None}
  BY DEF Local, HandedOn
<1>3. \A t \in Slots : Line(srv'[t]) /\ Hold(srv'[t]) \subseteq Hold(srv[t]) \cup {None}
  BY <1>2 DEF HeldOnce
<1>4. \A t \in Slots : Line(srv'[t]) /\ Hold(srv'[t]) \subseteq Conns \cup {None}
  BY <1>3 DEF HeldOnce
<1>5. \A t, u \in Slots : t # u => Hold(srv'[t]) \cap Hold(srv'[u]) \subseteq {None}
  BY <1>3 DEF HeldOnce
<1> QED
  BY <1>1, <1>4, <1>5 DEF HeldOnce

LEMMA StaysUntouched ==
  ASSUME Types, Types', HeldOnce, Untouched, NEW s \in Slots, Local(s), Waits,
         HandedOn(srv[s], srv'[s]), Pipes(s)
  PROVE  Untouched'
<1>1. UNCHANGED plan /\ \A t \in Slots \ {s} : srv'[t] = srv[t]
  BY DEF Local
<1>2. \A t \in Slots : Hold(srv'[t]) \subseteq Hold(srv[t]) \cup {None}
  BY <1>1 DEF HandedOn
<1>3. \A k \in Conns : k # None /\ k \in Links
  BY ConnsAre DEF Types
<1>4. ASSUME NEW c \in Clients, NEW n \in 1..plan.tries[c],
             n > tries'[c] \/ (n = tries'[c] /\ at'[c] \in Early)
      PROVE  /\ conn'[<<c, n>>] = NoConn
             /\ \A t \in Slots : <<c, n>> \notin Hold(srv'[t])
  <2>1. <<c, n>> \in Conns
    BY ConnsAre DEF Types
  <2>2. Later(c, n)
    <3>1. tries[c] \in Nat /\ tries'[c] \in Nat /\ n \in Int
      BY DEF Types
    <3> QED
      BY <1>4, <3>1 DEF Waits, Released, Later, Early
  <2>3. conn[<<c, n>>] = NoConn /\ \A t \in Slots : <<c, n>> \notin Hold(srv[t])
    BY <2>2 DEF Untouched
  <2>4. <<c, n>> # srv[s].control
    BY <2>3 DEF Hold
  <2>5. conn'[<<c, n>>] = NoConn
    BY <2>1, <2>3, <2>4, DroppedNone DEF Pipes
  <2> QED
    BY <1>2, <1>3, <2>1, <2>3, <2>5
<1>5. ASSUME NEW c \in Clients, at'[c] = "fds"
      PROVE  /\ conn'[<<c, tries'[c]>>] = NoConn
             /\ \A t \in Slots : ~Serves(srv'[t], <<c, tries'[c]>>)
  <2>1. at[c] = "fds" /\ tries'[c] = tries[c]
    BY <1>5 DEF Waits, Released
  <2> DEFINE k == <<c, tries[c]>>
  <2>2. k \in Conns
    BY DEF Types
  <2>3. conn[k] = NoConn /\ \A t \in Slots : ~Serves(srv[t], k)
    BY <2>1 DEF Untouched
  <2>4. conn'[k] = NoConn
    BY <2>2, <2>3, DroppedNone DEF Pipes, Serves
  <2>5. ~Serves(srv'[s], k)
    <3>1. NoConn.fds = FALSE
      BY DEF NoConn
    <3> QED
      BY <2>3, <3>1 DEF HandedOn, Serves
  <2> QED
    BY <1>1, <2>1, <2>3, <2>4, <2>5
<1>6. ASSUME NEW t \in Slots, NEW k \in Hold(srv'[t]) \ {None}, ~Serves(srv'[t], k)
      PROVE  conn'[k].accepted = 0 /\ conn'[k].finals = <<>>
  <2>1. k \in Hold(srv[t]) /\ k \in Conns
    BY <1>2 DEF HeldOnce
  <2>2. ~Serves(srv[t], k)
    <3>1. CASE t = s
      BY <1>6, <3>1 DEF HandedOn, Serves
    <3>2. CASE t # s
      BY <1>1, <1>6, <3>2
    <3> QED
      BY <3>1, <3>2
  <2>3. conn[k].accepted = 0 /\ conn[k].finals = <<>>
    BY <2>1, <2>2 DEF Untouched
  <2>4. ~Serves(srv[s], k)
    <3>1. CASE t # s
      <4>1. k \notin Hold(srv[s])
        BY <2>1, <3>1 DEF HeldOnce
      <4> QED
        BY <4>1 DEF Serves, Hold
    <3> QED
      BY <2>2, <3>1
  <2>5. conn[k] \in ConnType
    BY <2>1 DEF Types
  <2> QED
    BY <2>1, <2>3, <2>4, <2>5, DroppedIs DEF Pipes, Serves
<1> QED
  BY <1>1, <1>4, <1>5, <1>6 DEF Untouched, Later

LEMMA StaysSaid ==
  ASSUME Types, Types', Said, NEW s \in Slots, Local(s), Waits, Pipes(s)
  PROVE  Said'
<1>1. UNCHANGED plan /\ Conns' = Conns
  BY DEF Local, Conns
<1>2. ASSUME NEW k \in Conns PROVE StopsLate(conn'[k])
  <2>1. StopsLate(conn[k]) /\ conn[k] \in ConnType /\ conn'[k] \in ConnType
    BY <1>1 DEF Said, Types
  <2>2. CASE conn'[k] = Dropped(conn[k])
    BY <2>1, <2>2, DroppedIs DEF StopsLate
  <2>3. CASE Heard(k, conn[k], conn'[k])
    BY <2>1, <2>3 DEF StopsLate, Heard, ConnType
  <2> QED
    BY <2>1, <2>2, <2>3 DEF Pipes
<1>3. ASSUME NEW c \in Clients PROVE Spoken(at'[c], conn'[<<c, tries'[c]>>])
  <2>1. CASE Released(c)
    BY <2>1 DEF Released, Spoken
  <2>2. CASE at'[c] = at[c] /\ tries'[c] = tries[c]
    <3> DEFINE k == <<c, tries[c]>>
    <3>1. k \in Conns
      BY DEF Types
    <3>2. Spoken(at[c], conn[k]) /\ conn[k] \in ConnType /\ conn'[k] \in ConnType
      BY <1>1, <3>1 DEF Said, Types
    <3>3. CASE conn'[k] = Dropped(conn[k])
      <4>1. Spoken(at[c], Dropped(conn[k]))
        BY <3>2, DroppedIs DEF Spoken
      <4> QED
        BY <2>2, <3>3, <4>1
    <3>4. CASE Heard(k, conn[k], conn'[k])
      <4>1. Elements(<<"features">>) = {"features"} /\ Elements(<<>>) = {}
        BY DEF Elements
      <4> DEFINE r == conn[k]
                 new == conn'[k]
      <4>2. /\ Spoken(at[c], r) /\ Heard(k, r, new)
            /\ r.accepted \in Nat /\ new.accepted \in Nat
        BY <3>2, <3>4 DEF ConnType
      <4> HIDE DEF r, new
      <4>a. at[c] = "features" => new.chan = <<>> \/ new.chan = <<"features">>
        BY <4>2 DEF Spoken, Heard
      <4>b. at[c] = "features" /\ new.reply = "ok" => new.chan = <<>> \/ new.accepted >= 1
        BY <4>1, <4>2 DEF Spoken, Heard
      <4>c. at[c] \in {"ui", "asked"} =>
              ("features" \in Elements(new.chan) \/ new.reply = "ok" => new.accepted >= 1)
        BY <4>2 DEF Spoken, Heard
      <4>d. at[c] \in {"waiting", "stopping"} => new.accepted >= 1
        BY <4>2 DEF Spoken, Heard
      <4>3. Spoken(at[c], conn'[k])
        BY <4>a, <4>b, <4>c, <4>d DEF Spoken, new
      <4> QED
        BY <2>2, <4>3
    <3> QED
      BY <2>2, <3>1, <3>2, <3>3, <3>4 DEF Pipes
  <2> QED
    BY <2>1, <2>2 DEF Waits
<1> QED
  BY <1>1, <1>2, <1>3 DEF Said

\* What the server s itself comes to.
SoundNow(s) ==
  /\ IdleOK(pc[s], idle[s], srv[s]) /\ MainOK(pc[s], srv[s])
  /\ Clean(pc[s], srv[s], conn[srv[s].control])
  /\ Counted(pc[s], idle[s], srv[s], conn[srv[s].control])

LEMMA OthersSound ==
  ASSUME Types, HeldOnce, Servers, NEW s \in Slots, Local(s), Pipes(s), SoundNow(s)'
  PROVE  Servers'
<1> SUFFICES ASSUME NEW t \in Slots, t # s PROVE SoundNow(t)'
  BY DEF Servers, SoundNow
<1> DEFINE k == srv[t].control
<1>1. srv'[t] = srv[t] /\ idle'[t] = idle[t] /\ pc'[t] = pc[t]
  BY DEF Local
<1>2. /\ IdleOK(pc[t], idle[t], srv[t]) /\ MainOK(pc[t], srv[t])
      /\ Clean(pc[t], srv[t], conn[k]) /\ Counted(pc[t], idle[t], srv[t], conn[k])
  BY DEF Servers
<1>3. CASE ~srv[t].ui
  <2>1. Clean(pc[t], srv[t], conn'[k]) /\ Counted(pc[t], idle[t], srv[t], conn'[k])
    BY <1>2, <1>3 DEF Clean, Counted
  <2> QED
    BY <1>1, <1>2, <2>1 DEF SoundNow
<1>4. CASE srv[t].ui
  <2>1. k # None /\ k \in Hold(srv[t]) /\ k \in Conns
    BY <1>4 DEF Types, HeldOnce, Hold
  <2>2. k # srv[s].control
    BY <2>1 DEF HeldOnce, Hold
  <2>3. conn'[k] = conn[k] \/ conn'[k] = Dropped(conn[k])
    BY <2>1, <2>2 DEF Pipes
  <2>4. conn[k] \in ConnType
    BY <2>1 DEF Types
  <2>5. /\ conn'[k].shut = conn[k].shut /\ conn'[k].accepted = conn[k].accepted
        /\ conn'[k].finals = conn[k].finals
    BY <2>3, <2>4, DroppedIs
  <2>6. Clean(pc[t], srv[t], conn'[k]) /\ Counted(pc[t], idle[t], srv[t], conn'[k])
    BY <1>2, <2>5 DEF Clean, Counted
  <2> QED
    BY <1>1, <1>2, <2>6 DEF SoundNow
<1> QED
  BY <1>3, <1>4

LEMMA StaysOwn ==
  ASSUME Types, EventsAreOwn, NEW s \in Slots, Local(s), Pipes(s)
  PROVE  EventsAreOwn'
<1>1. Conns' = Conns
  BY DEF Local, Conns
<1>2. ASSUME NEW k \in Conns PROVE OwnFinals(k, conn'[k])
  <2>1. OwnFinals(k, conn[k]) /\ conn[k] \in ConnType
    BY DEF EventsAreOwn, OwnFinals, Types
  <2> QED
    BY <2>1, DroppedIs DEF Pipes, Heard, OwnFinals
<1> QED
  BY <1>1, <1>2 DEF EventsAreOwn, OwnFinals

LEMMA ServerSteps ==
  ASSUME ServerInv, SocketInv', Types', NEW s \in Slots, Local(s), Waits,
         HandedOn(srv[s], srv'[s]), Pipes(s), SoundNow(s)'
  PROVE  ServerInv'
BY HoldsConns, StaysUntouched, StaysSaid, OthersSound, StaysOwn DEF ServerInv

-----------------------------------------------------------------------------
(* A step of a client.                                                     *)

\* The steps of a client, its death included.
ClientStep(c) == Client(c) \/ Ask(c) \/ Stop(c) \/ Terminate(c) \/ ClientKilled(c)

LEMMA TriesIn ==
  ASSUME Types, NEW c \in Clients
  PROVE  tries[c] \in 1..plan.tries[c]
<1>1. PICK d \in Clients : \E n \in 1..plan.tries[d] : <<c, tries[c]>> = <<d, n>>
  BY ConnsAre DEF Types
<1> QED
  BY <1>1

\* It writes to its own connection only, and moves to where it has made none
\* only from there, or to try again.
LEMMA ClientPlaces ==
  ASSUME Types, PlacesOK, NEW c \in Clients, ClientStep(c)
  PROVE  /\ UNCHANGED <<plan, idle>>
         /\ \A d \in Clients \ {c} : at'[d] = at[d] /\ tries'[d] = tries[d]
         /\ \/ tries'[c] = tries[c] /\ at'[c] \notin Early
            \/ tries'[c] = tries[c] /\ at[c] \in Early /\ UNCHANGED conn
            \/ tries'[c] = tries[c] + 1 /\ at'[c] = "start"
         /\ at'[c] = "fds" => at[c] = "connect" /\ Connect(c) /\ UNCHANGED conn /\ tries'[c] = tries[c]
<1>1. UNCHANGED <<plan, idle>>
  BY DEF ClientStep, Client, Ask, Stop, Terminate, ClientKilled, StartServer, LockHeld, Look,
     WaitGets, WaitEnds, GiveBack, Connect, SendFds, Connected, Accepted, Stopped, Reads,
     NoReply, GotFinal, Leave, Closes, Sends
<1>2. ASSUME NEW place, Goes(c, place)
      PROVE  /\ \A d \in Clients \ {c} : at'[d] = at[d] /\ tries'[d] = tries[d]
             /\ at'[c] = place /\ tries'[c] = tries[c]
  BY <1>2 DEF Goes, PlacesOK
<1>3. ASSUME Retries(c)
      PROVE  /\ \A d \in Clients \ {c} : at'[d] = at[d] /\ tries'[d] = tries[d]
             /\ \/ at'[c] = "start" /\ tries'[c] = tries[c] + 1
                \/ at'[c] = "gaveup" /\ tries'[c] = tries[c]
  <2>1. CASE Goes(c, "gaveup")
    BY <2>1, <1>2
  <2>2. CASE at' = [at EXCEPT ![c] = "start"] /\ tries' = [tries EXCEPT ![c] = @ + 1]
    BY <2>2 DEF PlacesOK, Types
  <2> QED
    BY <1>3, <2>1, <2>2 DEF Retries
<1>4. CASE StartServer(c)
  <2>1. at[c] = "start" /\ Goes(c, "boot") /\ UNCHANGED conn
    BY <1>4 DEF StartServer
  <2> QED
    BY <1>1, <1>2, <2>1 DEF Early
<1>5. CASE LockHeld(c)
  BY <1>1, <1>2, <1>5 DEF LockHeld, Early
<1>6. CASE Look(c)
  <2>1. at[c] = "look" /\ UNCHANGED conn /\ (Goes(c, "wait") \/ Goes(c, "connect"))
    BY <1>6 DEF Look
  <2> QED
    BY <1>1, <1>2, <2>1 DEF Early
<1>7. CASE WaitGets(c)
  BY <1>1, <1>2, <1>7 DEF WaitGets, Early
<1>8. CASE WaitEnds(c) \/ GiveBack(c)
  <2>1. Retries(c) /\ UNCHANGED conn
    BY <1>8 DEF WaitEnds, GiveBack
  <2> QED
    BY <1>1, <1>3, <2>1 DEF Early
<1>9. CASE Connect(c)
  <2>1. at[c] = "connect" /\ UNCHANGED conn /\ (Goes(c, "fds") \/ Retries(c))
    BY <1>9 DEF Connect
  <2> QED
    BY <1>1, <1>2, <1>3, <1>9, <2>1 DEF Early
<1>10. CASE \E place : place \notin Early \cup {"fds"} /\ Goes(c, place)
  BY <1>1, <1>2, <1>10
<1>11. CASE SendFds(c) \/ Connected(c) \/ Accepted(c) \/ Stopped(c) \/ NoReply(c)
  <2>1. \/ Goes(c, "features") \/ Goes(c, "ui") \/ Goes(c, "leaving") \/ Goes(c, "waiting")
        \/ Goes(c, "dropping")
    BY <1>11 DEF SendFds, Connected, Accepted, Stopped, Reads, NoReply
  <2> QED
    BY <1>10, <2>1 DEF Early
<1>12. CASE GotFinal(c) \/ Leave(c) \/ Ask(c) \/ Stop(c) \/ Terminate(c) \/ ClientKilled(c)
  <2>1. \/ Goes(c, "ui") \/ Goes(c, "leaving") \/ Goes(c, "asked") \/ Goes(c, "stopping")
        \/ Goes(c, "done")
    BY <1>12 DEF GotFinal, Leave, Ask, Stop, Terminate, ClientKilled, Sends
  <2> QED
    BY <1>10, <2>1 DEF Early
<1>13. CASE Closes(c)
  <2>1. Goes(c, "done") \/ Goes(c, "dropped") \/ Retries(c)
    BY <1>13 DEF Closes
  <2> QED
    BY <1>1, <1>3, <1>10, <2>1 DEF Early
<1> QED
  BY <1>4, <1>5, <1>6, <1>7, <1>8, <1>9, <1>11, <1>12, <1>13 DEF ClientStep, Client

\* A client writes to its command pipe and closes its ends; counts and events are
\* the server's.
Written(r, new) ==
  \/ new.shut = r.shut /\ new.accepted = r.accepted /\ new.finals = r.finals
  \/ new.shut # {} /\ new.accepted = 0 /\ new.finals = <<>>

\* What it has written, and where that leaves it.
LEMMA ClientWrites ==
  ASSUME Types, PlacesOK, Untouched, Said, NEW c \in Clients, ClientStep(c)
  PROVE  LET k == <<c, tries[c]>> IN
         /\ \A j \in Conns \ {k} : conn'[j] = conn[j]
         /\ Written(conn[k], conn'[k]) /\ StopsLate(conn'[k])
         /\ tries'[c] = tries[c] => Spoken(at'[c], conn'[k])
<1> DEFINE k == <<c, tries[c]>>
           r == conn[k]
           new == conn'[k]
           Goal == /\ \A j \in Conns \ {k} : conn'[j] = conn[j]
                   /\ Written(r, new) /\ StopsLate(new)
                   /\ tries'[c] = tries[c] => Spoken(at'[c], new)
<1>1. k \in Conns /\ r \in ConnType /\ Conn(c) = k
  BY DEF Types, Conn
<1>2. StopsLate(r) /\ Spoken(at[c], r)
  BY <1>1 DEF Said
<1>3. ASSUME NEW place, Goes(c, place) PROVE at'[c] = place
  BY <1>3 DEF Goes, PlacesOK
<1>4. ASSUME NEW rec, conn' = [conn EXCEPT ![k] = rec]
      PROVE  (\A j \in Conns \ {k} : conn'[j] = conn[j]) /\ new = rec
  BY <1>1, <1>4 DEF Types
<1>5. ASSUME UNCHANGED conn, Spoken(at'[c], r) \/ tries'[c] # tries[c]
      PROVE  Goal
  BY <1>2, <1>5 DEF Written
<1>6. Elements(<<"features">>) = {"features"} /\ Elements(<<>>) = {}
  BY DEF Elements
<1>7. CASE \/ StartServer(c) \/ LockHeld(c) \/ Look(c) \/ WaitGets(c) \/ WaitEnds(c) \/ GiveBack(c)
           \/ Connect(c)
  <2>1. UNCHANGED conn
    BY <1>7 DEF StartServer, LockHeld, Look, WaitGets, WaitEnds, GiveBack, Connect
  <2>2. \/ \E place \in Early \cup {"fds", "gaveup"} : Goes(c, place)
        \/ at' = [at EXCEPT ![c] = "start"]
    BY <1>7 DEF StartServer, LockHeld, Look, WaitGets, WaitEnds, GiveBack, Connect, Retries, Early
  <2>3. at'[c] \in Early \cup {"fds", "gaveup"}
    BY <2>2, <1>3 DEF PlacesOK, Early
  <2>4. Spoken(at'[c], r)
    BY <2>3 DEF Spoken, Early
  <2> QED
    BY <2>1, <2>4, <1>5
<1>8. CASE NoReply(c) \/ GotFinal(c) \/ Leave(c)
  <2>1. /\ UNCHANGED conn
        /\ at'[c] \in {"dropping", "leaving"} \/ (at[c] = "waiting" /\ at'[c] = "ui")
    BY <1>3, <1>8 DEF NoReply, GotFinal, Leave
  <2>2. Spoken(at'[c], r)
    BY <1>2, <2>1 DEF Spoken
  <2> QED
    BY <2>1, <2>2, <1>5
<1>9. CASE SendFds(c)
  <2> DEFINE rec == [r EXCEPT !.fds = TRUE, !.chan = <<"features">>]
  <2>1. conn' = [conn EXCEPT ![k] = rec] /\ at'[c] = "features"
    BY <1>1, <1>3, <1>9 DEF SendFds, Types
  <2> HIDE DEF r
  <2>2. /\ rec.chan = <<"features">> /\ rec.reply = r.reply /\ rec.shut = r.shut
        /\ rec.accepted = r.accepted /\ rec.finals = r.finals
    BY <1>1 DEF ConnType
  <2>3. r.reply # "ok"
    BY <1>1, <1>9, NoneAssumption DEF SendFds, Untouched, NoConn, r
  <2>4. Written(r, rec) /\ StopsLate(rec) /\ Spoken("features", rec)
    BY <2>2, <2>3, <1>6 DEF Spoken, Written, StopsLate
  <2> HIDE DEF rec
  <2> QED
    BY <2>1, <2>4, <1>4 DEF r
<1>10. ASSUME NEW place, Reads(c, place), Spoken(place, [r EXCEPT !.reply = None]) PROVE Goal
  <2> DEFINE rec == [r EXCEPT !.reply = None]
  <2>1. conn' = [conn EXCEPT ![k] = rec] /\ at'[c] = place
    BY <1>1, <1>3, <1>10 DEF Reads, Types
  <2> HIDE DEF r
  <2>2. /\ rec.chan = r.chan /\ rec.shut = r.shut /\ rec.accepted = r.accepted
        /\ rec.finals = r.finals
    BY <1>1 DEF ConnType
  <2>3. Written(r, rec) /\ StopsLate(rec)
    BY <1>2, <2>2 DEF Written, StopsLate
  <2>4. Spoken(place, rec)
    BY <1>10 DEF r
  <2> HIDE DEF rec
  <2> QED
    BY <2>1, <2>3, <2>4, <1>4 DEF r
<1>11. CASE Connected(c) \/ Accepted(c) \/ Stopped(c)
  <2> DEFINE rec == [r EXCEPT !.reply = None]
  <2>1. \/ at[c] = "features" /\ Reads(c, IF r.reply = "ok" THEN "ui" ELSE "leaving")
        \/ at[c] = "asked" /\ Reads(c, IF r.reply = "ok" THEN "waiting" ELSE "leaving")
        \/ at[c] = "stopping" /\ Reads(c, "waiting")
    BY <1>1, <1>11 DEF Connected, Accepted, Stopped
  <2>2. rec.chan = r.chan /\ rec.accepted = r.accepted /\ rec.reply = None
    <3> HIDE DEF r
    <3> QED
      BY <1>1 DEF ConnType
  <2> HIDE DEF r, rec
  <2>3. Spoken("leaving", rec)
    BY DEF Spoken
  <2>4. at[c] = "features" /\ r.reply = "ok" => Spoken("ui", rec)
    BY <1>2, <1>6, <2>2, NoneAssumption DEF Spoken
  <2>5. at[c] = "asked" /\ r.reply = "ok" => Spoken("waiting", rec)
    BY <1>2, <2>2 DEF Spoken
  <2>6. at[c] = "stopping" => Spoken("waiting", rec)
    BY <1>2, <2>2 DEF Spoken
  <2>7. \/ Reads(c, "leaving")
        \/ at[c] = "features" /\ r.reply = "ok" /\ Reads(c, "ui")
        \/ at[c] = "asked" /\ r.reply = "ok" /\ Reads(c, "waiting")
        \/ at[c] = "stopping" /\ Reads(c, "waiting")
    BY <2>1
  <2>8. Goal
    BY <1>10, <2>3, <2>4, <2>5, <2>6, <2>7 DEF rec
  <2> QED
    BY <2>8 DEF r
<1>12. CASE Ask(c) \/ Stop(c) \/ Terminate(c)
  <2>1. PICK msg, place : /\ Sends(c, msg, place)
                          /\ \/ at[c] = "ui" /\ msg \in Kinds /\ place = "asked"
                             \/ at[c] = "waiting" /\ msg \in Stops /\ place = "stopping"
                             \/ at[c] = "ui" /\ msg = "terminate" /\ place = "leaving"
    BY <1>12 DEF Ask, Stop, Terminate
  <2> DEFINE more == Append(r.chan, msg)
             stops == msg \in Stops
             rec == [r EXCEPT !.chan = more, !.stopped = stops]
  <2>2. conn' = [conn EXCEPT ![k] = rec] /\ at'[c] = place
    BY <1>1, <1>3, <2>1 DEF Sends, Types
  <2> HIDE DEF r
  <2>3. Elements(more) = Elements(r.chan) \cup {msg}
    BY <1>1, AppendElements DEF ConnType
  <2> HIDE DEF more, stops
  <2>4. /\ rec.chan = more /\ rec.shut = r.shut /\ rec.accepted = r.accepted
        /\ rec.finals = r.finals /\ rec.reply = r.reply
    BY <1>1 DEF ConnType
  <2> HIDE DEF rec
  <2>5. Written(r, rec)
    BY <2>4 DEF Written
  <2>6. StopsLate(rec)
    BY <1>2, <2>1, <2>3, <2>4 DEF StopsLate, Kinds, Stops, Spoken
  <2>7. Spoken(place, rec)
    BY <1>2, <2>1, <2>3, <2>4 DEF Spoken, Kinds, Stops
  <2> QED
    <3>1. (\A j \in Conns \ {k} : conn'[j] = conn[j]) /\ new = rec
      BY <2>2, <1>4
    <3> QED
      BY <2>2, <2>5, <2>6, <2>7, <3>1 DEF r
<1>13. ASSUME NEW ends \in SUBSET {"sock", "chan"}, ends # {}, Shut(c, ends),
              at'[c] \in {"done", "dropped", "start", "gaveup"}
       PROVE  Goal
  <2> DEFINE rec == [NoConn EXCEPT !.fds = r.fds, !.chan = r.chan, !.shut = ends]
  <2>1. conn' = [conn EXCEPT ![k] = rec]
    BY <1>1, <1>13 DEF Shut
  <2> HIDE DEF r
  <2>a. NoConn \in ConnType /\ NoConn.accepted = 0 /\ NoConn.finals = <<>>
    BY DEF NoConn, ConnType
  <2>2. rec.shut = ends /\ rec.accepted = 0 /\ rec.finals = <<>>
    BY <2>a DEF ConnType
  <2> HIDE DEF rec
  <2>3. Written(r, rec) /\ StopsLate(rec)
    BY <1>13, <2>2 DEF Written, StopsLate
  <2>4. Spoken(at'[c], rec)
    BY <1>13 DEF Spoken
  <2> QED
    BY <2>1, <2>3, <2>4, <1>4 DEF r
<1>14. CASE Closes(c)
  <2>1. \E ends \in {{"sock", "chan"}, {"chan"}} :
          Shut(c, ends) /\ (Goes(c, "done") \/ Goes(c, "dropped") \/ Retries(c))
    BY <1>14 DEF Closes
  <2>2. Retries(c) => at'[c] \in {"start", "gaveup"}
    BY <1>3 DEF Retries, PlacesOK
  <2> QED
    BY <1>3, <1>13, <2>1, <2>2
<1>15. CASE ClientKilled(c)
  <2>1. Shut(c, {"sock", "chan"}) /\ Goes(c, "done")
    BY <1>15 DEF ClientKilled
  <2> QED
    BY <1>3, <1>13, <2>1
<1> QED
  BY <1>7, <1>8, <1>9, <1>11, <1>12, <1>14, <1>15 DEF ClientStep, Client

\* The servers see of it a connection that waits to be accepted.
Unseen(r, new) ==
  /\ new.queue = r.queue /\ new.control = r.control /\ new.ui = r.ui /\ new.quit = r.quit
  /\ new.pending = r.pending /\ new.fns = r.fns /\ new.cmd = r.cmd /\ new.cooker = r.cooker
  /\ new.events = r.events

LEMMA ClientServers ==
  ASSUME Types, PlacesOK, NEW c \in Clients, ClientStep(c), NEW t \in Slots
  PROVE  /\ Unseen(srv[t], srv'[t])
         /\ \/ srv'[t].backlog = srv[t].backlog
            \/ /\ srv'[t].backlog = Append(srv[t].backlog, <<c, tries[c]>>)
               /\ at[c] = "connect" /\ at'[c] = "fds" /\ t = sock
         /\ pc'[t] = pc[t] \/ (pc[t] = "off" /\ pc'[t] = "boot")
<1> DEFINE k == <<c, tries[c]>>
           Backlog == \/ srv'[t].backlog = srv[t].backlog
                      \/ /\ srv'[t].backlog = Append(srv[t].backlog, k)
                         /\ at[c] = "connect" /\ at'[c] = "fds" /\ t = sock
           Place == pc'[t] = pc[t] \/ (pc[t] = "off" /\ pc'[t] = "boot")
<1>1. CASE StartServer(c)
  <2> DEFINE s == CHOOSE s \in Slots : pc[s] = "off"
  <2>1. s \in Slots /\ pc[s] = "off"
    BY <1>1 DEF StartServer
  <2>2. srv' = [srv EXCEPT ![s].parent = c] /\ pc' = [pc EXCEPT ![s] = "boot"]
    BY <1>1 DEF StartServer
  <2> HIDE DEF s
  <2> DEFINE rec == [srv[s] EXCEPT !.parent = c]
  <2>3. Unseen(srv[s], rec) /\ rec.backlog = srv[s].backlog
    BY <2>1 DEF Types, SrvType, Unseen
  <2>4. srv' = [srv EXCEPT ![s] = rec]
    BY <2>2
  <2> HIDE DEF rec
  <2>5. Unseen(srv[t], srv'[t]) /\ srv'[t].backlog = srv[t].backlog
    BY <2>1, <2>3, <2>4 DEF Types, Unseen
  <2>6. Place
    BY <2>1, <2>2 DEF PlacesOK
  <2> QED
    BY <2>5, <2>6
<1>2. CASE UNCHANGED <<srv, pc>>
  BY <1>2 DEF Unseen
<1>3. CASE Connect(c) /\ ~UNCHANGED srv
  <2>1. /\ sock \in Slots /\ srv' = [srv EXCEPT ![sock].backlog = Append(@, k)]
        /\ at[c] = "connect" /\ at' = [at EXCEPT ![c] = "fds"] /\ UNCHANGED pc
    BY <1>3 DEF Connect, Types, Goes, Conn
  <2> DEFINE more == Append(srv[sock].backlog, k)
             rec == [srv[sock] EXCEPT !.backlog = more]
  <2>2. srv' = [srv EXCEPT ![sock] = rec]
    BY <2>1
  <2> HIDE DEF more
  <2>3. Unseen(srv[sock], rec) /\ rec.backlog = more
    BY <2>1 DEF Types, SrvType, Unseen
  <2> HIDE DEF rec
  <2>4. /\ t = sock => Unseen(srv[t], srv'[t]) /\ srv'[t].backlog = more
        /\ t # sock => srv'[t] = srv[t]
    BY <2>1, <2>2, <2>3 DEF Types
  <2>5. Unseen(srv[t], srv'[t])
    BY <2>4 DEF Unseen
  <2>6. at'[c] = "fds"
    BY <2>1 DEF PlacesOK
  <2> QED
    BY <2>1, <2>4, <2>5, <2>6 DEF more
<1>4. CASE Connect(c) /\ UNCHANGED srv
  BY <1>4, <1>2 DEF Connect
<1> QED
  BY <1>1, <1>2, <1>3, <1>4 DEF ClientStep, Client, Ask, Stop, Terminate, ClientKilled, LockHeld,
     Look, WaitGets, WaitEnds, GiveBack, SendFds, Connected, Accepted, Stopped, Reads, NoReply,
     GotFinal, Leave, Closes, Sends

LEMMA ClientHeldOnce ==
  ASSUME Types, PlacesOK, HeldOnce, Untouched, NEW c \in Clients, ClientStep(c)
  PROVE  HeldOnce'
<1> DEFINE k == <<c, tries[c]>>
<1>1. Conns' = Conns /\ k \in Conns
  BY ClientPlaces DEF Conns, Types
<1>2. ASSUME NEW t \in Slots
      PROVE  /\ Line(srv'[t])
             /\ Hold(srv'[t]) \subseteq Hold(srv[t]) \cup (IF t = sock THEN {k} ELSE {})
             /\ Hold(srv'[t]) # Hold(srv[t]) => at[c] = "connect"
  <2>1. Line(srv[t]) /\ Unseen(srv[t], srv'[t])
    BY ClientServers DEF HeldOnce
  <2>2. CASE srv'[t].backlog = srv[t].backlog
    BY <2>1, <2>2 DEF Line, Hold, Unseen
  <2>3. CASE /\ srv'[t].backlog = Append(srv[t].backlog, k)
             /\ at[c] = "connect" /\ t = sock
    <3>1. srv[t].backlog \in Seq(Links)
      BY DEF Types, SrvType
    <3>2. k \notin Hold(srv[t])
      <4>1. tries[c] \in 1..plan.tries[c]
        BY TriesIn
      <4>2. Later(c, tries[c])
        BY <2>3 DEF Later, Early
      <4> QED
        BY <4>1, <4>2 DEF Untouched
    <3>3. /\ Elements(srv'[t].backlog) = Elements(srv[t].backlog) \cup {k}
          /\ NoRepeats(srv'[t].backlog)
      BY <2>1, <2>3, <3>1, <3>2, AppendElements DEF Line, Hold
    <3> QED
      BY <2>1, <2>3, <3>2, <3>3 DEF Line, Hold, Unseen
  <2> QED
    BY <2>2, <2>3, ClientServers
<1>3. CASE \A t \in Slots : Hold(srv'[t]) = Hold(srv[t])
  BY <1>1, <1>2, <1>3 DEF HeldOnce
<1>4. CASE at[c] = "connect"
  <2>1. tries[c] \in 1..plan.tries[c] /\ Later(c, tries[c])
    BY <1>4, TriesIn DEF Later, Early
  <2>2. \A t \in Slots : k \notin Hold(srv[t])
    BY <2>1 DEF Untouched
  <2>3. \A t, u \in Slots : t # u => Hold(srv'[t]) \cap Hold(srv'[u]) \subseteq {None}
    BY <1>2, <2>2 DEF HeldOnce
  <2>4. \A t \in Slots : Line(srv'[t]) /\ Hold(srv'[t]) \subseteq Conns \cup {None}
    BY <1>1, <1>2 DEF HeldOnce
  <2> QED
    BY <1>1, <2>3, <2>4 DEF HeldOnce
<1> QED
  BY <1>2, <1>3, <1>4

LEMMA ClientUntouched ==
  ASSUME Types, PlacesOK, HeldOnce, Untouched, Said, NEW c \in Clients, ClientStep(c)
  PROVE  Untouched'
<1> DEFINE k == <<c, tries[c]>>
<1>1. UNCHANGED plan /\ k \in Conns /\ tries[c] \in 1..plan.tries[c]
  BY ClientPlaces, TriesIn DEF Types
<1>2. /\ \A j \in Conns \ {k} : conn'[j] = conn[j]
      /\ Written(conn[k], conn'[k])
  BY ClientWrites
<1>3. \A t \in Slots : Unseen(srv[t], srv'[t])
  BY ClientServers
<1>a. \A t \in Slots : \A j : Serves(srv'[t], j) <=> Serves(srv[t], j)
  BY <1>3 DEF Serves, Unseen
<1>4. \A t \in Slots : /\ Hold(srv'[t]) \subseteq Hold(srv[t]) \cup {k}
                       /\ k \in Hold(srv'[t]) \ Hold(srv[t]) => at'[c] = "fds" /\ at[c] = "connect"
  <2> SUFFICES ASSUME NEW t \in Slots
               PROVE  /\ Hold(srv'[t]) \subseteq Hold(srv[t]) \cup {k}
                      /\ k \in Hold(srv'[t]) \ Hold(srv[t]) => at'[c] = "fds" /\ at[c] = "connect"
    OBVIOUS
  <2>1. CASE srv'[t].backlog = srv[t].backlog
    BY <1>3, <2>1 DEF Hold, Unseen
  <2>2. CASE srv'[t].backlog = Append(srv[t].backlog, k) /\ at[c] = "connect" /\ at'[c] = "fds"
    <3>1. srv[t].backlog \in Seq(Links)
      BY DEF Types, SrvType
    <3>2. Elements(srv'[t].backlog) = Elements(srv[t].backlog) \cup {k}
      BY <2>2, <3>1, AppendElements
    <3> QED
      BY <1>3, <2>2, <3>2 DEF Hold, Unseen
  <2> QED
    BY <2>1, <2>2, ClientServers
<1>5. ASSUME NEW d \in Clients, NEW n \in 1..plan.tries[d],
             n > tries'[d] \/ (n = tries'[d] /\ at'[d] \in Early)
      PROVE  /\ conn'[<<d, n>>] = NoConn
             /\ \A t \in Slots : <<d, n>> \notin Hold(srv'[t])
  <2>1. <<d, n>> \in Conns
    BY ConnsAre DEF Types
  <2>2. tries[d] \in Nat /\ n \in Int
    BY DEF Types
  <2>3. Later(d, n) /\ (<<d, n>> = k => UNCHANGED conn /\ at'[c] # "fds")
    <3>1. CASE d # c
      <4>1. at'[d] = at[d] /\ tries'[d] = tries[d]
        BY <3>1, ClientPlaces
      <4> QED
        BY <1>5, <3>1, <4>1 DEF Later
    <3>2. CASE d = c
      <4>1. "start" \in Early /\ "fds" \notin Early
        BY DEF Early
      <4> QED
        BY <1>5, <2>2, <3>2, <4>1, ClientPlaces DEF Later
    <3> QED
      BY <3>1, <3>2
  <2>4. conn[<<d, n>>] = NoConn /\ \A t \in Slots : <<d, n>> \notin Hold(srv[t])
    BY <2>3 DEF Untouched
  <2> QED
    BY <1>2, <1>4, <2>1, <2>3, <2>4
<1>6. ASSUME NEW d \in Clients, at'[d] = "fds"
      PROVE  /\ conn'[<<d, tries'[d]>>] = NoConn
             /\ \A t \in Slots : ~Serves(srv'[t], <<d, tries'[d]>>)
  <2> DEFINE j == <<d, tries[d]>>
  <2>1. conn'[j] = conn[j] /\ tries'[d] = tries[d] /\ (at[d] = "fds" \/ at[d] = "connect")
    <3>1. CASE d # c
      BY <1>2, <1>6, <3>1, ClientPlaces DEF Types
    <3>2. CASE d = c
      BY <1>6, <3>2, ClientPlaces
    <3> QED
      BY <3>1, <3>2
  <2>2. conn[j] = NoConn /\ \A t \in Slots : ~Serves(srv[t], j)
    <3>1. CASE at[d] = "fds"
      BY <3>1 DEF Untouched
    <3>2. CASE at[d] = "connect"
      <4>1. tries[d] \in 1..plan.tries[d] /\ Later(d, tries[d])
        BY <3>2, TriesIn DEF Later, Early
      <4>2. conn[j] = NoConn /\ \A t \in Slots : j \notin Hold(srv[t])
        BY <4>1 DEF Untouched
      <4> QED
        BY <4>2 DEF Serves, Hold
    <3> QED
      BY <2>1, <3>1, <3>2
  <2> QED
    BY <1>a, <2>1, <2>2
<1>7. ASSUME NEW t \in Slots, NEW j \in Hold(srv'[t]) \ {None}, ~Serves(srv'[t], j)
      PROVE  conn'[j].accepted = 0 /\ conn'[j].finals = <<>>
  <2>1. CASE j \in Hold(srv[t])
    <3>1. conn[j].accepted = 0 /\ conn[j].finals = <<>> /\ j \in Conns
      BY <1>7, <1>a, <2>1 DEF Untouched, HeldOnce
    <3> QED
      BY <1>2, <3>1 DEF Written
  <2>2. CASE j \notin Hold(srv[t])
    <3>1. j = k /\ at[c] = "connect" /\ at'[c] = "fds"
      BY <1>4, <2>2
    <3>2. conn'[k] = NoConn
      BY <3>1, <1>6, ClientPlaces
    <3> QED
      BY <3>1, <3>2 DEF NoConn
  <2> QED
    BY <2>1, <2>2
<1> QED
  BY <1>1, <1>5, <1>6, <1>7 DEF Untouched, Later

LEMMA ClientSaid ==
  ASSUME Types, Types', PlacesOK, Untouched, Said, NEW c \in Clients, ClientStep(c)
  PROVE  Said'
<1> DEFINE k == <<c, tries[c]>>
<1>1. Conns' = Conns /\ k \in Conns
  BY ClientPlaces DEF Conns, Types
<1>2. \A j \in Conns : StopsLate(conn'[j])
  <2> SUFFICES ASSUME NEW j \in Conns PROVE StopsLate(conn'[j])
    OBVIOUS
  <2>1. CASE j = k
    BY <2>1, ClientWrites
  <2>2. CASE j # k
    <3>1. conn'[j] = conn[j] /\ StopsLate(conn[j])
      BY <2>2, ClientWrites DEF Said
    <3> QED
      BY <3>1
  <2> QED
    BY <2>1, <2>2
<1>3. ASSUME NEW d \in Clients PROVE Spoken(at'[d], conn'[<<d, tries'[d]>>])
  <2>1. CASE d # c
    <3>1. at'[d] = at[d] /\ tries'[d] = tries[d] /\ <<d, tries[d]>> \in Conns
      BY <2>1, ClientPlaces DEF Types
    <3>2. conn'[<<d, tries[d]>>] = conn[<<d, tries[d]>>] /\ Spoken(at[d], conn[<<d, tries[d]>>])
      BY <2>1, <3>1, ClientWrites DEF Said
    <3> QED
      BY <3>1, <3>2
  <2>2. CASE d = c /\ tries'[c] = tries[c]
    BY <2>2, ClientWrites
  <2>3. CASE d = c /\ at'[c] = "start"
    BY <2>3 DEF Spoken
  <2> QED
    BY <2>1, <2>2, <2>3, ClientPlaces
<1> QED
  BY <1>1, <1>2, <1>3 DEF Said

LEMMA ClientServersSound ==
  ASSUME Types, PlacesOK, HeldOnce, Untouched, Said, Servers, NEW c \in Clients, ClientStep(c)
  PROVE  Servers'
<1> SUFFICES ASSUME NEW t \in Slots PROVE SoundNow(t)'
  BY DEF Servers, SoundNow
<1> DEFINE r == srv[t]
           new == srv'[t]
           i == idle[t]
           k == r.control
<1>1. idle'[t] = i
  BY ClientPlaces
<1>2. /\ Unseen(r, new)
      /\ pc'[t] = pc[t] \/ (pc[t] = "off" /\ pc'[t] = "boot")
  BY ClientServers
<1>3. /\ IdleOK(pc[t], i, r) /\ MainOK(pc[t], r) /\ Clean(pc[t], r, conn[k])
      /\ Counted(pc[t], i, r, conn[k])
  BY DEF Servers
<1>4. r.ui => Written(conn[k], conn'[k])
  <2> SUFFICES ASSUME r.ui PROVE Written(conn[k], conn'[k])
    OBVIOUS
  <2>1. k \in Conns
    BY DEF Types, HeldOnce, Hold
  <2> QED
    BY <2>1, ClientWrites DEF Written
<1>5. new.control = k
  BY <1>2 DEF Unseen
<1> DEFINE before == conn[k]
           after == conn'[k]
<1> HIDE DEF r, new, i, k, before, after
<1>6. r.ui => Written(before, after)
  BY <1>4 DEF before, after
<1>7. Clean(pc[t], r, before) /\ Counted(pc[t], i, r, before)
  BY <1>3 DEF before
<1>8. IdleOK(pc'[t], i, new)
  BY <1>2, <1>3 DEF IdleOK, Unseen
<1>9. MainOK(pc'[t], new)
  BY <1>2, <1>3 DEF MainOK, Unseen, Taking, Serving
<1>10. Clean(pc'[t], new, after)
  BY <1>2, <1>6, <1>7 DEF Clean, Quiet, Unseen, Written, Taking, Serving
<1>11. Counted(pc'[t], i, new, after)
  BY <1>2, <1>6, <1>7 DEF Counted, Due, Unseen, Written
<1> QED
  BY <1>1, <1>5, <1>8, <1>9, <1>10, <1>11 DEF SoundNow, new, after

LEMMA ClientOwn ==
  ASSUME Types, PlacesOK, Untouched, Said, EventsAreOwn, NEW c \in Clients, ClientStep(c)
  PROVE  EventsAreOwn'
<1> DEFINE k == <<c, tries[c]>>
<1>1. Conns' = Conns /\ k \in Conns
  BY ClientPlaces DEF Conns, Types
<1>2. /\ \A j \in Conns \ {k} : conn'[j] = conn[j]
      /\ Written(conn[k], conn'[k])
  BY ClientWrites
<1>3. DOMAIN <<>> = {}
  OBVIOUS
<1>4. \A i \in DOMAIN conn'[k].finals : conn'[k].finals[i] = k
  BY <1>1, <1>2, <1>3 DEF EventsAreOwn, Written
<1> QED
  BY <1>1, <1>2, <1>4 DEF EventsAreOwn

LEMMA ClientSteps ==
  ASSUME ServerInv, SocketInv', NEW c \in Clients, ClientStep(c)
  PROVE  ServerInv'
<1>1. Types'
  BY ClientTypes DEF ServerInv, ClientStep
<1>2. PlacesOK
  BY DEF ServerInv, SocketInv
<1> QED
  BY <1>1, <1>2, ClientHeldOnce, ClientUntouched, ClientSaid, ClientServersSound, ClientOwn
     DEF ServerInv

-----------------------------------------------------------------------------
(* A step of a server, in terms of what it makes of its place, its idle    *)
(* thread and its record.                                                  *)

\* s and its idle thread come to be so; the others are left alone.
Becomes(s, place, i, new) ==
  /\ UNCHANGED plan
  /\ pc' = [pc EXCEPT ![s] = place] \/ (UNCHANGED pc /\ place = pc[s])
  /\ idle' = [idle EXCEPT ![s] = i] \/ (UNCHANGED idle /\ i = idle[s])
  /\ srv' = [srv EXCEPT ![s] = new] \/ (UNCHANGED srv /\ new = srv[s])

\* What Servers says of one server.
SoundAt(place, i, r, k) ==
  IdleOK(place, i, r) /\ MainOK(place, r) /\ Clean(place, r, k) /\ Counted(place, i, r, k)

LEMMA ServerFacts ==
  ASSUME ServerInv, NEW s \in Slots
  PROVE  /\ srv[s] \in SrvType /\ idle[s] \in IdleType /\ Line(srv[s])
         /\ Hold(srv[s]) \subseteq Conns \cup {None}
         /\ srv[s].ui => srv[s].control \in Conns /\ srv[s].control # None
         /\ SoundAt(pc[s], idle[s], srv[s], conn[srv[s].control])
         /\ \A k \in Conns : conn[k] \in ConnType
         /\ None \notin Conns
<1>1. srv[s] \in SrvType /\ idle[s] \in IdleType /\ \A k \in Conns : conn[k] \in ConnType
  BY DEF ServerInv, Types
<1>2. None \notin Conns
  BY ConnsAre DEF ServerInv, Types
<1>3. srv[s].ui => srv[s].control \in Conns /\ srv[s].control # None
  BY DEF ServerInv, Types, HeldOnce, Hold
<1> QED
  BY <1>1, <1>2, <1>3 DEF ServerInv, HeldOnce, Servers, SoundAt

LEMMA ServerChanges ==
  ASSUME ServerInv, SocketInv', NEW s \in Slots, NEW place, NEW i \in IdleType, NEW new \in SrvType,
         Becomes(s, place, i, new), Waits, sock' \in Slots \cup {None},
         tries' \in [Clients -> Nat], \A c \in Clients : <<c, tries'[c]>> \in Conns',
         conn' \in [Conns -> ConnType], new.ui => new.control # None,
         HandedOn(srv[s], new), Pipes(s), SoundAt(place, i, new, conn'[new.control])
  PROVE  ServerInv'
<1>1. /\ srv' \in [Slots -> SrvType] /\ srv'[s] = new
      /\ \A t \in Slots \ {s} : srv'[t] = srv[t]
  BY DEF Becomes, ServerInv, Types
<1>2. /\ idle' \in [Slots -> IdleType] /\ idle'[s] = i
      /\ \A t \in Slots \ {s} : idle'[t] = idle[t]
  BY DEF Becomes, ServerInv, Types
<1>3. pc'[s] = place /\ \A t \in Slots \ {s} : pc'[t] = pc[t]
  BY DEF Becomes, ServerInv, SocketInv, PlacesOK
<1>4. Conns' = Conns /\ UNCHANGED plan
  BY DEF Becomes, Conns
<1>5. \A t \in Slots : srv'[t].ui => srv'[t].control # None
  BY <1>1 DEF ServerInv, Types
<1>6. Types'
  BY <1>1, <1>2, <1>4, <1>5 DEF Types, ServerInv
<1>7. Local(s) /\ SoundNow(s)' /\ HandedOn(srv[s], srv'[s])
  BY <1>1, <1>2, <1>3, <1>4 DEF Local, SoundNow, SoundAt
<1> QED
  BY <1>6, <1>7, ServerSteps

\* The clients do not move.
LEMMA ServerAlone ==
  ASSUME ServerInv, SocketInv', NEW s \in Slots, NEW place, NEW i \in IdleType, NEW new \in SrvType,
         Becomes(s, place, i, new), UNCHANGED clientVars, sock' \in Slots \cup {None},
         conn' \in [Conns -> ConnType], new.ui => new.control # None,
         HandedOn(srv[s], new), Pipes(s), SoundAt(place, i, new, conn'[new.control])
  PROVE  ServerInv'
<1>1. Conns' = Conns
  BY DEF Becomes, Conns
<1>2. /\ Waits /\ tries' \in [Clients -> Nat]
      /\ \A c \in Clients : <<c, tries'[c]>> \in Conns'
  BY <1>1 DEF Waits, clientVars, ServerInv, Types
<1> QED
  BY <1>2, ServerChanges

\* The connections are where they were.
SameLine(r, new) ==
  /\ new.backlog = r.backlog /\ new.queue = r.queue /\ new.control = r.control
  /\ new.ui = r.ui

\* Neither clients nor connections are concerned.
LEMMA ServerInside ==
  ASSUME ServerInv, SocketInv', NEW s \in Slots, NEW place, NEW i \in IdleType, NEW new \in SrvType,
         Becomes(s, place, i, new), UNCHANGED clientVars, UNCHANGED conn,
         sock' \in Slots \cup {None}, SameLine(srv[s], new),
         SoundAt(place, i, new, conn[srv[s].control])
  PROVE  ServerInv'
<1>1. conn' \in [Conns -> ConnType] /\ Pipes(s)
  BY DEF ServerInv, Types, Pipes
<1>2. HandedOn(srv[s], new) /\ (new.ui => new.control # None)
  BY ServerFacts DEF SameLine, HandedOn, Line, Hold
<1>3. SoundAt(place, i, new, conn'[new.control])
  BY DEF SameLine
<1> QED
  BY <1>1, <1>2, <1>3, ServerAlone

LEMMA PlaceSteps ==
  ASSUME ServerInv, SocketInv', NEW s \in Slots,
         Bind(s) \/ Hangup(s) \/ Exit(s) \/ Join(s) \/ Unlink(s) \/ Relock(s)
  PROVE  ServerInv'
<1> DEFINE r == srv[s]
           i == idle[s]
           k == conn[r.control]
<1>1. /\ UNCHANGED <<plan, clientVars, conn, srv, idle>>
      /\ sock' \in Slots \cup {None}
  BY DEF Bind, Hangup, Exit, Join, Unlink, Relock, NoClient, ServerInv, Types
<1>2. \E place : /\ pc' = [pc EXCEPT ![s] = place]
                 /\ \/ pc[s] = "boot" /\ place = "bound"
                    \/ pc[s] = "loop" /\ place = "drain" /\ r.ui
                    \/ pc[s] = "loop" /\ r.quit /\ place = "join"
                    \/ pc[s] \in {"join", "unlink", "relock"} /\ place \in {"unlink", "close", "unlock"}
  BY DEF Bind, Hangup, Exit, Join, Unlink, Relock, MainAt, MainGoes, Looping
<1>3. PICK place : /\ pc' = [pc EXCEPT ![s] = place]
                   /\ \/ pc[s] = "boot" /\ place = "bound"
                      \/ pc[s] = "loop" /\ place = "drain" /\ r.ui
                      \/ pc[s] = "loop" /\ r.quit /\ place = "join"
                      \/ pc[s] \in {"join", "unlink", "relock"} /\ place \in {"unlink", "close", "unlock"}
  BY <1>2
<1>4. r \in SrvType /\ i \in IdleType /\ SoundAt(pc[s], i, r, k)
  BY ServerFacts
<1>5. Becomes(s, place, i, r) /\ SameLine(r, r)
  BY <1>1, <1>3 DEF Becomes, SameLine
<1> HIDE DEF r, i, k
<1>6. IdleOK(place, i, r)
  BY <1>3, <1>4 DEF SoundAt, IdleOK
<1>7. MainOK(place, r)
  BY <1>3, <1>4 DEF SoundAt, MainOK, Taking, Serving
<1>8. Clean(place, r, k)
  BY <1>3, <1>4 DEF SoundAt, Clean, Quiet, MainOK, Taking, Serving
<1>9. Counted(place, i, r, k)
  BY <1>3, <1>4 DEF SoundAt, Counted, Due
<1>10. SoundAt(place, i, r, k)
  BY <1>6, <1>7, <1>8, <1>9 DEF SoundAt
<1> QED
  BY <1>1, <1>4, <1>5, <1>10, ServerInside DEF r, i, k

\* The pipes of the connections that a server closes.
LEMMA DropsPipes ==
  ASSUME ServerInv, NEW ks, Drops(ks), NEW s \in Slots
  PROVE  /\ conn' \in [Conns -> ConnType] /\ Pipes(s)
         /\ \A k \in Conns : /\ conn'[k].shut = conn[k].shut
                             /\ conn'[k].accepted = conn[k].accepted
                             /\ conn'[k].finals = conn[k].finals
<1>1. ASSUME NEW k \in Conns PROVE conn'[k] = conn[k] \/ conn'[k] = Dropped(conn[k])
  BY DEF Drops, Dropped
<1>2. \A k \in Conns : conn[k] \in ConnType
  BY DEF ServerInv, Types
<1>3. conn' = [k \in Conns |-> conn'[k]]
  BY DEF Drops
<1>4. \A k \in Conns : /\ conn'[k] \in ConnType /\ conn'[k].shut = conn[k].shut
                       /\ conn'[k].accepted = conn[k].accepted
                       /\ conn'[k].finals = conn[k].finals
  BY <1>1, <1>2, DroppedIs
<1>5. conn' \in [Conns -> ConnType]
  BY <1>3, <1>4
<1> QED
  BY <1>1, <1>4, <1>5 DEF Pipes

\* Nothing that the invariant says of a server is about these.
LEMMA Quits ==
  ASSUME NEW place, NEW i, NEW r, NEW new, NEW k, SoundAt(place, i, r, k),
         SameLine(r, new), new.quit = TRUE, new.pending = r.pending, new.fns = r.fns,
         new.cmd = r.cmd, new.cooker = r.cooker, new.events = r.events
  PROVE  SoundAt(place, i, new, k)
<1>1. IdleOK(place, i, new)
  BY DEF SoundAt, SameLine, IdleOK
<1>2. MainOK(place, new)
  BY DEF SoundAt, SameLine, MainOK, Taking, Serving
<1>3. Clean(place, new, k)
  BY DEF SoundAt, SameLine, Clean, Quiet
<1>4. Counted(place, i, new, k)
  BY DEF SoundAt, SameLine, Counted, Due, Taking, Serving
<1> QED
  BY <1>1, <1>2, <1>3, <1>4 DEF SoundAt

LEMMA TimeoutStep ==
  ASSUME ServerInv, SocketInv', NEW s \in Slots, Timeout(s)
  PROVE  ServerInv'
<1> DEFINE r == srv[s]
           new == [r EXCEPT !.quit = TRUE]
<1>1. /\ srv' = [srv EXCEPT ![s] = new] /\ UNCHANGED <<plan, idle, sock, pc, conn, clientVars>>
  BY DEF Timeout, NoClient
<1>2. r \in SrvType /\ idle[s] \in IdleType /\ SoundAt(pc[s], idle[s], r, conn[r.control])
  BY ServerFacts
<1>3. Becomes(s, pc[s], idle[s], new) /\ sock' \in Slots \cup {None}
  BY <1>1 DEF Becomes, ServerInv, Types
<1>4. conn[srv[s].control] = conn[r.control] /\ srv[s] = r
  OBVIOUS
<1> HIDE DEF r
<1>5. /\ new \in SrvType /\ SameLine(r, new) /\ new.quit = TRUE /\ new.pending = r.pending
      /\ new.fns = r.fns /\ new.cmd = r.cmd /\ new.cooker = r.cooker /\ new.events = r.events
  BY <1>2 DEF SrvType, SameLine
<1> HIDE DEF new
<1>6. SoundAt(pc[s], idle[s], new, conn[r.control])
  BY <1>2, <1>5, Quits
<1> QED
  BY <1>1, <1>2, <1>3, <1>4, <1>5, <1>6, ServerInside

LEMMA ReleaseStep ==
  ASSUME ServerInv, SocketInv', NEW s \in Slots, Release(s)
  PROVE  ServerInv'
<1> DEFINE r == srv[s]
           i == idle[s]
           k == conn[r.control]
           new == [r EXCEPT !.cooker = "force"]
<1>1. /\ srv' = [srv EXCEPT ![s] = new] /\ UNCHANGED <<plan, idle, sock, conn, clientVars>>
      /\ pc[s] = "release" /\ pc' = [pc EXCEPT ![s] = "relock"]
  BY DEF Release, NoClient, MainAt, MainGoes
<1>2. r \in SrvType /\ i \in IdleType /\ SoundAt(pc[s], i, r, k)
  BY ServerFacts
<1>3. Becomes(s, "relock", i, new) /\ sock' \in Slots \cup {None}
  BY <1>1 DEF Becomes, ServerInv, Types
<1>4. conn[srv[s].control] = k /\ srv[s] = r /\ idle[s] = i
  OBVIOUS
<1> HIDE DEF r, i, k
<1>5. /\ new \in SrvType /\ SameLine(r, new) /\ new.quit = r.quit /\ new.pending = r.pending
      /\ new.fns = r.fns /\ new.cmd = r.cmd /\ new.events = r.events
  BY <1>2 DEF SrvType, SameLine, CookerStates
<1> HIDE DEF new
<1>6. SoundAt("relock", i, new, k)
  BY <1>1, <1>2, <1>5
     DEF SoundAt, SameLine, IdleOK, MainOK, Clean, Counted, Due, Taking, Serving
<1> QED
  BY <1>1, <1>2, <1>3, <1>4, <1>5, <1>6, ServerInside

LEMMA AcquireStep ==
  ASSUME ServerInv, SocketInv', NEW s \in Slots, Acquire(s)
  PROVE  ServerInv'
<1> DEFINE r == srv[s]
           i == idle[s]
           k == conn[r.control]
           new == [r EXCEPT !.cmd = r.pending]
<1>1. /\ UNCHANGED <<plan, idle, sock, conn, clientVars>> /\ pc[s] = "acquire"
      /\ \/ /\ srv' = [srv EXCEPT ![s] = new] /\ pc' = [pc EXCEPT ![s] = "register"]
            /\ r.fns = {} /\ r.cmd = None
         \/ UNCHANGED srv /\ pc' = [pc EXCEPT ![s] = "busy"]
  BY DEF Acquire, NoClient, MainAt, MainGoes, IdleCheck
<1>2. r \in SrvType /\ i \in IdleType /\ SoundAt(pc[s], i, r, k)
  BY ServerFacts
<1>3. sock' \in Slots \cup {None}
  BY <1>1 DEF ServerInv, Types
<1>4. conn[srv[s].control] = k /\ srv[s] = r /\ idle[s] = i
  OBVIOUS
<1>5. CASE UNCHANGED srv /\ pc' = [pc EXCEPT ![s] = "busy"]
  <2>1. Becomes(s, "busy", i, r) /\ SameLine(r, r)
    BY <1>1, <1>5 DEF Becomes, SameLine
  <2> HIDE DEF r, i, k
  <2>2. SoundAt("busy", i, r, k)
    BY <1>1, <1>2 DEF SoundAt, IdleOK, MainOK, Clean, Quiet, Counted, Due, Taking, Serving
  <2> QED
    BY <1>1, <1>2, <1>3, <1>4, <2>1, <2>2, ServerInside
<1>6. CASE /\ srv' = [srv EXCEPT ![s] = new] /\ pc' = [pc EXCEPT ![s] = "register"]
           /\ r.fns = {} /\ r.cmd = None
  <2>1. Becomes(s, "register", i, new)
    BY <1>1, <1>6 DEF Becomes
  <2> HIDE DEF r, i, k
  <2>2. /\ new \in SrvType /\ SameLine(r, new) /\ new.quit = r.quit /\ new.pending = r.pending
        /\ new.fns = r.fns /\ new.cmd = r.pending /\ new.events = r.events /\ new.cooker = r.cooker
    BY <1>2 DEF SrvType, SameLine
  <2> HIDE DEF new
  <2>3. i.pc \in {"copy", "dead"}
    BY <1>1, <1>2, <1>6 DEF SoundAt, IdleOK, IdleType, IdlePlaces
  <2>4. IdleOK("register", i, new)
    BY <1>1, <1>2, <1>6, <2>2, <2>3 DEF SoundAt, IdleOK, SameLine
  <2>5. MainOK("register", new)
    BY <1>1, <1>2, <2>2 DEF SoundAt, MainOK, SameLine, Taking, Serving
  <2>6. Clean("register", new, k)
    BY <1>1, <1>2, <1>6, <2>2 DEF SoundAt, MainOK, Clean, Quiet, SameLine, Taking, Serving
  <2>7. Counted("register", i, new, k)
    BY <1>1, <1>2, <1>6, <2>2 DEF SoundAt, Counted, Due, SameLine
  <2> QED
    BY <1>1, <1>2, <1>3, <1>4, <2>1, <2>2, <2>4, <2>5, <2>6, <2>7, ServerInside DEF SoundAt
<1> QED
  BY <1>1, <1>5, <1>6

\* A reply, and with the reply to a command that is accepted the count.
LEMMA RepliesPipes ==
  ASSUME ServerInv, NEW s \in Slots, srv[s].ui, NEW word \in {"ok", "busy"}, NEW more \in Nat,
         word = "ok" => more >= 1, Replies(s, word, more)
  PROVE  LET k == conn[srv[s].control]
             new == conn'[srv[s].control]
         IN  /\ conn' \in [Conns -> ConnType] /\ Pipes(s)
             /\ new.shut = k.shut /\ new.finals = k.finals /\ new.accepted >= k.accepted
             /\ k.shut = {} => new.accepted = k.accepted + more
<1> DEFINE c == srv[s].control
           r == conn[c]
           rec == [r EXCEPT !.reply = word, !.accepted = @ + more]
<1>1. c \in Conns /\ r \in ConnType
  BY ServerFacts
<1>2. conn \in [Conns -> ConnType]
  BY DEF ServerInv, Types
<1>3. CASE r.shut # {}
  <2>1. UNCHANGED conn
    BY <1>3 DEF Replies
  <2>2. r.accepted >= r.accepted
    BY <1>1 DEF ConnType
  <2> QED
    BY <1>2, <1>3, <2>1, <2>2 DEF Pipes
<1>4. CASE r.shut = {}
  <2>1. conn' = [conn EXCEPT ![c] = rec]
    BY <1>4 DEF Replies
  <2> HIDE DEF r
  <2> DEFINE n == r.accepted + more
  <2>2. n \in Nat /\ n >= r.accepted /\ (word = "ok" => n >= 1)
    BY <1>1 DEF ConnType
  <2>3. rec = [r EXCEPT !.reply = word, !.accepted = n]
    OBVIOUS
  <2> HIDE DEF n
  <2>4. /\ rec \in ConnType /\ rec.shut = r.shut /\ rec.finals = r.finals /\ rec.chan = r.chan
        /\ rec.accepted = n /\ rec.reply = word
    BY <1>1, <2>2, <2>3 DEF ConnType
  <2> HIDE DEF rec
  <2>5. Heard(c, r, rec)
    BY <2>2, <2>4 DEF Heard, OwnFinals
  <2>6. conn' \in [Conns -> ConnType] /\ conn'[c] = rec /\ \A j \in Conns \ {c} : conn'[j] = conn[j]
    BY <1>1, <1>2, <2>1, <2>4
  <2>7. Pipes(s)
    BY <2>5, <2>6 DEF Pipes, r
  <2> QED
    BY <2>2, <2>4, <2>6, <2>7 DEF n, r
<1> QED
  BY <1>3, <1>4

LEMMA RefuseStep ==
  ASSUME ServerInv, SocketInv', NEW s \in Slots, Refuse(s)
  PROVE  ServerInv'
<1> DEFINE r == srv[s]
           i == idle[s]
           k == conn[r.control]
           after == conn'[r.control]
           new == [r EXCEPT !.pending = None]
<1>1. /\ UNCHANGED <<plan, idle, sock, clientVars>> /\ pc[s] = "busy"
      /\ pc' = [pc EXCEPT ![s] = "loop"] /\ srv' = [srv EXCEPT ![s] = new]
      /\ Replies(s, "busy", 0) \/ UNCHANGED conn
  BY DEF Refuse, NoClient, MainAt, MainGoes
<1>2. /\ r \in SrvType /\ i \in IdleType /\ SoundAt(pc[s], i, r, k)
      /\ r.ui => k \in ConnType /\ r.control # None
  BY ServerFacts
<1>3. r.ui
  BY <1>1, <1>2 DEF SoundAt, MainOK, Taking
<1>4. sock' \in Slots \cup {None} /\ Becomes(s, "loop", i, new)
  BY <1>1 DEF ServerInv, Types, Becomes
<1>5. /\ conn' \in [Conns -> ConnType] /\ Pipes(s)
      /\ after.shut = k.shut /\ after.finals = k.finals
      /\ k.shut = {} => after.accepted = k.accepted
  <2>1. CASE UNCHANGED conn
    BY <2>1 DEF Pipes, ServerInv, Types
  <2>2. CASE Replies(s, "busy", 0)
    <3>1. k.shut = {} => after.accepted = k.accepted + 0
      BY <1>3, <2>2, RepliesPipes
    <3> QED
      <4>1. k.accepted + 0 = k.accepted
        BY <1>2, <1>3 DEF ConnType
      <4>2. /\ conn' \in [Conns -> ConnType] /\ Pipes(s)
            /\ after.shut = k.shut /\ after.finals = k.finals
        BY <1>3, <2>2, RepliesPipes
      <4> QED
        BY <3>1, <4>1, <4>2
  <2> QED
    BY <1>1, <2>1, <2>2
<1>6. HandedOn(r, r)
  BY <1>2, <1>3, ServerFacts DEF HandedOn
<1>7. after = conn'[r.control] /\ srv[s] = r /\ idle[s] = i
  OBVIOUS
<1> HIDE DEF r, i, k, after
<1>8. /\ new \in SrvType /\ SameLine(r, new) /\ new.quit = r.quit /\ new.pending = None
      /\ new.fns = r.fns /\ new.cmd = r.cmd /\ new.events = r.events /\ new.cooker = r.cooker
  BY <1>2 DEF SrvType, SameLine
<1> HIDE DEF new
<1>9. HandedOn(r, new)
  BY <1>6, <1>8 DEF HandedOn, SameLine, Line, Hold
<1>10. IdleOK("loop", i, new)
  BY <1>1, <1>2, <1>8 DEF SoundAt, IdleOK, SameLine
<1>11. MainOK("loop", new)
  BY <1>1, <1>2, <1>8 DEF SoundAt, MainOK, SameLine, Taking, Serving
<1>12. Clean("loop", new, after)
  BY <1>1, <1>2, <1>3, <1>5, <1>8 DEF SoundAt, Clean, Quiet, SameLine, Taking, Serving
<1>13. Counted("loop", i, new, after)
  BY <1>1, <1>2, <1>3, <1>5, <1>8 DEF SoundAt, Counted, Due, SameLine
<1>14. SoundAt("loop", i, new, conn'[new.control]) /\ new.control # None
  BY <1>2, <1>3, <1>7, <1>8, <1>10, <1>11, <1>12, <1>13 DEF SoundAt, SameLine
<1> QED
  BY <1>1, <1>2, <1>4, <1>5, <1>7, <1>8, <1>9, <1>14, ServerAlone

LEMMA RegisterStep ==
  ASSUME ServerInv, SocketInv', NEW s \in Slots, Register(s)
  PROVE  ServerInv'
<1> DEFINE r == srv[s]
           i == idle[s]
           k == conn[r.control]
           after == conn'[r.control]
           fns == r.fns \cup {"run"}
           new == [r EXCEPT !.fns = fns, !.pending = None]
<1>1. /\ UNCHANGED <<plan, idle, sock, clientVars>> /\ pc[s] = "register"
      /\ pc' = [pc EXCEPT ![s] = "loop"] /\ srv' = [srv EXCEPT ![s] = new]
      /\ Replies(s, "ok", 1)
  BY DEF Register, NoClient, MainAt, MainGoes
<1>2. /\ r \in SrvType /\ i \in IdleType /\ SoundAt(pc[s], i, r, k)
      /\ r.ui => k \in ConnType /\ r.control # None
  BY ServerFacts
<1>3. r.ui /\ r.cmd # None
  BY <1>1, <1>2 DEF SoundAt, MainOK, Taking
<1>4. sock' \in Slots \cup {None} /\ Becomes(s, "loop", i, new)
  BY <1>1 DEF ServerInv, Types, Becomes
<1>5. /\ conn' \in [Conns -> ConnType] /\ Pipes(s)
      /\ after.shut = k.shut /\ after.finals = k.finals
      /\ k.shut = {} => after.accepted = k.accepted + 1
  BY <1>1, <1>3, RepliesPipes
<1>6. HandedOn(r, r)
  BY <1>2, <1>3, ServerFacts DEF HandedOn
<1>7. after = conn'[r.control] /\ srv[s] = r /\ idle[s] = i
  OBVIOUS
<1>a. fns \in SUBSET {"run", "build"} /\ "run" \in fns /\ ("build" \in fns <=> "build" \in r.fns)
  BY <1>2 DEF SrvType
<1>b. k.shut = {} => k.accepted \in Nat /\ Len(k.finals) \in Nat
  BY <1>2, <1>3 DEF ConnType
<1> HIDE DEF r, i, k, after, fns
<1>8. /\ new \in SrvType /\ SameLine(r, new) /\ new.quit = r.quit /\ new.pending = None
      /\ new.fns = fns /\ new.cmd = r.cmd /\ new.events = r.events /\ new.cooker = r.cooker
  BY <1>2, <1>a DEF SrvType, SameLine
<1> HIDE DEF new
<1>9. HandedOn(r, new)
  BY <1>6, <1>8 DEF HandedOn, SameLine, Line, Hold
<1>10. IdleOK("loop", i, new)
  BY <1>1, <1>2, <1>3, <1>8, <1>a DEF SoundAt, IdleOK, SameLine
<1>11. MainOK("loop", new)
  BY <1>1, <1>2, <1>8 DEF SoundAt, MainOK, SameLine, Taking, Serving
<1>12. Clean("loop", new, after)
  BY <1>1, <1>2, <1>3, <1>5, <1>8, <1>b DEF SoundAt, Clean, Quiet, SameLine, Taking, Serving
<1>13. Counted("loop", i, new, after)
  <2>1. i.pc # "finish"
    BY <1>1, <1>2 DEF SoundAt, IdleOK
  <2> QED
    BY <1>1, <1>2, <1>3, <1>5, <1>8, <1>b, <2>1 DEF SoundAt, Counted, Due, SameLine
<1>14. SoundAt("loop", i, new, conn'[new.control]) /\ new.control # None
  BY <1>2, <1>3, <1>7, <1>8, <1>10, <1>11, <1>12, <1>13 DEF SoundAt, SameLine
<1> QED
  BY <1>1, <1>2, <1>4, <1>5, <1>7, <1>8, <1>9, <1>14, ServerAlone

\* The server stops listening: what waits in the backlog is reset.
LEMMA CloseStep ==
  ASSUME ServerInv, SocketInv', NEW s \in Slots, Close(s)
  PROVE  ServerInv'
<1> DEFINE r == srv[s]
           i == idle[s]
           k == conn[r.control]
           after == conn'[r.control]
           new == [r EXCEPT !.backlog = <<>>]
<1>1. /\ UNCHANGED <<plan, idle, sock, clientVars>> /\ pc[s] = "close"
      /\ pc' = [pc EXCEPT ![s] = "release"] /\ srv' = [srv EXCEPT ![s] = new]
      /\ Drops(Elements(r.backlog))
  BY DEF Close, NoClient, MainAt, MainGoes
<1>2. /\ r \in SrvType /\ i \in IdleType /\ SoundAt(pc[s], i, r, k) /\ Line(r)
      /\ r.ui => r.control \in Conns /\ r.control # None
  BY ServerFacts
<1>4. sock' \in Slots \cup {None} /\ Becomes(s, "release", i, new)
  BY <1>1 DEF ServerInv, Types, Becomes
<1>5. /\ conn' \in [Conns -> ConnType] /\ Pipes(s)
      /\ r.ui => /\ after.shut = k.shut /\ after.finals = k.finals
                 /\ after.accepted = k.accepted
  BY <1>1, <1>2, DropsPipes
<1>7. after = conn'[r.control] /\ srv[s] = r /\ idle[s] = i
  OBVIOUS
<1>a. Elements(<<>>) = {} /\ NoRepeats(<<>>) /\ <<>> \in Seq(Links)
  BY DEF Elements, NoRepeats
<1> HIDE DEF r, i, k, after
<1>8. /\ new \in SrvType /\ new.quit = r.quit /\ new.pending = r.pending /\ new.ui = r.ui
      /\ new.fns = r.fns /\ new.cmd = r.cmd /\ new.events = r.events /\ new.cooker = r.cooker
      /\ new.control = r.control /\ new.queue = r.queue /\ new.backlog = <<>>
  BY <1>2, <1>a DEF SrvType
<1> HIDE DEF new
<1>9. HandedOn(r, new)
  BY <1>2, <1>8, <1>a DEF HandedOn, Line, Hold
<1>10. IdleOK("release", i, new)
  BY <1>1, <1>2, <1>8 DEF SoundAt, IdleOK
<1>11. MainOK("release", new)
  BY <1>1, <1>2, <1>8 DEF SoundAt, MainOK, Taking, Serving
<1>12. Clean("release", new, after)
  BY <1>1, <1>2, <1>8, <1>11 DEF SoundAt, Clean, MainOK, Taking, Serving
<1>13. Counted("release", i, new, after)
  BY <1>1, <1>2, <1>5, <1>8 DEF SoundAt, Counted, Due
<1>14. SoundAt("release", i, new, conn'[new.control]) /\ (new.ui => new.control # None)
  BY <1>2, <1>7, <1>8, <1>10, <1>11, <1>12, <1>13 DEF SoundAt
<1> QED
  BY <1>1, <1>2, <1>4, <1>5, <1>7, <1>8, <1>9, <1>14, ServerAlone

\* All that wait to be accepted are, and nobody is served by that.
LEMMA AcceptStep ==
  ASSUME ServerInv, SocketInv', NEW s \in Slots, Accept(s)
  PROVE  ServerInv'
<1> DEFINE r == srv[s]
           i == idle[s]
           k == conn[r.control]
           first == r.control = None
           control == IF first THEN Head(r.backlog) ELSE r.control
           more == IF first THEN Tail(r.backlog) ELSE r.backlog
           queue == r.queue \o more
           new == [r EXCEPT !.backlog = <<>>, !.control = control, !.queue = queue]
<1>1. /\ UNCHANGED <<plan, idle, sock, pc, conn, clientVars>> /\ pc[s] = "loop"
      /\ srv' = [srv EXCEPT ![s] = new] /\ r.backlog # <<>>
  BY DEF Accept, NoClient, MainAt, Looping
<1>2. /\ r \in SrvType /\ i \in IdleType /\ SoundAt(pc[s], i, r, k) /\ Line(r)
      /\ r.ui => r.control \in Conns /\ r.control # None
      /\ Hold(r) \subseteq Conns \cup {None} /\ None \notin Conns
  BY ServerFacts
<1>4. sock' \in Slots \cup {None} /\ Becomes(s, pc[s], i, new)
  BY <1>1 DEF ServerInv, Types, Becomes
<1>5. conn' \in [Conns -> ConnType] /\ Pipes(s) /\ UNCHANGED conn
  BY <1>1 DEF ServerInv, Types, Pipes
<1>7. srv[s] = r /\ idle[s] = i /\ k = conn'[r.control]
  BY <1>1
<1>a. Elements(<<>>) = {} /\ NoRepeats(<<>>) /\ <<>> \in Seq(Links)
  BY DEF Elements, NoRepeats
<1> HIDE DEF r, i, k
<1>b. /\ more \in Seq(Links) /\ control \in Links \cup {None} /\ NoRepeats(more)
      /\ control \notin Elements(more) /\ Elements(more) \subseteq Elements(r.backlog)
      /\ control \in Elements(r.backlog) \/ control = r.control
      /\ control \notin Elements(r.queue)
      /\ r.ui => control = r.control
  <2>1. r.backlog \in Seq(Links) /\ r.control \in Links \cup {None}
    BY <1>2 DEF SrvType
  <2>2. CASE first
    <3>1. /\ Elements(r.backlog) = {Head(r.backlog)} \cup Elements(Tail(r.backlog))
          /\ NoRepeats(Tail(r.backlog)) /\ Head(r.backlog) \notin Elements(Tail(r.backlog))
          /\ Tail(r.backlog) \in Seq(Links) /\ Head(r.backlog) \in Links
      BY <1>1, <1>2, <2>1, TailElements DEF Line
    <3> QED
      BY <1>2, <2>1, <2>2, <3>1 DEF Line
  <2>3. CASE ~first
    BY <1>2, <2>1, <2>3 DEF Line
  <2> QED
    BY <2>2, <2>3
<1> HIDE DEF first, control, more
<1>c. /\ queue \in Seq(Links) /\ Elements(queue) = Elements(r.queue) \cup Elements(more)
      /\ NoRepeats(queue)
  <2>1. r.queue \in Seq(Links) /\ NoRepeats(r.queue) /\ Elements(r.queue) \cap Elements(more) = {}
    BY <1>2, <1>b DEF SrvType, Line
  <2> QED
    BY <1>b, <2>1, ConcatElements
<1> HIDE DEF queue
<1>8. /\ new \in SrvType /\ new.quit = r.quit /\ new.pending = r.pending /\ new.ui = r.ui
      /\ new.fns = r.fns /\ new.cmd = r.cmd /\ new.events = r.events /\ new.cooker = r.cooker
      /\ new.control = control /\ new.queue = queue /\ new.backlog = <<>>
  BY <1>2, <1>a, <1>b, <1>c DEF SrvType
<1> HIDE DEF new
<1>9. HandedOn(r, new)
  <2>1. Line(new)
    BY <1>8, <1>a, <1>b, <1>c DEF Line
  <2>2. Hold(new) \subseteq Hold(r) \cup {None}
    BY <1>8, <1>a, <1>b, <1>c DEF Hold
  <2> QED
    BY <1>8, <1>b, <2>1, <2>2 DEF HandedOn
<1>e. r.ui => conn'[new.control] = k
  BY <1>7, <1>8, <1>b
<1> DEFINE after == conn'[new.control]
<1> HIDE DEF after
<1>f. r.ui => after = k
  BY <1>e DEF after
<1>10. IdleOK(pc[s], i, new)
  BY <1>1, <1>2, <1>8 DEF SoundAt, IdleOK
<1>11. MainOK(pc[s], new)
  BY <1>1, <1>2, <1>8, <1>b DEF SoundAt, MainOK, Taking, Serving
<1>12. Clean(pc[s], new, after)
  BY <1>1, <1>2, <1>8, <1>f DEF SoundAt, Clean, Quiet, Taking, Serving
<1>13. Counted(pc[s], i, new, after)
  BY <1>1, <1>2, <1>8, <1>f DEF SoundAt, Counted, Due
<1>14. SoundAt(pc[s], i, new, conn'[new.control]) /\ (new.ui => new.control # None)
  BY <1>2, <1>8, <1>b, <1>10, <1>11, <1>12, <1>13 DEF SoundAt, after
<1> QED
  BY <1>1, <1>2, <1>4, <1>5, <1>7, <1>8, <1>9, <1>14, ServerAlone

-----------------------------------------------------------------------------
(* The end of a connection.                                                *)

LEMMA DisconnectedIs ==
  ASSUME NEW r \in SrvType, Line(r), r.control # None, None \notin Elements(r.queue)
  PROVE  LET new == Disconnected(r) IN
         /\ new \in SrvType /\ new.ui = FALSE /\ Line(new)
         /\ Hold(new) \subseteq Hold(r) \cup {None} /\ r.control \notin Hold(new)
         /\ new.pending = r.pending /\ new.fns = r.fns /\ new.cmd = r.cmd
         /\ new.events = r.events /\ new.cooker = (IF r.ui THEN "initial" ELSE r.cooker)
         /\ r.quit => new.quit
<1> DEFINE cooker == IF r.ui THEN "initial" ELSE r.cooker
           left == [r EXCEPT !.control = None, !.ui = FALSE, !.cooker = cooker]
           last == left.queue[Len(left.queue)]
           queue == SubSeq(left.queue, 1, Len(left.queue) - 1)
           quit == left.quit \/ (plan.timeout = "none" /\ left.backlog = <<>>)
<1>1. cooker \in CookerStates
  BY DEF SrvType, CookerStates
<1>2. Disconnected(r) = IF left.queue # <<>> /\ ~left.quit
                        THEN [left EXCEPT !.control = last, !.queue = queue]
                        ELSE [left EXCEPT !.quit = quit]
  BY DEF Disconnected
<1> HIDE DEF cooker
<1>3. /\ left \in SrvType /\ left.control = None /\ left.ui = FALSE /\ left.cooker = cooker
      /\ left.backlog = r.backlog /\ left.queue = r.queue /\ left.quit = r.quit
      /\ left.pending = r.pending /\ left.fns = r.fns /\ left.cmd = r.cmd
      /\ left.events = r.events
  BY <1>1 DEF SrvType
<1>4. left.queue \in Seq(Links) /\ left.quit \in BOOLEAN
  BY <1>3 DEF SrvType
<1> HIDE DEF left
<1>5. CASE left.queue # <<>> /\ ~left.quit
  <2> DEFINE new == [left EXCEPT !.control = last, !.queue = queue]
  <2>1. /\ last \in Links /\ last \in Elements(left.queue) /\ queue \in Seq(Links)
        /\ Elements(queue) \subseteq Elements(left.queue)
        /\ NoRepeats(queue) /\ last \notin Elements(queue)
    BY <1>3, <1>4, <1>5, LastElements DEF Line
  <2>2. Disconnected(r) = new
    BY <1>2, <1>5
  <2> HIDE DEF last, queue
  <2>3. /\ new \in SrvType /\ new.control = last /\ new.queue = queue /\ new.backlog = r.backlog
        /\ new.ui = FALSE /\ new.cooker = cooker /\ new.quit = r.quit
        /\ new.pending = r.pending /\ new.fns = r.fns /\ new.cmd = r.cmd
        /\ new.events = r.events
    BY <1>3, <2>1 DEF SrvType
  <2> HIDE DEF new
  <2>4. Line(new)
    BY <1>3, <2>1, <2>3 DEF Line
  <2>5. Hold(new) \subseteq Hold(r) /\ r.control \notin Hold(new)
    BY <1>3, <2>1, <2>3 DEF Hold, Line
  <2> QED
    BY <2>2, <2>3, <2>4, <2>5 DEF cooker
<1>6. CASE ~(left.queue # <<>> /\ ~left.quit)
  <2> DEFINE new == [left EXCEPT !.quit = quit]
  <2>1. quit \in BOOLEAN /\ (r.quit => quit)
    BY <1>3, <1>4
  <2>2. Disconnected(r) = new
    BY <1>2, <1>6
  <2> HIDE DEF quit
  <2>3. /\ new \in SrvType /\ new.control = None /\ new.queue = r.queue /\ new.backlog = r.backlog
        /\ new.ui = FALSE /\ new.cooker = cooker /\ new.quit = quit
        /\ new.pending = r.pending /\ new.fns = r.fns /\ new.cmd = r.cmd
        /\ new.events = r.events
    BY <1>3, <2>1 DEF SrvType
  <2> HIDE DEF new
  <2>a. None \notin Elements(r.backlog)
    <3>1. r.backlog \in Seq(Links) /\ None \notin Links
      BY NoneAssumption DEF SrvType, Links
    <3> QED
      BY <3>1 DEF Elements
  <2>4. Line(new)
    BY <2>3, <2>a DEF Line
  <2>5. Hold(new) \subseteq Hold(r) \cup {None} /\ r.control \notin Hold(new)
    BY <2>3 DEF Hold, Line
  <2> QED
    BY <2>1, <2>2, <2>3, <2>4, <2>5 DEF cooker
<1> QED
  BY <1>5, <1>6

LEMMA DrainStep ==
  ASSUME ServerInv, SocketInv', NEW s \in Slots, Drain(s)
  PROVE  ServerInv'
<1> DEFINE r == srv[s]
           i == idle[s]
           quit == r.quit \/ ~IdleCheck(s)
           mid == [r EXCEPT !.quit = quit]
           new == Disconnected(mid)
<1>1. /\ UNCHANGED <<plan, idle, sock, clientVars>> /\ pc[s] = "drain"
      /\ pc' = [pc EXCEPT ![s] = "loop"] /\ Drops({r.control})
  BY DEF Drain, NoClient, MainAt, MainGoes
<1>a. srv' = [srv EXCEPT ![s] = new]
  BY DEF Drain
<1>2. /\ r \in SrvType /\ i \in IdleType /\ SoundAt(pc[s], i, r, conn[r.control]) /\ Line(r)
      /\ r.ui => r.control \in Conns /\ r.control # None
  BY ServerFacts
<1>3. r.ui
  BY <1>1, <1>2 DEF SoundAt, MainOK
<1>4. sock' \in Slots \cup {None} /\ Becomes(s, "loop", i, new)
  BY <1>1, <1>a DEF ServerInv, Types, Becomes
<1>5. conn' \in [Conns -> ConnType] /\ Pipes(s)
  BY <1>1, DropsPipes
<1>6. quit \in BOOLEAN /\ (r.quit => quit) /\ (~quit => r.fns = {} /\ r.cmd = None)
  BY <1>2 DEF SrvType, IdleCheck
<1>7. srv[s] = r /\ idle[s] = i
  OBVIOUS
<1> HIDE DEF r, i, quit
<1>8. /\ mid \in SrvType /\ mid.quit = quit /\ mid.pending = r.pending /\ mid.ui = r.ui
      /\ mid.fns = r.fns /\ mid.cmd = r.cmd /\ mid.events = r.events
      /\ mid.control = r.control /\ mid.queue = r.queue /\ mid.backlog = r.backlog
  BY <1>2, <1>6 DEF SrvType
<1> HIDE DEF mid
<1>9. Line(mid) /\ Hold(mid) = Hold(r) /\ None \notin Elements(mid.queue)
  <2>1. mid.queue \in Seq(Links) /\ None \notin Links
    BY <1>8, NoneAssumption DEF SrvType, Links
  <2> QED
    BY <1>2, <1>8, <2>1 DEF Line, Hold, Elements
<1>10. /\ new \in SrvType /\ new.ui = FALSE /\ Line(new)
       /\ Hold(new) \subseteq Hold(r) \cup {None} /\ r.control \notin Hold(new)
       /\ new.pending = r.pending /\ new.fns = r.fns /\ new.cmd = r.cmd
       /\ new.events = r.events /\ new.cooker = "initial"
       /\ quit => new.quit
  BY <1>2, <1>3, <1>8, <1>9, DisconnectedIs
<1> HIDE DEF new
<1>11. HandedOn(r, new)
  BY <1>10 DEF HandedOn
<1>12. IdleOK("loop", i, new)
  BY <1>1, <1>2, <1>6, <1>10 DEF SoundAt, IdleOK
<1>13. MainOK("loop", new)
  BY <1>1, <1>2, <1>3, <1>10 DEF SoundAt, MainOK, Taking, Serving
<1>14. \A k : Clean("loop", new, k) /\ Counted("loop", i, new, k)
  BY <1>6, <1>10 DEF Clean, Quiet, Counted
<1>15. SoundAt("loop", i, new, conn'[new.control]) /\ (new.ui => new.control # None)
  BY <1>10, <1>12, <1>13, <1>14 DEF SoundAt
<1> QED
  BY <1>1, <1>2, <1>4, <1>5, <1>7, <1>10, <1>11, <1>15, ServerAlone

LEMMA ControlStep ==
  ASSUME ServerInv, SocketInv', NEW s \in Slots, Control(s)
  PROVE  ServerInv'
<1> DEFINE r == srv[s]
           i == idle[s]
           k == conn[r.control]
<1>1. /\ UNCHANGED <<plan, idle, sock, clientVars>> /\ pc[s] = "loop" /\ ~r.quit
      /\ r.control # None
  BY DEF Control, NoClient, MainAt, Looping
<1>2. /\ r \in SrvType /\ i \in IdleType /\ SoundAt(pc[s], i, r, k) /\ Line(r)
      /\ Hold(r) \subseteq Conns \cup {None} /\ None \notin Conns
      /\ \A j \in Conns : conn[j] \in ConnType
  BY ServerFacts
<1>3. r.control \in Conns /\ k \in ConnType
  BY <1>1, <1>2 DEF Hold
<1>4. sock' \in Slots \cup {None}
  BY <1>1 DEF ServerInv, Types
<1>7. srv[s] = r /\ idle[s] = i /\ k = conn[r.control]
  OBVIOUS
<1>8. CASE /\ ~r.ui /\ k.fds
           /\ srv' = [srv EXCEPT ![s].ui = TRUE, ![s].hadui = TRUE]
           /\ UNCHANGED <<pc, conn>>
  <2> DEFINE new == [r EXCEPT !.ui = TRUE, !.hadui = TRUE]
  <2>1. srv' = [srv EXCEPT ![s] = new]
    BY <1>8 DEF ServerInv, Types
  <2>2. Becomes(s, pc[s], i, new)
    BY <1>1, <1>8, <2>1 DEF Becomes
  <2>3. conn' \in [Conns -> ConnType] /\ Pipes(s)
    BY <1>8 DEF ServerInv, Types, Pipes
  <2>4. k.accepted = 0 /\ k.finals = <<>>
    BY <1>1, <1>8 DEF ServerInv, Untouched, Serves, Hold
  <2>5. conn'[r.control] = k
    BY <1>8
  <2> HIDE DEF r, i
  <2>6. /\ new \in SrvType /\ new.ui = TRUE /\ new.quit = r.quit /\ new.pending = r.pending
        /\ new.fns = r.fns /\ new.cmd = r.cmd /\ new.events = r.events /\ new.cooker = r.cooker
        /\ new.control = r.control /\ new.queue = r.queue /\ new.backlog = r.backlog
    BY <1>2 DEF SrvType
  <2> HIDE DEF new
  <2>7. HandedOn(r, new)
    BY <1>2, <1>7, <1>8, <2>6 DEF HandedOn, Line, Hold
  <2> HIDE DEF k
  <2>a. r.cmd = None /\ "run" \notin r.fns /\ "build" \notin r.fns /\ r.cooker = "initial"
    BY <1>1, <1>2, <1>8 DEF SoundAt, Clean, Quiet
  <2>8. IdleOK(pc[s], i, new)
    BY <1>1, <1>2, <2>6 DEF SoundAt, IdleOK
  <2>9. MainOK(pc[s], new)
    BY <1>1, <1>2, <2>6, <2>a DEF SoundAt, MainOK, Taking, Serving
  <2>10. Clean(pc[s], new, k)
    BY <1>1, <2>6, <2>a DEF Clean, Quiet
  <2>11. Counted(pc[s], i, new, k)
    <3>1. Len(<<>>) = 0
      OBVIOUS
    <3> QED
      BY <2>4, <2>6, <2>a, <3>1 DEF Counted, Due
  <2>12. SoundAt(pc[s], i, new, conn'[new.control]) /\ (new.ui => new.control # None)
    BY <1>1, <2>5, <2>6, <2>8, <2>9, <2>10, <2>11 DEF SoundAt
  <2> QED
    BY <1>1, <1>2, <1>4, <1>7, <2>2, <2>3, <2>6, <2>7, <2>12, ServerAlone
<1>9. CASE r.ui /\ pc' = [pc EXCEPT ![s] = "drain"] /\ UNCHANGED <<srv, conn>>
  <2>1. Becomes(s, "drain", i, r) /\ SameLine(r, r)
    BY <1>1, <1>9 DEF Becomes, SameLine
  <2> HIDE DEF r, i, k
  <2>2. SoundAt("drain", i, r, k)
    BY <1>1, <1>2, <1>9
       DEF SoundAt, IdleOK, MainOK, Clean, Quiet, Counted, Due, Taking, Serving
  <2> QED
    BY <1>1, <1>2, <1>4, <1>7, <1>9, <2>1, <2>2, ServerInside
<1>10. CASE /\ ~r.ui /\ srv' = [srv EXCEPT ![s] = Disconnected(@)]
            /\ Drops({r.control}) /\ UNCHANGED pc
  <2> DEFINE new == Disconnected(r)
  <2>1. Becomes(s, pc[s], i, new)
    BY <1>1, <1>10 DEF Becomes
  <2>2. conn' \in [Conns -> ConnType] /\ Pipes(s)
    BY <1>10, DropsPipes
  <2>3. None \notin Elements(r.queue)
    <3>1. r.queue \in Seq(Links) /\ None \notin Links
      BY <1>2, NoneAssumption DEF SrvType, Links
    <3> QED
      BY <3>1 DEF Elements
  <2> HIDE DEF r, i, k
  <2>4. /\ new \in SrvType /\ new.ui = FALSE /\ Line(new)
        /\ Hold(new) \subseteq Hold(r) \cup {None} /\ r.control \notin Hold(new)
        /\ new.pending = r.pending /\ new.fns = r.fns /\ new.cmd = r.cmd
        /\ new.events = r.events /\ new.cooker = r.cooker
        /\ r.quit => new.quit
    BY <1>1, <1>2, <1>10, <2>3, DisconnectedIs
  <2> HIDE DEF new
  <2>5. HandedOn(r, new)
    BY <2>4 DEF HandedOn
  <2>6. IdleOK(pc[s], i, new)
    BY <1>1, <1>2, <2>4 DEF SoundAt, IdleOK
  <2>7. MainOK(pc[s], new)
    BY <1>1, <1>2, <2>4 DEF SoundAt, MainOK, Taking, Serving
  <2>8. \A j : Clean(pc[s], new, j) /\ Counted(pc[s], i, new, j)
    BY <1>1, <1>2, <1>10, <2>4 DEF SoundAt, Clean, Quiet, Counted
  <2>9. SoundAt(pc[s], i, new, conn'[new.control]) /\ (new.ui => new.control # None)
    BY <2>4, <2>6, <2>7, <2>8 DEF SoundAt
  <2> QED
    BY <1>1, <1>2, <1>4, <1>7, <2>1, <2>2, <2>4, <2>5, <2>9, ServerAlone
<1> QED
  BY <1>8, <1>9, <1>10 DEF Control, Disconnect, MainGoes

-----------------------------------------------------------------------------
(* A message of the command pipe.                                          *)

LEMMA ReadPipes ==
  ASSUME ServerInv, NEW s \in Slots, srv[s].ui, conn[srv[s].control].chan # <<>>, NEW rec,
         LET k == conn[srv[s].control] IN
         \/ rec = [k EXCEPT !.chan = Tail(@)]
         \/ \E word \in {"ok", "error", None} :
              /\ rec = [k EXCEPT !.chan = Tail(@), !.reply = word]
              /\ word = "ok" => Head(k.chan) = "features" \/ k.accepted >= 1,
         conn' = [conn EXCEPT ![srv[s].control] = rec]
  PROVE  LET k == conn[srv[s].control]
             new == conn'[srv[s].control]
         IN  /\ conn' \in [Conns -> ConnType] /\ Pipes(s)
             /\ new.shut = k.shut /\ new.finals = k.finals /\ new.accepted = k.accepted
<1> DEFINE c == srv[s].control
           r == conn[c]
           rest == Tail(r.chan)
<1>1. c \in Conns /\ r \in ConnType
  BY ServerFacts
<1>2. conn \in [Conns -> ConnType]
  BY DEF ServerInv, Types
<1>3. r.chan \in Seq(Messages)
  BY <1>1 DEF ConnType
<1>4. /\ Elements(r.chan) = {Head(r.chan)} \cup Elements(rest) /\ rest \in Seq(Messages)
  BY <1>3, TailElements
<1>5. r.chan = <<"features">> => rest = <<>>
  OBVIOUS
<1>6. \/ rec = [r EXCEPT !.chan = rest]
      \/ \E word \in {"ok", "error", None} :
           /\ rec = [r EXCEPT !.chan = rest, !.reply = word]
           /\ word = "ok" => Head(r.chan) = "features" \/ r.accepted >= 1
  OBVIOUS
<1>7. r.chan # <<>>
  OBVIOUS
<1> HIDE DEF r, rest
<1>8. /\ rec \in ConnType /\ rec.shut = r.shut /\ rec.finals = r.finals
      /\ rec.accepted = r.accepted /\ rec.chan = rest
      /\ rec.reply = "ok" => r.reply = "ok" \/ Head(r.chan) = "features" \/ r.accepted >= 1
  <2>1. CASE rec = [r EXCEPT !.chan = rest]
    BY <1>1, <1>4, <2>1 DEF ConnType
  <2>2. ASSUME NEW word \in {"ok", "error", None}, rec = [r EXCEPT !.chan = rest, !.reply = word],
               word = "ok" => Head(r.chan) = "features" \/ r.accepted >= 1
        PROVE  /\ rec \in ConnType /\ rec.shut = r.shut /\ rec.finals = r.finals
               /\ rec.accepted = r.accepted /\ rec.chan = rest
               /\ rec.reply = "ok" => r.reply = "ok" \/ Head(r.chan) = "features" \/ r.accepted >= 1
    BY <1>1, <1>4, <2>2 DEF ConnType
  <2> QED
    BY <1>6, <2>1, <2>2
<1>9. Heard(c, r, rec)
  <2>1. r.accepted \in Nat
    BY <1>1 DEF ConnType
  <2>2. Heard(c, r, rec)
    <3>1. /\ rec.shut = r.shut /\ rec.accepted >= r.accepted
          /\ OwnFinals(c, r) => OwnFinals(c, rec)
      BY <1>8, <2>1 DEF OwnFinals
    <3>2. /\ Elements(rec.chan) \subseteq Elements(r.chan)
          /\ r.chan = <<"features">> => rec.chan = <<>>
      BY <1>4, <1>5, <1>8
    <3>3. rec.reply = "ok" => \/ r.reply = "ok" \/ rec.accepted >= 1
                              \/ "features" \in Elements(r.chan)
      BY <1>4, <1>8
    <3> QED
      BY <1>7, <3>1, <3>2, <3>3 DEF Heard
  <2> QED
    BY <2>2
<1>10. conn' \in [Conns -> ConnType] /\ conn'[c] = rec /\ \A j \in Conns \ {c} : conn'[j] = conn[j]
  BY <1>1, <1>2, <1>8
<1>11. Pipes(s)
  BY <1>9, <1>10 DEF Pipes, r
<1> QED
  BY <1>8, <1>10, <1>11 DEF r

LEMMA CommandStep ==
  ASSUME ServerInv, SocketInv', NEW s \in Slots, Command(s)
  PROVE  ServerInv'
<1> DEFINE r == srv[s]
           i == idle[s]
           c == r.control
           k == conn[c]
           after == conn'[c]
           msg == Head(k.chan)
           read == [k EXCEPT !.chan = Tail(@)]
           answered(word) == [k EXCEPT !.chan = Tail(@), !.reply = word]
           answer(word) == IF k.shut = {} THEN word ELSE None
<1>1. /\ UNCHANGED <<plan, idle, sock, clientVars>> /\ pc[s] = "loop" /\ ~r.quit
      /\ r.ui /\ k.chan # <<>>
  BY DEF Command, NoClient, MainAt, Looping
<1>2. /\ r \in SrvType /\ i \in IdleType /\ SoundAt(pc[s], i, r, k) /\ Line(r)
      /\ c \in Conns /\ k \in ConnType /\ c # None
  BY <1>1, ServerFacts
<1>3. sock' \in Slots \cup {None}
  BY <1>1 DEF ServerInv, Types
<1>4. conn \in [Conns -> ConnType]
  BY DEF ServerInv, Types
<1>5. \/ /\ msg = "terminate" /\ conn' = [conn EXCEPT ![c] = read]
         /\ srv' = [srv EXCEPT ![s] = [r EXCEPT !.quit = TRUE]] /\ UNCHANGED pc
      \/ /\ msg = "features" /\ UNCHANGED <<pc, srv>>
         /\ \E word \in {"ok", "error"} : conn' = [conn EXCEPT ![c] = answered(answer(word))]
      \/ /\ msg \in Stops /\ conn' = [conn EXCEPT ![c] = answered(answer("ok"))]
         /\ srv' = [srv EXCEPT ![s] = [r EXCEPT !.cooker = msg]] /\ UNCHANGED pc
      \/ /\ msg \in Kinds /\ conn' = [conn EXCEPT ![c] = read]
         /\ srv' = [srv EXCEPT ![s] = [r EXCEPT !.pending = [by |-> c, kind |-> msg]]]
         /\ pc' = [pc EXCEPT ![s] = "acquire"]
  BY <1>2, <1>4 DEF Command, MainGoes
<1>6. k.chan \in Seq(Messages) /\ msg \in Elements(k.chan)
  BY <1>1, <1>2, TailElements DEF ConnType
<1>7. msg \in Stops => k.shut # {} \/ k.accepted >= 1
  BY <1>2, <1>6 DEF Stops, ServerInv, Said, StopsLate
<1>8. \A word \in {"ok", "error"} : answer(word) \in {"ok", "error", None}
  OBVIOUS
<1>9. /\ conn' \in [Conns -> ConnType] /\ Pipes(s)
      /\ after.shut = k.shut /\ after.finals = k.finals /\ after.accepted = k.accepted
  <2>1. CASE conn' = [conn EXCEPT ![c] = read]
    BY <1>1, <2>1, ReadPipes
  <2>2. ASSUME NEW word \in {"ok", "error"}, conn' = [conn EXCEPT ![c] = answered(answer(word))],
               msg = "features" \/ msg \in Stops
        PROVE  /\ conn' \in [Conns -> ConnType] /\ Pipes(s)
               /\ after.shut = k.shut /\ after.finals = k.finals /\ after.accepted = k.accepted
    <3> DEFINE w == answer(word)
    <3>1. w \in {"ok", "error", None} /\ (w = "ok" => msg = "features" \/ k.accepted >= 1)
      BY <1>7, <1>8, <2>2, NoneAssumption
    <3>2. conn' = [conn EXCEPT ![c] = answered(w)]
      BY <2>2
    <3> HIDE DEF w
    <3> QED
      BY <1>1, <3>1, <3>2, ReadPipes
  <2> QED
    BY <1>5, <2>1, <2>2
<1>10. HandedOn(r, r)
  BY <1>1, <1>2 DEF HandedOn
<1>11. srv[s] = r /\ idle[s] = i /\ after = conn'[r.control]
  OBVIOUS
<1>12. ASSUME NEW place, NEW new \in SrvType, SameLine(r, new), Becomes(s, place, i, new),
              SoundAt(place, i, new, after)
       PROVE  ServerInv'
  <2>1. HandedOn(r, new)
    BY <1>10, <1>12 DEF HandedOn, SameLine, Line, Hold
  <2>2. SoundAt(place, i, new, conn'[new.control]) /\ new.control # None
    BY <1>2, <1>12 DEF SameLine
  <2> QED
    BY <1>1, <1>2, <1>3, <1>9, <1>11, <1>12, <2>1, <2>2, ServerAlone
<1> HIDE DEF read, answered, answer
<1>13. SoundAt(pc[s], i, r, after)
  <2> HIDE DEF r, i, k, after, msg
  <2> QED
    BY <1>2, <1>9 DEF SoundAt, Clean, Counted
<1>14. CASE msg = "features" /\ UNCHANGED <<pc, srv>>
  <2>1. Becomes(s, pc[s], i, r) /\ SameLine(r, r)
    BY <1>1, <1>14 DEF Becomes, SameLine
  <2> QED
    BY <1>2, <1>12, <1>13, <2>1
<1>15. CASE srv' = [srv EXCEPT ![s] = [r EXCEPT !.quit = TRUE]] /\ UNCHANGED pc
  <2> DEFINE new == [r EXCEPT !.quit = TRUE]
  <2>1. Becomes(s, pc[s], i, new)
    BY <1>1, <1>15 DEF Becomes
  <2> HIDE DEF r, i, k, after, msg
  <2>2. /\ new \in SrvType /\ SameLine(r, new) /\ new.quit = TRUE /\ new.pending = r.pending
        /\ new.fns = r.fns /\ new.cmd = r.cmd /\ new.cooker = r.cooker /\ new.events = r.events
    BY <1>2 DEF SrvType, SameLine
  <2> HIDE DEF new
  <2>3. SoundAt(pc[s], i, new, after)
    BY <1>13, <2>2, Quits
  <2> QED
    BY <1>12, <2>1, <2>2, <2>3
<1>16. CASE msg \in Stops /\ srv' = [srv EXCEPT ![s] = [r EXCEPT !.cooker = msg]] /\ UNCHANGED pc
  <2> DEFINE new == [r EXCEPT !.cooker = msg]
  <2>1. Becomes(s, pc[s], i, new)
    BY <1>1, <1>16 DEF Becomes
  <2>a. k.accepted \in Nat
    BY <1>2 DEF ConnType
  <2> HIDE DEF r, i, k, after, msg
  <2>2. /\ new \in SrvType /\ SameLine(r, new) /\ new.quit = r.quit /\ new.pending = r.pending
        /\ new.fns = r.fns /\ new.cmd = r.cmd /\ new.events = r.events
    BY <1>2, <1>16 DEF SrvType, SameLine, CookerStates
  <2> HIDE DEF new
  <2>3. IdleOK(pc[s], i, new)
    BY <1>1, <1>13, <2>2 DEF SoundAt, IdleOK, SameLine
  <2>4. MainOK(pc[s], new)
    BY <1>1, <1>13, <2>2 DEF SoundAt, MainOK, SameLine, Taking, Serving
  <2>5. Clean(pc[s], new, after)
    BY <1>1, <1>7, <1>9, <1>16, <2>2, <2>a DEF Clean, SameLine
  <2>6. Counted(pc[s], i, new, after)
    BY <1>1, <1>13, <2>2 DEF SoundAt, Counted, Due, SameLine
  <2> QED
    BY <1>12, <2>1, <2>2, <2>3, <2>4, <2>5, <2>6 DEF SoundAt
<1>17. CASE /\ msg \in Kinds
            /\ srv' = [srv EXCEPT ![s] = [r EXCEPT !.pending = [by |-> c, kind |-> msg]]]
            /\ pc' = [pc EXCEPT ![s] = "acquire"]
  <2> DEFINE cmd == [by |-> c, kind |-> msg]
             new == [r EXCEPT !.pending = cmd]
  <2>1. Becomes(s, "acquire", i, new)
    BY <1>1, <1>17 DEF Becomes
  <2>2. cmd \in Commands /\ cmd # None /\ cmd.by = c
    <3>1. c \in Links
      BY <1>2, ConnsAre DEF ServerInv, Types
    <3>2. cmd \in Commands
      BY <1>17, <3>1 DEF Commands
    <3>3. None \notin Commands
      BY NoneAssumption DEF Commands, Links
    <3> QED
      BY <3>2, <3>3
  <2> HIDE DEF cmd
  <2>a. c = r.control
    OBVIOUS
  <2> HIDE DEF r, i, k, after, msg, c
  <2>3. /\ new \in SrvType /\ SameLine(r, new) /\ new.quit = r.quit /\ new.pending = cmd
        /\ new.fns = r.fns /\ new.cmd = r.cmd /\ new.events = r.events /\ new.cooker = r.cooker
    BY <1>2, <2>2 DEF SrvType, SameLine
  <2> HIDE DEF new
  <2>4. IdleOK("acquire", i, new)
    BY <1>1, <1>13, <2>3 DEF SoundAt, IdleOK, SameLine
  <2>5. MainOK("acquire", new)
    BY <1>1, <1>13, <2>2, <2>3, <2>a DEF SoundAt, MainOK, SameLine, Taking, Serving
  <2>6. Clean("acquire", new, after)
    BY <1>1, <1>13, <2>3 DEF SoundAt, Clean, Quiet, SameLine, Taking, Serving
  <2>7. Counted("acquire", i, new, after)
    BY <1>1, <1>13, <2>3 DEF SoundAt, Counted, Due, SameLine
  <2> QED
    BY <1>12, <2>1, <2>3, <2>4, <2>5, <2>6, <2>7 DEF SoundAt
<1> QED
  BY <1>5, <1>14, <1>15, <1>16, <1>17

-----------------------------------------------------------------------------
(* The beginning and the end of a server.                                  *)

LEMMA ServeStep ==
  ASSUME ServerInv, SocketInv', NEW s \in Slots, Serve(s)
  PROVE  ServerInv'
<1> DEFINE r == srv[s]
           i == idle[s]
           k == conn[r.control]
           j == [i EXCEPT !.pc = "copy"]
           new == [r EXCEPT !.parent = None]
<1>1. /\ UNCHANGED <<plan, sock, conn>> /\ pc[s] = "bound" /\ pc' = [pc EXCEPT ![s] = "loop"]
      /\ idle' = [idle EXCEPT ![s] = j] /\ srv' = [srv EXCEPT ![s] = new]
      /\ UNCHANGED tries
      /\ \/ UNCHANGED at
         \/ at[r.parent] = "boot" /\ at' = [at EXCEPT ![r.parent] = "connect"]
  BY DEF Serve, MainAt, MainGoes, Goes, clientVars
<1>2. /\ r \in SrvType /\ i \in IdleType /\ SoundAt(pc[s], i, r, k) /\ Line(r)
      /\ r.ui => r.control # None
  BY ServerFacts
<1>3. sock' \in Slots \cup {None} /\ Becomes(s, "loop", j, new)
  BY <1>1 DEF ServerInv, Types, Becomes
<1>4. Waits
  BY <1>1 DEF Waits, Released, ServerInv, SocketInv, PlacesOK
<1>5. /\ tries' \in [Clients -> Nat] /\ \A c \in Clients : <<c, tries'[c]>> \in Conns'
      /\ conn' \in [Conns -> ConnType] /\ Pipes(s)
  BY <1>1 DEF ServerInv, Types, Conns, Pipes
<1>6. srv[s] = r /\ k = conn'[r.control]
  BY <1>1
<1> HIDE DEF r, i, k
<1>7. j \in IdleType /\ j.pc = "copy"
  BY <1>2 DEF IdleType, IdlePlaces
<1>8. /\ new \in SrvType /\ SameLine(r, new) /\ new.quit = r.quit /\ new.pending = r.pending
      /\ new.fns = r.fns /\ new.cmd = r.cmd /\ new.events = r.events /\ new.cooker = r.cooker
  BY <1>2 DEF SrvType, SameLine
<1> HIDE DEF j, new
<1>9. i.pc = "none"
  BY <1>1, <1>2 DEF SoundAt, IdleOK
<1>10. HandedOn(r, new) /\ ~new.ui
  BY <1>2, <1>8, <1>9 DEF HandedOn, SameLine, Line, Hold, SoundAt, IdleOK
<1>11. SoundAt("loop", j, new, k)
  BY <1>1, <1>2, <1>7, <1>8, <1>9
     DEF SoundAt, SameLine, IdleOK, MainOK, Clean, Quiet, Counted, Taking, Serving
<1>12. conn'[new.control] = k
  BY <1>6, <1>8 DEF SameLine
<1> QED
  BY <1>3, <1>4, <1>5, <1>6, <1>7, <1>8, <1>10, <1>11, <1>12, ServerChanges

LEMMA GoneStep ==
  ASSUME ServerInv, SocketInv', NEW s \in Slots, Gone(s), ParentSees(s) \/ UNCHANGED clientVars
  PROVE  ServerInv'
<1> DEFINE r == srv[s]
<1>1. /\ UNCHANGED <<plan, sock>> /\ pc' = [pc EXCEPT ![s] = "off"]
      /\ idle' = [idle EXCEPT ![s] = NoThread] /\ srv' = [srv EXCEPT ![s] = Fresh]
      /\ Drops(Ends(s))
  BY DEF Gone
<1>2. /\ r \in SrvType /\ (r.ui => r.control # None) /\ Types /\ PlacesOK
  BY ServerFacts DEF ServerInv, SocketInv
<1>3. sock' \in Slots \cup {None} /\ Becomes(s, "off", NoThread, Fresh)
  BY <1>1 DEF ServerInv, Types, Becomes
<1>4. conn' \in [Conns -> ConnType] /\ Pipes(s)
  BY <1>1, DropsPipes
<1>5. Conns' = Conns
  BY <1>1 DEF Conns
<1>6. /\ tries' \in [Clients -> Nat] /\ \A c \in Clients : <<c, tries'[c]>> \in Conns'
      /\ Waits
  <2>1. CASE UNCHANGED clientVars
    BY <1>2, <1>5, <2>1 DEF clientVars, Types, Waits
  <2>2. CASE r.parent # None /\ at[r.parent] = "boot" /\ Retries(r.parent)
    <3>1. r.parent \in Clients
      BY <1>2, <2>2 DEF SrvType
    <3>2. /\ tries' \in [Clients -> Nat] /\ \A c \in Clients : <<c, tries'[c]>> \in Conns'
      BY <1>1, <1>2, <2>2, <3>1, RetriesTypes
    <3>3. Waits
      BY <1>2, <2>2, <3>1 DEF Waits, Released, Retries, Goes, PlacesOK, Types
    <3> QED
      BY <3>2, <3>3
  <2> QED
    BY <2>1, <2>2 DEF ParentSees
<1>a. Elements(<<>>) = {} /\ NoRepeats(<<>>)
  BY DEF Elements, NoRepeats
<1>b. /\ Fresh \in SrvType /\ Fresh.backlog = <<>> /\ Fresh.queue = <<>> /\ Fresh.control = None
      /\ Fresh.ui = FALSE /\ Fresh.quit = FALSE /\ Fresh.pending = None /\ Fresh.fns = {}
      /\ Fresh.cmd = None /\ Fresh.cooker = "initial" /\ Fresh.events = <<>>
  BY DEF Fresh, SrvType, CookerStates
<1>c. NoThread \in IdleType /\ NoThread.pc = "none"
  BY DEF NoThread, IdleType, IdlePlaces
<1>7. HandedOn(r, Fresh)
  BY <1>2, <1>a, <1>b DEF HandedOn, Line, Hold
<1>8. \A k : SoundAt("off", NoThread, Fresh, k)
  BY <1>b, <1>c DEF SoundAt, IdleOK, MainOK, Clean, Quiet, Counted, Taking, Serving
<1> QED
  BY <1>3, <1>4, <1>6, <1>7, <1>8, <1>b, <1>c, ServerChanges

-----------------------------------------------------------------------------
(* The steps of the idle thread.                                           *)

\* All but the final event: the functions, the command, the state of the cooker.
LEMMA IdleInside ==
  ASSUME ServerInv, SocketInv', NEW s \in Slots, UNCHANGED <<conn, clientVars>>, NoMain,
         NEW i \in IdleType, NEW new,
         idle' = [idle EXCEPT ![s] = i] \/ (UNCHANGED idle /\ i = idle[s]),
         srv' = [srv EXCEPT ![s] = new] \/ (UNCHANGED srv /\ new = srv[s]),
         new \in SrvType, SameLine(srv[s], new),
         SoundAt(pc[s], i, new, conn[srv[s].control])
  PROVE  ServerInv'
<1>1. Becomes(s, pc[s], i, new) /\ sock' \in Slots \cup {None}
  BY DEF Becomes, NoMain, ServerInv, Types
<1> QED
  BY <1>1, ServerInside

LEMMA DiesStep ==
  ASSUME ServerInv, SocketInv', NEW s \in Slots, Dies(s)
  PROVE  ServerInv'
<1> DEFINE r == srv[s]
           i == idle[s]
           k == conn[r.control]
           j == [i EXCEPT !.pc = "dead"]
<1>1. /\ i.pc = "copy" /\ r.quit /\ idle' = [idle EXCEPT ![s] = j] /\ UNCHANGED <<srv, conn>>
      /\ NoMain /\ UNCHANGED clientVars
  BY DEF Dies, IdleAt, IdleGoes, NoMain
<1>2. r \in SrvType /\ i \in IdleType /\ SoundAt(pc[s], i, r, k)
  BY ServerFacts
<1>3. srv[s] = r /\ k = conn[srv[s].control] /\ SameLine(r, r)
  BY DEF SameLine
<1> HIDE DEF r, i, k
<1>4. j \in IdleType /\ j.pc = "dead"
  BY <1>2 DEF IdleType, IdlePlaces
<1> HIDE DEF j
<1>5. SoundAt(pc[s], j, r, k)
  BY <1>1, <1>2, <1>4 DEF SoundAt, IdleOK, Counted, Due
<1> QED
  BY <1>1, <1>2, <1>3, <1>4, <1>5, IdleInside

\* While something runs there is nothing to be clean about.
LEMMA Busy ==
  ASSUME NEW place, NEW r, NEW new, NEW k, Clean(place, r, k), ~Quiet(place, r),
         SameLine(r, new), r.quit => new.quit
  PROVE  Clean(place, new, k)
  BY DEF Clean, SameLine

LEMMA IdleMoves ==
  ASSUME NEW place, NEW i, NEW j, NEW r, NEW new, NEW k, SoundAt(place, i, r, k),
         ~Quiet(place, r), i.pc # "finish", j.pc # "finish", SameLine(r, new),
         r.quit => new.quit, new.pending = r.pending, new.cmd = r.cmd, new.events = r.events,
         IdleOK(place, j, new)
  PROVE  SoundAt(place, j, new, k)
<1>1. Clean(place, new, k)
  BY Busy DEF SoundAt
<1>2. MainOK(place, new)
  BY DEF SoundAt, MainOK, SameLine, Taking, Serving
<1>3. Counted(place, j, new, k)
  BY DEF SoundAt, Counted, Due, SameLine
<1> QED
  BY <1>1, <1>2, <1>3 DEF SoundAt

LEMMA RunAsyncStep ==
  ASSUME ServerInv, SocketInv', NEW s \in Slots, RunAsync(s)
  PROVE  ServerInv'
<1> DEFINE r == srv[s]
           i == idle[s]
           k == conn[r.control]
           fns == r.fns \cup {"build"}
           more == [r EXCEPT !.fns = fns]
           finish(f, final) == [pc |-> "remove", item |-> f, final |-> final]
           fire == [pc |-> "fire", item |-> "run", final |-> TRUE]
           parse == [i EXCEPT !.pc = "parse"]
<1>1. /\ i.pc = "copy" /\ ~r.quit /\ "run" \in r.fns /\ UNCHANGED conn /\ NoMain
      /\ UNCHANGED clientVars
  BY DEF RunAsync, Calls, IdleAt, NoMain
<1>2. \/ idle' = [idle EXCEPT ![s] = finish("run", TRUE)] /\ UNCHANGED srv
      \/ idle' = [idle EXCEPT ![s] = parse] /\ UNCHANGED srv
      \/ idle' = [idle EXCEPT ![s] = finish("run", FALSE)] /\ srv' = [srv EXCEPT ![s] = more]
      \/ idle' = [idle EXCEPT ![s] = fire] /\ UNCHANGED srv
  BY DEF RunAsync, IdleGoes, Finishes
<1>3. r \in SrvType /\ i \in IdleType /\ SoundAt(pc[s], i, r, k)
  BY ServerFacts
<1>4. srv[s] = r /\ k = conn[srv[s].control] /\ SameLine(r, r)
  BY DEF SameLine
<1>5. /\ finish("run", TRUE) \in IdleType /\ finish("run", FALSE) \in IdleType
      /\ fire \in IdleType
  BY DEF IdleType, IdlePlaces
<1>6. fns \in SUBSET {"run", "build"} /\ "run" \in fns /\ "build" \in fns
  BY <1>1, <1>3 DEF SrvType
<1> HIDE DEF r, i, k, fns
<1>7. parse \in IdleType /\ parse.pc = "parse"
  BY <1>3 DEF IdleType, IdlePlaces
<1>8. /\ more \in SrvType /\ SameLine(r, more) /\ more.quit = r.quit /\ more.pending = r.pending
      /\ more.fns = fns /\ more.cmd = r.cmd /\ more.events = r.events /\ more.cooker = r.cooker
  BY <1>3, <1>6 DEF SrvType, SameLine
<1> HIDE DEF more, parse
<1>9. ~Quiet(pc[s], r) /\ r.cmd # None /\ "build" \notin r.fns
  BY <1>1, <1>3 DEF SoundAt, IdleOK, Quiet
<1>10. ASSUME NEW j \in {finish("run", TRUE), fire, parse}
       PROVE  SoundAt(pc[s], j, r, k)
  <2>1. IdleOK(pc[s], j, r) /\ j.pc # "finish"
    BY <1>1, <1>3, <1>7, <1>9 DEF SoundAt, IdleOK
  <2> QED
    BY <1>1, <1>3, <1>4, <1>9, <2>1, IdleMoves
<1>11. SoundAt(pc[s], finish("run", FALSE), more, k)
  <2> DEFINE j == finish("run", FALSE)
  <2>1. IdleOK(pc[s], j, more) /\ j.pc # "finish"
    BY <1>1, <1>3, <1>6, <1>8, <1>9 DEF SoundAt, IdleOK, SameLine
  <2> HIDE DEF j
  <2>2. SoundAt(pc[s], j, more, k)
    BY <1>1, <1>3, <1>8, <1>9, <2>1, IdleMoves
  <2> QED
    BY <2>2 DEF j
<1> HIDE DEF fire, finish
<1> QED
  BY <1>1, <1>2, <1>3, <1>4, <1>5, <1>7, <1>8, <1>10, <1>11, IdleInside

LEMMA ParseSteps ==
  ASSUME ServerInv, SocketInv', NEW s \in Slots, Parse(s) \/ ParseMore(s) \/ ParseEnds(s)
  PROVE  ServerInv'
<1> DEFINE r == srv[s]
           i == idle[s]
           k == conn[r.control]
           parsing == [i EXCEPT !.pc = "parsing"]
           copy == [i EXCEPT !.pc = "copy"]
           finish == [pc |-> "remove", item |-> "run", final |-> TRUE]
           new(cooker) == [r EXCEPT !.cooker = cooker]
<1>1. /\ i.pc \in {"parse", "parsing"} /\ UNCHANGED conn /\ NoMain /\ UNCHANGED clientVars
  BY DEF Parse, ParseMore, ParseEnds, IdleAt, NoMain
<1>2. \/ idle' = [idle EXCEPT ![s] = parsing] /\ srv' = [srv EXCEPT ![s] = new("parsing")]
      \/ idle' = [idle EXCEPT ![s] = copy] /\ UNCHANGED srv
      \/ idle' = [idle EXCEPT ![s] = finish] /\ UNCHANGED srv
      \/ idle' = [idle EXCEPT ![s] = copy] /\ srv' = [srv EXCEPT ![s] = new("running")]
  BY DEF Parse, ParseMore, ParseEnds, IdleGoes, Finishes
<1>3. r \in SrvType /\ i \in IdleType /\ SoundAt(pc[s], i, r, k)
  BY ServerFacts
<1>4. srv[s] = r /\ k = conn[srv[s].control] /\ SameLine(r, r)
  BY DEF SameLine
<1>5. finish \in IdleType
  BY DEF IdleType, IdlePlaces
<1> HIDE DEF r, i, k
<1>6. /\ parsing \in IdleType /\ parsing.pc = "parsing"
      /\ copy \in IdleType /\ copy.pc = "copy"
  BY <1>3 DEF IdleType, IdlePlaces
<1>7. ASSUME NEW cooker \in {"parsing", "running"}
      PROVE  LET n == new(cooker) IN
             /\ n \in SrvType /\ SameLine(r, n) /\ n.quit = r.quit /\ n.pending = r.pending
             /\ n.fns = r.fns /\ n.cmd = r.cmd /\ n.events = r.events
  BY <1>3 DEF SrvType, SameLine, CookerStates
<1> HIDE DEF parsing, copy, new
<1>8. /\ ~Quiet(pc[s], r) /\ r.cmd # None /\ "run" \in r.fns /\ "build" \notin r.fns
      /\ pc[s] \notin {"off", "boot", "bound", "register"}
  BY <1>1, <1>3 DEF SoundAt, IdleOK, Quiet
<1>9. ASSUME NEW j \in {parsing, copy, finish}, NEW n, SameLine(r, n), n.quit = r.quit,
             n.pending = r.pending, n.fns = r.fns, n.cmd = r.cmd, n.events = r.events
      PROVE  SoundAt(pc[s], j, n, k)
  <2>1. IdleOK(pc[s], j, n) /\ j.pc # "finish"
    BY <1>6, <1>8, <1>9 DEF IdleOK
  <2> QED
    BY <1>1, <1>3, <1>8, <1>9, <2>1, IdleMoves
<1> HIDE DEF finish
<1> QED
  BY <1>1, <1>2, <1>3, <1>4, <1>5, <1>6, <1>7, <1>9, IdleInside

LEMMA BuildEndsStep ==
  ASSUME ServerInv, SocketInv', NEW s \in Slots, BuildEnds(s)
  PROVE  ServerInv'
<1> DEFINE r == srv[s]
           i == idle[s]
           k == conn[r.control]
           fns == r.fns \ {"build"}
           new == [r EXCEPT !.fns = fns, !.quit = TRUE]
           finish == [pc |-> "remove", item |-> "build", final |-> TRUE]
<1>1. /\ i.pc = "copy" /\ ~r.quit /\ "build" \in r.fns /\ UNCHANGED conn /\ NoMain
      /\ UNCHANGED clientVars
  BY DEF BuildEnds, Calls, IdleAt, NoMain
<1>2. r \in SrvType /\ i \in IdleType /\ SoundAt(pc[s], i, r, k) /\ srv \in [Slots -> SrvType]
  BY ServerFacts DEF ServerInv, Types
<1>3. \/ idle' = [idle EXCEPT ![s] = finish] /\ UNCHANGED srv
      \/ UNCHANGED idle /\ srv' = [srv EXCEPT ![s] = new]
  BY <1>2 DEF BuildEnds, Finishes
<1>4. srv[s] = r /\ idle[s] = i /\ k = conn[srv[s].control] /\ SameLine(r, r)
  BY DEF SameLine
<1>5. finish \in IdleType
  BY DEF IdleType, IdlePlaces
<1>6. /\ fns \in SUBSET {"run", "build"} /\ "build" \notin fns
      /\ "run" \in fns <=> "run" \in r.fns
  BY <1>2 DEF SrvType
<1> HIDE DEF r, i, k, fns
<1>7. /\ new \in SrvType /\ SameLine(r, new) /\ new.quit = TRUE /\ new.pending = r.pending
      /\ new.fns = fns /\ new.cmd = r.cmd /\ new.events = r.events
  BY <1>2, <1>6 DEF SrvType, SameLine
<1> HIDE DEF new
<1>8. /\ ~Quiet(pc[s], r) /\ r.cmd # None /\ "run" \notin r.fns
      /\ pc[s] \notin {"off", "boot", "bound", "register"}
  BY <1>1, <1>2 DEF SoundAt, IdleOK, Quiet
<1>9. SoundAt(pc[s], finish, r, k)
  <2>1. IdleOK(pc[s], finish, r) /\ finish.pc # "finish"
    BY <1>1, <1>8 DEF IdleOK
  <2> HIDE DEF finish
  <2> QED
    BY <1>1, <1>2, <1>4, <1>8, <2>1, IdleMoves
<1>10. SoundAt(pc[s], i, new, k)
  <2>1. IdleOK(pc[s], i, new)
    BY <1>1, <1>6, <1>7, <1>8 DEF IdleOK
  <2> QED
    BY <1>1, <1>2, <1>7, <1>8, <2>1, IdleMoves
<1> HIDE DEF finish
<1> QED
  BY <1>1, <1>2, <1>3, <1>4, <1>5, <1>7, <1>9, <1>10, IdleInside

LEMMA RemoveStep ==
  ASSUME ServerInv, SocketInv', NEW s \in Slots, Remove(s)
  PROVE  ServerInv'
<1> DEFINE r == srv[s]
           i == idle[s]
           k == conn[r.control]
           fns == r.fns \ {i.item}
           new == [r EXCEPT !.fns = fns]
           fire == [i EXCEPT !.pc = "fire"]
           copy == [NoThread EXCEPT !.pc = "copy"]
           j == IF i.final THEN fire ELSE copy
<1>1. /\ i.pc = "remove" /\ UNCHANGED conn /\ NoMain /\ UNCHANGED clientVars
      /\ srv' = [srv EXCEPT ![s] = new] /\ idle' = [idle EXCEPT ![s] = j]
  BY DEF Remove, IdleAt, IdleGoes, NoMain
<1>2. r \in SrvType /\ i \in IdleType /\ SoundAt(pc[s], i, r, k)
  BY ServerFacts
<1>3. srv[s] = r /\ k = conn[srv[s].control]
  OBVIOUS
<1>4. copy \in IdleType /\ copy.pc = "copy"
  BY DEF NoThread, IdleType, IdlePlaces
<1>5. /\ fns \in SUBSET {"run", "build"} /\ i.item \notin fns
      /\ \A f : f # i.item => (f \in fns <=> f \in r.fns)
  BY <1>2 DEF SrvType
<1> HIDE DEF r, i, k, fns
<1>6. /\ fire \in IdleType /\ fire.pc = "fire" /\ fire.item = i.item
  BY <1>2 DEF IdleType, IdlePlaces
<1>7. /\ new \in SrvType /\ SameLine(r, new) /\ new.quit = r.quit /\ new.pending = r.pending
      /\ new.fns = fns /\ new.cmd = r.cmd /\ new.events = r.events
  BY <1>2, <1>5 DEF SrvType, SameLine
<1> HIDE DEF new, fire, copy
<1>8. /\ ~Quiet(pc[s], r) /\ pc[s] \notin {"off", "boot", "bound", "register"}
      /\ i.final \in BOOLEAN
  BY <1>1, <1>2 DEF SoundAt, IdleOK, Quiet, IdleType
<1>9. IdleOK(pc[s], j, new) /\ j \in IdleType /\ j.pc # "finish"
  BY <1>1, <1>2, <1>4, <1>5, <1>6, <1>7, <1>8 DEF SoundAt, IdleOK
<1> HIDE DEF j
<1>10. SoundAt(pc[s], j, new, k)
  BY <1>1, <1>2, <1>7, <1>8, <1>9, IdleMoves
<1> QED
  BY <1>1, <1>3, <1>7, <1>9, <1>10, IdleInside

LEMMA FinishStep ==
  ASSUME ServerInv, SocketInv', NEW s \in Slots, Finish(s)
  PROVE  ServerInv'
<1> DEFINE r == srv[s]
           i == idle[s]
           k == conn[r.control]
           new == [r EXCEPT !.cooker = "initial", !.cmd = None]
           remove == [i EXCEPT !.pc = "remove"]
           copy == [NoThread EXCEPT !.pc = "copy"]
           j == IF i.item \in r.fns THEN remove ELSE copy
<1>1. /\ i.pc = "finish" /\ UNCHANGED conn /\ NoMain /\ UNCHANGED clientVars
      /\ srv' = [srv EXCEPT ![s] = new] /\ idle' = [idle EXCEPT ![s] = j]
  BY DEF Finish, IdleAt, IdleGoes, NoMain, ServerInv, Types
<1>2. r \in SrvType /\ i \in IdleType /\ SoundAt(pc[s], i, r, k)
  BY ServerFacts
<1>3. srv[s] = r /\ k = conn[srv[s].control]
  OBVIOUS
<1>4. copy \in IdleType /\ copy.pc = "copy"
  BY DEF NoThread, IdleType, IdlePlaces
<1>5. r.fns \subseteq {"run", "build"}
  BY <1>2 DEF SrvType
<1> HIDE DEF r, i, k
<1>6. /\ remove \in IdleType /\ remove.pc = "remove" /\ remove.item = i.item
      /\ remove.final = i.final
  BY <1>2 DEF IdleType, IdlePlaces
<1>7. /\ new \in SrvType /\ SameLine(r, new) /\ new.quit = r.quit /\ new.pending = r.pending
      /\ new.fns = r.fns /\ new.cmd = None /\ new.events = r.events /\ new.cooker = "initial"
  BY <1>2 DEF SrvType, SameLine, CookerStates
<1> HIDE DEF new, remove, copy
<1>8. /\ ~Quiet(pc[s], r) /\ pc[s] \notin {"off", "boot", "bound", "register"}
      /\ ~i.final /\ "build" \notin r.fns /\ ("run" \in r.fns => i.item = "run")
  BY <1>1, <1>2 DEF SoundAt, IdleOK, Quiet
<1>9. j \in IdleType
  BY <1>4, <1>6
<1>10. IdleOK(pc[s], j, new)
  <2>1. CASE i.item \in r.fns
    <3>1. i.item = "run" /\ j = remove
      BY <1>5, <1>8, <2>1
    <3> QED
      BY <1>6, <1>7, <1>8, <2>1, <3>1 DEF IdleOK
  <2>2. CASE i.item \notin r.fns
    <3>1. "run" \notin r.fns /\ j = copy
      BY <1>8, <2>2
    <3> QED
      BY <1>4, <1>7, <1>8, <3>1 DEF IdleOK
  <2> QED
    BY <2>1, <2>2
<1> HIDE DEF j
<1>11. Clean(pc[s], new, k)
  BY <1>2, <1>7, <1>8, Busy DEF SoundAt
<1>12. MainOK(pc[s], new)
  BY <1>2, <1>7, <1>8 DEF SoundAt, MainOK, SameLine, Taking, Serving
<1>13. Counted(pc[s], j, new, k)
  BY <1>1, <1>2, <1>7 DEF SoundAt, Counted, Due, SameLine
<1> QED
  BY <1>1, <1>3, <1>7, <1>9, <1>10, <1>11, <1>12, <1>13, IdleInside DEF SoundAt

LEMMA FireStep ==
  ASSUME ServerInv, SocketInv', NEW s \in Slots, Fire(s)
  PROVE  ServerInv'
<1> DEFINE r == srv[s]
           i == idle[s]
           c == r.control
           k == conn[c]
           j == [i EXCEPT !.pc = "finish", !.final = FALSE]
           final == r.cmd.by
           kept == Append(r.events, final)
           finals == IF k.shut # {} THEN k.finals ELSE k.finals \o kept
           rec == [k EXCEPT !.finals = finals]
           told == [r EXCEPT !.events = <<>>]
           keeps == [r EXCEPT !.events = kept]
<1>1. /\ r \in SrvType /\ i \in IdleType /\ SoundAt(pc[s], i, r, k) /\ Line(r)
      /\ r.ui => c \in Conns /\ k \in ConnType /\ c # None
  BY ServerFacts
<1>2. i.pc = "fire" /\ NoMain /\ UNCHANGED clientVars
  BY DEF Fire, IdleAt, NoMain
<1>3. r.cmd # None /\ pc[s] \notin {"off", "boot", "bound", "register"} /\ ~Quiet(pc[s], r)
  <2> HIDE DEF r, i, k
  <2> QED
    BY <1>1, <1>2 DEF SoundAt, IdleOK, Quiet
<1>4. /\ idle' = [idle EXCEPT ![s] = j]
      /\ \/ /\ r.ui /\ srv' = [srv EXCEPT ![s] = told]
            /\ conn' = [conn EXCEPT ![c] = rec]
         \/ ~r.ui /\ srv' = [srv EXCEPT ![s] = keeps] /\ UNCHANGED conn
  BY <1>3 DEF Fire, ServerInv, Types
<1>5. srv[s] = r /\ idle[s] = i /\ k = conn[c] /\ c = r.control
  OBVIOUS
<1>6. final \in Links
  BY <1>1, <1>3 DEF SrvType, Commands
<1>7. r.events \in Seq(Links \cup {None})
  BY <1>1 DEF SrvType
<1>8. kept \in Seq(Links \cup {None})
  BY <1>6, <1>7
<1>9. sock' \in Slots \cup {None} /\ conn \in [Conns -> ConnType]
  BY <1>2 DEF NoMain, ServerInv, Types
<1>10. r.ui => r.events = <<>> /\ final = c
  BY <1>1, <1>3 DEF SoundAt, MainOK
<1>11. r.ui => /\ finals \in Seq(Links \cup {None})
               /\ k.shut = {} => Len(finals) = Len(k.finals) + 1
               /\ (\A n \in DOMAIN k.finals : k.finals[n] = c)
                    => \A n \in DOMAIN finals : finals[n] = c
  <2> SUFFICES ASSUME r.ui
               PROVE  /\ finals \in Seq(Links \cup {None})
                      /\ k.shut = {} => Len(finals) = Len(k.finals) + 1
                      /\ (\A n \in DOMAIN k.finals : k.finals[n] = c)
                           => \A n \in DOMAIN finals : finals[n] = c
    OBVIOUS
  <2>1. k.finals \in Seq(Links \cup {None})
    BY <1>1 DEF ConnType
  <2>2. CASE k.shut # {}
    BY <2>1, <2>2
  <2>3. CASE k.shut = {}
    <3> DEFINE old == k.finals
    <3>1. finals = Append(old, c)
      <4>0. \A x : Append(<<>>, x) = <<x>>
        OBVIOUS
      <4>1. kept = <<c>>
        BY <1>10, <4>0
      <4>2. \A q \in Seq(Links \cup {None}) : q \o <<c>> = Append(q, c)
        BY <1>6, <1>10
      <4> QED
        BY <2>1, <2>3, <4>1, <4>2
    <3>2. c \in Links \cup {None}
      BY <1>6, <1>10
    <3> HIDE DEF finals, old, k
    <3>3. /\ Append(old, c) \in Seq(Links \cup {None}) /\ Len(Append(old, c)) = Len(old) + 1
          /\ DOMAIN Append(old, c) = 1..(Len(old) + 1) /\ DOMAIN old = 1..Len(old)
          /\ \A n \in 1..Len(old) : Append(old, c)[n] = old[n]
          /\ Append(old, c)[Len(old) + 1] = c /\ Len(old) \in Nat
      BY <2>1, <3>2 DEF old
    <3>4. (\A n \in DOMAIN old : old[n] = c) => \A n \in 1..(Len(old) + 1) : Append(old, c)[n] = c
      BY <3>3
    <3> QED
      BY <3>1, <3>3, <3>4 DEF old
  <2> QED
    BY <2>2, <2>3
<1>12. HandedOn(r, r)
  BY <1>1 DEF HandedOn
<1> HIDE DEF r, i, c, final, kept, finals
<1>13. j \in IdleType /\ j.pc = "finish" /\ j.final = FALSE /\ j.item = i.item
  BY <1>1 DEF IdleType, IdlePlaces
<1>14. ASSUME NEW events \in Seq(Links \cup {None})
       PROVE  LET n == [r EXCEPT !.events = events] IN
              /\ n \in SrvType /\ SameLine(r, n) /\ n.quit = r.quit /\ n.pending = r.pending
              /\ n.fns = r.fns /\ n.cmd = r.cmd /\ n.cooker = r.cooker /\ n.events = events
  BY <1>1 DEF SrvType, SameLine
<1>15. ASSUME NEW n, SameLine(r, n), n.quit = r.quit, n.pending = r.pending,
              n.fns = r.fns, n.cmd = r.cmd, n.cooker = r.cooker,
              n.events # <<>> => r.quit /\ ~r.ui
       PROVE  IdleOK(pc[s], j, n) /\ MainOK(pc[s], n)
  <2>1. IdleOK(pc[s], j, n)
    BY <1>1, <1>2, <1>3, <1>13, <1>15 DEF SoundAt, IdleOK
  <2>2. MainOK(pc[s], n)
    BY <1>1, <1>15 DEF SoundAt, MainOK, SameLine, Taking, Serving
  <2> QED
    BY <2>1, <2>2
<1>16. CASE ~r.ui /\ srv' = [srv EXCEPT ![s] = keeps] /\ UNCHANGED conn
  <2>1. /\ keeps \in SrvType /\ SameLine(r, keeps) /\ keeps.quit = r.quit
        /\ keeps.pending = r.pending /\ keeps.fns = r.fns /\ keeps.cmd = r.cmd
        /\ keeps.cooker = r.cooker
    BY <1>8, <1>14
  <2>2. r.quit
    BY <1>1, <1>3, <1>16 DEF SoundAt, Clean
  <2> HIDE DEF keeps, j, k
  <2>3. IdleOK(pc[s], j, keeps) /\ MainOK(pc[s], keeps)
    BY <1>15, <1>16, <2>1, <2>2
  <2>4. Clean(pc[s], keeps, k)
    BY <1>1, <1>3, <2>1, Busy DEF SoundAt
  <2>5. Counted(pc[s], j, keeps, k)
    BY <1>16, <2>1 DEF Counted, SameLine
  <2>6. SoundAt(pc[s], j, keeps, k)
    BY <2>3, <2>4, <2>5 DEF SoundAt
  <2> QED
    BY <1>2, <1>4, <1>5, <1>13, <1>16, <2>1, <2>6, IdleInside
<1>17. CASE /\ r.ui /\ srv' = [srv EXCEPT ![s] = told]
            /\ conn' = [conn EXCEPT ![c] = rec]
  <2>1. /\ told \in SrvType /\ SameLine(r, told) /\ told.quit = r.quit
        /\ told.pending = r.pending /\ told.fns = r.fns /\ told.cmd = r.cmd
        /\ told.cooker = r.cooker /\ told.events = <<>>
    <3>1. <<>> \in Seq(Links \cup {None})
      OBVIOUS
    <3> QED
      BY <1>14, <3>1
  <2> HIDE DEF told, j, k
  <2>2. /\ rec \in ConnType /\ rec.shut = k.shut /\ rec.accepted = k.accepted
        /\ rec.chan = k.chan /\ rec.reply = k.reply /\ rec.finals = finals
    BY <1>1, <1>11, <1>17 DEF ConnType
  <2> HIDE DEF rec
  <2>3. /\ conn' \in [Conns -> ConnType] /\ conn'[c] = rec
        /\ \A d \in Conns \ {c} : conn'[d] = conn[d]
    BY <1>1, <1>9, <1>17, <2>2
  <2>4. Heard(c, k, rec)
    <3>1. k.accepted \in Nat
      BY <1>1, <1>17 DEF ConnType
    <3> QED
      BY <1>11, <1>17, <2>2, <3>1 DEF Heard, OwnFinals
  <2>5. Pipes(s)
    BY <1>5, <1>17, <2>3, <2>4 DEF Pipes
  <2>6. HandedOn(r, told)
    BY <1>12, <2>1 DEF HandedOn, SameLine, Line, Hold
  <2>7. IdleOK(pc[s], j, told) /\ MainOK(pc[s], told)
    BY <1>15, <2>1
  <2>8. Clean(pc[s], told, rec)
    BY <1>1, <1>3, <2>1, <2>2 DEF SoundAt, Clean, SameLine
  <2>9. Counted(pc[s], j, told, rec)
    <3>1. k.accepted \in Nat /\ Len(k.finals) \in Nat
      BY <1>1, <1>17 DEF ConnType
    <3>2. Due(pc[s], i, r) = 1 /\ Due(pc[s], j, told) = 0
      BY <1>2, <1>3, <1>13, <2>1 DEF Due
    <3>3. k.shut = {} => Len(k.finals) + 1 = k.accepted
      BY <1>1, <1>17, <3>2 DEF SoundAt, Counted
    <3>4. rec.shut = {} => Len(rec.finals) = rec.accepted
      BY <1>11, <1>17, <2>2, <3>1, <3>3
    <3>5. rec.accepted \in Nat
      BY <2>2, <3>1
    <3> QED
      BY <3>2, <3>4, <3>5 DEF Counted
  <2>10. SoundAt(pc[s], j, told, conn'[told.control]) /\ told.control # None
    BY <1>1, <1>5, <1>17, <2>1, <2>3, <2>7, <2>8, <2>9 DEF SoundAt, SameLine
  <2>11. Becomes(s, pc[s], j, told)
    BY <1>2, <1>4, <1>17 DEF Becomes, NoMain
  <2> QED
    BY <1>2, <1>5, <1>9, <1>13, <2>1, <2>3, <2>5, <2>6, <2>10, <2>11, ServerAlone
<1> QED
  BY <1>4, <1>16, <1>17

-----------------------------------------------------------------------------
LEMMA ServerInit == Init => ServerInv
<1> SUFFICES ASSUME Init PROVE ServerInv
  OBVIOUS
<1>1. SocketInv /\ Types
  BY SocketInit, InitTypes
<1>2. /\ \A s \in Slots : srv[s] = Fresh /\ pc[s] = "off" /\ idle[s] = NoThread
      /\ \A c \in Clients : at[c] = "start" /\ <<c, tries[c]>> \in Conns
      /\ \A k \in Conns : conn[k] = NoConn
  BY <1>1 DEF Init, Types
<1>3. Elements(<<>>) = {} /\ NoRepeats(<<>>) /\ DOMAIN <<>> = {}
  BY DEF Elements, NoRepeats
<1>4. Line(Fresh) /\ Hold(Fresh) = {None} /\ Fresh.ui = FALSE
  BY <1>3 DEF Fresh, Line, Hold
<1>5. HeldOnce
  BY <1>2, <1>4 DEF HeldOnce
<1>6. /\ \A k \in Conns : k # None
      /\ \A c \in Clients : \A n \in 1..plan.tries[c] : <<c, n>> \in Conns
  BY <1>1, ConnsAre DEF Types
<1>7. Untouched
  <2>1. ASSUME NEW c \in Clients, NEW n \in 1..plan.tries[c]
        PROVE  conn[<<c, n>>] = NoConn /\ \A s \in Slots : <<c, n>> \notin Hold(srv[s])
    <3>1. <<c, n>> \in Conns /\ <<c, n>> # None
      BY <1>6
    <3> QED
      BY <1>2, <1>4, <3>1
  <2> QED
    BY <2>1, <1>2, <1>4 DEF Untouched
<1>8. Said
  <2>1. StopsLate(NoConn)
    BY <1>3 DEF StopsLate, NoConn
  <2>2. \A r : Spoken("start", r)
    BY DEF Spoken
  <2> QED
    BY <1>2, <2>1, <2>2 DEF Said
<1>9. Servers
  <2>1. /\ Fresh.ui = FALSE /\ Fresh.quit = FALSE /\ Fresh.pending = None /\ Fresh.fns = {}
        /\ Fresh.cmd = None /\ Fresh.cooker = "initial" /\ Fresh.events = <<>>
        /\ NoThread.pc = "none"
    BY DEF Fresh, NoThread
  <2>2. IdleOK("off", NoThread, Fresh) /\ MainOK("off", Fresh)
    BY <2>1 DEF IdleOK, MainOK, Taking, Serving
  <2>3. \A k : Clean("off", Fresh, k) /\ Counted("off", NoThread, Fresh, k)
    BY <2>1 DEF Clean, Quiet, Counted, Serving, Taking
  <2> QED
    BY <1>2, <2>2, <2>3 DEF Servers
<1>10. EventsAreOwn
  BY <1>2, <1>3 DEF EventsAreOwn, NoConn
<1> QED
  BY <1>1, <1>5, <1>7, <1>8, <1>9, <1>10 DEF ServerInv

LEMMA ServerStep == ServerInv /\ [Next]_vars => ServerInv'
<1> SUFFICES ASSUME ServerInv, [Next]_vars PROVE ServerInv'
  OBVIOUS
<1>1. SocketInv'
  BY SocketStep DEF ServerInv
<1>2. ASSUME NEW c \in Clients, ClientStep(c) PROVE ServerInv'
  BY <1>1, <1>2, ClientSteps
<1>3. ASSUME NEW s \in Slots, Main(s) PROVE ServerInv'
  <2>1. CASE Bind(s) \/ Hangup(s) \/ Exit(s) \/ Join(s) \/ Unlink(s) \/ Relock(s)
    BY <1>1, <2>1, PlaceSteps
  <2>2. CASE Serve(s)
    BY <1>1, <2>2, ServeStep
  <2>3. CASE Accept(s)
    BY <1>1, <2>3, AcceptStep
  <2>4. CASE Drain(s)
    BY <1>1, <2>4, DrainStep
  <2>5. CASE Control(s)
    BY <1>1, <2>5, ControlStep
  <2>6. CASE Command(s)
    BY <1>1, <2>6, CommandStep
  <2>7. CASE Acquire(s)
    BY <1>1, <2>7, AcquireStep
  <2>8. CASE Refuse(s)
    BY <1>1, <2>8, RefuseStep
  <2>9. CASE Register(s)
    BY <1>1, <2>9, RegisterStep
  <2>10. CASE Close(s)
    BY <1>1, <2>10, CloseStep
  <2>11. CASE Release(s)
    BY <1>1, <2>11, ReleaseStep
  <2>12. CASE End(s)
    BY <1>1, <2>12, GoneStep DEF End
  <2> QED
    BY <1>3, <2>1, <2>2, <2>3, <2>4, <2>5, <2>6, <2>7, <2>8, <2>9, <2>10, <2>11, <2>12 DEF Main
<1>4. ASSUME NEW s \in Slots, Idle(s) PROVE ServerInv'
  <2>1. CASE Dies(s)
    BY <1>1, <2>1, DiesStep
  <2>2. CASE RunAsync(s)
    BY <1>1, <2>2, RunAsyncStep
  <2>3. CASE Parse(s) \/ ParseMore(s) \/ ParseEnds(s)
    BY <1>1, <2>3, ParseSteps
  <2>4. CASE BuildEnds(s)
    BY <1>1, <2>4, BuildEndsStep
  <2>5. CASE Remove(s)
    BY <1>1, <2>5, RemoveStep
  <2>6. CASE Fire(s)
    BY <1>1, <2>6, FireStep
  <2>7. CASE Finish(s)
    BY <1>1, <2>7, FinishStep
  <2> QED
    BY <1>4, <2>1, <2>2, <2>3, <2>4, <2>5, <2>6, <2>7 DEF Idle
<1>5. ASSUME NEW s \in Slots, Timeout(s) PROVE ServerInv'
  BY <1>1, <1>5, TimeoutStep
<1>6. ASSUME NEW s \in Slots, BootFails(s) \/ Killed(s) PROVE ServerInv'
  BY <1>1, <1>6, GoneStep DEF BootFails, Killed
<1>7. CASE UNCHANGED vars
  <2>1. UNCHANGED <<plan, srv, idle, pc, at, tries, conn, sock>> /\ Conns' = Conns
    BY <1>7 DEF vars, Conns
  <2>2. Types'
    BY <2>1 DEF ServerInv, Types
  <2>3. HeldOnce'
    BY <2>1 DEF ServerInv, HeldOnce
  <2>4. Untouched'
    BY <2>1 DEF ServerInv, Untouched, Later
  <2>5. Said'
    BY <2>1 DEF ServerInv, Said
  <2>6. Servers'
    BY <2>1 DEF ServerInv, Servers
  <2>7. EventsAreOwn'
    BY <2>1 DEF ServerInv, EventsAreOwn
  <2> QED
    BY <1>1, <2>2, <2>3, <2>4, <2>5, <2>6, <2>7 DEF ServerInv
<1> QED
  BY <1>2, <1>3, <1>4, <1>5, <1>6, <1>7 DEF Next, ClientStep

LEMMA ServerAlways == Spec => []ServerInv
  BY ServerInit, ServerStep, PTL DEF Spec

\* An interface that has had no command accepted finds the server idle and the
\* cooker in its initial state, for any number of clients, servers, commands
\* and kills: until the idle thread has let go of the functions and the
\* command of the one before, nobody else is served (disconnect_client of
\* server/process.py), and no interface asks for a shutdown before it has been
\* told of a command (runCommand of command.py).
THEOREM CleanStarts == Spec => []CleanStart
<1>1. ServerInv => CleanStart
  <2> SUFFICES ASSUME ServerInv, NEW s \in Slots,
                      LET k == srv[s].control IN
                      /\ pc[s] = "loop" /\ srv[s].ui /\ conn[k].shut = {}
                      /\ conn[k].accepted = 0
               PROVE  srv[s].fns = {} /\ srv[s].cooker = "initial"
    BY DEF CleanStart
  <2>1. Quiet(pc[s], srv[s])
    BY DEF ServerInv, Servers, Clean, Serving
  <2>2. srv[s].fns \subseteq {"run", "build"}
    BY DEF ServerInv, Types, SrvType
  <2> QED
    BY <2>1, <2>2 DEF Quiet
<1> QED
  BY ServerAlways, <1>1, PTL

\* An interface hears of the end of its own commands only, for any number of
\* clients that follow each other on a server: a command belongs to whoever
\* controls the server, and is gone before the next one does.
THEOREM EventsOwn == Spec => []EventsAreOwn
<1>1. ServerInv => EventsAreOwn
  BY DEF ServerInv
<1> QED
  BY ServerAlways, <1>1, PTL

\* A connected interface has had a final event for each command that was
\* accepted but the one in progress, and for that one, too, when the idle
\* thread has nothing left to do: idle functions that are registered, removed
\* and finished in separate steps of two threads lose no event and send none
\* twice (set_async_cmd and finishAsyncCommand of command.py, idle_thread of
\* server/process.py).
THEOREM OneAnswerEach == Spec => []AnsweredOnce
<1>1. ServerInv => AnsweredOnce
  <2> SUFFICES ASSUME ServerInv, NEW s \in Slots, srv[s].ui, conn[srv[s].control].shut = {}
               PROVE  LET k == srv[s].control IN
                      /\ Len(conn[k].finals) <= conn[k].accepted
                      /\ srv[s].fns = {} /\ idle[s].pc = "copy" /\ srv[s].pending = None /\ ~srv[s].quit
                           => Len(conn[k].finals) = conn[k].accepted
    BY DEF AnsweredOnce
  <2> DEFINE r == srv[s]
             i == idle[s]
             k == conn[r.control]
  <2>1. SoundAt(pc[s], i, r, k) /\ k \in ConnType
    BY ServerFacts
  <2>2. Len(k.finals) \in Nat /\ k.accepted \in Nat
    BY <2>1 DEF ConnType
  <2>3. Len(k.finals) + Due(pc[s], i, r) = k.accepted
    BY <2>1 DEF SoundAt, Counted
  <2>4. Due(pc[s], i, r) \in {0, 1}
    BY DEF Due
  <2>5. r.fns = {} /\ i.pc = "copy" /\ r.pending = None /\ ~r.quit => Due(pc[s], i, r) = 0
    BY <2>1 DEF SoundAt, IdleOK, MainOK, Taking, Due
  <2> HIDE DEF r, i, k
  <2>6. /\ Len(k.finals) <= k.accepted
        /\ r.fns = {} /\ i.pc = "copy" /\ r.pending = None /\ ~r.quit
             => Len(k.finals) = k.accepted
    BY <2>2, <2>3, <2>4, <2>5
  <2> QED
    BY <2>6 DEF r, i, k
<1> QED
  BY ServerAlways, <1>1, PTL
=============================================================================
