-------------------------------- MODULE PRServ --------------------------------
(***************************************************************************)
(* The PR server (lib/prserv): the package revisions of one version and    *)
(* architecture.  A build asks for the value of a checksum; in the "no     *)
(* history" mode, the one the server uses, that is the greatest value      *)
(* there is, or one more for a checksum that does not have it.  Values are *)
(* written in an open transaction, which is committed when the server is   *)
(* told to stop or when a handler fails, not after each request.           *)
(***************************************************************************)
EXTENDS Integers

CONSTANTS
  Clients, Checksums, NoReply,
  Imports,     \* values an administrator may import
  Retries,     \* times a request is sent again; 3 in the code
  MaxValue     \* bound: nothing is asked for once it is reached

ASSUME ImportsAssumption == Imports \subseteq Nat /\ NoReply \notin Int
ASSUME RetriesAssumption == Retries \in Nat

VARIABLES
  up,       \* "up"; "stopping": a signal was handled; "down"
  table,    \* checksum |-> value in the open transaction, -1: no row
  disk,     \* checksum |-> value committed
  dirty,    \* a value was written since the last sync_if_dirty()
  at,       \* client |-> where its request is
  req,      \* client |-> the request
  ans,      \* client |-> the reply on its way
  tries,    \* client |-> resends of the request
  told,     \* greatest value a build was given, -1: none
  floor,    \* client |-> told when the request was made
  given,    \* checksum |-> values given for it
  lost,     \* values of a transaction were lost since the start
  imported  \* a value came from outside

requests == <<at, req, ans, tries>>
history == <<told, floor, given, imported>>
vars == <<up, table, disk, dirty, requests, history, lost>>

Values == Nat \cup {-1}
NoReq == [op |-> "none", sum |-> NoReply, value |-> NoReply]
Requests == [op : {"get"}, sum : Checksums, value : {NoReply}]
            \cup [op : {"max"}, sum : {NoReply}, value : {NoReply}]
            \cup [op : {"import"}, sum : Checksums, value : Imports]

TypeOK ==
  /\ up \in {"up", "stopping", "down"}
  /\ table \in [Checksums -> Values] /\ disk \in [Checksums -> Values]
  /\ dirty \in BOOLEAN /\ lost \in BOOLEAN /\ imported \in BOOLEAN
  /\ at \in [Clients -> {"idle", "sent", "done", "lost"}]
  /\ req \in [Clients -> Requests \cup {NoReq}]
  /\ ans \in [Clients -> Nat \cup {NoReply}]
  /\ tries \in [Clients -> 0..Retries]
  /\ told \in Values
  /\ floor \in [Clients -> Values]
  /\ given \in [Checksums -> SUBSET Nat]

Init ==
  /\ up = "up"
  /\ table = [s \in Checksums |-> -1] /\ disk = table /\ dirty = FALSE
  /\ at = [c \in Clients |-> "idle"] /\ req = [c \in Clients |-> NoReq]
  /\ ans = [c \in Clients |-> NoReply] /\ tries = [c \in Clients |-> 0]
  /\ told = -1 /\ floor = [c \in Clients |-> -1] /\ given = [s \in Checksums |-> {}]
  /\ lost = FALSE /\ imported = FALSE

\* "select max(value)": -1 for no rows.
IsMax(m) == (\A s \in Checksums : table[s] <= m)
            /\ (m = -1 \/ \E s \in Checksums : table[s] = m)
Tops == {-1} \cup {table[s] : s \in Checksums}

-----------------------------------------------------------------------------
(* Requests                                                                *)

Ask(c) ==
  /\ at[c] = "idle" /\ \A s \in Checksums : table[s] < MaxValue
  /\ \E r \in Requests : req' = [req EXCEPT ![c] = r]
  /\ at' = [at EXCEPT ![c] = "sent"] /\ tries' = [tries EXCEPT ![c] = 0]
  /\ floor' = [floor EXCEPT ![c] = told]
  /\ UNCHANGED <<up, table, disk, dirty, ans, told, given, imported, lost>>

Reply(c, x) == at' = [at EXCEPT ![c] = "done"] /\ ans' = [ans EXCEPT ![c] = x]

\* Mutant: max(value) without the one more.
GetSame(c) ==
  LET s == req[c].sum IN
  /\ at[c] = "sent" /\ req[c].op = "get" /\ up # "down"
  /\ \E m \in Tops :
       /\ IsMax(m)
       /\ IF table[s] # -1 /\ table[s] >= m
          THEN Reply(c, table[s]) /\ UNCHANGED <<table, dirty>>
          ELSE LET v == IF m = -1 THEN 0 ELSE m IN
               Reply(c, v) /\ table' = [table EXCEPT ![s] = v] /\ dirty' = TRUE
  /\ UNCHANGED <<up, disk, req, tries, history, lost>>

\* get_value(): the row of the checksum if it has the greatest value, or a greater one.
Get(c) ==
  LET s == req[c].sum IN
  /\ at[c] = "sent" /\ req[c].op = "get" /\ up # "down"
  /\ \E m \in Tops :
       /\ IsMax(m)
       /\ IF table[s] # -1 /\ table[s] >= m
          THEN Reply(c, table[s]) /\ UNCHANGED <<table, dirty>>
          ELSE Reply(c, m + 1) /\ table' = [table EXCEPT ![s] = m + 1] /\ dirty' = TRUE
  /\ UNCHANGED <<up, disk, req, tries, history, lost>>

FindMax(c) ==
  /\ at[c] = "sent" /\ req[c].op = "max" /\ up # "down"
  /\ \E m \in Tops : IsMax(m) /\ Reply(c, IF m = -1 THEN NoReply ELSE m)
  /\ UNCHANGED <<up, table, disk, dirty, req, tries, history, lost>>

\* importone(): inserted, or put in the place of a smaller value.
Import(c) ==
  LET s == req[c].sum  v == req[c].value IN
  /\ at[c] = "sent" /\ req[c].op = "import" /\ up # "down"
  /\ table' = [table EXCEPT ![s] = IF @ < v THEN v ELSE @]
  /\ dirty' = TRUE /\ imported' = TRUE
  /\ Reply(c, table'[s])
  /\ UNCHANGED <<up, disk, req, tries, told, floor, given, lost>>

\* A build learns a value.
Deliver(c) ==
  /\ at[c] = "done"
  /\ at' = [at EXCEPT ![c] = "idle"] /\ req' = [req EXCEPT ![c] = NoReq]
  /\ ans' = [ans EXCEPT ![c] = NoReply]
  /\ IF req[c].op = "get"
     THEN /\ told' = IF ans[c] > told THEN ans[c] ELSE told
          /\ given' = [given EXCEPT ![req[c].sum] = @ \cup {ans[c]}]
     ELSE UNCHANGED <<told, given>>
  /\ UNCHANGED <<up, table, disk, dirty, tries, floor, imported, lost>>

\* The connection breaks, or there is nobody to connect to.
Lose(c) ==
  /\ at[c] \in {"sent", "done"}
  /\ at' = [at EXCEPT ![c] = "lost"] /\ ans' = [ans EXCEPT ![c] = NoReply]
  /\ UNCHANGED <<up, table, disk, dirty, req, tries, history, lost>>

\* _send_wrapper(): the same request again, as often as Retries says.
Resend(c) ==
  /\ at[c] = "lost"
  /\ IF tries[c] < Retries
     THEN /\ at' = [at EXCEPT ![c] = "sent"] /\ tries' = [tries EXCEPT ![c] = @ + 1]
          /\ UNCHANGED req
     ELSE /\ at' = [at EXCEPT ![c] = "idle"] /\ req' = [req EXCEPT ![c] = NoReq]
          /\ UNCHANGED tries
  /\ UNCHANGED <<up, table, disk, dirty, ans, history, lost>>

-----------------------------------------------------------------------------
(* The server's life                                                       *)

\* dispatch_message(): any exception in a handler commits.
HandlerFails ==
  /\ up # "down"
  /\ disk' = table
  /\ UNCHANGED <<up, table, dirty, requests, history, lost>>

\* signal_handler(): stop() is scheduled, and what there is is committed.
Signal ==
  /\ up = "up"
  /\ up' = "stopping" /\ disk' = table
  /\ UNCHANGED <<table, dirty, requests, history, lost>>

\* Mutant: what was written since the signal is not committed.
StopAtOnce ==
  /\ up = "stopping"
  /\ up' = "down" /\ dirty' = FALSE
  /\ table' = disk
  /\ UNCHANGED <<disk, requests, history, lost>>

\* stop()
Stop ==
  /\ up = "stopping"
  /\ up' = "down" /\ dirty' = FALSE
  /\ disk' = IF dirty THEN table ELSE disk
  /\ table' = disk'
  /\ UNCHANGED <<requests, history, lost>>

\* Nothing the process can do about SIGKILL or a power cut.
Kill ==
  /\ up # "down"
  /\ up' = "down" /\ table' = disk /\ dirty' = FALSE
  /\ lost' = (lost \/ table # disk)
  /\ UNCHANGED <<disk, requests, history>>

Start ==
  /\ up = "down"
  /\ up' = "up"
  /\ UNCHANGED <<table, disk, dirty, requests, history, lost>>

Next ==
  \/ \E c \in Clients :
       Ask(c) \/ Get(c) \/ FindMax(c) \/ Import(c) \/ Deliver(c) \/ Lose(c) \/ Resend(c)
  \/ HandlerFails \/ Signal \/ Stop \/ Kill \/ Start

Spec == Init /\ [][Next]_vars

-----------------------------------------------------------------------------
(* Properties                                                              *)

Backwards(c) == at[c] = "done" /\ req[c].op # "import"
                /\ (ans[c] = NoReply \/ ans[c] < floor[c]) /\ floor[c] # -1

\* "This means the PR value returned can NOT be decremented" (db.py:27): no reply is
\* below a value that a build was given before the request was made.
NeverDecremented == \A c \in Clients : ~Backwards(c)

\* That holds over lost connections, resent and concurrent requests, imports, failing
\* handlers and a server that is stopped and started again, as long as no transaction is
\* lost with the process.
NeverBackwards == lost \/ NeverDecremented

\* Two checksums are never given one value (get_value: max(value)+1 for a checksum
\* without the greatest value), short of an import and a lost transaction.
OwnValues ==
  lost \/ imported \/ \A s, t \in Checksums : s # t => given[s] \cap given[t] = {}
=============================================================================
