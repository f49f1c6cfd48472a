------------------------------ MODULE HashServ ------------------------------
(***************************************************************************)
(* The hash equivalence server (lib/hashserv).  A build asks it for the    *)
(* unihash of a taskhash, and reports the hash of a task's output; tasks   *)
(* with equal outputs are to share one unihash.  The server runs one       *)
(* handler per connection in one event loop.  The queries of the sqlite    *)
(* engine do not give way to another handler, only waiting for the         *)
(* upstream server does, but each is committed on its own and the server   *)
(* may be killed between two.  A client resends what was not answered.     *)
(* Taskhashes stand for the unihashes they have by default.                *)
(***************************************************************************)
EXTENDS Sequences, Functions, Naturals

CONSTANTS
  Builds,        \* the clients
  Taskhashes, Outhashes, Marks, None,
  Settings,      \* records [upstream, ops, tasks, max]: whether there is an upstream
                 \* server; the kinds of requests made, about which taskhashes and, as a
                 \* bound, how many in all
  Theirs,        \* what upstream knows: taskhash or outhash |-> unihash, or None
  Resends,       \* times a request is sent again; 3 in the code
  MaxLost        \* bound: connections lost

ASSUME HashAssumption ==
  /\ None \notin Taskhashes \cup [task : Taskhashes, out : Outhashes]
  /\ \A s \in Settings : s.tasks \subseteq Taskhashes

VARIABLES
  setting,    \* one of Settings
  uni,        \* unihashes_v3: taskhash |-> [hash, mark, by]; "by" is a ghost
  out,        \* outhashes_v2: rows [task, out] by id, in order of creation; None where
              \* one was deleted
  mark,       \* current garbage collection mark
  backfill,   \* taskhashes the backfill task has to fetch
  stage,      \* build |-> where its request is
  query,      \* build |-> the request
  reply,      \* build |-> the handler's "unihash", then the answer
  resent,     \* build |-> resends of this request
  learnt,     \* taskhash |-> unihashes builds were given for it
  forgotten,  \* taskhashes whose unihash was deleted since the start
  crashed,    \* the server was killed since the start
  made, cut   \* requests made, connections lost

db == <<uni, out, mark>>
bounds == <<made, cut, crashed>>
hashVars == <<setting, db, backfill, stage, query, reply, resent, learnt, forgotten, bounds>>

Idle == [op |-> "none"]
Outside == {"idle", "sent", "lost", "done"}     \* no handler runs
Suspended == Outside \cup {"ask", "fetch", "stream"}  \* or one that waits for upstream
Places == Suspended \cup {"match", "record", "look", "read", "sweep"}
Unihashes == Taskhashes \cup {Theirs[x] : x \in Taskhashes \cup Outhashes}

HashTypeOK ==
  /\ DOMAIN uni \subseteq Taskhashes
  /\ uni \in [DOMAIN uni ->
               [hash : Unihashes, mark : Marks \cup {None}, by : {"report", "other"}]]
  /\ out \in Seq([task : Taskhashes, out : Outhashes] \cup {None})
  /\ mark \in Marks \cup {None}
  /\ backfill \in Seq(Taskhashes)
  /\ stage \in [Builds -> Places]
  /\ reply \in [Builds -> Unihashes \cup {None}]
  /\ resent \in [Builds -> 0..Resends]
  /\ learnt \in [Taskhashes -> SUBSET Unihashes]

HashInit ==
  /\ setting \in Settings
  /\ uni = <<>> /\ out = <<>> /\ mark = None /\ backfill = <<>>
  /\ stage = [c \in Builds |-> "idle"] /\ query = [c \in Builds |-> Idle]
  /\ reply = [c \in Builds |-> None] /\ resent = [c \in Builds |-> 0]
  /\ learnt = [t \in Taskhashes |-> {}] /\ forgotten = {} /\ crashed = FALSE
  /\ made = 0 /\ cut = 0

Turn(c) == \A d \in Builds \ {c} : stage[d] \in Suspended

Handles(c, op) == stage[c] = "sent" /\ query[c].op = op /\ Turn(c)

GoTo(c, place) == stage' = [stage EXCEPT ![c] = place]
Answer(c, x) == GoTo(c, "done") /\ reply' = [reply EXCEPT ![c] = x]
\* An exception in the handler closes the connection.
Hangup(c) == GoTo(c, "lost") /\ UNCHANGED reply

-----------------------------------------------------------------------------
(* Queries                                                                 *)

\* Tasks that have a unihash, and that of one of them.
Known == DOMAIN uni
HashOf(t) == IF t \in Known THEN uni[t].hash ELSE None

Row(u, m, by) == [hash |-> u, mark |-> m, by |-> by]
With(t, row) == [x \in Known \cup {t} |-> IF x = t THEN row ELSE uni[x]]

\* Rows that are there, and the oldest of some.
Live == {i \in DOMAIN out : out[i] # None}
Oldest(rows) == out[CHOOSE i \in rows : \A j \in rows : i <= j]

\* get_equivalent_for_outhash: the oldest row of another task that has a unihash.
Equivalent(o, t) ==
  LET rows == {i \in Live : out[i].out = o /\ out[i].task # t /\ out[i].task \in Known}
  IN  IF rows = {} THEN None ELSE HashOf(Oldest(rows).task)

\* Mutant: INSERT OR REPLACE.
InsertReplaces(t, u, by) == uni' = With(t, Row(u, mark, by))

\* INSERT OR IGNORE, under the current mark.
InsertUnihash(t, u, by) ==
  uni' = IF t \in Known THEN uni ELSE With(t, Row(u, mark, by))

Delete(tasks) ==
  /\ uni' = [t \in Known \ tasks |-> uni[t]]
  /\ forgotten' = forgotten \cup (tasks \cap Known)

DeleteRows(tasks) ==
  out' = [i \in DOMAIN out |-> IF i \in Live /\ out[i].task \in tasks THEN None ELSE out[i]]

-----------------------------------------------------------------------------
(* handle_report(), handle_equivreport()                                   *)

\* insert_outhash.  lastrowid of a new cursor is None, so that the row counts as new also
\* where INSERT OR IGNORE has ignored it.
ReportRow(c) ==
  LET t == query[c].task
      o == query[c].out
      there == \E i \in Live : out[i].task = t /\ out[i].out = o
  IN
  /\ Handles(c, "report")
  /\ out' = IF there THEN out ELSE Append(out, [task |-> t, out |-> o])
  /\ GoTo(c, "match")
  /\ reply' = [reply EXCEPT ![c] = query[c].uni]
  /\ UNCHANGED <<setting, uni, mark, backfill, query, resent, learnt, forgotten, bounds>>

\* Mutant: the unihash reported is kept.
MatchIgnored(c) ==
  /\ stage[c] = "match" /\ Turn(c)
  /\ GoTo(c, IF setting.upstream THEN "ask" ELSE "record")
  /\ UNCHANGED <<setting, db, backfill, query, reply, resent, learnt, forgotten, bounds>>

ReportMatch(c) ==
  LET u == Equivalent(query[c].out, query[c].task) IN
  /\ stage[c] = "match" /\ Turn(c)
  /\ IF u # None THEN GoTo(c, "record") /\ reply' = [reply EXCEPT ![c] = u]
     ELSE GoTo(c, IF setting.upstream THEN "ask" ELSE "record") /\ UNCHANGED reply
  /\ UNCHANGED <<setting, db, backfill, query, resent, learnt, forgotten, bounds>>

ReportAsk(c) ==
  LET u == Theirs[query[c].out] IN
  /\ stage[c] = "ask" /\ Turn(c)
  /\ reply' = IF u = None THEN reply ELSE [reply EXCEPT ![c] = u]
  /\ GoTo(c, "record")
  /\ UNCHANGED <<setting, db, backfill, query, resent, learnt, forgotten, bounds>>

ReportUnihash(c) ==
  /\ stage[c] = "record" /\ Turn(c)
  /\ InsertUnihash(query[c].task, reply[c], "report")
  /\ GoTo(c, "look")
  /\ UNCHANGED <<setting, out, mark, backfill, query, reply, resent, learnt, forgotten,
                 bounds>>

EquivInsert(c) ==
  /\ Handles(c, "equiv")
  /\ InsertUnihash(query[c].task, query[c].uni, "other")
  /\ GoTo(c, "read")
  /\ UNCHANGED <<setting, out, mark, backfill, query, reply, resent, learnt, forgotten,
                 bounds>>

\* row["unihash"] of no row raises a TypeError.
EquivRead(c) ==
  LET t == query[c].task IN
  /\ stage[c] = "read" /\ Turn(c)
  /\ IF t \in Known THEN Answer(c, HashOf(t)) ELSE Hangup(c)
  /\ UNCHANGED <<setting, db, backfill, query, resent, learnt, forgotten, bounds>>

-----------------------------------------------------------------------------
(* handle_get(), handle_get_stream(), the backfill task                    *)

\* get_unihash(), which also ends a report.
Look(c) ==
  LET t == query[c].task IN
  /\ (stage[c] = "look" /\ Turn(c)) \/ Handles(c, "get")
  /\ \/ t \in Known /\ Answer(c, HashOf(t))
     \/ t \notin Known /\ setting.upstream /\ GoTo(c, "fetch") /\ UNCHANGED reply
     \/ /\ t \notin Known /\ ~setting.upstream
        /\ Answer(c, IF query[c].op = "report" THEN query[c].uni ELSE None)
  /\ UNCHANGED <<setting, db, backfill, query, resent, learnt, forgotten, bounds>>

\* What upstream answers is inserted and passed on; its "no such task" raises a
\* TypeError.
Fetch(c) ==
  LET t == query[c].task IN
  /\ stage[c] = "fetch" /\ Turn(c)
  /\ IF Theirs[t] = None THEN Hangup(c) /\ UNCHANGED uni
     ELSE InsertUnihash(t, Theirs[t], "other") /\ Answer(c, Theirs[t])
  /\ UNCHANGED <<setting, out, mark, backfill, query, resent, learnt, forgotten, bounds>>

Stream(c) ==
  LET t == query[c].task IN
  /\ Handles(c, "stream")
  /\ IF t \notin Known /\ setting.upstream THEN GoTo(c, "stream") /\ UNCHANGED reply
     ELSE Answer(c, HashOf(t))
  /\ UNCHANGED <<setting, db, backfill, query, resent, learnt, forgotten, bounds>>

StreamFetch(c) ==
  LET t == query[c].task IN
  /\ stage[c] = "stream" /\ Turn(c)
  /\ Answer(c, Theirs[t])
  /\ backfill' = IF Theirs[t] = None THEN backfill ELSE Append(backfill, t)
  /\ UNCHANGED <<setting, db, query, resent, learnt, forgotten, bounds>>

Backfill ==
  /\ backfill # <<>> /\ \A c \in Builds : Turn(c)
  /\ InsertUnihash(Head(backfill), Theirs[Head(backfill)], "other")
  /\ backfill' = Tail(backfill)
  /\ UNCHANGED <<setting, out, mark, stage, query, reply, resent, learnt, forgotten,
                 bounds>>

-----------------------------------------------------------------------------
(* The administrator's requests                                            *)

\* where taskhash = t deletes from both tables, where unihash = u from one.
Remove(c) ==
  LET r == query[c] IN
  /\ Handles(c, "remove")
  /\ IF r.task # None
     THEN Delete({r.task}) /\ DeleteRows({r.task})
     ELSE Delete({t \in Known : uni[t].hash = r.uni}) /\ UNCHANGED out
  /\ Answer(c, None)
  /\ UNCHANGED <<setting, mark, backfill, query, resent, learnt, bounds>>

Mark(c) ==
  LET r == query[c] IN
  /\ Handles(c, "mark")
  /\ mark' = r.mark
  /\ uni' = IF r.task \in Known
            THEN With(r.task, Row(HashOf(r.task), r.mark, uni[r.task].by)) ELSE uni
  /\ Answer(c, None)
  /\ UNCHANGED <<setting, out, backfill, query, resent, learnt, forgotten, bounds>>

\* Mutant: any mark will do as long as there is one.
CheckAny(c) ==
  /\ Handles(c, "sweep")
  /\ IF mark # None THEN GoTo(c, "sweep") /\ UNCHANGED reply ELSE Answer(c, None)
  /\ UNCHANGED <<setting, db, backfill, query, resent, learnt, forgotten, bounds>>

SweepCheck(c) ==
  /\ Handles(c, "sweep")
  /\ IF mark = query[c].mark THEN GoTo(c, "sweep") /\ UNCHANGED reply ELSE Answer(c, None)
  /\ UNCHANGED <<setting, db, backfill, query, resent, learnt, forgotten, bounds>>

\* Rows of another mark than the one current now.
Sweep(c) ==
  /\ stage[c] = "sweep" /\ Turn(c)
  /\ Delete({t \in Known : mark # None /\ uni[t].mark # mark})
  /\ mark' = None
  /\ Answer(c, None)
  /\ UNCHANGED <<setting, out, backfill, query, resent, learnt, bounds>>

\* now() - timedelta(seconds=-max_age) is a time to come, so that the age of a row
\* is no matter.
CleanUnused(c) ==
  /\ Handles(c, "clean")
  /\ DeleteRows(Taskhashes \ Known)
  /\ Answer(c, None)
  /\ UNCHANGED <<setting, uni, mark, backfill, query, resent, learnt, forgotten, bounds>>

Handler(c) ==
  \/ ReportRow(c) \/ ReportMatch(c) \/ ReportAsk(c) \/ ReportUnihash(c)
  \/ EquivInsert(c) \/ EquivRead(c)
  \/ Look(c) \/ Fetch(c) \/ Stream(c) \/ StreamFetch(c)
  \/ Remove(c) \/ Mark(c) \/ SweepCheck(c) \/ Sweep(c) \/ CleanUnused(c)

-----------------------------------------------------------------------------
(* Clients and connections                                                 *)

\* A build reports a task under its taskhash or the unihash it was given.
Asked ==
  LET T == setting.tasks IN
  {[op |-> op, task |-> t] : op \in {"get", "stream"}, t \in T}
  \cup (UNION {{[op |-> "report", task |-> t, out |-> o, uni |-> u] :
                  o \in Outhashes, u \in {t} \cup learnt[t]} : t \in T})
  \cup (UNION {{[op |-> "equiv", task |-> t, uni |-> u] : u \in T \ {t}} :
                 t \in T})
  \cup {[op |-> "remove", task |-> t, uni |-> None] : t \in T}
  \cup {[op |-> "remove", task |-> None, uni |-> u] : u \in T}
  \cup {[op |-> "mark", mark |-> m, task |-> t] : m \in Marks, t \in T}
  \cup {[op |-> "sweep", mark |-> m] : m \in Marks}
  \cup {[op |-> "clean"]}

Send(c) ==
  /\ stage[c] = "idle" /\ made < setting.max
  /\ \E r \in Asked :
       r.op \in setting.ops /\ query' = [query EXCEPT ![c] = r]
  /\ GoTo(c, "sent") /\ resent' = [resent EXCEPT ![c] = 0] /\ made' = made + 1
  /\ UNCHANGED <<setting, db, backfill, reply, learnt, forgotten, crashed, cut>>

TakeAnswer(c) ==
  /\ stage[c] = "done"
  /\ GoTo(c, "idle")
  /\ query' = [query EXCEPT ![c] = Idle] /\ reply' = [reply EXCEPT ![c] = None]
  /\ learnt' = IF reply[c] = None THEN learnt
             ELSE [learnt EXCEPT ![query[c].task] = @ \cup {reply[c]}]
  /\ UNCHANGED <<setting, db, backfill, resent, forgotten, bounds>>

\* The connection breaks before the request is read or after it was handled.
Break(c) ==
  /\ stage[c] \in {"sent", "done"} /\ cut < MaxLost
  /\ GoTo(c, "lost") /\ cut' = cut + 1 /\ reply' = [reply EXCEPT ![c] = None]
  /\ UNCHANGED <<setting, db, backfill, query, resent, learnt, forgotten, made, crashed>>

\* The server is killed and started again; what was committed stays.
Crash ==
  /\ ~crashed
  /\ crashed' = TRUE
  /\ stage' = [c \in Builds |-> IF stage[c] = "idle" THEN "idle" ELSE "lost"]
  /\ reply' = [c \in Builds |-> None] /\ backfill' = <<>>
  /\ UNCHANGED <<setting, db, query, resent, learnt, forgotten, made, cut>>

\* _send_wrapper(): a new connection and the same request, as often as Resends says.
SendAgain(c) ==
  /\ stage[c] = "lost"
  /\ IF resent[c] < Resends
     THEN GoTo(c, "sent") /\ resent' = [resent EXCEPT ![c] = @ + 1]
          /\ UNCHANGED <<query, reply>>
     ELSE GoTo(c, "idle") /\ query' = [query EXCEPT ![c] = Idle]
          /\ reply' = [reply EXCEPT ![c] = None] /\ UNCHANGED resent
  /\ UNCHANGED <<setting, db, backfill, learnt, forgotten, bounds>>

HashNext ==
  \/ \E c \in Builds : Send(c) \/ Handler(c) \/ TakeAnswer(c) \/ Break(c) \/ SendAgain(c)
  \/ Backfill \/ Crash

HashSpec == HashInit /\ [][HashNext]_hashVars

-----------------------------------------------------------------------------
(* Properties                                                              *)

\* Builds are told one unihash for a taskhash, the one that is recorded, whatever they
\* report at the same time, over lost connections and a restart, until the row is deleted
\* (handle_report, get_unihash: INSERT OR IGNORE, then the answer is read back).  Only
\* what upstream says may be passed on and lose to a report made meanwhile.
ToldIsRecorded ==
  \A t \in Taskhashes \ forgotten :
    learnt[t] \subseteq (IF t \in Known THEN {HashOf(t)} ELSE {})
                      \cup (IF setting.upstream THEN {Theirs[t]} ELSE {})

\* Tasks whose first reported outputs are equal share a unihash (handle_report: "Set our
\* taskhash to the same unihash since they are equivalent"), as long as nobody deletes
\* rows, maps a taskhash with report-equiv or kills the server inside a report, and no
\* upstream server makes a report wait.
EqualOutputsShare ==
  LET First(t) == Oldest({i \in Live : out[i].task = t}).out
  IN  ~setting.upstream /\ ~crashed /\ forgotten = {}
      /\ (\A t \in Known : uni[t].by = "report") =>
        \A s, t \in Known : First(s) = First(t) => uni[s].hash = uni[t].hash

\* A sweep deletes nothing that carries the mark it was asked for, even when others mark
\* and sweep at the same time (handle_gc_sweep refuses a mark that is not current).
SweepKeepsMarked ==
  [][\A c \in Builds, t \in Taskhashes :
       stage[c] = "sweep" /\ t \in Known /\ uni[t].mark = query[c].mark /\ Sweep(c)
         => t \in Known']_hashVars
=============================================================================
