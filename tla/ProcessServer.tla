--------------------------- MODULE ProcessServer ---------------------------
(***************************************************************************)
(* The bitbake server of a build directory (lib/bb/server/process.py,      *)
(* lib/bb/command.py, the states of lib/bb/cooker.py) and the bitbake      *)
(* processes that start it or connect to it (setup_bitbake, lib/bb/main.py)*)
(*                                                                         *)
(* bitbake.lock is taken as a mutex: modules LockFile and NamedLock say    *)
(* why.  A server process occupies one of Slots; a connection is one try   *)
(* of a client.  Inside a server two threads run: the main thread, which   *)
(* accepts clients and runs their commands, and the idle thread, which     *)
(* runs the functions registered by asynchronous commands.                 *)
(***************************************************************************)
EXTENDS Naturals, Sequences, FiniteSets

CONSTANTS
  Clients,      \* bitbake processes, each used once
  Slots,        \* server processes that exist at a time
  None,
  Plans         \* what may happen, one for each behaviour:
                \*   tries     of each client; setup_bitbake makes 8
                \*   commands  asynchronous ones that each user interface sends
                \*   kills     of server processes
                \*   timeout   BB_SERVER_TIMEOUT: "none" (0), "some" or "never" (-1)

ASSUME ServerAssumption ==
  /\ Clients \cap Slots = {} /\ None \notin Clients \cup Slots
  /\ Plans \subseteq [tries : [Clients -> Nat \ {0}], commands : [Clients -> Nat],
                    kills : Nat, timeout : {"none", "some", "never"}]

VARIABLES
  plan,     \* of this behaviour
  lock,     \* who holds bitbake.lock
  sock,     \* the server that bound bitbake.sock, if the file exists
  kills,    \* that are left
  pc,       \* where the main thread of each server is
  srv,      \* what the two threads of a server share
  idle,     \* the idle thread of each server
  at,       \* where each client is
  tries,
  conn      \* each connection: what is in its pipes

vars == <<plan, lock, sock, kills, pc, srv, idle, at, tries, conn>>
clientVars == <<at, tries>>

Conns == UNION {{c} \X (1..plan.tries[c]) : c \in Clients}
Kinds == {"quick", "build"}
Stops == {"shutdown"}          \* stands for stateForceShutdown, too

\* No connection, command or answer is None.
ASSUME NoneAssumption ==
  /\ None \notin Clients \X Nat
  /\ None \notin [by : Clients \X Nat, kind : Kinds]
  /\ None \notin {"ok", "error", "busy"}

Conn(c) == <<c, tries[c]>>
Elements(seq) == {seq[i] : i \in DOMAIN seq}
Held(k) == \E s \in Slots :
  k \in Elements(srv[s].backlog) \cup Elements(srv[s].queue) \cup {srv[s].control}

Listening == {"bound", "loop", "drain", "acquire", "busy", "register", "join", "unlink",
              "close"}

Fresh == [parent |-> None, backlog |-> <<>>, queue |-> <<>>, control |-> None,
          ui |-> FALSE, hadui |-> FALSE, quit |-> FALSE, pending |-> None,
          fns |-> {}, cmd |-> None, cooker |-> "initial", events |-> <<>>]
NoThread == [pc |-> "none", item |-> None, final |-> FALSE]
NoConn == [fds |-> FALSE, shut |-> {}, chan |-> <<>>, reply |-> None, accepted |-> 0,
           stopped |-> FALSE, finals |-> <<>>]

Init ==
  /\ plan \in Plans
  /\ lock = None /\ sock = None /\ kills = plan.kills
  /\ pc = [s \in Slots |-> "off"]
  /\ srv = [s \in Slots |-> Fresh]
  /\ idle = [s \in Slots |-> NoThread]
  /\ at = [c \in Clients |-> "start"]
  /\ tries = [c \in Clients |-> 1]
  /\ conn = [k \in Conns |-> NoConn]

-----------------------------------------------------------------------------
(* A client: setup_bitbake, then its user interface.                       *)

Goes(c, place) == at' = [at EXCEPT ![c] = place] /\ UNCHANGED tries

Retries(c) ==
  IF tries[c] < plan.tries[c]
  THEN at' = [at EXCEPT ![c] = "start"] /\ tries' = [tries EXCEPT ![c] = @ + 1]
  ELSE Goes(c, "gaveup")

\* lockBitbake succeeds: a server is forked, which keeps the lock.
StartServer(c) ==
  /\ at[c] = "start" /\ lock = None
  /\ \E s \in Slots : pc[s] = "off"
  /\ LET s == CHOOSE s \in Slots : pc[s] = "off" IN
       /\ lock' = s
       /\ pc' = [pc EXCEPT ![s] = "boot"]
       /\ srv' = [srv EXCEPT ![s].parent = c]
  /\ Goes(c, "boot")
  /\ UNCHANGED <<plan, sock, kills, idle, conn>>

LockHeld(c) ==
  /\ at[c] = "start" /\ lock # None
  /\ Goes(c, "look")
  /\ UNCHANGED <<plan, lock, sock, kills, pc, srv, idle, conn>>

Look(c) ==
  /\ at[c] = "look"
  /\ Goes(c, IF sock = None THEN "wait" ELSE "connect")
  /\ UNCHANGED <<plan, lock, sock, kills, pc, srv, idle, conn>>

\* For 5 s the client tries to get the lock, only to give it back.
WaitGets(c) ==
  /\ at[c] = "wait" /\ lock = None
  /\ lock' = c
  /\ Goes(c, "giveback")
  /\ UNCHANGED <<plan, sock, kills, pc, srv, idle, conn>>

WaitEnds(c) ==
  /\ at[c] = "wait" /\ lock # None
  /\ Retries(c)
  /\ UNCHANGED <<plan, lock, sock, kills, pc, srv, idle, conn>>

GiveBack(c) ==
  /\ at[c] = "giveback"
  /\ lock' = None
  /\ Retries(c)
  /\ UNCHANGED <<plan, sock, kills, pc, srv, idle, conn>>

\* connectProcessServer: refused unless the owner of the socket listens.
Connect(c) ==
  /\ at[c] = "connect"
  /\ IF sock # None /\ pc[sock] \in Listening
     THEN srv' = [srv EXCEPT ![sock].backlog = Append(@, Conn(c))] /\ Goes(c, "fds")
     ELSE UNCHANGED srv /\ Retries(c)
  /\ UNCHANGED <<plan, lock, sock, kills, pc, idle, conn>>

SendFds(c) ==
  /\ at[c] = "fds"
  /\ conn' = [conn EXCEPT ![Conn(c)].fds = TRUE, ![Conn(c)].chan = <<"features">>]
  /\ Goes(c, "features")
  /\ UNCHANGED <<plan, lock, sock, kills, pc, srv, idle>>

\* runCommand of ServerCommunicator reads a reply ...
Reads(c, place) ==
  /\ conn[Conn(c)].reply # None
  /\ conn' = [conn EXCEPT ![Conn(c)].reply = None]
  /\ Goes(c, place)
  /\ UNCHANGED <<plan, lock, sock, kills, pc, srv, idle>>

Connected(c) ==
  /\ at[c] = "features"
  /\ Reads(c, IF conn[Conn(c)].reply = "ok" THEN "ui" ELSE "leaving")

Accepted(c) ==
  /\ at[c] = "asked"
  /\ Reads(c, IF conn[Conn(c)].reply = "ok" THEN "waiting" ELSE "leaving")

Stopped(c) == at[c] = "stopping" /\ Reads(c, "waiting")

\* ... or none: end of file, or nothing in 60 s.
NoReply(c) ==
  /\ at[c] \in {"features", "asked", "stopping"}
  /\ conn[Conn(c)].reply = None
  /\ Goes(c, IF at[c] = "features" THEN "dropping" ELSE "leaving")
  /\ UNCHANGED <<plan, lock, sock, kills, pc, srv, idle, conn>>

Sends(c, msg, place) ==
  /\ conn' = [conn EXCEPT ![Conn(c)].chan = Append(@, msg), ![Conn(c)].stopped = msg \in Stops]
  /\ Goes(c, place)
  /\ UNCHANGED <<plan, lock, sock, kills, pc, srv, idle>>

Ask(c) ==
  /\ at[c] = "ui" /\ conn[Conn(c)].accepted < plan.commands[c]
  /\ \E kind \in Kinds : Sends(c, kind, "asked")

Stop(c) ==
  /\ at[c] = "waiting" /\ ~conn[Conn(c)].stopped
  /\ \E how \in Stops : Sends(c, how, "stopping")

Terminate(c) == at[c] = "ui" /\ Sends(c, "terminate", "leaving")

\* The final event of the command arrives, or the server is gone.
GotFinal(c) ==
  /\ at[c] = "waiting"
  /\ \/ Len(conn[Conn(c)].finals) >= conn[Conn(c)].accepted /\ Goes(c, "ui")
     \/ ~Held(Conn(c)) /\ Goes(c, "leaving")
  /\ UNCHANGED <<plan, lock, sock, kills, pc, srv, idle, conn>>

Leave(c) ==
  /\ at[c] = "ui"
  /\ Goes(c, "leaving")
  /\ UNCHANGED <<plan, lock, sock, kills, pc, srv, idle, conn>>

\* What was sent can still be read, what was to be received cannot.
Shut(c, ends) ==
  LET k == Conn(c) IN
  conn' = [conn EXCEPT ![k] = [NoConn EXCEPT !.fds = conn[k].fds, !.chan = conn[k].chan,
                                             !.shut = ends]]

\* terminate() closes everything, the socket first; the error path of
\* connectProcessServer the pipes before the socket.
Closes(c) ==
  /\ \/ at[c] = "leaving"  /\ Shut(c, {"sock", "chan"}) /\ Goes(c, "done")
     \/ at[c] = "dropping" /\ Shut(c, {"chan"}) /\ Goes(c, "dropped")
     \/ at[c] = "dropped"  /\ Shut(c, {"sock", "chan"}) /\ Retries(c)
  /\ UNCHANGED <<plan, lock, sock, kills, pc, srv, idle>>

ClientKilled(c) ==
  /\ at[c] \notin {"done", "gaveup"}
  /\ lock' = IF lock = c THEN None ELSE lock
  /\ Shut(c, {"sock", "chan"})
  /\ Goes(c, "done")
  /\ UNCHANGED <<plan, sock, kills, pc, srv, idle>>

Client(c) ==
  \/ StartServer(c) \/ LockHeld(c) \/ Look(c) \/ WaitGets(c) \/ WaitEnds(c) \/ GiveBack(c)
  \/ Connect(c) \/ SendFds(c) \/ Connected(c) \/ Accepted(c) \/ Stopped(c) \/ NoReply(c)
  \/ GotFinal(c) \/ Leave(c) \/ Closes(c)

-----------------------------------------------------------------------------
(* The main thread of a server.  One round of the loop of main() handles   *)
(* what select has found readable; the rounds have no state of their own,  *)
(* and each thing that can be ready is an action.                          *)

MainAt(s, place) == pc[s] = place
MainGoes(s, place) == pc' = [pc EXCEPT ![s] = place]
NoClient == UNCHANGED <<plan, kills, idle, clientVars>>

\* The server's ends of these connections are closed.
Drops(ks) ==
  conn' = [k \in Conns |-> IF k \in ks
                          THEN [conn[k] EXCEPT !.fds = FALSE, !.chan = <<>>] ELSE conn[k]]

Ends(s) == Elements(srv[s].backlog) \cup Elements(srv[s].queue) \cup {srv[s].control}

\* execServer replaces the socket file by its own.
Bind(s) ==
  /\ MainAt(s, "boot") /\ MainGoes(s, "bound")
  /\ sock' = s
  /\ NoClient /\ UNCHANGED <<lock, srv, conn>>

\* The cooker is created: "r" goes down the ready pipe to the parent, and
\* the idle thread starts with the first round.
Serve(s) ==
  /\ MainAt(s, "bound") /\ MainGoes(s, "loop")
  /\ LET c == srv[s].parent IN
       IF at[c] = "boot" THEN Goes(c, "connect") ELSE UNCHANGED clientVars
  /\ idle' = [idle EXCEPT ![s].pc = "copy"]
  /\ srv' = [srv EXCEPT ![s].parent = None]
  /\ UNCHANGED <<plan, lock, sock, kills, conn>>

Gone(s) ==
  /\ pc' = [pc EXCEPT ![s] = "off"]
  /\ srv' = [srv EXCEPT ![s] = Fresh]
  /\ idle' = [idle EXCEPT ![s] = NoThread]
  /\ lock' = IF lock = s THEN None ELSE lock
  /\ Drops(Ends(s))
  /\ UNCHANGED <<plan, sock>>

\* The ready pipe closes.
ParentSees(s) ==
  LET c == srv[s].parent IN
    IF c # None /\ at[c] = "boot" THEN Retries(c) ELSE UNCHANGED clientVars

\* BBCooker cannot be created: the server returns, the socket file stays.
BootFails(s) ==
  /\ MainAt(s, "bound")
  /\ ParentSees(s) /\ Gone(s)
  /\ UNCHANGED kills

Killed(s) ==
  /\ pc[s] # "off" /\ kills > 0
  /\ kills' = kills - 1
  /\ ParentSees(s) /\ Gone(s)

Looping(s) == MainAt(s, "loop") /\ ~srv[s].quit

\* Every waiting connection is accepted: one to control the server, the
\* others to wait.
Accept(s) ==
  LET new == srv[s].backlog
      first == srv[s].control = None
  IN
  /\ Looping(s) /\ new # <<>>
  /\ srv' = [srv EXCEPT ![s].backlog = <<>>,
                        ![s].control = IF first THEN Head(new) ELSE @,
                        ![s].queue = @ \o (IF first THEN Tail(new) ELSE new)]
  /\ NoClient /\ UNCHANGED <<lock, sock, pc, conn>>

\* Mutant: without a timeout, too, the server waits for another client.
StaysOn(rec) ==
  LET left == [rec EXCEPT !.control = None, !.ui = FALSE,
                          !.cooker = IF rec.ui THEN "initial" ELSE @]
  IN  IF left.queue # <<>> /\ ~left.quit
      THEN [left EXCEPT !.control = left.queue[Len(left.queue)],
                        !.queue = SubSeq(@, 1, Len(@) - 1)]
      ELSE left

\* disconnect_client after its wait: the last to queue up is next.
Disconnected(rec) ==
  LET left == [rec EXCEPT !.control = None, !.ui = FALSE,
                          !.cooker = IF rec.ui THEN "initial" ELSE @]
  IN  IF left.queue # <<>> /\ ~left.quit
      THEN [left EXCEPT !.control = left.queue[Len(left.queue)],
                        !.queue = SubSeq(@, 1, Len(@) - 1)]
      ELSE [left EXCEPT !.quit = @ \/ (plan.timeout = "none" /\ left.backlog = <<>>)]

\* disconnect_client waits for the idle thread if there was an interface.
Disconnect(s) ==
  IF srv[s].ui
  THEN MainGoes(s, "drain") /\ UNCHANGED <<srv, conn>>
  ELSE /\ srv' = [srv EXCEPT ![s] = Disconnected(@)]
       /\ Drops({srv[s].control})
       /\ UNCHANGED pc

\* Mutants: only one of the two is looked at.
IdleFunctions(s) == srv[s].fns = {}
IdleCommand(s) == srv[s].cmd = None

IdleCheck(s) == srv[s].fns = {} /\ srv[s].cmd = None

\* Mutant: the next client is not kept waiting.
DrainAtOnce(s) ==
  /\ MainAt(s, "drain") /\ MainGoes(s, "loop")
  /\ srv' = [srv EXCEPT ![s] = Disconnected(@)]
  /\ Drops({srv[s].control})
  /\ NoClient /\ UNCHANGED <<lock, sock>>

\* wait_for_idle ends, or 30 s have passed and the server quits.
Drain(s) ==
  /\ MainAt(s, "drain") /\ MainGoes(s, "loop")
  /\ srv' = [srv EXCEPT ![s] = Disconnected([srv[s] EXCEPT !.quit = srv[s].quit \/ ~IdleCheck(s)])]
  /\ Drops({srv[s].control})
  /\ NoClient /\ UNCHANGED <<lock, sock>>

\* The control socket is readable: three descriptors, or the end of file.
Control(s) ==
  LET k == srv[s].control IN
  /\ Looping(s) /\ k # None
  /\ \/ /\ ~srv[s].ui /\ conn[k].fds
        /\ srv' = [srv EXCEPT ![s].ui = TRUE, ![s].hadui = TRUE]
        /\ UNCHANGED <<pc, conn>>
     \/ /\ (srv[s].ui \/ ~conn[k].fds) /\ "sock" \in conn[k].shut
        /\ Disconnect(s)
  /\ NoClient /\ UNCHANGED <<lock, sock>>

\* Nobody for as long as the timeout, or no first client within 30 s.
Timeout(s) ==
  /\ Looping(s)
  /\ \/ plan.timeout = "some" /\ ~srv[s].ui
     \/ plan.timeout = "none" /\ ~srv[s].hadui
  /\ srv' = [srv EXCEPT ![s].quit = TRUE]
  /\ NoClient /\ UNCHANGED <<lock, sock, pc, conn>>

\* One message of the command pipe.  A synchronous command is run at once,
\* an asynchronous one has to wait for its turn in set_async_cmd.
Command(s) ==
  LET k == srv[s].control
      msg == Head(conn[k].chan)
      read == [conn EXCEPT ![k].chan = Tail(@)]
      answered(word) == [read EXCEPT ![k].reply = IF conn[k].shut = {} THEN word ELSE None]
  IN
  /\ Looping(s) /\ srv[s].ui /\ conn[k].chan # <<>>
  /\ \/ /\ msg = "terminate"
        /\ srv' = [srv EXCEPT ![s].quit = TRUE]
        /\ conn' = read
        /\ UNCHANGED pc
     \/ /\ msg = "features"
        /\ conn' = answered(IF srv[s].cooker \in {"parsing", "running"} THEN "error" ELSE "ok")
        /\ UNCHANGED <<pc, srv>>
     \/ /\ msg \in Stops
        /\ srv' = [srv EXCEPT ![s].cooker = msg]
        /\ conn' = answered("ok")
        /\ UNCHANGED pc
     \/ /\ msg \in Kinds
        /\ MainGoes(s, "acquire")
        /\ srv' = [srv EXCEPT ![s].pending = [by |-> k, kind |-> msg]]
        /\ conn' = read
  /\ NoClient /\ UNCHANGED <<lock, sock>>

Hangup(s) ==
  LET k == srv[s].control IN
  /\ Looping(s) /\ srv[s].ui /\ conn[k].chan = <<>> /\ "chan" \in conn[k].shut
  /\ MainGoes(s, "drain") /\ UNCHANGED <<srv, conn>>
  /\ NoClient /\ UNCHANGED <<lock, sock>>

\* set_async_cmd: the condition holds, or 30 s have passed.
Acquire(s) ==
  /\ MainAt(s, "acquire")
  /\ IF IdleCheck(s)
     THEN /\ MainGoes(s, "register")
          /\ srv' = [srv EXCEPT ![s].cmd = srv[s].pending]
     ELSE MainGoes(s, "busy") /\ UNCHANGED srv
  /\ NoClient /\ UNCHANGED <<lock, sock, conn>>

Replies(s, word, more) ==
  LET k == srv[s].control IN
  IF conn[k].shut = {}
  THEN conn' = [conn EXCEPT ![k].reply = word, ![k].accepted = @ + more]
  ELSE UNCHANGED conn

\* "Busy (... in progress)" names the command in progress; if that has ended
\* meanwhile this is an exception and there is no reply.
Refuse(s) ==
  /\ MainAt(s, "busy") /\ MainGoes(s, "loop")
  /\ IF srv[s].cmd # None THEN Replies(s, "busy", 0) ELSE UNCHANGED conn
  /\ srv' = [srv EXCEPT ![s].pending = None]
  /\ NoClient /\ UNCHANGED <<lock, sock>>

\* idleCallBackRegister(runAsyncCommand), and the reply.
Register(s) ==
  /\ MainAt(s, "register") /\ MainGoes(s, "loop")
  /\ srv' = [srv EXCEPT ![s].fns = @ \cup {"run"}, ![s].pending = None]
  /\ Replies(s, "ok", 1)
  /\ NoClient /\ UNCHANGED <<lock, sock>>

(* The end of main(), once quit is set.                                    *)

\* Mutant: the lock goes first.
ExitUnlocks(s) ==
  /\ MainAt(s, "loop") /\ srv[s].quit
  /\ MainGoes(s, "join")
  /\ lock' = None
  /\ NoClient /\ UNCHANGED <<sock, srv, conn>>

Exit(s) ==
  /\ MainAt(s, "loop") /\ srv[s].quit
  /\ MainGoes(s, "join")
  /\ NoClient /\ UNCHANGED <<lock, sock, srv, conn>>

\* The idle thread has ended.  The socket file is to be removed if it is the
\* one this server has bound.
Join(s) ==
  /\ MainAt(s, "join") /\ idle[s].pc = "dead"
  /\ MainGoes(s, IF sock = s THEN "unlink" ELSE "close")
  /\ NoClient /\ UNCHANGED <<lock, sock, srv, conn>>

Unlink(s) ==
  /\ MainAt(s, "unlink") /\ MainGoes(s, "close")
  /\ sock' = None
  /\ NoClient /\ UNCHANGED <<lock, srv, conn>>

\* Connections not accepted yet are reset.
Close(s) ==
  /\ MainAt(s, "close") /\ MainGoes(s, "release")
  /\ srv' = [srv EXCEPT ![s].backlog = <<>>]
  /\ Drops(Elements(srv[s].backlog))
  /\ NoClient /\ UNCHANGED <<lock, sock>>

\* cooker.shutdown and post_serve, then the lock.
Release(s) ==
  /\ MainAt(s, "release") /\ MainGoes(s, "relock")
  /\ srv' = [srv EXCEPT ![s].cooker = "force"]
  /\ lock' = None
  /\ NoClient /\ UNCHANGED <<sock, conn>>

\* If the lock can be had the lock file is removed ...
Relock(s) ==
  /\ MainAt(s, "relock") /\ lock = None
  /\ lock' = s /\ MainGoes(s, "unlock")
  /\ NoClient /\ UNCHANGED <<sock, srv, conn>>

\* ... and the process ends; so it does if another has the lock, or if the
\* lock file is not in the current directory.
End(s) ==
  /\ pc[s] \in {"relock", "unlock"} /\ Gone(s)
  /\ UNCHANGED <<kills, clientVars>>

Main(s) ==
  \/ Bind(s) \/ Serve(s) \/ Accept(s) \/ Drain(s) \/ Control(s) \/ Command(s) \/ Hangup(s)
  \/ Acquire(s) \/ Refuse(s) \/ Register(s) \/ Exit(s) \/ Join(s) \/ Unlink(s) \/ Close(s)
  \/ Release(s) \/ Relock(s) \/ End(s)

-----------------------------------------------------------------------------
(* The idle thread of a server.                                            *)

IdleAt(s, place) == idle[s].pc = place
IdleGoes(s, place) == idle' = [idle EXCEPT ![s].pc = place]
NoMain == UNCHANGED <<plan, lock, sock, kills, pc, clientVars>>

Dies(s) ==
  /\ IdleAt(s, "copy") /\ srv[s].quit
  /\ IdleGoes(s, "dead")
  /\ NoMain /\ UNCHANGED <<srv, conn>>

\* A round copies the functions under the lock and calls them without it.
Calls(s, f) == IdleAt(s, "copy") /\ ~srv[s].quit /\ f \in srv[s].fns

\* idleFinish(message): the function is removed before the command ends.
Finishes(s, f, final) ==
  idle' = [idle EXCEPT ![s] = [pc |-> "remove", item |-> f, final |-> final]]

\* runAsyncCommand, up to the method of the command or the parsing.
RunAsync(s) ==
  /\ Calls(s, "run")
  /\ IF srv[s].cooker \in Stops \/ srv[s].cmd = None
     THEN Finishes(s, "run", TRUE) /\ UNCHANGED srv
     ELSE IF srv[s].cmd.kind = "build" /\ srv[s].cooker # "running"
     THEN IdleGoes(s, "parse") /\ UNCHANGED srv
     ELSE \/ Finishes(s, "run", TRUE) /\ UNCHANGED srv
          \/ /\ srv[s].cmd.kind = "build"
             /\ srv' = [srv EXCEPT ![s].fns = @ \cup {"build"}]
             /\ Finishes(s, "run", FALSE)
          \/ /\ srv[s].cmd.kind = "quick"
             /\ idle' = [idle EXCEPT ![s] = [pc |-> "fire", item |-> "run", final |-> TRUE]]
             /\ UNCHANGED srv
  /\ NoMain /\ UNCHANGED conn

\* updateCache, which has seen no shutdown: one more recipe.
Parse(s) ==
  /\ IdleAt(s, "parse") /\ IdleGoes(s, "parsing")
  /\ srv' = [srv EXCEPT ![s].cooker = "parsing"]
  /\ NoMain /\ UNCHANGED conn

ParseMore(s) ==
  /\ IdleAt(s, "parsing") /\ IdleGoes(s, "copy")
  /\ NoMain /\ UNCHANGED <<srv, conn>>

ParseEnds(s) ==
  /\ IdleAt(s, "parsing")
  /\ \/ Finishes(s, "run", TRUE) /\ UNCHANGED srv
     \/ IdleGoes(s, "copy") /\ srv' = [srv EXCEPT ![s].cooker = "running"]
  /\ NoMain /\ UNCHANGED conn

\* buildTargetsIdle: the run queue goes on until it is done or stopped, or
\* raises an exception that ends the server.
BuildEnds(s) ==
  /\ Calls(s, "build")
  /\ \/ Finishes(s, "build", TRUE) /\ UNCHANGED srv
     \/ /\ srv' = [srv EXCEPT ![s].fns = @ \ {"build"}, ![s].quit = TRUE]
        /\ UNCHANGED idle
  /\ NoMain /\ UNCHANGED conn

Remove(s) ==
  /\ IdleAt(s, "remove")
  /\ srv' = [srv EXCEPT ![s].fns = @ \ {idle[s].item}]
  /\ IF idle[s].final THEN IdleGoes(s, "fire")
     ELSE idle' = [idle EXCEPT ![s] = [NoThread EXCEPT !.pc = "copy"]]
  /\ NoMain /\ UNCHANGED conn

\* finishAsyncCommand: the final event, after those kept while there was no
\* interface; the state of the cooker; the command.
Fire(s) ==
  LET k == srv[s].control
      final == IF srv[s].cmd = None THEN None ELSE srv[s].cmd.by
  IN
  /\ IdleAt(s, "fire")
  /\ idle' = [idle EXCEPT ![s].pc = "finish", ![s].final = FALSE]
  /\ IF srv[s].ui
     THEN /\ srv' = [srv EXCEPT ![s].events = <<>>]
          /\ conn' = [conn EXCEPT ![k].finals =
                        IF conn[k].shut # {} THEN @
                        ELSE @ \o Append(srv[s].events, final)]
     ELSE srv' = [srv EXCEPT ![s].events = Append(@, final)] /\ UNCHANGED conn
  /\ NoMain

\* A command that ended in its method still has its function to remove.
Finish(s) ==
  /\ IdleAt(s, "finish")
  /\ srv' = [srv EXCEPT ![s].cooker = "initial", ![s].cmd = None]
  /\ IF idle[s].item \in srv[s].fns THEN IdleGoes(s, "remove")
     ELSE idle' = [idle EXCEPT ![s] = [NoThread EXCEPT !.pc = "copy"]]
  /\ NoMain /\ UNCHANGED conn

Idle(s) ==
  \/ Dies(s) \/ RunAsync(s) \/ Parse(s) \/ ParseMore(s) \/ ParseEnds(s) \/ BuildEnds(s)
  \/ Remove(s) \/ Fire(s) \/ Finish(s)

-----------------------------------------------------------------------------
Next ==
  \/ \E c \in Clients : Client(c) \/ Ask(c) \/ Stop(c) \/ Terminate(c) \/ ClientKilled(c)
  \/ \E s \in Slots : Main(s) \/ Timeout(s) \/ BootFails(s) \/ Killed(s) \/ Idle(s)

(* Processes and threads run, time passes: a timeout that is due is noticed*)
(* in some round; a parser comes to an end, and so does a run queue.       *)
Fairness ==
  /\ \A c \in Clients : WF_vars(Client(c))
  /\ \A s \in Slots : /\ WF_vars(Main(s)) /\ WF_vars(Timeout(s))
                       /\ WF_vars(Idle(s)) /\ SF_vars(ParseEnds(s))

Spec == Init /\ [][Next]_vars
FairSpec == Spec /\ Fairness

-----------------------------------------------------------------------------
(* Properties.                                                             *)

\* While a server runs its loop, the socket file of the build directory is
\* the one it has bound: no server that ends, however late it looks at the
\* file, takes away the socket of the next one (main() of server/process.py
\* unlinks it only while it holds bitbake.lock and the inode is its own).
SocketReaches ==
  \A s \in Slots : pc[s] \in Listening \ {"close"} => sock = s

\* An interface that has not asked for anything finds the server idle and the
\* cooker in its initial state, whatever the interface before it has left
\* running (disconnect_client waits for the idle loop and resets the cooker).
CleanStart ==
  \A s \in Slots :
    LET k == srv[s].control IN
    pc[s] = "loop" /\ srv[s].ui /\ conn[k].shut = {} /\ conn[k].accepted = 0
      => srv[s].fns = {} /\ srv[s].cooker = "initial"

\* An interface hears of the end of its own commands only.
EventsAreOwn ==
  \A k \in Conns : \A i \in DOMAIN conn[k].finals : conn[k].finals[i] = k

\* A connected interface gets exactly one final event for each asynchronous
\* command it was told is accepted: never two, and none is missing when the
\* idle thread has nothing left to do (registering a function, removing it
\* and clearing the command are separate steps of two threads).
AnsweredOnce ==
  \A s \in Slots :
    LET k == srv[s].control IN
    srv[s].ui /\ conn[k].shut = {}
      => /\ Len(conn[k].finals) <= conn[k].accepted
         /\ srv[s].fns = {} /\ idle[s].pc = "copy" /\ srv[s].pending = None /\ ~srv[s].quit
              => Len(conn[k].finals) = conn[k].accepted

\* Every client ends, with or without having been served, and so does every
\* server that has a timeout: nobody waits for a lock, a reply, an event or
\* a thread for ever.
EverybodyLeaves ==
  <>[](/\ \A c \in Clients : at[c] \in {"done", "gaveup"}
       /\ plan.timeout # "never" => \A s \in Slots : pc[s] = "off")
=============================================================================
