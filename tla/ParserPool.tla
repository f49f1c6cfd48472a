----------------------------- MODULE ParserPool -----------------------------
(***************************************************************************)
(* Parsing the recipes (Parser, CookerParser and updateCache of            *)
(* lib/bb/cooker.py).  Each parser process puts its results into a queue,  *)
(* whose feeder thread writes them to one pipe under a lock; a result may  *)
(* be larger than the pipe.  The idle thread of the server reads them, one *)
(* per round, while the main thread may be told to stop the cooker.  Either*)
(* shuts the pool down, after which the caches that the parsers saved      *)
(* (MultiProcessCache, lib/bb/cache.py) are merged.                        *)
(***************************************************************************)
EXTENDS Naturals, SequencesExt

CONSTANTS
  Parsers, Recipes, None,
  Plans,       \* one for each behaviour: [chunk : recipe to be parsed |-> parser,
               \* bad : recipes that can not be parsed, kills : parsers killed from
               \* outside, stop : whether a stop is asked for]
  Room         \* halves of results that the pipe holds

VARIABLES
  plan,     \* one of Plans
  jobs,     \* parser |-> recipes it has still to parse
  phase,    \* parser |-> where its main thread is
  signal,   \* parser |-> signal it was sent
  buffer,   \* parser |-> results its feeder has still to write
  wlock,    \* parser whose feeder has the lock of the pipe
  pipe,     \* halves <<n, result>>
  file,     \* parser |-> its file of cache entries: "none", "part", "whole"
  quit,     \* parser_quit
  recv,     \* thread that has read the first half of a result
  procs,    \* self.processes
  closed,   \* processes that were closed
  parsed,   \* recipes taken from the queue, in order
  empty,    \* parse_generator: the queue was found empty
  state,    \* of the cooker: "parsing", "stop" or "running"
  fails,    \* the command that needs the recipes is to fail
  down,     \* haveshutdown
  i, joined,\* place in the last loop of shutdown, and the process it is at
  at,       \* where the idle and the main thread are
  killed    \* parsers killed from outside

childVars == <<jobs, phase, signal, buffer, wlock, file, killed>>
poolVars == <<quit, procs, closed, down, i, joined>>
parseVars == <<plan, childVars, pipe, poolVars, recv, parsed, empty, state, fails, at>>

Threads == {"idle", "main"}
Result == Recipes \X BOOLEAN

TypeOK ==
  /\ plan \in Plans /\ jobs \in [Parsers -> SUBSET Recipes]
  /\ phase \in [Parsers -> {"parse", "flush", "save", "write", "dead"}]
  /\ signal \in [Parsers -> {"no", "int", "term"}]
  /\ buffer \in [Parsers -> Seq(Result)] /\ wlock \in Parsers \cup {None}
  /\ pipe \in Seq({1, 2} \X Result)
  /\ file \in [Parsers -> {"none", "part", "whole"}]
  /\ recv \in Threads \cup {None} /\ procs \in Seq(Parsers) /\ closed \subseteq Parsers
  /\ parsed \in Seq(Recipes) /\ state \in {"parsing", "stop", "running"}
  /\ i \in Nat /\ joined \in Parsers \cup {None}
  /\ {quit, empty, down, fails} \subseteq BOOLEAN /\ killed \in Nat

ToParse == DOMAIN plan.chunk

\* What is parsed is one of the recipes, and given to one of the parsers.
PlansAssumed ==
  /\ IsFiniteSet(Parsers) /\ IsFiniteSet(Recipes) /\ None \notin Parsers \cup Threads
  /\ \A x \in Plans : /\ x.chunk \in [DOMAIN x.chunk -> Parsers]
                      /\ DOMAIN x.chunk \subseteq Recipes /\ x.bad \subseteq DOMAIN x.chunk
                      /\ x.kills \in Nat

\* start(): no more parsers than recipes.
ParseInit ==
  /\ plan \in Plans
  /\ jobs = [p \in Parsers |-> {r \in ToParse : plan.chunk[r] = p}]
  /\ phase = [p \in Parsers |-> IF p \in Range(plan.chunk) THEN "parse" ELSE "dead"]
  /\ signal = [p \in Parsers |-> "no"]
  /\ buffer = [p \in Parsers |-> <<>>] /\ wlock = None /\ pipe = <<>>
  /\ file = [p \in Parsers |-> "none"]
  /\ quit = FALSE /\ recv = None /\ procs = SetToSeq(Range(plan.chunk))
  /\ closed = {}
  /\ parsed = <<>> /\ empty = FALSE /\ state = "parsing" /\ fails = FALSE /\ down = FALSE
  /\ i = 1 /\ joined = None
  /\ at = [idle |-> "round", main |-> "off"]
  /\ killed = 0

-----------------------------------------------------------------------------
(* A parser process                                                        *)

Cooker == UNCHANGED <<plan, poolVars, recv, parsed, empty, state, fails, at>>
Enters(p, place) == phase' = [phase EXCEPT ![p] = place]

\* The process ends; what its feeder has not written is lost.
Dead(p) ==
  /\ Enters(p, "dead")
  /\ jobs' = [jobs EXCEPT ![p] = {}] /\ buffer' = [buffer EXCEPT ![p] = <<>>]
  /\ signal' = [signal EXCEPT ![p] = "no"]

Puts(p, r, ok) ==
  /\ jobs' = [jobs EXCEPT ![p] = @ \ {r}]
  /\ buffer' = [buffer EXCEPT ![p] = Append(@, <<r, ok>>)]

Parse(p) ==
  /\ phase[p] = "parse" /\ ~quit
  /\ \E r \in jobs[p] : Puts(p, r, r \notin plan.bad)
  /\ Cooker /\ UNCHANGED <<phase, signal, wlock, pipe, file, killed>>

\* Mutant: the process does not wait for its feeder.
LeaveAtOnce(p) ==
  /\ phase[p] = "parse" /\ (quit \/ jobs[p] = {})
  /\ Enters(p, "save")
  /\ Cooker /\ UNCHANGED <<jobs, signal, buffer, wlock, pipe, file, killed>>

\* No more jobs, or parser_quit is set: results.close().
Leave(p) ==
  /\ phase[p] = "parse" /\ (quit \/ jobs[p] = {})
  /\ Enters(p, "flush")
  /\ Cooker /\ UNCHANGED <<jobs, signal, buffer, wlock, pipe, file, killed>>

\* results.join_thread()
Flushed(p) ==
  /\ phase[p] = "flush" /\ buffer[p] = <<>> /\ wlock # p
  /\ Enters(p, "save")
  /\ Cooker /\ UNCHANGED <<jobs, signal, buffer, wlock, pipe, file, killed>>

\* The finalizer: save_extras() writes a file of its own if there is something new.
Save(p) ==
  /\ phase[p] = "save"
  /\ \/ Dead(p) /\ UNCHANGED file
     \/ /\ Enters(p, "write") /\ file' = [file EXCEPT ![p] = "part"]
        /\ UNCHANGED <<jobs, buffer, signal>>
  /\ Cooker /\ UNCHANGED <<wlock, pipe, killed>>

Saved(p) ==
  /\ phase[p] = "write"
  /\ file' = [file EXCEPT ![p] = "whole"]
  /\ Dead(p)
  /\ Cooker /\ UNCHANGED <<wlock, pipe, killed>>

\* The feeder thread: the lock, and a result in two halves.
Feed(p) ==
  /\ phase[p] # "dead" /\ buffer[p] # <<>> /\ Len(pipe) < Room
  /\ \/ /\ wlock = None
        /\ wlock' = p /\ pipe' = Append(pipe, <<1, Head(buffer[p])>>)
        /\ UNCHANGED buffer
     \/ /\ wlock = p
        /\ wlock' = None /\ pipe' = Append(pipe, <<2, Head(buffer[p])>>)
        /\ buffer' = [buffer EXCEPT ![p] = Tail(@)]
  /\ Cooker /\ UNCHANGED <<jobs, phase, signal, file, killed>>

\* KeyboardInterrupt: a recipe being parsed becomes a failure, the wait for the
\* feeder and the finalizers are cut short.
Interrupted(p) ==
  /\ signal[p] = "int" /\ phase[p] # "dead"
  /\ signal' = [signal EXCEPT ![p] = "no"]
  /\ \/ /\ phase[p] = "parse" /\ Enters(p, "flush")
        /\ \/ \E r \in jobs[p] : Puts(p, r, FALSE)
           \/ UNCHANGED <<jobs, buffer>>
     \/ phase[p] = "flush" /\ Enters(p, "save") /\ UNCHANGED <<jobs, buffer>>
     \/ phase[p] \in {"save", "write"} /\ Dead(p)
  /\ Cooker /\ UNCHANGED <<wlock, pipe, file, killed>>

Terminated(p) ==
  /\ signal[p] = "term" /\ phase[p] # "dead"
  /\ Dead(p)
  /\ Cooker /\ UNCHANGED <<wlock, pipe, file, killed>>

Killed(p) ==
  /\ phase[p] # "dead" /\ killed < plan.kills
  /\ Dead(p) /\ killed' = killed + 1
  /\ Cooker /\ UNCHANGED <<wlock, pipe, file>>

Child(p) ==
  \/ Parse(p) \/ Leave(p) \/ Flushed(p) \/ Save(p) \/ Saved(p)
  \/ Interrupted(p) \/ Terminated(p)

-----------------------------------------------------------------------------
(* result_queue.get(timeout=0.25)                                          *)

NoChild == UNCHANGED <<plan, childVars>>
GoTo(t, place) == at' = [at EXCEPT ![t] = place]

\* Thread t finds something in the pipe, and will have the whole result,
Begins(t) ==
  /\ recv = None /\ pipe # <<>>
  /\ recv' = t /\ pipe' = Tail(pipe)

Ends(t) ==
  /\ recv = t /\ pipe # <<>>
  /\ recv' = None /\ pipe' = Tail(pipe)

\* or finds nothing, or the other thread at it.
FindsNone(t) ==
  /\ recv # t /\ (recv # None \/ pipe = <<>>)
  /\ UNCHANGED <<recv, pipe>>

-----------------------------------------------------------------------------
(* The list of processes                                                   *)

\* Those that are alive, in order.
Alive ==
  LET alive == {n \in DOMAIN procs : phase[procs[n]] # "dead"}
      Place(k) == CHOOSE n \in alive : Cardinality({m \in alive : m <= n}) = k
  IN  [k \in 1..Cardinality(alive) |-> procs[Place(k)]]

-----------------------------------------------------------------------------
(* The idle thread: runAsyncCommand, updateCache and parse_next            *)

\* A stop is looked for at the start of a round, and then forgotten.
Round ==
  /\ at.idle = "round"
  /\ IF state = "stop" THEN GoTo("idle", "check") /\ fails' = TRUE
     ELSE GoTo("idle", "next") /\ UNCHANGED fails
  /\ NoChild /\ UNCHANGED <<pipe, poolVars, recv, parsed, empty, state>>

AllParsed == Len(parsed) >= Cardinality(ToParse)

\* parse_generator(), up to the queue.  It ends when all recipes were read, or when no
\* process is left and nothing was found; a closed process is an exception.
NextResult ==
  LET over == procs = <<>> /\ empty
      raises == ~over /\ Range(procs) \cap closed # {}
  IN
  /\ at.idle = "next"
  /\ state' = "parsing"
  /\ procs' = IF over \/ raises THEN procs ELSE Alive
  /\ fails' = (raises \/ (over /\ ~AllParsed))
  /\ GoTo("idle", IF over \/ raises \/ AllParsed THEN "check" ELSE "get")
  /\ NoChild /\ UNCHANGED <<pipe, quit, closed, down, i, joined, recv, parsed, empty>>

BeginResult ==
  /\ at.idle = "get" /\ Begins("idle")
  /\ NoChild /\ UNCHANGED <<poolVars, parsed, empty, state, fails, at>>

EndResult ==
  /\ at.idle = "get" /\ Ends("idle")
  /\ empty' = FALSE
  /\ LET r == pipe[1][2] IN
       IF r[2] THEN parsed' = Append(parsed, r[1]) /\ GoTo("idle", "round") /\ UNCHANGED fails
       ELSE GoTo("idle", "check") /\ fails' = TRUE /\ UNCHANGED parsed
  /\ NoChild /\ UNCHANGED <<poolVars, state>>

NoResult ==
  /\ at.idle = "get" /\ FindsNone("idle")
  /\ empty' = TRUE
  /\ GoTo("idle", "round")
  /\ NoChild /\ UNCHANGED <<poolVars, parsed, state, fails>>

Idle == Round \/ NextResult \/ BeginResult \/ EndResult \/ NoResult

-----------------------------------------------------------------------------
(* CookerParser.shutdown() in thread t                                     *)

\* cooker.shutdown(), by a command that the main thread runs.
Stop ==
  /\ at.main = "off" /\ plan.stop
  /\ state' = "stop"
  /\ GoTo("main", "check")
  /\ NoChild /\ UNCHANGED <<pipe, poolVars, recv, parsed, empty, fails>>

\* The idle thread goes on in updateCache: the state is running, or an exception.
Over(t, failed) ==
  IF t = "main" THEN GoTo(t, "done") /\ UNCHANGED <<state, fails>>
  ELSE /\ GoTo(t, IF failed THEN "failed" ELSE "parsed")
       /\ fails' = failed
       /\ state' = IF failed THEN state ELSE "running"

Check(t) ==
  /\ at[t] = "check"
  /\ down' = TRUE
  /\ IF down THEN Over(t, fails) ELSE GoTo(t, "drain") /\ UNCHANGED <<state, fails>>
  /\ NoChild /\ UNCHANGED <<pipe, quit, procs, closed, i, joined, recv, parsed, empty>>

\* The queue is read until nothing comes for a while,
Drain(t) ==
  /\ at[t] = "drain" /\ (Begins(t) \/ Ends(t))
  /\ NoChild /\ UNCHANGED <<poolVars, parsed, empty, state, fails, at>>

\* and the parsers are told to leave;
Quit(t) ==
  /\ at[t] = "drain" /\ FindsNone(t)
  /\ quit' = TRUE
  /\ GoTo(t, "interrupt")
  /\ NoChild /\ UNCHANGED <<procs, closed, down, i, joined, parsed, empty, state, fails>>

Sends(sig) ==
  signal' = [p \in Parsers |-> IF p \in Range(procs) /\ phase[p] # "dead" THEN sig ELSE signal[p]]

\* after some time SIGINT, and after some more
Interrupt(t) ==
  /\ at[t] = "interrupt"
  /\ Sends("int")
  /\ GoTo(t, "terminate")
  /\ UNCHANGED <<plan, jobs, phase, buffer, wlock, file, killed, pipe, poolVars, recv,
                 parsed, empty, state, fails>>

\* Mutant: SIGINT is enough.
TerminateNobody(t) ==
  /\ at[t] = "terminate"
  /\ GoTo(t, "join")
  /\ NoChild /\ UNCHANGED <<pipe, poolVars, recv, parsed, empty, state, fails>>

\* SIGTERM.
Terminate(t) ==
  /\ at[t] = "terminate"
  /\ Sends("term")
  /\ GoTo(t, "join")
  /\ UNCHANGED <<plan, jobs, phase, buffer, wlock, file, killed, pipe, poolVars, recv,
                 parsed, empty, state, fails>>

\* Each process in the list, from which the idle thread may be removing some, is joined
\* and closed.
Join(t) ==
  /\ at[t] = "join"
  /\ \/ /\ joined = None /\ i <= Len(procs)
        /\ joined' = procs[i] /\ i' = i + 1
        /\ UNCHANGED <<closed, at>>
     \/ /\ joined # None /\ phase[joined] = "dead"
        /\ closed' = closed \cup {joined} /\ joined' = None
        /\ UNCHANGED <<i, at>>
     \/ /\ joined = None /\ i > Len(procs)
        /\ GoTo(t, "merge")
        /\ UNCHANGED <<i, closed, joined>>
  /\ NoChild /\ UNCHANGED <<pipe, quit, procs, down, recv, parsed, empty, state, fails>>

\* save_merge() waits until nobody writes.  A truncated file is an UnpicklingError, which
\* it does not expect; of the other files some were merged and removed before.
Merge(t) ==
  LET written(how) == {p \in Parsers : file[p] = how} IN
  /\ at[t] = "merge" /\ \A p \in Parsers : phase[p] # "write"
  /\ \E S \in IF written("part") = {} THEN {written("whole")} ELSE SUBSET written("whole") :
       file' = [p \in Parsers |-> IF p \in S THEN "none" ELSE file[p]]
  /\ Over(t, fails \/ written("part") # {})
  /\ UNCHANGED <<plan, jobs, phase, signal, buffer, wlock, killed, pipe, poolVars, recv,
                 parsed, empty>>

Shutdown(t) ==
  Check(t) \/ Drain(t) \/ Quit(t) \/ Interrupt(t) \/ Terminate(t) \/ Join(t) \/ Merge(t)

-----------------------------------------------------------------------------
ParseNext ==
  \/ \E p \in Parsers : Child(p) \/ Feed(p) \/ Killed(p)
  \/ Idle \/ Stop
  \/ \E t \in Threads : Shutdown(t)

\* All processes and threads run, and signals are delivered.
Fairness ==
  /\ \A p \in Parsers : WF_parseVars(Child(p)) /\ WF_parseVars(Feed(p))
  /\ WF_parseVars(Idle \/ Shutdown("idle")) /\ WF_parseVars(Shutdown("main"))

ParseSpec == ParseInit /\ [][ParseNext]_parseVars
FairSpec == ParseSpec /\ Fairness

-----------------------------------------------------------------------------
(* Properties                                                              *)

\* A parser was ended while it wrote its cache, or while its feeder had the lock.
Torn == \E p \in Parsers : phase[p] = "dead" /\ file[p] = "part"
Cut == wlock # None /\ phase[wlock] = "dead"

\* The command goes on only if every recipe was parsed, each read once; and it fails only
\* because of a recipe, a stop, a parser that was killed, or one that was ended while it
\* wrote its cache: a parser that ends by itself has delivered all of its results
\* (join_thread before exit, and one more look at the queue after the last process).
ParsingTellsTruth ==
  /\ at.idle = "parsed" =>
       plan.bad = {} /\ Len(parsed) = Cardinality(ToParse) /\ Range(parsed) = ToParse
  /\ at.idle = "failed" => plan.bad # {} \/ at.main # "off" \/ killed > 0 \/ Torn

\* Parsing and its shutdown end and leave no parser behind, whatever is left in the queue
\* and whichever thread does it; unless a parser ended while its feeder had the lock of
\* the pipe, and a thread waits for the rest of its result or the others for the lock
\* (after a shutdown they need not: they are interrupted or terminated).
ParsingEnds ==
  <>(\/ Cut /\ (recv # None \/ killed > 0)
     \/ /\ at.idle \in {"parsed", "failed"} /\ at.main \in {"off", "done"}
        /\ \A p \in Parsers : phase[p] = "dead")
=============================================================================
