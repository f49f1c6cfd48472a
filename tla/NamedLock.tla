----------------------------- MODULE NamedLock -----------------------------
(***************************************************************************)
(* What the lock files of BitBake promise to the code between lockfile()   *)
(* and unlockfile() (lib/bb/utils.py): a name is held by one process for   *)
(* itself or by several that share it.  How long a process waits, and the  *)
(* files behind the names, are not part of the promise.                    *)
(***************************************************************************)
CONSTANTS
  Procs,  \* processes that take locks
  Names   \* paths of lock files

VARIABLE held   \* [Names -> [Procs -> {"no", "shared", "own"}]]

Compatible(n, p, how) ==
  \A q \in Procs \ {p} : \/ held[n][q] = "no"
                         \/ held[n][q] = "shared" /\ how = "shared"

Init == held = [n \in Names |-> [p \in Procs |-> "no"]]

\* lockfile() returns the lock.
Acquire(p, n, how) ==
  /\ held[n][p] = "no"
  /\ Compatible(n, p, how)
  /\ held' = [held EXCEPT ![n][p] = how]

\* unlockfile() is called, or the process ends: it may drop several at once.
Release(p, S) ==
  held' = [n \in Names |-> [q \in Procs |->
             IF q = p /\ n \in S THEN "no" ELSE held[n][q]]]

Next ==
  \E p \in Procs :
    \/ \E n \in Names, how \in {"shared", "own"} : Acquire(p, n, how)
    \/ \E S \in SUBSET Names : Release(p, S)

Spec == Init /\ [][Next]_held
=============================================================================
