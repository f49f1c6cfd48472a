----------------------------- MODULE MCServices ------------------------------
(***************************************************************************)
(* Instances of the two services that builds share over lib/bb/asyncrpc:   *)
(* PRServ and HashServ.  They have no variable in common; each behaviour   *)
(* is one of either.                                                       *)
(***************************************************************************)
EXTENDS PRServ, HashServ, TLC

CONSTANT Subjects
VARIABLE subject

MCInit ==
  /\ subject \in Subjects /\ Init /\ HashInit
  /\ subject = "pr" => setting = CHOOSE s \in Settings : TRUE

MCNext ==
  \/ subject = "pr" /\ Next /\ UNCHANGED <<subject, hashVars>>
  \/ subject = "hash" /\ HashNext /\ UNCHANGED <<subject, vars>>

MCSpec == MCInit /\ [][MCNext]_<<subject, vars, hashVars>>

-----------------------------------------------------------------------------
(* The instance: two clients of either service.                            *)

CONSTANTS t1, t2, t3, o1, o2, up1

\* Upstream knows one task and its output.
OneKnown == [x \in {t1, t2, t3, o1, o2} |-> IF x \in {t1, o1} THEN up1 ELSE None]

Setting(upstream, ops, tasks, max) ==
  [upstream |-> upstream, ops |-> ops, tasks |-> tasks, max |-> max]
\* Reports of three tasks; each other operation together with reports.
AllSettings ==
  {Setting(FALSE, {"report"}, {t1, t2, t3}, 4),
   Setting(FALSE, {"get", "report", "equiv"}, {t1, t2}, 4),
   Setting(TRUE, {"get", "stream", "report", "equiv"}, {t1, t2}, 3),
   Setting(FALSE, {"report", "mark", "sweep"}, {t1, t2}, 4),
   Setting(FALSE, {"report", "remove", "clean"}, {t1, t2}, 3)}

\* Nothing is checked once a transaction was lost.
Whole == ~lost

Alike == Permutations(Clients) \cup Permutations(Builds) \cup Permutations(Checksums)
=============================================================================
