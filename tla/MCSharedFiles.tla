--------------------------- MODULE MCSharedFiles ---------------------------
(***************************************************************************)
(* Instances of what the processes of one host do to the files they share: *)
(* LockFile (lock files) and Fetch (a source file in DL_DIR, under a lock  *)
(* taken for granted).  They have no variable in common; each behaviour is *)
(* one of the two.                                                         *)
(***************************************************************************)
EXTENDS LockFile, Fetch

CONSTANT Subjects
VARIABLE subject

ASSUME DistinctValues == Distinct

MCInit ==
  /\ subject \in Subjects
  /\ Init
  /\ IF subject = "fetch" THEN FetchInit
     ELSE /\ file = NoFile /\ dir = NoFile /\ stamp = NoStamp /\ newer = FALSE
          /\ owner = Nobody /\ meddled = FALSE
          /\ want = [r \in Recipes |-> NoSum] /\ got = [r \in Recipes |-> NoFile]
          /\ at = [r \in Recipes |-> "idle"] /\ next = at
          /\ tried = [r \in Recipes |-> 0] /\ refused = [r \in Recipes |-> FALSE]

MCNext ==
  \/ subject = "lock" /\ Next /\ UNCHANGED <<subject, fetchVars>>
  \/ subject = "fetch" /\ FetchNext /\ UNCHANGED <<subject, vars>>

MCSpec ==
  /\ MCInit /\ [][MCNext]_<<subject, vars, fetchVars>>
  /\ \A h \in Handles : WF_vars(Running(h))

-----------------------------------------------------------------------------
(* Three processes and one lock file; two recipes that may agree or not    *)
(* about two versions of the source.                                       *)

SomeRequests ==
  {r \in RequestType : ~r.block /\ (r.retry \/ ~r.shared)}
SomeWants ==
  LET first == CHOOSE r \in Recipes : TRUE
      sum == CHOOSE c \in Contents : TRUE
  IN  {w \in [Recipes -> Contents \cup {NoSum}] : w[first] = sum}
TwoPremirrors == <<"file", "http">>
OneMirror == <<"http">>
=============================================================================
