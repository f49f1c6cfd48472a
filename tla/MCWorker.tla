------------------------------ MODULE MCWorker ------------------------------
(***************************************************************************)
(* Instances of Worker: two tasks, each with an event that is larger than  *)
(* its pipe.  The bounds are in the .cfg files.                            *)
(***************************************************************************)
EXTENDS Worker
=============================================================================
