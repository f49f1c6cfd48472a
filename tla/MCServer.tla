------------------------------ MODULE MCServer ------------------------------
(***************************************************************************)
(* An instance of ProcessServer: two clients of one build directory.       *)
(***************************************************************************)
EXTENDS ProcessServer, TLC

CONSTANTS c1, c2

Once == c1 :> 1 @@ c2 :> 1
OnceAndTwice == c1 :> 1 @@ c2 :> 2
TwiceAndOnce == c1 :> 2 @@ c2 :> 1
First == c1 :> 1 @@ c2 :> 0
FirstTwo == c1 :> 2 @@ c2 :> 0
Never == c1 :> 0 @@ c2 :> 0

SomePlans ==
  { \* the interface of c1 sends two commands in a row, and c2 queues up behind it
    [tries |-> Once, commands |-> FirstTwo, kills |-> 0, timeout |-> "none"],
    \* the server is killed, and another one started
    [tries |-> Once, commands |-> First, kills |-> 1, timeout |-> "none"],
    \* one server for the commands of both
    [tries |-> Once, commands |-> TwiceAndOnce, kills |-> 0, timeout |-> "never"],
    \* c2 tries again, behind a connection it has given up
    [tries |-> OnceAndTwice, commands |-> Never, kills |-> 0, timeout |-> "some"],
    [tries |-> OnceAndTwice, commands |-> Never, kills |-> 1, timeout |-> "never"] }
=============================================================================
