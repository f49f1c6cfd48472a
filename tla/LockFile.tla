------------------------------ MODULE LockFile ------------------------------
(***************************************************************************)
(* lockfile() and unlockfile() of lib/bb/utils.py.  A lock is a flock() on *)
(* a file that its last holder unlinks, so a process that waited may get   *)
(* the lock of a file that is no longer the one on disk; it compares inode *)
(* numbers and starts again.  Files are opened, locked, compared and       *)
(* unlinked in steps of their own; a process may be killed between any two *)
(* of them.                                                                *)
(***************************************************************************)
CONSTANTS
  Procs,     \* processes that take locks
  Names,     \* paths of lock files
  Inodes,    \* inode numbers; one is reused only when nobody has it open
  NoInode,
  Requests   \* arguments the callers pass to lockfile()

RequestType == [shared : BOOLEAN, retry : BOOLEAN, block : BOOLEAN]

ASSUME LockAssumption == NoInode \notin Inodes /\ Requests \subseteq RequestType

VARIABLES
  dentry,    \* path |-> inode on disk, or NoInode
  fd,        \* handle |-> inode it has open, or NoInode
  flk,       \* handle |-> flock() it holds on that inode
  req,       \* handle |-> arguments of lockfile()
  pc         \* handle |-> where its lockfile()/unlockfile() is

\* A handle is the file object lockfile() returns to a process for a path.
Handles == Procs \X Names
Path(h) == h[2]

Default == [shared |-> FALSE, retry |-> TRUE, block |-> FALSE]
Steps == {"out", "open", "flock", "check", "held", "promote", "unlink", "close"}

vars == <<dentry, fd, flk, req, pc>>

TypeOK ==
  /\ dentry \in [Names -> Inodes \cup {NoInode}]
  /\ fd \in [Handles -> Inodes \cup {NoInode}]
  /\ flk \in [Handles -> {"un", "sh", "ex"}]
  /\ req \in [Handles -> RequestType]
  /\ pc \in [Handles -> Steps]

Init ==
  /\ dentry = [n \in Names |-> NoInode]
  /\ fd = [h \in Handles |-> NoInode]
  /\ flk = [h \in Handles |-> "un"]
  /\ req = [h \in Handles |-> Default]
  /\ pc = [h \in Handles |-> "out"]

Mode(h) == IF req[h].shared THEN "sh" ELSE "ex"
NonBlocking(h) == ~req[h].retry /\ ~req[h].block

\* flock(): h gets its lock unless another file object of the inode has one that
\* excludes it.
Grantable(h, mode) ==
  \A g \in Handles \ {h} :
    fd[g] = fd[h] => flk[g] = "un" \/ (flk[g] = "sh" /\ mode = "sh")

Unused == {i \in Inodes : /\ \A n \in Names : dentry[n] # i
                          /\ \A h \in Handles : fd[h] # i}

Goto(h, step) == pc' = [pc EXCEPT ![h] = step]

\* The call of h is over; its arguments are forgotten.
Return(h) == Goto(h, "out") /\ req' = [req EXCEPT ![h] = Default]

\* The file object is closed, which drops its lock.
Close(h) ==
  /\ fd' = [fd EXCEPT ![h] = NoInode]
  /\ flk' = [flk EXCEPT ![h] = "un"]

-----------------------------------------------------------------------------
(* lockfile()                                                              *)

Call(h) ==
  /\ pc[h] = "out"
  /\ \E r \in Requests : req' = [req EXCEPT ![h] = r]
  /\ Goto(h, "open")
  /\ UNCHANGED <<dentry, fd, flk>>

\* open(name, 'a+'): the file is created if it is not there.
Opened(n) == IF dentry[n] # NoInode THEN dentry[n] ELSE CHOOSE u \in Unused : TRUE

Open(h) ==
  /\ pc[h] = "open"
  /\ dentry[Path(h)] # NoInode \/ Unused # {}
  /\ dentry' = [dentry EXCEPT ![Path(h)] = Opened(Path(h))]
  /\ fd' = [fd EXCEPT ![h] = Opened(Path(h))]
  /\ Goto(h, "flock")
  /\ UNCHANGED <<flk, req>>

\* Without LOCK_NB a process that can not have the lock waits in flock().
Flock(h) ==
  /\ pc[h] = "flock"
  /\ Grantable(h, Mode(h))
  /\ flk' = [flk EXCEPT ![h] = Mode(h)]
  /\ Goto(h, "check")
  /\ UNCHANGED <<dentry, fd, req>>

\* With it the attempt fails, and with it the call.
FlockRefused(h) ==
  /\ pc[h] = "flock"
  /\ NonBlocking(h)
  /\ ~Grantable(h, Mode(h))
  /\ Close(h)
  /\ Return(h)
  /\ UNCHANGED dentry

\* Mutant: any file of that name will do.
CheckExists(h) ==
  /\ pc[h] = "check"
  /\ dentry[Path(h)] # NoInode
  /\ Goto(h, "held")
  /\ UNCHANGED <<dentry, fd, flk, req>>

\* The file that was locked is still the one of that name on disk.
Check(h) ==
  /\ pc[h] = "check"
  /\ dentry[Path(h)] = fd[h]
  /\ Goto(h, "held")
  /\ UNCHANGED <<dentry, fd, flk, req>>

\* It is not: start again, or give up without retry.
Stale(h) ==
  /\ pc[h] = "check"
  /\ dentry[Path(h)] # fd[h]
  /\ Close(h)
  /\ IF req[h].retry THEN Goto(h, "open") /\ UNCHANGED req ELSE Return(h)
  /\ UNCHANGED dentry

-----------------------------------------------------------------------------
(* unlockfile()                                                            *)

Release(h) ==
  /\ pc[h] = "held"
  /\ Goto(h, "promote")
  /\ UNCHANGED <<dentry, fd, flk, req>>

\* flock(LOCK_EX | LOCK_NB): a shared lock becomes exclusive,
Promote(h) ==
  /\ pc[h] = "promote"
  /\ Grantable(h, "ex")
  /\ flk' = [flk EXCEPT ![h] = "ex"]
  /\ Goto(h, "unlink")
  /\ UNCHANGED <<dentry, fd, req>>

\* Mutant: the file is unlinked all the same.
PromoteIgnored(h) ==
  /\ pc[h] = "promote"
  /\ ~Grantable(h, "ex")
  /\ Goto(h, "unlink")
  /\ UNCHANGED <<dentry, fd, flk, req>>

\* or it can not, and is lost in the attempt; the file is left to the others.
PromoteRefused(h) ==
  /\ pc[h] = "promote"
  /\ ~Grantable(h, "ex")
  /\ flk' = [flk EXCEPT ![h] = "un"]
  /\ Goto(h, "close")
  /\ UNCHANGED <<dentry, fd, req>>

\* os.unlink takes the path, whatever file it now names.
Unlink(h) ==
  /\ pc[h] = "unlink"
  /\ dentry' = [dentry EXCEPT ![Path(h)] = NoInode]
  /\ Goto(h, "close")
  /\ UNCHANGED <<fd, flk, req>>

\* Mutant: the file object is forgotten, not unlocked and closed.
CloseForgotten(h) ==
  /\ pc[h] = "close"
  /\ Return(h)
  /\ UNCHANGED <<dentry, fd, flk>>

\* flock(LOCK_UN) and close().
CloseFile(h) ==
  /\ pc[h] = "close"
  /\ Close(h)
  /\ Return(h)
  /\ UNCHANGED dentry

\* A process is killed: the system closes what it had open and leaves the files.
Die(p) ==
  /\ \E n \in Names : pc[<<p, n>>] # "out"
  /\ fd' = [h \in Handles |-> IF h[1] = p THEN NoInode ELSE fd[h]]
  /\ flk' = [h \in Handles |-> IF h[1] = p THEN "un" ELSE flk[h]]
  /\ pc' = [h \in Handles |-> IF h[1] = p THEN "out" ELSE pc[h]]
  /\ req' = [h \in Handles |-> IF h[1] = p THEN Default ELSE req[h]]
  /\ UNCHANGED dentry

-----------------------------------------------------------------------------
Lock(h) == Call(h) \/ Open(h) \/ Flock(h) \/ FlockRefused(h) \/ Check(h) \/ Stale(h)
Unlock(h) == Release(h) \/ Promote(h) \/ PromoteRefused(h) \/ Unlink(h) \/ CloseFile(h)

Next ==
  \/ \E h \in Handles : Lock(h) \/ Unlock(h)
  \/ \E p \in Procs : Die(p)

Spec == Init /\ [][Next]_vars

\* A process that runs takes the next step of its call, and gives the lock back
\* some time; nobody has to ask for one.
Running(h) == (Lock(h) /\ ~Call(h)) \/ Unlock(h)

FairSpec == Spec /\ \A h \in Handles : WF_vars(Running(h))

-----------------------------------------------------------------------------
(* Properties                                                              *)

Holders(n) == {p \in Procs : pc[<<p, n>>] = "held"}

\* Between lockfile() and unlockfile() a process that did not ask for a shared lock
\* is alone, although the file behind the name comes and goes.
MutualExclusion ==
  \A n \in Names : \A p, q \in Holders(n) :
    p # q => req[<<p, n>>].shared /\ req[<<q, n>>].shared

\* The holder's lock is on the file of that name on disk: that is why nobody else
\* gets in, and why its unlink removes no file another process has locked.
Anchored(h) ==
  pc[h] \in {"held", "promote", "unlink"} =>
    fd[h] # NoInode /\ fd[h] = dentry[Path(h)]

\* What a step of a call has open and locked.
Filed(h) ==
  /\ pc[h] \in {"out", "open"} <=> fd[h] = NoInode
  /\ fd[h] = NoInode => flk[h] = "un"
  /\ pc[h] \in {"check", "held", "promote"} => flk[h] = Mode(h)
  /\ pc[h] = "unlink" => flk[h] = "ex"

\* Two names have two files, and an open inode is a file of one name,
OwnFile(n) == dentry[n] # NoInode => \A m \in Names : dentry[m] = dentry[n] => m = n

OneName(h) ==
  fd[h] # NoInode => /\ \A n \in Names : dentry[n] = fd[h] => n = Path(h)
                     /\ \A g \in Handles : fd[g] = fd[h] => Path(g) = Path(h)

\* and two locks on it are shared ones.
Apart(g, h) ==
  g # h /\ fd[g] = fd[h] =>
    flk[g] = "un" \/ flk[h] = "un" \/ (flk[g] = "sh" /\ flk[h] = "sh")

\* The inductive invariant behind MutualExclusion.
LockInv ==
  /\ TypeOK
  /\ \A n \in Names : OwnFile(n)
  /\ \A h \in Handles : Filed(h) /\ OneName(h) /\ Anchored(h)
  /\ \A g, h \in Handles : Apart(g, h)

\* Who has which lock.
Held == [n \in Names |-> [p \in Procs |->
          IF pc[<<p, n>>] # "held" THEN "no"
          ELSE IF req[<<p, n>>].shared THEN "shared" ELSE "own"]]

\* The lock files implement the lock: lockfile() gives what NamedLock!Acquire gives, and
\* only when it may, whatever else happens to the files.
Abs == INSTANCE NamedLock WITH held <- Held
ImplementsLock == Abs!Spec

\* A wait is never for nothing: unless processes go on being killed, whenever
\* somebody waits in lockfile() somebody gets the lock or the waiting ends; nobody is
\* left blocked on a file that no holder will ever unlock.
Waiting(n) == {p \in Procs : pc[<<p, n>>] \in {"open", "flock", "check"}}
SomebodyGetsIn ==
  <>[][\A p \in Procs : ~Die(p)]_vars =>
    \A n \in Names : Waiting(n) # {} ~> (Holders(n) # {} \/ Waiting(n) = {})
=============================================================================
