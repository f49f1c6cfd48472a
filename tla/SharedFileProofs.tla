------------------------- MODULE SharedFileProofs ---------------------------
(***************************************************************************)
(* The files that the processes of one host share.  The lock files of      *)
(* LockFile exclude, for every number of processes and paths, and          *)
(* implement the lock of NamedLock.  What Fetch leaves in DL_DIR is what   *)
(* its recipes ask for, for any number of recipes and of versions of the   *)
(* file, any lists of mirrors, and any fetch killed anywhere.              *)
(***************************************************************************)
EXTENDS LockFile, Fetch, TLAPS

-----------------------------------------------------------------------------
(* Lock files                                                              *)

LEMMA InitInv == Init => LockInv
  BY LockAssumption DEF Init, LockInv, TypeOK, OwnFile, Filed, OneName, Apart, Anchored,
      Default,
     RequestType, Steps, Handles, Path

LEMMA HandlePath == \A h \in Handles : Path(h) \in Names
  BY DEF Handles, Path

\* What open() finds or makes: the file of that name, or a file nobody has.
LEMMA OpenedFile ==
  ASSUME TypeOK, NEW n \in Names, dentry[n] # NoInode \/ Unused # {}
  PROVE  /\ Opened(n) \in Inodes
         /\ \/ dentry[n] # NoInode /\ Opened(n) = dentry[n]
            \/ /\ dentry[n] = NoInode
               /\ \A m \in Names : dentry[m] # Opened(n)
               /\ \A h \in Handles : fd[h] # Opened(n)
<1>1. CASE dentry[n] # NoInode
  BY <1>1 DEF Opened, TypeOK
<1>2. CASE dentry[n] = NoInode
  <2>1. (CHOOSE u \in Unused : TRUE) \in Unused
    BY <1>2
  <2>2. Opened(n) \in Unused
    BY <1>2, <2>1 DEF Opened
  <2> QED
    BY <1>2, <2>2 DEF Unused
<1> QED
  BY <1>1, <1>2

\* Every action preserves the types.
LEMMA TypeStep == TypeOK /\ [Next]_vars => TypeOK'
<1> SUFFICES ASSUME TypeOK, [Next]_vars PROVE TypeOK'
  OBVIOUS
<1> USE LockAssumption DEF TypeOK
<1>1. ASSUME NEW h \in Handles, Call(h) PROVE TypeOK'
  BY <1>1 DEF Call, Goto, Steps
<1>2. ASSUME NEW h \in Handles, Open(h) PROVE TypeOK'
  <2>1. Opened(Path(h)) \in Inodes
    BY <1>2, HandlePath, OpenedFile DEF Open
  <2> QED
    BY <1>2, HandlePath, <2>1 DEF Open, Goto, Steps
<1>3. ASSUME NEW h \in Handles, Flock(h) \/ Check(h) PROVE TypeOK'
  BY <1>3 DEF Flock, Check, Goto, Mode, Steps
<1>4. ASSUME NEW h \in Handles, FlockRefused(h) \/ Stale(h) \/ CloseFile(h)
      PROVE TypeOK'
  <2>1. Default \in RequestType
    BY DEF Default, RequestType
  <2>2. Close(h) /\ UNCHANGED dentry
    BY <1>4 DEF FlockRefused, Stale, CloseFile
  <2>3. (Goto(h, "open") /\ UNCHANGED req) \/ Return(h)
    BY <1>4 DEF FlockRefused, Stale, CloseFile
  <2>4. pc' \in [Handles -> Steps] /\ req' \in [Handles -> RequestType]
    BY <2>1, <2>3 DEF Return, Goto, Steps
  <2> QED
    BY <2>2, <2>4 DEF Close
<1>5. ASSUME NEW h \in Handles, Release(h) \/ Promote(h) \/ PromoteRefused(h)
      PROVE TypeOK'
  BY <1>5 DEF Release, Promote, PromoteRefused, Goto, Steps
<1>6. ASSUME NEW h \in Handles, Unlink(h) PROVE TypeOK'
  BY <1>6, HandlePath DEF Unlink, Goto, Steps
<1>7. ASSUME NEW p \in Procs, Die(p) PROVE TypeOK'
  BY <1>7 DEF Die, Default, RequestType, Steps
<1>8. CASE UNCHANGED vars
  BY <1>8 DEF vars
<1> QED
  BY <1>1, <1>2, <1>3, <1>4, <1>5, <1>6, <1>7, <1>8 DEF Next, Lock, Unlock

\* Every action preserves the invariant: what open() adds to an inode is unlocked, what
\* flock() adds is compatible with the rest, and unlink() is by somebody who holds the
\* inode alone.
LEMMA InvStep == LockInv /\ [Next]_vars => LockInv'
<1> SUFFICES ASSUME LockInv, [Next]_vars PROVE LockInv'
  OBVIOUS
<1>0. TypeOK' /\ TypeOK
  BY TypeStep DEF LockInv
<1> DEFINE Rest == /\ \A g \in Handles : Filed(g) /\ OneName(g) /\ Anchored(g)
                   /\ \A f, g \in Handles : Apart(f, g)
                   /\ \A n \in Names : OwnFile(n)
<1>inv. Rest
  BY DEF LockInv
<1> SUFFICES Rest'
  BY <1>0 DEF LockInv
<1> USE HandlePath, LockAssumption
<1>1. ASSUME NEW h \in Handles, Call(h) PROVE Rest'
  BY <1>0, <1>1, <1>inv DEF Call, Goto, TypeOK, OwnFile, Filed, OneName, Anchored, Apart,
      Mode
<1>2. ASSUME NEW h \in Handles, Open(h) PROVE Rest'
  <2> DEFINE i == Opened(Path(h))
  <2>1. /\ i \in Inodes
        /\ \/ dentry[Path(h)] # NoInode /\ i = dentry[Path(h)]
           \/ /\ dentry[Path(h)] = NoInode
              /\ \A m \in Names : dentry[m] # i
              /\ \A g \in Handles : fd[g] # i
    BY <1>2, <1>0, OpenedFile DEF Open
  <2>2. /\ dentry' = [dentry EXCEPT ![Path(h)] = i] /\ fd' = [fd EXCEPT ![h] = i]
        /\ pc[h] = "open" /\ pc' = [pc EXCEPT ![h] = "flock"] /\ flk' = flk /\ req' = req
    BY <1>2 DEF Open, Goto
  <2> HIDE DEF i
  <2>3. flk[h] = "un" /\ i # NoInode
    BY <2>1, <2>2, <1>inv, <1>0 DEF Filed, TypeOK
  <2>4. ASSUME NEW g \in Handles PROVE Filed(g)'
    BY <2>1, <2>2, <2>3, <2>4, <1>inv, <1>0 DEF Filed, TypeOK, Mode
  <2>5. ASSUME NEW g \in Handles PROVE OneName(g)'
    <3>1. OneName(g) /\ OneName(h)
      BY <1>inv
    <3>2. CASE dentry[Path(h)] # NoInode /\ i = dentry[Path(h)]
      <4>1. dentry' = dentry
        BY <2>2, <3>2, <1>0 DEF TypeOK
      <4>2. \A f \in Handles : fd[f] = i => Path(f) = Path(h)
        BY <3>2, <2>3, <1>inv DEF OneName
      <4>3. \A n \in Names : dentry[n] = i => n = Path(h)
        BY <3>2, <2>3, <1>inv, HandlePath DEF OwnFile
      <4> QED
        BY <4>1, <4>2, <4>3, <2>2, <2>3, <3>1, <1>0 DEF OneName, TypeOK
    <3>3. CASE dentry[Path(h)] = NoInode /\ (\A m \in Names : dentry[m] # i)
               /\ \A f \in Handles : fd[f] # i
      BY <3>1, <3>3, <2>1, <2>2, <2>3, <1>0 DEF OneName, TypeOK
    <3> QED
      BY <2>1, <3>2, <3>3
  <2>6. ASSUME NEW g \in Handles PROVE Anchored(g)'
    BY <2>1, <2>2, <2>3, <2>6, <1>inv, <1>0 DEF Anchored, TypeOK
  <2>7. ASSUME NEW f \in Handles, NEW g \in Handles PROVE Apart(f, g)'
    BY <2>1, <2>2, <2>3, <2>7, <1>inv, <1>0 DEF Apart, TypeOK
  <2>8. ASSUME NEW n \in Names PROVE OwnFile(n)'
    BY <2>1, <2>2, <2>3, <1>inv, <1>0 DEF OwnFile, TypeOK
  <2> QED
    BY <2>4, <2>5, <2>6, <2>7, <2>8
<1>3. ASSUME NEW h \in Handles, Flock(h) PROVE Rest'
  BY <1>0, <1>3, <1>inv
     DEF Flock, Grantable, Goto, TypeOK, OwnFile, Filed, OneName, Anchored, Apart, Mode
<1>4. ASSUME NEW h \in Handles, Check(h) PROVE Rest'
  BY <1>0, <1>4, <1>inv DEF Check, Goto, TypeOK, OwnFile, Filed, OneName, Anchored,
      Apart, Mode
<1>5. ASSUME NEW h \in Handles, FlockRefused(h) \/ Stale(h) \/ CloseFile(h) PROVE Rest'
  <2>1. Close(h) /\ UNCHANGED dentry
    BY <1>5 DEF FlockRefused, Stale, CloseFile
  <2>2. /\ \A g \in Handles : g # h => pc'[g] = pc[g] /\ req'[g] = req[g]
        /\ pc'[h] \in {"out", "open"}
    BY <1>5, <1>0 DEF FlockRefused, Stale, CloseFile, Return, Goto, TypeOK
  <2> QED
    BY <2>1, <2>2, <1>0, <1>inv DEF Close, TypeOK, OwnFile, Filed, OneName, Anchored,
        Apart, Mode
<1>6. ASSUME NEW h \in Handles, Release(h) PROVE Rest'
  BY <1>0, <1>6, <1>inv DEF Release, Goto, TypeOK, OwnFile, Filed, OneName, Anchored,
      Apart, Mode
<1>7. ASSUME NEW h \in Handles, Promote(h) PROVE Rest'
  BY <1>0, <1>7, <1>inv
     DEF Promote, Grantable, Goto, TypeOK, OwnFile, Filed, OneName, Anchored, Apart, Mode
<1>8. ASSUME NEW h \in Handles, PromoteRefused(h) PROVE Rest'
  BY <1>0, <1>8, <1>inv
     DEF PromoteRefused, Goto, TypeOK, OwnFile, Filed, OneName, Anchored, Apart, Mode
<1>9. ASSUME NEW h \in Handles, Unlink(h) PROVE Rest'
  <2>1. ASSUME NEW g \in Handles, g # h, pc[g] \in {"held", "promote", "unlink"}
        PROVE  Path(g) # Path(h)
    BY <1>9, <2>1, <1>inv DEF Unlink, Anchored, Apart, Filed, Mode
  <2>2. ASSUME NEW g \in Handles PROVE Anchored(g)'
    BY <1>9, <2>1, <2>2, <1>0, <1>inv DEF Unlink, Anchored, Goto, TypeOK
  <2> QED
    BY <2>2, <1>9, <1>0, <1>inv DEF Unlink, Goto, TypeOK, OwnFile, Filed, OneName, Apart,
        Mode
<1>10. ASSUME NEW p \in Procs, Die(p) PROVE Rest'
  BY <1>0, <1>10, <1>inv DEF Die, TypeOK, OwnFile, Filed, OneName, Anchored, Apart, Mode,
      Default
<1>11. CASE UNCHANGED vars
  BY <1>11, <1>inv DEF vars, OwnFile, Filed, OneName, Anchored, Apart, Mode
<1> QED
  BY <1>1, <1>2, <1>3, <1>4, <1>5, <1>6, <1>7, <1>8, <1>9, <1>10, <1>11
     DEF Next, Lock, Unlock

\* What two holders of one name have is a lock on one inode.
LEMMA InvExcludes == LockInv => MutualExclusion
<1> SUFFICES ASSUME LockInv, NEW n \in Names, NEW p \in Holders(n), NEW q \in Holders(n),
                    p # q
             PROVE  req[<<p, n>>].shared /\ req[<<q, n>>].shared
  BY DEF MutualExclusion
<1> DEFINE g == <<p, n>>
           h == <<q, n>>
<1>1. /\ g \in Handles /\ h \in Handles /\ g # h /\ Path(g) = n /\ Path(h) = n
      /\ pc[g] = "held" /\ pc[h] = "held"
  BY DEF Holders, Handles, Path
<1> HIDE DEF g, h
<1>2. Apart(g, h) /\ fd[g] = fd[h] /\ flk[g] = Mode(g) /\ flk[h] = Mode(h)
  BY <1>1 DEF LockInv, Anchored, Filed
<1>3. req[g].shared /\ req[h].shared
  BY <1>1, <1>2 DEF Apart, Mode
<1> QED
  BY <1>3 DEF g, h

\* The lock files keep their invariant,
THEOREM LockInvariant == Spec => []LockInv
  BY InitInv, InvStep, PTL DEF Spec

\* and so nobody shares a lock that was asked for as one's own.
THEOREM LocksExclude == Spec => []MutualExclusion
  BY LockInvariant, InvExcludes, PTL

-----------------------------------------------------------------------------
(* The refinement: a lock is acquired when the check of the inode passes.  *)

\* A step that changes nothing of who holds what is a stutter of the lock.
LEMMA AbsStutter ==
  ASSUME \A n \in Names, p \in Procs :
           /\ pc'[<<p, n>>] = "held" <=> pc[<<p, n>>] = "held"
           /\ pc[<<p, n>>] = "held" => req'[<<p, n>>] = req[<<p, n>>]
  PROVE  UNCHANGED Held
  BY DEF Held

LEMMA ExceptTwice ==
  ASSUME NEW f, NEW S, NEW T, NEW n \in S, NEW p \in T, NEW v,
         f = [m \in S |-> [q \in T |-> f[m][q]]]
  PROVE  [f EXCEPT ![n][p] = v]
           = [m \in S |-> [q \in T |-> IF m = n /\ q = p THEN v ELSE f[m][q]]]
<1> DEFINE g == [f[n] EXCEPT ![p] = v]
<1>1. f \in [S -> [T -> UNION {{f[m][q] : q \in T} : m \in S}]]
  <2>1. ASSUME NEW m \in S
        PROVE  [q \in T |-> f[m][q]] \in [T -> UNION {{f[k][q] : q \in T} : k \in S}]
    OBVIOUS
  <2> QED
    BY <2>1
<1>2. DOMAIN f = S /\ DOMAIN f[n] = T
  BY <1>1
<1>3. g = [q \in T |-> IF q = p THEN v ELSE f[n][q]]
  BY <1>1, <1>2
<1>4. [f EXCEPT ![n][p] = v] = [m \in S |-> IF m = n THEN g ELSE f[m]]
  BY <1>2
<1> QED
  BY <1>3, <1>4

LEMMA AbsAcquire ==
  ASSUME LockInv, LockInv', NEW h \in Handles, Check(h)
  PROVE  Abs!Next
<1> DEFINE p == h[1]
           n == h[2]
           how == IF req[h].shared THEN "shared" ELSE "own"
<1>1. p \in Procs /\ n \in Names /\ h = <<p, n>> /\ how \in {"shared", "own"}
  BY DEF Handles
<1>2. /\ pc[h] = "check" /\ pc' = [pc EXCEPT ![h] = "held"] /\ req' = req
      /\ pc \in [Handles -> Steps]
  BY DEF Check, Goto, LockInv, TypeOK
<1>3. Held[n][p] = "no"
  BY <1>1, <1>2 DEF Held
<1>4. ASSUME NEW q \in Procs \ {p}
      PROVE  Held[n][q] = "no" \/ (Held[n][q] = "shared" /\ how = "shared")
  <2>1. CASE pc[<<q, n>>] # "held"
    BY <2>1, <1>1 DEF Held
  <2>2. CASE pc[<<q, n>>] = "held"
    <3>1. pc'[<<q, n>>] = "held" /\ pc'[<<p, n>>] = "held"
      BY <2>2, <1>1, <1>2 DEF Handles
    <3>2. MutualExclusion'
      BY InvExcludes, PTL
    <3>3. req'[<<p, n>>].shared /\ req'[<<q, n>>].shared
      BY <3>1, <3>2, <1>1 DEF MutualExclusion, Holders
    <3> QED
      BY <3>3, <2>2, <1>1, <1>2 DEF Held
  <2> QED
    BY <2>1, <2>2
<1>5. Held' = [Held EXCEPT ![n][p] = how]
  <2>1. ASSUME NEW m \in Names, NEW q \in Procs
        PROVE  Held'[m][q] = IF m = n /\ q = p THEN how ELSE Held[m][q]
    BY <1>1, <1>2 DEF Held, Handles
  <2>2. /\ Held = [m \in Names |-> [q \in Procs |-> Held[m][q]]]
        /\ Held' = [m \in Names |-> [q \in Procs |-> Held'[m][q]]]
    BY DEF Held
  <2> HIDE DEF p, n, how
  <2>3. Held' = [m \in Names |-> [q \in Procs |->
                  IF m = n /\ q = p THEN how ELSE Held[m][q]]]
    BY <2>1, <2>2
  <2>4. [Held EXCEPT ![n][p] = how] = [m \in Names |-> [q \in Procs |->
                  IF m = n /\ q = p THEN how ELSE Held[m][q]]]
    BY <2>2, <1>1, ExceptTwice
  <2> QED
    BY <2>3, <2>4
<1>6. Abs!Acquire(p, n, how)
  BY <1>3, <1>4, <1>5 DEF Abs!Acquire, Abs!Compatible, Held
<1> QED
  BY <1>1, <1>6 DEF Abs!Next

LEMMA AbsRelease ==
  ASSUME LockInv, NEW h \in Handles, Release(h)
  PROVE  Abs!Next
<1> DEFINE p == h[1]
           n == h[2]
<1>1. p \in Procs /\ n \in Names /\ h = <<p, n>>
  BY DEF Handles
<1>2. /\ pc[h] = "held" /\ pc' = [pc EXCEPT ![h] = "promote"] /\ req' = req
      /\ pc \in [Handles -> Steps]
  BY DEF Release, Goto, LockInv, TypeOK
<1>3. Held' = [m \in Names |-> [q \in Procs |->
                 IF q = p /\ m \in {n} THEN "no" ELSE Held[m][q]]]
  BY <1>1, <1>2 DEF Held, Handles
<1>4. Abs!Release(p, {n})
  BY <1>3 DEF Abs!Release, Held
<1> QED
  BY <1>1, <1>4 DEF Abs!Next

LEMMA AbsDie ==
  ASSUME NEW p \in Procs, Die(p)
  PROVE  Abs!Next
<1>1. Held' = [m \in Names |-> [q \in Procs |->
                 IF q = p /\ m \in Names THEN "no" ELSE Held[m][q]]]
  BY DEF Die, Held, Handles
<1>2. Abs!Release(p, Names)
  BY <1>1 DEF Abs!Release, Held
<1> QED
  BY <1>2 DEF Abs!Next

\* Every other step leaves the locks as they are.
LEMMA AbsOthers ==
  ASSUME LockInv, NEW h \in Handles,
         \/ Call(h) \/ Open(h) \/ Flock(h) \/ FlockRefused(h) \/ Stale(h)
         \/ Promote(h) \/ PromoteRefused(h) \/ Unlink(h) \/ CloseFile(h)
  PROVE  UNCHANGED Held
<1>1. pc \in [Handles -> Steps] /\ req \in [Handles -> RequestType] /\ pc[h] # "held"
  BY DEF LockInv, TypeOK, Call, Open, Flock, FlockRefused, Stale, Promote, PromoteRefused,
     Unlink, CloseFile
<1>2. pc'[h] # "held" /\ \A g \in Handles : g # h => pc'[g] = pc[g] /\ req'[g] = req[g]
  BY <1>1 DEF Call, Open, Flock, FlockRefused, Stale, Promote, PromoteRefused, Unlink,
     CloseFile, Return, Goto
<1>3. ASSUME NEW n \in Names, NEW p \in Procs
      PROVE  /\ pc'[<<p, n>>] = "held" <=> pc[<<p, n>>] = "held"
             /\ pc[<<p, n>>] = "held" => req'[<<p, n>>] = req[<<p, n>>]
  BY <1>1, <1>2 DEF Handles
<1> QED
  BY <1>3, AbsStutter

\* The lock files implement the lock of NamedLock.
THEOREM LocksImplement == Spec => ImplementsLock
<1>1. Init => Abs!Init
  BY DEF Init, Abs!Init, Held, Handles
<1>2. LockInv /\ LockInv' /\ [Next]_vars => [Abs!Next]_Held
  <2> SUFFICES ASSUME LockInv, LockInv', [Next]_vars PROVE Abs!Next \/ UNCHANGED Held
    OBVIOUS
  <2>1. ASSUME NEW h \in Handles, Lock(h) \/ Unlock(h)
        PROVE  Abs!Next \/ UNCHANGED Held
    BY <2>1, AbsAcquire, AbsRelease, AbsOthers DEF Lock, Unlock
  <2>2. ASSUME NEW p \in Procs, Die(p) PROVE Abs!Next
    BY <2>2, AbsDie
  <2>3. CASE UNCHANGED vars
    BY <2>3, AbsStutter DEF vars
  <2> QED
    BY <2>1, <2>2, <2>3 DEF Next
<1> QED
  BY <1>1, <1>2, LockInvariant, PTL DEF Spec, ImplementsLock, Abs!Spec

-----------------------------------------------------------------------------
(* A source file in DL_DIR                                                 *)

(* The file is there and is what the recipe asks for; so says its stamp.   *)
Right(r) == Content # NoFile /\ Matches(r, Content)
RightStamped(r) == Right(r) /\ stamp = Content

(* Where a file may arrive without a stamp of its own. *)
Writing == {"premirror", "link", "spoil", "upstream", "stamp", "mirror"}

\* What holds where the recipe with the lock is.
PlaceOK(r) ==
  /\ at[r] \in Writing => stamp = NoStamp
  /\ at[r] = "link" => Content # NoFile
  /\ at[r] = "early" => Content # NoFile /\ (stamp = NoStamp \/ RightStamped(r))
  /\ at[r] = "again" => RightStamped(r)
  /\ at[r] = "stamp" => Right(r)
  /\ at[r] = "final"
         => Content # NoFile /\ ((stamp = NoStamp /\ refused[r]) \/ RightStamped(r))
  /\ at[r] = "store" => Right(r) /\ next[r] \in {"again", "early", "final", "fetched"}
  /\ at[r] = "drop" => /\ file = NoFile
                       /\ next[r] \in {"premirror", "spoil", "upstream", "failed", "idle"}
                       /\ next[r] = "failed" => refused[r]
  /\ at[r] = "fetched" => Right(r)
  /\ at[r] \in {"mirror", "failed"} => refused[r]

Shapes ==
  /\ at = [r \in Recipes |-> at[r]]
  /\ next = [r \in Recipes |-> next[r]]
  /\ refused = [r \in Recipes |-> refused[r]]
  /\ got = [r \in Recipes |-> got[r]]

Locked == \A r \in Recipes : at[r] \notin Outside => owner = r

FetchInv ==
  /\ Shapes /\ Locked /\ StampTellsTruth
  /\ \A r \in Recipes : owner = r => PlaceOK(r)

-----------------------------------------------------------------------------
LEMMA Begins == Distinct /\ FetchInit => FetchInv
  BY DEF Distinct, FetchInit, FetchInv, Shapes, Locked, Outside, StampTellsTruth,
      Precomputed

\* The recipe with the lock moves; it alone is looked at.
LEMMA HolderMoves ==
  ASSUME Distinct, FetchInv, NEW r \in Recipes, owner = r, NEW place, GoTo(r, place),
         \/ owner' = r /\ PlaceOK(r)'
         \/ owner' = Nobody /\ place \in Outside,
         next' = next \/ \E x : next' = [next EXCEPT ![r] = x],
         refused' = refused \/ \E x : refused' = [refused EXCEPT ![r] = x],
         UNCHANGED got, StampTellsTruth'
  PROVE  FetchInv'
<1>1. Shapes'
  BY DEF FetchInv, Shapes, GoTo
<1>2. \A q \in Recipes : at'[q] = IF q = r THEN place ELSE at[q]
  BY DEF FetchInv, Shapes, GoTo
<1>3. Locked'
  BY <1>2 DEF Locked, FetchInv, Outside
<1>4. \A q \in Recipes : owner' = q => PlaceOK(q)'
  BY DEF Distinct
<1> QED
  BY <1>1, <1>3, <1>4 DEF FetchInv

\* Opening the stamp, and renaming a bad file, before the second write.
LEMMA Opens ==
  ASSUME Distinct, FetchInv, NEW r \in Recipes, owner = r,
         NEW then \in {"again", "early", "final", "fetched"}, OpenStamp(r, then),
             Right(r),
         UNCHANGED <<dir, owner, want, refused, got>>
  PROVE  FetchInv'
<1>1. StampTellsTruth'
  BY DEF Distinct, OpenStamp, StampTellsTruth, Precomputed
<1>2. at'[r] = "store" /\ next'[r] = then
  BY DEF OpenStamp, GoTo, FetchInv, Shapes
<1>3. PlaceOK(r)'
  BY <1>2 DEF OpenStamp, PlaceOK, Writing, Right, Matches, Content
<1> QED
  BY <1>1, <1>3, HolderMoves DEF OpenStamp

LEMMA Renames ==
  ASSUME Distinct, FetchInv, NEW r \in Recipes, owner = r,
         NEW then \in {"premirror", "spoil", "upstream", "failed"}, RenameBad(r, then),
         then = "failed" => refused[r],
         UNCHANGED <<dir, owner, want, refused, got>>
  PROVE  FetchInv'
<1>1. StampTellsTruth'
  BY DEF Distinct, RenameBad, StampTellsTruth, Content
<1>2. at'[r] = "drop" /\ next'[r] = then
  BY DEF RenameBad, GoTo, FetchInv, Shapes
<1>3. PlaceOK(r)'
  BY <1>2 DEF RenameBad, PlaceOK, Writing
<1> QED
  BY <1>1, <1>3, HolderMoves DEF RenameBad

\* The holder goes on and leaves the file and the stamp as they are.
LEMMA Goes ==
  ASSUME Distinct, FetchInv, NEW r \in Recipes, owner = r, NEW place, GoTo(r, place),
         PlaceOK(r)', UNCHANGED <<file, dir, stamp, newer, owner, next, got>>,
         refused' = refused \/ \E x : refused' = [refused EXCEPT ![r] = x]
  PROVE  FetchInv'
  BY HolderMoves DEF FetchInv, StampTellsTruth, Precomputed, Content

-----------------------------------------------------------------------------
(* The steps of a fetch.                                                   *)

LEMMA LookStep ==
  ASSUME Distinct, FetchInv, NEW r \in Recipes, owner = r, Look(r)
  PROVE  FetchInv'
<1>1. UNCHANGED <<dir, owner, want, refused, got>>
  BY DEF Look
<1>2. CASE Content = NoFile /\ stamp' = NoStamp /\ GoTo(r, "premirror")
          /\ UNCHANGED <<file, next>>
  <2>1. StampTellsTruth'
    BY <1>2, <1>1 DEF Distinct, StampTellsTruth, Precomputed
  <2>2. at'[r] = "premirror"
    BY <1>2 DEF GoTo, FetchInv, Shapes
  <2>3. PlaceOK(r)'
    BY <1>2, <2>2 DEF PlaceOK, Writing
  <2> QED
    BY <1>1, <1>2, <2>1, <2>3, HolderMoves
<1>3. CASE /\ Content # NoFile /\ Matches(r, Known) /\ Precomputed
           /\ GoTo(r, "again") /\ UNCHANGED <<file, stamp, newer, next>>
  <2>1. at'[r] = "again"
    BY <1>3 DEF GoTo, FetchInv, Shapes
  <2>2. RightStamped(r)
    BY <1>3 DEF FetchInv, StampTellsTruth, RightStamped, Right, Known
  <2>3. PlaceOK(r)'
    BY <1>1, <1>3, <2>1, <2>2 DEF PlaceOK, Writing, RightStamped, Right, Matches, Content
  <2> QED
    BY <1>1, <1>3, <2>3, Goes
<1>4. CASE Content # NoFile /\ Matches(r, Known) /\ ~Precomputed /\ OpenStamp(r, "again")
  BY <1>1, <1>4, Opens DEF Right, Known
<1>5. CASE RenameBad(r, "premirror")
  BY <1>1, <1>5, Renames
<1> QED
  BY <1>2, <1>3, <1>4, <1>5 DEF Look, VerifyDonestamp

LEMMA AgainStep ==
  ASSUME Distinct, FetchInv, NEW r \in Recipes, owner = r, Again(r)
  PROVE  FetchInv'
<1>1. UNCHANGED <<dir, owner, want, refused, got>>
  BY DEF Again
<1>2. RightStamped(r)
  BY DEF Again, FetchInv, PlaceOK
<1>3. Content # NoFile /\ Matches(r, Known)
  BY <1>2 DEF RightStamped, Right, Known
<1>4. CASE GoTo(r, "final") /\ UNCHANGED <<file, stamp, newer, next>>
  <2>1. at'[r] = "final"
    BY <1>4 DEF GoTo, FetchInv, Shapes
  <2>2. PlaceOK(r)'
    BY <1>1, <1>2, <1>4, <2>1 DEF PlaceOK, Writing, RightStamped, Right, Matches, Content
  <2> QED
    BY <1>1, <1>4, <2>2, Goes
<1>5. CASE OpenStamp(r, "final")
  BY <1>1, <1>2, <1>5, Opens DEF RightStamped
<1> QED
  BY <1>3, <1>4, <1>5 DEF Again, VerifyDonestamp

\* update_stamp() where the stamp that is there is right, if there is one.
LEMMA Updates ==
  ASSUME Distinct, FetchInv, NEW r \in Recipes, owner = r,
         NEW yes \in {"again", "early", "final", "fetched"},
         NEW no \in {"spoil", "upstream", "mirror", "failed"},
         UpdateStamp(r, yes, no), Content # NoFile,
         stamp = NoStamp \/ RightStamped(r),
         no = "mirror" => Right(r),
         no = "failed" => refused[r] \/ Right(r),
         UNCHANGED <<dir, owner, want, refused, got>>
  PROVE  FetchInv'
<1>1. CASE stamp # NoStamp /\ GoTo(r, yes) /\ UNCHANGED <<file, stamp, next>>
  <2>1. RightStamped(r)
    BY <1>1
  <2>2. StampTellsTruth'
    BY <1>1, <2>1 DEF StampTellsTruth, RightStamped, Content
  <2>3. at'[r] = yes
    BY <1>1 DEF GoTo, FetchInv, Shapes
  <2>4. PlaceOK(r)'
    BY <1>1, <2>1, <2>3 DEF PlaceOK, Writing, RightStamped, Right, Matches, Content
  <2> QED
    BY <1>1, <2>2, <2>4, HolderMoves
<1>2. CASE stamp = NoStamp /\ Matches(r, Content) /\ OpenStamp(r, yes)
  BY <1>2, Opens DEF Right
<1>3. CASE stamp = NoStamp /\ ~Matches(r, Content) /\ RenameBad(r, no)
  <2>1. no # "mirror" /\ (no = "failed" => refused[r])
    BY <1>3 DEF Right
  <2> QED
    BY <1>3, <2>1, Renames
<1> QED
  BY <1>1, <1>2, <1>3 DEF UpdateStamp

LEMMA StampSteps ==
  ASSUME Distinct, FetchInv, NEW r \in Recipes, owner = r,
         LinkStamp(r) \/ Early(r) \/ Stamped(r) \/ Finish(r)
  PROVE  FetchInv'
<1> USE DEF FetchInv, PlaceOK, Writing
<1>1. CASE LinkStamp(r)
  BY <1>1, Updates DEF LinkStamp
<1>2. CASE Early(r)
  BY <1>2, Updates DEF Early
<1>3. CASE Stamped(r)
  BY <1>3, Updates DEF Stamped, Right
<1>4. CASE Finish(r)
  BY <1>4, Updates DEF Finish, RightStamped
<1> QED
  BY <1>1, <1>2, <1>3, <1>4

\* The second writes.
LEMMA SecondSteps ==
  ASSUME Distinct, FetchInv, NEW r \in Recipes, owner = r, Drop(r) \/ Store(r)
  PROVE  FetchInv'
<1>1. CASE Drop(r)
  <2>1. StampTellsTruth'
    BY <1>1 DEF Drop, Distinct, StampTellsTruth, Precomputed
  <2>2. at'[r] = next[r]
            /\ next[r] \in {"premirror", "spoil", "upstream", "failed", "idle"}
    BY <1>1 DEF Drop, GoTo, FetchInv, Shapes, PlaceOK
  <2>3. PlaceOK(r)'
    BY <1>1, <2>2 DEF Drop, FetchInv, PlaceOK, Writing
  <2> QED
    BY <1>1, <2>1, <2>3, HolderMoves DEF Drop
<1>2. CASE Store(r)
  <2>1. StampTellsTruth'
    BY <1>2 DEF Store, StampTellsTruth, Content
  <2>2. at'[r] = next[r] /\ next[r] \in {"again", "early", "final", "fetched"} /\ Right(r)
    BY <1>2 DEF Store, GoTo, FetchInv, Shapes, PlaceOK
  <2>3. PlaceOK(r)'
    BY <1>2, <2>2 DEF Store, PlaceOK, Writing, RightStamped, Right, Matches, Content
  <2> QED
    BY <1>2, <2>1, <2>3, HolderMoves DEF Store
<1> QED
  BY <1>1, <1>2

\* Where the holder changes the files itself, there is no stamp.
LEMMA Writes ==
  ASSUME Distinct, FetchInv, NEW r \in Recipes, owner = r, at[r] \in Writing,
         NEW place, GoTo(r, place), PlaceOK(r)',
         UNCHANGED <<stamp, owner, next, got>>,
         refused' = refused \/ \E x : refused' = [refused EXCEPT ![r] = x]
  PROVE  FetchInv'
<1>1. stamp = NoStamp
  BY DEF FetchInv, PlaceOK
<1>2. StampTellsTruth'
  BY <1>1 DEF Distinct, StampTellsTruth, Precomputed
<1> QED
  BY <1>2, HolderMoves

LEMMA WriteSteps ==
  ASSUME Distinct, FetchInv, NEW r \in Recipes, owner = r,
         \/ MirrorSends(r) \/ MirrorLinks(r) \/ Spoil(r) \/ UpstreamSends(r)
         \/ UpstreamFails(r) \/ NoPremirror(r) \/ NoMirror(r)
  PROVE  FetchInv'
<1>1. at[r] \in Writing /\ stamp = NoStamp
  BY DEF MirrorSends, MirrorLinks, Trying, Spoil, UpstreamSends, UpstreamFails,
      NoPremirror,
         NoMirror, Writing, FetchInv, PlaceOK
<1>2. UNCHANGED <<stamp, owner, next, want, got>>
  BY DEF MirrorSends, MirrorLinks, Spoil, UpstreamSends, UpstreamFails, NoPremirror,
      NoMirror
<1>3. ASSUME NEW place, GoTo(r, place) PROVE at'[r] = place
  BY <1>3 DEF GoTo, FetchInv, Shapes
<1>4. CASE MirrorSends(r)
  <2>1. Content' # NoFile /\ UNCHANGED refused
    BY <1>4 DEF MirrorSends, NewFile, Distinct, Content
  <2>2. CASE at[r] = "premirror"
    <3>1. GoTo(r, "early")
      BY <1>4, <2>2 DEF MirrorSends, Hit
    <3>2. PlaceOK(r)'
      BY <1>1, <1>2, <1>3, <2>1, <3>1 DEF PlaceOK, Writing
    <3> QED
      BY <1>1, <1>2, <2>1, <3>1, <3>2, Writes
  <2>3. CASE at[r] = "mirror"
    <3>1. GoTo(r, "final")
      BY <1>4, <2>3 DEF MirrorSends, Hit
    <3>2. PlaceOK(r)'
      BY <1>1, <1>2, <1>3, <2>1, <2>3, <3>1 DEF FetchInv, PlaceOK, Writing
    <3> QED
      BY <1>1, <1>2, <2>1, <3>1, <3>2, Writes
  <2> QED
    BY <1>4, <2>2, <2>3 DEF MirrorSends, Trying
<1>5. CASE MirrorLinks(r)
  <2>1. GoTo(r, "link") /\ Content' # NoFile /\ UNCHANGED refused
    BY <1>5 DEF MirrorLinks, NewFile, Content
  <2>2. PlaceOK(r)'
    BY <1>1, <1>2, <1>3, <2>1 DEF PlaceOK, Writing
  <2> QED
    BY <1>1, <1>2, <2>1, <2>2, Writes
<1>6. CASE Spoil(r)
  <2>1. UNCHANGED refused /\ (GoTo(r, "premirror") \/ (refused[r] /\ GoTo(r, "mirror")))
    BY <1>6 DEF Spoil
  <2>2. PlaceOK(r)'
    BY <1>1, <1>2, <1>3, <2>1 DEF PlaceOK, Writing
  <2> QED
    BY <1>1, <1>2, <2>1, <2>2, Writes
<1>7. CASE UpstreamSends(r)
  <2>1. GoTo(r, "stamp") /\ UNCHANGED refused
    BY <1>7 DEF UpstreamSends
  <2>2. Right(r)'
    BY <1>2, <1>7 DEF UpstreamSends, NewFile, Distinct, Right, Matches, Content
  <2>3. PlaceOK(r)'
    BY <1>1, <1>2, <1>3, <2>1, <2>2 DEF PlaceOK, Writing, Right, Matches, Content
  <2> QED
    BY <1>1, <1>2, <2>1, <2>3, Writes
<1>8. CASE UpstreamFails(r)
  <2>1. GoTo(r, "mirror") /\ refused' = [refused EXCEPT ![r] = TRUE]
    BY <1>8 DEF UpstreamFails
  <2>2. refused'[r]
    BY <2>1 DEF FetchInv, Shapes
  <2>3. PlaceOK(r)'
    BY <1>1, <1>2, <1>3, <2>1, <2>2 DEF PlaceOK, Writing
  <2> QED
    BY <1>1, <1>2, <2>1, <2>3, Writes
<1>9. CASE NoPremirror(r)
  <2>1. GoTo(r, "upstream") /\ UNCHANGED refused
    BY <1>9 DEF NoPremirror
  <2>2. PlaceOK(r)'
    BY <1>1, <1>2, <1>3, <2>1 DEF PlaceOK, Writing
  <2> QED
    BY <1>1, <1>2, <2>1, <2>2, Writes
<1>10. CASE NoMirror(r)
  <2>1. GoTo(r, "failed") /\ UNCHANGED refused /\ refused[r]
    BY <1>10 DEF NoMirror, FetchInv, PlaceOK
  <2>2. PlaceOK(r)'
    BY <1>1, <1>2, <1>3, <2>1 DEF PlaceOK, Writing
  <2> QED
    BY <1>1, <1>2, <2>1, <2>2, Writes
<1> QED
  BY <1>4, <1>5, <1>6, <1>7, <1>8, <1>9, <1>10

LEMMA MirrorFailsStep ==
  ASSUME Distinct, FetchInv, NEW r \in Recipes, owner = r, MirrorFails(r)
  PROVE  FetchInv'
<1>1. UNCHANGED <<dir, stamp, newer, owner, want, at, next, refused, got>>
  BY DEF MirrorFails
<1>2. at[r] \in {"premirror", "mirror"} /\ stamp = NoStamp
  BY DEF MirrorFails, Trying, FetchInv, PlaceOK, Writing
<1>3. StampTellsTruth'
  BY <1>1, <1>2 DEF Distinct, StampTellsTruth, Precomputed
<1>4. PlaceOK(r)'
  BY <1>1, <1>2 DEF FetchInv, PlaceOK, Writing
<1>5. Shapes' /\ Locked' /\ \A q \in Recipes : owner' = q => q = r
  BY <1>1 DEF FetchInv, Shapes, Locked
<1> QED
  BY <1>3, <1>4, <1>5 DEF FetchInv

-----------------------------------------------------------------------------
(* Starts, ends and the rest of the world.                                 *)

LEMMA Enters ==
  ASSUME Distinct, FetchInv, NEW r \in Recipes, Start(r) \/ Clean(r)
  PROVE  FetchInv'
<1>1. owner = Nobody /\ owner' = r
  BY DEF Start, Clean
<1>2. PICK place \in {"verify", "drop"} : GoTo(r, place)
  BY DEF Start, Clean
<1>3. Shapes'
  BY DEF Start, Clean, FetchInv, Shapes, GoTo
<1>4. \A q \in Recipes : at'[q] = IF q = r THEN place ELSE at[q]
  BY <1>2 DEF FetchInv, Shapes, GoTo
<1>5. Locked'
  BY <1>1, <1>4 DEF Distinct, FetchInv, Locked
<1>6. StampTellsTruth'
  BY DEF Start, Clean, Distinct, FetchInv, StampTellsTruth, Precomputed, Content
<1>7. PlaceOK(r)'
  <2>1. CASE Start(r)
    <3>1. at'[r] = "verify"
      BY <2>1 DEF Start, GoTo, FetchInv, Shapes
    <3> QED
      BY <3>1 DEF PlaceOK, Writing
  <2>2. CASE Clean(r)
    <3>1. at'[r] = "drop" /\ next'[r] = "idle" /\ file' = NoFile
      BY <2>2 DEF Clean, GoTo, FetchInv, Shapes
    <3> QED
      BY <3>1 DEF PlaceOK, Writing
  <2> QED
    BY <2>1, <2>2
<1> QED
  BY <1>1, <1>3, <1>5, <1>6, <1>7 DEF FetchInv

LEMMA Leaves ==
  ASSUME Distinct, FetchInv, NEW r \in Recipes, UnlockFile(r) \/ Killed(r) \/ Unpack(r)
  PROVE  FetchInv'
<1>1. owner' = Nobody /\ (owner = r \/ owner = Nobody)
          /\ UNCHANGED <<file, dir, stamp, newer>>
  BY DEF UnlockFile, Killed, Unpack
<1>2. StampTellsTruth'
  BY <1>1 DEF FetchInv, StampTellsTruth, Precomputed, Content
<1>3. Shapes'
  BY DEF UnlockFile, Killed, Unpack, FetchInv, Shapes, GoTo
<1>4. at'[r] \in Outside /\ \A q \in Recipes \ {r} : at'[q] = at[q]
  BY DEF UnlockFile, Killed, Unpack, FetchInv, Shapes, GoTo, Outside
<1>5. \A q \in Recipes : at'[q] \in Outside
  BY <1>1, <1>4 DEF Distinct, FetchInv, Locked
<1> QED
  BY <1>1, <1>2, <1>3, <1>5 DEF Distinct, FetchInv, Locked

LEMMA OthersStep ==
  ASSUME Distinct, FetchInv, DirChanges \/ UNCHANGED fetchVars
  PROVE  FetchInv'
<1>1. CASE DirChanges
  <2>1. owner = Nobody /\ UNCHANGED <<stamp, owner, at, next, refused, got>>
    BY <1>1 DEF DirChanges
  <2>2. StampTellsTruth'
    BY <1>1 DEF DirChanges, FetchInv, StampTellsTruth, Precomputed, Content
  <2> QED
    BY <2>1, <2>2 DEF Distinct, FetchInv, Shapes, Locked
<1>2. CASE UNCHANGED fetchVars
  BY <1>2 DEF fetchVars, FetchInv, Shapes, Locked, StampTellsTruth, Precomputed, Content,
              PlaceOK, RightStamped, Right, Matches
<1> QED
  BY <1>1, <1>2

\* A step of a fetch is one of the recipe that has the lock.
LEMMA HolderSteps ==
  ASSUME FetchInv, NEW r \in Recipes, Fetching(r)
  PROVE  owner = r
<1>1. at[r] \notin Outside \/ owner = r
  BY DEF Fetching, Look, Drop, Store, MirrorSends, MirrorFails, MirrorLinks, LinkStamp,
      Spoil,
         Early, Again, NoPremirror, UpstreamSends, UpstreamFails, Stamped, NoMirror,
             Finish,
         UnlockFile, Trying, Outside
<1> QED
  BY <1>1 DEF FetchInv, Locked

LEMMA Kept ==
  ASSUME Distinct, FetchInv, [FetchNext]_fetchVars
  PROVE  FetchInv'
<1>1. ASSUME NEW r \in Recipes, Fetching(r) PROVE FetchInv'
  BY <1>1, HolderSteps, LookStep, AgainStep, StampSteps, SecondSteps, WriteSteps,
     MirrorFailsStep, Leaves DEF Fetching
<1> QED
  BY <1>1, Enters, Leaves, OthersStep DEF FetchNext

LEMMA FetchAlways ==
  ASSUME Distinct
  PROVE  FetchSpec => []FetchInv
<1>1. FetchInit => FetchInv
  BY Begins
<1>2. FetchInv /\ [FetchNext]_fetchVars => FetchInv'
  BY Kept
<1> QED
  BY <1>1, <1>2, PTL DEF FetchSpec

\* A done stamp that is newer than its file has the file's checksums, whatever was
\* fetched, renamed, cleaned or left behind by a killed fetch (verify_donestamp).
THEOREM StampsTellTruth ==
  ASSUME Distinct
  PROVE  FetchSpec => []StampTellsTruth
<1>1. FetchInv => StampTellsTruth
  BY DEF FetchInv
<1> QED
  BY <1>1, FetchAlways, PTL

\* download() returns without an error only with the file that the recipe asked for.
THEOREM FetchesDeliver ==
  ASSUME Distinct
  PROVE  FetchSpec => []Delivers
<1>1. FetchInv => Delivers
  BY DEF FetchInv, Delivers, PlaceOK, Right
<1> QED
  BY <1>1, FetchAlways, PTL

\* download() fails only where upstream has refused, whatever the mirrors sent.
THEOREM FetchesFailForAReason ==
  ASSUME Distinct
  PROVE  FetchSpec => []FailsForAReason
<1>1. FetchInv => FailsForAReason
  BY DEF FetchInv, FailsForAReason, PlaceOK
<1> QED
  BY <1>1, FetchAlways, PTL

-----------------------------------------------------------------------------
(* do_unpack.  Once a recipe has the file that all of them ask for, those  *)
(* that fetch it again find it right and write nothing but the stamp.      *)

Gentle == Outside \cup {"verify", "again", "final"}
GentleAt(q) == at[q] \in Gentle \/ (at[q] = "store" /\ next[q] \in Gentle)

UnpackInv == Agreed /\ ~meddled => \A r \in Recipes :
  /\ at[r] = "fetched" => Right(r) /\ \A q \in Recipes : GentleAt(q)
  /\ at[r] = "unpacked" => got[r] = want[r]

LEMMA UnpackInit == FetchInit => UnpackInv
  BY DEF FetchInit, UnpackInv

\* Where one has the file fetched and all agree, it is right for every recipe, and the
\* sums in the stamp do not say otherwise.
LEMMA AllRight ==
  ASSUME FetchInv, UnpackInv, Agreed, ~meddled,
         NEW q \in Recipes, at[q] = "fetched", NEW r \in Recipes
  PROVE  Right(r) /\ Matches(r, Known) /\ GentleAt(r)
<1>1. Right(q) /\ GentleAt(r)
  BY DEF UnpackInv
<1>2. Right(r)
  BY <1>1 DEF Right, Matches, Agreed
<1>3. Known = Content
  BY <1>2 DEF Right, Known, FetchInv, StampTellsTruth
<1> QED
  BY <1>1, <1>2, <1>3 DEF Right

\* A recipe moves elsewhere; where one has the file fetched, the file stays and the move
\* is a gentle one.
LEMMA UnpackKept ==
  ASSUME FetchInv, UnpackInv, NEW r \in Recipes, UNCHANGED <<want, meddled>>,
         NEW place, place \notin {"fetched", "unpacked"}, GoTo(r, place),
         next' = next \/ \E x : next' = [next EXCEPT ![r] = x],
         got' = got \/ \E x : got' = [got EXCEPT ![r] = x],
         (\E q \in Recipes : at[q] = "fetched") /\ Agreed /\ ~meddled =>
           Content' = Content /\ GentleAt(r)'
  PROVE  UnpackInv'
<1> SUFFICES ASSUME Agreed, ~meddled
             PROVE  \A q \in Recipes :
                      /\ at'[q] = "fetched"
                             => Right(q)' /\ \A p \in Recipes : GentleAt(p)'
                      /\ at'[q] = "unpacked" => got'[q] = want'[q]
  BY DEF UnpackInv, Agreed
<1>1. \A q \in Recipes \ {r} : at'[q] = at[q] /\ next'[q] = next[q] /\ got'[q] = got[q]
  BY DEF FetchInv, Shapes, GoTo
<1>2. at'[r] = place
  BY DEF FetchInv, Shapes, GoTo
<1>3. ASSUME NEW q \in Recipes, at'[q] = "fetched"
      PROVE  Right(q)' /\ \A p \in Recipes : GentleAt(p)'
  <2>1. at[q] = "fetched" /\ Right(q) /\ \A p \in Recipes : GentleAt(p)
    BY <1>1, <1>2, <1>3 DEF UnpackInv
  <2>2. Content' = Content /\ GentleAt(r)'
    BY <2>1
  <2>3. Right(q)'
    BY <2>1, <2>2 DEF Right, Matches
  <2>4. \A p \in Recipes \ {r} : GentleAt(p)'
    BY <1>1, <2>1 DEF GentleAt
  <2> QED
    BY <2>2, <2>3, <2>4
<1>4. \A q \in Recipes : at'[q] = "unpacked" => got'[q] = want'[q]
  BY <1>1, <1>2 DEF UnpackInv
<1> QED
  BY <1>3, <1>4

\* The one with the lock has the file fetched: it is right for all, and all others are
\* outside.
LEMMA UnpackFetched ==
  ASSUME Distinct, FetchInv, FetchInv', UnpackInv, NEW r \in Recipes, owner = r,
      owner' = r,
         GoTo(r, "fetched"), UNCHANGED <<want, meddled, got>>
  PROVE  UnpackInv'
<1> SUFFICES ASSUME Agreed, ~meddled
             PROVE  \A q \in Recipes :
                      /\ at'[q] = "fetched"
                             => Right(q)' /\ \A p \in Recipes : GentleAt(p)'
                      /\ at'[q] = "unpacked" => got'[q] = want'[q]
  BY DEF UnpackInv, Agreed
<1>1. at'[r] = "fetched" /\ \A q \in Recipes \ {r} : at'[q] = at[q]
  BY DEF FetchInv, Shapes, GoTo
<1>2. Right(r)'
  BY <1>1 DEF FetchInv, PlaceOK
<1>3. \A q \in Recipes : Right(q)'
  BY <1>2 DEF Right, Matches, Agreed
<1>4. \A q \in Recipes : at'[q] \in Outside
  BY <1>1 DEF FetchInv, Locked, Outside
<1>5. \A p \in Recipes : GentleAt(p)'
  BY <1>4 DEF GentleAt, Gentle
<1>6. \A q \in Recipes : at'[q] = "unpacked" => got'[q] = want'[q]
  BY <1>1 DEF UnpackInv
<1> QED
  BY <1>3, <1>5, <1>6

-----------------------------------------------------------------------------
\* Steps from places where nobody has the file fetched, and renames of a bad file.
LEMMA UnpackFetching ==
  ASSUME Distinct, FetchInv, UnpackInv, NEW r \in Recipes,
         \/ Drop(r) \/ MirrorSends(r) \/ MirrorLinks(r) \/ LinkStamp(r) \/ Spoil(r)
         \/ Early(r) \/ NoPremirror(r) \/ UpstreamSends(r) \/ UpstreamFails(r)
         \/ Stamped(r) \/ NoMirror(r)
  PROVE  UnpackInv'
<1>1. at[r] \in {"drop", "premirror", "mirror", "link", "spoil", "early", "upstream", "stamp"}
  BY DEF Drop, MirrorSends, MirrorLinks, Trying, LinkStamp, Spoil, Early, NoPremirror,
         UpstreamSends, UpstreamFails, Stamped, NoMirror
<1>2. ~GentleAt(r)
  BY <1>1 DEF GentleAt, Gentle, Outside
<1>3. ~ \E q \in Recipes : Agreed /\ ~meddled /\ at[q] = "fetched"
  BY <1>2 DEF UnpackInv
<1>4. UNCHANGED <<want, meddled, got>>
  BY DEF Drop, MirrorSends, MirrorLinks, LinkStamp, Spoil, Early, NoPremirror,
         UpstreamSends, UpstreamFails, Stamped, NoMirror
<1>5. ASSUME NEW yes, NEW no, UpdateStamp(r, yes, no)
      PROVE  /\ GoTo(r, yes) \/ GoTo(r, "store") \/ GoTo(r, "drop")
             /\ next' = next \/ \E x : next' = [next EXCEPT ![r] = x]
  BY <1>5 DEF UpdateStamp, OpenStamp, RenameBad
<1>6. CASE LinkStamp(r) \/ Early(r) \/ Stamped(r)
  <2>1. PICK place \in {"early", "again", "final", "store", "drop"} : GoTo(r, place)
    BY <1>5, <1>6 DEF LinkStamp, Early, Stamped
  <2>2. next' = next \/ \E x : next' = [next EXCEPT ![r] = x]
    BY <1>5, <1>6 DEF LinkStamp, Early, Stamped
  <2> QED
    BY <1>3, <1>4, <2>1, <2>2, UnpackKept
<1>7. CASE Drop(r)
  <2>1. next[r] \notin {"fetched", "unpacked"} /\ GoTo(r, next[r]) /\ next' = next
    BY <1>7, HolderSteps DEF Fetching, Drop, FetchInv, PlaceOK
  <2> QED
    BY <1>3, <1>4, <2>1, UnpackKept
<1>8. CASE \/ MirrorSends(r) \/ MirrorLinks(r) \/ Spoil(r) \/ NoPremirror(r)
           \/ UpstreamSends(r) \/ UpstreamFails(r) \/ NoMirror(r)
  <2>1. PICK place \in {"early", "final", "link", "mirror", "premirror", "upstream", "stamp",
                        "failed"} : GoTo(r, place)
    BY <1>8 DEF MirrorSends, Hit, MirrorLinks, Spoil, NoPremirror, UpstreamSends,
                UpstreamFails, NoMirror
  <2>2. next' = next
    BY <1>8 DEF MirrorSends, MirrorLinks, Spoil, NoPremirror, UpstreamSends,
        UpstreamFails,
                NoMirror
  <2> QED
    BY <1>3, <1>4, <2>1, <2>2, UnpackKept
<1> QED
  BY <1>6, <1>7, <1>8

\* Steps that find the file as it should be.
LEMMA UnpackLooks ==
  ASSUME Distinct, FetchInv, FetchInv', UnpackInv, NEW r \in Recipes, owner = r,
         Look(r) \/ Again(r) \/ Finish(r) \/ Store(r)
  PROVE  UnpackInv'
<1> DEFINE Shared == (\E q \in Recipes : at[q] = "fetched") /\ Agreed /\ ~meddled
<1>1. UNCHANGED <<dir, want, meddled, got, owner>>
  BY DEF Look, Again, Finish, Store
<1>2. Shared => Right(r) /\ Matches(r, Known) /\ GentleAt(r)
  BY AllRight
<1>3. next' = next \/ \E x : next' = [next EXCEPT ![r] = x]
  BY DEF Look, Again, Finish, Store, VerifyDonestamp, UpdateStamp, OpenStamp, RenameBad
<1>4. ASSUME NEW then \in {"again", "final", "fetched"}, OpenStamp(r, then)
      PROVE  UnpackInv'
  <2>1. GoTo(r, "store") /\ next' = [next EXCEPT ![r] = then] /\ Content' = Content
    BY <1>1, <1>4 DEF OpenStamp, Content
  <2>2. at'[r] = "store" /\ next'[r] = then
    BY <2>1 DEF FetchInv, Shapes, GoTo
  <2>3. GentleAt(r)'
    BY <2>2 DEF GentleAt, Gentle, Outside
  <2> QED
    BY <1>1, <2>1, <2>3, UnpackKept
<1>5. ASSUME NEW place \in {"again", "final"}, GoTo(r, place), UNCHANGED file
      PROVE  UnpackInv'
  <2>1. at'[r] = place /\ Content' = Content
    BY <1>1, <1>5 DEF FetchInv, Shapes, GoTo, Content
  <2>2. GentleAt(r)'
    BY <2>1 DEF GentleAt, Gentle
  <2> QED
    BY <1>1, <1>3, <1>5, <2>1, <2>2, UnpackKept
<1>6. ASSUME ~Shared, NEW place, place \notin {"fetched", "unpacked"}, GoTo(r, place)
      PROVE  UnpackInv'
  BY <1>1, <1>3, <1>6, UnpackKept
<1>7. CASE Look(r)
  <2>1. CASE Shared
    BY <1>2, <1>4, <1>5, <1>7, <2>1 DEF Look, VerifyDonestamp, Right
  <2>2. CASE ~Shared
    BY <1>6, <1>7, <2>2 DEF Look, VerifyDonestamp, OpenStamp, RenameBad
  <2> QED
    BY <2>1, <2>2
<1>8. CASE Again(r)
  <2>1. RightStamped(r)
    BY <1>8 DEF Again, FetchInv, PlaceOK
  <2>2. Content # NoFile /\ Matches(r, Known)
    BY <2>1 DEF RightStamped, Right, Known
  <2> QED
    BY <1>4, <1>5, <1>8, <2>2 DEF Again, VerifyDonestamp
<1>9. CASE Finish(r)
  <2>1. Content # NoFile
    BY <1>9 DEF Finish, FetchInv, PlaceOK
  <2>2. CASE GoTo(r, "fetched")
    BY <1>1, <2>2, UnpackFetched
  <2>3. CASE OpenStamp(r, "fetched")
    BY <1>4, <2>3
  <2>4. CASE RenameBad(r, "failed") /\ ~Matches(r, Content)
    BY <1>2, <1>6, <2>4 DEF RenameBad, Right
  <2> QED
    BY <1>9, <2>1, <2>2, <2>3, <2>4 DEF Finish, UpdateStamp
<1>10. CASE Store(r)
  <2>1. /\ GoTo(r, next[r]) /\ next[r] \in {"again", "early", "final", "fetched"}
        /\ UNCHANGED file
    BY <1>10 DEF Store, FetchInv, PlaceOK
  <2>2. CASE next[r] = "fetched"
    BY <1>1, <2>1, <2>2, UnpackFetched
  <2>3. CASE next[r] \in {"again", "final"}
    BY <1>5, <2>1, <2>3
  <2>4. CASE next[r] = "early"
    <3>1. ~GentleAt(r)
      BY <1>10, <2>4 DEF Store, GentleAt, Gentle, Outside
    <3> QED
      BY <1>2, <1>6, <2>1, <2>4, <3>1
  <2> QED
    BY <2>1, <2>2, <2>3, <2>4
<1> QED
  BY <1>7, <1>8, <1>9, <1>10

LEMMA UnpackOthers ==
  ASSUME Distinct, FetchInv, UnpackInv, NEW r \in Recipes,
         \/ Start(r) \/ MirrorFails(r) \/ UnlockFile(r) \/ Killed(r) \/ Unpack(r) \/ Clean(r)
  PROVE  UnpackInv'
<1>1. CASE Start(r)
  <2>1. at'[r] = "verify"
    BY <1>1 DEF Start, GoTo, FetchInv, Shapes
  <2>2. GentleAt(r)'
    BY <2>1 DEF GentleAt, Gentle
  <2> QED
    BY <1>1, <2>2, UnpackKept DEF Start, Content
<1>2. CASE Killed(r)
  <2>1. at'[r] = "idle"
    BY <1>2 DEF Killed, GoTo, FetchInv, Shapes
  <2>2. GentleAt(r)'
    BY <2>1 DEF GentleAt, Gentle, Outside
  <2> QED
    BY <1>2, <2>2, UnpackKept DEF Killed, Content
<1>3. CASE MirrorFails(r)
  <2>1. at[r] \in {"premirror", "mirror"} /\ UNCHANGED <<at, next, want, got, meddled>>
    BY <1>3 DEF MirrorFails, Trying
  <2>2. ~GentleAt(r)
    BY <2>1 DEF GentleAt, Gentle, Outside
  <2>3. Agreed /\ ~meddled => \A q \in Recipes : at[q] # "fetched"
    BY <2>2 DEF UnpackInv
  <2> QED
    BY <2>1, <2>3 DEF UnpackInv, Agreed
<1>4. CASE UnlockFile(r)
  BY <1>4 DEF UnlockFile, UnpackInv, Agreed, Right, Matches, Content, GentleAt
<1>5. CASE Unpack(r)
  <2>1. at[r] = "fetched" /\ UNCHANGED <<file, dir, want, next, meddled>>
    BY <1>5 DEF Unpack
  <2>2. CASE Agreed /\ ~meddled
    <3>1. Right(r) /\ \A p \in Recipes : GentleAt(p)
      BY <2>1, <2>2 DEF UnpackInv
    <3>2. at'[r] = "unpacked" /\ got'[r] = want[r]
      BY <1>5, <2>2, <3>1 DEF Unpack, GoTo, FetchInv, Shapes, Right, Matches, Agreed
    <3>3. \A q \in Recipes \ {r} : at'[q] = at[q] /\ got'[q] = got[q]
      BY <1>5 DEF Unpack, GoTo, FetchInv, Shapes
    <3>4. \A p \in Recipes : GentleAt(p)'
      BY <2>1, <3>1, <3>2, <3>3 DEF GentleAt, Gentle, Outside
    <3>5. \A q \in Recipes : at'[q] = "fetched" => Right(q)'
      BY <2>1, <2>2, <3>2, <3>3 DEF UnpackInv, Right, Matches, Content
    <3>6. \A q \in Recipes : at'[q] = "unpacked" => got'[q] = want'[q]
      BY <2>1, <2>2, <3>2, <3>3 DEF UnpackInv
    <3> QED
      BY <3>4, <3>5, <3>6 DEF UnpackInv
  <2> QED
    BY <2>1, <2>2 DEF UnpackInv, Agreed
<1>6. CASE Clean(r)
  BY <1>6 DEF Clean, UnpackInv
<1> QED
  BY <1>1, <1>2, <1>3, <1>4, <1>5, <1>6

LEMMA UnpackNext ==
  ASSUME Distinct, FetchInv, FetchInv', UnpackInv, [FetchNext]_fetchVars
  PROVE  UnpackInv'
<1>1. ASSUME NEW r \in Recipes, Fetching(r) PROVE UnpackInv'
  BY <1>1, HolderSteps, UnpackFetching, UnpackLooks, UnpackOthers DEF Fetching
<1>2. CASE DirChanges
  BY <1>2 DEF DirChanges, UnpackInv
<1>3. CASE UNCHANGED fetchVars
  BY <1>3 DEF fetchVars, UnpackInv, Agreed, Right, Matches, Content, GentleAt
<1> QED
  BY <1>1, <1>2, <1>3, UnpackOthers DEF FetchNext

\* do_unpack reads what its recipe asked for, although it does not look at the checksums
\* again, while the recipes agree and nobody else touches the file.
THEOREM UnpacksAreVerified ==
  ASSUME Distinct
  PROVE  FetchSpec => []UnpacksVerified
<1>1. FetchInit => UnpackInv
  BY UnpackInit
<1>2. FetchInv /\ FetchInv' /\ UnpackInv /\ [FetchNext]_fetchVars => UnpackInv'
  BY UnpackNext
<1>3. UnpackInv => UnpacksVerified
  BY DEF UnpackInv, UnpacksVerified, Agreed, Right, Matches
<1> QED
  BY <1>1, <1>2, <1>3, FetchAlways, PTL DEF FetchSpec
=============================================================================
