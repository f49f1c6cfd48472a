------------------------------- MODULE Fetch -------------------------------
(***************************************************************************)
(* One source file of DL_DIR, fetched over http by the do_fetch of several *)
(* recipes, perhaps of several builds (lib/bb/fetch2).  The file stands    *)
(* there with a done stamp that remembers its checksums, so that they need *)
(* not be computed again as long as the stamp is newer than the file.  A   *)
(* fetch looks at what is there, then asks the premirrors, the upstream    *)
(* and the mirrors in turn; all of it is done under the lock of the file   *)
(* (LockFile), and a process may be killed between any two writes.         *)
(***************************************************************************)
EXTENDS Sequences, Naturals

CONSTANTS
  Recipes,
  Contents,    \* what a file may hold; stands for its checksums too
  NoSum,       \* a recipe that gives no checksum (BB_STRICT_CHECKSUM is not set)
  NoFile, Link, NoStamp, Empty, Nobody,
  Wants,       \* checksums the recipes may ask for: a set of functions
  Premirrors,  \* kinds of the mirrors tried first, and of those tried last:
  Mirrors,     \*   "http", or "file" for the one directory on this host
  Meddling     \* whether somebody cleans the file or changes the directory, once

VARIABLES
  file,     \* what is under the name in DL_DIR; Link: a symlink to the directory
  dir,      \* what is under the name in the file:// mirror
  stamp,    \* checksums in the .done file; Empty: truncated
  newer,    \* the stamp's mtime is later than that of the file
  owner,    \* recipe that holds the lock
  want,     \* recipe |-> checksum in its SRC_URI
  at,       \* recipe |-> where it is
  next,     \* recipe |-> where it goes on after a step in two writes
  tried,    \* recipe |-> mirrors tried from the list at hand
  refused,  \* recipe |-> upstream has not delivered in this call
  got,      \* recipe |-> what its do_unpack has read
  meddled   \* files were cleaned, or the directory was changed, since the start

fetchVars == <<file, dir, stamp, newer, owner, want, at, next, tried, refused, got, meddled>>

Distinct ==
  /\ Nobody \notin Recipes
  /\ NoFile # Link /\ {NoFile, Link} \cap Contents = {}
  /\ NoStamp # Empty /\ {NoStamp, Empty} \cap Contents = {}

Outside == {"idle", "fetched", "failed", "unpacked"}
Places == Outside \cup {"verify", "drop", "store", "premirror", "link", "spoil", "early",
                        "again", "upstream", "stamp", "mirror", "final"}

FetchTypeOK ==
  /\ file \in Contents \cup {NoFile, Link}
  /\ dir \in Contents \cup {NoFile}
  /\ stamp \in Contents \cup {NoStamp, Empty}
  /\ newer \in BOOLEAN
  /\ owner \in Recipes \cup {Nobody}
  /\ want \in Wants
  /\ at \in [Recipes -> Places] /\ next \in [Recipes -> Places]
  /\ tried \in [Recipes -> 0..(Len(Premirrors) + Len(Mirrors))]
  /\ refused \in [Recipes -> BOOLEAN]
  /\ got \in [Recipes -> Contents \cup {NoFile}]
  /\ meddled \in BOOLEAN

FetchInit ==
  /\ file = NoFile /\ stamp = NoStamp /\ newer = FALSE
  /\ dir \in Contents \cup {NoFile}
  /\ owner = Nobody
  /\ want \in Wants
  /\ at = [r \in Recipes |-> "idle"] /\ next = [r \in Recipes |-> "idle"]
  /\ tried = [r \in Recipes |-> 0]
  /\ refused = [r \in Recipes |-> FALSE]
  /\ got = [r \in Recipes |-> NoFile]
  /\ meddled = FALSE

\* The name followed: a link into the directory may dangle.
Content == IF file = Link THEN dir ELSE file

\* verify_checksum()
Matches(r, sums) == want[r] \in {sums, NoSum}

GoTo(r, place) == at' = [at EXCEPT ![r] = place]

\* A file comes with an mtime of its own.
NewFile(c) == file' = c /\ newer' \in {FALSE, stamp # NoStamp}

-----------------------------------------------------------------------------
(* The two ways to look at the done stamp                                  *)

\* What is renamed or written first, before the stamp is removed or filled.
RenameBad(r, then) ==
  /\ file' = NoFile
  /\ GoTo(r, "drop") /\ next' = [next EXCEPT ![r] = then]
  /\ UNCHANGED <<stamp, newer>>

OpenStamp(r, then) ==
  /\ stamp' = Empty /\ newer' \in BOOLEAN
  /\ GoTo(r, "store") /\ next' = [next EXCEPT ![r] = then]
  /\ UNCHANGED file

\* The checksums of the stamp are good for a file that is older.
Precomputed == stamp \in Contents /\ newer
Known == IF Precomputed THEN stamp ELSE Content

\* Mutant: a stamp without a file is left where it is.
VerifyKeepsStamp(r, yes, no) ==
  \/ /\ Content = NoFile
     /\ GoTo(r, no) /\ UNCHANGED <<file, next, stamp, newer>>
  \/ /\ Content # NoFile /\ Matches(r, Known)
     /\ IF Precomputed THEN GoTo(r, yes) /\ UNCHANGED <<file, stamp, newer, next>>
        ELSE OpenStamp(r, yes)
  \/ /\ Content # NoFile /\ ~Matches(r, Known)
     /\ RenameBad(r, no)

\* verify_donestamp(): a file with the wrong checksums is moved away, whoever put it
\* there.
VerifyDonestamp(r, yes, no) ==
  \/ /\ Content = NoFile
     /\ stamp' = NoStamp /\ newer' = FALSE
     /\ GoTo(r, no) /\ UNCHANGED <<file, next>>
  \/ /\ Content # NoFile /\ Matches(r, Known)
     /\ IF Precomputed THEN GoTo(r, yes) /\ UNCHANGED <<file, stamp, newer, next>>
        ELSE OpenStamp(r, yes)
  \/ /\ Content # NoFile /\ ~Matches(r, Known)
     /\ RenameBad(r, no)

\* Mutant: the stamp is written without another look at the file.
UpdateTrusts(r, yes, no) ==
  IF stamp # NoStamp THEN newer' \in {newer, TRUE} /\ GoTo(r, yes)
                          /\ UNCHANGED <<file, stamp, next>>
  ELSE OpenStamp(r, yes)

\* update_stamp(): an existing stamp is only touched.
UpdateStamp(r, yes, no) ==
  \/ /\ stamp # NoStamp
     /\ newer' \in {newer, TRUE}
     /\ GoTo(r, yes) /\ UNCHANGED <<file, stamp, next>>
  \/ /\ stamp = NoStamp /\ Matches(r, Content)
     /\ OpenStamp(r, yes)
  \/ /\ stamp = NoStamp /\ ~Matches(r, Content)
     /\ RenameBad(r, no)

\* bb.utils.remove(ud.donestamp) after a rename or a clean.
Drop(r) ==
  /\ at[r] = "drop"
  /\ stamp' = NoStamp /\ newer' = FALSE
  /\ GoTo(r, next[r])
  /\ UNCHANGED <<file, dir, owner, want, next, tried, refused, got, meddled>>

\* The checksums go into the stamp.
Store(r) ==
  /\ at[r] = "store"
  /\ stamp' = Content
  /\ newer' \in BOOLEAN
  /\ GoTo(r, next[r])
  /\ UNCHANGED <<file, dir, owner, want, next, tried, refused, got, meddled>>

-----------------------------------------------------------------------------
(* Fetch.download()                                                        *)

\* Mutant: the lock is not taken.
StartUnlocked(r) ==
  /\ at[r] \in Outside
  /\ owner' = r
  /\ GoTo(r, "verify")
  /\ tried' = [tried EXCEPT ![r] = 0]
  /\ refused' = [refused EXCEPT ![r] = FALSE]
  /\ got' = [got EXCEPT ![r] = NoFile]
  /\ UNCHANGED <<file, dir, stamp, newer, want, next, meddled>>

Start(r) ==
  /\ at[r] \in Outside
  /\ owner = Nobody
  /\ owner' = r
  /\ GoTo(r, "verify")
  /\ tried' = [tried EXCEPT ![r] = 0]
  /\ refused' = [refused EXCEPT ![r] = FALSE]
  /\ got' = [got EXCEPT ![r] = NoFile]
  /\ UNCHANGED <<file, dir, stamp, newer, want, next, meddled>>

Look(r) ==
  /\ at[r] = "verify"
  /\ VerifyDonestamp(r, "again", "premirror")
  /\ UNCHANGED <<dir, owner, want, tried, refused, got, meddled>>

\* The list of mirrors at hand, and where a hit leads.
ListOf(r) == IF at[r] = "premirror" THEN Premirrors ELSE Mirrors
Hit(r) == IF at[r] = "premirror" THEN "early" ELSE "final"
Trying(r, kind) ==
  /\ at[r] \in {"premirror", "mirror"}
  /\ tried[r] < Len(ListOf(r))
  /\ ListOf(r)[tried[r] + 1] = kind

\* try_mirror_url(), http: what the mirror sends is taken without a check of its sums.
MirrorSends(r) ==
  /\ Trying(r, "http")
  /\ \E c \in Contents : NewFile(c)
  /\ GoTo(r, Hit(r))
  /\ UNCHANGED <<dir, stamp, owner, want, next, tried, refused, got, meddled>>

\* It has nothing to send, or the directory does not have the file: try the next.
MirrorFails(r) ==
  /\ \/ Trying(r, "http") /\ file' = NoFile
     \/ Trying(r, "file") /\ dir = NoFile /\ UNCHANGED file
  /\ tried' = [tried EXCEPT ![r] = @ + 1]
  /\ UNCHANGED <<dir, stamp, newer, owner, want, at, next, refused, got, meddled>>

\* try_mirror_url(), file: a symlink is put in place,
MirrorLinks(r) ==
  /\ Trying(r, "file") /\ dir # NoFile
  /\ NewFile(Link)
  /\ GoTo(r, "link")
  /\ UNCHANGED <<dir, stamp, owner, want, next, tried, refused, got, meddled>>

\* checked, and stamped.
LinkStamp(r) ==
  /\ at[r] = "link"
  /\ UpdateStamp(r, IF refused[r] THEN "final" ELSE "early", "spoil")
  /\ UNCHANGED <<dir, owner, want, tried, refused, got, meddled>>

\* The handler of the ChecksumError renames the file of the mirror too.
Spoil(r) ==
  /\ at[r] = "spoil"
  /\ dir' = NoFile
  /\ tried' = [tried EXCEPT ![r] = @ + 1]
  /\ GoTo(r, IF refused[r] THEN "mirror" ELSE "premirror")
  /\ UNCHANGED <<file, stamp, newer, owner, want, next, refused, got, meddled>>

\* Mutant: what a premirror sent is checked when it is too late.
EarlyLate(r) ==
  /\ at[r] = "early"
  /\ UpdateStamp(r, "again", "final")
  /\ UNCHANGED <<dir, owner, want, tried, refused, got, meddled>>

\* A premirror's file is checked at once, so that upstream can still be asked.
Early(r) ==
  /\ at[r] = "early"
  /\ UpdateStamp(r, "again", "upstream")
  /\ UNCHANGED <<dir, owner, want, tried, refused, got, meddled>>

Again(r) ==
  /\ at[r] = "again"
  /\ VerifyDonestamp(r, "final", "final")
  /\ UNCHANGED <<dir, owner, want, tried, refused, got, meddled>>

NoPremirror(r) ==
  /\ at[r] = "premirror" /\ tried[r] = Len(Premirrors)
  /\ GoTo(r, "upstream")
  /\ UNCHANGED <<file, dir, stamp, newer, owner, want, next, tried, refused, got, meddled>>

\* Wget.download(): the file is fetched under another name and renamed if it is right.
UpstreamSends(r) ==
  /\ at[r] = "upstream"
  /\ \E c \in Contents : Matches(r, c) /\ NewFile(c)
  /\ GoTo(r, "stamp")
  /\ tried' = [tried EXCEPT ![r] = 0]
  /\ UNCHANGED <<dir, stamp, owner, want, next, refused, got, meddled>>

\* It is not, or nothing came: what is there is removed and the mirrors are next.
UpstreamFails(r) ==
  /\ at[r] = "upstream"
  /\ refused' = [refused EXCEPT ![r] = TRUE]
  /\ file' = NoFile
  /\ tried' = [tried EXCEPT ![r] = 0]
  /\ GoTo(r, "mirror")
  /\ UNCHANGED <<dir, stamp, newer, owner, want, next, got, meddled>>

Stamped(r) ==
  /\ at[r] = "stamp"
  /\ UpdateStamp(r, "final", "mirror")
  /\ UNCHANGED <<dir, owner, want, tried, refused, got, meddled>>

NoMirror(r) ==
  /\ at[r] = "mirror" /\ tried[r] = Len(Mirrors)
  /\ GoTo(r, "failed")
  /\ UNCHANGED <<file, dir, stamp, newer, owner, want, next, tried, refused, got, meddled>>

Finish(r) ==
  /\ at[r] = "final"
  /\ IF Content = NoFile THEN GoTo(r, "failed") /\ UNCHANGED <<file, stamp, newer, next>>
     ELSE UpdateStamp(r, "fetched", "failed")
  /\ UNCHANGED <<dir, owner, want, tried, refused, got, meddled>>

UnlockFile(r) ==
  /\ owner = r /\ at[r] \in Outside
  /\ owner' = Nobody
  /\ UNCHANGED <<file, dir, stamp, newer, want, at, next, tried, refused, got, meddled>>

-----------------------------------------------------------------------------
(* Fetch.unpack(), Fetch.clean() and the rest of the world                 *)

\* The sums are not looked at again.
Unpack(r) ==
  /\ at[r] = "fetched" /\ owner = Nobody
  /\ got' = [got EXCEPT ![r] = Content]
  /\ GoTo(r, IF Content = NoFile THEN "failed" ELSE "unpacked")
  /\ UNCHANGED <<file, dir, stamp, newer, owner, want, next, tried, refused, meddled>>

Clean(r) ==
  /\ Meddling /\ ~meddled
  /\ at[r] = "idle" /\ owner = Nobody
  /\ owner' = r
  /\ file' = NoFile
  /\ GoTo(r, "drop") /\ next' = [next EXCEPT ![r] = "idle"]
  /\ meddled' = TRUE
  /\ UNCHANGED <<dir, stamp, newer, want, tried, refused, got>>

\* Somebody puts another file, with a later mtime, into the directory while no fetch
\* looks at it.
DirChanges ==
  /\ Meddling /\ ~meddled
  /\ owner = Nobody
  /\ \E c \in Contents \ {dir} : dir' = c
  /\ newer' = (newer /\ file # Link)
  /\ meddled' = TRUE
  /\ UNCHANGED <<file, stamp, owner, want, at, next, tried, refused, got>>

\* A fetch is killed; the system drops its lock.
Killed(r) ==
  /\ owner = r
  /\ owner' = Nobody
  /\ GoTo(r, "idle")
  /\ UNCHANGED <<file, dir, stamp, newer, want, next, tried, refused, got, meddled>>

Fetching(r) ==
  \/ Look(r) \/ Drop(r) \/ Store(r)
  \/ MirrorSends(r) \/ MirrorFails(r) \/ MirrorLinks(r) \/ LinkStamp(r) \/ Spoil(r)
  \/ Early(r) \/ Again(r) \/ NoPremirror(r) \/ UpstreamSends(r) \/ UpstreamFails(r)
  \/ Stamped(r) \/ NoMirror(r) \/ Finish(r) \/ UnlockFile(r)

FetchNext ==
  \/ \E r \in Recipes : Start(r) \/ Fetching(r) \/ Unpack(r) \/ Clean(r) \/ Killed(r)
  \/ DirChanges

FetchSpec == FetchInit /\ [][FetchNext]_fetchVars

-----------------------------------------------------------------------------
(* Properties                                                              *)

\* A stamp that will be believed tells the truth: whatever was fetched, linked, moved
\* away, cleaned or left behind by a killed fetch since it was written, checksums taken
\* from it are those of the file.
StampTellsTruth == Precomputed /\ Content # NoFile => stamp = Content

\* A fetch that succeeds leaves the file its recipe asked for.
Delivers == \A r \in Recipes :
  at[r] = "fetched" /\ owner = r => Content # NoFile /\ Matches(r, Content)

\* An upstream that delivers is enough: what mirrors, other recipes and killed fetches
\* have left behind makes no fetch fail.
FailsForAReason == \A r \in Recipes : at[r] = "failed" /\ owner = r => refused[r]

\* do_unpack gets what do_fetch has verified, although it does not check, as long as the
\* recipes agree about the file and nobody meddles with it.
Agreed == \A q, r \in Recipes : want[q] = want[r] /\ want[r] # NoSum
UnpacksVerified == Agreed /\ ~meddled =>
  \A r \in Recipes : at[r] \in {"fetched", "unpacked"} /\ owner # r =>
    IF at[r] = "fetched" THEN Content = want[r] ELSE got[r] = want[r]
=============================================================================
