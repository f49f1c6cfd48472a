----------------------------- MODULE MCRunQueue -----------------------------
(***************************************************************************)
(* Instances of the run queue for TLC.                                     *)
(***************************************************************************)
EXTENDS RunQueueProps, TLC

\* Hypotheses of the theorems of RunQueueOrder and RunQueueOutcome, here of every
\* instance: the tool all hard dependencies name depends on nothing, there is something
\* to restore, no task name has a limit of its own, no other task writes a target's stamps,
\* and the tasks that share PN and hash have no stamps of an earlier build.
ASSUME SteadyInstance == SteadyHardDeps
ASSUME RegularInstance == HardAcyclic /\ OnlyRestores /\ NoThreadLimits /\ TargetsOwnStamps
                           /\ SharersWait /\ StampsNamePn

(* A tool, a library and an application over the library, and an image.    *)
(* Restoring the library (or both) needs the tool, building it does not.   *)
(* The application has one task that needs no library, so that it can be   *)
(* held off, waiting, running or complete when the hash of the library     *)
(* changes.                                                                *)
AppTasks == {"tool", "lib", "prep", "build", "app", "image"}
AppDepends ==
  "tool" :> {} @@ "lib" :> {} @@ "prep" :> {} @@ "build" :> {"lib"} @@
  "app" :> {"prep", "build"} @@ "image" :> {"tool", "app"}
AppSetscene == {"tool", "lib", "app"}
AppTargets == {"image"}
BothTargets == {"app", "image"}
AppHard == "tool" :> {} @@ "lib" :> {"tool"} @@ "app" :> {}
AppRank == "tool" :> 1 @@ "lib" :> 2 @@ "prep" :> 3 @@ "build" :> 4 @@ "app" :> 5 @@
           "image" :> 6
AppFn == [t \in Tasks |-> IF t \in {"prep", "build"} THEN "app" ELSE t]
AppNames == [t \in Tasks |-> IF t \in Setscene THEN "pack" ELSE t]

Itself == [t \in Tasks |-> t]
SameHash == [t \in Tasks |-> "h0"]
NoLimit == [t \in Tasks |-> 0]

(* What an earlier build has left.                                         *)
Clean == {{}}
AnySstate == SUBSET {SstateObject(t, "h0") : t \in Setscene}
AnySstateAnyHash == SUBSET {SstateObject(t, h) : t \in Setscene, h \in Hashes}
\* Only the application is hashed again when the hash of the library changes.
AppStateAnyHash == SUBSET ({SstateObject(t, "h0") : t \in Setscene}
                             \cup {SstateObject("app", "h1")})
AllOrNothing == {{}, {SstateObject(t, "h0") : t \in Setscene}}
Stamps(R, S) == {<<t, "run", "h0", FALSE>> : t \in R}
                  \cup {<<t, "setscene", "h0", FALSE>> : t \in S}
SomeStamps == {Stamps(R, S) : R \in SUBSET {"lib", "prep", "build", "app"},
                              S \in SUBSET {"tool", "lib"}}

(* Ways to invoke bitbake.                                                 *)
Mode(S) == [halt |-> "halt" \in S, force |-> "force" \in S, skip |-> "skip" \in S,
            only |-> "only" \in S, enforce |-> "enforce" \in S]
Plain == {Mode({"halt"})}
KeepGoing == {Mode({})}
PlainOrKeepGoing == Plain \cup KeepGoing
EnforceKeepGoing == {Mode({"enforce"})}
EveryMode == PlainOrKeepGoing \cup
  {Mode({"halt", f}) : f \in {"force", "skip", "only", "enforce"}}

(* Two unrelated recipes with a common image.                              *)
WideTasks == {"a_build", "a_pack", "b_build", "b_pack", "image"}
WideDepends ==
  "a_build" :> {} @@ "a_pack" :> {"a_build"} @@ "b_build" :> {} @@
  "b_pack" :> {"b_build"} @@ "image" :> {"a_pack", "b_pack"}
WideSetscene == {"a_pack", "b_pack"}
WideRank == "a_build" :> 1 @@ "a_pack" :> 2 @@ "b_build" :> 3 @@ "b_pack" :> 4 @@
            "image" :> 5
WideFn == "a_build" :> "a" @@ "a_pack" :> "a" @@ "b_build" :> "b" @@
          "b_pack" :> "b" @@ "image" :> "i"
WideNames == "a_build" :> "build" @@ "a_pack" :> "pack" @@ "b_build" :> "build" @@
             "b_pack" :> "pack" @@ "image" :> "image"
NoHardDeps == [t \in Setscene |-> {}]

(* A recipe in two multiconfigs, which share its stamps: its package task, *)
(* the source task below that, and a licence task only the image needs. A  *)
(* recipe of the first multiconfig uses the package.                       *)
PairTasks == {"p1_src", "p1_pack", "p1_lic", "p2_src", "p2_pack", "p2_lic",
              "q1_build", "q1_pack", "image"}
PairDepends ==
  "p1_src" :> {} @@ "p1_pack" :> {"p1_src"} @@ "p1_lic" :> {} @@
  "p2_src" :> {} @@ "p2_pack" :> {"p2_src"} @@ "p2_lic" :> {} @@
  "q1_build" :> {"p1_pack"} @@ "q1_pack" :> {"q1_build"} @@
  "image" :> {"p1_src", "p1_lic", "p2_lic", "p2_pack", "q1_pack"}
PairSetscene == {"p1_pack", "p2_pack", "q1_pack"}
PairRank == "p1_lic" :> 1 @@ "p1_pack" :> 2 @@ "p1_src" :> 3 @@ "q1_build" :> 4 @@
            "q1_pack" :> 5 @@ "p2_lic" :> 6 @@ "p2_pack" :> 7 @@ "p2_src" :> 8 @@
            "image" :> 9
PairPn == "p1_src" :> "p" @@ "p1_pack" :> "p" @@ "p1_lic" :> "p" @@ "p2_src" :> "p" @@
          "p2_pack" :> "p" @@ "p2_lic" :> "p" @@ "q1_build" :> "q" @@
          "q1_pack" :> "q" @@ "image" :> "i"
PairFn == [t \in Tasks |-> IF t \in {"p2_src", "p2_pack", "p2_lic"} THEN "p2"
                           ELSE PairPn[t]]
PairNames == "p1_src" :> "src" @@ "p1_pack" :> "pack" @@ "p1_lic" :> "lic" @@
             "p2_src" :> "src" @@ "p2_pack" :> "pack" @@ "p2_lic" :> "lic" @@
             "q1_build" :> "build" @@ "q1_pack" :> "pack" @@ "image" :> "image"
PairStamps == [t \in Tasks |-> <<PairPn[t], PairNames[t]>>]
=============================================================================
