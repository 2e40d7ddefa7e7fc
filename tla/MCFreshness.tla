---------------------------- MODULE MCFreshness ----------------------------
(***************************************************************************)
(* A library with a build script, and a binary of another package that     *)
(* uses it; one or two checkouts of them.                                  *)
(***************************************************************************)
EXTENDS Freshness

CONSTANTS app, sys

MCDeps == [run |-> {}, lib |-> {"run"}, bin |-> {"lib"}]
MCPackageOf == [run |-> sys, lib |-> sys, bin |-> app]
MCTree == (sys :> {"lib.rs", "data"}) @@ (app :> {"main.rs"})

Look(files, env, declared) == [files |-> files, vars |-> env, declared |-> declared]

\* "growing": the script declares its inputs, and the library reads more,
\* once a content of theirs is 2.  "steady": neither changes its mind.
\* "outside": from the start the library reads a variable and a file elsewhere.
\* "fickle": the script declares its input, or says nothing and reads more.
MCReads(programs, u, c) ==
  CASE u = "run" ->
         CASE programs = "growing" /\ c["data"] = 2 -> Look({"data"}, {"V"}, TRUE)
           [] programs = "fickle" /\ c["data"] = 2  -> Look({"data", "lib.rs"}, {}, FALSE)
           [] OTHER -> Look({"data"}, {}, programs \in {"steady", "fickle"})
    [] u = "lib" -> IF programs = "outside" \/ (programs = "growing" /\ c["lib.rs"] = 2)
                    THEN Look({"lib.rs", "shared"}, {"V"}, FALSE)
                    ELSE Look({"lib.rs"}, {}, FALSE)
    [] u = "bin" -> Look({"main.rs"}, {}, FALSE)

MCLocal == {sys, app}
AnyEnv == [{"V"} -> {1, 2}]
OneEnv == {[V |-> 1]}
Sources1 == {"lib.rs", "data"}

Calm == [programs |-> "growing", dirs |-> {"a"}, together |-> FALSE, envs |-> OneEnv,
         start |-> {}, edited |-> {}, during |-> {}, back |-> FALSE, crash |-> FALSE,
         errors |-> FALSE, builds |-> 3, edits |-> 2]

\* Two checkouts, one after the other: anything may change in between.
InTurn == [Calm EXCEPT !.dirs = {"a", "b"}, !.envs = AnyEnv, !.back = TRUE,
                       !.edited = {"lib.rs", "data", "shared"}, !.edits = 3]
\* Builds of two checkouts at once, of units that read what they always read.
Steady == [Calm EXCEPT !.programs = "steady", !.dirs = {"a", "b"}, !.back = TRUE,
                       !.together = TRUE, !.edited = Sources1, !.start = {"data"},
                       !.edits = 1]
\* Killed anywhere; sources are edited between the builds.
Killed == [Calm EXCEPT !.crash = TRUE, !.errors = TRUE, !.edited = Sources1, !.start = Sources1,
                       !.back = TRUE]
\* Sources are edited while they are built, each time to something new.
Edited == [Calm EXCEPT !.edited = Sources1, !.during = {"planned", "build", "rekey",
                         "verify", "move", "resave", "done"}, !.edits = 3]
MCRules == {InTurn, Steady, Killed, Edited}

\* The theorem about builds applies to all but the last.
ASSUME TheoremApplies ==
  {r \in MCRules : Undisturbed(r)} = {InTurn, Steady, Killed}

\* First builds of two checkouts at once, under different environments.
AtOnce == {[Calm EXCEPT !.programs = "outside", !.dirs = {"a", "b"}, !.builds = 2,
                        !.together = TRUE, !.envs = AnyEnv]}
\* A file outside the packages is edited while a build moves its records.
EditInRekey == {[Calm EXCEPT !.start = {"lib.rs"}, !.edited = {"lib.rs", "shared"},
                             !.during = {"rekey"}]}
\* ... or between rustc and the hash.
EditInBuild == {[Calm EXCEPT !.programs = "outside", !.edited = {"shared"},
                             !.during = {"build"}]}
\* A script that at times declares its inputs, and reads more when it does not.
Fickle == {[Calm EXCEPT !.programs = "fickle", !.edited = Sources1, !.back = TRUE,
                        !.builds = 4, !.edits = 4]}
\* Killed before what the library read is looked into.
KilledLearning == {[Calm EXCEPT !.programs = "outside", !.envs = AnyEnv, !.crash = TRUE,
                                !.builds = 2]}
=============================================================================
