--------------------------- MODULE MCSharedStore ---------------------------
(* Instances of SharedStore for TLC. *)
EXTENDS SharedStore, TLC

CONSTANTS p1, p2, b1, b2, k1, k2, i1, i2

\* One build process per project, and two that share a project.
MCPerProject == (b1 :> p1) @@ (b2 :> p2)
MCSameProject == [b \in Builds |-> p1]

\* Every version, with every input, compiles to something else.
MCContents == Keys \X Inputs
MCCompile  == [ki \in Keys \X Inputs |-> ki]

\* Versions are interchangeable, and so are two projects with their builds.
MCKeys       == Permutations(Keys)
MCInputs     == Permutations(Inputs)
MCKeysBuilds == {v @@ w : v \in MCKeys,
                          w \in {(p1 :> p1), (p1 :> p2) @@ (p2 :> p1)
                                           @@ (b1 :> b2) @@ (b2 :> b1)}}

=============================================================================
