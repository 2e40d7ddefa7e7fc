----------------------------- MODULE MCHome --------------------------------
EXTENDS Home, TLC

CONSTANTS p1, p2, t1, t2, c1, g1, toml, lib, side, a, b, c, d, a1, b1, x1, x2, d1, d2, v1, v2

Rule(part, runs, kills, failures, changes) ==
  [part |-> part, crowd |-> FALSE, nested |-> FALSE, jobs |-> {}, refs |-> {"branch", side},
   pkgs |-> {}, deps |-> {},
   bounds |-> [runs |-> runs, kills |-> kills, failures |-> failures, changes |-> changes]]
\* Of two packages the one has a binary of the name of the other's.
MCBins == (a :> {a1}) @@ (b :> {b1}) @@ (c :> {x1}) @@ (d :> {x1, x2})
\* What a line accepts, the next accepts too.
MCLines == {{v1}, {v1, v2}}
\* Processes are interchangeable, and so are the two packages that share nothing,
\* with their binaries.
Apart == {[x \in {a, b, a1, b1} |-> x], (a :> b) @@ (b :> a) @@ (a1 :> b1) @@ (b1 :> a1)}
Symmetry == {v @@ x : v \in Permutations(Procs), x \in Apart}
Jobs(first, second) == (t1 :> first) @@ (t2 :> second)

\* Processes one after the other, killed anywhere, but for the resolution of
\* a branch, installs and edits, which two may be about at once.
MCRules == {
  Rule("index", 4, 2, 1, 2),
  [Rule("packages", 3, 1, 1, 0) EXCEPT !.jobs = {Jobs(c1, g1)}],
  [Rule("packages", 3, 1, 1, 0) EXCEPT !.jobs = {Jobs(c1, g1)}, !.nested = TRUE],
  Rule("git", 3, 1, 1, 2),
  [Rule("git", 3, 1, 1, 2) EXCEPT !.crowd = TRUE, !.refs = {"branch"}],
  [Rule("installs", 0, 0, 0, 0) EXCEPT !.crowd = TRUE, !.pkgs = {a, b}],
  [Rule("installs", 0, 0, 0, 0) EXCEPT !.pkgs = {c, d}],
  [Rule("edits", 0, 0, 0, 0) EXCEPT !.crowd = TRUE, !.deps = {d1}],
  [Rule("edits", 0, 0, 0, 0) EXCEPT !.deps = {d1, d2}] }

\* Two packages of one git repository: the threads of one process check out
\* the same commit.
SameCommit == {[Rule("packages", 1, 0, 0, 0) EXCEPT !.jobs = {Jobs(g1, g1)}]}
Together == {[Rule("index", 4, 0, 0, 2) EXCEPT !.crowd = TRUE],
             [Rule("git", 3, 1, 1, 2) EXCEPT !.crowd = TRUE]}
=============================================================================
