---------------------------- MODULE MCTargetDir ----------------------------
(* One crate with three variants and one with a single variant.            *)
EXTENDS TargetDir

CONSTANTS a, b, c, d, x, y, b1

MCCrates == {{a, b, c}, {d}}
MCGraphs == {{a, d}, {b}, {c}}
MCSym == Permutations({b, c})

Rule(builds, edits, days, kills, errors, cleans) ==
  [builds |-> builds, edits |-> edits, days |-> days, kills |-> kills, errors |-> errors,
   cleans |-> cleans, overlap |-> FALSE, crowd |-> FALSE]

\* Kills, errors and `rb clean' at any moment; long sequences of builds; and
\* compaction that packs while builds run.
MCRules == {
  Rule(3, 1, 0, 1, 1, 0),
  Rule(3, 0, 0, 1, 0, 1),
  Rule(4, 2, 0, 0, 1, 0),
  Rule(4, 0, 2, 0, 0, 0),
  [Rule(4, 0, 0, 0, 0, 0) EXCEPT !.overlap = TRUE],
  [Rule(3, 2, 0, 0, 0, 0) EXCEPT !.overlap = TRUE] }

\* Two builds in one directory, with a `rb clean' between their starts.
CrowdRules == {[Rule(2, 1, 0, 0, 0, 1) EXCEPT !.crowd = TRUE]}
=============================================================================
