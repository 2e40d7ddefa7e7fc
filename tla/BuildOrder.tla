---------------------------- MODULE BuildOrder -----------------------------
(***************************************************************************)
(* What the scheduler promises, without its loop, channel, counters and    *)
(* tokens: each unit is compiled at most once, after what it needs, at     *)
(* most Jobs at a time; and with one job and no --keep-going nothing is    *)
(* started after a unit failed to build.                                   *)
(***************************************************************************)
EXTENDS Integers, FiniteSets

CONSTANTS Units, MetaDeps, FullDeps, Jobs, KeepGoing

VARIABLES
  started, \* units whose compiler was started
  busy,    \* ... and that still hold their job
  typed,   \* units whose metadata is on disk
  built,   \* units whose outputs are complete
  broken   \* units that failed

order == <<started, busy, typed, built, broken>>

Init == started = {} /\ busy = {} /\ typed = {} /\ built = {} /\ broken = {}

Start(u) ==
  /\ u \notin started
  /\ Cardinality(busy) < Jobs
  /\ FullDeps[u] \subseteq built
  /\ MetaDeps[u] \subseteq typed
  /\ Jobs = 1 /\ ~KeepGoing => broken \subseteq built
  /\ started' = started \cup {u}
  /\ busy' = busy \cup {u}
  /\ UNCHANGED <<typed, built, broken>>

EmitMeta(u) ==
  /\ u \in busy \ (typed \cup built \cup broken)
  /\ typed' = typed \cup {u}
  /\ UNCHANGED <<started, busy, built, broken>>

Build(u) ==
  /\ u \in busy \ (built \cup broken)
  /\ typed' = typed \cup {u}
  /\ built' = built \cup {u}
  /\ UNCHANGED <<started, busy, broken>>

\* A unit may prove unusable after it was built: its dependents, by then, may
\* have been started.
Fail(u) ==
  /\ u \in started \ broken
  /\ u \in busy => u \notin built
  /\ broken' = broken \cup {u}
  /\ UNCHANGED <<started, busy, typed, built>>

Release(u) ==
  /\ u \in busy /\ u \in built \cup broken
  /\ busy' = busy \ {u}
  /\ UNCHANGED <<started, typed, built, broken>>

Next == \E u \in Units : Start(u) \/ EmitMeta(u) \/ Build(u) \/ Fail(u) \/ Release(u)

Spec == Init /\ [][Next]_order

=============================================================================
