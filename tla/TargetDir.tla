----------------------------- MODULE TargetDir -----------------------------
(***************************************************************************)
(* One build directory over many builds: the variants of a crate that      *)
(* take turns in it (other flags, another profile), the record units.json  *)
(* keeps of them, the sweep at the end of a build, and the incremental     *)
(* caches that are moved aside, packed by `rb __compact' and brought back  *)
(* (rb-core build.rs and exec.rs, rb-store archive.rs).                    *)
(*                                                                         *)
(* Of the store only this matters here: which outputs it still has.  The   *)
(* protocol it is filled and collected by is SharedStore's.  A key is a    *)
(* variant with a version of its sources.                                  *)
(***************************************************************************)
EXTENDS Integers, FiniteSets, Sequences, Functions, TLC

CONSTANTS
  Crates,               \* the crates, sets of variants
  Graphs,               \* the sets of variants a build may be asked for
  Versions,             \* of the sources
  Builders,             \* processes that run `rb build'
  KeepVariants,         \* target.keep-variants
  KeepFor,              \* target.keep-unused-days
  ArchivesPerCrate,     \* ARCHIVES_PER_CRATE
  Parts,                \* what a cache is made of
  Rules,                \* what may happen in a behaviour, and its bounds:
                        \* builds, edits, kills and `rb clean's
  None, Torn

Variants == UNION Crates
CrateOf(v) == CHOOSE c \in Crates : v \in c
Key(v, n) == <<v, n>>

\* A cache: which directory, which session wrote it, what is there, since when.
Caches == [id : Nat, session : Nat, parts : SUBSET Parts, at : Nat]

ASSUME TargetDirAssumption ==
  /\ \A c, e \in Crates : c = e \/ c \cap e = {}
  /\ IsFiniteSet(Variants) /\ Versions # {}
  /\ Graphs \subseteq SUBSET Variants
  /\ \A G \in Graphs, c \in Crates : Cardinality(G \cap c) <= 1
  /\ {KeepVariants, KeepFor, ArchivesPerCrate} \subseteq Nat /\ Parts # {}
  /\ None \notin Variants \X Versions /\ None \notin Caches

VARIABLES
  rules,
  src,       \* variant -> version of its sources
  units,     \* units.json
  out,       \* variant -> the key whose output is under deps/
  inc,       \* variant -> its incremental cache
  pend,      \* the same, moved to <name>.pending
  arch,      \* the same, packed as <name>.tar.zst
  stored,    \* keys whose outputs are in the store
  listed,    \* keys this project is registered with
  lock,      \* the inode of target/rb/.lock: its number
  bld, pk,   \* the builds, and `rb __compact'
  clock,     \* ticks with every build and every cache written
  promise,   \* variant -> keys that a rebuild should find
  last,      \* variant -> the session that wrote its latest cache
  spoilt,    \* caches that were packed while a build took them, or a kill came
  count      \* how often the bounded things have happened

disk == <<units, out, inc, pend, arch>>
vars == <<rules, src, disk, stored, listed, lock, bld, pk, clock, promise, last, spoilt, count>>

NoCache == [v \in Variants |-> None]
Fresh0 == [slot |-> NoCache, prev |-> NoCache, used |-> [v \in Variants |-> 0]]
NoBuild == [pc |-> "idle"]
NoPack == [pc |-> "idle"]
Collecting == pk.pc \in {"probed", "load", "drop"}
Cleared(f, S) == [v \in Variants |-> IF v \in S THEN None ELSE f[v]]
Go(b, pc) == bld' = [bld EXCEPT ![b].pc = pc]
Tick == clock' = clock + 1
Count(what) == count[what] < rules[what] /\ count' = [count EXCEPT ![what] = @ + 1]
-----------------------------------------------------------------------------
(* A build. *)

\* The lock is on an inode: a build that opened the file before it was
\* removed excludes nobody who opens it after.
Start(b) ==
  /\ bld[b].pc = "idle" /\ Count("builds")
  /\ rules.overlap \/ pk.pc = "idle"
  /\ \A o \in Builders : bld[o].pc # "idle" => rules.crowd /\ bld[o].lock # lock
  /\ pk' = IF Collecting THEN [pk EXCEPT !.beside = TRUE] ELSE pk
  /\ \E G \in Graphs :
       bld' = [bld EXCEPT ![b] =
         [pc |-> "check", lock |-> lock, graph |-> G, want |-> Restrict(src, G), mem |-> units,
          todo |-> {}, at |-> clock, moved |-> {}, swept |-> FALSE, owed |-> {}]]
  /\ Tick
  /\ UNCHANGED <<rules, src, disk, stored, listed, lock, promise, last, spoilt>>

Wants(b, v) == Key(v, bld[b].want[v])
IsFresh(b, v) == bld[b].mem.slot[v] = Wants(b, v) /\ out[v] # None

\* Faulty: what an edit replaced is not remembered.
ReplacedForgets(b, v) == bld[b].mem.prev[v]

\* A slot is given up: the key it had is the one a revert would ask for.
Replaced(b, v) ==
  LET m == bld[b].mem
  IN  IF m.slot[v] \in {None, Wants(b, v)} \/ KeepVariants = 0 THEN m.prev[v] ELSE m.slot[v]

\* What is not fresh loses its slot; the record is saved before anything is
\* rewritten.
Stales(b) == {v \in bld[b].graph : ~IsFresh(b, v)}
Released(b) ==
  LET m == bld[b].mem
  IN  [slot |-> Cleared(m.slot, Stales(b)),
       prev |-> [v \in Variants |-> IF v \in Stales(b) THEN Replaced(b, v) ELSE m.prev[v]],
       used |-> [v \in Variants |-> IF v \in bld[b].graph THEN bld[b].at ELSE m.used[v]]]

\* Faulty: the record is saved when the build ends.
SavedLate(b) == units
Saved(b) == IF \E v \in Stales(b) : bld[b].mem.slot[v] # None THEN Released(b) ELSE units

CheckUnits(b) ==
  /\ bld[b].pc = "check"
  /\ units' = Saved(b)
  /\ bld' = [bld EXCEPT ![b].pc = "restore", ![b].mem = Released(b), ![b].todo = Stales(b),
               ![b].owed = {v \in bld[b].graph : Wants(b, v) \in Range(promise[v])}]
  /\ UNCHANGED <<rules, src, out, inc, pend, arch, stored, listed, lock, pk, clock, promise,
                 last, spoilt, count>>

\* Hits are restored.
Hits(b) == {v \in bld[b].todo : Wants(b, v) \in stored}
Restored(b, f) == [v \in Variants |-> IF v \in Hits(b) THEN Wants(b, v) ELSE f[v]]

Restore(b) ==
  /\ bld[b].pc = "restore"
  /\ out' = Restored(b, out)
  /\ bld' = [bld EXCEPT ![b].pc = "build", ![b].todo = @ \ Hits(b),
                        ![b].mem.slot = Restored(b, @)]
  /\ UNCHANGED <<rules, src, units, inc, pend, arch, stored, listed, lock, pk, clock, promise,
                 last, spoilt, count>>

Packing(v) == pk.pc \in {"read", "remove"} /\ pk.v = v

\* Outputs are unlinked.  A cache that was moved aside is moved back, one that
\* was packed is unpacked next to it and moved in.
Prepare(b) ==
  /\ bld[b].pc = "build"
  /\ \E v \in bld[b].todo :
       /\ out' = [out EXCEPT ![v] = None]
       /\ inc' = [inc EXCEPT ![v] =
            IF @ # None THEN @ ELSE IF pend[v] # None THEN pend[v]
            ELSE IF arch[v] # None THEN [arch[v] EXCEPT !.id = clock] ELSE None]
       /\ pend' = [pend EXCEPT ![v] = IF inc[v] = None THEN None ELSE @]
       /\ spoilt' = IF Packing(v) THEN spoilt \cup {v} ELSE spoilt
       /\ bld' = [bld EXCEPT ![b].pc = IF inc[v] = None /\ pend[v] = None /\ arch[v] # None
                                       THEN "unpacked" ELSE "rustc",
                             ![b].moved = {v}]
  /\ Tick
  /\ UNCHANGED <<rules, src, units, arch, stored, listed, lock, pk, promise, last, count>>

\* The archive has served.
Unpacked(b) ==
  /\ bld[b].pc = "unpacked"
  /\ arch' = Cleared(arch, bld[b].moved)
  /\ Go(b, "rustc")
  /\ UNCHANGED <<rules, src, units, out, inc, pend, stored, listed, lock, pk, clock, promise, last, spoilt, count>>

\* rustc writes its output and a cache for the next time; the output goes to
\* the store and the record into memory.
Rustc(b) ==
  /\ bld[b].pc = "rustc"
  /\ \E v \in bld[b].moved :
       /\ out' = [out EXCEPT ![v] = Wants(b, v)]
       /\ inc' = [inc EXCEPT ![v] = [id |-> IF @ = None THEN clock ELSE @.id,
                                     session |-> clock, parts |-> Parts, at |-> clock]]
       /\ stored' = stored \cup {Wants(b, v)}
       /\ last' = [last EXCEPT ![v] = clock]
       /\ spoilt' = IF Packing(v) THEN spoilt ELSE spoilt \ {v}
       /\ bld' = [bld EXCEPT ![b].pc = "build", ![b].todo = @ \ {v}, ![b].moved = {},
                             ![b].mem.slot[v] = Wants(b, v)]
  /\ Tick
  /\ UNCHANGED <<rules, src, units, pend, arch, listed, lock, pk, promise, count>>

Owned(m) == Range(m.slot) \ {None}
Listing(m) == Owned(m) \cup (Range(m.prev) \ {None})

\* What is expected of the builds to come: the version just built and the one
\* it replaced.  A version that was compiled by a build that failed is listed
\* nowhere, and compaction may drop it; when a later build finds its output
\* fresh, the store has nothing to go back to and nothing is promised.
Promised(b, v) ==
  IF v \notin bld[b].graph THEN promise[v]
  ELSE IF Wants(b, v) \notin stored THEN <<>>
  ELSE IF promise[v] = <<>> THEN <<Wants(b, v)>>
  ELSE IF promise[v][1] = Wants(b, v) THEN promise[v]
  ELSE IF KeepVariants = 0 THEN <<Wants(b, v)>>
  ELSE <<Wants(b, v), promise[v][1]>>

\* What is left of that when a build ends before its time, with m as its record.
StillPromised(b, m, v) ==
  IF v \notin bld[b].graph \/ promise[v] = <<>> \/ m.slot[v] = promise[v][1] THEN promise[v]
  ELSE IF m.slot[v] = None /\ m.prev[v] \in Range(promise[v]) THEN <<m.prev[v]>>
  ELSE <<>>

\* The registration is about to be rewritten, in place.
Registering(b) ==
  \/ bld[b].pc = "build" /\ bld[b].todo = {}
  \/ bld[b].pc = "queue" /\ bld[b].swept

\* units.json again, the registration.
Finish(b) ==
  /\ bld[b].pc = "build" /\ bld[b].todo = {}
  /\ units' = bld[b].mem
  /\ listed' = Listing(bld[b].mem)
  /\ promise' = [v \in Variants |-> Promised(b, v)]
  /\ Go(b, "sweep")
  /\ UNCHANGED <<rules, src, out, inc, pend, arch, stored, lock, pk, clock, last, spoilt, count>>

\* A compile error: what was done is saved, not registered, and nothing is
\* swept.
Fails(b) ==
  /\ bld[b].pc = "rustc" /\ Count("errors")
  /\ units' = bld[b].mem
  /\ bld' = [bld EXCEPT ![b] = NoBuild]
  /\ promise' = [v \in Variants |-> StillPromised(b, bld[b].mem, v)]
  /\ UNCHANGED <<rules, src, out, inc, pend, arch, stored, listed, lock, pk, clock, last, spoilt>>
-----------------------------------------------------------------------------
(* The sweep. *)

Newer(m, v, w) == m.used[w] > m.used[v]

\* Variants no unit of this build's graph is, unused for too long or older
\* than the KeepVariants latest of their crate.
Stale(b) ==
  LET m == bld[b].mem
      older(c) == {v \in c \ bld[b].graph : m.slot[v] # None}
  IN  {v \in Variants : \E c \in Crates : v \in older(c) /\
        (\/ m.used[v] < bld[b].at - KeepFor
         \/ Cardinality({w \in older(c) : Newer(m, v, w)}) >= KeepVariants)}

\* The part of the promise a sweep takes back, by its own definition: of what
\* this build did not ask for, the latest variants used not too long ago stay.
Kept(b, v) ==
  \/ v \in bld[b].graph
  \/ /\ bld[b].mem.used[v] >= bld[b].at - KeepFor
     /\ Cardinality({w \in CrateOf(v) \ bld[b].graph : Newer(bld[b].mem, v, w)}) < KeepVariants

SweepState(b) ==
  /\ bld[b].pc = "sweep"
  /\ bld' = [bld EXCEPT ![b].pc = "files",
       ![b].mem = [slot |-> Cleared(@.slot, Stale(b)), prev |-> Cleared(@.prev, Stale(b)),
                   used |-> [v \in Variants |-> IF v \in Stale(b) THEN 0 ELSE @.used[v]]]]
  /\ promise' = [v \in Variants |-> IF Kept(b, v) THEN promise[v] ELSE <<>>]
  /\ UNCHANGED <<rules, src, disk, stored, listed, lock, pk, clock, last, spoilt, count>>

Live(b) == {v \in Variants : bld[b].mem.slot[v] # None}

\* Of a variant that owns nothing any more, outputs are removed and the cache
\* is moved aside (not over one that waits there already), in any order.
SweepOne(b) ==
  /\ bld[b].pc = "files"
  /\ \E v \in Variants \ Live(b) :
       \/ /\ out[v] # None
          /\ out' = [out EXCEPT ![v] = None]
          /\ bld' = [bld EXCEPT ![b].swept = TRUE]
          /\ UNCHANGED <<inc, pend, spoilt>>
       \/ /\ inc[v] # None /\ KeepVariants > 0
          /\ bld' = [bld EXCEPT ![b].swept = TRUE,
                                ![b].moved = IF pend[v] = None THEN @ \cup {v} ELSE @]
          /\ inc' = [inc EXCEPT ![v] = IF pend[v] = None THEN None ELSE @]
          /\ pend' = [pend EXCEPT ![v] = IF @ = None THEN inc[v] ELSE @]
          /\ spoilt' = IF Packing(v) THEN spoilt \cup {v} ELSE spoilt
          /\ UNCHANGED out
       \/ /\ inc[v] # None /\ KeepVariants = 0
          /\ inc' = [inc EXCEPT ![v] = None]
          /\ spoilt' = spoilt \cup {v}
          /\ bld' = [bld EXCEPT ![b].swept = TRUE]
          /\ UNCHANGED <<out, pend>>
  /\ UNCHANGED <<rules, src, units, arch, stored, listed, lock, pk, clock, promise, last, count>>

\* After a cache was moved: an archive whose cache is back goes, and of the
\* entries of the others, packed or still waiting, the latest of each crate
\* stay (a directory is never removed).
Aside(b) ==
  {e \in (Variants \ Live(b)) \X {"pending", "tar.zst"} :
     IF e[2] = "pending" THEN pend[e[1]] # None ELSE arch[e[1]] # None}
AsideOf(b, c) == {e \in Aside(b) : e[1] \in c}
SetAside(e) == IF e[2] = "pending" THEN pend[e[1]].at ELSE arch[e[1]].at

\* Faulty: archives of all crates count.
ExcessAnyCrate(b) ==
  {e \in Aside(b) : Cardinality({o \in Aside(b) : SetAside(o) > SetAside(e)}) >= ArchivesPerCrate}

Excess(b) ==
  {e \in Aside(b) :
     Cardinality({o \in AsideOf(b, CrateOf(e[1])) : SetAside(o) > SetAside(e)}) >= ArchivesPerCrate}

Swept(b) ==
  /\ bld[b].pc = "files"
  /\ \A v \in Variants \ Live(b) : out[v] = None /\ (inc[v] = None \/ (pend[v] # None /\ bld[b].swept))
  /\ LET back == {v \in Live(b) : inc[v] # None}
         gone == IF bld[b].moved = {} THEN {}
                 ELSE back \cup {v \in Variants : <<v, "tar.zst">> \in Excess(b)}
     IN  /\ arch' = Cleared(arch, gone)
         /\ spoilt' = spoilt \cup
              {v \in Variants \ Live(b) : Cardinality(AsideOf(b, CrateOf(v))) > ArchivesPerCrate}
  /\ units' = IF bld[b].swept THEN bld[b].mem ELSE units
  /\ Go(b, "queue")
  /\ UNCHANGED <<rules, src, out, inc, pend, stored, listed, lock, pk, clock, promise, last, count>>

\* The registration again, and the end.
Housekeeping(b) ==
  /\ bld[b].pc = "queue"
  /\ listed' = IF bld[b].swept THEN Listing(bld[b].mem) ELSE listed
  /\ bld' = [bld EXCEPT ![b] = NoBuild]
  /\ UNCHANGED <<rules, src, disk, stored, lock, pk, clock, promise, last, spoilt, count>>
-----------------------------------------------------------------------------
(* `rb __compact', which takes no lock a build takes: units of the store   *)
(* that no project lists are removed, then caches are packed.              *)

BuildRuns == \E b \in Builders : bld[b].pc # "idle"

\* From before it looks at its units until it has registered them a build has
\* the store's lock; while it sweeps it has not.
Locked(b) == bld[b].pc \in {"check", "restore", "build", "unpacked", "rustc"}

\* The lock is only tried, and let go at once.
Probe ==
  /\ pk.pc = "idle" /\ \A b \in Builders : ~Locked(b)
  /\ rules.overlap \/ ~BuildRuns
  /\ pk' = [pc |-> "probed", hot |-> {}, todo |-> {}, beside |-> BuildRuns]
  /\ UNCHANGED <<rules, src, disk, stored, listed, lock, bld, clock, promise, last, spoilt, count>>

\* What the project lists; nothing, if it is read while it is written, or if
\* the directory is gone, which ends the registration.
ReadKeys ==
  /\ pk.pc = "probed"
  /\ \/ listed' = listed /\ pk' = [pk EXCEPT !.pc = "load", !.hot = listed]
     \/ /\ \E b \in Builders : Registering(b)
        /\ listed' = listed /\ pk' = [pk EXCEPT !.pc = "load"]
     \/ /\ ~BuildRuns /\ units = Fresh0
        /\ listed' = {} /\ pk' = [pk EXCEPT !.pc = "load"]
  /\ UNCHANGED <<rules, src, disk, stored, lock, bld, clock, promise, last, spoilt, count>>

LoadUnits ==
  /\ pk.pc = "load"
  /\ pk' = [pk EXCEPT !.pc = "drop", !.todo = stored \ pk.hot]
  /\ UNCHANGED <<rules, src, disk, stored, listed, lock, bld, clock, promise, last, spoilt, count>>

\* One by one.  What was promised is taken back if a build ran meanwhile.
RemoveUnit ==
  /\ pk.pc = "drop"
  /\ \E k \in pk.todo :
       LET lost == {v \in Variants : pk.beside /\ k \in Range(promise[v])}
       IN  /\ stored' = stored \ {k}
           /\ pk' = [pk EXCEPT !.todo = @ \ {k}]
           /\ promise' = [v \in Variants |-> IF v \in lost THEN <<>> ELSE promise[v]]
           /\ bld' = [b \in Builders |->
                IF bld[b].pc = "idle" THEN bld[b]
                ELSE [bld[b] EXCEPT !.owed = {v \in @ : v \notin bld[b].graph \/ Wants(b, v) # k}]]
  /\ UNCHANGED <<rules, src, disk, listed, lock, clock, last, spoilt, count>>

\* Then the caches that wait are packed, one after the other.
Collected ==
  /\ pk.pc = "drop" /\ pk.todo = {}
  /\ pk' = [pc |-> "pack"]
  /\ UNCHANGED <<rules, src, disk, stored, listed, lock, bld, clock, promise, last, spoilt, count>>

PackEnd ==
  /\ pk.pc = "pack"
  /\ pk' = NoPack
  /\ UNCHANGED <<rules, src, disk, stored, listed, lock, bld, clock, promise, last, spoilt, count>>

Holds(dir) == IF dir = None THEN FALSE ELSE dir.id = pk.got.id
Emptied(dir) == IF Holds(dir) THEN dir.parts = {} ELSE FALSE

PackOpen ==
  /\ pk.pc = "pack"
  /\ \E v \in Variants :
       /\ pend[v] # None
       /\ pk' = [pc |-> "read", v |-> v, got |-> pend[v]]
  /\ UNCHANGED <<rules, src, disk, stored, listed, lock, bld, clock, promise, last, spoilt, count>>

\* The directory was moved away while it was read: nothing is kept, and
\* whatever is at the path by then is removed.
PackFails ==
  /\ pk.pc = "read" /\ ~Holds(pend[pk.v])
  /\ pend' = [pend EXCEPT ![pk.v] = None]
  /\ pk' = [pc |-> "pack"]
  /\ UNCHANGED <<rules, src, units, out, inc, arch, stored, listed, lock, bld, clock, promise, last, spoilt, count>>

\* The archive is put in place when the whole directory has been read.
PackPublish ==
  /\ pk.pc = "read"
  /\ arch' = [arch EXCEPT ![pk.v] = [pk.got EXCEPT !.at = clock]]
  /\ pk' = IF pend[pk.v] = None THEN [pc |-> "pack"]
           ELSE [pk EXCEPT !.pc = "remove", !.got = pend[pk.v]]
  /\ Tick
  /\ UNCHANGED <<rules, src, units, out, inc, pend, stored, listed, lock, bld, promise, last, spoilt, count>>

\* Then the directory goes, file by file, wherever it has been moved to.
Without(dir, x) == IF Holds(dir) THEN [dir EXCEPT !.parts = @ \ {x}] ELSE dir

PackRemove ==
  /\ pk.pc = "remove"
  /\ \E x \in pk.got.parts :
       /\ inc' = [inc EXCEPT ![pk.v] = Without(@, x)]
       /\ pend' = [pend EXCEPT ![pk.v] = Without(@, x)]
       /\ pk' = [pk EXCEPT !.got.parts = @ \ {x}]
  /\ UNCHANGED <<rules, src, units, out, arch, stored, listed, lock, bld, clock, promise, last, spoilt, count>>

PackDone ==
  /\ pk.pc = "remove" /\ pk.got.parts = {}
  /\ pend' = [pend EXCEPT ![pk.v] = IF Emptied(@) THEN None ELSE @]
  /\ pk' = [pc |-> "pack"]
  /\ UNCHANGED <<rules, src, units, out, inc, arch, stored, listed, lock, bld, clock, promise, last, spoilt, count>>
-----------------------------------------------------------------------------
(* The user. *)

Edit ==
  /\ Count("edits")
  /\ \E v \in Variants, n \in Versions :
       n # src[v] /\ src' = [src EXCEPT ![v] = n]
  /\ UNCHANGED <<rules, disk, stored, listed, lock, bld, pk, clock, promise, last, spoilt>>

\* More than KeepFor goes by.
DaysPass ==
  /\ Count("days")
  /\ clock' = clock + KeepFor
  /\ UNCHANGED <<rules, src, disk, stored, listed, lock, bld, pk, promise, last, spoilt>>

Writes(b) == CASE bld[b].pc = "rustc" -> bld[b].moved
               [] bld[b].pc = "restore" -> bld[b].todo
               [] OTHER -> {}

Kill(b) ==
  /\ bld[b].pc # "idle" /\ Count("kills")
  /\ bld' = [bld EXCEPT ![b] = NoBuild]
  /\ out' = [v \in Variants |-> IF v \in Writes(b) THEN Torn ELSE out[v]]
  /\ promise' = [v \in Variants |-> StillPromised(b, units, v)]
  /\ UNCHANGED <<rules, src, units, inc, pend, arch, stored, listed, lock, pk, clock, last, spoilt>>

\* At the end the record may be saved and the registration not yet written,
\* or cut short: then no project lists anything.
KillEnding(b) ==
  /\ Registering(b) /\ Count("kills")
  /\ units' = IF bld[b].pc = "build" THEN bld[b].mem ELSE units
  /\ \/ /\ promise' = [v \in Variants |-> StillPromised(b, units', v)]
        /\ UNCHANGED listed
     \/ /\ listed' = {}
        /\ promise' = [v \in Variants |-> <<>>]
  /\ bld' = [bld EXCEPT ![b] = NoBuild]
  /\ UNCHANGED <<rules, src, out, inc, pend, arch, stored, lock, pk, clock, last, spoilt>>

KillPack ==
  /\ pk.pc # "idle" /\ Count("kills")
  /\ pk' = NoPack
  /\ spoilt' = spoilt \cup {v \in Variants : Packing(v)}
  /\ UNCHANGED <<rules, src, disk, stored, listed, lock, bld, clock, promise, last>>

\* `rb clean' asks nobody: the lock file goes with the rest.
Clean ==
  /\ Count("cleans")
  /\ units' = Fresh0 /\ out' = NoCache /\ inc' = NoCache /\ pend' = NoCache /\ arch' = NoCache
  /\ lock' = lock + 1
  /\ spoilt' = Variants
  /\ promise' = [v \in Variants |-> <<>>]
  /\ UNCHANGED <<rules, src, stored, listed, bld, pk, clock, last>>

Init ==
  /\ rules \in Rules
  /\ src = [v \in Variants |-> CHOOSE n \in Versions : TRUE]
  /\ units = Fresh0 /\ out = NoCache /\ inc = NoCache /\ pend = NoCache /\ arch = NoCache
  /\ stored = {} /\ listed = {} /\ lock = 0 /\ clock = KeepFor + 1
  /\ bld = [b \in Builders |-> NoBuild] /\ pk = NoPack
  /\ promise = [v \in Variants |-> <<>>] /\ last = [v \in Variants |-> 0] /\ spoilt = Variants
  /\ count = [builds |-> 0, edits |-> 0, days |-> 0, kills |-> 0, errors |-> 0, cleans |-> 0]

Next ==
  \/ \E b \in Builders :
       \/ Start(b) \/ CheckUnits(b) \/ Restore(b) \/ Prepare(b) \/ Unpacked(b) \/ Rustc(b)
       \/ Finish(b) \/ Fails(b)
       \/ SweepState(b) \/ SweepOne(b) \/ Swept(b) \/ Housekeeping(b) \/ Kill(b) \/ KillEnding(b)
  \/ Probe \/ ReadKeys \/ LoadUnits \/ RemoveUnit \/ Collected \/ PackEnd \/ PackOpen \/ PackFails \/ PackPublish \/ PackRemove \/ PackDone \/ KillPack
  \/ Edit \/ DaysPass \/ Clean

Spec == Init /\ [][Next]_vars
-----------------------------------------------------------------------------
(* units.json never lies: a slot names the key whose output is at the      *)
(* path, or there is none; whatever was swept, killed or cleaned, and      *)
(* whichever version came back (build.rs "Fresh only while it owns the     *)
(* slot").                                                                 *)
SlotsHonest ==
  \A v \in Variants : units.slot[v] # None => out[v] \in {None, units.slot[v]}

(* What README.md promises of keep-variants: neither going back to the     *)
(* version an edit replaced, nor to a variant that is still kept, runs     *)
(* rustc again.  It is promised of versions that a build which ended well  *)
(* left in the store and in the registration; a compaction takes it back   *)
(* for a unit it removes when a build ran after it had tried the store's   *)
(* lock, and so does a registration that a kill cuts short (build.rs       *)
(* compact "Don't take the shared build lock").                            *)
PromiseKept ==
  \A b \in Builders : bld[b].pc \in {"build", "unpacked", "rustc"} =>
    bld[b].todo \cap bld[b].owed = {}

(* A variant that comes back gets its incremental cache back, the one its  *)
(* last session wrote and all of it, unless that was pruned, cleaned away, *)
(* or compaction was killed or overtaken while it packed it (exec.rs "A    *)
(* variant that comes back gets its archived incremental cache back").     *)
CacheComesBack ==
  \A b \in Builders : bld[b].pc = "rustc" => \A v \in bld[b].moved \ spoilt :
    inc[v] # None /\ inc[v].parts = Parts /\ inc[v].session = last[v]
=============================================================================
