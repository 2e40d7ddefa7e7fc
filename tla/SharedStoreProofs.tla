------------------------- MODULE SharedStoreProofs -------------------------
(***************************************************************************)
(* The shape of every reachable state of SharedStore, for any number of    *)
(* projects, builds, keys and inputs, with compaction, `rb store gc` and   *)
(* kills at any moment: types, and the exclusion the types rest on.        *)
(***************************************************************************)
EXTENDS SharedStore, TLAPS

-----------------------------------------------------------------------------
(* Types, part by part. *)

BuildState ==
  [pc : BuildPcs, key : Keys \cup {None}, env : Inputs \cup {None},
   held : BOOLEAN, hit : Digests \cup {None}, rd : Keys \cup {None},
   mem : SUBSET Entry, sup : SUBSET Keys]

GcState ==
  [pc : GcPcs, todo : SUBSET Job, job : Job \cup {None},
   digest : Digests \cup {None}, mem : SUBSET Entry, hot : SUBSET Keys,
   queued : SUBSET Keys, units : SUBSET Keys, live : SUBSET Digests,
   gone : SUBSET Digests, blobs : SUBSET Digests]

ProjectTyped ==
  /\ src \in [Projects -> Keys]
  /\ target \in SUBSET Projects
  /\ file \in [Projects -> Digests \cup {None}]
  /\ linked \in SUBSET {p \in Projects : file[p] # None}
  /\ slot \in [Projects -> Owner \cup {None}]
  /\ prev \in [Projects -> Keys \cup {None}]

StoreTyped ==
  /\ cas \in [Digests -> Digests \cup {None}]
  /\ old \in SUBSET Digests
  /\ manifest \in [Keys -> SUBSET Entry]

QueueTyped ==
  /\ reg \in [Projects -> SUBSET Keys]
  /\ jobs \in SUBSET Job
  /\ rmq \in SUBSET Keys
  /\ spawned \in BOOLEAN

BuildTyped == bld \in [Builds -> BuildState]
GcTyped    == gc \in [Collectors -> GcState]

Typed == ProjectTyped /\ StoreTyped /\ QueueTyped /\ BuildTyped /\ GcTyped

\* The parts make up TypeOK.
LEMMA TypedIsTypeOK == Typed <=> TypeOK
BY DEF Typed, ProjectTyped, StoreTyped, QueueTyped, BuildTyped, GcTyped, TypeOK,
       BuildState, GcState

-----------------------------------------------------------------------------
(* What keeps the types: who holds what, and what a process knows in each   *)
(* phase.                                                                   *)

\* At most one build of a project is past the build directory's lock.
OneHolder ==
  \A b, c \in Builds :
    b # c /\ ProjectOf[b] = ProjectOf[c] => ~(HoldsTarget(b) /\ HoldsTarget(c))

\* What a build in state r, with f at its output path, knows.
PhaseOf(r, f) ==
  /\ r.pc # "idle" => r.key \in Keys /\ r.env \in Inputs
  /\ r.pc = "restore" => r.hit # None
  /\ r.pc = "emit" => r.rd # None
  /\ r.pc \in {"store", "merge", "upsert"} => f \in Contents

Phase(b) == PhaseOf(bld[b], file[ProjectOf[b]])

GcPhase(g) ==
  /\ gc[g].pc \in {"check", "hash", "place", "merge", "upsert"} => gc[g].job \in Job
  /\ gc[g].pc \in {"place", "merge", "upsert"} => gc[g].digest \in Digests

Shape ==
  /\ Typed /\ OneHolder
  /\ \A b \in Builds : Phase(b)
  /\ \A g \in Collectors : GcPhase(g)

\* None is none of the things it stands beside.
LEMMA Distinct ==
  /\ None \notin Digests /\ None \notin Keys
  /\ Contents \subseteq Digests /\ Torn \in Digests
BY SharedStoreAssumption DEF Digests

-----------------------------------------------------------------------------
(* One process moves and the others stand still. *)

\* A build's step that changes the output path is taken under the lock on the
\* build directory.
Mine(b) ==
  \/ file' = file
  \/ HoldsTarget(b) /\ \A p \in Projects \ {ProjectOf[b]} : file'[p] = file[p]

Alone(b) == \A c \in Builds \ {b} : ProjectOf[c] = ProjectOf[b] => ~HoldsTarget(c)

\* Build b goes from its state to r.
Moves(b, r) == bld' = [bld EXCEPT ![b] = r]

\* Only the build that moves changes its state.
LEMMA Moved ==
  ASSUME BuildTyped, NEW b \in Builds, NEW r \in BuildState, Moves(b, r)
  PROVE  BuildTyped' /\ bld'[b] = r /\ \A c \in Builds \ {b} : bld'[c] = bld[c]
BY DEF BuildTyped, Moves

\* What a step of a build has to show to keep the shape.
LEMMA BuildMoves ==
  ASSUME Shape, NEW b \in Builds, NEW r \in BuildState, Moves(b, r),
         r.pc \in Unlocked \/ HoldsTarget(b) \/ Alone(b),
         Mine(b), PhaseOf(r, file'[ProjectOf[b]]), gc' = gc,
         ProjectTyped', StoreTyped', QueueTyped'
  PROVE  Shape'
<1>1. BuildTyped' /\ bld'[b] = r /\ \A c \in Builds \ {b} : bld'[c] = bld[c]
  BY Moved DEF Shape, Typed
<1>2. Typed'
  BY <1>1 DEF Shape, Typed, GcTyped
<1>3. OneHolder'
  BY <1>1 DEF Shape, OneHolder, HoldsTarget, Alone
<1>4. ASSUME NEW c \in Builds PROVE Phase(c)'
  <2>1. CASE c = b
    BY <1>1, <2>1 DEF Phase
  <2>2. CASE c # b
    <3>1. bld'[c] = bld[c] /\ Phase(c)
      BY <1>1, <2>2 DEF Shape
    <3>2. CASE file'[ProjectOf[c]] = file[ProjectOf[c]]
      BY <3>1, <3>2 DEF Phase
    <3>3. CASE file'[ProjectOf[c]] # file[ProjectOf[c]]
      <4>1. HoldsTarget(b) /\ ProjectOf[c] = ProjectOf[b]
        BY <3>3, SharedStoreAssumption DEF Mine
      <4>2. bld[c].pc \in Unlocked
        BY <2>2, <4>1 DEF Shape, OneHolder, HoldsTarget
      <4> QED
        BY <3>1, <4>2 DEF Phase, PhaseOf, Unlocked
    <3> QED
      BY <3>2, <3>3
  <2> QED
    BY <2>1, <2>2
<1>5. \A g \in Collectors : GcPhase(g)'
  BY DEF Shape, GcPhase
<1> QED
  BY <1>2, <1>3, <1>4, <1>5 DEF Shape

\* A collector's step leaves builds and their files alone.
LEMMA GcMoves ==
  ASSUME Shape, NEW g \in Collectors, NEW r \in GcState, NewGc(g, r),
         r.pc \in {"check", "hash", "place", "merge", "upsert"} => r.job \in Job,
         r.pc \in {"place", "merge", "upsert"} => r.digest \in Digests,
         bld' = bld, file' = file, ProjectTyped', StoreTyped', QueueTyped'
  PROVE  Shape'
<1>1. gc' = [gc EXCEPT ![g] = r] /\ GcTyped
  BY DEF NewGc, Shape, Typed
<1>2. gc'[g] = r /\ \A h \in Collectors \ {g} : gc'[h] = gc[h]
  BY <1>1 DEF GcTyped
<1>3. Typed'
  BY <1>1 DEF Shape, Typed, GcTyped, BuildTyped
<1>4. \A h \in Collectors : GcPhase(h)'
  BY <1>2 DEF Shape, GcPhase
<1>5. OneHolder' /\ \A b \in Builds : Phase(b)'
  BY DEF Shape, OneHolder, HoldsTarget, Phase
<1> QED
  BY <1>3, <1>4, <1>5 DEF Shape

\* The parts a step leaves alone keep their types.
LEMMA Unchanged ==
  ASSUME Shape
  PROVE  /\ UNCHANGED project => ProjectTyped'
         /\ UNCHANGED store => StoreTyped'
         /\ UNCHANGED queues => QueueTyped'
<1>1. ProjectTyped /\ StoreTyped /\ QueueTyped
  BY DEF Shape, Typed
<1> QED
  BY <1>1 DEF project, store, queues, ProjectTyped, StoreTyped, QueueTyped

\* A step of a build that changes nothing but the build.
LEMMA BuildOnly ==
  ASSUME Shape, NEW b \in Builds, NEW r \in BuildState, Moves(b, r),
         r.pc \in Unlocked \/ HoldsTarget(b),
         PhaseOf(r, file[ProjectOf[b]]), UNCHANGED <<project, store, queues, gc>>
  PROVE  Shape'
<1>1. ProjectTyped' /\ StoreTyped' /\ QueueTyped'
  BY Unchanged
<1>2. Mine(b) /\ PhaseOf(r, file'[ProjectOf[b]])
  BY DEF Mine, project
<1> QED
  BY <1>1, <1>2, BuildMoves

\* What Shape says of one build.
LEMMA OfBuild ==
  ASSUME Shape, NEW b \in Builds
  PROVE  /\ bld \in [Builds -> BuildState] /\ bld[b] \in BuildState
         /\ ProjectOf[b] \in Projects
         /\ PhaseOf(bld[b], file[ProjectOf[b]])
BY SharedStoreAssumption DEF Shape, Typed, BuildTyped, Phase

\* Planning takes the key from the sources.
LEMMA PlanShape ==
  ASSUME Shape, NEW b \in Builds, Plan(b) PROVE Shape'
<1>1. src[ProjectOf[b]] \in Keys
  BY OfBuild DEF Shape, Typed, ProjectTyped
<1>2. PICK i \in Inputs :
        bld' = [bld EXCEPT ![b].pc = "planned", ![b].key = src[ProjectOf[b]], ![b].env = i]
  BY DEF Plan
<1> DEFINE r == [bld[b] EXCEPT !.pc = "planned", !.key = src[ProjectOf[b]], !.env = i]
<1>3. r \in BuildState
  BY <1>1, OfBuild DEF BuildState, BuildPcs
<1>4. Moves(b, r)
  BY <1>2, OfBuild DEF BuildState, Moves
<1>5. r.pc \in Unlocked /\ PhaseOf(r, file[ProjectOf[b]])
  BY <1>1, OfBuild DEF PhaseOf, BuildState, Unlocked
<1> HIDE DEF r
<1> QED
  BY <1>3, <1>4, <1>5, BuildOnly DEF Plan

\* The plain moves: a lock, a hit on a fresh unit, a miss.
LEMMA GotoShape ==
  ASSUME Shape, NEW b \in Builds, NEW q \in BuildPcs, Goto(b, q),
         bld[b].pc \notin Unlocked,
         q \notin {"touch", "restore", "emit", "store", "upsert", "merge"},
         UNCHANGED <<project, store, queues, gc>>
  PROVE  Shape'
<1> DEFINE r == [bld[b] EXCEPT !.pc = q]
<1>1. r \in BuildState /\ Moves(b, r)
  BY OfBuild DEF BuildState, Moves, Goto
<1>2. PhaseOf(r, file[ProjectOf[b]])
  BY OfBuild DEF PhaseOf, BuildState, Unlocked
<1> HIDE DEF r
<1> QED
  BY <1>1, <1>2, BuildOnly DEF HoldsTarget

\* A hit names a blob.
LEMMA LookupShape ==
  ASSUME Shape, NEW b \in Builds, LookupHit(b) PROVE Shape'
<1>1. bld[b].pc = "lookup" /\ bld[b].key \in Keys
  BY OfBuild DEF LookupHit, PhaseOf
<1>2. PICK e \in Usable(bld[b].key, bld[b].env) :
        \/ bld' = [bld EXCEPT ![b].pc = AfterHit(b), ![b].hit = e.blob]
        \/ bld' = [bld EXCEPT ![b].pc = "touch", ![b].hit = e.blob,
                              ![b].mem = manifest[bld[b].key]]
  BY DEF LookupHit
<1>3. e.blob \in Digests /\ e.blob # None /\ manifest[bld[b].key] \in SUBSET Entry
  BY <1>1, Distinct DEF Usable, Entry, Shape, Typed, StoreTyped
<1>4. AfterHit(b) \in {"restore", "release"}
  BY DEF AfterHit
<1> DEFINE r == [bld[b] EXCEPT !.pc = AfterHit(b), !.hit = e.blob]
           t == [bld[b] EXCEPT !.pc = "touch", !.hit = e.blob,
                               !.mem = manifest[bld[b].key]]
<1>5. r \in BuildState /\ t \in BuildState
  BY <1>3, <1>4, OfBuild DEF BuildState, BuildPcs
<1>6. Moves(b, r) \/ Moves(b, t)
  BY <1>2, OfBuild DEF BuildState, Moves
<1>7. PhaseOf(r, file[ProjectOf[b]]) /\ PhaseOf(t, file[ProjectOf[b]])
  BY <1>1, <1>3, <1>4, OfBuild DEF PhaseOf, BuildState
<1>8. HoldsTarget(b) /\ UNCHANGED <<project, store, queues, gc>>
  BY <1>1 DEF HoldsTarget, Unlocked, LookupHit
<1> HIDE DEF r, t
<1> QED
  BY <1>5, <1>6, <1>7, <1>8, BuildOnly

\* A fresh unit's manifest is read to be written back.
LEMMA FreshUnusedShape ==
  ASSUME Shape, NEW b \in Builds, FreshUnused(b) PROVE Shape'
<1> DEFINE r == [bld[b] EXCEPT !.pc = "touch", !.mem = manifest[bld[b].key]]
<1>1. bld[b].pc = "lookup" /\ bld[b].key \in Keys
  BY OfBuild DEF FreshUnused, PhaseOf
<1>2. manifest[bld[b].key] \in SUBSET Entry
  BY <1>1 DEF Shape, Typed, StoreTyped
<1>3. r \in BuildState /\ Moves(b, r)
  BY <1>2, OfBuild DEF BuildState, BuildPcs, Moves, FreshUnused
<1>4. PhaseOf(r, file[ProjectOf[b]])
  BY <1>1, OfBuild DEF PhaseOf, BuildState
<1>5. HoldsTarget(b) /\ UNCHANGED <<project, store, queues, gc>>
  BY <1>1 DEF HoldsTarget, Unlocked, FreshUnused
<1> HIDE DEF r
<1> QED
  BY <1>3, <1>4, <1>5, BuildOnly

\* Taking the lock on the unit.
LEMMA UnitLockShape ==
  ASSUME Shape, NEW b \in Builds, TakeUnitLock(b) PROVE Shape'
<1> DEFINE r == [bld[b] EXCEPT !.pc = "lookup", !.held = TRUE]
<1>1. bld[b].pc \notin Unlocked
  BY DEF TakeUnitLock, Unlocked
<1>2. r \in BuildState
  BY OfBuild DEF BuildState, BuildPcs
<1>3. Moves(b, r)
  BY OfBuild DEF TakeUnitLock, BuildState, Moves
<1>4. PhaseOf(r, file[ProjectOf[b]])
  BY <1>1, OfBuild DEF TakeUnitLock, PhaseOf, BuildState, Unlocked
<1> HIDE DEF r
<1> QED
  BY <1>1, <1>2, <1>3, <1>4, BuildOnly DEF TakeUnitLock, HoldsTarget

\* A compile error ends the work on the unit.
LEMMA RustcFailsShape ==
  ASSUME Shape, NEW b \in Builds, RustcFails(b) PROVE Shape'
<1> DEFINE r == [bld[b] EXCEPT !.pc = "failed", !.rd = None, !.held = FALSE]
<1>1. bld[b].pc \notin Unlocked
  BY DEF RustcFails, Unlocked
<1>2. r \in BuildState
  BY OfBuild DEF BuildState, BuildPcs
<1>3. Moves(b, r)
  BY OfBuild DEF RustcFails, BuildState, Moves
<1>4. PhaseOf(r, file[ProjectOf[b]])
  BY <1>1, OfBuild DEF RustcFails, PhaseOf, BuildState, Unlocked
<1> HIDE DEF r
<1> QED
  BY <1>1, <1>2, <1>3, <1>4, BuildOnly DEF RustcFails, HoldsTarget

\* A failed ingest goes on to save the state.
LEMMA StoreFailsShape ==
  ASSUME Shape, NEW b \in Builds, StoreFails(b) PROVE Shape'
<1> DEFINE r == [bld[b] EXCEPT !.pc = "save", !.mem = {}, !.held = FALSE]
<1>1. bld[b].pc \notin Unlocked
  BY DEF StoreFails, Unlocked
<1>2. r \in BuildState
  BY OfBuild DEF BuildState, BuildPcs
<1>3. Moves(b, r)
  BY OfBuild DEF StoreFails, BuildState, Moves
<1>4. PhaseOf(r, file[ProjectOf[b]])
  BY <1>1, OfBuild DEF StoreFails, PhaseOf, BuildState, Unlocked
<1> HIDE DEF r
<1> QED
  BY <1>1, <1>2, <1>3, <1>4, BuildOnly DEF StoreFails, HoldsTarget

\* The manifest that is read is a set of entries.
LEMMA LoadShape ==
  ASSUME Shape, NEW b \in Builds, LoadManifest(b) PROVE Shape'
<1> DEFINE r == [bld[b] EXCEPT !.pc = "upsert", !.mem = manifest[bld[b].key]]
<1>1. bld[b].pc = "merge" /\ bld[b].key \in Keys
  BY OfBuild DEF LoadManifest, PhaseOf
<1>2. manifest[bld[b].key] \in SUBSET Entry
  BY <1>1 DEF Shape, Typed, StoreTyped
<1>3. r \in BuildState
  BY <1>2, OfBuild DEF BuildState, BuildPcs
<1>4. Moves(b, r)
  BY OfBuild DEF LoadManifest, BuildState, Moves
<1>5. PhaseOf(r, file[ProjectOf[b]])
  BY <1>1, OfBuild DEF PhaseOf, BuildState
<1> HIDE DEF r
<1> QED
  BY <1>1, <1>3, <1>4, <1>5, BuildOnly DEF LoadManifest, HoldsTarget, Unlocked

\* A build that ends, or is killed.
LEMMA NoBuildTyped == NoBuild \in BuildState /\ \A f : PhaseOf(NoBuild, f)
BY DEF NoBuild, BuildState, BuildPcs, PhaseOf

\* A build that gives up or is killed knows nothing any more.
LEMMA EndShape ==
  ASSUME Shape, NEW b \in Builds, GiveUp(b) \/ Crash(b) PROVE Shape'
<1>1. Moves(b, NoBuild) /\ UNCHANGED <<project, store, gc>>
  BY DEF GiveUp, Crash, Moves
<1>2. NoBuild.pc \in Unlocked /\ Mine(b)
  BY <1>1 DEF NoBuild, Unlocked, Mine, project
<1>3. QueueTyped'
  <2>1. \/ UNCHANGED queues
        \/ reg' = [reg EXCEPT ![ProjectOf[b]] = {}] /\ UNCHANGED <<jobs, rmq, spawned>>
    BY DEF GiveUp, Crash, HalfRegistered, queues
  <2> QED
    BY <2>1, Unchanged DEF Shape, Typed, QueueTyped
<1> QED
  BY <1>1, <1>2, <1>3, NoBuildTyped, Unchanged, BuildMoves

\* The exclusive lock on the build directory: nobody else is past it.
LEMMA TargetLockShape ==
  ASSUME Shape, NEW b \in Builds, TakeTargetLock(b) PROVE Shape'
<1> DEFINE r == [bld[b] EXCEPT !.pc = "target"]
<1>1. r \in BuildState /\ Moves(b, r)
  BY OfBuild DEF BuildState, BuildPcs, Moves, TakeTargetLock, Goto
<1>2. PhaseOf(r, file[ProjectOf[b]])
  BY OfBuild DEF TakeTargetLock, PhaseOf, BuildState
<1>3. Alone(b) /\ Mine(b) /\ PhaseOf(r, file'[ProjectOf[b]])
  BY <1>2 DEF TakeTargetLock, Alone, Mine
<1>4. ProjectTyped'
  BY OfBuild DEF TakeTargetLock, Shape, Typed, ProjectTyped
<1>5. StoreTyped' /\ QueueTyped' /\ gc' = gc
  BY Unchanged DEF TakeTargetLock
<1> HIDE DEF r
<1> QED
  BY <1>1, <1>3, <1>4, <1>5, BuildMoves

\* Writing a manifest back as it was read.
LEMMA TouchShape ==
  ASSUME Shape, NEW b \in Builds, Touch(b) PROVE Shape'
<1> DEFINE r == [bld[b] EXCEPT !.pc = AfterTouch(b), !.mem = {}]
<1>1. /\ bld[b].pc = "touch" /\ bld[b].key \in Keys /\ bld[b].mem \in SUBSET Entry
      /\ bld[b].env \in Inputs
  BY OfBuild DEF Touch, PhaseOf, BuildState
<1>2. \/ AfterTouch(b) = "finish"
      \/ AfterTouch(b) \in {"restore", "release"} /\ bld[b].hit # None
  BY DEF AfterTouch, AfterHit
<1>3. r \in BuildState /\ Moves(b, r)
  BY <1>2, OfBuild DEF BuildState, BuildPcs, Moves, Touch
<1>4. PhaseOf(r, file[ProjectOf[b]])
  BY <1>1, <1>2, OfBuild DEF PhaseOf, BuildState
<1>5. HoldsTarget(b) /\ Mine(b) /\ PhaseOf(r, file'[ProjectOf[b]])
  BY <1>1, <1>4 DEF Touch, HoldsTarget, Unlocked, Mine, project
<1>6. StoreTyped'
  BY <1>1 DEF Touch, Shape, Typed, StoreTyped
<1>7. ProjectTyped' /\ QueueTyped' /\ gc' = gc
  BY Unchanged DEF Touch
<1> HIDE DEF r
<1> QED
  BY <1>3, <1>5, <1>6, <1>7, BuildMoves

\* The slot is given up, and its key remembered or superseded.
LEMMA ReleaseShape ==
  ASSUME Shape, NEW b \in Builds, ReleaseSlot(b) PROVE Shape'
<1> DEFINE p == ProjectOf[b]
           q == IF bld[b].hit # None THEN "restore" ELSE "execute"
           r == [bld[b] EXCEPT !.sup = Superseded(b), !.pc = q]
<1>1. bld[b].pc = "release" /\ q \in {"restore", "execute"}
  BY DEF ReleaseSlot
<1>2. slot[p] = None \/ slot[p] \in Owner
  BY OfBuild DEF Shape, Typed, ProjectTyped
<1>3. slot[p] # None => slot[p].key \in Keys
  BY <1>2 DEF Owner
<1>4. Superseded(b) \in SUBSET Keys
  BY <1>3, OfBuild DEF Superseded, Shape, Typed, ProjectTyped
<1>5. r \in BuildState
  <2>1. q \in BuildPcs
    BY <1>1 DEF BuildPcs
  <2>2. bld[b] \in BuildState
    BY OfBuild
  <2> HIDE DEF q
  <2> QED
    BY <1>4, <2>1, <2>2 DEF BuildState
<1>6. Moves(b, r)
  BY OfBuild DEF BuildState, Moves, ReleaseSlot
<1>7. PhaseOf(r, file[p])
  BY <1>1, OfBuild DEF PhaseOf, BuildState
<1>8. HoldsTarget(b) /\ Mine(b) /\ PhaseOf(r, file'[ProjectOf[b]])
  BY <1>1, <1>7 DEF ReleaseSlot, HoldsTarget, Unlocked, Mine
<1>9. ProjectTyped'
  BY <1>3, OfBuild DEF ReleaseSlot, Shape, Typed, ProjectTyped
<1>10. StoreTyped' /\ QueueTyped' /\ gc' = gc
  BY Unchanged DEF ReleaseSlot
<1> HIDE DEF r
<1> QED
  BY <1>5, <1>6, <1>8, <1>9, <1>10, BuildMoves

\* A hit is placed at the output path, by copy or link.
LEMMA RestoreShape ==
  ASSUME Shape, NEW b \in Builds, Restore(b) PROVE Shape'
<1> DEFINE p == ProjectOf[b]
           h == bld[b].hit
           r == [bld[b] EXCEPT !.pc = "save", !.hit = None, !.held = FALSE]
           m == [bld[b] EXCEPT !.pc = "missing", !.hit = None, !.held = FALSE]
<1>1. bld[b].pc = "restore" /\ h \in Digests /\ p \in Projects
  BY OfBuild DEF Restore, PhaseOf, BuildState
<1>2. r \in BuildState /\ m \in BuildState
  BY OfBuild DEF BuildState, BuildPcs
<1>3. HoldsTarget(b) /\ \A f : PhaseOf(r, f) /\ PhaseOf(m, f)
  BY <1>1, OfBuild DEF PhaseOf, BuildState, HoldsTarget, Unlocked
<1>4. StoreTyped' /\ QueueTyped' /\ gc' = gc
  BY Unchanged DEF Restore
<1>5. CASE HasBlob(h)
  <2>1. Moves(b, r)
    BY <1>5, OfBuild DEF BuildState, Moves, Restore
  <2>2. PICK d \in Digests : d # None /\ file' = [file EXCEPT ![p] = d]
    BY <1>1, <1>5, Distinct DEF Restore, HasBlob, Shape, Typed, StoreTyped
  <2>3. linked' \in {linked, linked \cup {p}, linked \ {p}}
    BY <1>5 DEF Restore
  <2>4. ProjectTyped'
    BY <1>1, <2>2, <2>3 DEF Restore, Shape, Typed, ProjectTyped
  <2>5. Mine(b)
    BY <1>1, <1>3, <2>2 DEF Mine, Shape, Typed, ProjectTyped
  <2> HIDE DEF r
  <2> QED
    BY <1>2, <1>3, <1>4, <2>1, <2>4, <2>5, BuildMoves
<1>6. CASE ~HasBlob(h)
  <2>1. Moves(b, m)
    BY <1>6, OfBuild DEF BuildState, Moves, Restore
  <2>2. UNCHANGED <<project, store, queues, gc>>
    BY <1>6 DEF Restore, project
  <2> HIDE DEF m
  <2> QED
    BY <1>2, <1>3, <2>1, <2>2, BuildOnly
<1> QED
  BY <1>5, <1>6

\* The output path gets other bytes, or none, and nothing links it.
LEMMA OutputWritten ==
  ASSUME Shape, NEW b \in Builds, NEW f \in Digests \cup {None},
         file' = [file EXCEPT ![ProjectOf[b]] = f],
         linked' \subseteq linked, f = None => ProjectOf[b] \notin linked',
         HoldsTarget(b), UNCHANGED <<src, target, slot, prev>>
  PROVE  ProjectTyped' /\ Mine(b) /\ file'[ProjectOf[b]] = f
<1>1. ProjectTyped'
  BY OfBuild DEF Shape, Typed, ProjectTyped
<1>2. Mine(b) /\ file'[ProjectOf[b]] = f
  BY OfBuild DEF Mine, Shape, Typed, ProjectTyped
<1> QED
  BY <1>1, <1>2

\* Old artifacts are unlinked.
LEMMA CompileShape ==
  ASSUME Shape, NEW b \in Builds, StartCompile(b) PROVE Shape'
<1> DEFINE r == [bld[b] EXCEPT !.pc = "rustc"]
<1>1. r \in BuildState /\ Moves(b, r) /\ bld[b].pc = "compile"
  BY OfBuild DEF BuildState, BuildPcs, Moves, StartCompile, Goto
<1>2. \A f : PhaseOf(r, f)
  BY <1>1, OfBuild DEF PhaseOf, BuildState
<1>3. HoldsTarget(b)
  BY <1>1 DEF HoldsTarget, Unlocked
<1>4. ProjectTyped' /\ Mine(b)
  BY <1>3, OutputWritten DEF StartCompile
<1>5. StoreTyped' /\ QueueTyped' /\ gc' = gc
  BY Unchanged DEF StartCompile
<1> HIDE DEF r
<1> QED
  BY <1>1, <1>2, <1>3, <1>4, <1>5, BuildMoves

\* rustc opens the sources and its output.
LEMMA ReadsShape ==
  ASSUME Shape, NEW b \in Builds, RustcReads(b) PROVE Shape'
<1> DEFINE k == src[ProjectOf[b]]
           r == [bld[b] EXCEPT !.pc = "emit", !.rd = k]
<1>1. bld[b].pc = "rustc" /\ k \in Keys
  BY OfBuild DEF RustcReads, Shape, Typed, ProjectTyped
<1>2. r \in BuildState
  BY <1>1, OfBuild DEF BuildState, BuildPcs
<1>3. Moves(b, r)
  BY OfBuild DEF BuildState, Moves, RustcReads
<1>4. \A f : PhaseOf(r, f)
  BY <1>1, OfBuild, Distinct DEF PhaseOf, BuildState
<1>5. HoldsTarget(b)
  BY <1>1 DEF HoldsTarget, Unlocked
<1>6. ProjectTyped' /\ Mine(b)
  BY <1>5, OutputWritten, Distinct DEF RustcReads
<1>7. StoreTyped' /\ QueueTyped' /\ gc' = gc
  BY Unchanged DEF RustcReads
<1> HIDE DEF r
<1> QED
  BY <1>2, <1>3, <1>4, <1>5, <1>6, <1>7, BuildMoves

\* rustc finishes its output.
LEMMA EmitsShape ==
  ASSUME Shape, NEW b \in Builds, RustcEmits(b) PROVE Shape'
<1> DEFINE f == Compile[bld[b].rd, bld[b].env]
           r == [bld[b] EXCEPT !.pc = "store", !.rd = None]
<1>1. bld[b].pc = "emit" /\ bld[b].rd \in Keys /\ bld[b].env \in Inputs
  BY OfBuild DEF RustcEmits, PhaseOf, BuildState
<1>2. f \in Contents
  BY <1>1, SharedStoreAssumption
<1>3. r \in BuildState /\ Moves(b, r)
  BY OfBuild DEF BuildState, BuildPcs, Moves, RustcEmits
<1>4. PhaseOf(r, f)
  BY <1>1, <1>2, OfBuild DEF PhaseOf, BuildState
<1>5. HoldsTarget(b)
  BY <1>1 DEF HoldsTarget, Unlocked
<1>6. f \in Digests /\ f # None
  BY <1>2, Distinct
<1>7. file' = [file EXCEPT ![ProjectOf[b]] = f]
  BY DEF RustcEmits
<1> HIDE DEF r, f
<1>8. ProjectTyped' /\ Mine(b) /\ file'[ProjectOf[b]] = f
  BY <1>5, <1>6, <1>7, OutputWritten DEF RustcEmits
<1>9. StoreTyped' /\ QueueTyped' /\ gc' = gc
  BY Unchanged DEF RustcEmits
<1> QED
  BY <1>3, <1>4, <1>5, <1>8, <1>9, BuildMoves

\* A big output is queued.
LEMMA DeferShape ==
  ASSUME Shape, NEW b \in Builds, DeferIngest(b) PROVE Shape'
<1> DEFINE r == [bld[b] EXCEPT !.pc = "save", !.held = FALSE]
<1>1. bld[b].pc = "store" /\ bld[b].key \in Keys /\ bld[b].env \in Inputs
  BY OfBuild DEF DeferIngest, PhaseOf
<1>2. r \in BuildState /\ Moves(b, r)
  BY OfBuild DEF BuildState, BuildPcs, Moves, DeferIngest
<1>3. \A f : PhaseOf(r, f)
  BY <1>1, OfBuild DEF PhaseOf, BuildState
<1>4. HoldsTarget(b) /\ Mine(b)
  BY <1>1 DEF DeferIngest, HoldsTarget, Unlocked, Mine, project
<1>5. QueueTyped'
  BY <1>1, OfBuild DEF DeferIngest, Shape, Typed, QueueTyped, Job
<1>6. ProjectTyped' /\ StoreTyped' /\ gc' = gc
  BY Unchanged DEF DeferIngest
<1> HIDE DEF r
<1> QED
  BY <1>2, <1>3, <1>4, <1>5, <1>6, BuildMoves

\* An output is placed in the store.
LEMMA IngestShape ==
  ASSUME Shape, NEW b \in Builds, Ingest(b) PROVE Shape'
<1> DEFINE d == file[ProjectOf[b]]
           r == [bld[b] EXCEPT !.pc = "merge"]
<1>1. bld[b].pc = "store" /\ bld[b].key \in Keys /\ bld[b].env \in Inputs /\ d \in Contents
  BY OfBuild DEF Ingest, PhaseOf
<1>2. r \in BuildState /\ Moves(b, r)
  BY OfBuild DEF BuildState, BuildPcs, Moves, Ingest, Goto
<1>3. HoldsTarget(b) /\ Mine(b) /\ file' = file
  BY <1>1 DEF Ingest, HoldsTarget, Unlocked, Mine, project
<1>4. PhaseOf(r, file'[ProjectOf[b]])
  BY <1>1, <1>3, OfBuild DEF PhaseOf, BuildState
<1>5. StoreTyped'
  BY <1>1, Distinct DEF Ingest, Shape, Typed, StoreTyped
<1>6. ProjectTyped' /\ QueueTyped' /\ gc' = gc
  BY Unchanged DEF Ingest
<1> HIDE DEF r
<1> QED
  BY <1>2, <1>3, <1>4, <1>5, <1>6, BuildMoves

\* The one entry for its inputs, among entries.
LEMMA UpsertTyped ==
  ASSUME NEW E \in SUBSET Entry, NEW i \in Inputs, NEW d \in Digests
  PROVE  Upsert(E, [inputs |-> i, blob |-> d]) \in SUBSET Entry
BY DEF Upsert, Entry

\* The manifest is written with the new entry.
LEMMA SaveShape ==
  ASSUME Shape, NEW b \in Builds, SaveManifest(b) PROVE Shape'
<1> DEFINE d == file[ProjectOf[b]]
           r == [bld[b] EXCEPT !.pc = "save", !.mem = {}, !.held = FALSE]
<1>1. /\ bld[b].pc = "upsert" /\ bld[b].key \in Keys /\ bld[b].env \in Inputs
      /\ bld[b].mem \in SUBSET Entry /\ d \in Digests
  BY OfBuild, Distinct DEF SaveManifest, PhaseOf, BuildState
<1>2. r \in BuildState /\ Moves(b, r)
  BY OfBuild DEF BuildState, BuildPcs, Moves, SaveManifest
<1>3. \A f : PhaseOf(r, f)
  BY <1>1, OfBuild DEF PhaseOf, BuildState
<1>4. HoldsTarget(b) /\ Mine(b)
  BY <1>1 DEF SaveManifest, HoldsTarget, Unlocked, Mine, project
<1>5. Upsert(bld[b].mem, [inputs |-> bld[b].env, blob |-> d]) \in SUBSET Entry
  BY <1>1, UpsertTyped
<1>6. StoreTyped'
  BY <1>1, <1>5 DEF SaveManifest, Shape, Typed, StoreTyped
<1>7. ProjectTyped' /\ QueueTyped' /\ gc' = gc
  BY Unchanged DEF SaveManifest
<1> HIDE DEF r
<1> QED
  BY <1>2, <1>3, <1>4, <1>6, <1>7, BuildMoves

\* units.json names the new owner.
LEMMA SaveStateShape ==
  ASSUME Shape, NEW b \in Builds, SaveState(b) PROVE Shape'
<1> DEFINE r == [bld[b] EXCEPT !.pc = "finish"]
           o == [key |-> bld[b].key, inputs |-> bld[b].env]
<1>1. bld[b].pc = "save" /\ bld[b].key \in Keys /\ bld[b].env \in Inputs
  BY OfBuild DEF SaveState, PhaseOf
<1>2. r \in BuildState /\ Moves(b, r)
  BY OfBuild DEF BuildState, BuildPcs, Moves, SaveState, Goto
<1>3. \A f : PhaseOf(r, f)
  BY <1>1, OfBuild DEF PhaseOf, BuildState
<1>4. HoldsTarget(b) /\ Mine(b)
  BY <1>1 DEF SaveState, HoldsTarget, Unlocked, Mine
<1>5. o \in Owner /\ slot' = [slot EXCEPT ![ProjectOf[b]] = o]
  BY <1>1 DEF Owner, SaveState
<1> HIDE DEF o
<1>6. ProjectTyped'
  BY <1>5, OfBuild DEF SaveState, Shape, Typed, ProjectTyped
<1>7. StoreTyped' /\ QueueTyped' /\ gc' = gc
  BY Unchanged DEF SaveState
<1> HIDE DEF r
<1> QED
  BY <1>2, <1>3, <1>4, <1>6, <1>7, BuildMoves

\* The project lists its keys.
LEMMA RegisterShape ==
  ASSUME Shape, NEW b \in Builds, Register(b) PROVE Shape'
<1> DEFINE r == [bld[b] EXCEPT !.pc = "house"]
<1>1. bld[b].pc = "finish" /\ bld[b].key \in Keys /\ bld[b].env \in Inputs
  BY OfBuild DEF Register, PhaseOf
<1>2. r \in BuildState /\ Moves(b, r)
  BY OfBuild DEF BuildState, BuildPcs, Moves, Register, Goto
<1>3. \A f : PhaseOf(r, f)
  BY <1>1, OfBuild DEF PhaseOf, BuildState
<1>4. HoldsTarget(b) /\ Mine(b)
  BY <1>1 DEF Register, HoldsTarget, Unlocked, Mine, project
<1>5. {bld[b].key} \cup ({prev[ProjectOf[b]]} \ {None}) \in SUBSET Keys
  BY <1>1, OfBuild DEF Shape, Typed, ProjectTyped
<1>6. QueueTyped'
  BY <1>5 DEF Register, Shape, Typed, QueueTyped
<1>7. ProjectTyped' /\ StoreTyped' /\ gc' = gc
  BY Unchanged DEF Register
<1> HIDE DEF r
<1> QED
  BY <1>2, <1>3, <1>4, <1>6, <1>7, BuildMoves

\* Superseded keys are queued and the build is over.
LEMMA HousekeepingShape ==
  ASSUME Shape, NEW b \in Builds, Housekeeping(b) PROVE Shape'
<1>1. bld[b].sup \in SUBSET Keys
  BY OfBuild DEF BuildState
<1>2. rmq' \in SUBSET Keys /\ jobs' = jobs
  BY <1>1 DEF Housekeeping, Shape, Typed, QueueTyped
<1>3. spawned' \in BOOLEAN
  BY DEF Housekeeping
<1>4. reg' \in [Projects -> SUBSET Keys]
  BY DEF Housekeeping, DropDead, Shape, Typed, QueueTyped
<1>5. QueueTyped'
  BY <1>2, <1>3, <1>4 DEF Shape, Typed, QueueTyped
<1>6. Moves(b, NoBuild) /\ Mine(b) /\ NoBuild.pc \in Unlocked
  BY DEF Housekeeping, Moves, Mine, project, NoBuild, Unlocked
<1>7. ProjectTyped' /\ StoreTyped' /\ gc' = gc
  BY Unchanged DEF Housekeeping
<1> QED
  BY <1>5, <1>6, <1>7, NoBuildTyped, BuildMoves

\* Every step of a build keeps the shape.
LEMMA BuildShape ==
  ASSUME Shape, NEW b \in Builds, Plan(b) \/ BuildStep(b) \/ Crash(b)
  PROVE  Shape'
<1>1. CASE TakeStoreLock(b)
  BY <1>1, GotoShape DEF TakeStoreLock, BuildPcs, Unlocked
<1>2. CASE Fresh(b)
  BY <1>2, GotoShape DEF Fresh, BuildPcs, Unlocked
<1>3. CASE LookupMiss(b)
  <2>1. AfterMiss(b) \in {"compile", "release"}
    BY DEF AfterMiss
  <2> QED
    BY <1>3, <2>1, GotoShape DEF LookupMiss, BuildPcs, Unlocked
<1>4. CASE OtherFails(b)
  BY <1>4, GotoShape DEF OtherFails, BuildPcs, Unlocked
<1> QED
  BY <1>1, <1>2, <1>3, <1>4, PlanShape, TargetLockShape, FreshUnusedShape, LookupShape, TouchShape, ReleaseShape,
     UnitLockShape, RestoreShape, CompileShape, ReadsShape, EmitsShape, RustcFailsShape,
     DeferShape, IngestShape, LoadShape, SaveShape, StoreFailsShape, SaveStateShape,
     RegisterShape, HousekeepingShape, EndShape DEF BuildStep

-----------------------------------------------------------------------------
(* The environment and the collectors. *)

\* An edit changes sources only.
LEMMA EditShape ==
  ASSUME Shape, NEW p \in Projects, Edit(p) PROVE Shape'
<1>1. src' \in [Projects -> Keys]
  BY DEF Edit, Shape, Typed, ProjectTyped
<1>2. Typed'
  BY <1>1 DEF Edit, Shape, Typed, ProjectTyped, StoreTyped, QueueTyped, BuildTyped, GcTyped,
              store, queues
<1> QED
  BY <1>2 DEF Edit, Shape, OneHolder, HoldsTarget, Phase, GcPhase

\* rb clean, while nobody builds there.
LEMMA CleanShape ==
  ASSUME Shape, NEW p \in Projects, Clean(p) PROVE Shape'
<1>1. ProjectTyped'
  BY DEF Clean, Shape, Typed, ProjectTyped
<1>2. Typed'
  BY <1>1 DEF Clean, Shape, Typed, StoreTyped, QueueTyped, BuildTyped, GcTyped, store, queues
<1>3. ASSUME NEW b \in Builds PROVE Phase(b)'
  <2>1. Phase(b) /\ bld' = bld
    BY DEF Clean, Shape
  <2>2. bld[b].pc = "idle" \/ file'[ProjectOf[b]] = file[ProjectOf[b]]
    BY OfBuild DEF Clean, ProjectIdle, Shape, Typed, ProjectTyped
  <2> QED
    BY <2>1, <2>2 DEF Phase, PhaseOf
<1> QED
  BY <1>2, <1>3 DEF Clean, Shape, OneHolder, HoldsTarget, GcPhase

\* Time passes.
LEMMA HourShape ==
  ASSUME Shape, HourPasses PROVE Shape'
<1>1. Typed'
  BY DEF HourPasses, Shape, Typed, ProjectTyped, StoreTyped, QueueTyped, BuildTyped, GcTyped,
         project, queues
<1> QED
  BY <1>1 DEF HourPasses, project, Shape, OneHolder, HoldsTarget, Phase, GcPhase

\* A collector that has nothing in hand.
LEMMA NoGcTyped == NoGc \in GcState
BY DEF NoGc, GcState, GcPcs

\* What Shape says of one collector.
LEMMA OfGc ==
  ASSUME Shape, NEW g \in Collectors
  PROVE  gc \in [Collectors -> GcState] /\ gc[g] \in GcState /\ GcPhase(g)
BY DEF Shape, Typed, GcTyped

\* A collector that only changes what it knows.
LEMMA GcOnly ==
  ASSUME Shape, NEW g \in Collectors, NEW r \in GcState, NewGc(g, r),
         r.pc \in {"check", "hash", "place", "merge", "upsert"} => r.job \in Job,
         r.pc \in {"place", "merge", "upsert"} => r.digest \in Digests,
         bld' = bld, UNCHANGED <<project, store>>, QueueTyped'
  PROVE  Shape'
<1>1. ProjectTyped' /\ StoreTyped' /\ file' = file
  BY Unchanged DEF project
<1> QED
  BY <1>1, GcMoves

\* A compaction starts, or finds no room and goes.
LEMMA StartShape ==
  ASSUME Shape, StartCompact \/ CompactGivesUp PROVE Shape'
<1>1. QueueTyped'
  BY DEF StartCompact, CompactGivesUp, Shape, Typed, QueueTyped
<1>2. CASE StartCompact
  <2> DEFINE r == [NoGc EXCEPT !.pc = "ingest", !.todo = jobs]
  <2>1. /\ "compact" \in Collectors /\ NewGc("compact", r)
        /\ bld' = bld /\ UNCHANGED <<project, store>>
    BY <1>2 DEF StartCompact, Compacting
  <2>2. r \in GcState
    BY DEF NoGc, GcState, GcPcs, Shape, Typed, QueueTyped
  <2>3. r.pc = "ingest"
    BY DEF NoGc
  <2> HIDE DEF r
  <2> QED
    BY <1>1, <2>1, <2>2, <2>3, GcOnly
<1>3. CASE CompactGivesUp
  <2>1. Typed'
    BY <1>1, <1>3, Unchanged DEF CompactGivesUp, Shape, Typed, BuildTyped, GcTyped
  <2> QED
    BY <1>3, <2>1 DEF CompactGivesUp, project, Shape, OneHolder, HoldsTarget, Phase, GcPhase
<1> QED
  BY <1>2, <1>3

\* The next deferred output is picked.
LEMMA NextJobShape ==
  ASSUME Shape, NextJob PROVE Shape'
<1> DEFINE g == "compact"
<1>1. g \in Collectors
  BY DEF NextJob, Compacting
<1>2. PICK j \in gc[g].todo :
        NewGc(g, IF StoreBusy THEN NoGc ELSE [gc[g] EXCEPT !.pc = "check", !.job = j])
  BY DEF NextJob
<1> DEFINE r == [gc[g] EXCEPT !.pc = "check", !.job = j]
<1>3. j \in Job
  BY <1>1, OfGc DEF GcState
<1>4. r \in GcState /\ r.job = j
  BY <1>1, <1>3, OfGc DEF GcState, GcPcs
<1>5. r.pc = "check" /\ NoGc.pc = "idle"
  BY <1>1, OfGc DEF GcState, NoGc
<1>6. QueueTyped' /\ bld' = bld /\ UNCHANGED <<project, store>>
  BY Unchanged DEF NextJob
<1>7. NewGc(g, r) \/ NewGc(g, NoGc)
  BY <1>2
<1> HIDE DEF r
<1> QED
  BY <1>1, <1>3, <1>4, <1>5, <1>6, <1>7, NoGcTyped, GcOnly

\* The second probe of store.lock.
LEMMA CheckShape ==
  ASSUME Shape, CheckOutput PROVE Shape'
<1> DEFINE g == "compact"
           r == [gc[g] EXCEPT !.pc = "hash"]
<1>1. g \in Collectors /\ gc[g].pc = "check"
  BY DEF CheckOutput, Compacting
<1>2. r \in GcState /\ r.pc = "hash" /\ r.job \in Job
  BY <1>1, OfGc DEF GcState, GcPcs, GcPhase
<1>3. QueueTyped' /\ bld' = bld /\ UNCHANGED <<project, store>>
  BY Unchanged DEF CheckOutput
<1>4. NewGc(g, r) \/ NewGc(g, NoGc)
  BY DEF CheckOutput
<1>5. NoGc.pc = "idle"
  BY DEF NoGc
<1> HIDE DEF r
<1> QED
  BY <1>1, <1>2, <1>3, <1>4, <1>5, NoGcTyped, GcOnly

\* The bytes at an output path, if there are any, can be hashed.
LEMMA BytesTyped ==
  ASSUME Shape, NEW p \in Projects PROVE Bytes(p) \in Digests \cup {None}
BY DEF Bytes, Shape, Typed, ProjectTyped, StoreTyped

\* A finished job leaves the queue well typed.
LEMMA DoneTyped ==
  ASSUME Shape, NEW j, JobDone(j), "compact" \in Collectors,
         UNCHANGED <<reg, rmq, spawned>>
  PROVE  /\ QueueTyped'
         /\ \E r \in GcState : NewGc("compact", r) /\ r.pc = "ingest"
<1> DEFINE g == "compact"
           r == [NoGc EXCEPT !.pc = "ingest", !.todo = gc[g].todo \ {j}]
<1>1. QueueTyped'
  BY DEF JobDone, Shape, Typed, QueueTyped
<1>2. r \in GcState
  BY OfGc DEF NoGc, GcState, GcPcs
<1>3. r.pc = "ingest"
  BY DEF NoGc
<1>4. NewGc(g, r)
  BY DEF JobDone
<1> HIDE DEF r
<1> QED
  BY <1>1, <1>2, <1>3, <1>4

\* The output is hashed, or there is none.
LEMMA HashShape ==
  ASSUME Shape, HashOutput PROVE Shape'
<1> DEFINE g == "compact"
           j == gc[g].job
           d == Bytes(j.project)
           q == IF HasBlob(d) THEN "merge" ELSE "place"
           r == [gc[g] EXCEPT !.digest = d, !.pc = q]
<1>1. g \in Collectors /\ gc[g].pc = "hash"
  BY DEF HashOutput, Compacting
<1>2. j \in Job /\ d \in Digests \cup {None}
  <2>1. j \in Job
    BY <1>1, OfGc DEF GcPhase
  <2>2. j.project \in Projects
    BY <2>1 DEF Job
  <2> QED
    BY <2>1, <2>2, BytesTyped
<1>3. bld' = bld /\ UNCHANGED <<project, store>>
  BY DEF HashOutput
<1>4. CASE d = None
  BY <1>1, <1>3, <1>4, DoneTyped, GcOnly DEF HashOutput
<1>5. CASE d # None
  <2>1. NewGc(g, r) /\ UNCHANGED queues
    BY <1>5 DEF HashOutput, queues
  <2>2. q \in {"merge", "place"}
    OBVIOUS
  <2> HIDE DEF q
  <2>3. r \in GcState /\ r.job = j /\ r.digest = d
    BY <1>1, <1>2, <2>2, OfGc DEF GcState, GcPcs
  <2> HIDE DEF r
  <2> QED
    BY <1>1, <1>2, <1>3, <1>5, <2>1, <2>3, Unchanged, GcOnly
<1> QED
  BY <1>4, <1>5

\* The blob is placed, or the output has gone.
LEMMA PlaceShape ==
  ASSUME Shape, PlaceBlob PROVE Shape'
<1> DEFINE g == "compact"
           j == gc[g].job
           d == gc[g].digest
           r == [gc[g] EXCEPT !.pc = "merge"]
<1>1. g \in Collectors /\ gc[g].pc = "place"
  BY DEF PlaceBlob, Compacting
<1>2. j \in Job /\ d \in Digests
  BY <1>1, OfGc DEF GcPhase
<1>3. Bytes(j.project) \in Digests \cup {None}
  BY <1>2, BytesTyped DEF Job
<1>4. bld' = bld /\ UNCHANGED project
  BY DEF PlaceBlob
<1>5. CASE Bytes(j.project) = None
  <2>1. UNCHANGED store /\ JobDone(j) /\ UNCHANGED <<reg, rmq, spawned>>
    BY <1>5 DEF PlaceBlob, store
  <2> QED
    BY <1>1, <1>4, <2>1, DoneTyped, GcOnly
<1>6. CASE Bytes(j.project) # None
  <2>1. NewGc(g, r) /\ UNCHANGED queues
    BY <1>6 DEF PlaceBlob, queues
  <2>2. r \in GcState /\ r.job = j /\ r.digest = d
    BY <1>1, <1>2, OfGc DEF GcState, GcPcs
  <2>3. StoreTyped'
    BY <1>2, <1>3, <1>6 DEF PlaceBlob, Shape, Typed, StoreTyped
  <2> HIDE DEF r
  <2>4. ProjectTyped' /\ QueueTyped' /\ file' = file
    BY <1>4, <2>1, Unchanged DEF project
  <2> QED
    BY <1>1, <1>2, <1>4, <2>1, <2>2, <2>3, <2>4, GcMoves
<1> QED
  BY <1>5, <1>6

\* Compaction reads the manifest of its job.
LEMMA MergeLoadShape ==
  ASSUME Shape, MergeLoad PROVE Shape'
<1> DEFINE g == "compact"
           j == gc[g].job
           r == [gc[g] EXCEPT !.pc = "upsert", !.mem = manifest[j.key]]
<1>1. g \in Collectors /\ gc[g].pc = "merge"
  BY DEF MergeLoad, Compacting
<1>2. j \in Job /\ gc[g].digest \in Digests
  BY <1>1, OfGc DEF GcPhase
<1>3. manifest[j.key] \in SUBSET Entry
  BY <1>2 DEF Job, Shape, Typed, StoreTyped
<1>4. r \in GcState /\ r.job = j /\ r.digest = gc[g].digest
  BY <1>1, <1>2, <1>3, OfGc DEF GcState, GcPcs
<1>5. NewGc(g, r) /\ bld' = bld /\ UNCHANGED <<project, store, queues>>
  BY DEF MergeLoad
<1> HIDE DEF r
<1> QED
  BY <1>1, <1>2, <1>4, <1>5, Unchanged, GcOnly

\* Compaction writes it back, and the job is done.
LEMMA MergeSaveShape ==
  ASSUME Shape, MergeSave PROVE Shape'
<1> DEFINE g == "compact"
           j == gc[g].job
           e == [inputs |-> j.inputs, blob |-> gc[g].digest]
<1>1. g \in Collectors /\ gc[g].pc = "upsert"
  BY DEF MergeSave, Compacting
<1>2. j \in Job /\ gc[g].digest \in Digests /\ gc[g].mem \in SUBSET Entry
  BY <1>1, OfGc DEF GcPhase, GcState
<1>3. j.key \in Keys /\ j.inputs \in Inputs
  BY <1>2 DEF Job
<1>4. Upsert(gc[g].mem, e) \in SUBSET Entry
  BY <1>2, <1>3, UpsertTyped
<1>5. StoreTyped'
  BY <1>3, <1>4 DEF MergeSave, Shape, Typed, StoreTyped
<1>6. ProjectTyped' /\ bld' = bld /\ file' = file
  BY Unchanged DEF MergeSave, project
<1>7. PICK r \in GcState : NewGc(g, r) /\ r.pc = "ingest"
  BY <1>1, DoneTyped DEF MergeSave
<1>8. QueueTyped'
  BY <1>1, DoneTyped DEF MergeSave
<1> QED
  BY <1>1, <1>5, <1>6, <1>7, <1>8, GcMoves

\* The queue has been worked off.
LEMMA IngestDoneShape ==
  ASSUME Shape, IngestDone PROVE Shape'
<1> DEFINE r == [NoGc EXCEPT !.pc = "plan"]
<1>1. "compact" \in Collectors /\ NewGc("compact", r)
  BY DEF IngestDone, Compacting
<1>2. r \in GcState /\ r.pc = "plan"
  BY DEF NoGc, GcState, GcPcs
<1> HIDE DEF r
<1> QED
  BY <1>1, <1>2, Unchanged, GcOnly DEF IngestDone

\* rb store gc gets the exclusive lock.
LEMMA StartUserShape ==
  ASSUME Shape, StartUserGc PROVE Shape'
<1> DEFINE r == [NoGc EXCEPT !.pc = "plan"]
<1>1. "user" \in Collectors /\ NewGc("user", r)
  BY DEF StartUserGc
<1>2. r \in GcState /\ r.pc = "plan"
  BY DEF NoGc, GcState, GcPcs
<1> HIDE DEF r
<1> QED
  BY <1>1, <1>2, Unchanged, GcOnly DEF StartUserGc

\* Collection learns which keys are listed.
LEMMA GcPlanShape ==
  ASSUME Shape, NEW g \in Collectors, GcPlan(g) PROVE Shape'
<1> DEFINE q == IF g = "compact" THEN rmq ELSE {}
           r == [NoGc EXCEPT !.pc = "scan", !.hot = ProjectKeys(Projects), !.queued = q]
<1>1. NewGc(g, r) /\ bld' = bld /\ UNCHANGED <<project, store>>
  BY DEF GcPlan
<1>2. ProjectKeys(Projects) \in SUBSET Keys /\ q \in SUBSET Keys
  BY DEF ProjectKeys, Shape, Typed, QueueTyped
<1>3. r \in GcState /\ r.pc = "scan"
  BY <1>2 DEF NoGc, GcState, GcPcs
<1>4. QueueTyped'
  BY DEF GcPlan, DropDead, Shape, Typed, QueueTyped
<1> HIDE DEF r
<1> QED
  BY <1>1, <1>3, <1>4, GcOnly

\* The blobs any set of units names.
LEMMA BlobsTyped ==
  ASSUME Shape, NEW K \in SUBSET Keys PROVE BlobsOf(K) \in SUBSET Digests
<1>1. \A k \in K : manifest[k] \in SUBSET Entry
  BY DEF Shape, Typed, StoreTyped
<1>2. \A e \in UNION {manifest[k] : k \in K} : e \in Entry
  BY <1>1
<1> QED
  BY <1>2 DEF BlobsOf, Entry

\* Collection picks the units to drop.
LEMMA GcScanShape ==
  ASSUME Shape, NEW g \in Collectors, GcScan(g) PROVE Shape'
<1> DEFINE unused    == Units \ gc[g].hot
           droppable == IF g = "user" THEN (Units \cap gc[g].hot) \ SymlinkedKeys ELSE {}
<1>1. PICK aged \in SUBSET droppable :
        NewGc(g, [gc[g] EXCEPT !.pc = "units", !.hot = {}, !.units = unused \cup aged,
                               !.blobs = Digests,
                               !.live = BlobsOf(Units \ (unused \cup aged)),
                               !.gone = BlobsOf(unused \cup aged)])
  BY DEF GcScan
<1> DEFINE drop == unused \cup aged
<1>2. Units \in SUBSET Keys
  BY DEF Units
<1>3. drop \in SUBSET Keys
  BY <1>2
<1>4. BlobsOf(Units \ drop) \in SUBSET Digests /\ BlobsOf(drop) \in SUBSET Digests
  BY <1>2, <1>3, BlobsTyped
<1> HIDE DEF drop
<1> DEFINE r == [gc[g] EXCEPT !.pc = "units", !.hot = {}, !.units = drop, !.blobs = Digests,
                              !.live = BlobsOf(Units \ drop), !.gone = BlobsOf(drop)]
<1>5. r \in GcState /\ r.pc = "units"
  BY <1>3, <1>4, OfGc DEF GcState, GcPcs
<1>6. NewGc(g, r)
  BY <1>1 DEF drop
<1>7. bld' = bld /\ UNCHANGED <<project, store, queues>>
  BY DEF GcScan
<1> HIDE DEF r
<1> QED
  BY <1>5, <1>6, <1>7, Unchanged, GcOnly

\* One unit is dropped.
LEMMA GcRemoveShape ==
  ASSUME Shape, NEW g \in Collectors, GcRemoveUnit(g) PROVE Shape'
<1>1. PICK k \in gc[g].units :
        /\ manifest' = [manifest EXCEPT ![k] = {}]
        /\ NewGc(g, [gc[g] EXCEPT !.units = gc[g].units \ {k}])
  BY DEF GcRemoveUnit
<1> DEFINE r == [gc[g] EXCEPT !.units = gc[g].units \ {k}]
<1>2. gc[g].pc = "units"
  BY DEF GcRemoveUnit
<1>3. r \in GcState /\ r.pc = "units"
  BY <1>2, OfGc DEF GcState
<1>4. StoreTyped'
  BY <1>1 DEF GcRemoveUnit, Shape, Typed, StoreTyped
<1>5. ProjectTyped' /\ QueueTyped' /\ bld' = bld /\ file' = file
  BY Unchanged DEF GcRemoveUnit, project
<1> HIDE DEF r
<1>6. NewGc(g, r)
  BY <1>1 DEF r
<1> QED
  BY <1>3, <1>4, <1>5, <1>6, GcMoves

\* One blob is looked at.
LEMMA GcSweepShape ==
  ASSUME Shape, NEW g \in Collectors, GcSweep(g) PROVE Shape'
<1>1. PICK d \in gc[g].blobs :
        /\ cas' = IF GcKeeps(g, d) THEN cas ELSE [cas EXCEPT ![d] = None]
        /\ old' = IF GcKeeps(g, d) THEN old ELSE old \ {d}
        /\ NewGc(g, [gc[g] EXCEPT !.blobs = gc[g].blobs \ {d}])
  BY DEF GcSweep
<1> DEFINE r == [gc[g] EXCEPT !.blobs = gc[g].blobs \ {d}]
<1>2. gc[g].pc = "units"
  BY DEF GcSweep
<1>3. r \in GcState /\ r.pc = "units"
  BY <1>2, OfGc DEF GcState
<1>4. StoreTyped'
  BY <1>1 DEF GcSweep, Shape, Typed, StoreTyped
<1>5. ProjectTyped' /\ QueueTyped' /\ bld' = bld /\ file' = file
  BY Unchanged DEF GcSweep, project
<1>6. NewGc(g, r)
  BY <1>1
<1> HIDE DEF r
<1> QED
  BY <1>3, <1>4, <1>5, <1>6, GcMoves

\* The collection ends, or starts over.
LEMMA GcFinishShape ==
  ASSUME Shape, NEW g \in Collectors, GcFinish(g) PROVE Shape'
<1> DEFINE r == [NoGc EXCEPT !.pc = "plan"]
<1>1. NewGc(g, r) \/ NewGc(g, NoGc)
  BY DEF GcFinish
<1>2. r \in GcState /\ r.pc = "plan" /\ NoGc.pc = "idle"
  BY DEF NoGc, GcState, GcPcs
<1>3. QueueTyped'
  BY DEF GcFinish, Shape, Typed, QueueTyped
<1>4. bld' = bld /\ UNCHANGED <<project, store>>
  BY DEF GcFinish
<1> HIDE DEF r
<1> QED
  BY <1>1, <1>2, <1>3, <1>4, NoGcTyped, GcOnly

\* A collector is killed.
LEMMA CrashGcShape ==
  ASSUME Shape, NEW g \in Collectors, CrashGc(g) PROVE Shape'
<1>1. NoGc.pc = "idle"
  BY DEF NoGc
<1> QED
  BY <1>1, NoGcTyped, Unchanged, GcOnly DEF CrashGc

-----------------------------------------------------------------------------

\* A fresh machine has the shape.
LEMMA InitShape == Init => Shape
<1> SUFFICES ASSUME Init PROVE Shape
  OBVIOUS
<1>1. ProjectTyped /\ StoreTyped /\ QueueTyped
  BY Distinct DEF Init, ProjectTyped, StoreTyped, QueueTyped
<1>2. BuildTyped /\ GcTyped
  BY NoBuildTyped, NoGcTyped DEF Init, BuildTyped, GcTyped
<1>3. OneHolder /\ \A b \in Builds : Phase(b)
  BY NoBuildTyped DEF Init, OneHolder, HoldsTarget, Unlocked, NoBuild, Phase
<1>4. \A g \in Collectors : GcPhase(g)
  BY DEF Init, NoGc, GcPhase
<1> QED
  BY <1>1, <1>2, <1>3, <1>4 DEF Shape, Typed

\* Every step keeps it.
LEMMA StepShape == Shape /\ [Next]_vars => Shape'
<1> SUFFICES ASSUME Shape, [Next]_vars PROVE Shape'
  OBVIOUS
<1>1. CASE \E p \in Projects : Edit(p) \/ Clean(p)
  BY <1>1, EditShape, CleanShape
<1>2. CASE HourPasses
  BY <1>2, HourShape
<1>3. CASE \E b \in Builds : Plan(b) \/ BuildStep(b) \/ Crash(b)
  BY <1>3, BuildShape
<1>4. CASE CompactStep
  BY <1>4, StartShape, NextJobShape, CheckShape, HashShape, PlaceShape, MergeLoadShape,
     MergeSaveShape, IngestDoneShape DEF CompactStep
<1>5. CASE StartUserGc
  BY <1>5, StartUserShape
<1>6. CASE \E g \in Collectors : GcStep(g) \/ CrashGc(g)
  BY <1>6, GcPlanShape, GcScanShape, GcRemoveShape, GcSweepShape, GcFinishShape,
     CrashGcShape DEF GcStep
<1>7. CASE UNCHANGED vars
  <2>1. /\ UNCHANGED <<project, store, queues, bld, gc>>
        /\ UNCHANGED file
    BY <1>7 DEF vars, project
  <2>2. Typed'
    BY <2>1, Unchanged DEF Shape, Typed, BuildTyped, GcTyped
  <2> QED
    BY <2>1, <2>2 DEF Shape, OneHolder, HoldsTarget, Phase, GcPhase
<1> QED
  BY <1>1, <1>2, <1>3, <1>4, <1>5, <1>6, <1>7 DEF Next

\* Whatever builds, compactions and collections of any number of projects do,
\* and wherever one of them is killed, the state stays well formed, and no two
\* builds are past the lock of one build directory.
THEOREM StoreShape == Spec => []Shape
BY InitShape, StepShape, PTL DEF Spec

\* Every variable stays in its domain.
THEOREM StoreTypes == Spec => []TypeOK
<1>1. Shape => TypeOK
  BY TypedIsTypeOK DEF Shape
<1> QED
  BY <1>1, StoreShape, PTL

-----------------------------------------------------------------------------
(* A deferred output, and what becomes of it.                               *)

\* Finishing a job takes that job off the queue, and no other.
LEMMA OnlyDone ==
  ASSUME NEW j, JobDone(j), NEW i \in jobs \ jobs' PROVE i = j
BY DEF JobDone

\* A job leaves the queue with its entry written, or when its output is gone.
LEMMA JobLeaves ==
  ASSUME Shape, Next, NEW j \in jobs \ jobs'
  PROVE  \/ \E e \in manifest'[j.key] : e.inputs = j.inputs
         \/ Bytes(j.project) = None
<1> DEFINE i == gc["compact"].job
           e == [inputs |-> i.inputs, blob |-> gc["compact"].digest]
<1>1. CASE HashOutput \/ PlaceBlob
  <2>1. JobDone(i) => j = i
    BY OnlyDone
  <2> QED
    BY <1>1, <2>1 DEF HashOutput, PlaceBlob
<1>2. CASE MergeSave
  <2>1. JobDone(i) /\ manifest' = [manifest EXCEPT ![i.key] = Upsert(gc["compact"].mem, e)]
    BY <1>2 DEF MergeSave
  <2>2. j = i
    BY <2>1, OnlyDone
  <2>3. j.key \in Keys /\ manifest \in [Keys -> SUBSET Entry]
    BY DEF Shape, Typed, QueueTyped, StoreTyped, Job
  <2>4. e \in Upsert(gc["compact"].mem, e) /\ e.inputs = i.inputs
    BY DEF Upsert
  <2> HIDE DEF e
  <2> QED
    BY <2>1, <2>2, <2>3, <2>4
<1>3. CASE \E p \in Projects : Edit(p) \/ Clean(p)
  BY <1>3 DEF Edit, Clean, queues
<1>4. CASE HourPasses \/ StartUserGc
  BY <1>4 DEF HourPasses, StartUserGc, queues
<1>5. CASE \E b \in Builds : Plan(b) \/ BuildStep(b) \/ Crash(b)
  <2>1. PICK b \in Builds : Plan(b) \/ BuildStep(b) \/ Crash(b)
    BY <1>5
  <2>2. CASE Plan(b) \/ Crash(b) \/ TakeTargetLock(b) \/ TakeStoreLock(b) \/ Fresh(b)
             \/ FreshUnused(b) \/ LookupHit(b) \/ Touch(b) \/ LookupMiss(b)
    BY <2>2 DEF Plan, Crash, TakeTargetLock, TakeStoreLock, Fresh, FreshUnused, LookupHit, Touch,
       LookupMiss, queues
  <2>3. CASE ReleaseSlot(b) \/ TakeUnitLock(b) \/ Restore(b) \/ StartCompile(b)
             \/ RustcReads(b) \/ RustcEmits(b) \/ RustcFails(b)
    BY <2>3 DEF ReleaseSlot, TakeUnitLock, Restore, StartCompile, RustcReads, RustcEmits,
       RustcFails, queues
  <2>4. CASE DeferIngest(b) \/ Register(b) \/ Housekeeping(b)
    BY <2>4 DEF DeferIngest, Register, Housekeeping
  <2>5. CASE Ingest(b) \/ LoadManifest(b) \/ SaveManifest(b) \/ StoreFails(b) \/ SaveState(b)
             \/ OtherFails(b) \/ GiveUp(b)
    BY <2>5 DEF Ingest, LoadManifest, SaveManifest, StoreFails, SaveState, OtherFails, GiveUp,
       queues
  <2> QED
    BY <2>1, <2>2, <2>3, <2>4, <2>5 DEF BuildStep
<1>6. CASE \/ StartCompact \/ CompactGivesUp \/ NextJob \/ CheckOutput \/ MergeLoad \/ IngestDone
  BY <1>6 DEF StartCompact, CompactGivesUp, NextJob, CheckOutput, MergeLoad, IngestDone, queues
<1>7. CASE \E g \in Collectors : GcStep(g) \/ CrashGc(g)
  BY <1>7 DEF GcStep, GcPlan, GcScan, GcRemoveUnit, GcSweep, GcFinish, CrashGc, queues
<1> QED
  BY <1>1, <1>2, <1>3, <1>4, <1>5, <1>6, <1>7 DEF Next, CompactStep

\* Wherever compaction is killed, however builds and collections run beside it:
\* an output left for it to store stays queued until its manifest is written or
\* the output is gone.
THEOREM DeferredStays == Spec => DeferredNotLost
<1>1. Shape /\ [Next]_vars =>
        [\A j \in jobs \ jobs' :
           \/ \E e \in manifest'[j.key] : e.inputs = j.inputs
           \/ Bytes(j.project) = None]_vars
  BY JobLeaves
<1> QED
  BY <1>1, StoreShape, PTL DEF Spec, DeferredNotLost

=============================================================================
