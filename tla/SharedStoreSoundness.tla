------------------------ MODULE SharedStoreSoundness ------------------------
(***************************************************************************)
(* What the store serves, for any number of projects, builds, keys and     *)
(* inputs: a cached artifact is the one compiling would have made.  This   *)
(* is proved for builds whose sources hold still while they run and whose  *)
(* outputs are stored at once; without either, a run of the model shows    *)
(* the store serving something else.                                       *)
(*                                                                         *)
(* Then three parts of their own: a hit is there when it is placed, no     *)
(* unit is compiled twice, and a link lives as long as it is listed.       *)
(***************************************************************************)
EXTENDS SharedStoreProofs

-----------------------------------------------------------------------------

\* Sources hold still while a build of them runs, and every output is stored
\* by the build that made it.
Quiet == Large = {} /\ MidBuildEdits = FALSE

\* What rustc makes of a key.
Made(k, i) == Compile[k, i]

Before  == {"idle", "planned", "target"}
Written == {"store", "merge", "upsert", "save"}
Freed   == {"restore", "execute", "compile", "rustc", "emit"} \cup Written

\* What is right about a build in state r, while s is the source, f is at the
\* output path and o owns it.
KnowsOf(r, s, f, o) ==
  /\ r.pc # "idle" => r.key = s
  /\ r.pc \in Before \cup {"save"} => ~r.held
  /\ r.pc \in Before \cup {"lookup", "execute"} => r.hit = None
  /\ r.hit # None => r.hit = Made(r.key, r.env)
  /\ r.pc \in {"touch", "upsert"} => \A e \in r.mem : e.blob = Made(r.key, e.inputs)
  /\ r.pc = "emit" => r.rd = r.key
  /\ r.pc \in Freed \/ r.held => o = None
  /\ r.pc \in Written => f = Made(r.key, r.env)
  /\ r.pc = "finish" \/ (r.pc = "touch" /\ r.hit = None) => o = [key |-> r.key, inputs |-> r.env]

BuildSound(b) ==
  KnowsOf(bld[b], src[ProjectOf[b]], file[ProjectOf[b]], slot[ProjectOf[b]])

OwnerSound(p) == slot[p] # None => file[p] = Made(slot[p].key, slot[p].inputs)

EntriesSound == \A k \in Keys : \A e \in manifest[k] : e.blob = Made(k, e.inputs)

BlobsSound == \A d \in Digests : cas[d] \in {None, d}

\* Nothing waits to be hashed later.
NothingDeferred ==
  /\ jobs = {}
  /\ \A g \in Collectors :
       gc[g].todo = {} /\ gc[g].pc \notin {"check", "hash", "place", "merge", "upsert"}

Sound ==
  /\ Shape
  /\ \A b \in Builds : BuildSound(b)
  /\ \A p \in Projects : OwnerSound(p)
  /\ EntriesSound /\ BlobsSound /\ NothingDeferred

-----------------------------------------------------------------------------

\* Of a project, only the build that holds its directory changes anything.
MineOnly(b) ==
  \/ file' = file /\ slot' = slot
  \/ /\ HoldsTarget(b)
     /\ \A p \in Projects \ {ProjectOf[b]} : file'[p] = file[p] /\ slot'[p] = slot[p]

\* A step of one build leaves the state of every other build alone.
LEMMA OthersStay ==
  ASSUME Shape, NEW b \in Builds, Plan(b) \/ BuildStep(b) \/ Crash(b)
  PROVE  \A c \in Builds \ {b} : bld'[c] = bld[c]
<1>1. bld \in [Builds -> BuildState]
  BY OfBuild
<1>2. CASE Plan(b) \/ Crash(b) \/ GiveUp(b) \/ Housekeeping(b)
  BY <1>1, <1>2 DEF Plan, Crash, GiveUp, Housekeeping
<1>3. CASE TakeTargetLock(b) \/ TakeStoreLock(b) \/ Fresh(b) \/ LookupMiss(b) \/ StartCompile(b)
           \/ Ingest(b) \/ SaveState(b) \/ OtherFails(b) \/ Register(b)
  BY <1>1, <1>3 DEF TakeTargetLock, TakeStoreLock, Fresh, LookupMiss, StartCompile, Ingest,
                    SaveState, OtherFails, Register, Goto
<1>4. CASE FreshUnused(b) \/ LookupHit(b) \/ Touch(b) \/ ReleaseSlot(b) \/ TakeUnitLock(b)
           \/ Restore(b)
  BY <1>1, <1>4 DEF FreshUnused, LookupHit, Touch, ReleaseSlot, TakeUnitLock, Restore
<1>5. CASE RustcReads(b) \/ RustcEmits(b) \/ RustcFails(b) \/ DeferIngest(b) \/ LoadManifest(b)
           \/ SaveManifest(b) \/ StoreFails(b)
  BY <1>1, <1>5 DEF RustcReads, RustcEmits, RustcFails, DeferIngest, LoadManifest,
                    SaveManifest, StoreFails
<1> QED
  BY <1>2, <1>3, <1>4, <1>5 DEF BuildStep

\* What a step of a build has to show to keep the store sound.
LEMMA BuildKeepsSound ==
  ASSUME Sound, NEW b \in Builds, Plan(b) \/ BuildStep(b) \/ Crash(b),
         src' = src, gc' = gc, jobs' = jobs, MineOnly(b),
         BuildSound(b)', OwnerSound(ProjectOf[b])', EntriesSound', BlobsSound'
  PROVE  Sound'
<1>1. Shape /\ Shape'
  BY BuildShape DEF Sound
<1>2. \A c \in Builds \ {b} : bld'[c] = bld[c]
  BY <1>1, OthersStay
<1>3. ASSUME NEW c \in Builds PROVE BuildSound(c)'
  <2>1. CASE c = b
    BY <2>1
  <2>2. CASE c # b
    <3>1. bld'[c] = bld[c] /\ BuildSound(c) /\ src'[ProjectOf[c]] = src[ProjectOf[c]]
      BY <1>2, <2>2 DEF Sound
    <3>2. CASE /\ file'[ProjectOf[c]] = file[ProjectOf[c]]
               /\ slot'[ProjectOf[c]] = slot[ProjectOf[c]]
      BY <3>1, <3>2 DEF BuildSound
    <3>3. CASE ~ /\ file'[ProjectOf[c]] = file[ProjectOf[c]]
                 /\ slot'[ProjectOf[c]] = slot[ProjectOf[c]]
      <4>1. HoldsTarget(b) /\ ProjectOf[c] = ProjectOf[b]
        BY <3>3, SharedStoreAssumption DEF MineOnly
      <4>2. bld[c].pc \in Unlocked
        BY <1>1, <2>2, <4>1 DEF Shape, OneHolder, HoldsTarget
      <4> QED
        BY <3>1, <4>2 DEF BuildSound, KnowsOf, Unlocked, Before, Freed, Written
    <3> QED
      BY <3>2, <3>3
  <2> QED
    BY <2>1, <2>2
<1>4. ASSUME NEW p \in Projects PROVE OwnerSound(p)'
  BY DEF Sound, MineOnly, OwnerSound
<1>5. NothingDeferred'
  BY DEF Sound, NothingDeferred
<1> QED
  BY <1>1, <1>3, <1>4, <1>5 DEF Sound

\* A step of a build that leaves the disk alone.
LEMMA BuildOnlySound ==
  ASSUME Sound, NEW b \in Builds, Plan(b) \/ BuildStep(b) \/ Crash(b),
         UNCHANGED <<src, file, slot, cas, manifest, jobs, gc>>,
         KnowsOf(bld'[b], src[ProjectOf[b]], file[ProjectOf[b]], slot[ProjectOf[b]])
  PROVE  Sound'
<1>1. MineOnly(b) /\ BuildSound(b)' /\ OwnerSound(ProjectOf[b])'
  BY SharedStoreAssumption DEF MineOnly, BuildSound, OwnerSound, Sound
<1>2. EntriesSound' /\ BlobsSound'
  BY DEF Sound, EntriesSound, BlobsSound
<1> QED
  BY <1>1, <1>2, BuildKeepsSound

\* What Sound says of one build.
LEMMA OfSound ==
  ASSUME Sound, NEW b \in Builds
  PROVE  /\ bld \in [Builds -> BuildState] /\ bld[b] \in BuildState
         /\ ProjectOf[b] \in Projects
         /\ PhaseOf(bld[b], file[ProjectOf[b]])
         /\ KnowsOf(bld[b], src[ProjectOf[b]], file[ProjectOf[b]], slot[ProjectOf[b]])
         /\ OwnerSound(ProjectOf[b])
BY OfBuild DEF Sound, BuildSound

\* A planned build has its key from the sources, and nothing yet from the store.
LEMMA PlanSound ==
  ASSUME Sound, NEW b \in Builds, Plan(b) PROVE Sound'
<1>1. /\ bld'[b].pc = "planned" /\ bld'[b].key = src[ProjectOf[b]]
      /\ bld'[b].held = bld[b].held /\ bld'[b].hit = bld[b].hit
  BY OfSound DEF Plan, BuildState
<1>2. bld[b].pc = "idle"
  BY DEF Plan
<1>3. KnowsOf(bld'[b], src[ProjectOf[b]], file[ProjectOf[b]], slot[ProjectOf[b]])
  BY <1>1, <1>2, OfSound DEF KnowsOf, Before, Freed, Written
<1> QED
  BY <1>3, BuildOnlySound DEF Plan, project, store, queues

\* The plain moves.
LEMMA GotoSound ==
  ASSUME Sound, NEW b \in Builds, BuildStep(b), NEW q, Goto(b, q),
         KnowsOf([bld[b] EXCEPT !.pc = q],
                 src[ProjectOf[b]], file[ProjectOf[b]], slot[ProjectOf[b]]),
         UNCHANGED <<src, file, slot, cas, manifest, jobs, gc>>
  PROVE  Sound'
<1>1. bld'[b] = [bld[b] EXCEPT !.pc = q]
  BY OfSound DEF Goto
<1> QED
  BY <1>1, BuildOnlySound

\* Taking locks learns nothing.
LEMMA LocksSound ==
  ASSUME Sound, NEW b \in Builds, TakeTargetLock(b) \/ TakeStoreLock(b) PROVE Sound'
<1>1. CASE TakeTargetLock(b)
  <2>1. KnowsOf([bld[b] EXCEPT !.pc = "target"],
                src[ProjectOf[b]], file[ProjectOf[b]], slot[ProjectOf[b]])
    BY <1>1, OfSound DEF TakeTargetLock, BuildState, KnowsOf, Before, Freed, Written
  <2> QED
    BY <1>1, <2>1, GotoSound DEF BuildStep, TakeTargetLock, store, queues
<1>2. CASE TakeStoreLock(b)
  <2>1. KnowsOf([bld[b] EXCEPT !.pc = "lookup"],
                src[ProjectOf[b]], file[ProjectOf[b]], slot[ProjectOf[b]])
    BY <1>2, OfSound DEF TakeStoreLock, BuildState, KnowsOf, Before, Freed, Written
  <2> QED
    BY <1>2, <2>1, GotoSound DEF BuildStep, TakeStoreLock, project, store, queues
<1> QED
  BY <1>1, <1>2

\* A fresh unit owns its slot.
LEMMA FreshSound ==
  ASSUME Sound, NEW b \in Builds, Fresh(b) PROVE Sound'
<1>1. KnowsOf([bld[b] EXCEPT !.pc = "finish"],
              src[ProjectOf[b]], file[ProjectOf[b]], slot[ProjectOf[b]])
  BY OfSound DEF Fresh, IsFresh, BuildState, KnowsOf, Before, Freed, Written
<1> QED
  BY <1>1, GotoSound DEF BuildStep, Fresh, project, store, queues

\* Nor does it give the slot up to have its entries marked used.
LEMMA FreshUnusedSound ==
  ASSUME Sound, NEW b \in Builds, FreshUnused(b) PROVE Sound'
<1>1. bld[b].pc = "lookup" /\ bld[b].key \in Keys
  BY OfSound DEF FreshUnused, PhaseOf
<1>2. /\ bld'[b].key = bld[b].key /\ bld'[b].env = bld[b].env
      /\ bld'[b].held = bld[b].held /\ bld'[b].hit = bld[b].hit
      /\ bld'[b].pc = "touch" /\ bld'[b].mem = manifest[bld[b].key]
  BY OfSound DEF FreshUnused, BuildState
<1>3. ~bld[b].held /\ slot[ProjectOf[b]] = [key |-> bld[b].key, inputs |-> bld[b].env]
  BY DEF FreshUnused, IsFresh
<1>4. \A x \in manifest[bld[b].key] : x.blob = Made(bld[b].key, x.inputs)
  BY <1>1 DEF Sound, EntriesSound
<1>5. KnowsOf(bld'[b], src[ProjectOf[b]], file[ProjectOf[b]], slot[ProjectOf[b]])
  BY <1>1, <1>2, <1>3, <1>4, OfSound DEF KnowsOf, Before, Freed, Written
<1> QED
  BY <1>5, BuildOnlySound DEF BuildStep, FreshUnused, project, store, queues

\* A miss starts with a free slot or frees it next.
LEMMA LookupMissSound ==
  ASSUME Sound, NEW b \in Builds, LookupMiss(b) PROVE Sound'
<1>1. KnowsOf([bld[b] EXCEPT !.pc = AfterMiss(b)],
              src[ProjectOf[b]], file[ProjectOf[b]], slot[ProjectOf[b]])
  BY OfSound DEF LookupMiss, AfterMiss, BuildState, KnowsOf, Before, Freed, Written
<1> QED
  BY <1>1, GotoSound DEF BuildStep, LookupMiss, project, store, queues

\* The blob of a hit is what compiling would make.
LEMMA LookupHitSound ==
  ASSUME Sound, NEW b \in Builds, LookupHit(b) PROVE Sound'
<1>1. bld[b].pc = "lookup" /\ bld[b].key \in Keys
  BY OfSound DEF LookupHit, PhaseOf
<1>2. PICK e \in Usable(bld[b].key, bld[b].env) :
        \/ bld' = [bld EXCEPT ![b].pc = AfterHit(b), ![b].hit = e.blob]
        \/ bld' = [bld EXCEPT ![b].pc = "touch", ![b].hit = e.blob,
                              ![b].mem = manifest[bld[b].key]]
  BY DEF LookupHit
<1>3. e.blob = Made(bld[b].key, bld[b].env) /\ e.blob # None
  BY <1>1, Distinct DEF Usable, Sound, EntriesSound, Shape, Typed, StoreTyped, Entry
<1>4. /\ bld'[b].key = bld[b].key /\ bld'[b].env = bld[b].env
      /\ bld'[b].held = bld[b].held /\ bld'[b].hit = e.blob
      /\ \/ bld'[b].pc = AfterHit(b)
         \/ bld'[b].pc = "touch" /\ bld'[b].mem = manifest[bld[b].key]
  BY <1>2, OfSound DEF BuildState
<1>5. \A x \in manifest[bld[b].key] : x.blob = Made(bld[b].key, x.inputs)
  BY <1>1 DEF Sound, EntriesSound
<1>6. KnowsOf(bld'[b], src[ProjectOf[b]], file[ProjectOf[b]], slot[ProjectOf[b]])
  BY <1>1, <1>3, <1>4, <1>5, OfSound DEF AfterHit, KnowsOf, Before, Freed, Written
<1> QED
  BY <1>6, BuildOnlySound DEF BuildStep, LookupHit, project, store, queues

\* The manifest written back is as right as the one read.
LEMMA TouchSound ==
  ASSUME Sound, NEW b \in Builds, Touch(b) PROVE Sound'
<1>1. bld[b].pc = "touch" /\ bld[b].key \in Keys
  BY OfSound DEF Touch, PhaseOf
<1>2. /\ bld'[b].key = bld[b].key /\ bld'[b].env = bld[b].env /\ bld'[b].pc = AfterTouch(b)
      /\ bld'[b].held = bld[b].held /\ bld'[b].hit = bld[b].hit
  BY OfSound DEF BuildState, Touch
<1>3. KnowsOf(bld'[b], src[ProjectOf[b]], file[ProjectOf[b]], slot[ProjectOf[b]])
  BY <1>1, <1>2, OfSound DEF AfterTouch, AfterHit, KnowsOf, Before, Freed, Written
<1>4. EntriesSound'
  <2>1. manifest \in [Keys -> SUBSET Entry]
    BY DEF Sound, Shape, Typed, StoreTyped
  <2>2. \A x \in bld[b].mem : x.blob = Made(bld[b].key, x.inputs)
    BY <1>1, OfSound DEF KnowsOf
  <2> QED
    BY <1>1, <2>1, <2>2 DEF Touch, Sound, EntriesSound
<1>5. UNCHANGED <<src, file, slot, cas, jobs, gc>>
  BY DEF Touch, project, queues
<1>6. BuildSound(b)' /\ MineOnly(b) /\ OwnerSound(ProjectOf[b])' /\ BlobsSound'
  BY <1>3, <1>5, OfSound DEF BuildSound, MineOnly, OwnerSound, Sound, BlobsSound
<1> QED
  BY <1>4, <1>5, <1>6, BuildKeepsSound DEF BuildStep

\* A free slot credits nobody.
LEMMA ReleaseSound ==
  ASSUME Sound, NEW b \in Builds, ReleaseSlot(b) PROVE Sound'
<1>1. bld[b].pc = "release" /\ bld[b].key \in Keys
  BY OfSound DEF ReleaseSlot, PhaseOf
<1>2. /\ bld'[b].key = bld[b].key /\ bld'[b].env = bld[b].env
      /\ bld'[b].held = bld[b].held /\ bld'[b].hit = bld[b].hit
      /\ bld'[b].pc = IF bld[b].hit # None THEN "restore" ELSE "execute"
  BY OfSound DEF BuildState, ReleaseSlot
<1>3. slot \in [Projects -> Owner \cup {None}] /\ ProjectOf[b] \in Projects
  BY OfSound DEF Sound, Shape, Typed, ProjectTyped
<1>4. /\ slot'[ProjectOf[b]] = None
      /\ \A p \in Projects \ {ProjectOf[b]} : slot'[p] = slot[p]
  BY <1>3 DEF ReleaseSlot
<1>5. KnowsOf(bld'[b], src[ProjectOf[b]], file[ProjectOf[b]], None)
  BY <1>1, <1>2, OfSound DEF KnowsOf, Before, Freed, Written
<1>6. HoldsTarget(b) /\ UNCHANGED <<src, file, cas, manifest, jobs, gc>>
  BY <1>1 DEF ReleaseSlot, HoldsTarget, Unlocked, store, queues
<1>7. BuildSound(b)' /\ MineOnly(b) /\ OwnerSound(ProjectOf[b])'
  BY <1>4, <1>5, <1>6 DEF BuildSound, MineOnly, OwnerSound
<1>8. EntriesSound' /\ BlobsSound'
  BY <1>6 DEF Sound, EntriesSound, BlobsSound
<1> QED
  BY <1>6, <1>7, <1>8, BuildKeepsSound DEF BuildStep

\* The second lookup runs with a free slot.
LEMMA UnitLockSound ==
  ASSUME Sound, NEW b \in Builds, TakeUnitLock(b) PROVE Sound'
<1>1. /\ bld'[b].key = bld[b].key /\ bld'[b].env = bld[b].env /\ bld'[b].pc = "lookup"
      /\ bld'[b].held = TRUE /\ bld'[b].hit = bld[b].hit /\ bld[b].pc = "execute"
  BY OfSound DEF BuildState, TakeUnitLock
<1>2. KnowsOf(bld'[b], src[ProjectOf[b]], file[ProjectOf[b]], slot[ProjectOf[b]])
  BY <1>1, OfSound DEF KnowsOf, Before, Freed, Written
<1> QED
  BY <1>2, BuildOnlySound DEF BuildStep, TakeUnitLock, project, store, queues

\* The output path gets bytes f while nobody owns the slot.
LEMMA OutputSound ==
  ASSUME Sound, NEW b \in Builds, BuildStep(b), NEW f,
         file' = [file EXCEPT ![ProjectOf[b]] = f],
         bld[b].pc \in Freed,
         KnowsOf(bld'[b], src[ProjectOf[b]], f, slot[ProjectOf[b]]),
         UNCHANGED <<src, slot, cas, manifest, jobs, gc>>
  PROVE  Sound'
<1>1. file \in [Projects -> Digests \cup {None}] /\ ProjectOf[b] \in Projects
  BY OfSound DEF Sound, Shape, Typed, ProjectTyped
<1>2. /\ file'[ProjectOf[b]] = f
      /\ \A p \in Projects \ {ProjectOf[b]} : file'[p] = file[p]
  BY <1>1
<1>3. slot[ProjectOf[b]] = None /\ HoldsTarget(b)
  BY OfSound DEF KnowsOf, HoldsTarget, Unlocked, Freed, Written
<1>4. BuildSound(b)' /\ MineOnly(b) /\ OwnerSound(ProjectOf[b])'
  BY <1>2, <1>3 DEF BuildSound, MineOnly, OwnerSound
<1>5. EntriesSound' /\ BlobsSound'
  BY DEF Sound, EntriesSound, BlobsSound
<1> QED
  BY <1>4, <1>5, BuildKeepsSound

\* What is restored is what compiling would make.
LEMMA RestoreSound ==
  ASSUME Sound, NEW b \in Builds, Restore(b) PROVE Sound'
<1> DEFINE p == ProjectOf[b]
           h == bld[b].hit
<1>1. bld[b].pc = "restore" /\ h \in Digests
  BY OfSound DEF Restore, PhaseOf, BuildState
<1>2. /\ bld'[b].key = bld[b].key /\ bld'[b].env = bld[b].env
      /\ bld'[b].held = FALSE /\ bld'[b].hit = None
      /\ bld'[b].pc = IF HasBlob(h) THEN "save" ELSE "missing"
  BY OfSound DEF BuildState, Restore
<1>3. UNCHANGED <<src, slot, cas, manifest, jobs, gc>> /\ BuildStep(b)
  BY DEF Restore, store, queues, BuildStep
<1>4. CASE HasBlob(h)
  <2>1. cas[h] = h /\ h = Made(bld[b].key, bld[b].env)
    BY <1>1, <1>4, OfSound, Distinct DEF HasBlob, Sound, BlobsSound, KnowsOf
  <2>2. file' = [file EXCEPT ![p] = h]
    BY <1>4, <2>1 DEF Restore
  <2>3. KnowsOf(bld'[b], src[p], h, slot[p])
    BY <1>1, <1>2, <1>4, <2>1, OfSound DEF KnowsOf, Before, Freed, Written
  <2> QED
    BY <1>1, <1>3, <2>2, <2>3, OutputSound DEF Freed
<1>5. CASE ~HasBlob(h)
  <2>1. file' = file
    BY <1>5 DEF Restore
  <2>2. KnowsOf(bld'[b], src[p], file[p], slot[p])
    BY <1>1, <1>2, <1>5, OfSound DEF KnowsOf, Before, Freed, Written
  <2> QED
    BY <1>3, <2>1, <2>2, BuildOnlySound
<1> QED
  BY <1>4, <1>5

\* Unlinking happens under a free slot.
LEMMA CompileSound ==
  ASSUME Sound, NEW b \in Builds, StartCompile(b) PROVE Sound'
<1>1. /\ bld'[b].key = bld[b].key /\ bld'[b].env = bld[b].env /\ bld'[b].pc = "rustc"
      /\ bld'[b].held = bld[b].held /\ bld'[b].hit = bld[b].hit /\ bld[b].pc = "compile"
  BY OfSound DEF BuildState, StartCompile, Goto
<1>2. KnowsOf(bld'[b], src[ProjectOf[b]], None, slot[ProjectOf[b]])
  BY <1>1, OfSound DEF KnowsOf, Before, Freed, Written
<1> QED
  BY <1>1, <1>2, OutputSound DEF StartCompile, store, queues, BuildStep, Freed

\* rustc reads the very sources the key was planned from.
LEMMA ReadsSound ==
  ASSUME Sound, NEW b \in Builds, RustcReads(b) PROVE Sound'
<1>1. /\ bld'[b].key = bld[b].key /\ bld'[b].env = bld[b].env /\ bld'[b].pc = "emit"
      /\ bld'[b].held = bld[b].held /\ bld'[b].hit = bld[b].hit
      /\ bld'[b].rd = src[ProjectOf[b]] /\ bld[b].pc = "rustc"
  BY OfSound DEF BuildState, RustcReads
<1>2. KnowsOf(bld'[b], src[ProjectOf[b]], Torn, slot[ProjectOf[b]])
  BY <1>1, OfSound DEF KnowsOf, Before, Freed, Written
<1> QED
  BY <1>1, <1>2, OutputSound DEF RustcReads, store, queues, BuildStep, Freed

\* So what it writes is what the key stands for.
LEMMA EmitsSound ==
  ASSUME Sound, NEW b \in Builds, RustcEmits(b) PROVE Sound'
<1> DEFINE f == Made(bld[b].rd, bld[b].env)
<1>1. /\ bld'[b].key = bld[b].key /\ bld'[b].env = bld[b].env /\ bld'[b].pc = "store"
      /\ bld'[b].held = bld[b].held /\ bld'[b].hit = bld[b].hit /\ bld[b].pc = "emit"
  BY OfSound DEF BuildState, RustcEmits
<1>2. file' = [file EXCEPT ![ProjectOf[b]] = f]
  BY DEF RustcEmits, Made
<1>3. f = Made(bld[b].key, bld[b].env)
  BY <1>1, OfSound DEF KnowsOf
<1> HIDE DEF f
<1>4. KnowsOf(bld'[b], src[ProjectOf[b]], f, slot[ProjectOf[b]])
  BY <1>1, <1>3, OfSound DEF KnowsOf, Before, Freed, Written
<1>5. UNCHANGED <<src, slot, cas, manifest, jobs, gc>> /\ BuildStep(b) /\ bld[b].pc \in Freed
  BY <1>1 DEF RustcEmits, store, queues, BuildStep, Freed
<1> QED
  BY <1>2, <1>4, <1>5, OutputSound

\* A failure stores nothing.
LEMMA FailsSound ==
  ASSUME Sound, NEW b \in Builds, RustcFails(b) \/ StoreFails(b) PROVE Sound'
<1>1. /\ bld'[b].key = bld[b].key /\ bld'[b].env = bld[b].env /\ bld'[b].held = FALSE
      /\ bld'[b].hit = bld[b].hit
      /\ \/ bld'[b].pc = "failed" /\ bld[b].pc = "emit"
         \/ bld'[b].pc = "save" /\ bld[b].pc \in {"store", "merge", "upsert"}
  BY OfSound DEF BuildState, RustcFails, StoreFails
<1>2. KnowsOf(bld'[b], src[ProjectOf[b]], file[ProjectOf[b]], slot[ProjectOf[b]])
  BY <1>1, OfSound DEF KnowsOf, Before, Freed, Written
<1> QED
  BY <1>2, BuildOnlySound DEF BuildStep, RustcFails, StoreFails, project, store, queues

\* A build that ends leaves the disk as it is.
LEMMA EndSound ==
  ASSUME Sound, NEW b \in Builds, GiveUp(b) \/ Crash(b) \/ Housekeeping(b) PROVE Sound'
<1>1. bld'[b] = NoBuild
  BY OfSound DEF GiveUp, Crash, Housekeeping
<1>2. KnowsOf(NoBuild, src[ProjectOf[b]], file[ProjectOf[b]], slot[ProjectOf[b]])
  BY DEF NoBuild, KnowsOf, Before, Freed, Written
<1>3. UNCHANGED <<src, file, slot, cas, manifest, jobs, gc>>
  BY DEF GiveUp, Crash, Housekeeping, project, store, queues
<1> QED
  BY <1>1, <1>2, <1>3, BuildOnlySound DEF BuildStep

\* The error of another unit changes no artifact.
LEMMA OtherSound ==
  ASSUME Sound, NEW b \in Builds, OtherFails(b) PROVE Sound'
<1>1. KnowsOf([bld[b] EXCEPT !.pc = "failed"],
              src[ProjectOf[b]], file[ProjectOf[b]], slot[ProjectOf[b]])
  BY OfSound DEF OtherFails, BuildState, KnowsOf, Before, Freed, Written
<1> QED
  BY <1>1, GotoSound DEF BuildStep, OtherFails, project, store, queues

\* Registering changes no artifact.
LEMMA RegisterSound ==
  ASSUME Sound, NEW b \in Builds, Register(b) PROVE Sound'
<1>1. KnowsOf([bld[b] EXCEPT !.pc = "house"],
              src[ProjectOf[b]], file[ProjectOf[b]], slot[ProjectOf[b]])
  BY OfSound DEF Register, BuildState, KnowsOf, Before, Freed, Written
<1> QED
  BY <1>1, GotoSound DEF BuildStep, Register, project, store

\* The blob under a digest has that digest.
LEMMA IngestSound ==
  ASSUME Sound, NEW b \in Builds, Ingest(b) PROVE Sound'
<1>1. bld[b].pc = "store" /\ file[ProjectOf[b]] \in Digests
  BY OfSound, Distinct DEF Ingest, PhaseOf
<1>2. /\ bld'[b].key = bld[b].key /\ bld'[b].env = bld[b].env /\ bld'[b].pc = "merge"
      /\ bld'[b].held = bld[b].held /\ bld'[b].hit = bld[b].hit
  BY OfSound DEF BuildState, Ingest, Goto
<1>3. KnowsOf(bld'[b], src[ProjectOf[b]], file[ProjectOf[b]], slot[ProjectOf[b]])
  BY <1>1, <1>2, OfSound DEF KnowsOf, Before, Freed, Written
<1>4. UNCHANGED <<src, file, slot, manifest, jobs, gc>>
  BY DEF Ingest, project, queues
<1>5. BlobsSound'
  BY <1>1 DEF Ingest, Sound, BlobsSound, Shape, Typed, StoreTyped
<1>6. BuildSound(b)' /\ MineOnly(b) /\ OwnerSound(ProjectOf[b])' /\ EntriesSound'
  BY <1>3, <1>4, OfSound DEF BuildSound, MineOnly, OwnerSound, Sound, EntriesSound
<1> QED
  BY <1>4, <1>5, <1>6, BuildKeepsSound DEF BuildStep

\* The entries read are as right as the manifest.
LEMMA LoadSound ==
  ASSUME Sound, NEW b \in Builds, LoadManifest(b) PROVE Sound'
<1>1. bld[b].pc = "merge" /\ bld[b].key \in Keys
  BY OfSound DEF LoadManifest, PhaseOf
<1>2. /\ bld'[b].key = bld[b].key /\ bld'[b].env = bld[b].env /\ bld'[b].pc = "upsert"
      /\ bld'[b].held = bld[b].held /\ bld'[b].hit = bld[b].hit
      /\ bld'[b].mem = manifest[bld[b].key]
  BY OfSound DEF BuildState, LoadManifest
<1>3. \A x \in manifest[bld[b].key] : x.blob = Made(bld[b].key, x.inputs)
  BY <1>1 DEF Sound, EntriesSound
<1>4. KnowsOf(bld'[b], src[ProjectOf[b]], file[ProjectOf[b]], slot[ProjectOf[b]])
  BY <1>1, <1>2, <1>3, OfSound DEF KnowsOf, Before, Freed, Written
<1> QED
  BY <1>4, BuildOnlySound DEF BuildStep, LoadManifest, project, store, queues

\* The new entry names the output just compiled.
LEMMA SaveSound ==
  ASSUME Sound, NEW b \in Builds, SaveManifest(b) PROVE Sound'
<1> DEFINE e == [inputs |-> bld[b].env, blob |-> file[ProjectOf[b]]]
<1>1. bld[b].pc = "upsert" /\ bld[b].key \in Keys
  BY OfSound DEF SaveManifest, PhaseOf
<1>2. /\ bld'[b].key = bld[b].key /\ bld'[b].env = bld[b].env /\ bld'[b].pc = "save"
      /\ bld'[b].held = FALSE /\ bld'[b].hit = bld[b].hit
  BY OfSound DEF BuildState, SaveManifest
<1>3. KnowsOf(bld'[b], src[ProjectOf[b]], file[ProjectOf[b]], slot[ProjectOf[b]])
  BY <1>1, <1>2, OfSound DEF KnowsOf, Before, Freed, Written
<1>4. \A x \in Upsert(bld[b].mem, e) : x.blob = Made(bld[b].key, x.inputs)
  <2>1. file[ProjectOf[b]] = Made(bld[b].key, bld[b].env)
    BY <1>1, OfSound DEF KnowsOf, Written
  <2>2. \A x \in bld[b].mem : x.blob = Made(bld[b].key, x.inputs)
    BY <1>1, OfSound DEF KnowsOf
  <2> QED
    BY <2>1, <2>2 DEF Upsert
<1>5. EntriesSound'
  <2>1. manifest \in [Keys -> SUBSET Entry]
    BY DEF Sound, Shape, Typed, StoreTyped
  <2>2. manifest' = [manifest EXCEPT ![bld[b].key] = Upsert(bld[b].mem, e)]
    BY DEF SaveManifest
  <2> HIDE DEF e
  <2> QED
    BY <1>1, <1>4, <2>1, <2>2 DEF Sound, EntriesSound
<1>6. UNCHANGED <<src, file, slot, cas, jobs, gc>>
  BY DEF SaveManifest, project, queues
<1>7. BuildSound(b)' /\ MineOnly(b) /\ OwnerSound(ProjectOf[b])' /\ BlobsSound'
  BY <1>3, <1>6, OfSound DEF BuildSound, MineOnly, OwnerSound, Sound, BlobsSound
<1> QED
  BY <1>5, <1>6, <1>7, BuildKeepsSound DEF BuildStep

\* The slot gets an owner once the output is finished.
LEMMA SaveStateSound ==
  ASSUME Sound, NEW b \in Builds, SaveState(b) PROVE Sound'
<1> DEFINE p == ProjectOf[b]
           o == [key |-> bld[b].key, inputs |-> bld[b].env]
<1>1. bld[b].pc = "save"
  BY DEF SaveState
<1>2. /\ bld'[b].key = bld[b].key /\ bld'[b].env = bld[b].env /\ bld'[b].pc = "finish"
      /\ bld'[b].held = bld[b].held /\ bld'[b].hit = bld[b].hit
  BY OfSound DEF BuildState, SaveState, Goto
<1>3. slot \in [Projects -> Owner \cup {None}] /\ p \in Projects
  BY OfSound DEF Sound, Shape, Typed, ProjectTyped
<1>4. slot'[p] = o /\ \A x \in Projects \ {p} : slot'[x] = slot[x]
  BY <1>3 DEF SaveState
<1>5. KnowsOf(bld'[b], src[p], file[p], o)
  BY <1>1, <1>2, OfSound DEF KnowsOf, Before, Freed, Written
<1>6. HoldsTarget(b) /\ UNCHANGED <<src, file, cas, manifest, jobs, gc>>
  BY <1>1 DEF SaveState, HoldsTarget, Unlocked, store, queues
<1>7. file[p] = Made(o.key, o.inputs)
  BY <1>1, OfSound DEF KnowsOf, Written
<1> HIDE DEF o
<1>8. BuildSound(b)' /\ MineOnly(b) /\ OwnerSound(p)'
  BY <1>4, <1>5, <1>6, <1>7 DEF BuildSound, MineOnly, OwnerSound
<1>9. EntriesSound' /\ BlobsSound'
  BY <1>6 DEF Sound, EntriesSound, BlobsSound
<1> QED
  BY <1>6, <1>8, <1>9, BuildKeepsSound DEF BuildStep

\* With no output deferred, the queue stays empty.
LEMMA NoDeferral ==
  ASSUME Quiet, NEW b \in Builds PROVE ~DeferIngest(b)
BY DEF Quiet, DeferIngest

\* Every step of a build keeps the store sound.
LEMMA BuildStaysSound ==
  ASSUME Quiet, Sound, NEW b \in Builds, Plan(b) \/ BuildStep(b) \/ Crash(b)
  PROVE  Sound'
BY NoDeferral, PlanSound, LocksSound, FreshSound, FreshUnusedSound, LookupHitSound, TouchSound, LookupMissSound,
   ReleaseSound, UnitLockSound, RestoreSound, CompileSound, ReadsSound, EmitsSound, FailsSound,
   IngestSound, LoadSound, SaveSound, SaveStateSound, OtherSound, RegisterSound,
   EndSound DEF BuildStep

\* A source changes, or the target directory goes, while no build is running.
LEMMA ProjectSound ==
  ASSUME Quiet, Sound, NEW p \in Projects, Edit(p) \/ Clean(p) PROVE Sound'
<1>1. ProjectIdle(p)
  BY DEF Quiet, Edit, Clean
<1>2. UNCHANGED <<cas, manifest, jobs, bld, gc>>
  BY DEF Edit, Clean, store, queues
<1>3. \A q \in Projects \ {p} : src'[q] = src[q] /\ file'[q] = file[q] /\ slot'[q] = slot[q]
  BY DEF Edit, Clean, Sound, Shape, Typed, ProjectTyped
<1>4. (file'[p] = file[p] /\ slot'[p] = slot[p]) \/ slot'[p] = None
  BY DEF Edit, Clean, Sound, Shape, Typed, ProjectTyped
<1>5. ASSUME NEW b \in Builds PROVE BuildSound(b)'
  <2>1. BuildSound(b) /\ ProjectOf[b] \in Projects
    BY OfBuild DEF Sound
  <2>2. CASE ProjectOf[b] = p
    BY <1>1, <1>2, <2>1, <2>2
       DEF ProjectIdle, BuildSound, KnowsOf, Before, Freed, Written
  <2>3. CASE ProjectOf[b] # p
    BY <1>2, <1>3, <2>1, <2>3 DEF BuildSound
  <2> QED
    BY <2>2, <2>3
<1>6. \A q \in Projects : OwnerSound(q)'
  BY <1>3, <1>4 DEF Sound, OwnerSound
<1>7. Shape'
  BY EditShape, CleanShape DEF Sound
<1> QED
  BY <1>2, <1>5, <1>6, <1>7 DEF Sound, EntriesSound, BlobsSound, NothingDeferred

\* Collectors add nothing: units and blobs only go.
LEMMA GcKeepsSound ==
  ASSUME Sound, Shape', UNCHANGED <<src, file, slot, bld>>,
         jobs' \subseteq jobs,
         \A k \in Keys : manifest'[k] \subseteq manifest[k],
         \A d \in Digests : cas'[d] \in {None, cas[d]},
         \A g \in Collectors :
           \/ gc'[g] = gc[g]
           \/ /\ gc'[g].todo = {}
              /\ gc'[g].pc \notin {"check", "hash", "place", "merge", "upsert"}
  PROVE  Sound'
<1>1. \A b \in Builds : BuildSound(b)'
  BY DEF Sound, BuildSound
<1>2. \A p \in Projects : OwnerSound(p)'
  BY DEF Sound, OwnerSound
<1>3. EntriesSound' /\ BlobsSound'
  BY DEF Sound, EntriesSound, BlobsSound
<1>4. NothingDeferred'
  BY DEF Sound, NothingDeferred
<1> QED
  BY <1>1, <1>2, <1>3, <1>4 DEF Sound

\* Time passes.
LEMMA HourSound ==
  ASSUME Sound, HourPasses PROVE Sound'
BY HourShape, GcKeepsSound DEF Sound, HourPasses, project, queues

\* A collector that moves on to state r, without a job.
LEMMA GcMovesSound ==
  ASSUME Sound, Shape', NEW g \in Collectors, NEW r, NewGc(g, r),
         r.todo = {}, r.pc \notin {"check", "hash", "place", "merge", "upsert"},
         UNCHANGED <<src, file, slot, bld, jobs>>,
         \A k \in Keys : manifest'[k] \subseteq manifest[k],
         \A d \in Digests : cas'[d] \in {None, cas[d]}
  PROVE  Sound'
<1>1. gc \in [Collectors -> GcState]
  BY DEF Sound, Shape, Typed, GcTyped
<1>2. gc'[g] = r /\ \A h \in Collectors \ {g} : gc'[h] = gc[h]
  BY <1>1 DEF NewGc
<1> QED
  BY <1>2, GcKeepsSound

\* With nothing deferred, compaction only collects.
LEMMA CompactSound ==
  ASSUME Sound, Shape', CompactStep PROVE Sound'
<1>1. jobs = {} /\ \A g \in Collectors :
        gc[g].todo = {} /\ gc[g].pc \notin {"check", "hash", "place", "merge", "upsert"}
  BY DEF Sound, NothingDeferred
<1>2. ~NextJob /\ ~CheckOutput /\ ~HashOutput /\ ~PlaceBlob /\ ~MergeLoad /\ ~MergeSave
  BY <1>1 DEF NextJob, CheckOutput, HashOutput, PlaceBlob, MergeLoad, MergeSave, Compacting
<1>3. CASE StartCompact
  <2> DEFINE r == [NoGc EXCEPT !.pc = "ingest", !.todo = jobs]
  <2>1. "compact" \in Collectors /\ NewGc("compact", r)
    BY <1>3 DEF StartCompact, Compacting
  <2>2. r.todo = {} /\ r.pc = "ingest"
    BY <1>1 DEF NoGc
  <2> HIDE DEF r
  <2> QED
    BY <1>3, <2>1, <2>2, GcMovesSound DEF StartCompact, project, store
<1>4. CASE CompactGivesUp
  BY <1>4, GcKeepsSound DEF CompactGivesUp, project, store
<1>5. CASE IngestDone
  <2> DEFINE r == [NoGc EXCEPT !.pc = "plan"]
  <2>1. "compact" \in Collectors /\ NewGc("compact", r)
    BY <1>5 DEF IngestDone, Compacting
  <2>2. r.todo = {} /\ r.pc = "plan"
    BY DEF NoGc
  <2> HIDE DEF r
  <2> QED
    BY <1>5, <2>1, <2>2, GcMovesSound DEF IngestDone, project, store, queues
<1> QED
  BY <1>2, <1>3, <1>4, <1>5 DEF CompactStep

\* rb store gc starts.
LEMMA UserSound ==
  ASSUME Sound, Shape', StartUserGc PROVE Sound'
<1> DEFINE r == [NoGc EXCEPT !.pc = "plan"]
<1>1. "user" \in Collectors /\ NewGc("user", r)
  BY DEF StartUserGc
<1>2. r.todo = {} /\ r.pc = "plan"
  BY DEF NoGc
<1> HIDE DEF r
<1> QED
  BY <1>1, <1>2, GcMovesSound DEF StartUserGc, project, store, queues

\* Collecting takes away and adds nothing.
LEMMA CollectSound ==
  ASSUME Sound, Shape', NEW g \in Collectors, GcStep(g) \/ CrashGc(g) PROVE Sound'
<1>1. gc[g] \in GcState /\ gc[g].todo = {}
  BY OfGc DEF Sound, NothingDeferred
<1>2. NoGc.todo = {} /\ NoGc.pc = "idle"
  BY DEF NoGc
<1>3. manifest \in [Keys -> SUBSET Entry] /\ cas \in [Digests -> Digests \cup {None}]
  BY DEF Sound, Shape, Typed, StoreTyped
<1>4. CASE GcPlan(g)
  <2> DEFINE q == IF g = "compact" THEN rmq ELSE {}
             r == [NoGc EXCEPT !.pc = "scan", !.hot = ProjectKeys(Projects), !.queued = q]
  <2>1. NewGc(g, r)
    BY <1>4 DEF GcPlan
  <2>2. r.todo = {} /\ r.pc = "scan"
    BY DEF NoGc
  <2> HIDE DEF r
  <2> QED
    BY <1>4, <2>1, <2>2, GcMovesSound DEF GcPlan, project, store
<1>5. CASE GcScan(g)
  <2>1. PICK U, B, L, G :
          NewGc(g, [gc[g] EXCEPT !.pc = "units", !.hot = {}, !.units = U, !.blobs = B,
                                 !.live = L, !.gone = G])
    BY <1>5 DEF GcScan, Units
  <2> DEFINE r == [gc[g] EXCEPT !.pc = "units", !.hot = {}, !.units = U, !.blobs = B,
                                !.live = L, !.gone = G]
  <2>2. r.todo = {} /\ r.pc = "units"
    BY <1>1 DEF GcState
  <2> HIDE DEF r
  <2>3. NewGc(g, r)
    BY <2>1 DEF r
  <2> QED
    BY <1>5, <2>2, <2>3, GcMovesSound DEF GcScan, project, store, queues
<1>6. CASE GcRemoveUnit(g)
  <2>1. PICK k \in gc[g].units :
          /\ manifest' = [manifest EXCEPT ![k] = {}]
          /\ NewGc(g, [gc[g] EXCEPT !.units = gc[g].units \ {k}])
    BY <1>6 DEF GcRemoveUnit
  <2> DEFINE r == [gc[g] EXCEPT !.units = gc[g].units \ {k}]
  <2>2. r.todo = {} /\ r.pc = "units" /\ NewGc(g, r)
    BY <1>1, <1>6, <2>1 DEF GcState, GcRemoveUnit
  <2>3. \A x \in Keys : manifest'[x] \subseteq manifest[x]
    BY <1>3, <2>1
  <2> HIDE DEF r
  <2> QED
    BY <1>6, <2>2, <2>3, GcMovesSound DEF GcRemoveUnit, project, queues
<1>7. CASE GcSweep(g)
  <2>1. PICK d \in gc[g].blobs :
          /\ cas' = IF GcKeeps(g, d) THEN cas ELSE [cas EXCEPT ![d] = None]
          /\ NewGc(g, [gc[g] EXCEPT !.blobs = gc[g].blobs \ {d}])
    BY <1>7 DEF GcSweep
  <2> DEFINE r == [gc[g] EXCEPT !.blobs = gc[g].blobs \ {d}]
  <2>2. r.todo = {} /\ r.pc = "units" /\ NewGc(g, r)
    BY <1>1, <1>7, <2>1 DEF GcState, GcSweep
  <2>3. \A x \in Digests : cas'[x] \in {None, cas[x]}
    BY <1>3, <2>1
  <2> HIDE DEF r
  <2> QED
    BY <1>7, <2>2, <2>3, GcMovesSound DEF GcSweep, project, queues
<1>8. CASE GcFinish(g)
  <2> DEFINE r == [NoGc EXCEPT !.pc = "plan"]
  <2>1. NewGc(g, r) \/ NewGc(g, NoGc)
    BY <1>8 DEF GcFinish
  <2>2. r.todo = {} /\ r.pc = "plan"
    BY DEF NoGc
  <2> HIDE DEF r
  <2> QED
    BY <1>2, <1>8, <2>1, <2>2, GcMovesSound DEF GcFinish, project, store
<1>9. CASE CrashGc(g)
  BY <1>2, <1>9, GcMovesSound DEF CrashGc, project, store, queues
<1> QED
  BY <1>4, <1>5, <1>6, <1>7, <1>8, <1>9 DEF GcStep

-----------------------------------------------------------------------------

\* A fresh machine is sound.
LEMMA InitSound == Init => Sound
<1> SUFFICES ASSUME Init PROVE Sound
  OBVIOUS
<1>1. ASSUME NEW b \in Builds PROVE BuildSound(b)
  BY DEF Init, NoBuild, BuildSound, KnowsOf, Before, Freed, Written
<1>2. \A p \in Projects : OwnerSound(p)
  BY DEF Init, OwnerSound
<1>3. EntriesSound /\ BlobsSound /\ NothingDeferred
  BY DEF Init, EntriesSound, BlobsSound, NothingDeferred, NoGc
<1> QED
  BY <1>1, <1>2, <1>3, InitShape DEF Sound

\* Every step keeps it sound.
LEMMA StepSound ==
  ASSUME Quiet, Sound, [Next]_vars PROVE Sound'
<1>1. Shape'
  BY StepShape DEF Sound
<1>2. CASE UNCHANGED vars
  BY <1>1, <1>2, GcKeepsSound DEF vars, project, store, queues
<1>3. CASE Next
  BY <1>1, <1>3, ProjectSound, HourSound, BuildStaysSound, CompactSound, UserSound, CollectSound
     DEF Next
<1> QED
  BY <1>2, <1>3

\* The invariant: every record, on disk or in the hands of a process, names what
\* compiling its own key makes, and the slot has an owner only around a finished
\* output.
THEOREM Soundness == ASSUME Quiet PROVE Spec => []Sound
<1>1. Sound /\ [Next]_vars => Sound'
  BY StepSound
<1> QED
  BY <1>1, InitSound, PTL DEF Spec

\* What a well-typed output path shows: its own bytes, or a blob or a hole of
\* the store behind a link.
LEMMA BytesSound ==
  ASSUME Sound, NEW p \in Projects PROVE Bytes(p) \in {None, file[p]}
<1>1. p \in linked => file[p] \in Digests
  BY DEF Sound, Shape, Typed, ProjectTyped
<1> QED
  BY <1>1 DEF Bytes, Sound, BlobsSound

\* A manifest entry never serves anything but what its own key and inputs make,
\* whoever wrote, touched or merged it, and whatever was killed in between.
THEOREM StoreServesItsKey == ASSUME Quiet PROVE Spec => []StoreSound
<1>1. Sound => StoreSound
  <2> SUFFICES ASSUME Sound, NEW k \in Keys, NEW e \in manifest[k], HasBlob(e.blob)
               PROVE  cas[e.blob] = Made(k, e.inputs)
    BY DEF StoreSound, Made
  <2>1. manifest[k] \in SUBSET Entry
    BY DEF Sound, Shape, Typed, StoreTyped
  <2>2. e.blob \in Digests /\ e.blob = Made(k, e.inputs)
    BY <2>1 DEF Entry, Sound, EntriesSound
  <2> QED
    BY <2>2 DEF HasBlob, Sound, BlobsSound
<1> QED
  BY <1>1, Soundness, PTL

\* units.json can be believed after a kill at any instant: a slot with an owner
\* shows that owner's finished output, or nothing.
THEOREM SlotSurvivesCrash == ASSUME Quiet PROVE Spec => []SlotCrashSafe
<1>1. Sound => SlotCrashSafe
  <2> SUFFICES ASSUME Sound, NEW p \in Projects, slot[p] # None
               PROVE  Bytes(p) \in {None, Made(slot[p].key, slot[p].inputs)}
    BY DEF SlotCrashSafe, Made
  <2>1. file[p] = Made(slot[p].key, slot[p].inputs)
    BY DEF Sound, OwnerSound
  <2> QED
    BY <2>1, BytesSound
<1> QED
  BY <1>1, Soundness, PTL

\* A build that reports success left its own artifact at the output path, or a
\* link that garbage collection cut.
THEOREM SuccessIsItsOwn == ASSUME Quiet PROVE Spec => []RightArtifact
<1>1. Sound => RightArtifact
  <2> SUFFICES ASSUME Sound, NEW b \in Builds, bld[b].pc = "finish"
               PROVE  Bytes(ProjectOf[b]) \in {None, Made(bld[b].key, bld[b].env)}
    BY DEF RightArtifact, Made
  <2>1. bld[b].key \in Keys /\ bld[b].env \in Inputs /\ ProjectOf[b] \in Projects
    BY OfSound DEF PhaseOf
  <2> DEFINE o == [key |-> bld[b].key, inputs |-> bld[b].env]
  <2>2. slot[ProjectOf[b]] = o
    BY OfSound DEF KnowsOf
  <2>3. o # None
    BY <2>1, SharedStoreAssumption
  <2>4. o.key = bld[b].key /\ o.inputs = bld[b].env
    OBVIOUS
  <2> HIDE DEF o
  <2>5. file[ProjectOf[b]] = Made(bld[b].key, bld[b].env)
    BY <2>2, <2>3, <2>4, OfSound DEF OwnerSound
  <2> QED
    BY <2>1, <2>5, BytesSound
<1> QED
  BY <1>1, Soundness, PTL

-----------------------------------------------------------------------------
(* A hit is served.  Only `rb store gc` takes blobs away here, and it works  *)
(* while no build holds store.lock; compaction only looks at that lock, so a *)
(* build that starts next to it may find its hit swept.                      *)

\* `rb store gc` holds store.lock against every build.
Exclusive ==
  \A b \in Builds : "user" \in Collectors /\ gc["user"].pc # "idle" => ~HoldsStore(b)

\* A blob a lookup found is there until it is placed, and a manifest it writes
\* back has the entry it was read for.
HitHeld(b) ==
  /\ bld[b].pc # "missing"
  /\ bld[b].pc = "touch" => bld[b].mem # {}
  /\ bld[b].hit # None => bld[b].pc \in {"touch", "release", "restore"} /\ HasBlob(bld[b].hit)

Served == Shape /\ Exclusive /\ \A b \in Builds : HitHeld(b)

\* Builds take no blob away.
LEMMA BlobsStay ==
  ASSUME Shape, NEW b \in Builds, Plan(b) \/ BuildStep(b) \/ Crash(b)
  PROVE  \A d \in Digests : HasBlob(d) => HasBlob(d)'
<1>1. CASE Ingest(b)
  <2>1. file[ProjectOf[b]] \in Digests
    BY <1>1, OfBuild, Distinct DEF Ingest, PhaseOf
  <2>2. cas \in [Digests -> Digests \cup {None}] /\ None \notin Digests
    BY Distinct DEF Shape, Typed, StoreTyped
  <2> QED
    BY <1>1, <2>1, <2>2 DEF Ingest, HasBlob
<1>2. CASE ~Ingest(b)
  <2>1. CASE Plan(b) \/ Crash(b) \/ TakeTargetLock(b) \/ TakeStoreLock(b) \/ Fresh(b)
             \/ FreshUnused(b) \/ LookupHit(b) \/ Touch(b) \/ LookupMiss(b) \/ ReleaseSlot(b)
             \/ TakeUnitLock(b)
    BY <2>1 DEF Plan, Crash, TakeTargetLock, TakeStoreLock, Fresh, FreshUnused, LookupHit, Touch,
       LookupMiss, ReleaseSlot, TakeUnitLock, store, HasBlob
  <2>2. CASE Restore(b) \/ StartCompile(b) \/ RustcReads(b) \/ RustcEmits(b) \/ RustcFails(b)
             \/ DeferIngest(b)
    BY <2>2 DEF Restore, StartCompile, RustcReads, RustcEmits, RustcFails, DeferIngest,
       store, HasBlob
  <2>3. CASE LoadManifest(b) \/ SaveManifest(b) \/ StoreFails(b) \/ SaveState(b)
             \/ OtherFails(b) \/ Register(b) \/ Housekeeping(b) \/ GiveUp(b)
    BY <2>3 DEF LoadManifest, SaveManifest, StoreFails, SaveState, OtherFails,
       Register, Housekeeping, GiveUp, store, HasBlob
  <2> QED
    BY <1>2, <2>1, <2>2, <2>3 DEF BuildStep
<1> QED
  BY <1>1, <1>2

\* What a build's step does to its own state, and to what others rely on.
LEMMA BuildServes ==
  ASSUME Served, NEW b \in Builds, Plan(b) \/ BuildStep(b) \/ Crash(b)
  PROVE  /\ gc' = gc
         /\ HoldsStore(b)' => HoldsStore(b) \/ ("user" \in Collectors => gc["user"].pc = "idle")
         /\ HitHeld(b)'
<1> DEFINE Pcs == {"touch", "release", "restore"}
           u == bld[b]
<1>1. /\ bld \in [Builds -> BuildState] /\ u \in BuildState
      /\ PhaseOf(u, file[ProjectOf[b]])
  BY OfBuild DEF Served
<1>2. u.pc # "missing" /\ (u.hit # None => u.pc \in Pcs /\ cas[u.hit] # None)
  BY DEF Served, HitHeld, HasBlob
<1>4. CASE Plan(b) \/ Crash(b) \/ GiveUp(b) \/ Housekeeping(b)
  BY <1>1, <1>2, <1>4
     DEF Plan, Crash, GiveUp, Housekeeping, store, NoBuild, HoldsStore, Unlocked, HitHeld,
         HasBlob, BuildState
<1>5. CASE TakeTargetLock(b) \/ TakeStoreLock(b) \/ Fresh(b)
  BY <1>1, <1>2, <1>5
     DEF TakeTargetLock, TakeStoreLock, Fresh, Goto, store, HoldsStore, Unlocked,
         WaitingStore, AfterStore, HitHeld, HasBlob, BuildState
<1>6. CASE LookupMiss(b) \/ StartCompile(b) \/ SaveState(b) \/ OtherFails(b)
           \/ Register(b)
  BY <1>1, <1>2, <1>6
     DEF LookupMiss, AfterMiss, StartCompile, SaveState, OtherFails, Register, Goto, store, HoldsStore,
         Unlocked, WaitingStore, AfterStore, HitHeld, HasBlob, BuildState
<1>7. CASE LookupHit(b)
  <2>1. u.pc = "lookup" /\ u.key \in Keys /\ cas' = cas /\ gc' = gc
    BY <1>1, <1>7 DEF LookupHit, PhaseOf, store
  <2>2. PICK e \in Usable(u.key, u.env) :
          \/ bld' = [bld EXCEPT ![b].pc = AfterHit(b), ![b].hit = e.blob]
          \/ bld' = [bld EXCEPT ![b].pc = "touch", ![b].hit = e.blob,
                                ![b].mem = manifest[bld[b].key]]
    BY <1>7 DEF LookupHit
  <2>3. cas[e.blob] # None /\ manifest[u.key] # {}
    BY DEF Usable, HasBlob
  <2>4. AfterHit(b) \in Pcs
    BY DEF AfterHit
  <2>5. /\ bld'[b].pc \in Pcs /\ bld'[b].hit = e.blob
        /\ bld'[b].pc = "touch" => bld'[b].mem = manifest[u.key]
    BY <1>1, <2>2, <2>4 DEF AfterHit, BuildState
  <2> QED
    BY <2>1, <2>3, <2>5
       DEF HoldsStore, Unlocked, WaitingStore, AfterStore, HitHeld, HasBlob
<1>13. CASE FreshUnused(b)
  <2>1. u.pc = "lookup" /\ cas' = cas /\ gc' = gc /\ manifest[u.key] # {}
    BY <1>13 DEF FreshUnused, store
  <2>2. bld'[b].pc = "touch" /\ bld'[b].hit = u.hit /\ bld'[b].mem = manifest[u.key]
    BY <1>1, <1>13 DEF FreshUnused, BuildState
  <2> QED
    BY <1>2, <2>1, <2>2
       DEF HoldsStore, Unlocked, WaitingStore, AfterStore, HitHeld, HasBlob
<1>8. CASE Touch(b) \/ ReleaseSlot(b)
  <2>1. u.pc \in {"touch", "release"} /\ cas' = cas /\ gc' = gc
    BY <1>8 DEF Touch, ReleaseSlot, store
  <2>2. bld'[b].hit = u.hit
    BY <1>1, <1>8 DEF Touch, ReleaseSlot, BuildState
  <2>3. \/ bld'[b].pc \in {"release", "restore"}
        \/ bld'[b].pc \in {"execute", "finish"} /\ u.hit = None
    <3>1. CASE Touch(b)
      BY <1>1, <3>1 DEF Touch, AfterTouch, AfterHit, BuildState
    <3>2. CASE ReleaseSlot(b)
      BY <1>1, <3>2 DEF ReleaseSlot, BuildState
    <3> QED
      BY <1>8, <3>1, <3>2
  <2> QED
    BY <1>2, <2>1, <2>2, <2>3
       DEF HoldsStore, Unlocked, WaitingStore, AfterStore, HitHeld, HasBlob
<1>9. CASE Restore(b)
  <2>1. u.pc = "restore" /\ u.hit # None /\ cas' = cas /\ gc' = gc
    BY <1>1, <1>9 DEF Restore, PhaseOf, store
  <2>2. HasBlob(u.hit)
    BY <1>2, <2>1 DEF HasBlob
  <2>3. bld'[b].pc = "save" /\ bld'[b].hit = None
    BY <1>1, <1>9, <2>2 DEF Restore, BuildState
  <2> QED
    BY <2>1, <2>3
       DEF HoldsStore, Unlocked, WaitingStore, AfterStore, HitHeld, HasBlob
<1>10. CASE TakeUnitLock(b) \/ RustcReads(b) \/ RustcEmits(b) \/ RustcFails(b) \/ DeferIngest(b)
  <2>1. u.pc \in {"execute", "rustc", "emit", "store"} /\ cas' = cas /\ gc' = gc
    BY <1>10 DEF TakeUnitLock, RustcReads, RustcEmits, RustcFails, DeferIngest, store
  <2>2. bld'[b].hit = u.hit /\ bld'[b].pc \in {"lookup", "emit", "store", "failed", "save"}
    <3>1. CASE TakeUnitLock(b) \/ RustcFails(b)
      BY <1>1, <3>1 DEF TakeUnitLock, RustcFails, BuildState
    <3>2. CASE RustcReads(b)
      BY <1>1, <3>2 DEF RustcReads, BuildState
    <3>3. CASE RustcEmits(b)
      BY <1>1, <3>3 DEF RustcEmits, BuildState
    <3>4. CASE DeferIngest(b)
      BY <1>1, <3>4 DEF DeferIngest, BuildState
    <3> QED
      BY <1>10, <3>1, <3>2, <3>3, <3>4
  <2> QED
    BY <1>2, <2>1, <2>2
       DEF HoldsStore, Unlocked, WaitingStore, AfterStore, HitHeld, HasBlob
<1>11. CASE LoadManifest(b) \/ SaveManifest(b) \/ StoreFails(b)
  BY <1>1, <1>2, <1>11
     DEF LoadManifest, SaveManifest, StoreFails, store, HoldsStore,
         Unlocked, WaitingStore, AfterStore, HitHeld, HasBlob, BuildState
<1>12. CASE Ingest(b)
  <2>1. u.pc = "store" /\ bld'[b].pc = "merge" /\ bld'[b].hit = u.hit /\ gc' = gc
    BY <1>1, <1>12 DEF Ingest, Goto, BuildState
  <2> QED
    BY <1>2, <2>1
       DEF HoldsStore, Unlocked, WaitingStore, AfterStore, HitHeld, HasBlob
<1> QED
  BY <1>4, <1>5, <1>6, <1>7, <1>8, <1>9, <1>10, <1>11, <1>12, <1>13 DEF BuildStep

\* Without compaction, every step keeps the blobs of the hits being served.
LEMMA StepServes ==
  ASSUME "compact" \notin Collectors, Served, [Next]_vars PROVE Served'
<1>1. Shape'
  BY StepShape DEF Served
<1>2. \A b \in Builds : bld[b].hit \in Digests \cup {None}
  BY OfBuild DEF Served, BuildState
<1>3. CASE \E b \in Builds : Plan(b) \/ BuildStep(b) \/ Crash(b)
  <2>1. PICK b \in Builds : Plan(b) \/ BuildStep(b) \/ Crash(b)
    BY <1>3
  <2>2. \A c \in Builds \ {b} : bld'[c] = bld[c]
    BY <2>1, OthersStay DEF Served
  <2>3. Exclusive'
    BY <2>1, <2>2, BuildServes DEF Served, Exclusive, HoldsStore
  <2>4. \A c \in Builds : HitHeld(c)'
    BY <1>2, <2>1, <2>2, BuildServes, BlobsStay DEF Served, HitHeld
  <2> QED
    BY <1>1, <2>3, <2>4 DEF Served
<1>4. ASSUME UNCHANGED <<cas, bld, gc>> PROVE Served'
  BY <1>1, <1>4 DEF Served, Exclusive, HoldsStore, HitHeld, HasBlob
<1>5. CASE \/ UNCHANGED vars
           \/ \E p \in Projects : Edit(p) \/ Clean(p)
           \/ HourPasses \/ CompactGivesUp
  BY <1>4, <1>5 DEF vars, store, Edit, Clean, HourPasses, CompactGivesUp
<1>6. CompactStep => CompactGivesUp
  BY DEF CompactStep, StartCompact, NextJob, CheckOutput, HashOutput, PlaceBlob, MergeLoad,
         MergeSave, IngestDone, Compacting
<1>7. CASE StartUserGc
  <2>1. bld' = bld /\ cas' = cas /\ \A b \in Builds : ~HoldsStore(b)
    BY <1>7 DEF StartUserGc, store
  <2> QED
    BY <1>1, <2>1 DEF Served, Exclusive, HoldsStore, HitHeld, HasBlob
<1>8. CASE \E g \in Collectors : GcStep(g) \/ CrashGc(g)
  <2>1. PICK g \in Collectors : GcStep(g) \/ CrashGc(g)
    BY <1>8
  <2>2. g = "user" /\ gc[g].pc # "idle" /\ bld' = bld
    BY <2>1, SharedStoreAssumption
       DEF GcStep, GcPlan, GcScan, GcRemoveUnit, GcSweep, GcFinish, CrashGc
  <2>3. \A b \in Builds : ~HoldsStore(b)
    BY <2>2 DEF Served, Exclusive
  <2>4. \A b \in Builds : bld[b].hit = None
    BY <2>3 DEF Served, HitHeld, HoldsStore, Unlocked, WaitingStore, AfterStore
  <2> QED
    BY <1>1, <2>2, <2>3, <2>4 DEF Served, Exclusive, HoldsStore, HitHeld
<1> QED
  BY <1>3, <1>5, <1>6, <1>7, <1>8 DEF Next

\* A hit never fails next to other builds and `rb store gc`, whoever is killed:
\* the blobs a lookup found are there when they are placed.
THEOREM HitsServed ==
  ASSUME "compact" \notin Collectors PROVE Spec => []HitsMaterialize
<1>1. Init => Served
  BY InitShape DEF Init, Served, Exclusive, HitHeld, HoldsStore, Unlocked, NoBuild
<1>2. Served /\ [Next]_vars => Served'
  BY StepServes
<1>3. Served => HitsMaterialize
  BY DEF Served, HitHeld, HitsMaterialize
<1> QED
  BY <1>1, <1>2, <1>3, PTL DEF Spec

-----------------------------------------------------------------------------
(* Nothing is compiled twice.  Units that read no environment have one entry *)
(* per key; with more, the entry that a lookup writes back from a manifest   *)
(* read earlier (touch) may return to one that has lost it since.            *)

\* A unit has no inputs to be told apart by.
Single == \A i, j \in Inputs : i = j

\* locks/<key>.lock has one holder.
OneUnit ==
  \A b, c \in Builds : b # c /\ bld[b].held => ~HoldsUnit(c, bld[b].key)

\* No manifest names a blob that is not there.
Stored == \A k \in Keys : \A e \in manifest[k] : HasBlob(e.blob)

Working == {"compile", "rustc", "emit"}
Storing == {"store", "merge", "upsert"}

\* A build compiles under the unit's lock, and only what the store has not.
Works(b) ==
  /\ bld[b].pc \in Working \cup Storing => bld[b].held
  /\ bld[b].held => bld[b].pc \in {"lookup", "touch", "restore"} \cup Working \cup Storing
  /\ bld[b].pc \in Working => manifest[bld[b].key] = {}
  /\ bld[b].pc = "touch" => manifest[bld[b].key] # {}
  /\ bld[b].pc = "touch" /\ bld[b].hit = None => ~bld[b].held
  /\ bld[b].pc \in {"touch", "upsert"} => \A e \in bld[b].mem : HasBlob(e.blob)
  /\ bld[b].pc \in {"merge", "upsert"} => HasBlob(file[ProjectOf[b]])

Shared == Served /\ OneUnit /\ Stored /\ \A b \in Builds : Works(b)

\* Of the manifests, a build writes that of its own key, and leaves entries there.
LEMMA EntriesStay ==
  ASSUME Served, NEW b \in Builds, Plan(b) \/ BuildStep(b) \/ Crash(b), NEW k \in Keys
  PROVE  \/ manifest'[k] = manifest[k]
         \/ k = bld[b].key /\ manifest'[k] # {} /\ (Touch(b) \/ SaveManifest(b))
<1>1. manifest \in [Keys -> SUBSET Entry] /\ HitHeld(b)
  BY DEF Served, Shape, Typed, StoreTyped
<1>2. CASE Touch(b)
  BY <1>1, <1>2 DEF Touch, HitHeld
<1>3. CASE SaveManifest(b)
  BY <1>1, <1>3 DEF SaveManifest, Upsert
<1>4. CASE ~Touch(b) /\ ~SaveManifest(b)
  <2>1. CASE Plan(b) \/ Crash(b) \/ TakeTargetLock(b) \/ TakeStoreLock(b) \/ Fresh(b)
             \/ FreshUnused(b) \/ LookupHit(b) \/ LookupMiss(b) \/ ReleaseSlot(b)
             \/ TakeUnitLock(b)
    BY <2>1 DEF Plan, Crash, TakeTargetLock, TakeStoreLock, Fresh, FreshUnused, LookupHit,
       LookupMiss, ReleaseSlot, TakeUnitLock, store
  <2>2. CASE Restore(b) \/ StartCompile(b) \/ RustcReads(b) \/ RustcEmits(b) \/ RustcFails(b)
             \/ DeferIngest(b) \/ Ingest(b)
    BY <2>2 DEF Restore, StartCompile, RustcReads, RustcEmits, RustcFails, DeferIngest,
       Ingest, store
  <2>3. CASE LoadManifest(b) \/ StoreFails(b) \/ SaveState(b)
             \/ OtherFails(b) \/ Register(b) \/ Housekeeping(b) \/ GiveUp(b)
    BY <2>3 DEF LoadManifest, StoreFails, SaveState, OtherFails, Register, Housekeeping,
       GiveUp, store
  <2> QED
    BY <1>4, <2>1, <2>2, <2>3 DEF BuildStep
<1> QED
  BY <1>2, <1>3, <1>4

\* What it writes there has its blobs, and it wrote them because it had found an
\* entry or holds the unit's lock.
LEMMA Writes ==
  ASSUME Shared, NEW b \in Builds, Plan(b) \/ BuildStep(b) \/ Crash(b), NEW k \in Keys
  PROVE  \/ manifest'[k] = manifest[k]
         \/ /\ k = bld[b].key /\ manifest'[k] # {}
            /\ manifest[k] # {} \/ bld[b].held
            /\ \A e \in manifest'[k] : HasBlob(e.blob)
<1>1. manifest \in [Keys -> SUBSET Entry] /\ Works(b) /\ Served
  BY DEF Shared, Served, Shape, Typed, StoreTyped
<1>2. CASE Touch(b)
  BY <1>1, <1>2, EntriesStay DEF Touch, Works
<1>3. CASE SaveManifest(b)
  <2> DEFINE e == [inputs |-> bld[b].env, blob |-> file[ProjectOf[b]]]
  <2>1. bld[b].pc = "upsert" /\ manifest' = [manifest EXCEPT ![bld[b].key] = Upsert(bld[b].mem, e)]
    BY <1>3 DEF SaveManifest
  <2>2. HasBlob(e.blob) /\ \A x \in bld[b].mem : HasBlob(x.blob)
    BY <1>1, <2>1 DEF Works
  <2> HIDE DEF e
  <2>3. \A x \in Upsert(bld[b].mem, e) : HasBlob(x.blob)
    BY <2>2 DEF Upsert
  <2> QED
    BY <1>1, <2>1, <2>3, EntriesStay DEF Works, Storing
<1> QED
  BY <1>1, <1>2, <1>3, EntriesStay

\* The build itself: what it compiles is not in the store.
LEMMA OwnWork ==
  ASSUME Single, Shared, NEW b \in Builds, Plan(b) \/ BuildStep(b) \/ Crash(b)
  PROVE  Works(b)'
<1> DEFINE u == bld[b]
           v == bld'[b]
           f == file[ProjectOf[b]]
<1>1. /\ bld \in [Builds -> BuildState] /\ u \in BuildState /\ ProjectOf[b] \in Projects
      /\ PhaseOf(u, f) /\ file \in [Projects -> Digests \cup {None}]
      /\ manifest \in [Keys -> SUBSET Entry] /\ cas \in [Digests -> Digests \cup {None}]
  BY OfBuild DEF Shared, Served, Shape, Typed, ProjectTyped, StoreTyped
<1>2. Works(b) /\ HitHeld(b)
  BY DEF Shared, Served
<1>3. \A d \in Digests : HasBlob(d) => HasBlob(d)'
  BY BlobsStay DEF Shared, Served
<1>4. CASE Plan(b) \/ Crash(b) \/ GiveUp(b) \/ Housekeeping(b)
  <2>1. v.pc \in {"idle", "planned"} /\ v.held = FALSE
    <3>1. CASE Plan(b)
      <4>1. v.pc = "planned" /\ v.held = u.held /\ u.pc = "idle"
        <5>1. PICK i \in Inputs :
                bld' = [bld EXCEPT ![b].pc = "planned", ![b].key = src[ProjectOf[b]],
                                   ![b].env = i]
          BY <3>1 DEF Plan
        <5> QED
          BY <1>1, <3>1, <5>1 DEF Plan, BuildState
      <4> QED
        BY <1>1, <1>2, <4>1 DEF Works, Working, Storing, BuildState
    <3>2. CASE Crash(b) \/ GiveUp(b) \/ Housekeeping(b)
      BY <1>1, <3>2 DEF Crash, GiveUp, Housekeeping, NoBuild
    <3> QED
      BY <1>4, <3>1, <3>2
  <2> QED
    BY <2>1 DEF Works, Working, Storing
<1>5. CASE TakeTargetLock(b) \/ TakeStoreLock(b) \/ Fresh(b) \/ SaveState(b) \/ OtherFails(b)
           \/ Register(b)
  <2>1. v.pc \in {"target", "lookup", "finish", "failed", "house"} /\ v.held = FALSE
    BY <1>1, <1>2, <1>5 DEF TakeTargetLock, TakeStoreLock, Fresh, IsFresh, SaveState, OtherFails,
       Register, Goto, Works, Working, Storing, BuildState
  <2> QED
    BY <2>1 DEF Works, Working, Storing
<1>6. CASE LookupHit(b)
  <2>1. u.key \in Keys /\ manifest' = manifest /\ \A e \in manifest[u.key] : HasBlob(e.blob)'
    BY <1>1, <1>3, <1>6 DEF LookupHit, PhaseOf, store, Shared, Stored, HasBlob
  <2>2. manifest[u.key] # {}
    BY <1>6 DEF LookupHit, Usable
  <2>3. \A e \in Usable(u.key, u.env) : e.blob # None
    BY <1>1, <2>1, Distinct DEF Usable, Entry
  <2>4. /\ v.key = u.key /\ v.held = u.held
        /\ \/ v.pc = AfterHit(b)
           \/ v.pc = "touch" /\ v.mem = manifest[u.key] /\ v.hit # None
    BY <1>1, <1>6, <2>3 DEF LookupHit, BuildState
  <2> QED
    BY <2>1, <2>2, <2>4 DEF AfterHit, Works, Working, Storing
<1>13. CASE FreshUnused(b)
  <2>1. u.key \in Keys /\ manifest' = manifest /\ \A e \in manifest[u.key] : HasBlob(e.blob)'
    BY <1>1, <1>3, <1>13 DEF FreshUnused, PhaseOf, store, Shared, Stored, HasBlob
  <2>2. /\ manifest[u.key] # {} /\ v.key = u.key /\ ~v.held /\ v.pc = "touch"
        /\ v.mem = manifest[u.key]
    BY <1>1, <1>13 DEF FreshUnused, IsFresh, BuildState
  <2> QED
    BY <2>1, <2>2 DEF Works, Working, Storing
<1>7. CASE LookupMiss(b)
  <2>1. u.key \in Keys /\ u.env \in Inputs /\ manifest' = manifest
    BY <1>1, <1>7 DEF LookupMiss, PhaseOf, store
  <2>2. \A e \in manifest[u.key] : e.inputs = u.env /\ HasBlob(e.blob)
    BY <1>1, <2>1 DEF Single, Shared, Stored, Entry
  <2>3. manifest[u.key] = {}
    BY <1>7, <2>2 DEF LookupMiss, Usable
  <2>4. v.pc = AfterMiss(b) /\ v.key = u.key /\ v.held = u.held
    BY <1>1, <1>7 DEF LookupMiss, Goto, BuildState
  <2> QED
    BY <2>1, <2>3, <2>4 DEF AfterMiss, Works, Working, Storing
<1>8. CASE Touch(b) \/ ReleaseSlot(b) \/ TakeUnitLock(b)
  <2>1. \/ v.pc \in {"lookup", "restore"}
        \/ v.pc \in {"release", "execute", "finish"} /\ v.held = FALSE
    <3>1. CASE Touch(b)
      BY <1>1, <1>2, <3>1 DEF Touch, AfterTouch, AfterHit, Works, BuildState
    <3>2. CASE ReleaseSlot(b)
      BY <1>1, <1>2, <3>2 DEF ReleaseSlot, Works, Working, Storing, BuildState
    <3>3. CASE TakeUnitLock(b)
      BY <1>1, <3>3 DEF TakeUnitLock, BuildState
    <3> QED
      BY <1>8, <3>1, <3>2, <3>3
  <2> QED
    BY <2>1 DEF Works, Working, Storing
<1>9. CASE Restore(b) \/ RustcFails(b) \/ DeferIngest(b) \/ SaveManifest(b) \/ StoreFails(b)
  <2>1. v.pc \in {"save", "missing", "failed"} /\ v.held = FALSE
    <3>1. CASE Restore(b)
      BY <1>1, <3>1 DEF Restore, BuildState
    <3>2. CASE RustcFails(b) \/ StoreFails(b)
      BY <1>1, <3>2 DEF RustcFails, StoreFails, BuildState
    <3>3. CASE DeferIngest(b) \/ SaveManifest(b)
      BY <1>1, <3>3 DEF DeferIngest, SaveManifest, BuildState
    <3> QED
      BY <1>9, <3>1, <3>2, <3>3
  <2> QED
    BY <2>1 DEF Works, Working, Storing
<1>10. CASE StartCompile(b) \/ RustcReads(b) \/ RustcEmits(b)
  <2>1. manifest' = manifest /\ u.pc \in Working
    BY <1>10 DEF StartCompile, RustcReads, RustcEmits, store, Working
  <2>2. v.pc \in {"rustc", "emit", "store"} /\ v.key = u.key /\ v.held = u.held
    <3>1. CASE StartCompile(b)
      BY <1>1, <3>1 DEF StartCompile, Goto, BuildState
    <3>2. CASE RustcReads(b)
      BY <1>1, <3>2 DEF RustcReads, BuildState
    <3>3. CASE RustcEmits(b)
      BY <1>1, <3>3 DEF RustcEmits, BuildState
    <3> QED
      BY <1>10, <3>1, <3>2, <3>3
  <2> QED
    BY <1>2, <2>1, <2>2 DEF Works, Working, Storing
<1>11. CASE Ingest(b)
  <2>1. u.pc = "store" /\ v.pc = "merge" /\ v.held = u.held /\ file' = file
    BY <1>1, <1>11 DEF Ingest, Goto, BuildState, project
  <2>2. f \in Digests /\ f # None
    BY <1>1, <2>1, Distinct DEF PhaseOf
  <2>3. cas'[f] # None
    BY <1>1, <1>11, <2>2 DEF Ingest, HasBlob
  <2> QED
    BY <1>2, <2>1, <2>3 DEF Works, Working, Storing, HasBlob
<1>12. CASE LoadManifest(b)
  <2>1. u.pc = "merge" /\ u.key \in Keys /\ UNCHANGED <<file, cas>>
    BY <1>1, <1>12 DEF LoadManifest, PhaseOf, project, store
  <2>2. v.pc = "upsert" /\ v.held = u.held /\ v.mem = manifest[u.key]
    BY <1>1, <1>12 DEF LoadManifest, BuildState
  <2>3. \A e \in v.mem : HasBlob(e.blob)
    BY <2>1, <2>2 DEF Shared, Stored
  <2> QED
    BY <1>2, <2>1, <2>2, <2>3 DEF Works, Working, Storing, HasBlob
<1> QED
  BY <1>4, <1>5, <1>6, <1>7, <1>8, <1>9, <1>10, <1>11, <1>12, <1>13 DEF BuildStep

\* Of the projects, a build changes its own, and that only while it holds
\* store.lock.
LEMMA OtherProjects ==
  ASSUME Shape, NEW b \in Builds, Plan(b) \/ BuildStep(b) \/ Crash(b)
  PROVE  /\ \A q \in Projects \ {ProjectOf[b]} :
              file'[q] = file[q] /\ slot'[q] = slot[q] /\ (q \in linked' <=> q \in linked)
         /\ HoldsStore(b) \/ UNCHANGED <<file, slot, linked>>
<1>1. /\ file \in [Projects -> Digests \cup {None}] /\ slot \in [Projects -> Owner \cup {None}]
      /\ linked \in SUBSET Projects /\ ProjectOf[b] \in Projects
  BY OfBuild DEF Shape, Typed, ProjectTyped
<1>2. CASE Plan(b) \/ Crash(b) \/ TakeTargetLock(b) \/ TakeStoreLock(b) \/ Fresh(b)
           \/ FreshUnused(b) \/ LookupHit(b) \/ Touch(b) \/ LookupMiss(b) \/ TakeUnitLock(b)
  BY <1>2 DEF Plan, Crash, TakeTargetLock, TakeStoreLock, Fresh, FreshUnused, LookupHit,
     LookupMiss, TakeUnitLock, Touch, project
<1>3. CASE RustcFails(b) \/ DeferIngest(b) \/ Ingest(b) \/ LoadManifest(b) \/ SaveManifest(b)
           \/ StoreFails(b) \/ OtherFails(b) \/ Register(b) \/ Housekeeping(b) \/ GiveUp(b)
  BY <1>3 DEF RustcFails, DeferIngest, Ingest, LoadManifest, SaveManifest, StoreFails,
     OtherFails, Register, Housekeeping, GiveUp, project
<1>4. CASE ReleaseSlot(b) \/ SaveState(b)
  BY <1>1, <1>4 DEF ReleaseSlot, SaveState, HoldsStore, Unlocked, WaitingStore, AfterStore
<1>5. CASE Restore(b)
  BY <1>1, <1>5 DEF Restore, HoldsStore, Unlocked, WaitingStore, AfterStore
<1>6. CASE StartCompile(b) \/ RustcReads(b) \/ RustcEmits(b)
  BY <1>1, <1>6 DEF StartCompile, RustcReads, RustcEmits, HoldsStore, Unlocked, WaitingStore, AfterStore
<1> QED
  BY <1>2, <1>3, <1>4, <1>5, <1>6 DEF BuildStep

\* While a build holds its directory, no other build changes what is there.
LEMMA MineStays ==
  ASSUME Shape, NEW b \in Builds, Plan(b) \/ BuildStep(b) \/ Crash(b),
         NEW c \in Builds \ {b}, HoldsTarget(c)
  PROVE  /\ file'[ProjectOf[c]] = file[ProjectOf[c]] /\ slot'[ProjectOf[c]] = slot[ProjectOf[c]]
         /\ ProjectOf[c] \in linked' <=> ProjectOf[c] \in linked
<1>1. ProjectOf[c] \in Projects
  BY OfBuild
<1>2. ProjectOf[c] = ProjectOf[b] => ~HoldsStore(b)
  BY DEF Shape, OneHolder, HoldsStore, HoldsTarget
<1> QED
  BY <1>1, <1>2, OtherProjects

\* Nor does it become so while the build holds the unit's lock.
LEMMA OthersWork ==
  ASSUME Shared, NEW b \in Builds, Plan(b) \/ BuildStep(b) \/ Crash(b),
         NEW c \in Builds \ {b}
  PROVE  Works(c)'
<1>1. bld'[c] = bld[c] /\ Works(c) /\ Works(b) /\ Shape
  BY OthersStay DEF Shared, Served
<1>2. bld[c] \in BuildState /\ PhaseOf(bld[c], file[ProjectOf[c]])
  BY <1>1, OfBuild
<1>3. \A d \in Digests : HasBlob(d) => HasBlob(d)'
  BY <1>1, BlobsStay
<1>4. bld[c].pc # "idle" => bld[c].key \in Keys
  BY <1>2 DEF PhaseOf
<1>5. bld[c].pc \in Working => manifest'[bld[c].key] = {}
  <2> SUFFICES ASSUME bld[c].pc \in Working PROVE manifest'[bld[c].key] = {}
    OBVIOUS
  <2>1. bld[c].key \in Keys /\ manifest[bld[c].key] = {} /\ bld[c].held
    BY <1>1, <1>4 DEF Works, Working
  <2>2. bld[c].key = bld[b].key => ~bld[b].held
    BY <2>1 DEF Shared, OneUnit, HoldsUnit
  <2> QED
    BY <2>1, <2>2, Writes
<1>6. bld[c].pc = "touch" => manifest'[bld[c].key] # {}
  BY <1>1, <1>4, Writes DEF Works
<1>7. \A e \in bld[c].mem : HasBlob(e.blob) => HasBlob(e.blob)'
  BY <1>2, <1>3 DEF BuildState, Entry
<1>8. bld[c].pc \in {"merge", "upsert"} => HasBlob(file[ProjectOf[c]])'
  <2> SUFFICES ASSUME bld[c].pc \in {"merge", "upsert"} PROVE HasBlob(file[ProjectOf[c]])'
    OBVIOUS
  <2>1. file[ProjectOf[c]] \in Digests /\ HasBlob(file[ProjectOf[c]])
    BY <1>1, <1>2, Distinct DEF Works, PhaseOf
  <2>2. HoldsTarget(c)
    BY DEF HoldsTarget, Unlocked
  <2>3. file'[ProjectOf[c]] = file[ProjectOf[c]]
    BY <1>1, <2>2, MineStays
  <2> QED
    BY <1>3, <2>1, <2>3 DEF HasBlob
<1> QED
  BY <1>1, <1>5, <1>6, <1>7, <1>8 DEF Works

\* The unit's lock has one holder.
LEMMA UnitStays ==
  ASSUME Shared, NEW b \in Builds, Plan(b) \/ BuildStep(b) \/ Crash(b)
  PROVE  OneUnit'
<1>1. /\ bld \in [Builds -> BuildState] /\ bld[b] \in BuildState
      /\ \A c \in Builds \ {b} : bld'[c] = bld[c]
  BY OfBuild, OthersStay DEF Shared, Served
<1>2. Works(b)
  BY DEF Shared
<1>3. \/ bld'[b].held = FALSE
      \/ bld'[b].held = bld[b].held /\ bld'[b].key = bld[b].key
      \/ bld'[b].key = bld[b].key /\ \A c \in Builds \ {b} : ~HoldsUnit(c, bld[b].key)
  <2>1. CASE Crash(b) \/ GiveUp(b) \/ Housekeeping(b)
    BY <1>1, <2>1 DEF Crash, GiveUp, Housekeeping, NoBuild
  <2>2. CASE Plan(b)
    <3>1. PICK i \in Inputs :
            bld' = [bld EXCEPT ![b].pc = "planned", ![b].key = src[ProjectOf[b]], ![b].env = i]
      BY <2>2 DEF Plan
    <3>2. bld'[b].held = bld[b].held /\ bld[b].pc = "idle"
      BY <1>1, <2>2, <3>1 DEF Plan, BuildState
    <3> QED
      BY <1>1, <1>2, <3>2 DEF Works, Working, Storing, BuildState
  <2>3. CASE TakeTargetLock(b) \/ TakeStoreLock(b) \/ Fresh(b) \/ LookupMiss(b)
             \/ StartCompile(b) \/ Ingest(b) \/ SaveState(b) \/ OtherFails(b)
           \/ Register(b)
    BY <1>1, <2>3 DEF TakeTargetLock, TakeStoreLock, Fresh, LookupMiss, StartCompile, Ingest,
                      SaveState, OtherFails, Register, Goto, BuildState
  <2>4. CASE LookupHit(b)
    BY <1>1, <2>4 DEF LookupHit, BuildState
  <2>5. CASE TakeUnitLock(b)
    BY <1>1, <2>5 DEF TakeUnitLock, BuildState
  <2>6. CASE Restore(b)
    BY <1>1, <2>6 DEF Restore, BuildState
  <2>7. CASE RustcReads(b)
    BY <1>1, <2>7 DEF RustcReads, BuildState
  <2>8. CASE RustcEmits(b)
    BY <1>1, <2>8 DEF RustcEmits, BuildState
  <2>9. CASE RustcFails(b) \/ DeferIngest(b) \/ SaveManifest(b) \/ StoreFails(b)
    BY <1>1, <2>9 DEF RustcFails, DeferIngest, SaveManifest, StoreFails, BuildState
  <2>10. CASE FreshUnused(b) \/ Touch(b) \/ ReleaseSlot(b) \/ LoadManifest(b)
    BY <1>1, <2>10 DEF FreshUnused, Touch, ReleaseSlot, LoadManifest, BuildState
  <2> QED
    BY <2>1, <2>2, <2>3, <2>4, <2>5, <2>6, <2>7, <2>8, <2>9, <2>10 DEF BuildStep
<1> QED
  BY <1>1, <1>3 DEF Shared, OneUnit, HoldsUnit

\* With no collector about, every step keeps what is stored, and who works on it.
LEMMA StepShares ==
  ASSUME Single, Collectors = {}, Shared, [Next]_vars PROVE Shared'
<1>1. Served'
  BY StepServes DEF Shared
<1>2. CASE \E b \in Builds : Plan(b) \/ BuildStep(b) \/ Crash(b)
  <2>1. PICK b \in Builds : Plan(b) \/ BuildStep(b) \/ Crash(b)
    BY <1>2
  <2>2. Stored'
    <3> SUFFICES ASSUME NEW k \in Keys, NEW e \in manifest'[k] PROVE HasBlob(e.blob)'
      BY DEF Stored
    <3>1. HasBlob(e.blob)
      BY <2>1, Writes DEF Shared, Stored
    <3>2. e.blob \in Digests
      BY <1>1 DEF Served, Shape, Typed, StoreTyped, Entry
    <3> QED
      BY <2>1, <3>1, <3>2, BlobsStay DEF Shared, Served
  <2> QED
    BY <1>1, <2>1, <2>2, UnitStays, OwnWork, OthersWork DEF Shared
<1>3. ASSUME UNCHANGED <<file, cas, manifest, bld>> PROVE Shared'
  BY <1>1, <1>3 DEF Shared, OneUnit, HoldsUnit, Stored, Works, HasBlob
<1>4. CASE \E p \in Projects : Edit(p) \/ Clean(p)
  <2>1. PICK p \in Projects : Edit(p) \/ Clean(p)
    BY <1>4
  <2>2. CASE Edit(p)
    BY <1>3, <2>2 DEF Edit, store
  <2>3. CASE Clean(p)
    <3>1. ProjectIdle(p) /\ UNCHANGED <<cas, manifest, bld>>
      BY <2>3 DEF Clean, store
    <3>2. \A q \in Projects \ {p} : file'[q] = file[q]
      BY <2>3 DEF Clean, Shared, Served, Shape, Typed, ProjectTyped
    <3>3. \A b \in Builds : Works(b)'
      BY <3>1, <3>2, SharedStoreAssumption DEF Shared, Works, ProjectIdle, HasBlob, Working, Storing
    <3> QED
      BY <1>1, <3>1, <3>3 DEF Shared, OneUnit, HoldsUnit, Stored, HasBlob
  <2> QED
    BY <2>1, <2>2, <2>3
<1>5. CASE UNCHANGED vars \/ CompactGivesUp
  BY <1>3, <1>5 DEF vars, project, store, CompactGivesUp
<1>6. ~HourPasses /\ ~StartUserGc /\ (CompactStep => CompactGivesUp)
  BY DEF HourPasses, StartUserGc, CompactStep, StartCompact, NextJob, CheckOutput, HashOutput,
         PlaceBlob, MergeLoad, MergeSave, IngestDone, Compacting
<1> QED
  BY <1>2, <1>4, <1>5, <1>6 DEF Next

\* Whoever builds at once, and whoever is killed: a build compiles only what the
\* store does not have, because it looks again once it holds the unit's lock.
THEOREM NothingTwice ==
  ASSUME Single, Collectors = {} PROVE Spec => []WorkShared
<1>1. Init => Shared
  <2>1. Init => Served
    BY InitShape DEF Init, Served, Exclusive, HitHeld, HoldsStore, Unlocked, NoBuild
  <2> QED
    BY <2>1 DEF Init, Shared, OneUnit, Stored, Works, Working, Storing, NoBuild
<1>2. Shared /\ [Next]_vars => Shared'
  BY StepShares
<1>3. Shared => WorkShared
  <2> SUFFICES ASSUME Shared, NEW b \in Builds, bld[b].pc \in Working
               PROVE  Usable(bld[b].key, bld[b].env) = {}
    BY DEF WorkShared, Working
  <2> QED
    BY DEF Shared, Works, Usable
<1> QED
  BY <1>1, <1>2, <1>3, PTL DEF Spec

-----------------------------------------------------------------------------
(* A link lives as long as its project lists the key.  Here no build is      *)
(* killed, and none saves its state and fails all the same: then the link of *)
(* a project that did not register can outlive its manifest (a run shows the *)
(* way), and nothing that registers later brings the manifest back.          *)

Registers == Crashes \cap {"build", "other"} = {}

\* What a build knows of its directory and of the entry behind its hit.
Kept(b) ==
  LET p == ProjectOf[b] IN
  /\ HoldsTarget(b) => p \in target
  /\ bld[b].hit # None => manifest[bld[b].key] # {}
  /\ bld[b].pc \in {"rustc", "emit"} \cup Storing => p \notin linked
  /\ bld[b].pc = "save" /\ p \in linked => manifest[bld[b].key] # {} /\ HasBlob(file[p])

\* The store has what an owned link points to.
LinkHolds(p) ==
  p \in linked => /\ p \in Symlinked
                  /\ slot[p] # None => manifest[slot[p].key] # {} /\ HasBlob(file[p])

\* The owner of a slot is listed, or is about to be.
Listed(p) ==
  slot[p] # None =>
    /\ p \in target
    /\ slot[p].key \in reg[p] \/ \E b \in Builds : ProjectOf[b] = p /\ bld[b].pc = "finish"

\* What `rb store gc` has decided touches no owned link.
Spares(g) ==
  /\ gc[g].pc = "scan" => \A p \in Projects : slot[p] # None => slot[p].key \in gc[g].hot
  /\ gc[g].pc = "units" =>
       \A p \in linked : slot[p] # None => slot[p].key \notin gc[g].units /\ file[p] \in gc[g].live

Alive ==
  /\ Sound /\ Served
  /\ \A b \in Builds : Kept(b)
  /\ \A p \in Projects : LinkHolds(p) /\ Listed(p)
  /\ \A g \in Collectors : Spares(g)

\* The assumptions under which links are proved to hold.
Careful == Quiet /\ Single /\ Registers /\ "compact" \notin Collectors

\* What Alive says of the build that moves.
LEMMA OfAlive ==
  ASSUME Alive, NEW b \in Builds
  PROVE  /\ bld \in [Builds -> BuildState] /\ bld[b] \in BuildState
         /\ ProjectOf[b] \in Projects
         /\ PhaseOf(bld[b], file[ProjectOf[b]])
         /\ KnowsOf(bld[b], src[ProjectOf[b]], file[ProjectOf[b]], slot[ProjectOf[b]])
         /\ HitHeld(b) /\ Kept(b) /\ LinkHolds(ProjectOf[b]) /\ Listed(ProjectOf[b])
BY OfSound DEF Alive, Served

\* Blobs and entries an owned link needs stay while builds go on.
LEMMA LinkStays ==
  ASSUME Alive, NEW b \in Builds, Plan(b) \/ BuildStep(b) \/ Crash(b), NEW p \in Projects,
         file'[p] = file[p], slot'[p] = slot[p], p \in linked' <=> p \in linked
  PROVE  LinkHolds(p)'
<1>1. Served /\ Shape /\ LinkHolds(p)
  BY DEF Alive, Served
<1>2. /\ slot[p] # None => slot[p].key \in Keys
      /\ p \in linked => file[p] \in Digests
  BY <1>1, Distinct DEF Shape, Typed, ProjectTyped, Owner
<1>3. slot[p] # None /\ manifest[slot[p].key] # {} => manifest'[slot[p].key] # {}
  BY <1>1, <1>2, EntriesStay
<1>4. p \in linked /\ HasBlob(file[p]) => HasBlob(file[p])'
  BY <1>1, <1>2, BlobsStay DEF HasBlob
<1> QED
  BY <1>1, <1>3, <1>4 DEF LinkHolds

\* A step that leaves the output path, its record and the registration alone.
LEMMA Steady ==
  ASSUME Alive, NEW b \in Builds, Plan(b) \/ BuildStep(b) \/ Crash(b),
         UNCHANGED <<file, linked, slot, reg>>, target \subseteq target',
         bld[b].pc # "finish",
         HoldsTarget(b)' => ProjectOf[b] \in target',
         bld'[b].hit # None => manifest'[bld'[b].key] # {},
         bld'[b].pc \in {"rustc", "emit", "save"} \cup Storing => ProjectOf[b] \notin linked
  PROVE  Kept(b)' /\ LinkHolds(ProjectOf[b])' /\ Listed(ProjectOf[b])'
<1>1. ProjectOf[b] \in Projects /\ Listed(ProjectOf[b])
  BY OfAlive
<1>2. LinkHolds(ProjectOf[b])'
  BY <1>1, LinkStays
<1>3. \A c \in Builds \ {b} : bld'[c] = bld[c]
  BY OthersStay DEF Alive, Served
<1>4. Listed(ProjectOf[b])'
  BY <1>1, <1>3 DEF Listed
<1>5. Kept(b)'
  BY DEF Kept, Storing
<1> QED
  BY <1>2, <1>4, <1>5

\* Until it has its hit, and after it gave up, a build is steady.
LEMMA LooksAlive ==
  ASSUME Alive, NEW b \in Builds,
         \/ Plan(b) \/ TakeTargetLock(b) \/ TakeStoreLock(b) \/ LookupMiss(b)
         \/ TakeUnitLock(b) \/ GiveUp(b)
  PROVE  Kept(b)' /\ LinkHolds(ProjectOf[b])' /\ Listed(ProjectOf[b])'
<1> DEFINE u == bld[b]
           v == bld'[b]
<1>1. /\ bld \in [Builds -> BuildState] /\ u \in BuildState
      /\ u.hit # None => u.pc \in {"touch", "release", "restore"}
      /\ HoldsTarget(b) => ProjectOf[b] \in target
  BY OfAlive DEF HitHeld, Kept
<1>2. Plan(b) \/ BuildStep(b) \/ Crash(b)
  BY DEF BuildStep
<1>3. /\ UNCHANGED <<file, linked, slot, reg>>
      /\ u.pc \notin {"finish", "touch", "release", "restore"}
  BY DEF Plan, TakeTargetLock, TakeStoreLock, LookupMiss, TakeUnitLock, GiveUp, project, queues
<1>4. target' = IF TakeTargetLock(b) THEN target \cup {ProjectOf[b]} ELSE target
  BY DEF Plan, TakeTargetLock, TakeStoreLock, LookupMiss, TakeUnitLock, GiveUp, project
<1>5. /\ v.pc \in {"idle", "planned", "target", "lookup", "compile", "release"}
      /\ v.hit = None
      /\ ~TakeTargetLock(b) /\ v.pc \notin Unlocked => u.pc \notin Unlocked
  <2>1. CASE Plan(b)
    <3>1. PICK i \in Inputs :
            bld' = [bld EXCEPT ![b].pc = "planned", ![b].key = src[ProjectOf[b]], ![b].env = i]
      BY <2>1 DEF Plan
    <3> QED
      BY <1>1, <1>3, <3>1 DEF BuildState, Unlocked
  <2>2. CASE TakeTargetLock(b) \/ TakeStoreLock(b)
    BY <1>1, <1>3, <2>2 DEF TakeTargetLock, TakeStoreLock, Goto, BuildState, Unlocked
  <2>3. CASE LookupMiss(b)
    BY <1>1, <1>3, <2>3 DEF LookupMiss, AfterMiss, Goto, BuildState, Unlocked
  <2>4. CASE TakeUnitLock(b)
    BY <1>1, <1>3, <2>4 DEF TakeUnitLock, BuildState, Unlocked
  <2>5. CASE GiveUp(b)
    BY <1>1, <2>5 DEF GiveUp, NoBuild, BuildState, Unlocked
  <2> QED
    BY <2>1, <2>2, <2>3, <2>4, <2>5
<1> QED
  BY <1>1, <1>2, <1>3, <1>4, <1>5, Steady DEF HoldsTarget, Storing

\* A hit has an entry, and so has a manifest that is written back.
LEMMA HitAlive ==
  ASSUME Alive, NEW b \in Builds, FreshUnused(b) \/ LookupHit(b) \/ Touch(b)
  PROVE  Kept(b)' /\ LinkHolds(ProjectOf[b])' /\ Listed(ProjectOf[b])'
<1> DEFINE u == bld[b]
           v == bld'[b]
<1>1. /\ bld \in [Builds -> BuildState] /\ u \in BuildState
      /\ HoldsTarget(b) => ProjectOf[b] \in target
      /\ u.hit # None => manifest[u.key] # {}
      /\ u.pc = "lookup" => u.hit = None
  BY OfAlive DEF Kept, KnowsOf
<1>2. BuildStep(b) /\ u.pc \in {"lookup", "touch"} /\ UNCHANGED <<file, linked, slot, reg, target>>
  BY DEF BuildStep, FreshUnused, LookupHit, Touch, project, queues
<1>3. u.key \in Keys
  BY <1>2, OfAlive DEF PhaseOf
<1>4. v.pc \in {"touch", "restore", "release", "finish"} /\ v.key = u.key
  <2>1. CASE LookupHit(b)
    <3>1. PICK e \in Usable(u.key, u.env) :
            \/ bld' = [bld EXCEPT ![b].pc = AfterHit(b), ![b].hit = e.blob]
            \/ bld' = [bld EXCEPT ![b].pc = "touch", ![b].hit = e.blob,
                                  ![b].mem = manifest[bld[b].key]]
      BY <2>1 DEF LookupHit
    <3>2. AfterHit(b) \in {"restore", "release"}
      BY DEF AfterHit
    <3> QED
      BY <1>1, <3>1, <3>2 DEF BuildState
  <2>2. CASE Touch(b)
    BY <1>1, <2>2 DEF Touch, AfterTouch, AfterHit, BuildState
  <2>3. CASE FreshUnused(b)
    BY <1>1, <2>3 DEF FreshUnused, BuildState
  <2> QED
    BY <2>1, <2>2, <2>3
<1>5. manifest'[u.key] # {}
  <2>1. CASE LookupHit(b)
    BY <2>1 DEF LookupHit, Usable, store
  <2>2. CASE Touch(b)
    <3>1. manifest \in [Keys -> SUBSET Entry] /\ HitHeld(b)
      BY OfAlive DEF Alive, Served, Shape, Typed, StoreTyped
    <3> QED
      BY <1>3, <2>2, <3>1 DEF Touch, HitHeld
  <2>3. CASE FreshUnused(b)
    BY <2>3 DEF FreshUnused, store
  <2> QED
    BY <2>1, <2>2, <2>3
<1>6. HoldsTarget(b)
  BY <1>2 DEF HoldsTarget, Unlocked
<1> QED
  BY <1>1, <1>2, <1>4, <1>5, <1>6, Steady DEF Storing

\* Once the compiler has been started the output is no link.
LEMMA WorkAlive ==
  ASSUME Alive, NEW b \in Builds,
         \/ RustcFails(b) \/ Ingest(b) \/ LoadManifest(b) \/ SaveManifest(b) \/ StoreFails(b)
  PROVE  Kept(b)' /\ LinkHolds(ProjectOf[b])' /\ Listed(ProjectOf[b])'
<1> DEFINE u == bld[b]
           v == bld'[b]
<1>1. /\ bld \in [Builds -> BuildState] /\ u \in BuildState
      /\ HoldsTarget(b) => ProjectOf[b] \in target
      /\ u.hit # None => u.pc \in {"touch", "release", "restore"}
      /\ u.pc \in {"rustc", "emit"} \cup Storing => ProjectOf[b] \notin linked
  BY OfAlive DEF Kept, HitHeld
<1>2. BuildStep(b) /\ UNCHANGED <<file, linked, slot, reg, target>>
  BY DEF BuildStep, RustcFails, Ingest, LoadManifest, SaveManifest, StoreFails, project, queues
<1>3. u.pc \in {"rustc", "emit"} \cup Storing
  BY DEF RustcFails, Ingest, LoadManifest, SaveManifest, StoreFails, Storing
<1>4. v.hit = u.hit
  <2>1. CASE RustcFails(b) \/ StoreFails(b)
    BY <1>1, <2>1 DEF RustcFails, StoreFails, BuildState
  <2>2. CASE Ingest(b) \/ LoadManifest(b)
    BY <1>1, <2>2 DEF Ingest, LoadManifest, Goto, BuildState
  <2>3. CASE SaveManifest(b)
    BY <1>1, <2>3 DEF SaveManifest, BuildState
  <2> QED
    BY <2>1, <2>2, <2>3
<1>5. HoldsTarget(b) /\ u.pc # "finish"
  BY <1>3 DEF HoldsTarget, Unlocked, Storing
<1> QED
  BY <1>1, <1>2, <1>3, <1>4, <1>5, Steady DEF Storing

\* Giving up the slot gives up the claim on the link.
LEMMA ReleaseAlive ==
  ASSUME Alive, NEW b \in Builds, ReleaseSlot(b)
  PROVE  Kept(b)' /\ LinkHolds(ProjectOf[b])' /\ Listed(ProjectOf[b])'
<1> DEFINE u == bld[b]
           v == bld'[b]
           p == ProjectOf[b]
<1>1. /\ bld \in [Builds -> BuildState] /\ u \in BuildState /\ p \in Projects
      /\ Kept(b) /\ LinkHolds(p)
  BY OfAlive
<1>2. u.pc = "release" /\ UNCHANGED <<target, linked, manifest>>
  BY DEF ReleaseSlot, store
<1>3. slot \in [Projects -> Owner \cup {None}]
  BY DEF Alive, Served, Shape, Typed, ProjectTyped
<1>4. slot'[p] = None
  BY <1>1, <1>3 DEF ReleaseSlot
<1>5. v.pc \in {"restore", "execute"} /\ v.hit = u.hit /\ v.key = u.key
  BY <1>1 DEF ReleaseSlot, BuildState
<1>6. Kept(b)'
  BY <1>1, <1>2, <1>5 DEF Kept, HoldsTarget, Unlocked, Storing
<1> QED
  BY <1>1, <1>2, <1>4, <1>6 DEF LinkHolds, Listed

\* The blob is placed: a link is to a blob that is there, with its entry.
LEMMA RestoreAlive ==
  ASSUME Alive, NEW b \in Builds, Restore(b)
  PROVE  Kept(b)' /\ LinkHolds(ProjectOf[b])' /\ Listed(ProjectOf[b])'
<1> DEFINE u == bld[b]
           v == bld'[b]
           p == ProjectOf[b]
<1>1. /\ bld \in [Builds -> BuildState] /\ u \in BuildState /\ p \in Projects
      /\ HitHeld(b) /\ Kept(b) /\ PhaseOf(u, file[p])
      /\ KnowsOf(u, src[p], file[p], slot[p])
  BY OfAlive
<1>2. u.pc = "restore" /\ UNCHANGED <<target, slot, manifest, cas>>
  BY DEF Restore, store
<1>3. u.hit # None /\ HasBlob(u.hit) /\ manifest[u.key] # {}
  BY <1>1, <1>2 DEF PhaseOf, HitHeld, Kept
<1>4. file \in [Projects -> Digests \cup {None}]
  BY DEF Alive, Served, Shape, Typed, ProjectTyped
<1>5. p \in linked' => p \in Symlinked /\ file'[p] = u.hit
  BY <1>1, <1>3, <1>4 DEF Restore
<1>6. v.pc = "save" /\ v.hit = None /\ v.key = u.key
  BY <1>1, <1>3 DEF Restore, BuildState
<1>7. slot[p] = None
  BY <1>1, <1>2 DEF KnowsOf, Freed
<1>8. p \in target
  BY <1>1, <1>2 DEF Kept, HoldsTarget, Unlocked
<1>9. Kept(b)'
  BY <1>2, <1>3, <1>5, <1>6, <1>8 DEF Kept, HasBlob, Storing
<1> QED
  BY <1>2, <1>5, <1>7, <1>9 DEF LinkHolds, Listed

\* rustc writes a file of the project's own.
LEMMA CompileAlive ==
  ASSUME Alive, NEW b \in Builds, StartCompile(b) \/ RustcReads(b) \/ RustcEmits(b)
  PROVE  Kept(b)' /\ LinkHolds(ProjectOf[b])' /\ Listed(ProjectOf[b])'
<1> DEFINE u == bld[b]
           v == bld'[b]
           p == ProjectOf[b]
<1>1. /\ bld \in [Builds -> BuildState] /\ u \in BuildState /\ p \in Projects
      /\ HitHeld(b) /\ Kept(b) /\ KnowsOf(u, src[p], file[p], slot[p])
  BY OfAlive
<1>2. u.pc \in Working /\ UNCHANGED <<target, slot>>
  BY DEF StartCompile, RustcReads, RustcEmits, Working
<1>3. p \notin linked'
  <2>1. CASE StartCompile(b)
    BY <2>1 DEF StartCompile
  <2>2. CASE RustcReads(b) \/ RustcEmits(b)
    BY <1>1, <2>2 DEF RustcReads, RustcEmits, Kept
  <2> QED
    BY <2>1, <2>2
<1>4. v.hit = None
  <2>1. u.hit = None
    BY <1>1, <1>2 DEF HitHeld, Working
  <2>2. CASE StartCompile(b)
    BY <1>1, <2>1, <2>2 DEF StartCompile, Goto, BuildState
  <2>3. CASE RustcReads(b)
    BY <1>1, <2>1, <2>3 DEF RustcReads, BuildState
  <2>4. CASE RustcEmits(b)
    BY <1>1, <2>1, <2>4 DEF RustcEmits, BuildState
  <2> QED
    BY <2>2, <2>3, <2>4
<1>5. slot[p] = None /\ p \in target
  BY <1>1, <1>2 DEF KnowsOf, Freed, Kept, HoldsTarget, Unlocked, Working
<1> QED
  BY <1>2, <1>3, <1>4, <1>5 DEF Kept, LinkHolds, Listed

\* The record is written for what was placed or compiled.
LEMMA SaveAlive ==
  ASSUME Alive, NEW b \in Builds, Fresh(b) \/ SaveState(b)
  PROVE  Kept(b)' /\ LinkHolds(ProjectOf[b])' /\ Listed(ProjectOf[b])'
<1> DEFINE u == bld[b]
           v == bld'[b]
           p == ProjectOf[b]
           o == [key |-> u.key, inputs |-> u.env]
<1>1. /\ bld \in [Builds -> BuildState] /\ u \in BuildState /\ p \in Projects
      /\ HitHeld(b) /\ Kept(b) /\ LinkHolds(p) /\ Listed(p)
  BY OfAlive
<1>2. u.pc \in {"lookup", "save"} /\ UNCHANGED <<target, file, linked, manifest, cas>>
  BY DEF Fresh, SaveState, project, store
<1>3. v.pc = "finish" /\ v.hit = None
  BY <1>1, <1>2 DEF Fresh, SaveState, Goto, HitHeld, BuildState
<1>4. p \in target
  BY <1>1, <1>2 DEF Kept, HoldsTarget, Unlocked
<1>5. LinkHolds(p)'
  <2>1. CASE Fresh(b)
    BY <1>1, <1>2, <2>1 DEF Fresh, project, LinkHolds, HasBlob
  <2>2. CASE SaveState(b)
    <3>1. slot'[p] = o
      BY <1>1, <2>2 DEF SaveState, Alive, Served, Shape, Typed, ProjectTyped
    <3>2. o.key = u.key /\ u.pc = "save"
      BY <2>2 DEF SaveState
    <3> HIDE DEF o
    <3> QED
      BY <1>1, <1>2, <3>1, <3>2 DEF Kept, LinkHolds, HasBlob
  <2> QED
    BY <2>1, <2>2
<1> QED
  BY <1>2, <1>3, <1>4, <1>5 DEF Kept, Listed, Storing

\* The record is listed.
LEMMA RegisterAlive ==
  ASSUME Alive, NEW b \in Builds, Register(b) \/ Housekeeping(b)
  PROVE  Kept(b)' /\ LinkHolds(ProjectOf[b])' /\ Listed(ProjectOf[b])'
<1> DEFINE u == bld[b]
           v == bld'[b]
           p == ProjectOf[b]
           o == [key |-> u.key, inputs |-> u.env]
<1>1. /\ bld \in [Builds -> BuildState] /\ u \in BuildState /\ p \in Projects
      /\ HitHeld(b) /\ Kept(b) /\ LinkHolds(p) /\ Listed(p) /\ KnowsOf(u, src[p], file[p], slot[p])
  BY OfAlive
<1>2. /\ u.pc \in {"finish", "house"}
      /\ UNCHANGED <<target, file, linked, slot, manifest, cas>>
  BY DEF Register, Housekeeping, project, store
<1>3. v.pc \in {"house", "idle"} /\ v.hit = None
  BY <1>1, <1>2 DEF Register, Housekeeping, Goto, HitHeld, NoBuild, BuildState
<1>4. p \in target
  BY <1>1, <1>2 DEF Kept, HoldsTarget, Unlocked
<1>5. reg \in [Projects -> SUBSET Keys]
  BY DEF Alive, Served, Shape, Typed, QueueTyped
<1>6. Listed(p)'
  <2>1. CASE Register(b)
    <3>1. slot[p] = o /\ o.key = u.key
      BY <1>1, <2>1 DEF Register, KnowsOf
    <3> HIDE DEF o
    <3>2. u.key \in reg'[p]
      BY <1>1, <1>5, <2>1 DEF Register
    <3> QED
      BY <1>2, <1>4, <3>1, <3>2 DEF Listed
  <2>2. CASE Housekeeping(b)
    <3>1. reg'[p] = reg[p] /\ u.pc = "house"
      BY <1>1, <1>4, <2>2 DEF Housekeeping, DropDead
    <3>2. \A c \in Builds \ {b} : bld'[c] = bld[c]
      BY <2>2, OthersStay DEF Alive, Served, BuildStep
    <3> QED
      BY <1>1, <1>2, <3>1, <3>2 DEF Listed
  <2> QED
    BY <2>1, <2>2
<1> QED
  BY <1>1, <1>2, <1>3, <1>4, <1>6 DEF Kept, LinkHolds, HasBlob, Storing

\* The build that moves.
LEMMA OwnAlive ==
  ASSUME Careful, Alive, NEW b \in Builds, Plan(b) \/ BuildStep(b) \/ Crash(b)
  PROVE  Kept(b)' /\ LinkHolds(ProjectOf[b])' /\ Listed(ProjectOf[b])'
<1>1. ~DeferIngest(b) /\ ~Crash(b) /\ ~OtherFails(b)
  BY NoDeferral DEF Careful, Registers, Crash, OtherFails
<1> QED
  BY <1>1, LooksAlive, HitAlive, WorkAlive, ReleaseAlive, RestoreAlive, CompileAlive, SaveAlive,
     RegisterAlive DEF BuildStep

\* What a build's step does to target/ directories and registrations of others.
LEMMA ListsStay ==
  ASSUME Careful, Shape, NEW b \in Builds, Plan(b) \/ BuildStep(b) \/ Crash(b)
  PROVE  /\ target \subseteq target'
         /\ \A p \in target : p # ProjectOf[b] => reg'[p] = reg[p]
<1>1. reg \in [Projects -> SUBSET Keys] /\ target \subseteq Projects
  BY DEF Shape, Typed, ProjectTyped, QueueTyped
<1>2. ~Crash(b)
  BY DEF Careful, Registers, Crash
<1>3. CASE Plan(b) \/ TakeTargetLock(b) \/ TakeStoreLock(b) \/ Fresh(b)
           \/ FreshUnused(b) \/ LookupHit(b) \/ Touch(b) \/ LookupMiss(b) \/ ReleaseSlot(b)
           \/ TakeUnitLock(b)
  BY <1>3 DEF Plan, TakeTargetLock, TakeStoreLock, Fresh, FreshUnused, LookupHit, Touch,
     LookupMiss, ReleaseSlot, TakeUnitLock, project, queues
<1>4. CASE Restore(b) \/ StartCompile(b) \/ RustcReads(b) \/ RustcEmits(b) \/ RustcFails(b)
           \/ DeferIngest(b) \/ Ingest(b)
  BY <1>4 DEF Restore, StartCompile, RustcReads, RustcEmits, RustcFails, DeferIngest,
     Ingest, project, queues
<1>5. CASE LoadManifest(b) \/ SaveManifest(b) \/ StoreFails(b) \/ SaveState(b)
           \/ OtherFails(b) \/ GiveUp(b)
  BY <1>5 DEF LoadManifest, SaveManifest, StoreFails, SaveState, OtherFails, GiveUp,
     project, queues
<1>6. CASE Register(b) \/ Housekeeping(b)
  BY <1>1, <1>6 DEF Register, Housekeeping, DropDead, project
<1> QED
  BY <1>2, <1>3, <1>4, <1>5, <1>6 DEF BuildStep

\* The other builds and projects.
LEMMA OthersAlive ==
  ASSUME Careful, Alive, NEW b \in Builds, Plan(b) \/ BuildStep(b) \/ Crash(b)
  PROVE  /\ \A c \in Builds \ {b} : Kept(c)'
         /\ \A p \in Projects \ {ProjectOf[b]} : LinkHolds(p)' /\ Listed(p)'
<1>1. Shape /\ Served /\ \A c \in Builds \ {b} : bld'[c] = bld[c]
  BY OthersStay DEF Alive, Served
<1>2. ASSUME NEW c \in Builds \ {b} PROVE Kept(c)'
  <2> DEFINE u == bld[c]
             p == ProjectOf[c]
  <2>1. /\ bld'[c] = u /\ u \in BuildState /\ PhaseOf(u, file[p]) /\ HitHeld(c) /\ Kept(c)
        /\ p \in Projects
    BY <1>1, OfAlive
  <2>2. (HoldsTarget(c) => p \in target')
    BY <1>1, <2>1, ListsStay DEF Kept
  <2>3. u.hit # None => manifest'[u.key] # {}
    <3> SUFFICES ASSUME u.hit # None PROVE manifest'[u.key] # {}
      OBVIOUS
    <3>1. u.key \in Keys /\ manifest[u.key] # {}
      BY <2>1 DEF HitHeld, PhaseOf, Kept
    <3> QED
      BY <1>1, <3>1, EntriesStay
  <2>4. u.pc \in {"rustc", "emit", "save"} \cup Storing =>
          (p \in linked' <=> p \in linked) /\ file'[p] = file[p]
    BY <1>1, MineStays DEF HoldsTarget, Unlocked, Storing
  <2>5. u.pc = "save" /\ p \in linked => manifest'[u.key] # {} /\ HasBlob(file[p])'
    <3> SUFFICES ASSUME u.pc = "save", p \in linked
                 PROVE  manifest'[u.key] # {} /\ HasBlob(file[p])'
      OBVIOUS
    <3>1. u.key \in Keys /\ manifest[u.key] # {} /\ HasBlob(file[p])
      BY <2>1 DEF PhaseOf, Kept
    <3>2. file[p] \in Digests
      BY <1>1 DEF Shape, Typed, ProjectTyped
    <3>3. file'[p] = file[p]
      BY <2>4
    <3> QED
      BY <1>1, <3>1, <3>2, <3>3, EntriesStay, BlobsStay DEF HasBlob
  <2> QED
    BY <2>1, <2>2, <2>3, <2>4, <2>5 DEF Kept, HoldsTarget, Storing
<1>3. ASSUME NEW p \in Projects \ {ProjectOf[b]} PROVE LinkHolds(p)' /\ Listed(p)'
  <2>1. file'[p] = file[p] /\ slot'[p] = slot[p] /\ (p \in linked' <=> p \in linked)
    BY <1>1, OtherProjects
  <2>2. LinkHolds(p)'
    BY <2>1, LinkStays
  <2>3. Listed(p)
    BY DEF Alive
  <2> QED
    BY <1>1, <2>1, <2>2, <2>3, ListsStay DEF Listed
<1> QED
  BY <1>2, <1>3

\* While builds work, what the collector has decided stays right: it has decided
\* something only when no build holds store.lock.
LEMMA BuildSpares ==
  ASSUME Careful, Alive, NEW b \in Builds, Plan(b) \/ BuildStep(b) \/ Crash(b)
  PROVE  \A g \in Collectors : Spares(g)'
<1> SUFFICES ASSUME NEW g \in Collectors PROVE Spares(g)'
  OBVIOUS
<1>1. g = "user" /\ Spares(g) /\ gc' = gc /\ Shape
  BY SharedStoreAssumption, BuildServes DEF Careful, Alive, Served
<1>2. CASE HoldsStore(b)
  BY <1>1, <1>2 DEF Alive, Served, Exclusive, Spares
<1>3. CASE ~HoldsStore(b)
  <2>1. UNCHANGED <<file, slot, linked>>
    BY <1>1, <1>3, OtherProjects
  <2> QED
    BY <1>1, <2>1 DEF Spares
<1> QED
  BY <1>2, <1>3

\* Every step of a build keeps the links that are listed.
LEMMA BuildAlive ==
  ASSUME Careful, Alive, Sound', Served',
         NEW b \in Builds, Plan(b) \/ BuildStep(b) \/ Crash(b)
  PROVE  Alive'
<1>1. \A c \in Builds : Kept(c)'
  BY OwnAlive, OthersAlive
<1>2. \A p \in Projects : LinkHolds(p)' /\ Listed(p)'
  BY OwnAlive, OthersAlive
<1> QED
  BY <1>1, <1>2, BuildSpares DEF Alive

\* An edit changes no output; a cleaned project has no link and owns nothing.
LEMMA ProjectAlive ==
  ASSUME Careful, Alive, Sound', Served', NEW p \in Projects, Edit(p) \/ Clean(p)
  PROVE  Alive'
<1>1. CASE Edit(p)
  BY <1>1 DEF Edit, Alive, Kept, HoldsTarget, LinkHolds, Listed, Spares, HasBlob, store, queues
<1>2. CASE Clean(p)
  <2>1. /\ UNCHANGED <<cas, manifest, reg, bld, gc>>
        /\ \A b \in Builds : ProjectOf[b] = p => bld[b].pc = "idle"
    BY <1>2 DEF Clean, ProjectIdle, store, queues
  <2>2. /\ file \in [Projects -> Digests \cup {None}] /\ slot \in [Projects -> Owner \cup {None}]
        /\ \A b \in Builds : ProjectOf[b] \in Projects
    BY OfAlive DEF Alive, Served, Shape, Typed, ProjectTyped
  <2>3. /\ slot'[p] = None /\ p \notin linked'
        /\ \A q \in Projects \ {p} :
             /\ file'[q] = file[q] /\ slot'[q] = slot[q]
             /\ q \in linked' <=> q \in linked
             /\ q \in target' <=> q \in target
    BY <1>2, <2>2 DEF Clean
  <2>4. ASSUME NEW b \in Builds PROVE Kept(b)'
    <3>1. Kept(b) /\ HitHeld(b)
      BY OfAlive
    <3>2. CASE ProjectOf[b] = p
      BY <2>1, <3>1, <3>2 DEF Kept, HitHeld, HoldsTarget, Unlocked, Storing
    <3>3. CASE ProjectOf[b] # p
      BY <2>1, <2>2, <2>3, <3>1, <3>3 DEF Kept, HoldsTarget, HasBlob
    <3> QED
      BY <3>2, <3>3
  <2>5. \A q \in Projects : LinkHolds(q)' /\ Listed(q)'
    BY <2>1, <2>3 DEF Alive, LinkHolds, Listed, HasBlob
  <2>6. linked' \subseteq Projects
    BY DEF Served, Shape, Typed, ProjectTyped
  <2>7. \A g \in Collectors : Spares(g)'
    BY <2>1, <2>3, <2>6 DEF Alive, Spares
  <2> QED
    BY <2>4, <2>5, <2>7 DEF Alive
<1> QED
  BY <1>1, <1>2

\* What `rb store gc` may rely on: no build is on, every owner is listed.
LEMMA UserAlone ==
  ASSUME Careful, Alive, NEW g \in Collectors, gc[g].pc # "idle"
  PROVE  /\ g = "user"
         /\ \A b \in Builds : /\ bld[b].pc \in {"idle", "planned", "target", "house"}
                              /\ bld[b].hit = None
         /\ \A p \in Projects :
              slot[p] # None => slot[p].key \in Keys /\ p \in target /\ slot[p].key \in reg[p]
<1>1. g = "user"
  BY SharedStoreAssumption DEF Careful
<1>2. \A b \in Builds : bld[b].pc \in {"idle", "planned", "target", "house"}
  BY <1>1, OfAlive
     DEF Alive, Served, Exclusive, HoldsStore, Unlocked, WaitingStore, AfterStore
<1>3. \A b \in Builds : bld[b].hit = None
  BY <1>2 DEF Alive, Served, HitHeld
<1>4. \A p \in Projects :
        slot[p] # None => slot[p].key \in Keys /\ p \in target /\ slot[p].key \in reg[p]
  BY <1>2 DEF Alive, Listed, Served, Shape, Typed, ProjectTyped, Owner
<1> QED
  BY <1>1, <1>2, <1>3, <1>4

\* What a step of the collector has to show.
LEMMA CollectKeeps ==
  ASSUME Careful, Alive, Sound', Served', NEW g \in Collectors, GcStep(g) \/ CrashGc(g),
         \A p \in Projects : slot[p] # None => slot[p].key \in reg'[p],
         \A p \in linked : slot[p] # None =>
            manifest'[slot[p].key] # {} /\ HasBlob(file[p])',
         Spares(g)'
  PROVE  Alive'
<1>1. gc[g].pc # "idle" /\ UNCHANGED <<project, bld>>
  BY DEF GcStep, GcPlan, GcScan, GcRemoveUnit, GcSweep, GcFinish, CrashGc
<1>2. g = "user" /\ \A h \in Collectors : h = g
  BY <1>1, UserAlone, SharedStoreAssumption DEF Careful
<1>3. ASSUME NEW b \in Builds PROVE Kept(b)'
  <2>1. bld[b].pc \in {"idle", "planned", "target", "house"} /\ bld[b].hit = None /\ Kept(b)
    BY <1>1, UserAlone DEF Alive
  <2> QED
    BY <1>1, <2>1 DEF Kept, HoldsTarget, Storing, project
<1>4. ASSUME NEW p \in Projects PROVE LinkHolds(p)' /\ Listed(p)'
  <2>1. LinkHolds(p) /\ Listed(p)
    BY DEF Alive
  <2> QED
    BY <1>1, <2>1 DEF LinkHolds, Listed, project
<1> QED
  BY <1>2, <1>3, <1>4 DEF Alive

\* The plan: what is listed counts as in use.
LEMMA PlanAlive ==
  ASSUME Careful, Alive, Sound', Served', NEW g \in Collectors, GcPlan(g) PROVE Alive'
<1>1. gc[g].pc # "idle" /\ UNCHANGED <<project, store>> /\ gc \in [Collectors -> GcState]
  BY OfGc DEF GcPlan, Alive, Served
<1>2. \A p \in Projects :
        slot[p] # None => slot[p].key \in Keys /\ p \in target /\ slot[p].key \in reg[p]
  BY <1>1, UserAlone
<1>3. \A p \in Projects : slot[p] # None => slot[p].key \in reg'[p]
  BY <1>2 DEF GcPlan, DropDead
<1>4. gc'[g].pc = "scan" /\ gc'[g].hot = ProjectKeys(Projects)
  BY <1>1 DEF GcPlan, NewGc, NoGc
<1>5. \A p \in Projects : slot[p] # None => slot[p].key \in ProjectKeys(Projects)
  BY <1>2 DEF ProjectKeys
<1>6. Spares(g)'
  BY <1>1, <1>4, <1>5 DEF Spares, project
<1>7. \A p \in linked : slot[p] # None => manifest'[slot[p].key] # {} /\ HasBlob(file[p])'
  BY <1>1 DEF Alive, LinkHolds, HasBlob, project, store, Served, Shape, Typed, ProjectTyped
<1> QED
  BY <1>3, <1>6, <1>7, CollectKeeps DEF GcStep

\* The choice: a link's unit is listed and pinned, and what it names is live.
LEMMA ScanAlive ==
  ASSUME Careful, Alive, Sound', Served', NEW g \in Collectors, GcScan(g) PROVE Alive'
<1>1. /\ gc[g].pc = "scan" /\ UNCHANGED <<project, store, queues>>
      /\ gc \in [Collectors -> GcState] /\ gc[g] \in GcState
  BY OfGc DEF GcScan, Alive, Served
<1>2. /\ g = "user"
      /\ \A p \in Projects :
           slot[p] # None => slot[p].key \in Keys /\ p \in target /\ slot[p].key \in reg[p]
  BY <1>1, UserAlone
<1>3. linked \subseteq Projects
  BY DEF Alive, Served, Shape, Typed, ProjectTyped
<1> DEFINE droppable == IF g = "user" THEN (Units \cap gc[g].hot) \ SymlinkedKeys ELSE {}
<1>4. PICK aged \in SUBSET droppable :
        NewGc(g, [gc[g] EXCEPT !.pc = "units", !.hot = {},
                               !.units = (Units \ gc[g].hot) \cup aged, !.blobs = Digests,
                               !.live = BlobsOf(Units \ ((Units \ gc[g].hot) \cup aged)),
                               !.gone = BlobsOf((Units \ gc[g].hot) \cup aged)])
  BY DEF GcScan
<1> DEFINE drop == (Units \ gc[g].hot) \cup aged
<1>5. gc'[g].pc = "units" /\ gc'[g].units = drop /\ gc'[g].live = BlobsOf(Units \ drop)
  BY <1>1, <1>4 DEF NewGc, GcState
<1>6. ASSUME NEW p \in linked, slot[p] # None
      PROVE  slot[p].key \notin drop /\ file[p] \in BlobsOf(Units \ drop)
  <2>1. /\ p \in Symlinked /\ manifest[slot[p].key] # {} /\ slot[p].key \in gc[g].hot
        /\ OwnerSound(p) /\ slot[p] \in Owner
    BY <1>1, <1>3, <1>6 DEF Alive, LinkHolds, Spares, Sound, Served, Shape, Typed, ProjectTyped
  <2>2. slot[p].key \in SymlinkedKeys
    BY <1>2, <1>3, <1>6, <2>1 DEF SymlinkedKeys, ProjectKeys
  <2>3. slot[p].key \notin drop
    BY <2>1, <2>2
  <2>4. slot[p].key \in Units
    BY <1>2, <1>3, <1>6, <2>1 DEF Units
  <2>5. PICK e \in manifest[slot[p].key] : TRUE
    BY <2>1
  <2>6. e.blob = Made(slot[p].key, e.inputs) /\ e.inputs \in Inputs
    BY <1>2, <1>3, <1>6 DEF Alive, Sound, EntriesSound, Served, Shape, Typed, StoreTyped, Entry
  <2>7. e.inputs = slot[p].inputs
    BY <2>1, <2>6 DEF Careful, Single, Owner
  <2>8. file[p] = e.blob
    BY <1>6, <2>1, <2>6, <2>7 DEF OwnerSound
  <2> HIDE DEF drop
  <2>9. e.blob \in BlobsOf(Units \ drop)
    BY <2>3, <2>4, <2>5 DEF BlobsOf
  <2> QED
    BY <2>3, <2>8, <2>9
<1> HIDE DEF drop
<1>7. Spares(g)'
  BY <1>1, <1>5, <1>6 DEF Spares, project
<1>8. \A p \in linked : slot[p] # None => manifest'[slot[p].key] # {} /\ HasBlob(file[p])'
  BY <1>1, <1>3 DEF Alive, LinkHolds, HasBlob, project, store
<1>9. \A p \in Projects : slot[p] # None => slot[p].key \in reg'[p]
  BY <1>1, <1>2 DEF queues
<1> QED
  BY <1>7, <1>8, <1>9, CollectKeeps DEF GcStep

\* The removal: a link's unit and blob are not among what goes.
LEMMA RemoveAlive ==
  ASSUME Careful, Alive, Sound', Served', NEW g \in Collectors,
         GcRemoveUnit(g) \/ GcSweep(g)
  PROVE  Alive'
<1>1. /\ gc[g].pc = "units" /\ UNCHANGED <<project, queues>>
      /\ gc \in [Collectors -> GcState] /\ gc[g] \in GcState
      /\ linked \subseteq Projects
  BY OfGc DEF GcRemoveUnit, GcSweep, Alive, Served, Shape, Typed, ProjectTyped
<1>2. \A p \in Projects :
        slot[p] # None => slot[p].key \in Keys /\ p \in target /\ slot[p].key \in reg[p]
  BY <1>1, UserAlone
<1>3. \A p \in linked : slot[p] # None =>
        /\ slot[p].key \notin gc[g].units /\ file[p] \in gc[g].live
        /\ manifest[slot[p].key] # {} /\ HasBlob(file[p])
  BY <1>1 DEF Alive, Spares, LinkHolds
<1>4. gc'[g].pc = "units" /\ gc'[g].units \subseteq gc[g].units /\ gc'[g].live = gc[g].live
  <2>1. CASE GcRemoveUnit(g)
    <3>1. PICK k \in gc[g].units : NewGc(g, [gc[g] EXCEPT !.units = gc[g].units \ {k}])
      BY <2>1 DEF GcRemoveUnit
    <3> QED
      BY <1>1, <3>1 DEF NewGc, GcState
  <2>2. CASE GcSweep(g)
    <3>1. PICK d \in gc[g].blobs : NewGc(g, [gc[g] EXCEPT !.blobs = gc[g].blobs \ {d}])
      BY <2>2 DEF GcSweep
    <3> QED
      BY <1>1, <3>1 DEF NewGc, GcState
  <2> QED
    BY <2>1, <2>2
<1>5. \A p \in linked : slot[p] # None => manifest'[slot[p].key] # {} /\ HasBlob(file[p])'
  <2> SUFFICES ASSUME NEW p \in linked, slot[p] # None
               PROVE  manifest'[slot[p].key] # {} /\ HasBlob(file[p])'
    OBVIOUS
  <2>1. /\ slot[p].key \in Keys /\ slot[p].key \notin gc[g].units /\ file[p] \in gc[g].live
        /\ manifest[slot[p].key] # {} /\ HasBlob(file[p]) /\ file[p] \in Digests
    BY <1>1, <1>2, <1>3 DEF Alive, Served, Shape, Typed, ProjectTyped
  <2>2. /\ manifest \in [Keys -> SUBSET Entry] /\ cas \in [Digests -> Digests \cup {None}]
    BY DEF Alive, Served, Shape, Typed, StoreTyped
  <2>3. CASE GcRemoveUnit(g)
    <3>1. PICK k \in gc[g].units : manifest' = [manifest EXCEPT ![k] = {}]
      BY <2>3 DEF GcRemoveUnit
    <3>2. file' = file /\ cas' = cas
      BY <2>3 DEF GcRemoveUnit, project
    <3> QED
      BY <2>1, <2>2, <3>1, <3>2 DEF HasBlob
  <2>4. CASE GcSweep(g)
    <3>1. PICK d \in gc[g].blobs :
            cas' = IF GcKeeps(g, d) THEN cas ELSE [cas EXCEPT ![d] = None]
      BY <2>4 DEF GcSweep
    <3>2. file' = file /\ manifest' = manifest
      BY <2>4 DEF GcSweep, project
    <3>3. d = file[p] => GcKeeps(g, d)
      BY <2>1 DEF GcKeeps
    <3> QED
      BY <2>1, <2>2, <3>1, <3>2, <3>3 DEF HasBlob
  <2> QED
    BY <2>3, <2>4
<1>6. Spares(g)'
  BY <1>1, <1>3, <1>4 DEF Spares, project
<1>7. \A p \in Projects : slot[p] # None => slot[p].key \in reg'[p]
  BY <1>1, <1>2 DEF queues
<1> QED
  BY <1>5, <1>6, <1>7, CollectKeeps DEF GcStep

\* The end, orderly or not.
LEMMA EndAlive ==
  ASSUME Careful, Alive, Sound', Served', NEW g \in Collectors, GcFinish(g) \/ CrashGc(g)
  PROVE  Alive'
<1>1. /\ gc[g].pc # "idle" /\ UNCHANGED <<project, store, reg>>
      /\ gc \in [Collectors -> GcState] /\ linked \subseteq Projects
  BY OfGc
     DEF GcFinish, CrashGc, queues, Alive, Served, Shape, Typed, ProjectTyped
<1>2. /\ g = "user"
      /\ \A p \in Projects : slot[p] # None => slot[p].key \in reg'[p]
  BY <1>1, UserAlone
<1>3. gc'[g].pc = "idle"
  BY <1>1, <1>2 DEF GcFinish, CrashGc, NewGc, NoGc
<1>4. \A p \in linked : slot[p] # None => manifest'[slot[p].key] # {} /\ HasBlob(file[p])'
  BY <1>1 DEF Alive, LinkHolds, HasBlob, project, store
<1> QED
  BY <1>2, <1>3, <1>4, CollectKeeps DEF GcStep, Spares

\* Every step keeps the links that are listed.
LEMMA StepAlive ==
  ASSUME Careful, Alive, [Next]_vars PROVE Alive'
<1>1. Sound' /\ Served'
  BY StepSound, StepServes DEF Careful, Alive
<1>2. ASSUME UNCHANGED <<project, cas, manifest, reg, bld, gc>> PROVE Alive'
  BY <1>1, <1>2
     DEF Alive, Kept, HoldsTarget, LinkHolds, Listed, Spares, HasBlob, project
<1>3. CASE UNCHANGED vars \/ CompactGivesUp
  BY <1>2, <1>3 DEF vars, store, queues, CompactGivesUp
<1>4. ~HourPasses /\ (CompactStep => CompactGivesUp)
  BY DEF Careful, HourPasses, CompactStep, StartCompact, NextJob, CheckOutput, HashOutput,
         PlaceBlob, MergeLoad, MergeSave, IngestDone, Compacting
<1>5. CASE StartUserGc
  <2>1. /\ UNCHANGED <<project, store, queues, bld>> /\ "user" \in Collectors
        /\ gc'["user"].pc = "plan" /\ \A g \in Collectors : g = "user"
    BY <1>5, SharedStoreAssumption
       DEF StartUserGc, NewGc, NoGc, Careful, Alive, Served, Shape, Typed, GcTyped
  <2>2. \A g \in Collectors : Spares(g)'
    BY <2>1 DEF Spares
  <2> QED
    BY <1>1, <2>1, <2>2
       DEF Alive, Kept, HoldsTarget, LinkHolds, Listed, HasBlob, project, store, queues
<1>6. CASE \E g \in Collectors : GcStep(g) \/ CrashGc(g)
  BY <1>1, <1>6, PlanAlive, ScanAlive, RemoveAlive, EndAlive DEF GcStep
<1>7. CASE \E p \in Projects : Edit(p) \/ Clean(p)
  BY <1>1, <1>7, ProjectAlive
<1>8. CASE \E b \in Builds : Plan(b) \/ BuildStep(b) \/ Crash(b)
  BY <1>1, <1>8, BuildAlive
<1> QED
  BY <1>3, <1>4, <1>5, <1>6, <1>7, <1>8 DEF Next

\* A project built with symlinks keeps its output while it lists the key, however
\* often `rb store gc` runs or is killed.
THEOREM LinksHold ==
  ASSUME Careful PROVE Spec => []LinksAlive
<1>1. Init => Alive
  <2> SUFFICES ASSUME Init PROVE Alive
    OBVIOUS
  <2>1. Sound /\ Served
    BY InitSound, InitShape DEF Init, Served, Exclusive, HitHeld, HoldsStore, Unlocked, NoBuild
  <2>2. \A b \in Builds : Kept(b)
    BY DEF Init, Kept, HoldsTarget, Unlocked, NoBuild, Storing
  <2>3. \A p \in Projects : LinkHolds(p) /\ Listed(p)
    BY DEF Init, LinkHolds, Listed
  <2>4. \A g \in Collectors : Spares(g)
    BY DEF Init, Spares, NoGc
  <2> QED
    BY <2>1, <2>2, <2>3, <2>4 DEF Alive
<1>2. Alive /\ [Next]_vars => Alive'
  BY StepAlive
<1>3. Alive => LinksAlive
  BY DEF Alive, LinkHolds, LinksAlive, Served, Shape, Typed, ProjectTyped
<1> QED
  BY <1>1, <1>2, <1>3, PTL DEF Spec

=============================================================================
