---------------------------- MODULE SharedStore ----------------------------
(***************************************************************************)
(* The content-addressed store that every project on a machine shares      *)
(* (crates/rb-store), and the three kinds of process that work on it at    *)
(* the same time: `rb build` invocations (rb-core exec.rs, build.rs), the  *)
(* background `rb __compact`, and `rb store gc`.                           *)
(*                                                                         *)
(* Each project is reduced to one unit with one output file.  Its path     *)
(* under target/ is chosen by the unit's NAME, which no edit changes       *)
(* (plan.rs:149); its store KEY stands for the hashed sources.  A source   *)
(* version and the key planned from it are therefore the same value.       *)
(* A blob's digest is the content it was hashed from: blake3 is taken to   *)
(* be injective.                                                           *)
(***************************************************************************)
EXTENDS FiniteSets

CONSTANTS
  Projects,        \* target directories registered on this machine
  Builds,          \* `rb build` processes; each one runs again and again
  ProjectOf,       \* the project a build process works in
  Keys,            \* source versions = unit keys
  Inputs,          \* values of the inputs found while compiling (an env! value)
  Contents,        \* output contents
  Compile,         \* what rustc makes of a source version and inputs
  Torn,            \* the content of an output rustc is still writing
  None,            \* no file, no key, no blob
  Large,           \* contents of at least DEFER_INGEST_BYTES
  Symlinked,       \* projects built with link-mode "symlink"
  KeepVariants,    \* target.keep-variants (0 or 1)
  Collectors,      \* which of "compact" and "user" collect garbage
  MidBuildEdits,   \* may a source change while a build of it runs?
  Crashes          \* what may fail: "build", "gc" (killed), "rustc" (an error in
                   \* the unit), "other" (in another unit of the same build)

ASSUME SharedStoreAssumption ==
  /\ ProjectOf \in [Builds -> Projects]
  /\ Compile \in [Keys \X Inputs -> Contents]
  /\ Torn \notin Contents
  /\ None \notin Contents \cup Keys \cup {Torn}
  /\ None \notin [key : Keys, inputs : Inputs]
  /\ Large \subseteq Contents
  /\ Symlinked \subseteq Projects
  /\ KeepVariants \in {0, 1}
  /\ Collectors \subseteq {"compact", "user"}
  /\ MidBuildEdits \in BOOLEAN
  /\ Crashes \subseteq {"build", "gc", "rustc", "other"}

VARIABLES
  src,       \* the sources on disk
  target,    \* projects whose target directory exists
  file,      \* bytes at the output path, or the digest a symlink there names
  linked,    \* projects whose output is a symlink into the store
  slot,      \* units.json: which key and inputs own the output path
  prev,      \* units.json: the key the last edit replaced
  reg,       \* ~/.rb/projects: the keys a project lists as its own
  cas,       \* cas/: digest -> bytes under that name
  old,       \* blobs whose mtime is more than an hour ago
  manifest,  \* units/: key -> entries
  jobs,      \* queue/ingest-*: outputs a build left for compaction to hash
  rmq,       \* queue/rm-*: keys a build wants dropped
  spawned,   \* an `rb __compact` is sleeping or about to start
  bld,       \* local state of each build
  gc         \* local state of each collector

project == <<src, target, file, linked, slot, prev>>
store   == <<cas, old, manifest>>
queues  == <<reg, jobs, rmq, spawned>>
vars    == <<project, store, queues, bld, gc>>

Digests == Contents \cup {Torn}
Entry   == [inputs : Inputs, blob : Digests]
Job     == [key : Keys, project : Projects, inputs : Inputs]
Owner   == [key : Keys, inputs : Inputs]

NoBuild == [pc |-> "idle", key |-> None, env |-> None, held |-> FALSE,
            hit |-> None, rd |-> None, mem |-> {}, sup |-> {}]
NoGc    == [pc |-> "idle", todo |-> {}, job |-> None, digest |-> None,
            mem |-> {}, hot |-> {}, queued |-> {}, units |-> {},
            live |-> {}, gone |-> {}, blobs |-> {}]

-----------------------------------------------------------------------------
(* What a process can see of the disk. *)

\* `is_file` and `exists` follow a symlink; so does whoever runs the output.
Bytes(p) == IF p \in linked THEN cas[file[p]] ELSE file[p]

HasBlob(d) == cas[d] # None

\* Keys of live projects.  A registration whose target directory is gone is
\* ignored and its file removed by whoever lists the registrations.
ProjectKeys(P)  == UNION {reg[p] : p \in P \cap target}
DropDead        == reg' = [p \in Projects |-> IF p \in target THEN reg[p] ELSE {}]

\* One entry per set of inputs; a new one replaces its namesake.
Upsert(entries, e) == {x \in entries : x.inputs # e.inputs} \cup {e}

\* The entry `lookup` serves: inputs still hold and every blob is there.
Usable(k, i) == {e \in manifest[k] : e.inputs = i /\ HasBlob(e.blob)}

(* Lock state, read off the program counters: every lock is an OS file lock *)
(* that dies with its holder.                                               *)
Unlocked     == {"idle", "planned"}
WaitingStore == {"target"}
AfterStore   == {"house"}

HoldsTarget(b) == bld[b].pc \notin Unlocked
HoldsStore(b)  == bld[b].pc \notin Unlocked \cup WaitingStore \cup AfterStore
HoldsUnit(b, k) == bld[b].held /\ bld[b].key = k

\* What try_gc_lock reports: somebody holds store.lock, shared or exclusive.
StoreBusy == \/ \E b \in Builds : HoldsStore(b)
             \/ "user" \in Collectors /\ gc["user"].pc # "idle"

ProjectIdle(p) == \A b \in Builds : ProjectOf[b] = p => bld[b].pc = "idle"

-----------------------------------------------------------------------------
Init ==
  /\ src \in [Projects -> Keys]
  /\ target = {}
  /\ file = [p \in Projects |-> None]
  /\ linked = {}
  /\ slot = [p \in Projects |-> None]
  /\ prev = [p \in Projects |-> None]
  /\ reg = [p \in Projects |-> {}]
  /\ cas = [d \in Digests |-> None]
  /\ old = {}
  /\ manifest = [k \in Keys |-> {}]
  /\ jobs = {}
  /\ rmq = {}
  /\ spawned = FALSE
  /\ bld = [b \in Builds |-> NoBuild]
  /\ gc = [g \in Collectors |-> NoGc]

-----------------------------------------------------------------------------
(* The environment. *)

\* The user saves another version of the source.
Edit(p) ==
  /\ MidBuildEdits \/ ProjectIdle(p)
  /\ \E k \in Keys \ {src[p]} : src' = [src EXCEPT ![p] = k]
  /\ UNCHANGED <<target, file, linked, slot, prev, store, queues, bld, gc>>

\* `rb clean` or `rm -rf target`: outputs and units.json go, the store stays.
Clean(p) ==
  /\ p \in target
  /\ ProjectIdle(p)
  /\ target' = target \ {p}
  /\ file' = [file EXCEPT ![p] = None]
  /\ linked' = linked \ {p}
  /\ slot' = [slot EXCEPT ![p] = None]
  /\ prev' = [prev EXCEPT ![p] = None]
  /\ UNCHANGED <<src, store, queues, bld, gc>>

\* An hour passes: no blob now in the store counts as recent any more.  Only
\* compaction asks.
HourPasses ==
  /\ "compact" \in Collectors
  /\ old' = {d \in Digests : HasBlob(d)}
  /\ old' # old
  /\ UNCHANGED <<project, cas, manifest, queues, bld, gc>>

-----------------------------------------------------------------------------
(* A build. *)

Goto(b, pc) == bld' = [bld EXCEPT ![b].pc = pc]

\* The key is computed from the sources before any lock is taken.
Plan(b) ==
  /\ bld[b].pc = "idle"
  /\ \E i \in Inputs :
       bld' = [bld EXCEPT ![b].pc = "planned", ![b].key = src[ProjectOf[b]],
                          ![b].env = i]
  /\ UNCHANGED <<project, store, queues, gc>>

\* Faulty: the build directory is locked shared.
TakeTargetLockShared(b) ==
  /\ bld[b].pc = "planned"
  /\ target' = target \cup {ProjectOf[b]}
  /\ Goto(b, "target")
  /\ UNCHANGED <<src, file, linked, slot, prev, store, queues, gc>>

\* The exclusive lock on the build directory.
TakeTargetLock(b) ==
  LET p == ProjectOf[b] IN
  /\ bld[b].pc = "planned"
  /\ \A c \in Builds \ {b} : ProjectOf[c] = p => ~HoldsTarget(c)
  /\ target' = target \cup {p}
  /\ Goto(b, "target")
  /\ UNCHANGED <<src, file, linked, slot, prev, store, queues, gc>>

\* store.lock, shared: held until the build's outcome has been run.
TakeStoreLock(b) ==
  /\ bld[b].pc = "target"
  /\ "user" \in Collectors => gc["user"].pc = "idle"
  /\ Goto(b, "lookup")
  /\ UNCHANGED <<project, store, queues, gc>>

\* The record in units.json owns the slot, its output is there, its inputs hold.
IsFresh(b) ==
  LET p == ProjectOf[b] IN
  /\ ~bld[b].held
  /\ slot[p] = [key |-> bld[b].key, inputs |-> bld[b].env]
  /\ Bytes(p) # None

Fresh(b) ==
  /\ bld[b].pc = "lookup" /\ IsFresh(b)
  /\ Goto(b, "finish")
  /\ UNCHANGED <<project, store, queues, gc>>

\* Once a day the entries of a fresh unit are marked used as well; nobody asks
\* whether their blobs are there.
FreshUnused(b) ==
  /\ bld[b].pc = "lookup" /\ IsFresh(b)
  /\ manifest[bld[b].key] # {}
  /\ bld' = [bld EXCEPT ![b].pc = "touch", ![b].mem = manifest[bld[b].key]]
  /\ UNCHANGED <<project, store, queues, gc>>

\* After the lookup a first pass gives up the slot; one under the unit lock,
\* whose slot is free, goes on.
AfterHit(b)  == IF bld[b].held THEN "restore" ELSE "release"
AfterMiss(b) == IF bld[b].held THEN "compile" ELSE "release"

\* Hit: the entry is copied; an entry not used for an hour is written back
\* with a new last_used, from the manifest as it was read ("touch").
LookupHit(b) ==
  /\ bld[b].pc = "lookup" /\ ~IsFresh(b)
  /\ \E e \in Usable(bld[b].key, bld[b].env) :
       \/ bld' = [bld EXCEPT ![b].pc = AfterHit(b), ![b].hit = e.blob]
       \/ bld' = [bld EXCEPT ![b].pc = "touch", ![b].hit = e.blob,
                             ![b].mem = manifest[bld[b].key]]
  /\ UNCHANGED <<project, store, queues, gc>>

AfterTouch(b) == IF bld[b].hit = None THEN "finish" ELSE AfterHit(b)

Touch(b) ==
  /\ bld[b].pc = "touch"
  /\ manifest' = [manifest EXCEPT ![bld[b].key] = bld[b].mem]
  /\ bld' = [bld EXCEPT ![b].pc = AfterTouch(b), ![b].mem = {}]
  /\ UNCHANGED <<project, cas, old, queues, gc>>

LookupMiss(b) ==
  /\ bld[b].pc = "lookup" /\ ~IsFresh(b)
  /\ Usable(bld[b].key, bld[b].env) = {}
  /\ Goto(b, AfterMiss(b))
  /\ UNCHANGED <<project, store, queues, gc>>

\* The keys `superseded` collects while the slot is released.
Superseded(b) ==
  LET p == ProjectOf[b] IN
  IF slot[p] = None \/ slot[p].key = bld[b].key THEN {}
  ELSE IF KeepVariants = 0 THEN {slot[p].key}
  ELSE {prev[p]} \ {None}

\* Faulty: the slot is given up in memory only.
ReleaseSlotUnsaved(b) ==
  /\ bld[b].pc = "release"
  /\ bld' = [bld EXCEPT ![b].sup = Superseded(b),
                        ![b].pc = IF bld[b].hit # None THEN "restore" ELSE "execute"]
  /\ UNCHANGED <<project, store, queues, gc>>

\* The slot is given up, and that is on disk, before any file is rewritten.  A
\* hit is then restored, a miss scheduled.
ReleaseSlot(b) ==
  LET p == ProjectOf[b]
      replaced == slot[p] # None /\ slot[p].key # bld[b].key IN
  /\ bld[b].pc = "release"
  /\ slot' = [slot EXCEPT ![p] = None]
  /\ prev' = IF replaced /\ KeepVariants # 0
             THEN [prev EXCEPT ![p] = slot[p].key] ELSE prev
  /\ bld' = [bld EXCEPT ![b].sup = Superseded(b),
                        ![b].pc = IF bld[b].hit # None THEN "restore" ELSE "execute"]
  /\ UNCHANGED <<src, target, file, linked, store, queues, gc>>

\* Faulty: nobody waits for the unit's lock.
TakeUnitLockShared(b) ==
  /\ bld[b].pc = "execute"
  /\ bld' = [bld EXCEPT ![b].pc = "lookup", ![b].held = TRUE]
  /\ UNCHANGED <<project, store, queues, gc>>

\* locks/<key>.lock, exclusive; then look again.
TakeUnitLock(b) ==
  /\ bld[b].pc = "execute"
  /\ \A c \in Builds \ {b} : ~HoldsUnit(c, bld[b].key)
  /\ bld' = [bld EXCEPT ![b].pc = "lookup", ![b].held = TRUE]
  /\ UNCHANGED <<project, store, queues, gc>>

\* Faulty: an output that is already there is left alone.
RestoreKeepsOld(b) ==
  LET p == ProjectOf[b] IN
  /\ bld[b].pc = "restore"
  /\ file' = [file EXCEPT ![p] = IF Bytes(p) = None THEN cas[bld[b].hit] ELSE file[p]]
  /\ bld' = [bld EXCEPT ![b].pc = "save", ![b].hit = None, ![b].held = FALSE]
  /\ UNCHANGED <<src, target, linked, slot, prev, store, queues, gc>>

\* Faulty: a blob that is gone goes unnoticed.
RestoreIgnoresError(b) ==
  LET p == ProjectOf[b] IN
  /\ bld[b].pc = "restore"
  /\ file' = [file EXCEPT ![p] = IF HasBlob(bld[b].hit) THEN cas[bld[b].hit] ELSE file[p]]
  /\ bld' = [bld EXCEPT ![b].pc = "save", ![b].hit = None, ![b].held = FALSE]
  /\ UNCHANGED <<src, target, linked, slot, prev, store, queues, gc>>

\* Place the blob at the output path; a blob that is gone fails the build.
Restore(b) ==
  LET p == ProjectOf[b] IN
  /\ bld[b].pc = "restore"
  /\ IF HasBlob(bld[b].hit)
     THEN /\ file' = [file EXCEPT ![p] = IF p \in Symlinked THEN bld[b].hit
                                         ELSE cas[bld[b].hit]]
          /\ linked' = IF p \in Symlinked THEN linked \cup {p} ELSE linked \ {p}
          /\ bld' = [bld EXCEPT ![b].pc = "save", ![b].hit = None, ![b].held = FALSE]
     ELSE /\ bld' = [bld EXCEPT ![b].pc = "missing", ![b].hit = None, ![b].held = FALSE]
          /\ UNCHANGED <<file, linked>>
  /\ UNCHANGED <<src, target, slot, prev, store, queues, gc>>

\* Known artifacts are unlinked, so rustc never writes through a shared inode.
StartCompile(b) ==
  /\ bld[b].pc = "compile"
  /\ file' = [file EXCEPT ![ProjectOf[b]] = None]
  /\ linked' = linked \ {ProjectOf[b]}
  /\ Goto(b, "rustc")
  /\ UNCHANGED <<src, target, slot, prev, store, queues, gc>>

\* rustc reads the sources as they are now, and starts writing.
RustcReads(b) ==
  /\ bld[b].pc = "rustc"
  /\ file' = [file EXCEPT ![ProjectOf[b]] = Torn]
  /\ bld' = [bld EXCEPT ![b].pc = "emit", ![b].rd = src[ProjectOf[b]]]
  /\ UNCHANGED <<src, target, linked, slot, prev, store, queues, gc>>

RustcEmits(b) ==
  /\ bld[b].pc = "emit"
  /\ file' = [file EXCEPT ![ProjectOf[b]] = Compile[bld[b].rd, bld[b].env]]
  /\ bld' = [bld EXCEPT ![b].pc = "store", ![b].rd = None]
  /\ UNCHANGED <<src, target, linked, slot, prev, store, queues, gc>>

\* A compile error: reported, and the unit is not recorded.
RustcFails(b) ==
  /\ "rustc" \in Crashes
  /\ bld[b].pc = "emit"
  /\ bld' = [bld EXCEPT ![b].pc = "failed", ![b].rd = None, ![b].held = FALSE]
  /\ UNCHANGED <<project, store, queues, gc>>

\* A big output is left to compaction: only its path goes into the queue, and
\* the unit lock is dropped.
DeferIngest(b) ==
  LET p == ProjectOf[b] IN
  /\ bld[b].pc = "store" /\ file[p] \in Large
  /\ jobs' = jobs \cup {[key |-> bld[b].key, project |-> p, inputs |-> bld[b].env]}
  /\ bld' = [bld EXCEPT ![b].pc = "save", ![b].held = FALSE]
  /\ UNCHANGED <<project, store, reg, rmq, spawned, gc>>

\* Hash, and place the blob unless the store has one of that digest.
Ingest(b) ==
  LET d == file[ProjectOf[b]] IN
  /\ bld[b].pc = "store" /\ d \notin Large
  /\ cas' = IF HasBlob(d) THEN cas ELSE [cas EXCEPT ![d] = d]
  /\ old' = IF HasBlob(d) THEN old ELSE old \ {d}
  /\ Goto(b, "merge")
  /\ UNCHANGED <<project, manifest, queues, gc>>

LoadManifest(b) ==
  /\ bld[b].pc = "merge"
  /\ bld' = [bld EXCEPT ![b].pc = "upsert", ![b].mem = manifest[bld[b].key]]
  /\ UNCHANGED <<project, store, queues, gc>>

SaveManifest(b) ==
  /\ bld[b].pc = "upsert"
  /\ manifest' = [manifest EXCEPT ![bld[b].key] =
       Upsert(bld[b].mem, [inputs |-> bld[b].env, blob |-> file[ProjectOf[b]]])]
  /\ bld' = [bld EXCEPT ![b].pc = "save", ![b].mem = {}, ![b].held = FALSE]
  /\ UNCHANGED <<project, cas, old, queues, gc>>

\* Storing failed: the build itself succeeded and stays project-local.
StoreFails(b) ==
  /\ bld[b].pc \in {"store", "merge", "upsert"}
  /\ bld' = [bld EXCEPT ![b].pc = "save", ![b].mem = {}, ![b].held = FALSE]
  /\ UNCHANGED <<project, store, queues, gc>>

\* units.json: the new key owns the output path.
SaveState(b) ==
  /\ bld[b].pc = "save"
  /\ slot' = [slot EXCEPT ![ProjectOf[b]] =
                [key |-> bld[b].key, inputs |-> bld[b].env]]
  /\ Goto(b, "finish")
  /\ UNCHANGED <<src, target, file, linked, prev, store, queues, gc>>

\* Another unit of the build failed: this one's record is saved and its output
\* stays, but the build returns the error before it registers.
OtherFails(b) ==
  /\ "other" \in Crashes
  /\ bld[b].pc = "finish"
  /\ Goto(b, "failed")
  /\ UNCHANGED <<project, store, queues, gc>>

\* Faulty: a project without a previous key lists it all the same.
RegisterUnfiltered(b) ==
  LET p == ProjectOf[b] IN
  /\ bld[b].pc = "finish"
  /\ reg' = [reg EXCEPT ![p] = {bld[b].key, prev[p]}]
  /\ Goto(b, "house")
  /\ UNCHANGED <<project, store, jobs, rmq, spawned, gc>>

\* The project lists its keys; the outcome runs; store.lock is dropped.
Register(b) ==
  LET p == ProjectOf[b] IN
  /\ bld[b].pc = "finish"
  /\ reg' = [reg EXCEPT ![p] = {bld[b].key} \cup ({prev[p]} \ {None})]
  /\ Goto(b, "house")
  /\ UNCHANGED <<project, store, jobs, rmq, spawned, gc>>

\* Queue the superseded keys nobody lists, and start a compaction if there is
\* something for it to do (a store over its cap is a reason of its own).
Housekeeping(b) ==
  LET p == ProjectOf[b]
      remove == bld[b].sup \ ({bld[b].key} \cup ProjectKeys(Projects \ {p})) IN
  /\ bld[b].pc = "house"
  /\ rmq' = rmq \cup remove
  /\ \E overCap \in BOOLEAN :
       spawned' = (spawned \/ ("compact" \in Collectors
                                 /\ (overCap \/ remove # {} \/ jobs # {})))
  /\ DropDead
  /\ bld' = [bld EXCEPT ![b] = NoBuild]
  /\ UNCHANGED <<project, store, jobs, gc>>

\* A failed build registers nothing and starts no compaction.
GiveUp(b) ==
  /\ bld[b].pc \in {"failed", "missing"}
  /\ bld' = [bld EXCEPT ![b] = NoBuild]
  /\ UNCHANGED <<project, store, queues, gc>>

\* A registration is written in place: half of one is not read, and lists nothing.
HalfRegistered(b) ==
  /\ bld[b].pc = "finish"
  /\ reg' = [reg EXCEPT ![ProjectOf[b]] = {}]

\* Killed: the locks go, the disk stays as it is.
Crash(b) ==
  /\ "build" \in Crashes
  /\ bld[b].pc # "idle"
  /\ reg' = reg \/ HalfRegistered(b)
  /\ bld' = [bld EXCEPT ![b] = NoBuild]
  /\ UNCHANGED <<project, store, jobs, rmq, spawned, gc>>

BuildStep(b) ==
  \/ TakeTargetLock(b) \/ TakeStoreLock(b) \/ Fresh(b) \/ FreshUnused(b)
  \/ LookupHit(b) \/ Touch(b) \/ LookupMiss(b) \/ ReleaseSlot(b) \/ TakeUnitLock(b) \/ Restore(b)
  \/ StartCompile(b) \/ RustcReads(b) \/ RustcEmits(b) \/ RustcFails(b)
  \/ DeferIngest(b) \/ Ingest(b) \/ LoadManifest(b) \/ SaveManifest(b)
  \/ StoreFails(b) \/ SaveState(b) \/ OtherFails(b) \/ Register(b) \/ Housekeeping(b) \/ GiveUp(b)

-----------------------------------------------------------------------------
(* `rb __compact`.  It only PROBES store.lock: between two probes builds may *)
(* start and run.                                                            *)

Compacting(pc) == "compact" \in Collectors /\ gc["compact"].pc = pc
NewGc(g, r)    == gc' = [gc EXCEPT ![g] = r]

\* Probed after the idle wait, and again at the head of the first job.
StartCompact ==
  /\ spawned /\ Compacting("idle") /\ ~StoreBusy
  /\ spawned' = FALSE
  /\ NewGc("compact", [NoGc EXCEPT !.pc = "ingest", !.todo = jobs])
  /\ UNCHANGED <<project, store, reg, jobs, rmq, bld>>

\* Another compaction is going, or the store is in use: the queue waits.
CompactGivesUp ==
  /\ spawned
  /\ \/ StoreBusy
     \/ "compact" \in Collectors /\ gc["compact"].pc # "idle"
  /\ spawned' = FALSE
  /\ UNCHANGED <<project, store, reg, jobs, rmq, bld, gc>>

NextJob ==
  /\ Compacting("ingest")
  /\ \E j \in gc["compact"].todo :
       NewGc("compact", IF StoreBusy THEN NoGc
                        ELSE [gc["compact"] EXCEPT !.pc = "check", !.job = j])
  /\ UNCHANGED <<project, store, queues, bld>>

CheckOutput ==
  /\ Compacting("check")
  /\ NewGc("compact", IF StoreBusy THEN NoGc ELSE [gc["compact"] EXCEPT !.pc = "hash"])
  /\ UNCHANGED <<project, store, queues, bld>>

\* The job is done with, whether it made a manifest or not.
JobDone(j) ==
  /\ jobs' = jobs \ {j}
  /\ NewGc("compact", [NoGc EXCEPT !.pc = "ingest", !.todo = gc["compact"].todo \ {j}])

\* Hash whatever is at the output path now.
HashOutput ==
  LET j == gc["compact"].job
      d == Bytes(j.project) IN
  /\ Compacting("hash")
  /\ IF d = None
     THEN JobDone(j)
     ELSE /\ NewGc("compact", [gc["compact"] EXCEPT !.digest = d,
                                 !.pc = IF HasBlob(d) THEN "merge" ELSE "place"])
          /\ UNCHANGED jobs
  /\ UNCHANGED <<project, store, reg, rmq, spawned, bld>>

\* The blob is a copy of what is at the path by then, under the hashed name.
PlaceBlob ==
  LET j == gc["compact"].job
      d == gc["compact"].digest IN
  /\ Compacting("place")
  /\ IF Bytes(j.project) = None
     THEN JobDone(j) /\ UNCHANGED <<cas, old>>
     ELSE /\ cas' = IF HasBlob(d) THEN cas ELSE [cas EXCEPT ![d] = Bytes(j.project)]
          /\ old' = old \ {d}
          /\ NewGc("compact", [gc["compact"] EXCEPT !.pc = "merge"])
          /\ UNCHANGED jobs
  /\ UNCHANGED <<project, manifest, reg, rmq, spawned, bld>>

\* Faulty: the job is taken off the queue before its manifest is written.
MergeLoadDropsJob ==
  /\ Compacting("merge")
  /\ NewGc("compact", [gc["compact"] EXCEPT !.pc = "upsert",
                         !.mem = manifest[gc["compact"].job.key]])
  /\ jobs' = jobs \ {gc["compact"].job}
  /\ UNCHANGED <<project, store, reg, rmq, spawned, bld>>

MergeLoad ==
  /\ Compacting("merge")
  /\ NewGc("compact", [gc["compact"] EXCEPT !.pc = "upsert",
                         !.mem = manifest[gc["compact"].job.key]])
  /\ UNCHANGED <<project, store, queues, bld>>

MergeSave ==
  LET j == gc["compact"].job
      e == [inputs |-> j.inputs, blob |-> gc["compact"].digest] IN
  /\ Compacting("upsert")
  /\ manifest' = [manifest EXCEPT ![j.key] = Upsert(gc["compact"].mem, e)]
  /\ JobDone(j)
  /\ UNCHANGED <<project, cas, old, reg, rmq, spawned, bld>>

IngestDone ==
  /\ Compacting("ingest") /\ gc["compact"].todo = {}
  /\ NewGc("compact", [NoGc EXCEPT !.pc = "plan"])
  /\ UNCHANGED <<project, store, queues, bld>>

-----------------------------------------------------------------------------
(* Garbage collection: by compaction, and by `rb store gc`, which holds     *)
(* store.lock exclusively.                                                  *)

\* Faulty: `rb store gc` does not wait for builds.
StartUserGcUnlocked ==
  /\ "user" \in Collectors /\ gc["user"].pc = "idle"
  /\ NewGc("user", [NoGc EXCEPT !.pc = "plan"])
  /\ UNCHANGED <<project, store, queues, bld>>

\* `rb store gc` gets store.lock once no build holds it.
StartUserGc ==
  /\ "user" \in Collectors /\ gc["user"].pc = "idle"
  /\ \A b \in Builds : ~HoldsStore(b)
  /\ NewGc("user", [NoGc EXCEPT !.pc = "plan"])
  /\ UNCHANGED <<project, store, queues, bld>>

\* The queue, and the keys of live projects.
GcPlan(g) ==
  /\ gc[g].pc = "plan"
  /\ NewGc(g, [NoGc EXCEPT !.pc = "scan", !.hot = ProjectKeys(Projects),
                           !.queued = IF g = "compact" THEN rmq ELSE {}])
  /\ DropDead
  /\ UNCHANGED <<project, store, jobs, rmq, spawned, bld>>

Units         == {k \in Keys : manifest[k] # {}}
BlobsOf(K)    == {e.blob : e \in UNION {manifest[k] : k \in K}}
\* Faulty: no key is pinned.
SymlinkedKeysNone == {}
SymlinkedKeys == ProjectKeys(Symlinked)

\* Units no live project lists go.  `rb store gc` may also drop listed units
\* for their age or the store's size, unless a project is symlinked to them.
GcScan(g) ==
  LET unused   == Units \ gc[g].hot
      droppable == IF g = "user" THEN (Units \cap gc[g].hot) \ SymlinkedKeys ELSE {} IN
  /\ gc[g].pc = "scan"
  /\ \E aged \in SUBSET droppable :
       LET drop == unused \cup aged IN
       NewGc(g, [gc[g] EXCEPT !.pc = "units", !.hot = {}, !.units = drop, !.blobs = Digests,
                              !.live = BlobsOf(Units \ drop), !.gone = BlobsOf(drop)])
  /\ UNCHANGED <<project, store, queues, bld>>

GcRemoveUnit(g) ==
  /\ gc[g].pc = "units"
  /\ \E k \in gc[g].units :
       /\ manifest' = [manifest EXCEPT ![k] = {}]
       /\ NewGc(g, [gc[g] EXCEPT !.units = gc[g].units \ {k}])
  /\ UNCHANGED <<project, cas, old, queues, bld>>

\* Next to builds, a recent blob no removed unit named may belong to a
\* manifest still to be written, and stays.
GcKeeps(g, d) ==
  \/ d \in gc[g].live
  \/ g = "compact" /\ d \notin gc[g].gone /\ d \notin old

\* One file of the walk over cas/, in any order.
GcSweep(g) ==
  /\ gc[g].pc = "units" /\ gc[g].units = {}
  /\ \E d \in gc[g].blobs :
       /\ cas' = IF GcKeeps(g, d) THEN cas ELSE [cas EXCEPT ![d] = None]
       /\ old' = IF GcKeeps(g, d) THEN old ELSE old \ {d}
       /\ NewGc(g, [gc[g] EXCEPT !.blobs = gc[g].blobs \ {d}])
  /\ UNCHANGED <<project, manifest, queues, bld>>

\* Compaction drops the queue entries it read and goes on while there are more.
GcFinish(g) ==
  LET left  == IF g = "compact" THEN rmq \ gc[g].queued ELSE rmq
      again == g = "compact" /\ left # {} /\ ~StoreBusy IN
  /\ gc[g].pc = "units" /\ gc[g].units = {} /\ gc[g].blobs = {}
  /\ rmq' = left
  /\ NewGc(g, IF again THEN [NoGc EXCEPT !.pc = "plan"] ELSE NoGc)
  /\ UNCHANGED <<project, store, reg, jobs, spawned, bld>>

CrashGc(g) ==
  /\ "gc" \in Crashes
  /\ gc[g].pc # "idle"
  /\ NewGc(g, NoGc)
  /\ UNCHANGED <<project, store, queues, bld>>

CompactStep ==
  \/ StartCompact \/ CompactGivesUp \/ NextJob \/ CheckOutput \/ HashOutput
  \/ PlaceBlob \/ MergeLoad \/ MergeSave \/ IngestDone

GcStep(g) ==
  \/ GcPlan(g) \/ GcScan(g) \/ GcRemoveUnit(g) \/ GcSweep(g) \/ GcFinish(g)

Next ==
  \/ \E p \in Projects : Edit(p) \/ Clean(p)
  \/ HourPasses
  \/ \E b \in Builds : Plan(b) \/ BuildStep(b) \/ Crash(b)
  \/ CompactStep \/ StartUserGc
  \/ \E g \in Collectors : GcStep(g) \/ CrashGc(g)

Spec == Init /\ [][Next]_vars

-----------------------------------------------------------------------------
(* Properties. *)

BuildPcs == {"idle", "planned", "target", "lookup", "touch", "release", "restore", "missing",
             "execute", "compile", "rustc", "emit", "failed", "store", "merge",
             "upsert", "save", "finish", "house"}
GcPcs    == {"idle", "ingest", "check", "hash", "place", "merge", "upsert",
             "plan", "scan", "units"}

\* Every variable stays in the domain the code gives it.
TypeOK ==
  /\ src \in [Projects -> Keys]
  /\ target \in SUBSET Projects
  /\ file \in [Projects -> Digests \cup {None}]
  /\ linked \in SUBSET {p \in Projects : file[p] # None}
  /\ slot \in [Projects -> Owner \cup {None}]
  /\ prev \in [Projects -> Keys \cup {None}]
  /\ reg \in [Projects -> SUBSET Keys]
  /\ cas \in [Digests -> Digests \cup {None}]
  /\ old \in SUBSET Digests
  /\ manifest \in [Keys -> SUBSET Entry]
  /\ jobs \in SUBSET Job
  /\ rmq \in SUBSET Keys
  /\ spawned \in BOOLEAN
  /\ bld \in [Builds ->
       [pc : BuildPcs, key : Keys \cup {None}, env : Inputs \cup {None},
        held : BOOLEAN, hit : Digests \cup {None}, rd : Keys \cup {None},
        mem : SUBSET Entry, sup : SUBSET Keys]]
  /\ gc \in [Collectors ->
       [pc : GcPcs, todo : SUBSET Job, job : Job \cup {None},
        digest : Digests \cup {None}, mem : SUBSET Entry, hot : SUBSET Keys,
        queued : SUBSET Keys, units : SUBSET Keys, live : SUBSET Digests,
        gone : SUBSET Digests, blobs : SUBSET Digests]]

\* A manifest entry whose blob is in the store serves exactly what compiling
\* that key with those inputs produces, whoever wrote, touched or merged it.
StoreSound ==
  \A k \in Keys : \A e \in manifest[k] :
    HasBlob(e.blob) => cas[e.blob] = Compile[k, e.inputs]

\* A build that reports success left its own artifact at the output path, or
\* (a link that garbage collection cut) none at all.
RightArtifact ==
  \A b \in Builds : bld[b].pc = "finish" =>
    Bytes(ProjectOf[b]) \in {None, Compile[bld[b].key, bld[b].env]}

\* units.json is right at every instant a crash could happen: the slot has an
\* owner only while the owner's finished output, or nothing, is at the path.
SlotCrashSafe ==
  \A p \in Projects : slot[p] # None =>
    Bytes(p) \in {None, Compile[slot[p].key, slot[p].inputs]}

\* A hit never fails: the blobs a lookup found are there when they are placed.
HitsMaterialize == \A b \in Builds : bld[b].pc # "missing"

\* A project built with symlinks keeps its output as long as it lists its key.
LinksAlive ==
  \A p \in linked :
    slot[p] # None /\ slot[p].key \in reg[p] => HasBlob(file[p])

\* The unit lock makes other builds reuse the first one's work: nobody compiles
\* what the store already has.
WorkShared ==
  \A b \in Builds : bld[b].pc \in {"compile", "rustc", "emit"} =>
    Usable(bld[b].key, bld[b].env) = {}

\* A deferred output leaves the queue only once its manifest is written, or
\* when there is no output any more: compaction may be killed at any instant.
DeferredNotLost ==
  [][\A j \in jobs \ jobs' :
       \/ \E e \in manifest'[j.key] : e.inputs = j.inputs
       \/ Bytes(j.project) = None]_vars

=============================================================================
