# Verification of rb

TLA+ models of [rb](../src/README.md), a Rust build tool with its own scheduler
and a content-addressed store that every project on a machine shares, with TLC
configurations that check them on small instances and TLAPS proofs about them.

    tlc -workers 2 -config store_builds.cfg MCSharedStore     # any run: <run>.cfg with its MC module
    tlapm SchedulerProofs.tla                                 # a module of proofs

`PROJECT.json` lists the runs, what each definition was translated from (`map`),
the disagreements found between code and comments (`findings`), and what is hard
to test in this code (`hazards`).  Paths below are under `src/crates/`.

## 1. The system

| part | state it keeps | operations | talks to |
|---|---|---|---|
| build driver, `rb-core/src/build.rs` `run`, `execute`, `housekeeping` | `target/rb/.state/units.json` (`ProjectState`: which key owns which output name), the lock on the build directory | decide fresh / cached / miss, release slots, restore hits, schedule misses, save, register, queue removals, spawn compaction | store, scheduler, registrations |
| scheduler, `build.rs` `schedule` | requirement counters, ready heap, job tokens, running and storing units, an unbounded channel | dispatch, ask for tokens, handle Token / Meta / Unlocked / Done / Stored | a thread per unit, the jobserver's helper thread, rustc |
| unit execution, `rb-core/src/exec.rs` | per-unit lock, build-script results | lookup, restore, compile, run a build script, read dep-info, store or defer outputs | store, rustc |
| store, `rb-store/src/cas.rs`, `manifest.rs`, `lock.rs`, `link.rs` | `cas/`, `units/`, `queue/`, `locks/`, `store.lock`, `compact.lock`, `size.json` | ingest, materialize, manifests, aliases, queues, expand, compress | every build, compaction, gc |
| garbage collection, `rb-store/src/gc.rs` | none | select units, remove them, sweep blobs, compress, verify | store |
| compaction, `build.rs` `compact`, `exec.rs` `finish_deferred_ingests` | the deferred queue | hash deferred outputs, collect, pack incremental directories | store, beside builds |
| registrations, `build.rs` `register_project`, `project_keys` | `~/.rb/projects/<id>.json` | register, list live keys, drop dead projects | gc, housekeeping |
| build directory over time, `build.rs` `sweep_target`, `rb-store/src/archive.rs` | `units.json` slots, previous keys and last uses; `*.pending`, `*.tar.zst` beside incremental directories | sweep variants, move caches aside, pack, unpack, prune, clean | compaction, compile |
| keys, `rb-core/src/plan.rs`, `srchash.rs`, `build.rs` `rekey` | predictions (`~/.rb/predict`), the hash cache | hash what a unit is known to read, learn more while compiling, move the results to the keys of the next build | build driver, every checkout |
| plan, `plan.rs`, `profile.rs`, `unit.rs` | none | units, profiles, LTO, names, requirements | build driver, scheduler |
| features, `features.rs`, `cfgexpr.rs` | none | a queue of tasks to a fixpoint | resolution, unit graph |
| resolution, `resolve.rs`, `lockfile.rs`, `workspace.rs` | `Cargo.lock` | version selection in rounds, reuse of locked versions, `rb update` | registry |
| sources, `registry.rs`, `git.rs`, `rb-toolchain/src/download.rs` | `~/.rb/registry`, `~/.rb/git` | fetch with etags, download, unpack, clone, check out, resolve references | resolution |
| installs and manifest edits, `build.rs`, `manifest.rs`, `workspace.rs` | `bin/`, `.rb-install.json`, `Cargo.toml`, `Cargo.lock` | install, uninstall, add, remove | build driver, resolution |
| everything else | | TOML, configuration, messages, locating tools, running tests and binaries | |

What is hard here, and what would make each part correct:

* **The store is shared by processes that know nothing of each other.**  Builds of
  one project exclude each other by the build directory's lock; builds of
  different projects share only the store and a lock per unit; `rb store gc`
  excludes builds; compaction excludes nobody and only *probes* the lock.
  Correct: a hit yields what compiling would have yielded, two builds do not
  repeat each other's work, nothing in use is collected.
* **Any process may be killed anywhere.**  Correct: `units.json` never credits a
  key with files it does not describe; a queued output is not forgotten.
* **State read early and used late.**  Keys are planned before the locks; the
  manifest is read, changed and written without a lock; outputs are hashed after
  the build that made them has gone.
* **Events of many threads in any order.**  Correct: a unit starts after what it
  needs and is started once; counters of type `usize` never wrap; the loop neither
  hangs nor leaves early; job tokens are conserved; a failure stops or does not
  stop the build as the flags say.
* **What a unit depends on is learnt after it was compiled**, and shared by every
  checkout.  Correct: an undisturbed build leaves what a clean one would, and the
  next one has nothing to do.
* **Algorithms with fixpoints, rounds and sharing** (features, resolution, the unit
  graph, LTO): correct against a declarative definition, whatever order they
  happen to work in.
* **Files without locks** (index, packages, git, installs, manifests and lock files):
  correct if nothing half-written passes for whole, a failure does not stay, and two files
  that are written one after the other end up fitting each other.

## 2. The modules

| module | what it is |
|---|---|
| `SharedStore` | the store and the processes on it: builds, compaction, `rb store gc`, edits, `rb clean`, kills |
| `MCSharedStore` | its instances for TLC: who builds what, compiler tables, symmetries |
| `SharedStoreProofs` | the shape of every reachable state of `SharedStore`, proved |
| `SharedStoreSoundness` | what the store serves, shares and keeps alive, proved |
| `Scheduler` | one build's scheduling loop, its threads, the jobserver and the channel |
| `BuildOrder` | what the scheduler promises: dependency order, job limit, stop at the first error |
| `MCScheduler` | unit graphs for TLC |
| `SchedulerProofs` | theorems about `Scheduler` for every unit graph: order, counters, tokens, the verdict at the end, and that it implements `BuildOrder` |
| `PackageGraph` | package ids, requirements, patches, `Cargo.lock` as it is written and read |
| `Features` | the feature engine: its queue, in lock and in build mode |
| `Profiles` | profile tables of files and environment, inheritance, overrides |
| `Resolve` | from `Cargo.lock` to a loaded package graph, in rounds; `rb update` |
| `UnitGraph` | selection of targets, the closure of units, collisions, sharing of host units |
| `Plan` | LTO, what is hashed, names, the requirements the scheduler gets |
| `Planning` | the five above as one command, and what must hold of their results together |
| `MCPlanning` | a catalogue of packages; workspaces, locks, profiles and commands |
| `PlanningProofs` | names, requirements, copies and panic strategies in every plan, and the features of every graph, proved |
| `Freshness` | keys, predictions, lookup, compiling and rekeying, over many builds of several checkouts |
| `MCFreshness` | a library with a build script, a program; what may be edited when |
| `FreshnessProofs` | what a build leaves is current, and building again compiles nothing, proved |
| `TargetDir` | one build directory over many builds: variants, sweep, incremental caches |
| `MCTargetDir` | one crate with three variants, one with one |
| `Sources` | the index cache, unpacked packages, git references |
| `Installs` | installed binaries and the list of them |
| `Edits` | `rb add` and `rb remove`: a manifest and its lock file |
| `Home` | the three above, for one run |
| `MCHome` | who asks for what, and what may go wrong |
| `SourcesProofs` | the index, references, packages and failures of `Sources`, proved |
| `TargetDirProofs` | the record, the promise and the caches of `TargetDir`, proved |
| `HomeProofs` | what `Installs` and `Edits` promise, proved |

How they fit.  `Planning` ends with what `build.rs` starts from: units, names and
requirements.  `NeedsAgree` is what `SchedulerAssumption` assumes of the requirements.
`Scheduler` sees all units of one build and treats an execution as a thread that
succeeds, fails, is restored late or fails late.  `SharedStore`, `Freshness` and `TargetDir`
look at the same build from three sides and each abstracts the other two:
`SharedStore` has one unit per project, given keys, and every step of the store's
protocol; `Freshness` has several units and checkouts, a store whose operations are
atomic, and everything that goes into a key; `TargetDir` has one directory, variants that
come and go, and a store of which only the presence of outputs matters.  `Home`
is what the others find in place.

### SharedStore

State and code: `file`, `linked` are the output path under `target/`; `slot`, `prev`
are `ProjectState.slots` with the record of its key, and `ProjectState.prev`; `reg` is the
project's file in `~/.rb/projects`; `cas`, `manifest`, `jobs`, `rmq` are `cas/`,
`units/`, `queue/ingest-*` and `queue/rm-*`; `old` tells blobs whose mtime is more than an
hour back.  `bld` and `gc` hold each process's program counter and locals
(`mem` is a manifest read and not yet written back; `sup` is `superseded`).  A
lock is held exactly during a range of program counters, as the guards `HoldsTarget`,
`HoldsStore` and `HoldsUnit` say, and dies with its holder: they are OS file
locks.

A build is `Plan` (no lock), `TakeTargetLock`, `TakeStoreLock`, then `Fresh`, or `FreshUnused` for a unit
whose manifest is to be marked used (the same unlocked write-back as a lookup's), or
`LookupHit`/`LookupMiss` (with `Touch`, the write-back of `last_used`), `ReleaseSlot`,
and for a miss `TakeUnitLock` and a second lookup, `StartCompile`,
`RustcReads`, `RustcEmits`, and `DeferIngest` or `Ingest`, `LoadManifest`, `SaveManifest`;
at the end `SaveState`, `Register`, `Housekeeping`.  `OtherFails` stands for a failure in another
unit of the same build: this unit's record is saved, and the build ends without
registering (build.rs:2625-2646).  Each is one system call's worth of effect on shared
state.  Compaction is `StartCompact`, one `NextJob` … `MergeSave` round per queued
output, then `GcPlan`, `GcScan`, `GcRemoveUnit`*, `GcSweep`*, `GcFinish`; `rb store gc` is the
same collection under the exclusive lock, which may also drop live projects' units for age or size.

Abstractions: one unit with one output per project; a source version and its key
are one value; a digest is the content it was computed from (blake3 taken as
injective); extra inputs (`env!`, files outside the package) are one value; an output
that is not a symlink is a private copy (reflinks are; hardlinks are, because rb
unlinks before rustc writes); disk errors other than a missing file or a failed
ingest are left out; the eight-entry limit of a manifest is not reached.

### Scheduler

State and code: the loop's variables carry their names in `schedule` (`sat` is
the third component of `dependents`, `metaSeen` is `meta_seen`, `recorded` the units given
to `ProjectState::record`); `chan` is the crossbeam channel; `asked` the helper thread's
backlog; `pool` the jobserver pipe; `th[u]` where the thread of `u` stands in its closure;
`typed` and `built` are the metadata and outputs on disk, which no code variable
holds but dependents rely on.  `AskAndWait` is everything between the break test and `recv`.
A thread's actions keep the order the closure sends and drops in, which differs
between success (token, `Unlocked`, dep-info, `Done`, `Stored`) and failure (`Done`, then token).

Abstractions: priorities are timing guesses, so any ready unit may be next; rustc's
own draws from the jobserver are not modelled; the requirements of a unit are given
(`NeedsAgree` of `Planning` shows that they are well-formed); a jobserver pipe that fails is left out.

`BuildOrder` keeps five sets and says what a build may do; `Scheduler` implements it
under the mapping at its end (started: thread left "idle"; busy: thread holds its token).

### Planning: PackageGraph, Features, Profiles, Resolve, UnitGraph, Plan

State and code: `graph` is `resolve.rs`'s `Graph` (nodes, index summaries, loaded manifests,
edges); `eng` the feature engine with its queue; `lock` the file `Cargo.lock`; `prefs`
the versions to prefer; `phase`, `todo`, `relocked` where `Workspace::load` and `resolve_features`
stand; `units`, `roots`, `aux`, `profile`, `alias` are `unit.rs`'s graph, the
profile each unit was given when it was interned, and the map
`share_host_units` keeps while it works; `lto` and `stack` the map and the recursion of
`propagate_lto`; `content` and `hash` what `plan.rs` fed to the hasher, and the number that
stands for the digest; `libs` the libraries `collect_lib_reqs` finds behind each unit.  A command's steps are the
iterations of the code's loops: one task of the feature queue, one round of resolution, one package loaded, one
unit interned (the code interns one after the other and memoizes; which comes first does not matter), one
host unit looked at, one call of `propagate_lto`, one unit planned.  `stack` has the calls of `propagate_lto` that are still to
make, in batches: what one unit tells its dependencies comes before what is left of the batch it was in.

`world`, chosen at the start, is what the command meets: members, lock, profiles,
patches, command line, platforms, which index entries are yanked or too new.
Versions are numbers, a requirement is the set of those it accepts, a platform
condition the set of platforms it holds on.  A hash is equal for equal
contents and new otherwise.  What the code computes by a loop over a growing set (`prune`, `transitive_names`)
is `LeastAbove`, a recursive function.

`FeaturesAreLeast` compares the engine with `Closure`, the least set closed under the
rules of features, defined without a queue.  The engine's queue is a sequence of batches, each what one task asked for: the code's order
between tasks is kept and within a batch one is chosen, which the property shows not to matter; `LockReadsBack` compares the graph with
the one its rendered lock imports to.

### Freshness

State and code: `now` are the files of each checkout; `pred` `~/.rb/predict`; `store` the
entries of all manifests; `disk` the outputs under each `target/`, `saved` each
`units.json`, `proc` each build with the plan it made (`Planned`), the records in memory
and the trees it hashed.  `Start` plans, `CheckUnits` is the decision with restores,
`Compile` and `RunScript` run something that reads the files *as they are then*, `Attach` is
`attach_discovered`, the prediction's update, the record and the store, `RekeyCheck` to
`SaveRekeyed` are `rekey`.

Planning is a function of the predictions, the files and the environment (`PlanFor`), so that the plan of a
build and the one `rekey` makes later are the same operator of other arguments.

rustc and the scripts are the constant `Reads`: which files and variables each looks
at, which may depend on contents.  An output is the record of everything that went
into it, so `BuiltIsCurrent` says that the bytes are right, not that keys match.  Not in this model:
the store's protocol (`SharedStore`), jobs and tokens (`Scheduler`; any ready unit may run,
also before the metadata's producer is attached, as pipelining allows), and the
read-modify-write of a prediction, which is one step here.

### TargetDir

State and code: `units` is `units.json` with slots, previous keys and last uses; `out` what lies
under `deps/`; `inc`, `pend`, `arch` an incremental cache as the directory rustc uses, as
`<name>.pending` and as `<name>.tar.zst`; `lock` the inode of `target/rb/.lock`, because `rb clean`
removes that file too.  `clock` orders uses; `DaysPass` jumps past `keep-unused-days`.
`promise` (what README's keep-variants says is still there), `last` and `spoilt` are ghosts.
`Promised` gives a variant the version just built and the one it replaced; `StillPromised` is what a kill or a
failed build leaves of that (the version its record still names: `prev` is one deep, and is taken when the slots are
released), and a sweep takes back what `Kept` does not keep.

Compaction takes no lock that a build takes, and neither does it here: `Probe` tries the store's lock and lets go of
it, `ReadKeys` reads the registration (half of one, if a build is writing it: then nothing is listed), `LoadUnits` lists the store,
`RemoveUnit` removes what is not listed, one by one, and builds may start and end anywhere between.  `beside` notes that
one ran after the probe; what `RemoveUnit` then takes away is promised no more, since the code does lose it (section 3).

A cache is a session and the set of parts it has; unpacking and removing go part by part.
`spoilt` takes a cache out of `CacheComesBack` when it was cleaned or pruned, or when compaction
was killed or overtaken while packing it, also by a session that writes the cache anew in between: the code
gives nothing there (below).

### Sources, Installs, Edits, Home

State and code: `body`, `etag` the two files of an index entry, `site` the server's; `archive`,
`objs`, `dir`, `staging` the downloaded archives, the git mirrors, the package directories
(a set of parts, among them the marker `.rb-ok`) and the staging directories, named for their process;
`work` the threads of `load_packages`; `refs`, `head` a mirror's branch and `FETCH_HEAD`.
`streak` counts the failures of processes that had the home and a working network
to themselves.  git is external: a mirror's objects change at once, and a mirror that a killed `git init` left
half-made, which the code tells from a whole one by its `HEAD` alone (git.rs:48), is not among the things
`FailsOnce` is about; nor is a branch deleted on the server among those of `ResolvedRight`.

In `Installs`, `release`, `bin`, `list` are install-target's binaries, the installed ones and
`.rb-install.json`; `user` where each process stands in `install` or `uninstall`.  Commands take no lock but the one of
the build inside, so any number may be at it: a copy is begun (`Copy`, which truncates the file) and ended
(`Copied`), the list is read in one step (`ReadList`, `Uninstall`) and written in another (`WriteList`, `Unlisted`), and
what two do to one file at once may leave a mixture, `Torn`.  `kept` are the binaries an install copied with nobody else at
the file since, `crossed` says that another command had read the list before this one wrote it; `owed`, the ghost
the property is about, gains the `kept` of an install that was not crossed and loses what a later command overwrites or removes.

In `Edits`, `text` is `Cargo.toml` as a function of its dependencies to the versions their lines accept, `lock`
`Cargo.lock` as one to versions.  `editor` goes from the first load, which may write the lock file too, through reading
and writing the manifest to the second load, and to writing the old text back if that fails.  A write may fail or be killed half-way
(`Cut`); the failed write of the manifest is not undone and that of the old text is told nobody, as in the
code.  `Relocks` is all that `SelectLocked` and `SelectNewest` of `Resolve` could come to: what is locked and still accepted
stays, the rest is anything that fits.  `sure` says that nothing else came across a command and its writes of the lock file succeeded.

The parts share no state and a behaviour is about one of them (`rules.part`); `rules.crowd` lets commands run at once.

## 3. The runs

Deadlock is checked in the runs that end in an explicit `Stop` (scheduler, planning);
the processes of the others may all be idle with nothing to do, so they switch that
check off.

| run | instance | properties |
|---|---|---|
| `store_builds` | 2 projects, a build each, 2 versions, builds killed | RightArtifact, WorkShared |
| `store_one_target` | 1 project, 2 builds, 2 versions, 2 inputs, keep-variants 1, builds killed, errors in this unit or another | StoreSound, SlotCrashSafe |
| `store_symlinks` | 1 symlinked project, 2 versions, keep-variants 1, `rb store gc`, builds killed or failing before they register | LinksAlive, HitsMaterialize |
| `store_deferred` | 1 project whose output is always big, compaction killed anywhere | TypeOK, DeferredNotLost |
| `scheduler_failures` | 3 units in a chain, one pipelined, 2 jobs, --keep-going, each may fail, misread its dep-info or be restored late | TypeOK, DepsFirst, TokensConserved, WaitsExact, StoringExact, ExitHonest, ImplementsOrder, Terminates |
| `scheduler_one_job` | 3 units, two waiting for one, which may misread its dep-info, -j 1, each may fail | NoTokenHoarded, StopsAtError, ReadyStarts |
| `planning` | 144 worlds: a workspace of up to 3 members over a catalogue of 8 crates, commands, profiles, locks, patches, updates, cross builds, documentation | FeaturesAreLeast, LockReadsBack, LockedStay, NothingMissing, OneCopy, LtoServes, NamesTell, NeedsAgree, HostUnwinds, Ends |
| `freshness` | 3 units of 2 packages, 2 checkouts, 3 builds, 4 sets of disturbances | BuiltIsCurrent, NothingRedone |
| `target` | 2 crates, 4 variants, up to 4 builds, compaction in steps, 6 sets of disturbances | SlotsHonest, PromiseKept, CacheComesBack |
| `home` | 2 processes, 2 threads, 2 items; 4 packages, of which two have a binary of one name; 2 dependencies; 9 sets of requests and disturbances | IndexCurrent, SourcesWhole, FailsOnce, ResolvedRight, InstalledIsThere, LockFits |
| `stale_deferred_output` | as `store_deferred`, 2 versions | StoreSound: violated |
| `first_builds_share` | 2 checkouts at once, the first build of both, 2 environments | BuiltIsCurrent: violated |

Bounds, and why they suffice.  The store's and the scheduler's runs have no bound but their
constants: builds run again and again, and every instance is explored completely.  Two
versions are what an edit and its revert need; two builds are what any pairwise
race needs.  Three units in a chain give a dependent with two
requirements on units that are themselves ordered, one met by metadata, one by the final
output; side by side they make two ready units compete for one token.

The other machines have ever new contents, clocks and processes, so they carry
counters, in `rules` and `count` (`TargetDir`), `left` (`Sources`), `builds` and
`edits` (`Freshness`).  `rules` is a record chosen at the start from the set
`Rules`, so that one run covers several kinds of disturbance without their product:
*InTurn* (edits of sources, of a file outside, of the environment, between builds),
*Steady* (two builds at once), *Killed*, *Edited* (edits while building).  Three builds are
learn, use, notice a change; four builds of a directory are two variants
parked, one of them back, and one more to push it out (`keep-variants` is 1, one archive per crate).
`planning`'s worlds are each finite by themselves; what
they contain is listed in `MCPlanning` with its purpose.  `home` lets the index be killed twice and
packages once, each followed by enough runs to meet what the kill left.
Installs and edits have no bound but their constants: of packages with binaries of their own and of one dependency two processes are
about at once, of packages that share a name and of two dependencies one after the other; kills come at any moment, and edits by hand where commands run at once.  Symmetry (of versions, and in `home` of
processes and of the two packages that share nothing) is used only in safety runs.

Fairness.  `FairSpec` of `Scheduler` is weak fairness of the loop, of the helper thread and of every
unit's thread: they are OS threads, and rustc, build scripts and disk operations
are taken to end.  Nothing is assumed about which event or token comes first.
`Progress` of `Planning` says that the command, a single thread that waits for nobody,
goes on while it can.  `ReadyStarts`, `Terminates`, `Ends` and `ImplementsOrder` use these; the
rest is safety.

### What the code does not do

Two runs end in a counterexample to a sentence of the repository (`findings` has the
quotes):

* `stale_deferred_output`: outputs of 8 MiB and more are queued by *path* and hashed
  15 s or more later.  Rebuild with another source first, and the manifest of the old key
  serves the new artifact.
* `first_builds_share`: keys know the inputs outside a package only after a first compile.
  Two worktrees that build a library with `env!` for the first time, at once, under
  different values plan equal keys; the library itself is told apart at lookup, the
  program that links it is not, and one worktree gets the other's program.

More can be seen in the same models by changing constants of a run, or, where it
says so, with a property that no run checks:

* `store_symlinks` with one key, `Symlinked = {}`, `Collectors = {"compact"}`, nothing killed and
  `HitsMaterialize`: compaction tries `store.lock` and lets go of it (build.rs:2304).  After `rb clean` the
  project's units are listed by nobody; the next build, if it starts after the probe, finds one of them, and
  compaction sweeps it before it is placed: the build fails for a blob that is not there.
* `store_symlinks` with one key, `Crashes = {"gc", "other"}` and `LinksAlive`: a build that fails in one unit saves
  the records of the others and does not register (build.rs:2625-2646).  `rb store gc` removes the manifest of such a
  unit (gc.rs:155) and is killed before its sweep.  The next build takes the symlink for fresh and registers its key,
  which has no manifest any more; the next `rb store gc` takes the blob for an orphan, and the output
  of a live project is gone, where gc.rs:83 says of pinned keys "Survive no matter what".
* `store_builds` with one key, two inputs, `Symlinked = {p2}`, `Collectors = {"user"}`, no crashes and
  `LinksAlive`: the lookup's write-back of `last_used` (exec.rs:215) is a read-modify-write without the
  unit's lock; an entry another project's build has just added is lost, and at the next
  `rb store gc` the blob a symlink points to.
* `freshness` with `Rules <- EditInRekey`: a file edited in the middle of `rekey` is taken
  over for units whose own key does not change (build.rs:3043), against "Only valid if nothing changed
  mid-build" (3046).  With `Rules <- EditInBuild`: an input outside the package is hashed after
  rustc has read it (exec.rs:620), so an edit in between counts as compiled.
* `freshness` with `Rules <- Fickle`: whether a script declared its inputs is known of its latest run
  only (plan.rs:92), and then the key names just the files it ever declared.  A script that stops
  declaring, and reads more, is stored under such a key; when it declares again and the declared file comes back to
  that content, the entry is served although the other file has changed.
* `freshness` with `Rules <- KilledLearning`: dependents are released before a unit's dep-info is read (exec.rs:598), so one
  can be stored before what its library reads outside its package is remembered.  Killed in between, nobody
  remembers it, and a build under another environment finds the dependent's entry under its key.
* `home` with `Rules <- SameCommit`: two packages of one git commit are checked out by two threads into
  one staging directory, named for the process alone (git.rs:126); SourcesWhole fails.
  With `Rules <- Together`: two processes can pair an old index body with a new etag
  (registry.rs:246-251), and read each other's `FETCH_HEAD` (git.rs:99-101).
* `home` with a `ReadList` and a `WriteList` that keep `owed` whoever else is at the list, and InstalledIsThere: two installs read the
  list one after the other and write it one after the other (build.rs:814-820), and the first one's entry is gone: its binaries stay in `bin/`
  and `rb uninstall` does not know the package.
* `home` with a LockFits that does not ask for `sure`: two `rb add` overwrite each other's manifest (build.rs:481-487),
  or the one puts back a text from before the other (493); a lock file whose writing failed half-way stays so (workspace.rs:594).
* `target` with a second builder and `Rules <- CrowdRules`: `rb clean` removes `target/rb/.lock`, and a build that
  starts then locks another inode than one still running; SlotsHonest fails.
* `target` without the line of `Promised` about keys that are not in `stored`: PromiseKept fails.  A build that
  fails in another unit saves the record of what it compiled and does not register it (build.rs:2625).  Compaction
  drops that output; the next build takes the unit for fresh and registers a key the store does not have; an edit and
  its revert then compile, against "One revert is a hit" (build.rs:168).
* `target` with a `RemoveUnit` that leaves `promise` and `owed` as they are, and PromiseKept: compaction tries the lock (build.rs:2304),
  reads the registration while a build runs that will only register its keys at its end, and then removes the units
  that build has just stored (gc.rs:131-158).  The revert that keep-variants promises compiles.  The same without `KillEnding`'s second
  half: a registration is rewritten in place (build.rs:3244), and one that is cut short lists nothing, so that the next compaction
  removes all that the project has in the store.
* `target` with one variant, `Rules` of 5 builds, 4 edits and a kill, and a `Kill` that leaves `promise` as it is:
  a build killed after it released its slots has put the version it was to replace in `prev`, over the one before.
  If that version comes back with the next build, the record names it twice (slot and `prev`), the other is
  listed by nobody, and the next revert compiles.
* `planning` with `Worlds <- TestWorlds` and `TestsLink`: where a profile says `panic = "abort"`, `rb test` compiles
  test harnesses to unwind (unit.rs:225) and the libraries under them to abort, which rustc does not
  link; cargo lets a test's libraries unwind too.
* `planning` with `NamesDistinct`, fails in the worlds `Alike`: only libraries that are built, and runs of scripts, are shared between
  host and target (unit.rs:684-690), but a library that is only checked hashes alike for both sides, so a plan has two units
  that write the same files.  A script whose owners on the two sides have equal features
  and differ in their optional dependencies is compiled twice under one name (unit.rs:394), where the comment says
  "Cargo keys units by features" (unit.rs:392).  The two compilations are the same, so that `NamesTell` is what matters.
* `planning` with `Worlds <- Widening` and `LockedStay`: a dependency takes the package that the graph already has
  (resolve.rs:460) before the locked one.  If the dependent that brought that package in later turns to a newer one, the lock has
  been left for a version that only this choice keeps in the graph.
* `planning` with a `[profile.dev.package.tool]` that says `lto = "off"` under a profile that says `"fat"`, and LtoServes:
  `apply` takes `lto` from tables for packages (profile.rs:185), which cargo refuses.  What one program passes on as
  off then wins over what the other asks of the same library, whose link is an LTO link and finds no bitcode.
* `LtoServes` without `Static`: a library that is only a `dylib` or a `cdylib` is no consumer to
  `propagate_lto` but an artifact; what is behind it need not carry what the program's link wants.
* `store_one_target` with `MidBuildEdits = TRUE`: a source saved between planning and rustc's reading is
  stored under the old key (StoreSound, SlotCrashSafe).

And some that reading for the models showed:

* Hashing the files of a dep-info comes after the job token and the dependents are released, and can fail the
  unit: `-j 1` then builds on, against the comment at build.rs:2888.  `StopsAtError` speaks
  of failures that are reported while the token is still held, as the comment means it.
* `rb` does not report a cycle of dependencies between units: the plan hashes the keys of a unit's dependencies
  into its own and fails on an `unwrap` (plan.rs:520-536).  The scheduler may therefore assume a ranking
  of the units (`SchedulerAssumption`).
* `rb uninstall` removes the files its list names, also one that another package has since overwritten
  with `--force` (build.rs:860-866).
* Of documentation units with the same output, the comment at unit.rs:615 keeps the target's
  when there is a `--target`; without one all that are not roots are dropped.
* A `[patch]` by a path outside the workspace resolves again on every command, so that `--locked`
  always fails (resolve.rs:258, workspace.rs:478).
* `--features dep/feat` on the command line for an optional dependency nothing else turns on ends in
  "not in Cargo.lock": locking does not see the command line.  (Hence `Locals` in NothingMissing.)
* `rb update foo@1` forgets every locked version of foo.
* Incremental caches packed while a build takes them back, or by a compaction that is
  killed between publishing and removing `.pending`, can come back in part (`spoilt`).
* The installs share one target directory: an install without `--bin` copies what other packages
  left there, and lists it as its own; an install of another binary of the package forgets the first in the list.
  `InstalledIsThere` follows each binary to what lay in the directory when it was copied.
* A manifest whose writing fails (build.rs:487, 646) is not put back, and when the second load fails and the old text cannot
  be written either, the command says only why the load failed (493, 652).  `--locked` is not heeded by the first load of
  `rb add` and `rb remove` (425, 615), which may write the lock file; and what `rb remove` removed stays in the lock file, which
  still covers what is left, until something else resolves anew.
* A mirror that a killed `git init` left with a `HEAD` and nothing else counts as initialised (git.rs:48).
* In `TargetDir` an output is one key's.  Two keys whose outputs are the same bytes share a blob, and a compaction that removes the one's
  unit, having listed the units before a build beside it stored the other's, sweeps the blob of both (gc.rs:162-181).
* With deferral, a build waiting for the unit lock compiles again, since `DeferIngest` drops the
  lock with nothing stored.  A compaction that finds another one past its ingest phase gives up, and the queue
  stays until a later build starts one.
* The comment at `rb-store/src/gc.rs:87` says that blobs of units outside `hot` get
  compressed; line 139 removes all such units unless they are pinned, and pinned ones stay
  plain (196-198), so nothing is ever compressed.  That part of `gc` is left out.

`store_symlinks` kills builds but not the collector; with both, a link can be cut as above.

## 4. The proofs

`SchedulerProofs` proves, for every finite unit graph, job count and choice of
failing, misreading and late-restored units (`SchedulerAssumption`, which TLC
evaluates in the scheduler's runs):

* `TypeCorrect`: `Spec => []TypeOK`.  `waits[u] \in Nat` is the part that matters: the
  code decrements a `usize`.
* `CountersExact`: `Spec => []WaitsExact`.
* `DependenciesFirst`: `Spec => []DepsFirst`.

None of them is inductive alone.  The invariant `Inv` adds to the three:
what each event in the channel says about the disk (a `Meta` in the channel means the metadata is
written, an `Unlocked` that the outputs are complete), that a
thread past rustc has completed its unit, and that a satisfied requirement is met on
disk.  The argument: a requirement is marked in `sat` only while an
event is handled; events carry the truth from thread to loop; the disk facts
are never retracted; so when the counter, which is exactly the number of unmarked
requirements, reaches 0, all requirements hold, and the unit enters the heap once
because its counter passes 1 only once.  `Invariance` shows
`Spec => []Inv`, one step per action.

`SharedStoreProofs` proves `StoreTypes`, `Spec => []TypeOK`, for any number of
projects, builds, keys and inputs, either or both collectors, edits during builds,
deferred outputs, and kills.  The types rest on the lock of the build directory: that
a build about to store an output finds a finished one at its path holds only because no
other build of the project is past that lock.  So `Shape` adds `OneHolder`
(the exclusion), and per process what it must know in a phase: a key once planned, a hit
once found, a digest once hashed.

`SharedStoreSoundness` proves the cache right: `StoreServesItsKey`
(`[]StoreSound`), `SlotSurvivesCrash` (`[]SlotCrashSafe`) and `SuccessIsItsOwn`
(`[]RightArtifact`), again with kills anywhere and both collectors.  It assumes
`Quiet`: no outputs of 8 MiB and more (`Large = {}`) and no edits while a build runs.
Both are needed: `stale_deferred_output` breaks StoreSound without the first, and
`MidBuildEdits = TRUE` does without the second.  The invariant `Sound` says
that entries on disk *and in the hands of a process that will write them back*
name what their own key makes; that blobs have their own digest; that the slot has
an owner only around that owner's finished output, and none from the moment a build
releases it until that build saves; and that a build in between has, at the output
path, in `hit` or in `rd`, what its key stands for.  The argument for kills is that a
step never leaves an owner behind when it takes the bytes away: `ReleaseSlot` is
on disk before the first byte changes, and `SaveState` comes after the last.  The
argument for the lookup's unlocked write-back (`Touch`) is that losing an
entry, or bringing one back, is never serving a wrong one: whatever is written was right when read,
and an entry's rightness does not depend on time.

`SharedStoreProofs` also proves `DeferredStays` (`DeferredNotLost`, an action property), from `Shape` alone: only
`JobDone` takes a job off the queue, in the same step as the manifest is written, or when
the output is gone.

Three more theorems of `SharedStoreSoundness` each have an invariant and assumptions of their own:

* `HitsServed` (`[]HitsMaterialize`), for any number of builds beside `rb store gc`, whoever is killed, deferral and
  edits included.  `Served` says that a running `rb store gc` and a build past the store's lock exclude
  each other, and that a hit in hand has its blob.  Compaction is left out, and must be
  (section 3).
* `NothingTwice` (`[]WorkShared`), with no collector and one value of the inputs (`Single`).
  `Shared` adds the exclusion by the unit's lock, that every entry has its blob, and that a
  key being compiled has no entry: the builder looked again once it held the lock, and who stores
  an entry for the key holds it too.  With two inputs, `Touch` can write back a manifest
  without an entry that was added since, and that entry's unit is compiled again.  Edits, failures, kills and deferral may happen:
  a deferred output is no entry, so compiling it again is not compiling what the store has.
* `LinksHold` (`[]LinksAlive`), under `Careful`: `Quiet`, `Single`, no compaction, and builds that are
  not killed and do not fail in another unit (they may in this one).  `rb store gc` may be killed anywhere.
  `Alive` says that a slot's owner is listed, or its build is about to list it; that an owned link
  has its entry and its blob; and that what the collector has decided spares
  both: its `hot` keys contain the owners, its `live` blobs the linked ones.  The last needs that an
  entry of the right key is *the* entry (`Single`) with the right digest (`Sound`).
  Section 3 has the counterexamples: builds that do not register, and, with two inputs, the
  lookup's write-back.

Both modules rest on `SharedStoreAssumption` (TLC evaluates it in the store's runs): `None`
is no key, content or slot owner, and `Compile` is a function of key and inputs.

`SchedulerProofs` proves further, under the same `SchedulerAssumption`:

* `TokensAreConserved`: `Conserved` counts the `Token` events of the channel as a set of positions, so that
  a send or a receive is one element more or less; the bijection of the positions of a tail with those of the whole
  (`TokensAfterReceive`) is the only induction-like step, and it is a fact about cardinalities.
* `NoneHoarded`, from what the loop does before it sleeps.
* `StoringCounted`: `Counted` equates the counter with the set of units whose `Done` was handled and whose `Stored` was not.
  `FlowInv` says which events of a unit can be in the channel at each point of its thread, each once and
  in the order they were sent, so that a `Stored` never comes before its `Done`.
* `HonestAtExit`, from the above and the ranking of units in `SchedulerAssumption`: among the units that were not
  started one is lowest, its requirements have all ended, so it would be ready, unless one below it failed.
* `StoppedAtError`: `ErrorFirst` says that with one job the report of a failure is ahead of every token in the channel.
* `SchedulerImplementsOrder`: the refinement of `BuildOrder`, all of its specification (it has no fairness).
  `Advances` lists what a thread's step changes of the order; every other step is a stutter.  A start needs
  `DependenciesFirst`, `Conserved` (the job limit) and `ErrorFirst` (the stop).

`SourcesProofs` proves what `Sources` promises, with kills and failures anywhere, for any number of processes,
threads, packages and versions (`SourcesAssumption`, evaluated in `home`).  The code has no
locks there, so three of the theorems are about processes that come one after the other; section 3 says what two at
once can do, and the model shows it:

* `IndexStaysCurrent` under `IndexInTurn`.  `IndexInv`: the etag on disk is never newer than the body beside it, and what
  a process is about to write is no older than what is there.
* `ReferencesRight` under `RevisionsInTurn`: a branch may be asked for by any number of processes (a fetch only
  moves it forward); a revision is read from `FETCH_HEAD`, which they share.
* `LoadedWhole` under `PackagesInTurn`, where a process's threads have different packages (two packages of one commit share
  a staging directory).  `TreeInv` says for each step of a thread which parts it has; the marker is written last,
  and is the first thing to go when a directory is replaced.
* `FailsAtMostOnce` if the processes also load the same packages (`SamePackages`; otherwise the one that fails for a torn
  archive and the next failure may be about different archives).  `StreakInv`: a process that failed for no reason of
  its own has removed every archive that is not whole.

`TargetDirProofs` is about one build directory, for any crates, variants, graphs, versions, limits and number of
builds, with edits, failed builds, kills, `rb clean` and packing at any moment (`TargetDirAssumption`, evaluated
in `target`).  It assumes `Exclusive`, that no build holds another inode of the lock than one that runs;
section 3 says what happens otherwise.  One invariant, `DirInv`, serves three properties:

* `RecordHonest` (`[]SlotsHonest`): the record on disk and the one in a build's hands are both honest, and between the
  release of the slots and the next save neither names a unit still to be built.  So outputs may be unlinked, torn or
  rewritten meanwhile.
* `RevertHits` (`[]PromiseKept`): what is promised is in the store and listed, and the record recalls it: as its slot,
  with the older one in `prev`, or in `prev` alone once the slot was released or swept.  `WillName` says the same
  of a build that has looked and not finished, and gives `listed` at its end.  Compaction is followed step by step, with
  builds beside: unless one ran since the probe, the keys it read are those `listed` still, a superset of what is promised, so that
  neither its list of units to remove nor any removal has one of them; if one ran, a removal takes the promise back in the same step.
* `CacheReturns` (`[]CacheComesBack`): a cache that is not `spoilt` is whole in `inc`, or else in `pend` unless it is
  being removed there, or else in `arch`; and packing a variant means that its cache is not in use.

The first version of `DirInv` was not inductive, and TLC found why, in larger worlds than the run's: the two
cases of section 3 about reverts, and a cache that is written anew while its packing goes on.  The
ghosts now say what the code really gives there.

`HomeProofs` is about any packages and binaries, which may share names, any dependencies and lines, and any number of
processes at once (`HomeAssumption`, evaluated in `home`: only that the constant for a torn file is no list, manifest or lock file).

* `InstalledStays` (`[]InstalledIsThere`), from `InstallInv`.  `KeptThere`: what an install still counts as kept is in `bin/` as
  it copied it, but for the file it is copying.  `CopiedAlone`: nobody else counts, and nobody is owed, a file that is being copied.
  `Relied`: of the commands that have read the list and not rewritten it, either one is alone, and its copy of the list has
  everything that is owed to others, or they have crossed and nothing is owed.  `OwedSound` is the property; it is not inductive
  without the others, since a list is written from a copy read earlier.
* `LockStaysFit` (`[]LockFits`), from `EditInv`.  For a command that is `sure`, it says at each point what is known of the two
  files: after the first load the lock file fits the manifest as it was read, and from the writing of the manifest on it fits the old
  text until the second load's commit.  So a load that fails before its commit leaves a lock file that fits what is put back, and the lock file
  being written last is what the argument needs.

`FreshnessProofs` is about any units, dependencies, programs, checkouts and environments, and any number of builds and
edits (`FreshnessAssumption`, evaluated in `freshness`: the graph has a ranking, what a program looks at is decided
by what it finds there, a script that declares nothing reads its package, packages of a registry never change).

* `BuildsAreCurrent` (`[]BuiltIsCurrent`) under `Undisturbed(rules)`: no edits while a build runs; `Forthright`, that a script
  which at times declares its inputs reads no more when it does not; and where builds overlap or are
  killed, `Settled`, that what programs look at does not depend on what is edited or varies.  Each part is needed: section 3
  has a counterexample without it (`EditInBuild`, `Fickle`, `AtOnce`, `KilledLearning`).  `TheoremApplies` has TLC confirm that the
  rules *InTurn*, *Steady* and *Killed* of the run are undisturbed.
* `NothingIsRedone` (`[]NothingRedone`) of every behaviour: edits and kills at any moment, builds at once, programs that
  change their mind.  Its only hypothesis, `NoneIsNoRecord`, is about the constant that stands for no record.

The invariant of the first, `FreshInv`, cannot say what a key's output is: keys leave out what was not known when they
were planned, so one key may have entries for several sources.  It says where each came from.  An entry,
a record or a slot is `Traced` to some sources `c0` and environment `e0`: a clean build of them makes the
output, the inputs it names are those found there, and all that units below it looked at in `c0` has been `Learnt` (the predictions
know it, or a build is about to look into it).  `Transfer` is the heart: if two plans give a unit the same key, and
the predictions of the later one cover what the earlier build looked at, then the two sources agree on all of that, for the unit's
dependencies too, because a key contains theirs; so what is traced to the one is traced to the other.
`SoundTraced` applies it to every key a build plans, and `TracedRight` adds that inputs which still hold are the same inputs.  That a build learns
before the next one plans is why builds must come in turn or be settled.  Compiling is right by
induction along the graph (`MadeFact`), and moving an entry keeps it traced, since the new key is a plan of the same sources.

The invariant of the second, `RedoInv`, is about keys alone.  `Goes` says of a build whose sources stay as they
are that its roots are done or to do, and `Foresees` that the digest of a unit moves away from its plan only when
that unit has just been looked into, so that its inputs hold and `rekey` does not give up; that the plan `rekey` makes is the one the
predictions still give; and that after the move every root has an entry under the key of that plan.
`Resumes` says the same of the time between builds.

The recursive functions of the module (`PlanFor`, `Links`, `Ideal`) satisfy their equations because the graph has ranks: the proofs build
them up rank by rank (`LowerFact`), and induction is that a non-empty set of ranks has a least element.

`PlanningProofs` is about every workspace, lock, command and profile: `Worlds`, `Manifests` and `Index` are any sets and functions.
`FeaturesLeast` alone uses `PlanningAssumption` (evaluated in `planning`): manifests and command lines are finite,
versions are ordered, a feature's values are what `Engine::value` can make of a string, and what the index or the workspace
names has a manifest.  A lock, a patch or a git dependency may name what does not exist; then loading fails.

* `NamesAreTelling` (`[]NamesTell`): what is hashed names package, target, platform and mode; a script and its run, and a
  program and its test, are told apart by what else they hash.
* `NeedsAgreeing` (`[]NeedsAgree`), from what kinds of dependencies there are: what a unit is only ordered after is a program, a run of
  a script or documentation, and is no library that it links.
* `OneCopyOnly` (`[]OneCopy`): the libraries behind a unit are determined by package and mode.
* `HostUnwinding` (`[](PackagesKeepPanic => HostUnwinds)`).  `Profiles::get` sets `unwind` for host units before it
  applies the tables for packages, and `apply` takes `panic` from those too; cargo refuses such a
  table, rb does not, so that it is the hypothesis here.  `PanicInv` follows the strategy from `get` through sharing: a host
  unit only turns into a target unit whose profile is the same but for debug information.
* `LtoServing` (`[](KeepLto => LtoServes)`): `KeepLto` says that neither tables for packages nor `build-override` set `lto`,
  which cargo refuses in both; section 3 has a counterexample without it.  The invariant, `LtoInv`, has five parts.  `UnitsWhole`:
  from the end of interning on the graph has every unit that is needed and only what the roots lead to, also after documents were dropped and
  host units shared (`KeptIsLeast`: the recursion of `Kept` arrives at what is reachable).  `SameLto`: all profiles of a plan say the
  same.  `LtoTold`: what a unit takes part in has been told to each of its dependencies, or the call is still to
  make; so that when no call is left, every unit has been visited and has joined what all its dependents pass on (`AllHeard`;
  `MergeJoins`: joining is a semilattice, so that a later consumer takes nothing back).  `LtoSuits`: which
  values a unit can have under that one profile.  `LibsFit` follows the closures the plan collects: what a unit and a library behind it
  carry `Fits`, a relation that holds between a unit and each library told by it, and is transitive.

* `FeaturesLeast` (`[]FeaturesAreLeast`), for every graph, mode and request.  `Good`, the invariant of one run of the engine, has two
  halves.  `Complete`: whatever a rule asks for, of what was taken so far, has been taken or is pending; so when the queue is
  empty what was taken is closed.  An edge that becomes active after `dep/feat` was taken, and the other way round, must both
  tell the target, which is what `activate_edge` looks up `dep_feats` for.  `Sound`: everything turned on or pending follows from *any* closed set
  that contains the first tasks.  `ClosureIsLeast` shows that the recursion of `Closure` arrives at the least closed set, because
  there are finitely many tasks (`TasksFinite`) and a set that grows leaves ever fewer (strict inclusion is well-founded).
  `EngineInv` carries this through the rounds of resolution: a package whose data is loaded has a manifest (`GraphOk`).

`PlanInv`, the invariant below the others, follows a plan through its phases.  `UnitForms` says what a unit may be (a unit for the
host is compiled for it; a proc-macro is always; a script's run is no other target's mode) and `DepForms`
how one needs another.  The part that carries `OneCopy` is about sides.  While units are interned every
library of a unit is the one unit `LibFor` its platform and side (`SideKept`).  `share_host_units` then renames host units to
target units one by one, in dependency order; `SharedAbove` says that a unit comes after its dependencies, and that two
which were identified have equal dependencies *after* renaming, which is what the code compares.  So at the end the libraries of what a host
unit became are what the host's libraries became (`SidesAgree`), although that unit was a target unit with libraries of its own.
`LibsRight` carries that to the closures the plan collects, and `HashesStand` keeps for each hash what was hashed.

Only model-checked: liveness (`Terminates`, `ReadyStarts`, `Ends`), which is out of TLAPS's reach like ENABLED;
of planning `LockReadsBack` and `NothingMissing`, which rest on the least set a loop finds and on the listing of a set in some order, and
`LockedStay`, which does not hold of every workspace (section 3); and
`BuiltIsCurrent` when sources are edited while they are built (the rules *Edited*).

## 5. Not modelled, and what could come next

Not modelled:

* parsing and printing (TOML, dep-info, build-script directives, command lines, messages,
  timings), and cfg expressions, which are the recursive evaluation of a parse tree: string
  handling without state;
* configuration beyond profiles: a lookup in layered tables;
* locating and translating for toolchains (zig, xwin, binfmt), and starting
  processes after the build (`run.rs`): input and output;
* uplift: two binaries of one name in a workspace overwrite each other under `target/debug`
  (build.rs:3181), which rb leaves to the user;
* `verify` and the cleaning of `tmp/` in the store, and the limit of entries per manifest;
* one dependency under two names that prune keeps under the first only (unit.rs:741), for manifests that cargo refuses;
* disk errors other than a missing file, a failed ingest, a failed step of an install or an edit,
  or a failed unpacking; a jobserver pipe that breaks.

Proofs that could come next: for `Freshness`, `BuiltIsCurrent` of builds whose sources are edited meanwhile, each time to
something new; for `SharedStore`, `LinksHold` with several inputs but without the lookup's write-back.
