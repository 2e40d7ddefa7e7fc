------------------------------ MODULE Planning ------------------------------
(***************************************************************************)
(* From the manifests and Cargo.lock to the plan of a build: the steps of  *)
(* Resolve, Features, UnitGraph and Plan in the order main.rs takes them,  *)
(* and what must hold of their results together.                           *)
(***************************************************************************)
EXTENDS Plan

(* There are finitely many packages, their versions are ordered, each says *)
(* finitely much, and what a feature turns on is a value manifest.rs can   *)
(* read.  What the indexes list and what is in the workspace exists.       *)
ASSUME PlanningAssumption ==
    /\ IsFiniteSet(DOMAIN Manifests)
    /\ \A n \in DOMAIN Manifests : LET m == Manifest(n) IN
         /\ n.vers \in Int
         /\ IsFiniteSet(DOMAIN m.deps) /\ \A i \in DOMAIN m.deps : IsFiniteSet(m.deps[i].feats)
         /\ IsFiniteSet(DOMAIN m.features)
         /\ \A f \in DOMAIN m.features : /\ IsFiniteSet(DOMAIN m.features[f])
                                        /\ \A v \in ToSet(m.features[f]) : IsValue(v)
    /\ \A e \in Index : e.id \in DOMAIN Manifests
    /\ \A w \in Worlds : /\ w.locals \subseteq DOMAIN Manifests
                         /\ IsFiniteSet(w.members) /\ IsFiniteSet(w.defaultMembers)
                         /\ IsFiniteSet(w.cmd.specs) /\ IsFiniteSet(w.cmd.cli)

allVars == <<vars, uvars, pvars>>

ResolveStep == /\ \/ ReadLock \/ Begin \/ Request \/ Engine \/ EngineFails
                  \/ LoadUnloaded \/ Select \/ NextRound \/ CommitLock
                  \/ BuildMissing \/ BuildLoad \/ BuildDone \/ Update
               /\ UNCHANGED <<uvars, pvars>>
UnitStep == /\ BuildUnits \/ Intern \/ EndUnits \/ DropDocs \/ ShareOne \/ FinishUnits
            /\ UNCHANGED pvars
PlanStep == StartLto \/ PropagateLto \/ PlanUnit \/ FinishPlan

InitPlanning == Init /\ InitUnits /\ InitPlan
Ended == phase \in {"done", "planned", "failed", "not in lock"}
            /\ (phase = "done" => world.cmd.do = "update")
Stop == Ended /\ UNCHANGED allVars
Next == ResolveStep \/ UnitStep \/ PlanStep \/ Stop

(* The command is one thread that nothing blocks: it goes on while it can. *)
(* A state where it could not, and has not ended, would be a deadlock.     *)
Progress == <>[]Ended \/ []<><<TRUE>>_allVars
Spec == InitPlanning /\ [][Next]_allVars /\ Progress
-----------------------------------------------------------------------------
Planned == phase = "planned"

(* The feature engine computes the least set closed under its rules: the   *)
(* order in which its queue happens to hold the tasks does not matter      *)
(* (features.rs, Engine::run and activate_edge).                           *)
FeaturesAreLeast ==
    Drained /\ ~eng.error =>
        LET T == Closure(Pending(Start(IF phase = "locking" THEN LockRequests ELSE BuildRequests)))
        IN  /\ eng.named = {<<x.n, x.s, x.v.feat>> :
                              x \in {y \in T : /\ y.v.do = "feat" /\ Loaded(y.n)
                                               /\ y.v.feat \in DOMAIN NodeFeatures(y.n)}}
            /\ eng.active = UNION {{<<k[1], k[2], i>> : i \in Edges(T, k[1], k[2])} :
                                     k \in {<<x.n, x.s>> : x \in T}}

(* A lock rb has just written is read back as the graph it was written     *)
(* from: its shortened entries stay unambiguous, every local package is    *)
(* covered and every dependency finds the target it had (lockfile.rs       *)
(* render, resolve.rs to_lockfile and import_lock).                        *)
LockReadsBack ==
    phase = "loaded" /\ opts = LockMode /\ eng # Idle =>
        LET back == [MarkLockPatches(ImportLock(LocalGraph, lock)) EXCEPT
                        !.sum = graph.sum, !.pkg = graph.pkg]
        IN  /\ LocalsComplete(back)
            /\ \A x \in eng.active : LET d == NodeDeps(x[1])[x[3]] IN
                 TargetOf(back, x[1], d) = TargetOf(graph, x[1], d)

(* Resolving again, for a manifest change or an update of some names,      *)
(* leaves the other packages at their locked versions: one that is new     *)
(* has a dependent that no locked version satisfies (resolve.rs select).   *)
LockedStay ==
    phase \in {"loaded", "done"} /\ eng # Idle /\ opts = LockMode =>
        \A t \in {u \in Reached : u.src.at = "registry"} :
            \/ t \in prefs.registry
            \/ \E e \in eng.edges : \E i \in DOMAIN NodeDeps(e[1]) :
                 LET d == NodeDeps(e[1])[i] IN
                 e[2] = t /\ d.pkg = t.name /\ d.src = t.src /\ LockedFor(d) = {}

(* Whatever the features of a unit turn on was resolved and loaded.  A      *)
(* build of workspace packages is never refused for a package "not in      *)
(* Cargo.lock" (workspace.rs resolve_features), and no dependency is lost   *)
(* between features and units: unit.rs enabled_deps skips silently what it *)
(* finds no package for.                                                   *)
NothingMissing ==
    /\ phase = "not in lock" => ~Locals
    /\ Planned => \A u \in DOMAIN units : \A i \in DOMAIN NodeDeps(u.pkg) :
        LET d == NodeDeps(u.pkg)[i] IN
        (i \in Enabled(u.pkg, u.kind, u.side, "normal") /\ u.mode # "run" /\ u.tgt # "build") =>
            \E t \in Target(u.pkg, i) : HasLib(t) =>
                \E x \in units[u] : x.extern = {d.name} /\ x.unit.pkg = t

(* A crate is linked into an artifact once: sharing host units with target *)
(* ones never leaves two copies behind one unit (unit.rs share_host_units, *)
(* "or the host side would see two copies").                               *)
OneCopy == Planned => \A u \in U : \A v, w \in libs[u] :
               v.pkg = w.pkg /\ v.mode = w.mode => v = w

Linked(u) == Compiles(u) /\ NeedsLink(u)
(* Every library carries what its consumers link: bitcode for an LTO link, *)
(* object code for any other, also when both share it (plan.rs             *)
(* propagate_lto).  What is behind a dylib alone is linked into that.      *)
Static(u) == \A l \in libs[u] : CrateTypes(l) \cap {"lib", "rlib"} # {}
LtoServes ==
    Planned => \A u \in {x \in U : Linked(x) /\ CrateTypes(x) \cap {"lib", "rlib"} = {} /\ Static(x)} :
        \A v \in {l \in libs[u] : l.mode = "build"} :
            IF lto[u] = "Run" THEN lto[v] \in {"OnlyBitcode", "ObjectAndBitcode"}
            ELSE lto[v] \in {"OnlyObject", "ObjectAndBitcode", "Off"}

(* Proc-macros and build scripts unwind, and so does every crate linked    *)
(* into one: rustc refuses an aborting crate in an artifact that does not  *)
(* abort.  Sharing with the target's units keeps to that (profile.rs       *)
(* "build scripts and proc-macros have to unwind", unit.rs                 *)
(* same_except_debuginfo).                                                 *)
Unwinds(u) == Linked(u) /\ ~Aborts(u)
HostUnwinds == Planned => \A u \in {v \in U : Unwinds(v) /\ HostOnly(v)} :
                  \A v \in libs[u] : v.mode = "build" => ~Aborts(v)

(* Test executables unwind, and rustc links them to crates that do too, as *)
(* under cargo (README.md:4).  unit.rs sets this for the unit with the     *)
(* test harness alone.                                                     *)
TestsLink == Planned => \A u \in {v \in U : Unwinds(v) /\ IsTest(v.mode)} :
                  \A v \in libs[u] : v.mode = "build" => ~Aborts(v)

(* Two units of a plan that share a name, and so write the same files, are *)
(* one target of one package, compiled in one mode for one platform: only  *)
(* the side they are for may differ (plan.rs: the name is in -C            *)
(* extra-filename and every directory).                                    *)
NamesTell == Planned => \A u, v \in U :
                hash[u] = hash[v] => [u EXCEPT !.host = v.host, !.side = v.side] = v

(* No two units share a name.  No run checks it: host units that are not   *)
(* compiled to a program, and scripts whose owners differ in optional      *)
(* dependencies alone, are not shared and hash as the target's do.         *)
NamesDistinct == Planned => \A u, v \in U : hash[u] = hash[v] => u = v

(* A unit needs each of its dependencies in one way only, so that sorting  *)
(* and deduplicating the requirements by unit loses none (build.rs         *)
(* schedule).                                                              *)
NeedsAgree == Planned => \A u \in U : \A a, b \in Requirements(u) : a[1] = b[1] => a = b

(* Resolution converges (resolve.rs gives up after 10 000 rounds) and the  *)
(* command ends.                                                           *)
Ends == <>Ended
=============================================================================
