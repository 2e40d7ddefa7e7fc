------------------------------- MODULE Resolve -------------------------------
(***************************************************************************)
(* How rb finds its package graph: workspace.rs reads Cargo.lock, resolves *)
(* again when it does not cover the local packages (resolve.rs), and runs  *)
(* the feature engine until every package the command needs is loaded.     *)
(* `rb update' resolves with some of the locked versions forgotten.        *)
(***************************************************************************)
EXTENDS Features, Profiles

CONSTANTS Worlds            \* what there may be outside the program

VARIABLES lock,             \* Cargo.lock: a set of packages, or NoLock
          phase, prefs, todo, relocked

vars == <<world, graph, opts, eng, lock, phase, prefs, todo, relocked>>

NoLock == {NoSource}
NoPrefs == [registry |-> {}, git |-> {}]
(* For comparison: nobody's development dependencies are locked.           *)
LockModeNoDev == [twoSides |-> FALSE, platforms |-> FALSE, devFor |-> {},
                  needsPackage |-> FALSE, weakActivates |-> TRUE]
LockMode == [twoSides |-> FALSE, platforms |-> FALSE, devFor |-> world.members,
             needsPackage |-> FALSE, weakActivates |-> TRUE]

Pkgs(file) == IF file = NoLock THEN {} ELSE file
FromLock(file) == [registry |-> {[name |-> p.name, vers |-> p.vers, src |-> p.src] :
                                     p \in {q \in Pkgs(file) : q.src.at = "registry"}},
                   git |-> {p.src : p \in {q \in Pkgs(file) : q.src.at = "git"}}]

LocalGraph == [EmptyGraph EXCEPT !.nodes = world.locals, !.pkg = world.locals]

LockRequests == {[n |-> n, values |-> {}, all |-> TRUE, default |-> TRUE] : n \in world.members}

-----------------------------------------------------------------------------
(* The command line: which packages, and which features of them.  A spec   *)
(* means the versions that begin with what it gives, all if nothing.       *)
Matches(spec, n) == n.name = spec.name /\ n.vers \in spec.vers

(* -p specs, --workspace, the package of the current directory, or the     *)
(* default members.  A spec of several packages means the one member.      *)
Picked(spec) == LET found == {n \in graph.nodes : Matches(spec, n)}
                IN  IF \E n, m \in found : n # m THEN found \cap world.members ELSE found
SelectionFails ==
    IF world.cmd.workspace
    THEN \E e \in world.cmd.exclude : \A n \in world.members : ~Matches(e, n)
    ELSE \E s \in world.cmd.specs : ~\E n \in Picked(s) : Picked(s) = {n}
Selected ==
    IF world.cmd.workspace
    THEN {n \in world.members : \A e \in world.cmd.exclude : ~Matches(e, n)}
    ELSE IF world.cmd.specs # {} THEN UNION {Picked(s) : s \in world.cmd.specs}
    ELSE IF world.current \in world.members THEN {world.current}
    ELSE world.defaultMembers

(* `f', `pkg/f' for a selected package and `dep/f' for a dependency of it. *)
Claimed(c, n) ==
    IF c.owner = "" THEN IF c.feat \in DOMAIN NodeFeatures(n) \/ ~HasData(graph, n)
                         THEN {Feat(c.feat)} ELSE {}
    ELSE IF c.owner = n.name THEN {Feat(c.feat)}
    ELSE IF \E i \in DOMAIN NodeDeps(n) : NodeDeps(n)[i].name = c.owner
         THEN {DepFeat(c.owner, c.feat, FALSE)} ELSE {}
Unclaimed == \E c \in world.cmd.cli : \A n \in Selected : Claimed(c, n) = {}

BuildRequests == {[n |-> n, values |-> UNION {Claimed(c, n) : c \in world.cmd.cli},
                   all |-> world.cmd.all, default |-> world.cmd.default] : n \in Selected}

(* Development dependencies count for commands and targets that test.      *)
NeedsDevDeps ==
    \/ world.cmd.build \in {"test", "bench"}
    \/ ({"example", "test", "bench"} \cap
        (world.cmd.kinds \cup {x[1] : x \in world.cmd.named})) # {}
BuildMode == [twoSides |-> world.twoSides, platforms |-> world.twoSides,
              devFor |-> IF NeedsDevDeps THEN Selected ELSE {},
              needsPackage |-> TRUE, weakActivates |-> FALSE]

RunsMany == world.cmd.build = "run" /\ Cardinality(Selected) # 1

StartBuild == /\ phase' = IF SelectionFails \/ Unclaimed \/ ProfileFails \/ RunsMany
                          THEN "failed" ELSE "features"
              /\ opts' = BuildMode
              /\ eng' = Idle

-----------------------------------------------------------------------------
Init ==
    /\ world \in Worlds
    /\ graph = LocalGraph /\ opts = LockMode /\ eng = Idle
    /\ lock = world.lock /\ phase = "read" /\ prefs = NoPrefs
    /\ todo = {} /\ relocked = FALSE

(* Resolving starts again from the local packages.                         *)
Relock(p) ==
    /\ graph' = LocalGraph /\ opts' = LockMode /\ prefs' = p /\ todo' = {}
    /\ eng' = Idle
    /\ phase' = IF world.locked THEN "failed" ELSE "round"

(* Workspace::load: Cargo.lock is used when it covers every local package. *)
ReadLock ==
    LET imported == MarkLockPatches(ImportLock(LocalGraph, lock)) IN
    /\ phase = "read"
    /\ IF lock = NoLock \/ ~LocalsComplete(imported) THEN Relock(FromLock(lock))
       ELSE graph' = imported /\ phase' = "loaded" /\ UNCHANGED <<opts, eng, prefs, todo>>
    /\ UNCHANGED <<world, lock, relocked>>

(* Workspace::resolve_features starts the engine for the command.          *)
Begin ==
    /\ phase = "loaded" /\ world.cmd.do = "build"
    /\ StartBuild
    /\ UNCHANGED <<world, graph, lock, prefs, todo, relocked>>

Request ==
    /\ phase \in {"round", "features"}
    /\ eng' = Start(IF phase = "round" THEN LockRequests ELSE BuildRequests)
    /\ phase' = IF phase = "round" THEN "locking" ELSE "building"
    /\ UNCHANGED <<world, graph, opts, lock, prefs, todo, relocked>>

Engine ==
    /\ phase \in {"locking", "building"} /\ EngineStep
    /\ UNCHANGED <<world, graph, opts, lock, phase, prefs, todo, relocked>>

Drained == phase \in {"locking", "building"} /\ eng.queue = <<>>
Settled == eng.missing = {} /\ eng.unloaded = {}

EngineFails ==
    /\ Drained /\ eng.error /\ phase' = "failed"
    /\ UNCHANGED <<world, graph, opts, eng, lock, prefs, todo, relocked>>

-----------------------------------------------------------------------------
(* One round of resolve_lock_mode: what the engine reached but does not    *)
(* know is loaded, and each dependency without a target gets one.          *)
LoadUnloaded ==
    /\ Drained /\ phase = "locking" /\ ~eng.error
    /\ ~Settled
    /\ IF \E u \in eng.unloaded : IF u.src.at = "registry" THEN \A e \in Index : e.id # u
                                   ELSE u \notin DOMAIN Manifests
       THEN phase' = "failed" /\ UNCHANGED <<graph, todo>>
       ELSE /\ graph' = [graph EXCEPT
                 !.sum = @ \cup {u \in eng.unloaded : u.src.at = "registry"},
                 !.pkg = @ \cup {u \in eng.unloaded : u.src.at # "registry"}]
            /\ todo' = eng.missing /\ phase' = "selecting"
    /\ UNCHANGED <<world, opts, eng, lock, prefs, relocked>>

(* The one package a path or git dependency can mean, if there is one.     *)
Fixed(dep) ==
    LET here == {x \in graph.nodes : /\ x.name = dep.pkg /\ x.src.at = "git"
                                     /\ x.src.url = dep.src.url /\ x.src.ref = dep.src.ref}
        locked == {p \in prefs.git : p.url = dep.src.url /\ p.ref = dep.src.ref}
        commit == IF locked # {} THEN Only(locked).commit ELSE world.head[<<dep.src.url, dep.src.ref>>]
    IN  IF dep.src.at = "path" THEN {m \in DOMAIN Manifests : m.src = dep.src}
        ELSE IF here # {} THEN here
        ELSE {m \in DOMAIN Manifests : /\ m.name = dep.pkg /\ m.src.at = "git"
                                       /\ m.src.url = dep.src.url /\ m.src.commit = commit}
FixedNode(dep) == Only(Fixed(dep))

WithPackage(gr, t) == IF t \in gr.nodes THEN gr
                      ELSE [gr EXCEPT !.nodes = @ \cup {t}, !.pkg = @ \cup {t}]

PatchOf(dep) == {p \in world.patches : /\ dep.src.at = "registry"
                                       /\ dep.src.reg = world.patchFor /\ p.pkg = dep.pkg}

(* A patch is loaded even when its version turns out not to do.            *)
Tried(dep) == IF PatchOf(dep) = {} THEN graph
              ELSE WithPackage(graph, FixedNode(Only(PatchOf(dep))))
Unfound(dep) == \/ dep.src.at # "registry" /\ Fixed(dep) = {}
                \/ \E p \in PatchOf(dep) : Fixed(p) = {}
PatchFits(dep) == \E p \in PatchOf(dep) : Fixed(p) # {} /\ FixedNode(p).vers \in dep.req

Fitting(dep, S) == {t \in S : t.name = dep.pkg /\ t.src = dep.src /\ t.vers \in dep.req}
Existing(dep) == Fitting(dep, graph.nodes)
LockedFor(dep) == Fitting(dep, prefs.registry)
Candidates(dep) == {e \in Index : ~e.yanked /\ Fitting(dep, {e.id}) # {}}
Pool(dep) == LET compatible == {e \in Candidates(dep) : world.msrvAware /\ e.msrvOk}
             IN  IF compatible # {} THEN compatible ELSE Candidates(dep)

(* The dependency gets target t in graph gr, and the target has to do.     *)
Choose(gr, n, i, t) ==
    LET done == [gr EXCEPT !.edges = @ \cup {<<n, t>>}]
    IN  /\ graph' = done
        /\ todo' = todo \ {<<n, i>>}
        /\ phase' = IF TargetOf(done, n, NodeDeps(n)[i]) = {} THEN "failed" ELSE phase

SelectFixed(n, i) ==
    LET dep == NodeDeps(n)[i] IN
    /\ dep.src.at # "registry"
    /\ Choose(WithPackage(graph, FixedNode(dep)), n, i, FixedNode(dep))

SelectPatched(n, i) ==
    LET dep == NodeDeps(n)[i]
        t == FixedNode(Only(PatchOf(dep)))
    IN  /\ dep.src.at = "registry" /\ PatchFits(dep)
        /\ Choose([Tried(dep) EXCEPT !.patch = {p \in @ : p[1] # t} \cup {<<t, dep.src.reg>>}], n, i, t)

SelectExisting(n, i) ==
    LET dep == NodeDeps(n)[i] IN
    /\ dep.src.at = "registry" /\ ~PatchFits(dep) /\ Existing(dep) # {}
    /\ Choose(Tried(dep), n, i, Newest(Existing(dep)))

SelectLocked(n, i) ==
    LET dep == NodeDeps(n)[i]
        t == Newest(LockedFor(dep))
    IN  /\ dep.src.at = "registry" /\ ~PatchFits(dep)
        /\ Existing(dep) = {} /\ LockedFor(dep) # {}
        /\ Choose([Tried(dep) EXCEPT !.nodes = @ \cup {t}], n, i, t)

(* For comparison: the newest is taken whatever is locked.                 *)
SelectNewestAlways(n, i) ==
    LET dep == NodeDeps(n)[i]
        t == Newest({e.id : e \in Pool(dep)})
    IN  /\ dep.src.at = "registry" /\ ~PatchFits(dep)
        /\ Existing(dep) = {} /\ Pool(dep) # {}
        /\ Choose([Tried(dep) EXCEPT !.nodes = @ \cup {t}, !.sum = @ \cup {t}], n, i, t)

SelectNewest(n, i) ==
    LET dep == NodeDeps(n)[i]
        t == Newest({e.id : e \in Pool(dep)})
    IN  /\ dep.src.at = "registry" /\ ~PatchFits(dep)
        /\ Existing(dep) = {} /\ LockedFor(dep) = {} /\ Pool(dep) # {}
        /\ Choose([Tried(dep) EXCEPT !.nodes = @ \cup {t}, !.sum = @ \cup {t}], n, i, t)

SelectNothing(n, i) ==
    LET dep == NodeDeps(n)[i] IN
    /\ \/ Unfound(dep)
       \/ /\ dep.src.at = "registry" /\ ~PatchFits(dep)
          /\ Existing(dep) \cup LockedFor(dep) = {} /\ Pool(dep) = {}
    /\ phase' = "failed" /\ UNCHANGED <<graph, todo>>

Select ==
    /\ phase = "selecting"
    /\ \E d \in {x \in todo : \A y \in todo : y[1] = x[1] => x[2] <= y[2]} :
         \/ SelectNothing(d[1], d[2])
         \/ /\ ~Unfound(NodeDeps(d[1])[d[2]])
            /\ \/ SelectFixed(d[1], d[2])    \/ SelectPatched(d[1], d[2])
               \/ SelectExisting(d[1], d[2]) \/ SelectLocked(d[1], d[2])
               \/ SelectNewest(d[1], d[2])
    /\ UNCHANGED <<world, opts, eng, lock, prefs, relocked>>

NextRound ==
    /\ phase = "selecting" /\ todo = {} /\ phase' = "round"
    /\ UNCHANGED <<world, graph, opts, eng, lock, prefs, todo, relocked>>

-----------------------------------------------------------------------------
(* What Cargo.lock records: the members and everything the engine reached. *)
Reached == world.members \cup {k[1] : k \in eng.based}
           \cup UNION {{e[1], e[2]} : e \in eng.edges}
ToLockfile == {[name |-> n.name, vers |-> n.vers, src |-> LockSource(n),
                deps |-> {LockEntry(e[2]) : e \in {x \in eng.edges : x[1] = n}}] : n \in Reached}

(* Nothing is missing any more.  The file is written (unless an update is  *)
(* only tried, or --locked forbids the change) and the graph kept.         *)
Locked(name) == {p \in ToLockfile : p.name = name}
Missed == LET here == Locked(Only(world.cmd.specs).name) IN
    \/ world.cmd.precise # NoVersion /\ \A p \in here : p.vers # world.cmd.precise
    \/ world.cmd.commit # "" /\ \A p \in here : p.src.at # "git" \/ p.src.commit # world.cmd.commit
CommitLock ==
    LET new == Render(ToLockfile)
        updating == relocked /\ world.cmd.do = "update"
        refused == updating /\ (Missed \/ (world.locked /\ new # lock))
    IN  /\ Drained /\ phase = "locking" /\ ~eng.error
        /\ Settled
        /\ lock' = IF refused \/ (updating /\ world.cmd.dryRun) THEN lock ELSE new
        /\ phase' = IF refused THEN "failed" ELSE IF updating THEN "done" ELSE "loaded"
        /\ UNCHANGED <<world, graph, opts, eng, prefs, todo, relocked>>

(* Workspace::resolve_features after the engine: a dependency without a    *)
(* target makes it resolve again, once; unknown packages are loaded.       *)
Locals == Selected \subseteq world.locals

BuildMissing ==
    /\ Drained /\ phase = "building" /\ ~eng.error /\ eng.missing # {}
    /\ IF relocked \/ ~Locals
       THEN phase' = "not in lock" /\ UNCHANGED <<graph, opts, eng, prefs, todo, relocked>>
       ELSE Relock(FromLock(lock)) /\ relocked' = TRUE
    /\ UNCHANGED <<world, lock>>

(* For comparison: the loaded packages are not kept.                       *)
BuildLoadForgets ==
    /\ Drained /\ phase = "building" /\ ~eng.error /\ eng.missing = {} /\ eng.unloaded # {}
    /\ phase' = "features" /\ eng' = Idle
    /\ UNCHANGED <<world, graph, opts, lock, prefs, todo, relocked>>

BuildLoad ==
    /\ Drained /\ phase = "building" /\ ~eng.error /\ eng.missing = {} /\ eng.unloaded # {}
    /\ IF eng.unloaded \subseteq DOMAIN Manifests
       THEN /\ graph' = [graph EXCEPT !.pkg = @ \cup eng.unloaded]
            /\ phase' = "features" /\ eng' = Idle
       ELSE phase' = "failed" /\ UNCHANGED <<graph, eng>>
    /\ UNCHANGED <<world, opts, lock, prefs, todo, relocked>>

(* For comparison: what is not loaded yet is left so.                      *)
BuildDoneUnloaded ==
    /\ Drained /\ phase = "building" /\ ~eng.error /\ eng.missing = {}
    /\ phase' = "done"
    /\ UNCHANGED <<world, graph, opts, eng, lock, prefs, todo, relocked>>

BuildDone ==
    /\ Drained /\ phase = "building" /\ ~eng.error /\ Settled
    /\ phase' = "done"
    /\ UNCHANGED <<world, graph, opts, eng, lock, prefs, todo, relocked>>

-----------------------------------------------------------------------------
(* rb update: every locked version is forgotten, or those of the names     *)
(* given, with `recursive' also of what they lock.                         *)
WithLocked(names) ==
    LeastAbove(names, STRING, LAMBDA S :
        UNION {{d.name : d \in p.deps} : p \in {q \in Pkgs(lock) : q.name \in S}})

SpecNames == {s.name : s \in world.cmd.specs}
Forgotten == IF world.cmd.recursive THEN WithLocked(SpecNames) ELSE SpecNames

Forget(names) ==
    LET p == FromLock(lock)
        theirs == {q.src : q \in {x \in Pkgs(lock) : x.name \in names}}
    IN  [registry |-> {t \in p.registry : t.name \notin names}, git |-> p.git \ theirs]

(* --precise: the version takes the place of every locked one of the name. *)
Pin(name, v) ==
    LET p == FromLock(lock)
        theirs == {t.src : t \in {x \in p.registry : x.name = name}}
        regs == IF theirs = {} THEN {world.cratesIo} ELSE theirs
    IN  [p EXCEPT !.registry = {t \in @ : t.name # name}
                               \cup {[name |-> name, vers |-> v, src |-> r] : r \in regs}]

(* A commit takes the place of the locked ones of the name's repositories. *)
PinGit(name, commit) ==
    LET theirs == {q.src : q \in {x \in Pkgs(lock) : x.name = name /\ x.src.at = "git"}}
    IN  [FromLock(lock) EXCEPT
            !.git = {s \in @ : \A t \in theirs : <<s.url, s.ref>> # <<t.url, t.ref>>}
                    \cup {[t EXCEPT !.commit = commit] : t \in theirs}]

(* With `recursive' a precise version goes to whichever name a hash set    *)
(* happens to give first.                                                  *)
NewPrefs ==
    IF world.cmd.specs = {} THEN {NoPrefs}
    ELSE IF world.cmd.precise # NoVersion THEN {Pin(n, world.cmd.precise) : n \in Forgotten}
    ELSE IF world.cmd.commit # "" THEN {PinGit(n, world.cmd.commit) : n \in Forgotten}
    ELSE {Forget(Forgotten)}

Update ==
    /\ phase = "loaded" /\ world.cmd.do = "update"
    /\ IF \E s \in world.cmd.specs : \A q \in Pkgs(lock) : ~Matches(s, q)
       THEN phase' = "failed" /\ UNCHANGED <<graph, opts, prefs, todo, eng, relocked>>
       ELSE /\ graph' = LocalGraph /\ opts' = LockMode /\ todo' = {} /\ eng' = Idle
            /\ prefs' \in NewPrefs /\ phase' = "round" /\ relocked' = TRUE
    /\ UNCHANGED <<world, lock>>
=============================================================================
