------------------------------ MODULE UnitGraph ------------------------------
(***************************************************************************)
(* rb-core's unit.rs: from the resolved packages and features to the graph *)
(* of units, one per package, target, platform, mode and side.  Building   *)
(* is the closure of the selected targets under UnitDeps; then colliding   *)
(* documentation is dropped and host units equal to a target's are shared. *)
(***************************************************************************)
EXTENDS Resolve

VARIABLES units,            \* each unit's dependencies: a function to sets of
                            \* [unit, extern]; extern is the set of the name
                            \* it is passed under, or empty
          roots, aux, alias,
          profile           \* what the profiles say for each unit

(* Targets go by their names, the library and the build script by their    *)
(* kinds.                                                                  *)
Kind(p, t) == IF t \in {"lib", "build"} THEN t ELSE Targets(p)[t].kind
HasLib(p) == "lib" \in DOMAIN Targets(p)
HasScript(p) == "build" \in DOMAIN Targets(p)
InPackages(p) == p \in graph.pkg

NoFeatures == [named |-> {}, opt |-> {}]
Info(p, host) ==
    LET s == world.twoSides /\ host IN
    IF <<p, s>> \notin eng.based THEN NoFeatures
    ELSE [named |-> {x[3] : x \in {y \in eng.named : y[1] = p /\ y[2] = s}},
          opt |-> {x[3] : x \in {y \in eng.opt : y[1] = p /\ y[2] = s}}]

IsTest(mode) == mode \in {"test", "bench", "checktest"}
IsCheck(mode) == mode \in {"check", "checktest"}

(* Which sides a unit is for: its identity.                                *)
Unit(p, t, k, host, mode) ==
    [pkg |-> p, tgt |-> t, kind |-> k, host |-> host, mode |-> mode, side |-> host]

KindPlatform(k) == IF k = "host" THEN "host" ELSE "target"
DepEnabled(d, info, k) == (d.optional => d.name \in info.opt) /\ KindPlatform(k) \in d.platform

Enabled(p, k, host, depKind) ==
    {i \in DOMAIN NodeDeps(p) : LET d == NodeDeps(p)[i] IN
        d.kind = depKind /\ DepEnabled(d, Info(p, host), k)}
Target(p, i) == {t \in TargetOf(graph, p, NodeDeps(p)[i]) : InPackages(t)}

(* Dependents that only need metadata get a checked library, unless it is  *)
(* a proc-macro: those run on the host.                                    *)
LibUnit(p, k, host, parent) ==
    IF ProcMacro(p) THEN Unit(p, "lib", "host", TRUE, "build")
    ELSE Unit(p, "lib", k, host, IF IsCheck(parent) \/ parent = "doc" THEN "check" ELSE "build")

LibDeps(p, k, host, depKind, parent) ==
    UNION {{[unit |-> LibUnit(t, k, host, parent), extern |-> {NodeDeps(p)[i].name}] :
                t \in {x \in Target(p, i) : HasLib(x)}} : i \in Enabled(p, k, host, depKind)}

After(S) == {[unit |-> u, extern |-> {}] : u \in S}
RunUnit(p, k, host) == Unit(p, "build", k, host, "run")

(* Owners on both sides with the same features share one compiled script.  *)
ScriptUnit(p, host) ==
    [pkg |-> p, tgt |-> "build", kind |-> "host", host |-> TRUE, mode |-> "build",
     side |-> host /\ Info(p, TRUE) # Info(p, FALSE)]

FeaturesOk(p, t, host) == LET fi == Info(p, host) IN
    \A f \in Targets(p)[t].required : f \in fi.named \cup fi.opt

Documented(u) == Targets(u.pkg)[u.tgt].doc

CompileDeps(u) ==
    LET p == u.pkg
        kind == Kind(p, u.tgt)
        dev == IsTest(u.mode) \/ kind \in {"example", "test", "bench"}
        libs == LibDeps(p, u.kind, u.host, "normal", u.mode)
                \cup (IF dev THEN LibDeps(p, u.kind, u.host, "dev", u.mode) ELSE {})
        docs == IF u.mode = "doc" /\ world.cmd.docDeps
                THEN {[d.unit EXCEPT !.mode = "doc"] : d \in {x \in libs : Documented(x.unit)}} ELSE {}
        run == IF HasScript(p) THEN {RunUnit(p, u.kind, u.host)} ELSE {}
        lib == LibUnit(p, u.kind, u.host, u.mode)
        own == IF kind = "lib" \/ ~HasLib(p) THEN {} ELSE
               {[unit |-> lib, extern |-> {p.name}]}
               \cup After(IF u.mode = "doc" THEN {[lib EXCEPT !.mode = "doc"]} ELSE {})
        bins == IF kind \in {"test", "bench"} /\ u.mode \in {"test", "bench", "build"}
                THEN {Unit(p, b, u.kind, u.host, "build") :
                        b \in {t \in DOMAIN Targets(p) : Kind(p, t) = "bin" /\ FeaturesOk(p, t, u.host)}}
                ELSE {}
    IN  libs \cup After(docs \cup run \cup bins) \cup own

(* A build script runs after its compilation and after the runs of the     *)
(* direct dependencies that declare `links'.                               *)
RunDeps(u) ==
    LET linked(t) == /\ Manifest(t).links /\ HasScript(t) /\ ~ProcMacro(t) /\ HasLib(t)
        deps == UNION {Target(u.pkg, i) : i \in Enabled(u.pkg, u.kind, u.host, "normal")}
    IN  After({ScriptUnit(u.pkg, u.host)} \cup {RunUnit(t, u.kind, u.host) : t \in {x \in deps : linked(x)}})

ScriptDeps(u) ==
    UNION {{[unit |-> Unit(t, "lib", "host", TRUE, "build"), extern |-> {NodeDeps(u.pkg)[i].name}] :
                t \in {x \in TargetOf(graph, u.pkg, NodeDeps(u.pkg)[i]) : HasLib(x)}} :
           i \in {j \in DOMAIN NodeDeps(u.pkg) :
                    /\ NodeDeps(u.pkg)[j].kind = "build"
                    /\ DepEnabled(NodeDeps(u.pkg)[j], Info(u.pkg, u.side), "host")}}

UnitDeps(u) == CASE u.mode = "run" -> RunDeps(u)
                 [] u.tgt = "build" /\ u.mode = "build" -> ScriptDeps(u)
                 [] OTHER -> CompileDeps(u)

-----------------------------------------------------------------------------
(* The targets a command builds, each with its mode.                       *)
(* `rb run' without a name runs `default-run' or else the only bin.        *)
Unnamed == world.cmd.build = "run" /\ ~\E x \in world.cmd.named : x[1] \in {"bin", "example"}
Runnable(p) == IF Manifest(p).defaultRun # "" THEN {Manifest(p).defaultRun}
               ELSE {t \in DOMAIN Targets(p) : Kind(p, t) = "bin"}
NamedTargets == IF Unnamed THEN {"bin"} \X UNION {Runnable(p) : p \in Selected} ELSE world.cmd.named
NothingToRun == Unnamed /\ Cardinality(NamedTargets) # 1

AskedFor(p, t) == <<Kind(p, t), t>> \in NamedTargets
Explicit == world.cmd.kinds # {} \/ NamedTargets # {}

ByDefault(p, t) ==
    LET x == Targets(p)[t]  kind == Kind(p, t)  c == world.cmd.build IN
    CASE kind = "build" -> FALSE
      [] kind # "build" /\ c \in {"build", "check"} -> kind \in {"lib", "bin"}
      [] kind # "build" /\ c = "test" -> kind = "example" \/ x.test
      [] kind # "build" /\ c = "bench" -> x.bench
      [] kind # "build" /\ c = "doc" ->
           x.doc /\ (kind = "lib" \/ (kind = "bin" /\ ~(HasLib(p) /\ t = p.name)))
      [] OTHER -> FALSE

Wanted(p, t) == IF Explicit THEN Kind(p, t) # "build"
                                 /\ (AskedFor(p, t) \/ Kind(p, t) \in world.cmd.kinds)
                ELSE ByDefault(p, t)

RootMode(p, t) ==
    LET x == Targets(p)[t]  kind == Kind(p, t)  c == world.cmd.build
        testish == kind \in {"test", "bench"}
    IN  CASE c \in {"build", "run"} -> IF testish THEN "test" ELSE "build"
          [] c = "check" -> IF testish THEN "checktest" ELSE "check"
          [] c = "test" -> IF kind = "example" /\ ~x.test THEN "build" ELSE "test"
          [] c = "bench" -> IF kind = "example" /\ ~x.bench THEN "build" ELSE "bench"
          [] OTHER -> "doc"

RequestedKinds == IF world.noTarget THEN {"host"} ELSE world.kinds
RootUnit(p, t, k) == IF ProcMacro(p) /\ t = "lib" THEN Unit(p, t, "host", TRUE, RootMode(p, t))
                     ELSE Unit(p, t, k, FALSE, RootMode(p, t))

SelectedTargets == {x \in UNION {{p} \X DOMAIN Targets(p) : p \in Selected} : Wanted(x[1], x[2])}
RootOk(p, t) == t = "lib" \/ FeaturesOk(p, t, FALSE)
Refused ==
    \/ NothingToRun
    \/ \E x \in NamedTargets : \A p \in Selected :
          x[2] \notin DOMAIN Targets(p) \/ Kind(p, x[2]) # x[1]
    \/ \E x \in SelectedTargets : AskedFor(x[1], x[2]) /\ ~RootOk(x[1], x[2])

Roots == UNION {{RootUnit(x[1], x[2], k) : k \in RequestedKinds} :
                x \in {y \in SelectedTargets : RootOk(y[1], y[2])}}

(* Doctests link the library and the development dependencies.             *)
DoctestRoots ==
    LET libs == {p \in Selected : HasLib(p) /\ Targets(p)["lib"].doctest}
        k(p) == IF ProcMacro(p) \/ world.noTarget THEN "host" ELSE world.firstKind
        for(p) == {LibUnit(p, k(p), FALSE, "build")}
                  \cup {d.unit : d \in LibDeps(p, k(p), ProcMacro(p), "dev", "build")}
    IN  IF world.cmd.build = "test" /\ ~Explicit THEN UNION {for(p) : p \in libs} ELSE {}

(* Tests unwind; a proc-macro that is a root keeps the normal profile.     *)
ProfileOf(u, rooted) ==
    LET rootMacro == rooted /\ u.host
        p == GetProfile(u.pkg, u.host /\ ~rootMacro)
    IN  IF rootMacro \/ IsTest(u.mode) THEN [p EXCEPT !.panic = "unwind"] ELSE p
Profile(u) == profile[u]

uvars == <<units, roots, aux, alias, profile>>

InitUnits == /\ units = NoEntries /\ roots = {} /\ aux = {}
             /\ alias = NoEntries /\ profile = NoEntries

BuildUnits ==
    /\ phase = "done" /\ world.cmd.do = "build"
    /\ IF Refused THEN phase' = "failed" /\ UNCHANGED <<roots, aux>>
       ELSE roots' = Roots /\ aux' = DoctestRoots /\ phase' = "units"
    /\ UNCHANGED <<world, graph, opts, eng, lock, prefs, todo, relocked, alias, units, profile>>

(* Each unit is interned once, with its dependencies, from the roots on.   *)
Uninterned == (roots \cup aux \cup {d.unit : d \in UNION {units[u] : u \in DOMAIN units}})
              \ DOMAIN units
Intern ==
    /\ phase = "units" /\ Uninterned # {}
    /\ units' = [u \in DOMAIN units \cup {Only(Uninterned)} |->
                    IF u \in DOMAIN units THEN units[u] ELSE UnitDeps(u)]
    /\ profile' = [u \in DOMAIN units' |-> ProfileOf(u, u \in roots)]
    /\ UNCHANGED <<world, graph, opts, eng, lock, prefs, todo, relocked, phase, roots, aux, alias>>

EndUnits ==
    /\ phase = "units" /\ Uninterned = {}
    /\ phase' = IF world.cmd.docDeps THEN "docs" ELSE "sharing"
    /\ UNCHANGED <<world, graph, opts, eng, lock, prefs, todo, relocked, uvars>>

-----------------------------------------------------------------------------
(* What remains reachable from the roots when a unit's dependencies are D. *)
Kept(D, start) ==
    LeastAbove(start, DOMAIN D, LAMBDA S : {d.unit : d \in UNION {D[u] : u \in S}})
Pruned(D, start) == [u \in DOMAIN D \cap Kept(D, start) |-> D[u]]

(* rustdoc keys its output by crate name: documents that collide go, host  *)
(* ones when there is no --target, then older versions of a package.       *)
CrateName(u) == IF u.tgt = "lib" THEN u.pkg.name ELSE u.tgt
Docs == {u \in DOMAIN units : u.mode = "doc"}
Colliding(u) == {v \in Docs : CrateName(v) = CrateName(u)}
DropHost(U) == IF world.noTarget THEN {u \in U : u.kind = "host"} \ roots ELSE {}
DropOlder(U) == {u \in U \ roots : \E v \in U : /\ v.pkg.name = u.pkg.name /\ v.pkg.src = u.pkg.src
                                                /\ v.kind = u.kind /\ v.pkg.vers > u.pkg.vers}
Removed(U) == IF Cardinality(U) = 1 THEN {}
              ELSE DropHost(U) \cup
                   (IF Cardinality(U \ DropHost(U)) <= 1 /\ world.noTarget THEN {}
                    ELSE DropOlder(U \ DropHost(U)))

DropDocs ==
    /\ phase = "docs"
    /\ LET gone == UNION {Removed(Colliding(u)) : u \in Docs}
           kept == [u \in DOMAIN units |-> {d \in units[u] : d.unit \notin gone}]
       IN  units' = Pruned(kept, roots \cup aux)
    /\ phase' = "sharing"
    /\ UNCHANGED <<world, graph, opts, eng, lock, prefs, todo, relocked, roots, aux, alias, profile>>

(* For comparison: how a crate panics does not matter.                     *)
SameFlagsButPanic(a, b) == [a EXCEPT !.debug = b.debug, !.strip = b.strip, !.panic = b.panic] = b
SameExceptDebuginfo(a, b) == [a EXCEPT !.debug = b.debug, !.strip = b.strip] = b
UnitFeatures(u) == Info(u.pkg, u.side).named

(* Sharing goes up from the units without dependencies; a host library or  *)
(* script run becomes the target unit if all its dependencies did.         *)
Sharable(u) == u.host /\ (u.mode = "run" \/ (u.mode = "build" /\ u.tgt = "lib" /\ ~ProcMacro(u.pkg)))
Twin(u, v) == /\ ~v.host /\ v.pkg = u.pkg /\ v.tgt = u.tgt /\ v.kind = u.kind /\ v.mode = u.mode
              /\ UnitFeatures(u) = UnitFeatures(v)
Now(u) == IF u \in DOMAIN alias THEN alias[u] ELSE u
Aliased(u) == {[unit |-> Now(d.unit), extern |-> d.extern] : d \in units[u]}
(* For comparison: whatever the dependencies became.                       *)
SharedWithAny(u) == {v \in DOMAIN units : Twin(u, v) /\ SameExceptDebuginfo(Profile(v), Profile(u))}
SharedWith(u) == {v \in DOMAIN units : /\ Twin(u, v)
                                       /\ SameExceptDebuginfo(Profile(v), Profile(u))
                                       /\ Aliased(v) = Aliased(u)}
Ready == {u \in DOMAIN units \ DOMAIN alias : {d.unit : d \in units[u]} \subseteq DOMAIN alias}

ShareOne ==
    /\ phase = "sharing" /\ world.noTarget /\ Ready # {}
    /\ LET u == Only(Ready)
           to == IF Sharable(u) /\ SharedWith(u) # {} THEN Only(SharedWith(u)) ELSE u
       IN  alias' = [v \in DOMAIN alias \cup {u} |-> IF v = u THEN to ELSE alias[v]]
    /\ UNCHANGED <<world, graph, opts, eng, lock, prefs, todo, relocked, phase, units, roots, aux, profile>>

FinishUnits ==
    /\ phase = "sharing"
    /\ IF world.noTarget
       THEN /\ Ready = {}
            /\ roots' = {Now(r) : r \in roots} /\ aux' = {Now(r) : r \in aux}
            /\ units' = Pruned([u \in DOMAIN units |-> Aliased(u)], roots' \cup aux')
       ELSE UNCHANGED <<roots, aux, units>>
    /\ phase' = "planning"
    /\ UNCHANGED <<world, graph, opts, eng, lock, prefs, todo, relocked, alias, profile>>
=============================================================================
