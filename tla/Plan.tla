-------------------------------- MODULE Plan --------------------------------
(***************************************************************************)
(* rb-core's plan.rs over a finished unit graph: which LTO each unit takes *)
(* part in, the rustc, rustdoc or build script invocation of each unit as  *)
(* far as it is hashed, and the names the hashes give.  Also the           *)
(* requirements build.rs derives from the plan.  A hash is a number: equal *)
(* for equal contents, new for new ones.                                   *)
(***************************************************************************)
EXTENDS UnitGraph

VARIABLES lto, stack,       \* LTO per visited unit; calls of propagate_lto to make
          content, hash,    \* what was hashed, in order; each unit's number
          libs              \* the libraries linked into each planned unit

pvars == <<lto, stack, content, hash, libs>>

U == DOMAIN units
TargetOfUnit(u) == Targets(u.pkg)[u.tgt]
LibCrate(u) == u.tgt = "lib" /\ ~ProcMacro(u.pkg)
MacroCrate(u) == u.tgt = "lib" /\ ProcMacro(u.pkg)
CrateTypes(u) == IF IsTest(u.mode) \/ Kind(u.pkg, u.tgt) = "bin" THEN {"bin"}
                 ELSE TargetOfUnit(u).types

NeedsObject(types) == types \cap {"bin", "staticlib", "cdylib", "dylib", "proc-macro"} # {}
WhenNeedsObject(types) == IF types = {"dylib"} THEN "OnlyObject" ELSE "ObjectAndBitcode"
HostOnly(u) == u.tgt = "build" \/ MacroCrate(u)
ProfileLto(u) == Profile(u).lto

RootLto(u) ==
    CASE ProfileLto(u) = "default" -> "OnlyObject"
      [] ProfileLto(u) = "off" -> "Off"
      [] OTHER -> IF HostOnly(u) THEN "OnlyObject"
                  ELSE IF NeedsObject(CrateTypes(u)) THEN WhenNeedsObject(CrateTypes(u))
                  ELSE "OnlyBitcode"

(* What a unit does under a parent: a linked artifact picks for itself.    *)
OwnLto(u, parent) ==
    LET types == CrateTypes(u) IN
    CASE HostOnly(u) -> "OnlyObject"
      [] ~HostOnly(u) /\ types \subseteq {"bin", "staticlib", "cdylib"} ->
           (CASE ProfileLto(u) = "default" -> "OnlyObject"
              [] ProfileLto(u) = "off" -> "Off"
              [] OTHER -> "Run")
      [] OTHER ->
           IF parent = "Run" /\ ~NeedsObject(types) THEN "OnlyBitcode"
           ELSE IF parent \in {"Run", "OnlyBitcode"} /\ NeedsObject(types) THEN WhenNeedsObject(types)
           ELSE parent

(* Consumers that disagree: the union.                                     *)
(* For comparison: the last consumer decides.                              *)
MergeLtoLast(a, b) == a
MergeLto(a, b) == IF a = b THEN a
                  ELSE IF "Run" \in {a, b} THEN "Run"
                  ELSE IF "Off" \in {a, b} THEN "Off" ELSE "ObjectAndBitcode"

InitPlan == /\ lto = NoEntries /\ stack = <<>> /\ content = <<>>
            /\ hash = NoEntries /\ libs = NoEntries

rest == <<world, graph, opts, eng, lock, prefs, todo, relocked, units, roots, aux, alias, profile>>

StartLto ==
    /\ phase = "planning" /\ phase' = "lto"
    /\ stack' = Batch({[unit |-> r, parent |-> RootLto(r)] : r \in roots \cup aux})
    /\ UNCHANGED <<rest, lto, content, hash, libs>>

(* A call is followed by those it makes, and then by the others of its     *)
(* caller.                                                                 *)
Call == Only(Head(stack))
Returned == Batch(Head(stack) \ {Call}) \o Tail(stack)

PropagateLto ==
    /\ phase = "lto" /\ stack # <<>>
    /\ LET u == Call.unit
           own == OwnLto(u, Call.parent)
           merged == IF u \in DOMAIN lto THEN MergeLto(own, lto[u]) ELSE own
           calls == {[unit |-> d.unit, parent |-> merged] : d \in units[u]}
       IN  IF u \in DOMAIN lto /\ merged = lto[u]
           THEN stack' = Returned /\ UNCHANGED lto
           ELSE /\ lto' = [v \in DOMAIN lto \cup {u} |-> IF v = u THEN merged ELSE lto[v]]
                /\ stack' = Batch(calls) \o Returned
    /\ UNCHANGED <<rest, phase, content, hash, libs>>

-----------------------------------------------------------------------------
(* The closures build.rs schedules by: through libraries but not           *)
(* proc-macros, from what was found for the dependencies.                  *)
Externs(u) == {d \in units[u] : d.extern # {}}
Behind(u) == {d.unit : d \in {x \in Externs(u) : LibCrate(x.unit)}}
LibClosure(u) == Behind(u) \cup UNION {libs[v] : v \in Behind(u)}
LibReqs(u) == {d.unit : d \in UNION {Externs(v) : v \in {u} \cup libs[u]}}
ToLink(u) == {d.unit : d \in {x \in UNION {units[v] : v \in {u} \cup libs[u]} : x.unit.mode = "run"}}
OwnRun(u) == {d.unit : d \in {x \in units[u] : x.unit.mode = "run" /\ x.unit.pkg = u.pkg}}

ProducesRlib(u) == ~IsTest(u.mode) /\ CrateTypes(u) \cap {"lib", "rlib"} # {}
MetadataEmit(u) == ProducesRlib(u) /\ CrateTypes(u) \subseteq {"lib", "rlib"}
Compiles(u) == u.mode \notin {"run", "doc"}
NeedsLink(u) == /\ Compiles(u) /\ ~IsCheck(u.mode)
                /\ (CrateTypes(u) \cap {"bin", "dylib", "cdylib", "staticlib"} # {} \/ MacroCrate(u))
EmitsMeta(u) == Compiles(u) /\ (IsCheck(u.mode) \/ MetadataEmit(u))

(* For comparison: libraries count as ordered-after as well.               *)
RequirementsUnsplit(u) ==
    LET need(l) == IF ~NeedsLink(u) /\ ~MacroCrate(l) /\ EmitsMeta(l) THEN "Meta" ELSE "Full" IN
    IF u.mode = "run" THEN {<<d.unit, "Full">> : d \in units[u]}
    ELSE {<<l, need(l)>> : l \in LibReqs(u)} \cup {<<d.unit, "Full">> : d \in units[u]}

(* build.rs: what has to be there before u runs, and how much of it.       *)
Requirements(u) ==
    LET need(l) == IF ~NeedsLink(u) /\ ~MacroCrate(l) /\ EmitsMeta(l) THEN "Meta" ELSE "Full" IN
    IF u.mode = "run" THEN {<<d.unit, "Full">> : d \in units[u]}
    ELSE {<<l, need(l)>> : l \in LibReqs(u)}
         \cup {<<r, "Full">> : r \in ToLink(u) \cup OwnRun(u)}
         \cup {<<d.unit, "Full">> : d \in {x \in units[u] : x.extern = {} /\ x.unit.mode # "run"}}

-----------------------------------------------------------------------------
(* The hashed part of an invocation.  An extern names the dependency's     *)
(* file: metadata if that is enough, else what it links.                   *)
ExternFile(d, rmetaOk) ==
    [as |-> d.extern, of |-> hash[d.unit],
     file |-> IF MacroCrate(d.unit) THEN "dylib"
              ELSE IF rmetaOk \/ IsCheck(d.unit.mode) THEN "rmeta"
              ELSE IF CrateTypes(d.unit) \cap {"lib", "rlib"} # {} THEN "rlib" ELSE "dylib"]
TargetFlag(u) == IF u.kind = "host" THEN {} ELSE {u.kind}
IsLocal(u) == IsPath(u.pkg)

EmitFlag(u) == IF IsCheck(u.mode) THEN "metadata"
               ELSE IF MetadataEmit(u) THEN "metadata,link" ELSE "link"
LtoFlag(u) == IF u \notin DOMAIN lto THEN <<"OnlyObject">>
              ELSE IF lto[u] = "Run" THEN <<"Run", ProfileLto(u)>> ELSE <<lto[u]>>
ExternFlags(u) == {ExternFile(d, ~NeedsLink(u) /\ EmitsMeta(d.unit)) : d \in Externs(u)}
BinExes(u) == {d.unit.tgt : d \in {x \in units[u] : /\ x.extern = {} /\ x.unit.mode = "build"
                                                    /\ Kind(x.unit.pkg, x.unit.tgt) = "bin"}}

Aborts(u) == Profile(u).panic = "abort" /\ ~u.host
CompileFlags(u) ==
    LET prof == Profile(u) IN
    [crate |-> u.tgt, types |-> CrateTypes(u), test |-> IsTest(u.mode), emit |-> EmitFlag(u),
     opt |-> prof.opt, debug |-> prof.debug, abort |-> Aborts(u), units |-> prof.units,
     strip |-> prof.strip, flags |-> prof.flags,
     lto |-> LtoFlag(u), features |-> UnitFeatures(u), target |-> TargetFlag(u),
     local |-> IsLocal(u), externs |-> ExternFlags(u), binExes |-> BinExes(u)]

DocFlags(u) ==
    [crate |-> u.tgt, types |-> TargetOfUnit(u).types, features |-> UnitFeatures(u),
     target |-> TargetFlag(u), local |-> IsLocal(u),
     externs |-> {ExternFile(d, TRUE) : d \in Externs(u)}]

Script(u) == Only({d.unit : d \in {x \in units[u] : x.unit.mode # "run" /\ x.unit.pkg = u.pkg}})
RunFlags(u) ==
    LET prof == Profile(u) IN
    [exe |-> hash[Script(u)], links |-> Manifest(u.pkg).links, features |-> UnitFeatures(u),
     target |-> TargetFlag(u), opt |-> prof.opt, debug |-> prof.debug # 0]

(* The name: mode, invocation, package and the dependencies' names.        *)
(* For comparison: without the package.                                    *)
HashedNoPackage(u) ==
    <<u.mode, u.pkg.name, {<<d.extern, hash[d.unit]>> : d \in units[u]},
      IF u.mode = "run" THEN RunFlags(u) ELSE IF u.mode = "doc" THEN DocFlags(u) ELSE CompileFlags(u)>>
Hashed(u) ==
    <<u.mode, u.pkg, {<<d.extern, hash[d.unit]>> : d \in units[u]},
      CASE u.mode = "run" -> <<"run", RunFlags(u)>>
        [] u.mode = "doc" -> <<"doc", DocFlags(u)>>
        [] OTHER -> <<"rustc", CompileFlags(u)>>>>

Plannable == {u \in U \ DOMAIN hash : {d.unit : d \in units[u]} \subseteq DOMAIN hash}

PlanUnit ==
    /\ phase = "lto" /\ stack = <<>> /\ Plannable # {}
    /\ LET u == Only(Plannable)
           seen == {k \in DOMAIN content : content[k] = Hashed(u)}
           k == IF seen = {} THEN Len(content) + 1 ELSE Only(seen)
       IN  /\ content' = IF seen = {} THEN Append(content, Hashed(u)) ELSE content
           /\ hash' = [v \in DOMAIN hash \cup {u} |-> IF v = u THEN k ELSE hash[v]]
           /\ libs' = [v \in DOMAIN hash' |-> IF v = u THEN LibClosure(u) ELSE libs[v]]
    /\ UNCHANGED <<rest, phase, lto, stack>>

FinishPlan ==
    /\ phase = "lto" /\ stack = <<>> /\ DOMAIN hash = U
    /\ phase' = "planned"
    /\ UNCHANGED <<rest, lto, stack, content, hash, libs>>
=============================================================================
