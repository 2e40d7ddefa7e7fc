--------------------------- MODULE PlanningProofs ---------------------------
(***************************************************************************)
(* What holds of every plan, whatever the manifests, the registries and    *)
(* the command: NamesTell, NeedsAgree, OneCopy, HostUnwinds and LtoServes  *)
(* of Planning; and of every run of the feature engine: FeaturesAreLeast.  *)
(***************************************************************************)
EXTENDS Planning, FiniteSetTheorems, WellFoundedInduction, TLAPS

UnitPhases == {"units", "docs", "sharing", "planning", "lto", "planned"}
Finished == {"planning", "lto", "planned"}

(* Nothing is there before its phase.                                      *)
NothingEarly ==
    /\ phase \notin UnitPhases => units = NoEntries
    /\ phase \notin {"sharing"} \cup Finished => alias = NoEntries
    /\ phase \notin {"lto", "planned"} => hash = NoEntries /\ libs = NoEntries /\ content = <<>>
    /\ ~world.noTarget => alias = NoEntries

(* What a unit may be.                                                     *)
UnitForm(u) ==
    /\ u = [pkg |-> u.pkg, tgt |-> u.tgt, kind |-> u.kind, host |-> u.host,
            mode |-> u.mode, side |-> u.side]
    /\ u.host \in BOOLEAN
    /\ u.host => u.kind = "host"
    /\ u.tgt = "build" => u.mode \in {"build", "run"} /\ (u.mode = "build" => u.host)
    /\ u.mode = "run" => u.tgt = "build"
    /\ u.tgt = "lib" /\ ProcMacro(u.pkg) => u.host
UnitForms == /\ phase = "units" => \A u \in roots \cup aux : UnitForm(u)
             /\ \A u \in DOMAIN units : UnitForm(u) /\ \A d \in units[u] : UnitForm(d.unit)

(* How a unit may need another: what is only ordered before it is a run of *)
(* a build script, documentation or a program.                             *)
IsProgram(u) == u.mode = "build" /\ Kind(u.pkg, u.tgt) = "bin"
OrderedOnly(u) == \A d \in units[u] :
    d.extern = {} /\ u.mode # "run" => d.unit.mode \in {"run", "doc"} \/ IsProgram(d.unit)
OwnScript(u) == u.mode = "run" =>
    \E d \in units[u] : d.unit.mode \notin {"run", "doc"} /\ d.unit.pkg = u.pkg
DepForms == \A u \in DOMAIN units : OrderedOnly(u) /\ OwnScript(u)

(* The libraries a unit is given are for its side, until host units are    *)
(* shared.                                                                 *)
LibFor(kind, host, x) == Unit(x.pkg, "lib", kind, host, x.mode)
GivesLib(d) == d.extern # {} /\ LibCrate(d.unit)
SideKept == phase \in {"units", "docs", "sharing"} =>
    \A u \in DOMAIN units : \A d \in units[u] :
        GivesLib(d) => d.unit = LibFor(u.kind, u.host, d.unit)

(* A host unit becomes itself or a unit of the target that differs only in *)
(* the side; its dependencies became what they are to be before.           *)
SameButSide(u, v) == /\ ~v.host /\ v.pkg = u.pkg /\ v.tgt = u.tgt
                     /\ v.kind = u.kind /\ v.mode = u.mode
AliasForms == \A w \in DOMAIN alias :
    /\ UnitForm(w) /\ UnitForm(alias[w])
    /\ alias[w] = w \/ (Sharable(w) /\ SameButSide(w, alias[w]))
SharedAbove == phase = "sharing" => \A w \in DOMAIN alias :
    /\ w \in DOMAIN units /\ alias[w] \in DOMAIN units
    /\ {d.unit : d \in units[w]} \subseteq DOMAIN alias
    /\ \A v \in {alias[w]} \ {w} : Aliased(v) = Aliased(w)

(* Afterwards: the libraries of what a host unit became are what the       *)
(* host's libraries became.                                                *)
OfHost(u) == u.host \/ \E h \in DOMAIN alias : h.host /\ alias[h] = u
Right(u, x) == /\ OfHost(u) => x = Now(LibFor("host", TRUE, x))
               /\ ~u.host => x = LibFor(u.kind, FALSE, x)
SidesAgree == phase \in Finished =>
    \A u \in DOMAIN units : \A d \in units[u] : GivesLib(d) => Right(u, d.unit)

(* The plan: what is planned has its dependencies planned, and its hash is *)
(* the number of its contents, which no later step changes.                *)
PlannedBelow ==
    /\ DOMAIN hash \subseteq DOMAIN units /\ DOMAIN libs = DOMAIN hash
    /\ \A u \in DOMAIN hash : {d.unit : d \in units[u]} \subseteq DOMAIN hash
    /\ phase = "planned" => DOMAIN hash = DOMAIN units
    /\ DOMAIN hash # {} => stack = <<>>
HashesStand ==
    /\ content \in Seq({content[k] : k \in DOMAIN content})
    /\ \A u \in DOMAIN hash : hash[u] \in DOMAIN content /\ content[hash[u]] = Hashed(u)
LibsRight == \A u \in DOMAIN libs : \A x \in libs[u] : Right(u, x)

(* No table for a package sets how it panics: cargo refuses that.          *)
PackagesKeep(field) ==
    \A i \in DOMAIN world.tomls : \A name \in DOMAIN world.tomls[i] :
        \A s \in DOMAIN world.tomls[i][name].package :
            field \notin DOMAIN world.tomls[i][name].package[s]
PackagesKeepPanic == PackagesKeep("panic")
Unwinding(p) == "panic" \in DOMAIN p /\ p.panic = "unwind"
PanicInv == PackagesKeepPanic =>
    /\ phase \in {"units", "docs", "sharing"} => DOMAIN units \subseteq DOMAIN profile
    /\ \A u \in DOMAIN profile : u.host => Unwinding(profile[u])
    /\ \A w \in DOMAIN alias : alias[w] = w \/ Unwinding(profile[alias[w]])

-----------------------------------------------------------------------------
(* The steps that resolve packages leave units and plan alone, and happen  *)
(* before and end before there are any.                                    *)
LEMMA ResolveFirst ==
    ASSUME ResolveStep
    PROVE  /\ phase \notin UnitPhases /\ phase' \notin UnitPhases
           /\ world' = world /\ UNCHANGED <<uvars, pvars>>
<1>1. CASE ReadLock BY <1>1 DEF ResolveStep, ReadLock, Relock, UnitPhases
<1>2. CASE Begin BY <1>2 DEF ResolveStep, Begin, StartBuild, UnitPhases
<1>3. CASE Request BY <1>3 DEF ResolveStep, Request, UnitPhases
<1>4. CASE Engine BY <1>4 DEF ResolveStep, Engine, UnitPhases
<1>5. CASE EngineFails BY <1>5 DEF ResolveStep, EngineFails, Drained, UnitPhases
<1>6. CASE LoadUnloaded BY <1>6 DEF ResolveStep, LoadUnloaded, UnitPhases
<1>7. CASE Select
  <2>1. PICK n, i : \/ SelectFixed(n, i)    \/ SelectPatched(n, i)
                    \/ SelectExisting(n, i) \/ SelectLocked(n, i)
                    \/ SelectNewest(n, i)   \/ SelectNothing(n, i)
    BY <1>7 DEF Select
  <2>2. phase = "selecting" /\ world' = world BY <1>7 DEF Select
  <2>3. ASSUME NEW gr, NEW t, Choose(gr, n, i, t) PROVE phase' \in {"failed", phase}
    BY <2>3 DEF Choose
  <2>4. phase' \in {"failed", phase}
    BY <2>1, <2>3 DEF SelectFixed, SelectPatched, SelectExisting, SelectLocked, SelectNewest, SelectNothing
  <2> QED BY <2>2, <2>4 DEF ResolveStep, UnitPhases
<1>8. CASE NextRound BY <1>8 DEF ResolveStep, NextRound, UnitPhases
<1>9. CASE CommitLock BY <1>9 DEF ResolveStep, CommitLock, UnitPhases
<1>10. CASE BuildMissing BY <1>10 DEF ResolveStep, BuildMissing, Relock, UnitPhases
<1>11. CASE BuildLoad BY <1>11 DEF ResolveStep, BuildLoad, UnitPhases
<1>12. CASE BuildDone BY <1>12 DEF ResolveStep, BuildDone, UnitPhases
<1>13. CASE Update BY <1>13 DEF ResolveStep, Update, UnitPhases
<1> QED BY <1>1, <1>2, <1>3, <1>4, <1>5, <1>6, <1>7, <1>8, <1>9, <1>10, <1>11, <1>12, <1>13
        DEF ResolveStep

-----------------------------------------------------------------------------
(* What units depend on.                                                   *)
LEMMA LibUnitForm ==
    ASSUME NEW p, NEW k, NEW host \in BOOLEAN, host => k = "host", NEW parent
    PROVE  LET l == LibUnit(p, k, host, parent) IN
           /\ UnitForm(l) /\ l.pkg = p /\ l.tgt = "lib" /\ l.mode \in {"build", "check"}
           /\ LibCrate(l) => l = LibFor(k, host, l)
<1>1. CASE ProcMacro(p)
  <2>1. LibUnit(p, k, host, parent) = Unit(p, "lib", "host", TRUE, "build")
    BY <1>1 DEF LibUnit
  <2> QED BY <1>1, <2>1 DEF Unit, UnitForm, LibCrate
<1>2. CASE ~ProcMacro(p)
  <2>1. PICK m \in {"build", "check"} : LibUnit(p, k, host, parent) = Unit(p, "lib", k, host, m)
    BY <1>2 DEF LibUnit
  <2> QED BY <1>2, <2>1 DEF Unit, UnitForm, LibFor
<1> QED BY <1>1, <1>2

LEMMA LibDepsForm ==
    ASSUME NEW p, NEW k, NEW host, NEW depKind, NEW parent,
           NEW d \in LibDeps(p, k, host, depKind, parent)
    PROVE  d.extern # {} /\ \E t : d.unit = LibUnit(t, k, host, parent)
<1>1. PICK i \in Enabled(p, k, host, depKind) :
        d \in {[unit |-> LibUnit(t, k, host, parent), extern |-> {NodeDeps(p)[i].name}] :
                t \in {x \in Target(p, i) : HasLib(x)}}
  BY DEF LibDeps
<1>2. PICK t : d = [unit |-> LibUnit(t, k, host, parent), extern |-> {NodeDeps(p)[i].name}]
  BY <1>1
<1> QED BY <1>2

(* How a unit may need one unit it depends on.                             *)
DepForm(u, d) ==
    /\ UnitForm(d.unit)
    /\ d.extern = {} /\ u.mode # "run" => d.unit.mode \in {"run", "doc"} \/ IsProgram(d.unit)
    /\ GivesLib(d) => d.unit = LibFor(u.kind, u.host, d.unit)

LEMMA AfterForm ==
    ASSUME NEW S, NEW d \in After(S)
    PROVE  d.extern = {} /\ d.unit \in S
BY DEF After

LEMMA CompileDepForm ==
    ASSUME NEW u, UnitForm(u), NEW d \in CompileDeps(u)
    PROVE  DepForm(u, d)
<1> DEFINE p == u.pkg
           kind == Kind(p, u.tgt)
           dev == IsTest(u.mode) \/ kind \in {"example", "test", "bench"}
           libs1 == LibDeps(p, u.kind, u.host, "normal", u.mode)
                    \cup (IF dev THEN LibDeps(p, u.kind, u.host, "dev", u.mode) ELSE {})
           docs == IF u.mode = "doc" /\ world.cmd.docDeps
                   THEN {[e.unit EXCEPT !.mode = "doc"] : e \in {x \in libs1 : Documented(x.unit)}} ELSE {}
           run == IF HasScript(p) THEN {RunUnit(p, u.kind, u.host)} ELSE {}
           lib == LibUnit(p, u.kind, u.host, u.mode)
           own == IF kind = "lib" \/ ~HasLib(p) THEN {} ELSE
                  {[unit |-> lib, extern |-> {p.name}]}
                  \cup After(IF u.mode = "doc" THEN {[lib EXCEPT !.mode = "doc"]} ELSE {})
           bins == IF kind \in {"test", "bench"} /\ u.mode \in {"test", "bench", "build"}
                   THEN {Unit(p, b, u.kind, u.host, "build") :
                           b \in {t \in DOMAIN Targets(p) : Kind(p, t) = "bin" /\ FeaturesOk(p, t, u.host)}}
                   ELSE {}
<1>1. d \in libs1 \cup After(docs \cup run \cup bins) \cup own
  BY DEF CompileDeps
<1>2. u.host \in BOOLEAN /\ (u.host => u.kind = "host")
  BY DEF UnitForm
<1> HIDE DEF lib, libs1
<1>3. /\ UnitForm(lib) /\ lib.tgt = "lib"
      /\ LibCrate(lib) => lib = LibFor(u.kind, u.host, lib)
  BY <1>2, LibUnitForm DEF lib
<1>4. ASSUME NEW e \in libs1
      PROVE  /\ e.extern # {} /\ UnitForm(e.unit) /\ e.unit.tgt = "lib"
             /\ LibCrate(e.unit) => e.unit = LibFor(u.kind, u.host, e.unit)
  <2>1. e.extern # {} /\ \E t : e.unit = LibUnit(t, u.kind, u.host, u.mode)
    BY LibDepsForm, <1>4 DEF libs1
  <2> QED BY <1>2, <2>1, LibUnitForm
<1>5. ASSUME NEW l, UnitForm(l), l.tgt = "lib"
      PROVE  UnitForm([l EXCEPT !.mode = "doc"]) /\ [l EXCEPT !.mode = "doc"].mode = "doc"
  BY <1>5 DEF UnitForm
<1>6. CASE d \in libs1 BY <1>4, <1>6 DEF DepForm, GivesLib
<1>7. CASE d \in After(docs)
  <2>1. d.extern = {} /\ d.unit \in docs BY <1>7, AfterForm
  <2>2. UnitForm(d.unit) /\ d.unit.mode = "doc" BY <2>1, <1>4, <1>5
  <2> QED BY <2>1, <2>2 DEF DepForm, GivesLib
<1>8. CASE d \in After(run)
  <2>1. d.extern = {} /\ d.unit = RunUnit(p, u.kind, u.host) BY <1>8, AfterForm
  <2>2. UnitForm(d.unit) /\ d.unit.mode = "run" BY <2>1, <1>2 DEF RunUnit, Unit, UnitForm
  <2> QED BY <2>1, <2>2 DEF DepForm, GivesLib
<1>9. CASE d \in After(bins)
  <2>1. d.extern = {} /\ d.unit \in bins BY <1>9, AfterForm
  <2>2. PICK b : d.unit = Unit(p, b, u.kind, u.host, "build") /\ Kind(p, b) = "bin" BY <2>1
  <2>3. b \notin {"lib", "build"} BY <2>2 DEF Kind
  <2>4. UnitForm(d.unit) /\ IsProgram(d.unit) BY <1>2, <2>2, <2>3 DEF Unit, UnitForm, IsProgram
  <2> QED BY <2>1, <2>4 DEF DepForm, GivesLib
<1>10. CASE d \in own
  <2>1. CASE d = [unit |-> lib, extern |-> {p.name}] BY <2>1, <1>3 DEF DepForm, GivesLib
  <2>2. CASE d \in After({[lib EXCEPT !.mode = "doc"]})
    <3>1. d.extern = {} /\ d.unit = [lib EXCEPT !.mode = "doc"] BY <2>2, AfterForm
    <3>2. UnitForm(d.unit) /\ d.unit.mode = "doc" BY <3>1, <1>3, <1>5
    <3> QED BY <3>1, <3>2 DEF DepForm, GivesLib
  <2>3. After({}) = {} BY DEF After
  <2> QED BY <1>10, <2>1, <2>2, <2>3
<1>11. After(docs \cup run \cup bins) = After(docs) \cup After(run) \cup After(bins)
  BY DEF After
<1> QED BY <1>1, <1>6, <1>7, <1>8, <1>9, <1>10, <1>11

LEMMA RunDepForm ==
    ASSUME NEW u, UnitForm(u), u.mode = "run", NEW d \in RunDeps(u)
    PROVE  DepForm(u, d)
<1>1. /\ d.extern = {}
      /\ d.unit = ScriptUnit(u.pkg, u.host) \/ \E t : d.unit = RunUnit(t, u.kind, u.host)
  BY AfterForm DEF RunDeps
<1>4. UnitForm(ScriptUnit(u.pkg, u.host)) BY DEF ScriptUnit, UnitForm
<1>3. ASSUME NEW t PROVE UnitForm(RunUnit(t, u.kind, u.host)) BY DEF RunUnit, Unit, UnitForm
<1> QED BY <1>1, <1>3, <1>4 DEF DepForm, GivesLib

LEMMA ScriptDepForm ==
    ASSUME NEW u, UnitForm(u), u.tgt = "build", u.mode = "build", NEW d \in ScriptDeps(u)
    PROVE  DepForm(u, d)
<1>1. PICK t, name : d = [unit |-> Unit(t, "lib", "host", TRUE, "build"), extern |-> {name}]
  BY DEF ScriptDeps
<1>2. u.host /\ u.host = TRUE /\ u.kind = "host" BY DEF UnitForm
<1>3. /\ UnitForm(d.unit) /\ d.extern # {}
      /\ d.unit = LibFor(u.kind, u.host, d.unit)
  BY <1>1, <1>2 DEF Unit, UnitForm, LibFor
<1> QED BY <1>3 DEF DepForm, GivesLib

LEMMA DepsForm ==
    ASSUME NEW u, UnitForm(u)
    PROVE  /\ \A d \in UnitDeps(u) : DepForm(u, d)
           /\ u.mode = "run" =>
                \E d \in UnitDeps(u) : d.unit.mode \notin {"run", "doc"} /\ d.unit.pkg = u.pkg
<1>1. CASE u.mode = "run"
  <2>1. UnitDeps(u) = RunDeps(u) BY <1>1 DEF UnitDeps
  <2>2. [unit |-> ScriptUnit(u.pkg, u.host), extern |-> {}] \in RunDeps(u)
    BY DEF RunDeps, After
  <2>3. ScriptUnit(u.pkg, u.host).mode = "build" /\ ScriptUnit(u.pkg, u.host).pkg = u.pkg
    BY DEF ScriptUnit, Unit
  <2> QED BY <1>1, <2>1, <2>2, <2>3, RunDepForm
<1>2. CASE u.mode # "run" /\ u.tgt = "build" /\ u.mode = "build"
  BY <1>2, ScriptDepForm DEF UnitDeps
<1>3. CASE u.mode # "run" /\ ~(u.tgt = "build" /\ u.mode = "build")
  BY <1>3, CompileDepForm DEF UnitDeps
<1> QED BY <1>1, <1>2, <1>3

-----------------------------------------------------------------------------
LEMMA EarlyStep ==
    ASSUME NothingEarly, [Next]_allVars
    PROVE  NothingEarly'
<1> USE DEF NothingEarly, UnitPhases, Finished
<1>1. CASE ResolveStep BY <1>1, ResolveFirst DEF uvars, pvars
<1>2. CASE UnitStep
  <2>1. hash' = hash /\ libs' = libs /\ content' = content BY <1>2 DEF UnitStep, pvars
  <2>2. CASE BuildUnits BY <2>1, <2>2 DEF BuildUnits
  <2>3. CASE Intern BY <2>1, <2>3 DEF Intern
  <2>4. CASE EndUnits BY <2>1, <2>4 DEF EndUnits, uvars
  <2>5. CASE DropDocs BY <2>1, <2>5 DEF DropDocs
  <2>6. CASE ShareOne BY <2>1, <2>6 DEF ShareOne
  <2>7. CASE FinishUnits BY <2>1, <2>7 DEF FinishUnits
  <2> QED BY <1>2, <2>2, <2>3, <2>4, <2>5, <2>6, <2>7 DEF UnitStep
<1>3. CASE StartLto BY <1>3 DEF StartLto, rest
<1>4. CASE PropagateLto BY <1>4 DEF PropagateLto, rest
<1>5. CASE PlanUnit BY <1>5 DEF PlanUnit, rest
<1>6. CASE FinishPlan BY <1>6 DEF FinishPlan, rest
<1>7. CASE Stop \/ UNCHANGED allVars BY <1>7 DEF Stop, allVars, vars, uvars, pvars
<1> QED BY <1>1, <1>2, <1>3, <1>4, <1>5, <1>6, <1>7 DEF Next, PlanStep

-----------------------------------------------------------------------------
(* The targets a command starts from.                                      *)
LEMMA RootForm ==
    ASSUME NEW u \in Roots
    PROVE  UnitForm(u)
<1>1. PICK x \in SelectedTargets, k \in RequestedKinds : u = RootUnit(x[1], x[2], k)
  BY DEF Roots
<1>2. Wanted(x[1], x[2]) BY DEF SelectedTargets
<1>3. Kind(x[1], x[2]) # "build" BY <1>2 DEF Wanted, ByDefault
<1>4. x[2] # "build" BY <1>3 DEF Kind
<1>5. RootMode(x[1], x[2]) # "run" BY DEF RootMode
<1>6. CASE ProcMacro(x[1]) /\ x[2] = "lib"
  <2>1. u = Unit(x[1], x[2], "host", TRUE, RootMode(x[1], x[2])) BY <1>1, <1>6 DEF RootUnit
  <2> QED BY <2>1, <1>4, <1>5, <1>6 DEF Unit, UnitForm
<1>7. CASE ~(ProcMacro(x[1]) /\ x[2] = "lib")
  <2>1. u = Unit(x[1], x[2], k, FALSE, RootMode(x[1], x[2])) BY <1>1, <1>7 DEF RootUnit
  <2> QED BY <2>1, <1>4, <1>5, <1>7 DEF Unit, UnitForm
<1> QED BY <1>6, <1>7

LEMMA DoctestRootForm ==
    ASSUME NEW u \in DoctestRoots
    PROVE  UnitForm(u)
<1> DEFINE k(p) == IF ProcMacro(p) \/ world.noTarget THEN "host" ELSE world.firstKind
<1>1. PICK p : u \in {LibUnit(p, k(p), FALSE, "build")}
                     \cup {d.unit : d \in LibDeps(p, k(p), ProcMacro(p), "dev", "build")}
  BY DEF DoctestRoots
<1>2. CASE u = LibUnit(p, k(p), FALSE, "build") BY <1>2, LibUnitForm
<1>3. ASSUME NEW d \in LibDeps(p, k(p), ProcMacro(p), "dev", "build"), u = d.unit
      PROVE  UnitForm(u)
  <2>1. PICK t : u = LibUnit(t, k(p), ProcMacro(p), "build") BY <1>3, LibDepsForm
  <2>2. CASE ProcMacro(p)
    <3>1. k(p) = "host" BY <2>2
    <3>2. ProcMacro(p) = TRUE BY <2>2 DEF ProcMacro
    <3> HIDE DEF k
    <3>3. u = LibUnit(t, k(p), TRUE, "build") BY <2>1, <3>2
    <3> QED BY <3>1, <3>3, LibUnitForm
  <2>3. CASE ~ProcMacro(p)
    <3>1. ProcMacro(p) = FALSE BY <2>3 DEF ProcMacro
    <3> HIDE DEF k
    <3>2. u = LibUnit(t, k(p), FALSE, "build") BY <2>1, <3>1
    <3> QED BY <3>2, LibUnitForm
  <2> QED BY <2>2, <2>3
<1> QED BY <1>1, <1>2, <1>3

-----------------------------------------------------------------------------
(* What the steps do to the graph of units.                                *)
LEMMA OtherStep ==
    ASSUME NothingEarly, [Next]_allVars,
           ~BuildUnits, ~Intern, ~DropDocs, ~ShareOne, ~FinishUnits
    PROVE  /\ UNCHANGED <<world, units, roots, aux, alias, profile>>
           /\ phase' = "units" => phase = "units"
           /\ phase' \in {"units", "docs", "sharing"} => phase \in {"units", "docs"} \/ phase = "sharing"
           /\ phase' = "sharing" => phase = "sharing" \/ alias = NoEntries
           /\ phase' \in Finished => phase \in Finished
<1> USE DEF NothingEarly, UnitPhases, Finished
<1>1. CASE ResolveStep BY <1>1, ResolveFirst DEF uvars
<1>2. CASE EndUnits BY <1>2 DEF EndUnits, uvars
<1>3. CASE StartLto BY <1>3 DEF StartLto, rest
<1>4. CASE PropagateLto BY <1>4 DEF PropagateLto, rest
<1>5. CASE PlanUnit BY <1>5 DEF PlanUnit, rest
<1>6. CASE FinishPlan BY <1>6 DEF FinishPlan, rest
<1>7. CASE Stop \/ UNCHANGED allVars BY <1>7 DEF Stop, allVars, vars, uvars, pvars
<1> QED BY <1>1, <1>2, <1>3, <1>4, <1>5, <1>6, <1>7 DEF Next, UnitStep, PlanStep

LEMMA PrunedForm ==
    ASSUME NEW D, NEW start
    PROVE  /\ DOMAIN Pruned(D, start) \subseteq DOMAIN D
           /\ \A u \in DOMAIN Pruned(D, start) : Pruned(D, start)[u] = D[u]
BY DEF Pruned

LEMMA BuildUnitsStep ==
    ASSUME NothingEarly, BuildUnits
    PROVE  /\ DOMAIN units = {} /\ DOMAIN alias = {}
           /\ UNCHANGED <<world, units, alias, profile>>
           /\ phase' = "units" => roots' = Roots /\ aux' = DoctestRoots
           /\ phase' \in {"units", "failed"}
BY DEF BuildUnits, NothingEarly, UnitPhases, Finished, NoEntries

(* The unit interned next.                                                 *)
NextUnit == {Only(Uninterned)}

LEMMA InternStep ==
    ASSUME Intern
    PROVE  /\ UNCHANGED <<world, roots, aux, alias>>
           /\ phase = "units" /\ phase' = "units"
           /\ NextUnit \subseteq Uninterned
           /\ DOMAIN units' = DOMAIN units \cup NextUnit
           /\ \A u \in DOMAIN units : units'[u] = units[u]
           /\ \A u \in NextUnit : u \notin DOMAIN units /\ units'[u] = UnitDeps(u)
<1> DEFINE new == Only(Uninterned)
<1>1. new \in Uninterned BY DEF Intern, Only
<1>2. new \notin DOMAIN units BY <1>1 DEF Uninterned
<1>3. NextUnit = {new} BY DEF NextUnit
<1>4. /\ UNCHANGED <<world, roots, aux, alias>>
      /\ phase = "units" /\ phase' = "units"
      /\ units' = [u \in DOMAIN units \cup {new} |->
                      IF u \in DOMAIN units THEN units[u] ELSE UnitDeps(u)]
  BY DEF Intern
<1> HIDE DEF new
<1> QED BY <1>1, <1>2, <1>3, <1>4

LEMMA DropDocsStep ==
    ASSUME DropDocs
    PROVE  /\ UNCHANGED <<world, alias, profile>>
           /\ phase = "docs" /\ phase' = "sharing"
           /\ DOMAIN units' \subseteq DOMAIN units
           /\ \A u \in DOMAIN units' : /\ units'[u] \subseteq units[u]
                                      /\ \A d \in units[u] : d.unit.mode # "doc" => d \in units'[u]
<1> DEFINE gone == UNION {Removed(Colliding(u)) : u \in Docs}
           left == [u \in DOMAIN units |-> {d \in units[u] : d.unit \notin gone}]
<1>1. UNCHANGED <<world, alias, profile>> /\ phase = "docs" /\ phase' = "sharing"
  BY DEF DropDocs
<1>2. \A v \in gone : v.mode = "doc"
  <2>1. ASSUME NEW u \in Docs, NEW v \in Removed(Colliding(u)) PROVE v \in Docs
    <3>1. v \in Colliding(u) BY <2>1 DEF Removed, DropHost, DropOlder
    <3> QED BY <3>1 DEF Colliding
  <2> QED BY <2>1 DEF Docs
<1>3. /\ DOMAIN left = DOMAIN units
      /\ \A u \in DOMAIN units : left[u] = {d \in units[u] : d.unit \notin gone}
  OBVIOUS
<1>6. PICK start : units' = Pruned(left, start) BY DEF DropDocs
<1> HIDE DEF left, gone
<1>4. /\ DOMAIN units' \subseteq DOMAIN units
      /\ \A u \in DOMAIN units' : units'[u] = {d \in units[u] : d.unit \notin gone}
  BY <1>3, <1>6, PrunedForm
<1>5. ASSUME NEW u \in DOMAIN units'
      PROVE  /\ units'[u] \subseteq units[u]
             /\ \A d \in units[u] : d.unit.mode # "doc" => d \in units'[u]
  BY <1>2, <1>4
<1> QED BY <1>1, <1>4, <1>5

LEMMA FinishUnitsStep ==
    ASSUME FinishUnits
    PROVE  /\ UNCHANGED <<world, alias, profile>>
           /\ phase = "sharing" /\ phase' = "planning"
           /\ ~world.noTarget => UNCHANGED units
           /\ world.noTarget => /\ DOMAIN units' \subseteq DOMAIN units
                                /\ \A u \in DOMAIN units' : units'[u] = Aliased(u)
<1> DEFINE shared == [u \in DOMAIN units |-> Aliased(u)]
<1>1. /\ UNCHANGED <<world, alias, profile>> /\ phase = "sharing" /\ phase' = "planning"
      /\ ~world.noTarget => UNCHANGED units
  BY DEF FinishUnits
<1>2. ASSUME world.noTarget
      PROVE  /\ DOMAIN units' \subseteq DOMAIN units
             /\ \A u \in DOMAIN units' : units'[u] = Aliased(u)
  <2>1. PICK start : units' = Pruned(shared, start) BY <1>2 DEF FinishUnits
  <2>2. DOMAIN shared = DOMAIN units /\ \A u \in DOMAIN units : shared[u] = Aliased(u) OBVIOUS
  <2> HIDE DEF shared
  <2> QED BY <2>1, <2>2, PrunedForm
<1> QED BY <1>1, <1>2

LEMMA NowForm ==
    ASSUME AliasForms, NEW x
    PROVE  /\ Now(x).pkg = x.pkg /\ Now(x).tgt = x.tgt
           /\ Now(x).kind = x.kind /\ Now(x).mode = x.mode
           /\ UnitForm(x) => UnitForm(Now(x))
           /\ ~x.host => Now(x) = x
           /\ x.host => OfHost(Now(x))
BY DEF AliasForms, Now, SameButSide, Sharable, OfHost

-----------------------------------------------------------------------------
(* The invariant of the graph of units, kept by every step.                *)
GraphInv == NothingEarly /\ UnitForms /\ DepForms /\ SideKept /\ AliasForms /\ SharedAbove /\ SidesAgree

LEMMA UninternedForm ==
    ASSUME UnitForms, phase = "units", NEW u \in Uninterned
    PROVE  UnitForm(u)
BY DEF UnitForms, Uninterned

LEMMA UnitFormsStep ==
    ASSUME GraphInv, [Next]_allVars
    PROVE  UnitForms'
<1> USE DEF GraphInv
<1>1. CASE BuildUnits
  <2>1. phase' = "units" => \A u \in roots' \cup aux' : UnitForm(u)
    BY <1>1, BuildUnitsStep, RootForm, DoctestRootForm
  <2> QED BY <1>1, <2>1, BuildUnitsStep DEF UnitForms
<1>2. CASE Intern
  <2>1. ASSUME NEW u \in DOMAIN units', NEW d \in units'[u]
        PROVE  UnitForm(u) /\ UnitForm(d.unit)
    <3>1. CASE u \in DOMAIN units BY <1>2, <2>1, <3>1, InternStep DEF UnitForms
    <3>2. CASE u \in NextUnit
      <4>1. UnitForm(u) BY <1>2, <3>2, InternStep, UninternedForm
      <4>2. d \in UnitDeps(u) BY <1>2, <2>1, <3>2, InternStep
      <4> QED BY <4>1, <4>2, DepsForm DEF DepForm
    <3> QED BY <1>2, <2>1, <3>1, <3>2, InternStep
  <2>2. ASSUME NEW u \in DOMAIN units' PROVE UnitForm(u)
    BY <1>2, <2>2, InternStep, UninternedForm DEF UnitForms
  <2> QED BY <1>2, <2>1, <2>2, InternStep DEF UnitForms
<1>3. CASE DropDocs BY <1>3, DropDocsStep DEF UnitForms
<1>4. CASE ShareOne BY <1>4 DEF ShareOne, UnitForms
<1>5. CASE FinishUnits
  <2>1. CASE ~world.noTarget BY <1>5, <2>1, FinishUnitsStep DEF UnitForms
  <2>2. CASE world.noTarget
    <3>1. ASSUME NEW u \in DOMAIN units', NEW d \in units'[u]
          PROVE  UnitForm(d.unit)
      <4>1. u \in DOMAIN units /\ d \in Aliased(u) BY <1>5, <2>2, <3>1, FinishUnitsStep
      <4>2. PICK e \in units[u] : d.unit = Now(e.unit) BY <4>1 DEF Aliased
      <4> QED BY <4>1, <4>2, NowForm DEF UnitForms
    <3> QED BY <1>5, <2>2, <3>1, FinishUnitsStep DEF UnitForms
  <2> QED BY <2>1, <2>2
<1> QED BY <1>1, <1>2, <1>3, <1>4, <1>5, OtherStep DEF UnitForms

LEMMA DepFormsStep ==
    ASSUME GraphInv, [Next]_allVars
    PROVE  DepForms'
<1> USE DEF GraphInv
<1>1. CASE BuildUnits BY <1>1, BuildUnitsStep DEF DepForms
<1>2. CASE Intern
  <2>1. ASSUME NEW u \in DOMAIN units' PROVE (OrderedOnly(u) /\ OwnScript(u))'
    <3>1. CASE u \in DOMAIN units
      BY <1>2, <3>1, InternStep DEF DepForms, OrderedOnly, OwnScript
    <3>2. CASE u \in NextUnit
      <4>1. UnitForm(u) BY <1>2, <3>2, InternStep, UninternedForm
      <4>2. units'[u] = UnitDeps(u) BY <1>2, <3>2, InternStep
      <4> QED BY <4>1, <4>2, DepsForm DEF DepForm, OrderedOnly, OwnScript
    <3> QED BY <1>2, <2>1, <3>1, <3>2, InternStep
  <2> QED BY <2>1 DEF DepForms
<1>3. CASE DropDocs
  <2>1. ASSUME NEW u \in DOMAIN units' PROVE (OrderedOnly(u) /\ OwnScript(u))'
    <3>1. /\ u \in DOMAIN units /\ units'[u] \subseteq units[u]
          /\ \A d \in units[u] : d.unit.mode # "doc" => d \in units'[u]
      BY <1>3, <2>1, DropDocsStep
    <3> QED BY <3>1 DEF DepForms, OrderedOnly, OwnScript
  <2> QED BY <2>1 DEF DepForms
<1>4. CASE ShareOne BY <1>4 DEF ShareOne, DepForms, OrderedOnly, OwnScript
<1>5. CASE FinishUnits
  <2>1. CASE ~world.noTarget
    BY <1>5, <2>1, FinishUnitsStep DEF DepForms, OrderedOnly, OwnScript
  <2>2. CASE world.noTarget
    <3>1. ASSUME NEW u \in DOMAIN units' PROVE (OrderedOnly(u) /\ OwnScript(u))'
      <4>1. u \in DOMAIN units /\ units'[u] = Aliased(u) BY <1>5, <2>2, <3>1, FinishUnitsStep
      <4>2. ASSUME NEW d \in units'[u]
            PROVE  \E e \in units[u] : d.unit = Now(e.unit) /\ d.extern = e.extern
        BY <4>1, <4>2 DEF Aliased
      <4>3. ASSUME NEW e \in units[u]
            PROVE  \E d \in units'[u] : d.unit = Now(e.unit)
        <5>1. [unit |-> Now(e.unit), extern |-> e.extern] \in units'[u] BY <4>1 DEF Aliased
        <5> QED BY <5>1
      <4>4. OrderedOnly(u)' BY <4>1, <4>2, NowForm DEF DepForms, OrderedOnly, IsProgram
      <4>5. OwnScript(u)'
        <5>1. OwnScript(u) BY <4>1 DEF DepForms
        <5>2. SUFFICES ASSUME u.mode = "run"
                       PROVE  \E d \in units'[u] : d.unit.mode \notin {"run", "doc"} /\ d.unit.pkg = u.pkg
          BY DEF OwnScript
        <5>3. PICK e \in units[u] : e.unit.mode \notin {"run", "doc"} /\ e.unit.pkg = u.pkg
          BY <5>1, <5>2 DEF OwnScript
        <5>4. PICK d \in units'[u] : d.unit = Now(e.unit) BY <4>3
        <5>5. Now(e.unit).mode = e.unit.mode /\ Now(e.unit).pkg = e.unit.pkg BY NowForm
        <5> QED BY <5>3, <5>4, <5>5
      <4> QED BY <4>4, <4>5
    <3> QED BY <3>1 DEF DepForms
  <2> QED BY <2>1, <2>2
<1> QED BY <1>1, <1>2, <1>3, <1>4, <1>5, OtherStep DEF DepForms, OrderedOnly, OwnScript

LEMMA SideKeptStep ==
    ASSUME GraphInv, [Next]_allVars
    PROVE  SideKept'
<1> USE DEF GraphInv
<1>1. CASE BuildUnits BY <1>1, BuildUnitsStep DEF SideKept
<1>2. CASE Intern
  <2>1. ASSUME NEW u \in DOMAIN units', NEW d \in units'[u], GivesLib(d)
        PROVE  d.unit = LibFor(u.kind, u.host, d.unit)
    <3>1. CASE u \in DOMAIN units BY <1>2, <2>1, <3>1, InternStep DEF SideKept
    <3>2. CASE u \in NextUnit
      <4>1. UnitForm(u) BY <1>2, <3>2, InternStep, UninternedForm
      <4>2. d \in UnitDeps(u) BY <1>2, <2>1, <3>2, InternStep
      <4> QED BY <2>1, <4>1, <4>2, DepsForm DEF DepForm
    <3> QED BY <1>2, <2>1, <3>1, <3>2, InternStep
  <2> QED BY <2>1 DEF SideKept
<1>3. CASE DropDocs BY <1>3, DropDocsStep DEF SideKept
<1>4. CASE ShareOne BY <1>4 DEF ShareOne, SideKept
<1>5. CASE FinishUnits BY <1>5, FinishUnitsStep DEF SideKept
<1> QED BY <1>1, <1>2, <1>3, <1>4, <1>5, OtherStep DEF SideKept

-----------------------------------------------------------------------------
(* Sharing.                                                                *)
LEMMA OnlyIn ==
    ASSUME NEW S, S # {}
    PROVE  Only(S) \in S
BY DEF Only

LEMMA ShareOneStep ==
    ASSUME ShareOne
    PROVE  \E u, to :
              /\ u \in DOMAIN units \ DOMAIN alias
              /\ alias' = [v \in DOMAIN alias \cup {u} |-> IF v = u THEN to ELSE alias[v]]
              /\ {d.unit : d \in units[u]} \subseteq DOMAIN alias
              /\ to = u \/ (Sharable(u) /\ to \in SharedWith(u))
              /\ UNCHANGED <<world, units, roots, aux, profile>>
              /\ world.noTarget /\ phase = "sharing" /\ phase' = "sharing"
<1> DEFINE u == Only(Ready)
           to == IF Sharable(u) /\ SharedWith(u) # {} THEN Only(SharedWith(u)) ELSE u
<1>1. /\ alias' = [v \in DOMAIN alias \cup {u} |-> IF v = u THEN to ELSE alias[v]]
      /\ UNCHANGED <<world, units, roots, aux, profile>>
      /\ world.noTarget /\ phase = "sharing" /\ phase' = "sharing" /\ Ready # {}
  BY DEF ShareOne
<1>2. u \in Ready BY <1>1, OnlyIn
<1>3. u \in DOMAIN units \ DOMAIN alias /\ {d.unit : d \in units[u]} \subseteq DOMAIN alias
  BY <1>2 DEF Ready
<1>4. to = u \/ (Sharable(u) /\ to \in SharedWith(u))
  BY OnlyIn
<1> HIDE DEF u, to
<1> QED BY <1>1, <1>3, <1>4

LEMMA AliasFormsStep ==
    ASSUME GraphInv, [Next]_allVars
    PROVE  AliasForms'
<1> USE DEF GraphInv
<1>1. CASE ShareOne
  <2>1. PICK u, to :
              /\ u \in DOMAIN units \ DOMAIN alias
              /\ alias' = [v \in DOMAIN alias \cup {u} |-> IF v = u THEN to ELSE alias[v]]
              /\ to = u \/ (Sharable(u) /\ to \in SharedWith(u))
    BY <1>1, ShareOneStep
  <2>2. UnitForm(u) /\ UnitForm(to) BY <2>1 DEF UnitForms, SharedWith
  <2>3. to = u \/ (Sharable(u) /\ SameButSide(u, to))
    BY <2>1 DEF SharedWith, Twin, SameButSide
  <2>4. ASSUME NEW w \in DOMAIN alias'
        PROVE  /\ UnitForm(w) /\ UnitForm(alias'[w])
               /\ alias'[w] = w \/ (Sharable(w) /\ SameButSide(w, alias'[w]))
    <3>1. CASE w = u BY <2>1, <2>2, <2>3, <3>1
    <3>2. CASE w # u BY <2>1, <3>2 DEF AliasForms
    <3> QED BY <3>1, <3>2
  <2> QED BY <2>4 DEF AliasForms
<1>2. CASE BuildUnits BY <1>2, BuildUnitsStep DEF AliasForms
<1>3. CASE Intern BY <1>3, InternStep DEF AliasForms
<1>4. CASE DropDocs BY <1>4, DropDocsStep DEF AliasForms
<1>5. CASE FinishUnits BY <1>5, FinishUnitsStep DEF AliasForms
<1> QED BY <1>1, <1>2, <1>3, <1>4, <1>5, OtherStep DEF AliasForms

(* A unit that is not yet settled and is among the dependencies of what a  *)
(* settled unit became is a unit of the target.                            *)
LEMMA LateIsTargets ==
    ASSUME AliasForms, NEW u, u \notin DOMAIN alias,
           NEW w, {d.unit : d \in units[w]} \subseteq DOMAIN alias,
           NEW v, Aliased(v) = Aliased(w), NEW e \in units[v], e.unit = u
    PROVE  ~u.host
<1>1. Now(e.unit) = u BY DEF Now
<1>2. [unit |-> u, extern |-> e.extern] \in Aliased(w) BY <1>1 DEF Aliased
<1>3. PICK x \in units[w] : Now(x.unit) = u BY <1>2 DEF Aliased
<1>4. x.unit \in DOMAIN alias /\ alias[x.unit] = u BY <1>3 DEF Now
<1> QED BY <1>4 DEF AliasForms, SameButSide

LEMMA SharedAboveStep ==
    ASSUME GraphInv, [Next]_allVars
    PROVE  SharedAbove'
<1> USE DEF GraphInv
<1>1. CASE ShareOne
  <2>1. PICK u, to :
              /\ u \in DOMAIN units \ DOMAIN alias
              /\ alias' = [v \in DOMAIN alias \cup {u} |-> IF v = u THEN to ELSE alias[v]]
              /\ {d.unit : d \in units[u]} \subseteq DOMAIN alias
              /\ to = u \/ (Sharable(u) /\ to \in SharedWith(u))
              /\ UNCHANGED <<world, units, roots, aux, profile>>
              /\ world.noTarget /\ phase = "sharing" /\ phase' = "sharing"
    BY <1>1, ShareOneStep
  <2>2. /\ \A x : x # u => Now(x)' = Now(x)
        /\ ~u.host => Now(u)' = Now(u)
    BY <2>1 DEF Now, Sharable
  <2>3. ASSUME NEW w, {d.unit : d \in units[w]} \subseteq DOMAIN alias
        PROVE  Aliased(w)' = Aliased(w)
    <3>1. \A d \in units[w] : Now(d.unit)' = Now(d.unit) BY <2>1, <2>2, <2>3
    <3> QED BY <2>1, <3>1 DEF Aliased
  <2>4. ASSUME NEW w, {d.unit : d \in units[w]} \subseteq DOMAIN alias,
               NEW v, Aliased(v) = Aliased(w)
        PROVE  Aliased(v)' = Aliased(v)
    <3>1. ASSUME NEW e \in units[v] PROVE Now(e.unit)' = Now(e.unit)
      <4>1. e.unit = u => ~u.host BY <2>1, <2>4, <3>1, LateIsTargets
      <4> QED BY <2>2, <4>1
    <3> QED BY <2>1, <3>1 DEF Aliased
  <2>5. ASSUME NEW w \in DOMAIN alias'
        PROVE  /\ w \in DOMAIN units' /\ alias'[w] \in DOMAIN units'
               /\ {d.unit : d \in units'[w]} \subseteq DOMAIN alias'
               /\ \A v \in {alias'[w]} \ {w} : Aliased(v)' = Aliased(w)'
    <3>1. CASE w # u
      <4>1. w \in DOMAIN alias /\ alias'[w] = alias[w] BY <2>1, <3>1
      <4>2. /\ w \in DOMAIN units /\ alias[w] \in DOMAIN units
            /\ {d.unit : d \in units[w]} \subseteq DOMAIN alias
            /\ \A v \in {alias[w]} \ {w} : Aliased(v) = Aliased(w)
        BY <2>1, <4>1 DEF SharedAbove
      <4>3. Aliased(w)' = Aliased(w) BY <2>3, <4>2
      <4> QED BY <2>1, <2>4, <4>1, <4>2, <4>3
    <3>2. CASE w = u
      <4>1. alias'[u] = to BY <2>1
      <4>2. to # u => to \in DOMAIN units /\ Aliased(to) = Aliased(u) BY <2>1 DEF SharedWith
      <4>3. Aliased(u)' = Aliased(u) BY <2>1, <2>3
      <4> QED BY <2>1, <2>4, <3>2, <4>1, <4>2, <4>3
    <3> QED BY <3>1, <3>2
  <2> QED BY <2>5 DEF SharedAbove
<1>2. CASE BuildUnits BY <1>2, BuildUnitsStep DEF SharedAbove
<1>3. CASE Intern BY <1>3, InternStep DEF SharedAbove
<1>4. CASE DropDocs
  <2>1. alias' = NoEntries
    BY <1>4, DropDocsStep DEF NothingEarly, Finished
  <2> QED BY <2>1 DEF SharedAbove, NoEntries
<1>5. CASE FinishUnits BY <1>5, FinishUnitsStep DEF SharedAbove
<1>6. CASE ~BuildUnits /\ ~Intern /\ ~DropDocs /\ ~ShareOne /\ ~FinishUnits
  <2>1. /\ UNCHANGED <<world, units, roots, aux, alias, profile>>
        /\ phase' = "sharing" => phase = "sharing" \/ alias = NoEntries
    BY <1>6, OtherStep
  <2>2. \A x : Now(x)' = Now(x) BY <2>1 DEF Now
  <2>3. \A w : Aliased(w)' = Aliased(w) BY <2>1, <2>2 DEF Aliased
  <2> QED BY <2>1, <2>3 DEF SharedAbove, NoEntries
<1> QED BY <1>1, <1>2, <1>3, <1>4, <1>5, <1>6

-----------------------------------------------------------------------------
(* What sharing leaves.                                                    *)
LEMMA RightStays ==
    ASSUME alias' = alias, NEW u, NEW x
    PROVE  Right(u, x)' <=> Right(u, x)
BY DEF Right, OfHost, Now

LEMMA SidesAgreeStep ==
    ASSUME GraphInv, [Next]_allVars
    PROVE  SidesAgree'
<1> USE DEF GraphInv
<1>1. CASE BuildUnits BY <1>1, BuildUnitsStep DEF SidesAgree, Finished
<1>2. CASE Intern BY <1>2, InternStep DEF SidesAgree, Finished
<1>3. CASE DropDocs BY <1>3, DropDocsStep DEF SidesAgree, Finished
<1>4. CASE ShareOne BY <1>4, ShareOneStep DEF SidesAgree, Finished
<1>5. CASE FinishUnits
  <2>1. alias' = alias BY <1>5, FinishUnitsStep
  <2>2. ASSUME NEW u \in DOMAIN units', NEW d \in units'[u], GivesLib(d)
        PROVE  Right(u, d.unit)
    <3>1. CASE ~world.noTarget
      <4>1. alias = NoEntries BY <3>1 DEF NothingEarly
      <4>2. u \in DOMAIN units /\ d \in units[u] BY <1>5, <2>2, <3>1, FinishUnitsStep
      <4>3. d.unit = LibFor(u.kind, u.host, d.unit)
        BY <1>5, <2>2, <4>2, FinishUnitsStep DEF SideKept
      <4>4. UnitForm(u) BY <4>2 DEF UnitForms
      <4>5. \A x : Now(x) = x BY <4>1 DEF Now, NoEntries
      <4>6. OfHost(u) => u.host BY <4>1 DEF OfHost, NoEntries
      <4>7. CASE u.host
        <5>1. u.host = TRUE /\ u.kind = "host" BY <4>4, <4>7 DEF UnitForm
        <5> QED BY <4>3, <4>5, <5>1 DEF Right
      <4>8. CASE ~u.host
        <5>1. u.host = FALSE BY <4>4, <4>8 DEF UnitForm
        <5> QED BY <4>3, <4>6, <5>1 DEF Right
      <4> QED BY <4>7, <4>8
    <3>2. CASE world.noTarget
      <4>1. u \in DOMAIN units /\ d \in Aliased(u) BY <1>5, <2>2, <3>2, FinishUnitsStep
      <4>2. ASSUME NEW h \in DOMAIN units, d \in Aliased(h)
            PROVE  \E e : /\ e = LibFor(h.kind, h.host, e) /\ d.unit = Now(e)
                          /\ d.unit.pkg = e.pkg /\ d.unit.mode = e.mode
        <5>1. PICK e \in units[h] : d.unit = Now(e.unit) /\ d.extern = e.extern
          BY <4>2 DEF Aliased
        <5>2. /\ d.unit.pkg = e.unit.pkg /\ d.unit.mode = e.unit.mode
              /\ d.unit.tgt = e.unit.tgt
          BY <5>1, NowForm
        <5>3. GivesLib(e) BY <2>2, <5>1, <5>2 DEF GivesLib, LibCrate
        <5>4. e.unit = LibFor(h.kind, h.host, e.unit)
          BY <1>5, <4>2, <5>3, FinishUnitsStep DEF SideKept
        <5> QED BY <5>1, <5>2, <5>4
      <4>3. ASSUME NEW h \in DOMAIN units, d \in Aliased(h), h.host
            PROVE  d.unit = Now(LibFor("host", TRUE, d.unit))
        <5>1. h.host = TRUE /\ h.kind = "host" BY <4>3 DEF UnitForms, UnitForm
        <5>2. PICK e : /\ e = LibFor("host", TRUE, e) /\ d.unit = Now(e)
                       /\ d.unit.pkg = e.pkg /\ d.unit.mode = e.mode
          BY <4>2, <4>3, <5>1
        <5>3. LibFor("host", TRUE, d.unit) = LibFor("host", TRUE, e) BY <5>2 DEF LibFor
        <5> QED BY <5>2, <5>3
      <4>4. ~u.host => d.unit = LibFor(u.kind, FALSE, d.unit)
        <5>1. SUFFICES ASSUME ~u.host PROVE d.unit = LibFor(u.kind, FALSE, d.unit)
          OBVIOUS
        <5>2. u.host = FALSE BY <4>1, <5>1 DEF UnitForms, UnitForm
        <5>3. PICK e : /\ e = LibFor(u.kind, FALSE, e) /\ d.unit = Now(e)
          BY <4>1, <4>2, <5>2
        <5>4. e.host = FALSE BY <5>3 DEF LibFor, Unit
        <5>5. Now(e) = e BY <5>4, NowForm
        <5> QED BY <5>3, <5>5
      <4>5. OfHost(u) => d.unit = Now(LibFor("host", TRUE, d.unit))
        <5>1. CASE u.host BY <4>1, <4>3, <5>1
        <5>2. ASSUME NEW h \in DOMAIN alias, h.host, alias[h] = u, h # u
              PROVE  d.unit = Now(LibFor("host", TRUE, d.unit))
          <6>1. h \in DOMAIN units /\ Aliased(u) = Aliased(h)
            BY <1>5, <5>2, FinishUnitsStep DEF SharedAbove
          <6> QED BY <4>1, <4>3, <5>2, <6>1
        <5> QED BY <5>1, <5>2 DEF OfHost
      <4> QED BY <4>4, <4>5 DEF Right
    <3> QED BY <3>1, <3>2
  <2> QED BY <2>1, <2>2, RightStays DEF SidesAgree
<1>6. CASE ~BuildUnits /\ ~Intern /\ ~DropDocs /\ ~ShareOne /\ ~FinishUnits
  <2>1. /\ UNCHANGED <<world, units, roots, aux, alias, profile>>
        /\ phase' \in Finished => phase \in Finished
    BY <1>6, OtherStep
  <2> QED BY <2>1, RightStays DEF SidesAgree
<1> QED BY <1>1, <1>2, <1>3, <1>4, <1>5, <1>6

LEMMA GraphInvInit ==
    ASSUME InitPlanning
    PROVE  GraphInv
BY DEF InitPlanning, Init, InitUnits, InitPlan, GraphInv, NothingEarly, UnitForms, DepForms,
       SideKept, AliasForms, SharedAbove, SidesAgree, UnitPhases, Finished, NoEntries

LEMMA GraphInvStep ==
    ASSUME GraphInv, [Next]_allVars
    PROVE  GraphInv'
BY EarlyStep, UnitFormsStep, DepFormsStep, SideKeptStep, AliasFormsStep, SharedAboveStep,
   SidesAgreeStep DEF GraphInv

-----------------------------------------------------------------------------
(* The plan.                                                               *)
planned == <<units, alias, profile, world, graph, eng, lto, stack, content, hash, libs>>

LEMMA PlanKept ==
    ASSUME NothingEarly, PlannedBelow, [Next]_allVars, ~PlanUnit
    PROVE  \/ /\ DOMAIN hash' = {} /\ DOMAIN libs' = {} /\ content' = content /\ phase' # "planned"
           \/ /\ UNCHANGED planned
              /\ phase' = "planned" => DOMAIN hash = DOMAIN units
<1> USE DEF NothingEarly, PlannedBelow, UnitPhases, NoEntries
<1>1. CASE ResolveStep BY <1>1, ResolveFirst DEF pvars
<1>2. CASE UnitStep
  <2>1. UNCHANGED pvars BY <1>2 DEF UnitStep
  <2>2. phase \notin {"lto", "planned"} /\ phase' \notin {"lto", "planned"}
    BY <1>2 DEF UnitStep, BuildUnits, Intern, EndUnits, DropDocs, ShareOne, FinishUnits
  <2> QED BY <2>1, <2>2 DEF pvars
<1>3. CASE StartLto BY <1>3 DEF StartLto, rest
<1>4. CASE PropagateLto BY <1>4 DEF PropagateLto, rest
<1>5. CASE FinishPlan BY <1>5 DEF FinishPlan, rest, planned, U
<1>6. CASE Stop \/ UNCHANGED allVars BY <1>6 DEF Stop, allVars, vars, uvars, pvars, planned
<1> QED BY <1>1, <1>2, <1>3, <1>4, <1>5, <1>6 DEF Next, PlanStep

LEMMA PlanUnitStep ==
    ASSUME PlanUnit
    PROVE  \E u, k :
              /\ u \in DOMAIN units \ DOMAIN hash
              /\ {d.unit : d \in units[u]} \subseteq DOMAIN hash
              /\ \/ k \in DOMAIN content /\ content[k] = Hashed(u) /\ content' = content
                 \/ k = Len(content) + 1 /\ content' = Append(content, Hashed(u))
              /\ hash' = [v \in DOMAIN hash \cup {u} |-> IF v = u THEN k ELSE hash[v]]
              /\ libs' = [v \in DOMAIN hash' |-> IF v = u THEN LibClosure(u) ELSE libs[v]]
              /\ UNCHANGED <<units, alias, profile, world, graph, eng, lto, stack, phase>>
              /\ phase = "lto" /\ stack = <<>>
<1> DEFINE u == Only(Plannable)
           seen == {k \in DOMAIN content : content[k] = Hashed(u)}
           k == IF seen = {} THEN Len(content) + 1 ELSE Only(seen)
<1>1. /\ content' = IF seen = {} THEN Append(content, Hashed(u)) ELSE content
      /\ hash' = [v \in DOMAIN hash \cup {u} |-> IF v = u THEN k ELSE hash[v]]
      /\ libs' = [v \in DOMAIN hash' |-> IF v = u THEN LibClosure(u) ELSE libs[v]]
      /\ UNCHANGED <<units, alias, profile, world, graph, eng, lto, stack, phase>>
      /\ phase = "lto" /\ stack = <<>> /\ Plannable # {}
  BY DEF PlanUnit, rest
<1>2. u \in Plannable BY <1>1, OnlyIn
<1>3. u \in DOMAIN units \ DOMAIN hash /\ {d.unit : d \in units[u]} \subseteq DOMAIN hash
  BY <1>2 DEF Plannable, U
<1>4. seen # {} => k \in seen BY OnlyIn
<1>5. \/ k \in DOMAIN content /\ content[k] = Hashed(u) /\ content' = content
      \/ k = Len(content) + 1 /\ content' = Append(content, Hashed(u))
  BY <1>1, <1>4
<1> HIDE DEF u, k, seen
<1> QED BY <1>1, <1>3, <1>5

LEMMA PlannedBelowStep ==
    ASSUME GraphInv, PlannedBelow, [Next]_allVars
    PROVE  PlannedBelow'
<1>1. CASE PlanUnit
  <2>1. PICK u, k :
          /\ u \in DOMAIN units \ DOMAIN hash
          /\ {d.unit : d \in units[u]} \subseteq DOMAIN hash
          /\ hash' = [v \in DOMAIN hash \cup {u} |-> IF v = u THEN k ELSE hash[v]]
          /\ DOMAIN libs' = DOMAIN hash'
          /\ UNCHANGED <<units, stack, phase>>
          /\ phase = "lto" /\ stack = <<>>
    BY <1>1, PlanUnitStep
  <2> QED BY <2>1 DEF PlannedBelow
<1>2. CASE ~PlanUnit
  <2>1. CASE UNCHANGED planned /\ (phase' = "planned" => DOMAIN hash = DOMAIN units)
    BY <2>1 DEF planned, PlannedBelow
  <2>2. CASE /\ DOMAIN hash' = {} /\ DOMAIN libs' = {} /\ content' = content
             /\ phase' # "planned"
    BY <2>2 DEF PlannedBelow
  <2> QED BY <1>2, <2>1, <2>2, PlanKept DEF GraphInv
<1> QED BY <1>1, <1>2

LEMMA LibsRightStep ==
    ASSUME GraphInv, PlannedBelow, LibsRight, [Next]_allVars
    PROVE  LibsRight'
<1>1. CASE PlanUnit
  <2>1. PICK u \in DOMAIN units \ DOMAIN hash :
          /\ {d.unit : d \in units[u]} \subseteq DOMAIN hash
          /\ DOMAIN libs' = DOMAIN hash \cup {u}
          /\ \A v \in DOMAIN hash \cup {u} : libs'[v] = IF v = u THEN LibClosure(u) ELSE libs[v]
          /\ alias' = alias /\ phase = "lto"
    BY <1>1, PlanUnitStep
  <2>2. ASSUME NEW v \in Behind(u) PROVE v \in DOMAIN libs /\ Right(u, v)
    <3>1. PICK d \in units[u] : d.unit = v /\ GivesLib(d) BY <2>2 DEF Behind, Externs, GivesLib
    <3> QED BY <2>1, <3>1 DEF GraphInv, SidesAgree, Finished, PlannedBelow
  <2>3. ASSUME NEW v \in Behind(u), NEW x \in libs[v] PROVE Right(u, x)
    <3>1. v \in DOMAIN libs /\ Right(u, v) /\ Right(v, x) BY <2>2, <2>3 DEF LibsRight
    <3>2. OfHost(u) => x = Now(LibFor("host", TRUE, x))
      <4>1. LibFor("host", TRUE, v).host = TRUE BY DEF LibFor, Unit
      <4>2. OfHost(Now(LibFor("host", TRUE, v))) BY <4>1, NowForm DEF GraphInv
      <4> QED BY <3>1, <4>2 DEF Right
    <3>3. ~u.host => x = LibFor(u.kind, FALSE, x)
      <4>1. LibFor(u.kind, FALSE, v).host = FALSE /\ LibFor(u.kind, FALSE, v).kind = u.kind
        BY DEF LibFor, Unit
      <4> QED BY <3>1, <4>1 DEF Right
    <3> QED BY <3>2, <3>3 DEF Right
  <2>4. ASSUME NEW x \in LibClosure(u) PROVE Right(u, x)
    BY <2>2, <2>3, <2>4 DEF LibClosure
  <2>5. ASSUME NEW v \in DOMAIN libs', NEW x \in libs'[v] PROVE Right(v, x)
    BY <2>1, <2>4, <2>5 DEF LibsRight, PlannedBelow
  <2> QED BY <2>1, <2>5, RightStays DEF LibsRight
<1>2. CASE ~PlanUnit
  <2>1. CASE UNCHANGED planned BY <2>1, RightStays DEF planned, LibsRight
  <2>2. CASE DOMAIN libs' = {} BY <2>2 DEF LibsRight
  <2> QED BY <1>2, <2>1, <2>2, PlanKept DEF GraphInv
<1> QED BY <1>1, <1>2

(* The contents of a hash do not change once the dependencies have theirs. *)
LEMMA HashedStays ==
    ASSUME UNCHANGED <<units, profile, world, graph, eng, lto>>,
           NEW u, OwnScript(u), \A d \in units[u] : hash'[d.unit] = hash[d.unit]
    PROVE  Hashed(u)' = Hashed(u)
<1>1. {<<d.extern, hash[d.unit]>> : d \in units[u]}' = {<<d.extern, hash[d.unit]>> : d \in units[u]}
  OBVIOUS
<1>2. UnitFeatures(u)' = UnitFeatures(u) BY DEF UnitFeatures, Info
<1>3. CASE u.mode = "run"
  <2>1. Script(u)' = Script(u) BY DEF Script, Only
  <2>2. Script(u) \in {d.unit : d \in {x \in units[u] : x.unit.mode # "run" /\ x.unit.pkg = u.pkg}}
    <3>1. {d.unit : d \in {x \in units[u] : x.unit.mode # "run" /\ x.unit.pkg = u.pkg}} # {}
      BY <1>3 DEF OwnScript
    <3> QED BY <3>1, OnlyIn DEF Script
  <2>3. hash'[Script(u)] = hash[Script(u)] BY <2>2
  <2>4. RunFlags(u)' = RunFlags(u) BY <1>2, <2>1, <2>3 DEF RunFlags, Profile, TargetFlag
  <2> QED BY <1>1, <1>3, <2>4 DEF Hashed
<1>4. ASSUME NEW d \in units[u], NEW b PROVE ExternFile(d, b)' = ExternFile(d, b)
  BY <1>4 DEF ExternFile
<1>5. CASE u.mode = "doc"
  <2>1. DocFlags(u)' = DocFlags(u) BY <1>2, <1>4 DEF DocFlags, Externs
  <2> QED BY <1>1, <1>5, <2>1 DEF Hashed
<1>6. CASE u.mode \notin {"run", "doc"}
  <2>1. ExternFlags(u)' = ExternFlags(u) BY <1>4 DEF ExternFlags, Externs
  <2>2. LtoFlag(u)' = LtoFlag(u) BY DEF LtoFlag, ProfileLto, Profile
  <2>3. BinExes(u)' = BinExes(u) BY DEF BinExes
  <2>4. CompileFlags(u)' = CompileFlags(u)
    BY <1>2, <2>1, <2>2, <2>3 DEF CompileFlags, Profile, Aborts
  <2> QED BY <1>1, <1>6, <2>4 DEF Hashed
<1> QED BY <1>3, <1>5, <1>6

LEMMA AppendGrows ==
    ASSUME NEW s, s \in Seq({s[k] : k \in DOMAIN s}), NEW x
    PROVE  LET t == Append(s, x) IN
           /\ t \in Seq({t[k] : k \in DOMAIN t})
           /\ DOMAIN s \subseteq DOMAIN t /\ \A k \in DOMAIN s : t[k] = s[k]
           /\ Len(s) + 1 \in DOMAIN t /\ t[Len(s) + 1] = x
<1> DEFINE S == {s[k] : k \in DOMAIN s}
           t == Append(s, x)
<1>1. s \in Seq(S \cup {x})
  <2>1. \A k \in 1..Len(s) : s[k] \in S \cup {x} OBVIOUS
  <2>2. s = [k \in 1..Len(s) |-> s[k]] /\ Len(s) \in Nat OBVIOUS
  <2> HIDE DEF S
  <2> QED BY <2>1, <2>2
<1> HIDE DEF S
<1>2. /\ t \in Seq(S \cup {x}) /\ Len(t) = Len(s) + 1 /\ Len(s) \in Nat
      /\ DOMAIN t = 1..Len(t) /\ DOMAIN s = 1..Len(s)
      /\ \A k \in 1..Len(s) : t[k] = s[k]
      /\ t[Len(s) + 1] = x
  BY <1>1
<1>3. t \in Seq({t[k] : k \in DOMAIN t})
  <2> HIDE DEF t
  <2>1. t = [k \in 1..Len(t) |-> t[k]] /\ Len(t) \in Nat BY <1>2
  <2>2. \A k \in 1..Len(t) : t[k] \in {t[j] : j \in DOMAIN t} BY <1>2
  <2> DEFINE T == {t[j] : j \in DOMAIN t}
  <2> HIDE DEF T
  <2>3. \A k \in 1..Len(t) : t[k] \in T BY <2>2 DEF T
  <2>4. t \in Seq(T) BY <2>1, <2>3
  <2> QED BY <2>4 DEF T
<1> QED BY <1>2, <1>3

LEMMA HashesStandStep ==
    ASSUME GraphInv, PlannedBelow, HashesStand, [Next]_allVars
    PROVE  HashesStand'
<1>1. CASE PlanUnit
  <2>1. PICK u, k :
          /\ u \in DOMAIN units \ DOMAIN hash
          /\ {d.unit : d \in units[u]} \subseteq DOMAIN hash
          /\ \/ k \in DOMAIN content /\ content[k] = Hashed(u) /\ content' = content
             \/ k = Len(content) + 1 /\ content' = Append(content, Hashed(u))
          /\ hash' = [v \in DOMAIN hash \cup {u} |-> IF v = u THEN k ELSE hash[v]]
          /\ UNCHANGED <<units, profile, world, graph, eng, lto>>
    BY <1>1, PlanUnitStep
  <2>2. /\ content' \in Seq({content'[j] : j \in DOMAIN content'})
        /\ \A j \in DOMAIN content : j \in DOMAIN content' /\ content'[j] = content[j]
        /\ k \in DOMAIN content' /\ content'[k] = Hashed(u)
    <3>1. content \in Seq({content[j] : j \in DOMAIN content}) BY DEF HashesStand
    <3>2. CASE k \in DOMAIN content /\ content[k] = Hashed(u) /\ content' = content
      BY <3>1, <3>2
    <3>3. CASE k = Len(content) + 1 /\ content' = Append(content, Hashed(u))
      <4>1. LET t == Append(content, Hashed(u)) IN
            /\ t \in Seq({t[j] : j \in DOMAIN t})
            /\ DOMAIN content \subseteq DOMAIN t /\ \A j \in DOMAIN content : t[j] = content[j]
            /\ Len(content) + 1 \in DOMAIN t /\ t[Len(content) + 1] = Hashed(u)
        BY <3>1, AppendGrows
      <4> QED BY <3>3, <4>1
    <3> QED BY <2>1, <3>2, <3>3
  <2>3. ASSUME NEW v \in DOMAIN hash'
        PROVE  hash'[v] \in DOMAIN content' /\ content'[hash'[v]] = Hashed(v)'
    <3>1. v \in DOMAIN units /\ {d.unit : d \in units[v]} \subseteq DOMAIN hash
      BY <2>1, <2>3 DEF PlannedBelow
    <3>2. OwnScript(v) BY <3>1 DEF GraphInv, DepForms
    <3>3. \A d \in units[v] : hash'[d.unit] = hash[d.unit] BY <2>1, <3>1
    <3>4. Hashed(v)' = Hashed(v) BY <2>1, <3>2, <3>3, HashedStays
    <3> HIDE DEF Hashed
    <3>5. CASE v = u BY <2>1, <2>2, <3>4, <3>5
    <3>6. CASE v # u BY <2>1, <2>2, <2>3, <3>4, <3>6 DEF HashesStand
    <3> QED BY <3>5, <3>6
  <2> QED BY <2>2, <2>3 DEF HashesStand
<1>2. CASE ~PlanUnit
  <2>1. CASE UNCHANGED planned
    <3>1. ASSUME NEW u \in DOMAIN hash PROVE Hashed(u)' = Hashed(u)
      <4>1. OwnScript(u) BY <3>1 DEF GraphInv, DepForms, PlannedBelow
      <4> QED BY <2>1, <4>1, HashedStays DEF planned
    <3> QED BY <2>1, <3>1 DEF planned, HashesStand
  <2>2. CASE DOMAIN hash' = {} /\ content' = content BY <2>2 DEF HashesStand
  <2> QED BY <1>2, <2>1, <2>2, PlanKept DEF GraphInv
<1> QED BY <1>1, <1>2

PlanInv == GraphInv /\ PlannedBelow /\ HashesStand /\ LibsRight

THEOREM PlanInvariant == Spec => []PlanInv
<1>1. InitPlanning => PlanInv
  <2>1. SUFFICES ASSUME InitPlanning PROVE PlanInv OBVIOUS
  <2>2. GraphInv BY <2>1, GraphInvInit
  <2>3. hash = NoEntries /\ libs = NoEntries /\ content = <<>> /\ phase = "read"
    BY <2>1 DEF InitPlanning, Init, InitPlan
  <2>4. PlannedBelow /\ LibsRight BY <2>3 DEF PlannedBelow, LibsRight, NoEntries
  <2>5. HashesStand
    <3>1. content \in Seq({content[k] : k \in DOMAIN content}) BY <2>3
    <3> QED BY <2>3, <3>1 DEF HashesStand, NoEntries
  <2> QED BY <2>2, <2>4, <2>5 DEF PlanInv
<1>2. PlanInv /\ [Next]_allVars => PlanInv'
  BY GraphInvStep, PlannedBelowStep, HashesStandStep, LibsRightStep DEF PlanInv
<1> QED BY <1>1, <1>2, PTL DEF Spec

-----------------------------------------------------------------------------
(* A name tells the unit, but for the side it is for.                      *)
THEOREM NamesAreTelling == Spec => []NamesTell
<1>1. PlanInv => NamesTell
  <2>1. SUFFICES ASSUME PlanInv, phase = "planned", NEW u \in U, NEW v \in U, hash[u] = hash[v]
                 PROVE  [u EXCEPT !.host = v.host, !.side = v.side] = v
    BY DEF NamesTell, Planned
  <2>2. u \in DOMAIN hash /\ v \in DOMAIN hash BY <2>1 DEF U, PlanInv, PlannedBelow
  <2>3. Hashed(u) = Hashed(v) BY <2>1, <2>2 DEF PlanInv, HashesStand
  <2>4. UnitForm(u) /\ UnitForm(v) BY <2>1 DEF U, PlanInv, GraphInv, UnitForms
  <2>5. u.mode = v.mode /\ u.pkg = v.pkg BY <2>3 DEF Hashed
  <2>6. TargetFlag(u) = TargetFlag(v) => u.kind = v.kind BY DEF TargetFlag
  <2>7. u.tgt = v.tgt /\ u.kind = v.kind
    <3>1. CASE u.mode = "run"
      <4>1. RunFlags(u) = RunFlags(v) BY <2>3, <2>5, <3>1 DEF Hashed
      <4>2. RunFlags(u).target = TargetFlag(u) /\ RunFlags(v).target = TargetFlag(v) BY DEF RunFlags
      <4> QED BY <2>4, <2>5, <2>6, <3>1, <4>1, <4>2 DEF UnitForm
    <3>2. CASE u.mode = "doc"
      <4>1. DocFlags(u) = DocFlags(v) BY <2>3, <2>5, <3>2 DEF Hashed
      <4>2. /\ DocFlags(u).target = TargetFlag(u) /\ DocFlags(v).target = TargetFlag(v)
            /\ DocFlags(u).crate = u.tgt /\ DocFlags(v).crate = v.tgt
        BY DEF DocFlags
      <4> QED BY <2>6, <4>1, <4>2
    <3>3. CASE u.mode \notin {"run", "doc"}
      <4>1. CompileFlags(u) = CompileFlags(v) BY <2>3, <2>5, <3>3 DEF Hashed
      <4>2. /\ CompileFlags(u).target = TargetFlag(u) /\ CompileFlags(v).target = TargetFlag(v)
            /\ CompileFlags(u).crate = u.tgt /\ CompileFlags(v).crate = v.tgt
        BY DEF CompileFlags
      <4> QED BY <2>6, <4>1, <4>2
    <3> QED BY <3>1, <3>2, <3>3
  <2>8. /\ u = [pkg |-> u.pkg, tgt |-> u.tgt, kind |-> u.kind, host |-> u.host,
                mode |-> u.mode, side |-> u.side]
        /\ v = [pkg |-> v.pkg, tgt |-> v.tgt, kind |-> v.kind, host |-> v.host,
                mode |-> v.mode, side |-> v.side]
    BY <2>4 DEF UnitForm
  <2> QED BY <2>5, <2>7, <2>8
<1> QED BY <1>1, PlanInvariant, PTL

-----------------------------------------------------------------------------
(* A unit needs each dependency in one way only.                           *)
THEOREM NeedsAgreeing == Spec => []NeedsAgree
<1>1. PlanInv => NeedsAgree
  <2>1. SUFFICES ASSUME PlanInv, NEW u \in U, NEW a \in Requirements(u), NEW b \in Requirements(u),
                        a[1] = b[1]
                 PROVE  a = b
    BY DEF NeedsAgree
  <2> DEFINE need(l) == IF ~NeedsLink(u) /\ ~MacroCrate(l) /\ EmitsMeta(l) THEN "Meta" ELSE "Full"
  <2>2. CASE u.mode = "run"
    BY <2>1, <2>2 DEF Requirements
  <2>3. CASE u.mode # "run"
    <3>1. ASSUME NEW l, EmitsMeta(l)
          PROVE  l.mode \notin {"run", "doc"} /\ ~IsProgram(l)
      BY <3>1 DEF EmitsMeta, Compiles, IsCheck, IsTest, MetadataEmit, ProducesRlib, CrateTypes, IsProgram
    <3>2. ASSUME NEW r \in Requirements(u)
          PROVE  \/ r = <<r[1], need(r[1])>>
                 \/ r = <<r[1], "Full">> /\ (r[1].mode \in {"run", "doc"} \/ IsProgram(r[1]))
      <4>1. CASE r \in {<<l, need(l)>> : l \in LibReqs(u)} BY <4>1
      <4>2. CASE r \in {<<l, "Full">> : l \in ToLink(u) \cup OwnRun(u)}
        BY <4>2 DEF ToLink, OwnRun
      <4>3. CASE r \in {<<d.unit, "Full">> : d \in {x \in units[u] : x.extern = {} /\ x.unit.mode # "run"}}
        <5>1. PICK d \in units[u] : r = <<d.unit, "Full">> /\ d.extern = {} BY <4>3
        <5> QED BY <2>1, <2>3, <5>1 DEF PlanInv, GraphInv, DepForms, OrderedOnly, U
      <4> QED BY <2>3, <3>2, <4>1, <4>2, <4>3 DEF Requirements
    <3>3. ASSUME NEW l, l.mode \in {"run", "doc"} \/ IsProgram(l)
          PROVE  need(l) = "Full"
      BY <3>1, <3>3
    <3> HIDE DEF need
    <3>4. a = <<a[1], need(a[1])>> /\ b = <<b[1], need(b[1])>> BY <3>2, <3>3
    <3> QED BY <2>1, <3>4
  <2> QED BY <2>2, <2>3
<1> QED BY <1>1, PlanInvariant, PTL

(* Of a library compiled in one mode, one copy is linked.                  *)
THEOREM OneCopyOnly == Spec => []OneCopy
<1>1. PlanInv => OneCopy
  <2>1. SUFFICES ASSUME PlanInv, phase = "planned", NEW u \in U,
                        NEW v \in libs[u], NEW w \in libs[u], v.pkg = w.pkg, v.mode = w.mode
                 PROVE  v = w
    BY DEF OneCopy, Planned
  <2>2. u \in DOMAIN libs /\ u.host \in BOOLEAN
    BY <2>1 DEF PlanInv, PlannedBelow, GraphInv, UnitForms, UnitForm, U
  <2>3. Right(u, v) /\ Right(u, w) BY <2>1, <2>2 DEF PlanInv, LibsRight
  <2>4. \A host, kind : LibFor(kind, host, v) = LibFor(kind, host, w) BY <2>1 DEF LibFor
  <2>5. OfHost(u) \/ ~u.host BY DEF OfHost
  <2> QED BY <2>3, <2>4, <2>5 DEF Right
<1> QED BY <1>1, PlanInvariant, PTL

-----------------------------------------------------------------------------
(* Profiles: what the last table that sets a field says.                   *)
LEMMA ApplyHas ==
    ASSUME NEW tables, NEW f
    PROVE  f \in DOMAIN Apply(tables) <=> \E i \in DOMAIN tables : f \in DOMAIN tables[i]
BY DEF Apply, Merge

LEMMA ApplyLast ==
    ASSUME NEW tables, DOMAIN tables \subseteq Int, NEW f, f # "flags",
           NEW i \in DOMAIN tables, f \in DOMAIN tables[i],
           \A j \in DOMAIN tables : j > i => f \notin DOMAIN tables[j]
    PROVE  Apply(tables)[f] = tables[i][f]
<1> DEFINE S == {j \in DOMAIN tables : f \in DOMAIN tables[j]}
<1>1. i \in S /\ \A j \in S : i >= j OBVIOUS
<1>2. S \subseteq Int OBVIOUS
<1> HIDE DEF S
<1>3. Max(S) = i BY <1>1, <1>2 DEF Max
<1>4. Apply(tables)[f] = tables[Max(S)][f] BY DEF Apply, Merge, S
<1> QED BY <1>3, <1>4

LEMMA PackagesSet ==
    ASSUME NEW field, PackagesKeep(field), NEW name, NEW key
    PROVE  field \notin DOMAIN Over(Layer(name).package, key)
<1> DEFINE of(file) == IF name \in DOMAIN file THEN file[name] ELSE NoLayer
           t == [i \in DOMAIN world.tomls |-> of(world.tomls[i])]
           package == [s \in UNION {DOMAIN t[i].package : i \in DOMAIN t} |->
                        Merge([i \in DOMAIN t |-> Over(t[i].package, s)])]
<1>1. Layer(name).package = package BY DEF Layer
<1>2. ASSUME NEW i \in DOMAIN t, NEW s PROVE field \notin DOMAIN Over(t[i].package, s)
  <2>1. CASE name \in DOMAIN world.tomls[i]
    <3>1. t[i] = world.tomls[i][name] BY <1>2, <2>1
    <3> HIDE DEF t
    <3> QED BY <1>2, <2>1, <3>1 DEF PackagesKeep, Over, NoFields, t
  <2>2. CASE name \notin DOMAIN world.tomls[i] BY <1>2, <2>2 DEF NoLayer, Over, NoFields
  <2> QED BY <2>1, <2>2
<1> HIDE DEF t
<1>3. ASSUME NEW s PROVE field \notin DOMAIN Merge([i \in DOMAIN t |-> Over(t[i].package, s)])
  BY <1>2 DEF Merge
<1> QED BY <1>1, <1>3 DEF Over, NoFields

LEMMA PackagesLeave ==
    ASSUME NEW field, PackagesKeep(field), NEW names, NEW n
    PROVE  LET chain == [i \in DOMAIN names |-> Layer(names[i])]
           IN  field \notin DOMAIN Apply([i \in DOMAIN chain |-> ForPackage(chain[i], n)])
<1> DEFINE chain == [i \in DOMAIN names |-> Layer(names[i])]
           tables == [i \in DOMAIN chain |-> ForPackage(chain[i], n)]
<1>1. ASSUME NEW name PROVE field \notin DOMAIN ForPackage(Layer(name), n)
  <2> DEFINE of(key) == Over(Layer(name).package, key)
             star == IF n \in world.members THEN NoFields
                     ELSE of([name |-> "*", vers |-> NoVersion])
             named == of([name |-> n.name, vers |-> NoVersion])
             exact == of([name |-> n.name, vers |-> n.vers])
             three == <<star, named, exact>>
  <2>1. field \notin DOMAIN star BY PackagesSet DEF NoFields
  <2>2. field \notin DOMAIN named /\ field \notin DOMAIN exact BY PackagesSet
  <2>3. ForPackage(Layer(name), n) = Apply(three) BY DEF ForPackage
  <2> HIDE DEF star, named, exact
  <2>4. \A i \in DOMAIN three : field \notin DOMAIN three[i] BY <2>1, <2>2
  <2> HIDE DEF three
  <2> QED BY <2>3, <2>4, ApplyHas
<1>2. \A i \in DOMAIN tables : tables[i] = ForPackage(Layer(names[i]), n) OBVIOUS
<1> HIDE DEF tables
<1>3. \A i \in DOMAIN tables : field \notin DOMAIN tables[i] BY <1>1, <1>2
<1>4. field \notin DOMAIN Apply(tables) BY <1>3, ApplyHas
<1> QED BY <1>4 DEF tables

LEMMA ProfilePanics ==
    ASSUME NEW n, NEW forHost \in BOOLEAN
    PROVE  /\ "panic" \in DOMAIN GetProfile(n, forHost)
           /\ PackagesKeepPanic /\ forHost => GetProfile(n, forHost).panic = "unwind"
<1> DEFINE names == Ancestry(Requested)
           chain == [i \in DOMAIN names |-> Layer(names[i])]
           main == Apply(<<Default(names[1]), Apply([i \in DOMAIN chain |-> chain[i].set])>>)
           weak == [opt |-> 0, units |-> 0]
           bare == IF world.noTarget THEN [debug |-> 0] ELSE NoFields
           override == Apply([i \in DOMAIN chain |-> chain[i].override])
           hosts == Apply(<<weak, bare, override, [panic |-> "unwind"]>>)
           host == IF forHost THEN hosts ELSE NoFields
           packages == Apply([i \in DOMAIN chain |-> ForPackage(chain[i], n)])
           whole == Apply(<<main, host, packages>>)
<1>1. GetProfile(n, forHost) = [whole EXCEPT !.strip = Strip(whole, main.debug = 0)]
  BY DEF GetProfile
<1>2. "panic" \in DOMAIN main
  <2> DEFINE sets == Apply([i \in DOMAIN chain |-> chain[i].set])
  <2>1. "panic" \in DOMAIN Default(names[1]) BY DEF Default
  <2> HIDE DEF names, sets
  <2> QED BY <2>1, ApplyHas
<1>3. "panic" \in DOMAIN hosts /\ hosts["panic"] = "unwind"
  <2> HIDE DEF override, bare
  <2> DEFINE tables == <<weak, bare, override, [panic |-> "unwind"]>>
  <2>1. DOMAIN tables = 1..4 /\ tables[4] = [panic |-> "unwind"] OBVIOUS
  <2> HIDE DEF tables
  <2>2. "panic" \in DOMAIN tables[4] /\ tables[4]["panic"] = "unwind" BY <2>1
  <2>3. "panic" \in DOMAIN Apply(tables) BY <2>1, <2>2, ApplyHas
  <2>4. Apply(tables)["panic"] = tables[4]["panic"] BY <2>1, <2>2, ApplyLast
  <2> QED BY <2>2, <2>3, <2>4 DEF tables
<1>4. PackagesKeepPanic => "panic" \notin DOMAIN packages
  BY PackagesLeave DEF PackagesKeepPanic
<1> HIDE DEF main, hosts, packages
<1> DEFINE all == <<main, host, packages>>
<1>5. DOMAIN all = 1..3 /\ all[1] = main /\ all[2] = host /\ all[3] = packages OBVIOUS
<1> HIDE DEF all
<1>6. "panic" \in DOMAIN Apply(all) BY <1>2, <1>5, ApplyHas
<1>7. PackagesKeepPanic /\ forHost => Apply(all)["panic"] = "unwind"
  <2>1. SUFFICES ASSUME PackagesKeepPanic, forHost PROVE Apply(all)["panic"] = "unwind" OBVIOUS
  <2>2. all[2] = hosts BY <1>5, <2>1
  <2>3. Apply(all)["panic"] = all[2]["panic"] BY <1>3, <1>4, <1>5, <2>1, <2>2, ApplyLast
  <2> QED BY <1>3, <2>2, <2>3
<1>8. whole = Apply(all) BY DEF all
<1> HIDE DEF whole
<1> QED BY <1>1, <1>6, <1>7, <1>8

LEMMA ProfileOfUnwinds ==
    ASSUME PackagesKeepPanic, NEW u, u.host
    PROVE  Unwinding(ProfileOf(u, TRUE)) /\ Unwinding(ProfileOf(u, FALSE))
<1>1. Unwinding(ProfileOf(u, TRUE))
  <2> DEFINE p == GetProfile(u.pkg, FALSE)
  <2>1. "panic" \in DOMAIN p BY ProfilePanics
  <2>2. ProfileOf(u, TRUE) = [p EXCEPT !.panic = "unwind"]
    <3>1. (u.host /\ ~(TRUE /\ u.host)) = FALSE OBVIOUS
    <3> QED BY <3>1 DEF ProfileOf
  <2> HIDE DEF p
  <2> QED BY <2>1, <2>2 DEF Unwinding
<1>2. Unwinding(ProfileOf(u, FALSE))
  <2> DEFINE p == GetProfile(u.pkg, TRUE)
  <2>1. "panic" \in DOMAIN p /\ p.panic = "unwind" BY ProfilePanics
  <2>2. ProfileOf(u, FALSE) = IF IsTest(u.mode) THEN [p EXCEPT !.panic = "unwind"] ELSE p
    <3>1. (u.host /\ ~(FALSE /\ u.host)) = TRUE OBVIOUS
    <3> QED BY <3>1 DEF ProfileOf
  <2> HIDE DEF p
  <2> QED BY <2>1, <2>2 DEF Unwinding
<1> QED BY <1>1, <1>2

LEMMA PanicStep ==
    ASSUME GraphInv, PanicInv, [Next]_allVars
    PROVE  PanicInv'
<1> USE DEF GraphInv
<1>1. world' = world
  BY BuildUnitsStep, InternStep, DropDocsStep, ShareOneStep, FinishUnitsStep, OtherStep
<1>2. PackagesKeepPanic' <=> PackagesKeepPanic BY <1>1 DEF PackagesKeepPanic, PackagesKeep
<1>3. SUFFICES ASSUME PackagesKeepPanic
               PROVE  /\ phase' \in {"units", "docs", "sharing"} => DOMAIN units' \subseteq DOMAIN profile'
                      /\ \A u \in DOMAIN profile' : u.host => Unwinding(profile'[u])
                      /\ \A w \in DOMAIN alias' : alias'[w] = w \/ Unwinding(profile'[alias'[w]])
  BY <1>2 DEF PanicInv
<1>4. /\ phase \in {"units", "docs", "sharing"} => DOMAIN units \subseteq DOMAIN profile
      /\ \A u \in DOMAIN profile : u.host => Unwinding(profile[u])
      /\ \A w \in DOMAIN alias : alias[w] = w \/ Unwinding(profile[alias[w]])
  BY <1>3 DEF PanicInv
<1>5. CASE BuildUnits BY <1>4, <1>5, BuildUnitsStep DEF Unwinding
<1>6. CASE Intern
  <2>1. /\ DOMAIN profile' = DOMAIN units'
        /\ \A u \in DOMAIN units' : profile'[u] = ProfileOf(u, u \in roots)
    BY <1>6 DEF Intern
  <2>2. ASSUME NEW u \in DOMAIN units', u.host PROVE Unwinding(profile'[u])
    <3>1. profile'[u] = ProfileOf(u, u \in roots) BY <2>1, <2>2
    <3>2. (u \in roots) = TRUE \/ (u \in roots) = FALSE OBVIOUS
    <3>3. profile'[u] = ProfileOf(u, TRUE) \/ profile'[u] = ProfileOf(u, FALSE) BY <3>1, <3>2
    <3> QED BY <1>3, <2>2, <3>3, ProfileOfUnwinds
  <2>3. DOMAIN alias' = {} BY <1>6, InternStep DEF NothingEarly, Finished, NoEntries
  <2> QED BY <2>1, <2>2, <2>3
<1>7. CASE DropDocs BY <1>4, <1>7, DropDocsStep DEF Unwinding
<1>8. CASE ShareOne
  <2>1. PICK u, to :
              /\ u \in DOMAIN units \ DOMAIN alias
              /\ alias' = [v \in DOMAIN alias \cup {u} |-> IF v = u THEN to ELSE alias[v]]
              /\ to = u \/ (Sharable(u) /\ to \in SharedWith(u))
              /\ UNCHANGED <<world, units, roots, aux, profile>> /\ phase = "sharing"
    BY <1>8, ShareOneStep
  <2>2. ASSUME to # u PROVE Unwinding(profile[to])
    <3>1. u.host /\ to \in DOMAIN units /\ SameExceptDebuginfo(profile[to], profile[u])
      BY <2>1, <2>2 DEF Sharable, SharedWith, Profile
    <3>2. Unwinding(profile[u]) BY <1>4, <2>1, <3>1
    <3>3. [profile[to] EXCEPT !.debug = profile[u].debug, !.strip = profile[u].strip] = profile[u]
      BY <3>1 DEF SameExceptDebuginfo
    <3>4. ASSUME NEW a, NEW b, NEW x, NEW y, [a EXCEPT !.debug = x, !.strip = y] = b,
                 "panic" \in DOMAIN b
          PROVE  "panic" \in DOMAIN a /\ a["panic"] = b["panic"]
      BY <3>4
    <3> QED BY <3>2, <3>3, <3>4 DEF Unwinding
  <2> QED BY <1>4, <2>1, <2>2 DEF Unwinding
<1>9. CASE FinishUnits BY <1>4, <1>9, FinishUnitsStep DEF Unwinding
<1>10. CASE ~BuildUnits /\ ~Intern /\ ~DropDocs /\ ~ShareOne /\ ~FinishUnits
  BY <1>4, <1>10, OtherStep DEF Unwinding
<1> QED BY <1>5, <1>6, <1>7, <1>8, <1>9, <1>10

(* What is linked into a proc-macro or a build script unwinds, if no table *)
(* for a package says how it panics.                                       *)
THEOREM HostUnwinding == Spec => [](PackagesKeepPanic => HostUnwinds)
<1>1. InitPlanning => PanicInv
  BY DEF InitPlanning, Init, InitUnits, PanicInv, NoEntries
<1>2. PlanInv /\ PanicInv /\ [Next]_allVars => PanicInv'
  BY PanicStep DEF PlanInv
<1>3. PlanInv /\ PanicInv => (PackagesKeepPanic => HostUnwinds)
  <2>1. SUFFICES ASSUME PlanInv, PanicInv, PackagesKeepPanic, phase = "planned",
                        NEW u \in U, Unwinds(u), HostOnly(u), NEW v \in libs[u], v.mode = "build"
                 PROVE  ~Aborts(v)
    BY DEF HostUnwinds, Planned
  <2>2. u \in DOMAIN libs /\ UnitForm(u)
    BY <2>1 DEF PlanInv, PlannedBelow, GraphInv, UnitForms, U
  <2>3. u.host BY <2>1, <2>2 DEF Unwinds, Linked, Compiles, HostOnly, MacroCrate, UnitForm
  <2>4. v = Now(LibFor("host", TRUE, v)) BY <2>1, <2>2, <2>3 DEF PlanInv, LibsRight, Right, OfHost
  <2>5. LibFor("host", TRUE, v).host = TRUE BY DEF LibFor, Unit
  <2>6. CASE LibFor("host", TRUE, v) \in DOMAIN alias
    <3>1. v = alias[LibFor("host", TRUE, v)] BY <2>4, <2>6 DEF Now
    <3>2. v = LibFor("host", TRUE, v) \/ Unwinding(profile[v]) BY <2>1, <2>6, <3>1 DEF PanicInv
    <3> QED BY <2>5, <3>2 DEF Aborts, Profile, Unwinding
  <2>7. CASE LibFor("host", TRUE, v) \notin DOMAIN alias
    BY <2>4, <2>5, <2>7 DEF Now, Aborts
  <2> QED BY <2>6, <2>7
<1> QED BY <1>1, <1>2, <1>3, PlanInvariant, PTL DEF Spec

-----------------------------------------------------------------------------
(* The feature engine.  Its queue first.                                   *)
IsQueue(q) == q \in Seq(ToSet(q)) /\ {} \notin ToSet(q)

LEMMA Queued ==
    ASSUME NEW q, IsQueue(q), NEW S
    PROVE  /\ IsQueue(q \o Batch(S))
           /\ UNION ToSet(q \o Batch(S)) = (UNION ToSet(q)) \cup S
<1>1. CASE S = {}
  <2>1. q \o Batch(S) = q BY <1>1 DEF Batch, IsQueue
  <2> QED BY <1>1, <2>1
<1>2. CASE S # {}
  <2> DEFINE r == q \o <<S>>
  <2>1. Batch(S) = <<S>> BY <1>2 DEF Batch
  <2>2. q \in Seq(ToSet(q) \cup {S})
    <3>1. ToSet(q) \subseteq ToSet(q) \cup {S} OBVIOUS
    <3> HIDE DEF r
    <3> QED BY <3>1 DEF IsQueue
  <2>3. /\ Len(q) \in Nat /\ DOMAIN q = 1 .. Len(q)
        /\ DOMAIN r = 1 .. Len(q) + 1
        /\ \A i \in 1 .. Len(q) : r[i] = q[i]
        /\ r[Len(q) + 1] = S
        /\ r \in Seq(ToSet(q) \cup {S})
    BY <2>2
  <2> HIDE DEF r
  <2>4. ToSet(r) = ToSet(q) \cup {S}
    <3>1. ASSUME NEW x \in ToSet(r) PROVE x \in ToSet(q) \cup {S} BY <2>3 DEF ToSet
    <3>2. ASSUME NEW x \in ToSet(q) PROVE x \in ToSet(r)
      <4>1. PICK i \in 1 .. Len(q) : x = q[i] BY <2>3 DEF ToSet
      <4>2. i \in DOMAIN r /\ r[i] = x BY <2>3, <4>1
      <4> QED BY <4>2 DEF ToSet
    <3>3. S \in ToSet(r)
      <4>1. Len(q) + 1 \in DOMAIN r BY <2>3
      <4> QED BY <2>3, <4>1 DEF ToSet
    <3> QED BY <3>1, <3>2, <3>3
  <2>5. IsQueue(r)
    <3>1. {} \notin ToSet(r) BY <1>2, <2>4 DEF IsQueue
    <3>2. r \in Seq(ToSet(r)) BY <2>3, <2>4
    <3> QED BY <3>1, <3>2 DEF IsQueue
  <2>6. q \o Batch(S) = r BY <2>1 DEF r
  <2> QED BY <2>4, <2>5, <2>6
<1> QED BY <1>1, <1>2

LEMMA Pushed ==
    ASSUME NEW q, IsQueue(q), NEW S
    PROVE  /\ IsQueue(Batch(S) \o q)
           /\ UNION ToSet(Batch(S) \o q) = S \cup (UNION ToSet(q))
<1>1. q \in Seq(ToSet(q)) /\ {} \notin ToSet(q) BY DEF IsQueue
<1>2. CASE S = {}
  <2>1. Batch(S) \o q = q BY <1>1, <1>2 DEF Batch
  <2> QED BY <1>2, <2>1
<1>3. CASE S # {}
  <2> DEFINE r == <<S>> \o q
  <2>1. Batch(S) = <<S>> BY <1>3 DEF Batch
  <2>2. /\ DOMAIN q = 1 .. Len(q) /\ Len(q) \in Nat
        /\ DOMAIN r = 1 .. Len(q) + 1 /\ r[1] = S
        /\ \A i \in 1 .. Len(q) : r[i + 1] = q[i]
        /\ r \in Seq(ToSet(q) \cup {S})
    <3>1. q \in Seq(ToSet(q) \cup {S})
      <4>1. ToSet(q) \subseteq ToSet(q) \cup {S} OBVIOUS
      <4>2. Len(q) \in Nat /\ \A i \in 1 .. Len(q) : q[i] \in ToSet(q) BY <1>1
      <4> QED BY <1>1, <4>1, <4>2
    <3> QED BY <1>1, <3>1
  <2> HIDE DEF r
  <2>3. ToSet(r) = {S} \cup ToSet(q)
    <3>1. ASSUME NEW x \in ToSet(r) PROVE x \in {S} \cup ToSet(q)
      <4>1. PICK i \in 1 .. Len(q) + 1 : x = r[i] BY <2>2, <3>1 DEF ToSet
      <4>2. CASE i = 1 BY <2>2, <4>1, <4>2
      <4>3. CASE i # 1
        <5>1. i - 1 \in 1 .. Len(q) /\ (i - 1) + 1 = i BY <2>2, <4>1, <4>3
        <5>2. x = q[i - 1] BY <2>2, <4>1, <5>1
        <5>3. i - 1 \in DOMAIN q BY <2>2, <5>1
        <5> QED BY <5>2, <5>3 DEF ToSet
      <4> QED BY <4>2, <4>3
    <3>2. ASSUME NEW x \in ToSet(q) PROVE x \in ToSet(r)
      <4>1. PICK i \in 1 .. Len(q) : x = q[i] BY <2>2 DEF ToSet
      <4>2. i + 1 \in DOMAIN r /\ r[i + 1] = x BY <2>2, <4>1
      <4> QED BY <4>2 DEF ToSet
    <3>3. S \in ToSet(r)
      <4>1. 1 \in DOMAIN r BY <2>2
      <4> QED BY <2>2, <4>1 DEF ToSet
    <3> QED BY <3>1, <3>2, <3>3
  <2>4. IsQueue(r)
    <3>1. {} \notin ToSet(r) BY <1>1, <1>3, <2>3
    <3>2. r \in Seq(ToSet(r)) BY <2>2, <2>3
    <3> QED BY <3>1, <3>2 DEF IsQueue
  <2>5. UNION ToSet(r) = S \cup (UNION ToSet(q)) BY <2>3
  <2>6. Batch(S) \o q = r BY <2>1 DEF r
  <2> QED BY <2>4, <2>5, <2>6
<1> QED BY <1>2, <1>3

LEMMA Taking ==
    ASSUME NEW q, IsQueue(q), q # <<>>, NEW t \in Head(q)
    PROVE  LET r == Batch(Head(q) \ {t}) \o Tail(q)
           IN  IsQueue(r) /\ UNION ToSet(q) = (UNION ToSet(r)) \cup {t}
<1> DEFINE T == Tail(q)
<1>1. /\ Len(q) \in Nat \ {0} /\ DOMAIN q = 1 .. Len(q) /\ Head(q) = q[1]
      /\ DOMAIN T = 1 .. Len(q) - 1 /\ T \in Seq(ToSet(q)) /\ Len(T) = Len(q) - 1
      /\ \A i \in 1 .. Len(q) - 1 : T[i] = q[i + 1]
  BY DEF IsQueue
<1> HIDE DEF T
<1>2. ToSet(q) = {Head(q)} \cup ToSet(T)
  <2>1. ASSUME NEW x \in ToSet(q) PROVE x \in {Head(q)} \cup ToSet(T)
    <3>1. PICK i \in 1 .. Len(q) : x = q[i] BY <1>1 DEF ToSet
    <3>2. CASE i = 1 BY <1>1, <3>1, <3>2
    <3>3. CASE i # 1
      <4>1. i - 1 \in DOMAIN T /\ T[i - 1] = x BY <1>1, <3>1, <3>3
      <4> QED BY <4>1 DEF ToSet
    <3> QED BY <3>2, <3>3
  <2>2. ASSUME NEW x \in ToSet(T) PROVE x \in ToSet(q)
    <3>1. PICK i \in 1 .. Len(q) - 1 : x = T[i] BY <1>1 DEF ToSet
    <3>2. i + 1 \in DOMAIN q /\ q[i + 1] = x BY <1>1, <3>1
    <3> QED BY <3>2 DEF ToSet
  <2>3. Head(q) \in ToSet(q)
    <3>1. 1 \in DOMAIN q BY <1>1
    <3> QED BY <1>1, <3>1 DEF ToSet
  <2> QED BY <2>1, <2>2, <2>3
<1>3. IsQueue(T)
  <2>1. T \in Seq(ToSet(T))
    <3>1. \A i \in 1 .. Len(T) : T[i] \in ToSet(T) BY <1>1 DEF ToSet
    <3> QED BY <1>1, <3>1
  <2>2. {} \notin ToSet(T) BY <1>2 DEF IsQueue
  <2> QED BY <2>1, <2>2 DEF IsQueue
<1>4. UNION ToSet(q) = (Head(q) \ {t}) \cup (UNION ToSet(T)) \cup {t} BY <1>2
<1> QED BY <1>3, <1>4, Pushed DEF T

-----------------------------------------------------------------------------
(* The rules: what follows from more tasks is more.                        *)
LEMMA RulesGrow ==
    ASSUME NEW S, NEW T, S \subseteq T
    PROVE  Implications(S) \subseteq Implications(T)
<1>1. UNION {Implied(x) : x \in S} \subseteq UNION {Implied(x) : x \in T} OBVIOUS
<1>2. ASSUME NEW n, NEW s PROVE Pulled(S, n, s) \subseteq Pulled(T, n, s)
  <2>1. Edges(S, n, s) \subseteq Edges(T, n, s) BY DEF Edges
  <2>2. ASSUME NEW dep PROVE Asked(S, n, s, dep) \subseteq Asked(T, n, s, dep) BY DEF Asked
  <2>3. ASSUME NEW i PROVE Tell(n, s, i, Asked(S, n, s, NodeDeps(n)[i]))
                           \subseteq Tell(n, s, i, Asked(T, n, s, NodeDeps(n)[i]))
    BY <2>2 DEF Tell, For
  <2> QED BY <2>1, <2>3 DEF Pulled
<1>3. {<<x.n, x.s>> : x \in S} \subseteq {<<x.n, x.s>> : x \in T} OBVIOUS
<1> QED BY <1>1, <1>2, <1>3 DEF Implications

(* The least set above S that `step' adds nothing to, and the recursion of *)
(* LeastAbove, which arrives at it within a finite set.                    *)
LeastClosed(W, step, S) == {x \in W : \A T \in SUBSET W : S \subseteq T /\ step[T] \subseteq T => x \in T}
Grows(W, step, f) ==
    f = [S \in SUBSET W |-> IF S \cup step[S] = S THEN S ELSE f[S \cup step[S]]]

LEMMA LeastReached ==
    ASSUME NEW W, IsFiniteSet(W), NEW step \in [SUBSET W -> SUBSET W],
           \A S, T \in SUBSET W : S \subseteq T => step[S] \subseteq step[T]
    PROVE  /\ \E f : Grows(W, step, f)
           /\ \A f : Grows(W, step, f) => \A S \in SUBSET W : f[S] = LeastClosed(W, step, S)
<1> DEFINE Least(S) == LeastClosed(W, step, S)
           More(S) == S \cup step[S]
           g == [S \in SUBSET W |-> Least(S)]
<1>1. ASSUME NEW S \in SUBSET W
      PROVE  /\ More(S) \in SUBSET W
             /\ More(S) = S => Least(S) = S
             /\ Least(More(S)) = Least(S)
  <2>1. More(S) \in SUBSET W OBVIOUS
  <2>2. More(S) = S => Least(S) = S BY DEF LeastClosed
  <2>3. ASSUME NEW T \in SUBSET W, step[T] \subseteq T PROVE S \subseteq T <=> More(S) \subseteq T
    BY <2>3
  <2> HIDE DEF More
  <2>4. Least(More(S)) = Least(S) BY <2>3 DEF LeastClosed
  <2> QED BY <2>1, <2>2, <2>4
<1>2. Grows(W, step, g)
  <2>1. ASSUME NEW S \in SUBSET W PROVE Least(S) = IF More(S) = S THEN S ELSE g[More(S)]
    <3> HIDE DEF More, Least
    <3> QED BY <1>1, <2>1
  <2> HIDE DEF Least
  <2> QED BY <2>1 DEF Grows
<1>3. ASSUME NEW f, Grows(W, step, f)
      PROVE  \A S \in SUBSET W : f[S] = Least(S)
  <2> DEFINE B == {R \in SUBSET W : f[W \ R] # Least(W \ R)}
  <2> SUFFICES ASSUME B # {} PROVE FALSE
    <3>1. ASSUME NEW S \in SUBSET W PROVE W \ (W \ S) = S OBVIOUS
    <3> HIDE DEF Least
    <3>2. ASSUME NEW S \in SUBSET W, f[S] # Least(S) PROVE W \ S \in B BY <3>1, <3>2
    <3> QED BY <3>2
  <2>1. ASSUME NEW S \in SUBSET W PROVE f[S] = IF More(S) = S THEN S ELSE f[More(S)]
    <3>1. f = [R \in SUBSET W |-> IF More(R) = R THEN R ELSE f[More(R)]] BY <1>3 DEF Grows
    <3> HIDE DEF More
    <3> QED BY <2>1, <3>1
  <2>2. IsWellFoundedOn(StrictSubsetOrdering(W), SUBSET W)
    BY FS_StrictSubsetOrderingWellFounded, FS_FiniteSubsetsOfFinite
  <2>3. PICK R \in B : \A Q \in B : ~(<<Q, R>> \in StrictSubsetOrdering(W))
    <3>1. B \subseteq SUBSET W OBVIOUS
    <3> HIDE DEF B
    <3> QED BY <2>2, <3>1, WFMin
  <2> DEFINE S == W \ R
             Q == W \ More(S)
  <2>4. S \in SUBSET W OBVIOUS
  <2>5. f[S] # Least(S) OBVIOUS
  <2>6. More(S) # S /\ f[More(S)] # Least(More(S))
    <3> HIDE DEF More, Least, S
    <3> QED BY <1>1, <2>1, <2>4, <2>5
  <2>7. Q \in B
    <3>1. W \ Q = More(S) BY <1>1, <2>4
    <3> HIDE DEF More, Least, S
    <3> QED BY <2>6, <3>1
  <2>8. Q \subseteq R /\ Q # R /\ R \in SUBSET W
    <3>1. S \subseteq More(S) OBVIOUS
    <3>2. More(S) \subseteq W BY <1>1, <2>4
    <3>3. PICK x : x \in More(S) /\ x \notin S BY <2>6, <3>1
    <3>4. x \in W /\ x \in R /\ x \notin Q BY <3>2, <3>3
    <3> QED BY <3>1, <3>4
  <2>9. <<Q, R>> \in StrictSubsetOrdering(W) BY <2>8 DEF StrictSubsetOrdering
  <2> QED BY <2>3, <2>7, <2>9
<1> QED BY <1>2, <1>3

LEMMA LeastIs ==
    ASSUME NEW W, NEW step \in [SUBSET W -> SUBSET W], NEW S \in SUBSET W,
           \A R, T \in SUBSET W : R \subseteq T => step[R] \subseteq step[T]
    PROVE  LET least == LeastClosed(W, step, S) IN
           /\ least \in SUBSET W /\ S \subseteq least /\ step[least] \subseteq least
           /\ \A T \in SUBSET W : S \subseteq T /\ step[T] \subseteq T => least \subseteq T
<1> DEFINE least == LeastClosed(W, step, S)
<1>1. least \in SUBSET W /\ S \subseteq least
      /\ \A T \in SUBSET W : S \subseteq T /\ step[T] \subseteq T => least \subseteq T
  BY DEF LeastClosed
<1>2. step[least] \subseteq W BY <1>1
<1>3. ASSUME NEW T \in SUBSET W, S \subseteq T, step[T] \subseteq T PROVE step[least] \subseteq T
  <2>1. least \subseteq T BY <1>1, <1>3
  <2> HIDE DEF least
  <2> QED BY <1>1, <1>3, <2>1
<1>4. step[least] \subseteq least
  BY <1>2, <1>3 DEF LeastClosed
<1> QED BY <1>1, <1>4

(* On a finite set of tasks the least closed set is what the recursion     *)
(* arrives at.                                                             *)
LEMMA ClosureIsLeast ==
    ASSUME NEW start, IsFiniteSet(Tasks(start)), start \subseteq Tasks(start),
           \A S \in SUBSET Tasks(start) : Implications(S) \subseteq Tasks(start)
    PROVE  /\ start \subseteq Closure(start) /\ Closure(start) \subseteq Tasks(start)
           /\ Implications(Closure(start)) \subseteq Closure(start)
           /\ \A T \in SUBSET Tasks(start) :
                start \subseteq T /\ Implications(T) \subseteq T => Closure(start) \subseteq T
<1> DEFINE W == Tasks(start)
           step == [S \in SUBSET W |-> Implications(S)]
           Eqn(f) == f = [S \in SUBSET W |->
                            IF S \cup Implications(S) = S THEN S ELSE f[S \cup Implications(S)]]
           grow == CHOOSE f : Eqn(f)
           least == LeastClosed(W, step, start)
<1>1. Closure(start) = grow[start] BY DEF Closure, LeastAbove
<1> HIDE DEF grow
<1>2. /\ step \in [SUBSET W -> SUBSET W]
      /\ \A S, T \in SUBSET W : S \subseteq T => step[S] \subseteq step[T]
      /\ \A S \in SUBSET W : step[S] = Implications(S)
  BY RulesGrow
<1>3. \A f : Eqn(f) <=> Grows(W, step, f) BY DEF Grows
<1> HIDE DEF step, Eqn
<1>4. /\ \E f : Grows(W, step, f)
      /\ \A f : Grows(W, step, f) => \A S \in SUBSET W : f[S] = LeastClosed(W, step, S)
  BY <1>2, LeastReached
<1>5. Eqn(grow) BY <1>3, <1>4 DEF grow
<1>6. Closure(start) = least BY <1>1, <1>3, <1>4, <1>5
<1>7. /\ least \in SUBSET W /\ start \subseteq least /\ step[least] \subseteq least
      /\ \A T \in SUBSET W : start \subseteq T /\ step[T] \subseteq T => least \subseteq T
  BY <1>2, LeastIs
<1> QED BY <1>2, <1>6, <1>7

(* There are finitely many tasks, and the rules ask for no others.         *)
TaskForm(x) == /\ x = [n |-> x.n, s |-> x.s, v |-> x.v]
               /\ x.s \in BOOLEAN /\ (x.v = Base \/ IsValue(x.v))

LEMMA ImageFinite ==
    ASSUME NEW f, f = [x \in DOMAIN f |-> f[x]], IsFiniteSet(DOMAIN f)
    PROVE  IsFiniteSet({f[x] : x \in DOMAIN f})
<1>1. f \in Surjection(DOMAIN f, {f[x] : x \in DOMAIN f}) BY DEF Surjection
<1> QED BY <1>1, FS_Surjection

LEMMA UnionFinite ==
    ASSUME NEW f, f = [x \in DOMAIN f |-> f[x]], IsFiniteSet(DOMAIN f),
           \A x \in DOMAIN f : IsFiniteSet(f[x])
    PROVE  IsFiniteSet(UNION {f[x] : x \in DOMAIN f})
<1>1. IsFiniteSet({f[x] : x \in DOMAIN f}) BY ImageFinite
<1>2. \A T \in {f[x] : x \in DOMAIN f} : IsFiniteSet(T) OBVIOUS
<1> QED BY <1>1, <1>2, FS_UNION

LEMMA FewFinite ==
    ASSUME NEW a, NEW b, NEW c
    PROVE  IsFiniteSet({a, b}) /\ IsFiniteSet({a, b, c})
<1>1. {a, b} = {a} \cup {b} /\ {a, b, c} = ({a} \cup {b}) \cup {c} OBVIOUS
<1>2. IsFiniteSet({a} \cup {b}) BY FS_Singleton, FS_AddElement
<1>3. IsFiniteSet(({a} \cup {b}) \cup {c}) BY <1>2, FS_AddElement
<1> QED BY <1>1, <1>2, <1>3

LEMMA EmptyFinite ==
    /\ IsFiniteSet({}) /\ IsFiniteSet(DOMAIN <<>>) /\ IsFiniteSet(DOMAIN NoEntries)
<1>1. IsFiniteSet({}) BY FS_EmptySet
<1>2. DOMAIN <<>> = {} OBVIOUS
<1>3. DOMAIN NoEntries = {} BY DEF NoEntries
<1> QED BY <1>1, <1>2, <1>3

LEMMA DataFinite ==
    ASSUME graph.pkg \cup graph.sum \subseteq DOMAIN Manifests, NEW n
    PROVE  /\ IsFiniteSet(DOMAIN NodeDeps(n))
           /\ \A i \in DOMAIN NodeDeps(n) : IsFiniteSet(NodeDeps(n)[i].feats)
           /\ IsFiniteSet(DOMAIN NodeFeatures(n))
           /\ \A f \in DOMAIN NodeFeatures(n) : IsFiniteSet(DOMAIN NodeFeatures(n)[f])
<1>1. CASE HasData(graph, n)
  <2>1. n \in DOMAIN Manifests BY <1>1 DEF HasData
  <2> QED BY <1>1, <2>1, PlanningAssumption DEF NodeDeps, NodeFeatures, DepsOf, FeaturesOf
<1>2. CASE ~HasData(graph, n)
  <2>1. NodeDeps(n) = <<>> /\ NodeFeatures(n) = NoEntries
    BY <1>2 DEF NodeDeps, NodeFeatures, DepsOf, FeaturesOf
  <2>2. DOMAIN <<>> = {} /\ DOMAIN NoEntries = {} BY DEF NoEntries
  <2> QED BY <2>1, <2>2, EmptyFinite
<1> QED BY <1>1, <1>2

LEMMA ToSetFinite ==
    ASSUME NEW q, IsFiniteSet(DOMAIN q)
    PROVE  IsFiniteSet(ToSet(q))
<1> DEFINE f == [i \in DOMAIN q |-> q[i]]
<1>1. ToSet(q) = {f[i] : i \in DOMAIN f} BY DEF ToSet
<1>2. f = [i \in DOMAIN f |-> f[i]] /\ DOMAIN f = DOMAIN q OBVIOUS
<1> HIDE DEF f
<1> QED BY <1>1, <1>2, ImageFinite

LEMMA MentionedFinite ==
    ASSUME graph.pkg \cup graph.sum \subseteq DOMAIN Manifests, NEW n
    PROVE  IsFiniteSet(Mentioned(n))
<1> DEFINE fs == [i \in DOMAIN NodeDeps(n) |-> NodeDeps(n)[i].feats]
           F == UNION {fs[i] : i \in DOMAIN fs}
           ff == [f \in F |-> Feat(f)]
           vs == [f \in DOMAIN NodeFeatures(n) |-> ToSet(NodeFeatures(n)[f])]
<1>1. IsFiniteSet(F)
  <2>1. DOMAIN fs = DOMAIN NodeDeps(n) /\ \A i \in DOMAIN fs : IsFiniteSet(fs[i])
    BY DataFinite
  <2>2. fs = [i \in DOMAIN fs |-> fs[i]] OBVIOUS
  <2>3. IsFiniteSet(DOMAIN fs) BY <2>1, DataFinite
  <2> HIDE DEF fs
  <2> QED BY <2>1, <2>2, <2>3, UnionFinite
<1> HIDE DEF F
<1>2. IsFiniteSet({ff[f] : f \in DOMAIN ff})
  <2>1. ff = [f \in DOMAIN ff |-> ff[f]] /\ DOMAIN ff = F OBVIOUS
  <2> HIDE DEF ff
  <2> QED BY <1>1, <2>1, ImageFinite
<1>3. IsFiniteSet(UNION {vs[f] : f \in DOMAIN vs})
  <2>1. DOMAIN vs = DOMAIN NodeFeatures(n) /\ \A f \in DOMAIN vs : IsFiniteSet(vs[f])
    BY DataFinite, ToSetFinite
  <2>2. vs = [f \in DOMAIN vs |-> vs[f]] OBVIOUS
  <2>3. IsFiniteSet(DOMAIN vs) BY <2>1, DataFinite
  <2> HIDE DEF vs
  <2> QED BY <2>1, <2>2, <2>3, UnionFinite
<1>4. IsFiniteSet({Base, Feat("default")}) BY FewFinite
<1>5. Mentioned(n) = ({Base, Feat("default")} \cup {ff[f] : f \in DOMAIN ff})
                     \cup UNION {vs[f] : f \in DOMAIN vs}
  <2>1. {Feat(f) : f \in UNION {NodeDeps(n)[i].feats : i \in DOMAIN NodeDeps(n)}}
          = {ff[f] : f \in DOMAIN ff}
    BY DEF F
  <2>2. UNION {ToSet(NodeFeatures(n)[f]) : f \in DOMAIN NodeFeatures(n)} = UNION {vs[f] : f \in DOMAIN vs}
    OBVIOUS
  <2> QED BY <2>1, <2>2 DEF Mentioned
<1> HIDE DEF ff, vs
<1>6. IsFiniteSet({Base, Feat("default")} \cup {ff[f] : f \in DOMAIN ff})
  BY <1>2, <1>4, FS_Union
<1>7. ASSUME NEW A, NEW C, IsFiniteSet(A), IsFiniteSet(C) PROVE IsFiniteSet(A \cup C)
  BY <1>7, FS_Union
<1> QED BY <1>3, <1>5, <1>6, <1>7

LEMMA TasksFinite ==
    ASSUME graph.pkg \cup graph.sum \subseteq DOMAIN Manifests, NEW start, IsFiniteSet(start)
    PROVE  IsFiniteSet(Tasks(start))
<1> DEFINE ns == [x \in start |-> x.n]
           N == graph.pkg \cup graph.sum \cup {x.n : x \in start}
           vs == [x \in start |-> x.v]
           ms == [n \in N |-> Mentioned(n)]
           said == {x.v : x \in start} \cup UNION {Mentioned(n) : n \in N}
           us == [v \in said |-> {Dep(v.dep), Feat(v.dep), Feat(v.feat)}]
           V == said \cup UNION {{Dep(v.dep), Feat(v.dep), Feat(v.feat)} : v \in said}
           rs == [p \in (N \X BOOLEAN) \X V |-> [n |-> p[1][1], s |-> p[1][2], v |-> p[2]]]
<1>1. IsFiniteSet(N)
  <2>1. IsFiniteSet(graph.pkg \cup graph.sum) BY PlanningAssumption, FS_Subset
  <2>2. IsFiniteSet({ns[x] : x \in DOMAIN ns})
    <3>1. ns = [x \in DOMAIN ns |-> ns[x]] /\ DOMAIN ns = start OBVIOUS
    <3> HIDE DEF ns
    <3> QED BY <3>1, ImageFinite
  <2>3. {ns[x] : x \in DOMAIN ns} = {x.n : x \in start} OBVIOUS
  <2> QED BY <2>1, <2>2, <2>3, FS_Union
<1> HIDE DEF N
<1>2. IsFiniteSet(said)
  <2>1. IsFiniteSet({vs[x] : x \in DOMAIN vs})
    <3>1. vs = [x \in DOMAIN vs |-> vs[x]] /\ DOMAIN vs = start OBVIOUS
    <3> HIDE DEF vs
    <3> QED BY <3>1, ImageFinite
  <2>2. {vs[x] : x \in DOMAIN vs} = {x.v : x \in start} OBVIOUS
  <2>3. IsFiniteSet(UNION {ms[n] : n \in DOMAIN ms})
    <3>1. ms = [n \in DOMAIN ms |-> ms[n]] /\ DOMAIN ms = N OBVIOUS
    <3>2. \A n \in DOMAIN ms : IsFiniteSet(ms[n]) BY MentionedFinite
    <3> HIDE DEF ms
    <3> QED BY <1>1, <3>1, <3>2, UnionFinite
  <2>4. UNION {ms[n] : n \in DOMAIN ms} = UNION {Mentioned(n) : n \in N} OBVIOUS
  <2> QED BY <2>1, <2>2, <2>3, <2>4, FS_Union
<1> HIDE DEF said
<1>3. IsFiniteSet(V)
  <2>1. IsFiniteSet(UNION {us[v] : v \in DOMAIN us})
    <3>1. us = [v \in DOMAIN us |-> us[v]] /\ DOMAIN us = said OBVIOUS
    <3>2. \A v \in DOMAIN us : IsFiniteSet(us[v]) BY FewFinite
    <3> HIDE DEF us
    <3> QED BY <1>2, <3>1, <3>2, UnionFinite
  <2>2. UNION {us[v] : v \in DOMAIN us} = UNION {{Dep(v.dep), Feat(v.dep), Feat(v.feat)} : v \in said}
    OBVIOUS
  <2> QED BY <1>2, <2>1, <2>2, FS_Union
<1>4. Tasks(start) = [n : N, s : BOOLEAN, v : V] BY DEF Tasks, N, said
<1> HIDE DEF V
<1>5. IsFiniteSet((N \X BOOLEAN) \X V)
  <2>1. BOOLEAN = {TRUE, FALSE} OBVIOUS
  <2>2. IsFiniteSet({TRUE, FALSE}) BY FewFinite
  <2>3. IsFiniteSet(N \X BOOLEAN) BY <1>1, <2>1, <2>2, FS_Product
  <2> QED BY <1>3, <2>3, FS_Product
<1>6. [n : N, s : BOOLEAN, v : V] = {rs[p] : p \in DOMAIN rs}
  <2>1. ASSUME NEW x \in [n : N, s : BOOLEAN, v : V] PROVE x \in {rs[p] : p \in DOMAIN rs}
    <3>1. <<<<x.n, x.s>>, x.v>> \in DOMAIN rs OBVIOUS
    <3>2. x = rs[<<<<x.n, x.s>>, x.v>>] OBVIOUS
    <3> HIDE DEF rs
    <3> QED BY <3>1, <3>2
  <2>2. ASSUME NEW p \in DOMAIN rs PROVE rs[p] \in [n : N, s : BOOLEAN, v : V]
    <3>1. p[1][1] \in N /\ p[1][2] \in BOOLEAN /\ p[2] \in V OBVIOUS
    <3> QED BY <3>1
  <2> HIDE DEF rs
  <2> QED BY <2>1, <2>2
<1>7. rs = [p \in DOMAIN rs |-> rs[p]] /\ DOMAIN rs = (N \X BOOLEAN) \X V OBVIOUS
<1> HIDE DEF rs
<1>8. IsFiniteSet({rs[p] : p \in DOMAIN rs}) BY <1>5, <1>7, ImageFinite
<1> QED BY <1>4, <1>6, <1>8

LEMMA ValueKinds ==
    /\ Base.do = "base" /\ Base.dep = "" /\ Base.feat = "" /\ Base.weak = FALSE
    /\ \A f : /\ Feat(f).do = "feat" /\ Feat(f).dep = "" /\ Feat(f).feat = f /\ Feat(f).weak = FALSE
    /\ \A d : /\ Dep(d).do = "dep" /\ Dep(d).dep = d /\ Dep(d).feat = "" /\ Dep(d).weak = FALSE
    /\ \A d, f, w : /\ DepFeat(d, f, w).do = "depfeat" /\ DepFeat(d, f, w).dep = d
                    /\ DepFeat(d, f, w).feat = f /\ DepFeat(d, f, w).weak = w
BY DEF Base, Feat, Dep, DepFeat

LEMMA RulesStay ==
    ASSUME NEW start, NEW S \in SUBSET Tasks(start)
    PROVE  Implications(S) \subseteq Tasks(start)
<1> DEFINE N == graph.pkg \cup graph.sum \cup {x.n : x \in start}
           said == {x.v : x \in start} \cup UNION {Mentioned(n) : n \in N}
           V == said \cup UNION {{Dep(v.dep), Feat(v.dep), Feat(v.feat)} : v \in said}
<1>1. Tasks(start) = [n : N, s : BOOLEAN, v : V] BY DEF Tasks
<1> HIDE DEF N
<1>2. ASSUME NEW n \in N PROVE Mentioned(n) \subseteq V OBVIOUS
<1>3. ASSUME NEW v \in V, v.do = "depfeat" PROVE {Dep(v.dep), Feat(v.dep), Feat(v.feat)} \subseteq V
  <2> HIDE DEF said
  <2>1. v \in said
    <3>1. ASSUME NEW w, v \in {Dep(w.dep), Feat(w.dep), Feat(w.feat)} PROVE FALSE
      <4>1. v = Dep(w.dep) \/ v = Feat(w.dep) \/ v = Feat(w.feat) BY <3>1
      <4>2. ASSUME NEW d PROVE Dep(d).do = "dep" /\ Feat(d).do = "feat" BY ValueKinds
      <4>3. v.do = "dep" \/ v.do = "feat" BY <4>1, <4>2
      <4> QED BY <1>3, <4>3
    <3> QED BY <1>3, <3>1
  <2> HIDE DEF said
  <2> QED BY <2>1
<1> HIDE DEF V
<1>4. ASSUME NEW x \in S PROVE Implied(x) \subseteq Tasks(start)
  <2>1. x \in [n : N, s : BOOLEAN, v : V] BY <1>1
  <2>2. CASE x.v.do = "feat" /\ x.v.feat \in DOMAIN NodeFeatures(x.n) /\ Loaded(x.n)
    <3>1. Implied(x) = {[x EXCEPT !.v = v] : v \in ToSet(NodeFeatures(x.n)[x.v.feat])}
      BY <2>2 DEF Implied
    <3>2. ToSet(NodeFeatures(x.n)[x.v.feat]) \subseteq Mentioned(x.n) BY <2>2 DEF Mentioned
    <3>3. ToSet(NodeFeatures(x.n)[x.v.feat]) \subseteq V BY <1>2, <2>1, <3>2
    <3> QED BY <1>1, <2>1, <3>1, <3>3
  <2>3. CASE x.v.do = "depfeat"
    <3>1. Implied(x) \subseteq {[x EXCEPT !.v = Dep(x.v.dep)], [x EXCEPT !.v = Feat(x.v.dep)]}
      BY <2>3 DEF Implied
    <3>2. {Dep(x.v.dep), Feat(x.v.dep)} \subseteq V BY <1>3, <2>1, <2>3
    <3> QED BY <1>1, <2>1, <3>1, <3>2
  <2>4. CASE ~(x.v.do = "feat" /\ x.v.feat \in DOMAIN NodeFeatures(x.n) /\ Loaded(x.n)) /\ x.v.do # "depfeat"
    BY <2>4 DEF Implied
  <2> QED BY <2>2, <2>3, <2>4
<1>5. ASSUME NEW x \in S PROVE Pulled(S, x.n, x.s) \subseteq Tasks(start)
  <2> DEFINE n == x.n
             s == x.s
  <2>1. n \in N BY <1>1
  <2>2. ASSUME NEW i \in DOMAIN NodeDeps(n) PROVE Asked(S, n, s, NodeDeps(n)[i]) \subseteq V
    <3> DEFINE dep == NodeDeps(n)[i]
    <3>1. {Base, Feat("default")} \cup {Feat(f) : f \in dep.feats} \subseteq Mentioned(n)
      BY DEF Mentioned
    <3>2. ASSUME NEW y \in S, y.v.do = "depfeat" PROVE Feat(y.v.feat) \in V
      <4>1. y.v \in V BY <1>1
      <4> QED BY <1>3, <3>2, <4>1
    <3> QED BY <1>2, <2>1, <3>1, <3>2 DEF Asked
  <2>3. ASSUME NEW i, NEW values, values \subseteq V PROVE Tell(n, s, i, values) \subseteq Tasks(start)
    <3>1. ASSUME NEW t, Loaded(t) PROVE t \in N BY <3>1 DEF Loaded, HasData, N
    <3>2. ASSUME NEW t PROVE TargetSide(t, NodeDeps(n)[i], s) \in BOOLEAN BY DEF TargetSide, Side
    <3>3. ASSUME NEW t, Loaded(t) PROVE For(t, TargetSide(t, NodeDeps(n)[i], s), values) \subseteq Tasks(start)
      BY <1>1, <2>3, <3>1, <3>2, <3>3 DEF For
    <3> QED BY <3>3 DEF Tell
  <2>4. Edges(S, n, s) \subseteq DOMAIN NodeDeps(n) BY DEF Edges
  <2> QED BY <2>2, <2>3, <2>4 DEF Pulled
<1> QED BY <1>4, <1>5 DEF Implications

-----------------------------------------------------------------------------
(* One run of the engine, from the tasks in start.                         *)
EngForm(e) ==
    e = [queue |-> e.queue, named |-> e.named, opt |-> e.opt, based |-> e.based,
         active |-> e.active, depFeats |-> e.depFeats, missing |-> e.missing,
         unloaded |-> e.unloaded, edges |-> e.edges, error |-> e.error]

(* Task x was taken, and what it turned on is taken or still pending.      *)
Taken(e, x) ==
    \/ ~Loaded(x.n)
    \/ x.v.do = "base" /\ <<x.n, x.s>> \in e.based
    \/ x.v.do = "feat" /\ (x.v.feat \in DOMAIN NodeFeatures(x.n) => <<x.n, x.s, x.v.feat>> \in e.named)
    \/ x.v.do = "dep" /\ <<x.n, x.s, x.v.dep>> \in e.opt
    \/ x.v.do = "depfeat" /\ [n |-> x.n, s |-> x.s, dep |-> x.v.dep, feat |-> x.v.feat] \in e.depFeats
Handled(e, x) == /\ Taken(e, x)
                 /\ x.v.do = "depfeat" => \A y \in Implied(x) : Taken(e, y) \/ y \in Pending(e)
Got(e, x) == Handled(e, x) \/ x \in Pending(e)

(* Whatever a rule asks for was handled or is pending ...                  *)
StartGot(e, start) == \A x \in start : Got(e, x)
NamedGot(e) == \A k \in e.named : \A v \in ToSet(NodeFeatures(k[1])[k[3]]) :
                  Got(e, [n |-> k[1], s |-> k[2], v |-> v])
BasedActive(e) == \A k \in e.based : \A i \in DOMAIN NodeDeps(k[1]) : LET d == NodeDeps(k[1])[i] IN
                     ~d.optional /\ Applies(k[1], k[2], d) => <<k[1], k[2], i>> \in e.active
OptActive(e) == \A k \in e.opt : \A i \in DOMAIN NodeDeps(k[1]) : LET d == NodeDeps(k[1])[i] IN
                   d.optional /\ d.name = k[3] /\ Applies(k[1], k[2], d) => <<k[1], k[2], i>> \in e.active
ActiveForm(e) == \A a \in e.active : a = <<a[1], a[2], a[3]>> /\ a[3] \in DOMAIN NodeDeps(a[1])
ActiveGot(e) == \A a \in e.active :
                   \A y \in Tell(a[1], a[2], a[3], Asks(e, a[1], a[2], NodeDeps(a[1])[a[3]])) : Got(e, y)
Complete(e, start) == /\ StartGot(e, start) /\ NamedGot(e) /\ BasedActive(e) /\ OptActive(e)
                      /\ ActiveForm(e) /\ ActiveGot(e)

(* ... and nothing else is: what there is follows from any closed T.       *)
Sound(e, T) ==
    /\ Pending(e) \subseteq T
    /\ \A k \in e.named : \E x \in T : /\ k = <<x.n, x.s, x.v.feat>> /\ x.v.do = "feat"
                                       /\ Loaded(x.n) /\ x.v.feat \in DOMAIN NodeFeatures(x.n)
    /\ \A q \in e.depFeats : \E x \in T :
          x.v.do = "depfeat" /\ q = [n |-> x.n, s |-> x.s, dep |-> x.v.dep, feat |-> x.v.feat]
    /\ \A a \in e.active : a[3] \in Edges(T, a[1], a[2])
Closed(T) == Implications(T) \subseteq T

Good(e, start) ==
    /\ EngForm(e) /\ IsQueue(e.queue)
    /\ e.error => e.queue = <<>>
    /\ ~e.error => /\ \A x \in Pending(e) : TaskForm(x)
                   /\ Complete(e, start)
                   /\ \A T : start \subseteq T /\ Closed(T) => Sound(e, T)

LEMMA PoppedForm ==
    ASSUME EngForm(eng), IsQueue(eng.queue), eng.queue # <<>>
    PROVE  /\ Task \in Pending(eng)
           /\ EngForm(Popped) /\ IsQueue(Popped.queue)
           /\ Pending(eng) = Pending(Popped) \cup {Task}
           /\ Popped.named = eng.named /\ Popped.opt = eng.opt /\ Popped.based = eng.based
           /\ Popped.active = eng.active /\ Popped.depFeats = eng.depFeats
           /\ Popped.unloaded = eng.unloaded /\ Popped.error = eng.error
<1> DEFINE q == eng.queue
           r == Batch(Head(q) \ {Task}) \o Tail(q)
<1>1. Head(q) \in ToSet(q)
  <2>1. 1 \in DOMAIN q /\ Head(q) = q[1] BY DEF IsQueue
  <2> QED BY <2>1 DEF ToSet
<1>2. Task \in Head(q)
  <2>1. Head(q) # {} BY <1>1 DEF IsQueue
  <2> QED BY <2>1 DEF Task, Only
<1>3. IsQueue(r) /\ UNION ToSet(q) = (UNION ToSet(r)) \cup {Task}
  BY <1>2, Taking
<1>4. Popped = [eng EXCEPT !.queue = r] BY DEF Popped
<1> HIDE DEF r
<1>5. Popped = [queue |-> r, named |-> eng.named, opt |-> eng.opt, based |-> eng.based,
                active |-> eng.active, depFeats |-> eng.depFeats, missing |-> eng.missing,
                unloaded |-> eng.unloaded, edges |-> eng.edges, error |-> eng.error]
  BY <1>4 DEF EngForm
<1>6. EngForm(Popped) /\ Popped.queue = r BY <1>5 DEF EngForm
<1>7. Task \in Pending(eng) BY <1>3 DEF Pending
<1> QED BY <1>3, <1>5, <1>6, <1>7 DEF Pending

(* What was handled stays so, and what was pending stays or is handled.    *)
LEMMA GotStays ==
    ASSUME NEW e, NEW e2, NEW t,
           e.named \subseteq e2.named, e.opt \subseteq e2.opt, e.based \subseteq e2.based,
           e.depFeats \subseteq e2.depFeats,
           Pending(e) \subseteq Pending(e2) \cup {t}, Handled(e2, t)
    PROVE  \A x : Got(e, x) => Got(e2, x)
<1>1. ASSUME NEW x, Taken(e, x) PROVE Taken(e2, x) BY <1>1 DEF Taken
<1>2. ASSUME NEW x, x \in Pending(e) PROVE Got(e2, x) BY <1>2 DEF Got
<1>3. ASSUME NEW x, Handled(e, x) PROVE Handled(e2, x)
  <2>1. ASSUME NEW y, Taken(e, y) \/ y \in Pending(e) PROVE Taken(e2, y) \/ y \in Pending(e2)
    BY <1>1, <2>1 DEF Handled
  <2> QED BY <1>1, <1>3, <2>1 DEF Handled
<1> QED BY <1>2, <1>3 DEF Got

Known == graph.pkg \cup graph.sum \subseteq DOMAIN Manifests

LEMMA ValuesForm ==
    ASSUME Known, NEW n, NEW f \in DOMAIN NodeFeatures(n), NEW v \in ToSet(NodeFeatures(n)[f])
    PROVE  IsValue(v)
<1>1. CASE HasData(graph, n)
  <2>1. n \in DOMAIN Manifests BY <1>1 DEF HasData, Known
  <2> QED BY <1>1, <2>1, PlanningAssumption DEF NodeFeatures, FeaturesOf
<1>2. CASE ~HasData(graph, n)
  BY <1>2 DEF NodeFeatures, FeaturesOf, NoEntries
<1> QED BY <1>1, <1>2

Filled(e, act, mis, edg, unl, q) ==
    [e EXCEPT !.active = act, !.missing = mis, !.edges = edg, !.unloaded = unl, !.queue = q]
LEMMA FieldsForm ==
    ASSUME NEW e, EngForm(e), NEW act, NEW mis, NEW edg, NEW unl, NEW q
    PROVE  Filled(e, act, mis, edg, unl, q)
           = [queue |-> q, named |-> e.named, opt |-> e.opt, based |-> e.based,
              active |-> act, depFeats |-> e.depFeats, missing |-> mis,
              unloaded |-> unl, edges |-> edg, error |-> e.error]
<1> DEFINE e1 == [e EXCEPT !.active = act]
           e2 == [e1 EXCEPT !.missing = mis]
           e3 == [e2 EXCEPT !.edges = edg]
           e4 == [e3 EXCEPT !.unloaded = unl]
           e5 == [e4 EXCEPT !.queue = q]
<1>1. Filled(e, act, mis, edg, unl, q) = e5 BY DEF Filled
<1>2. e1 = [queue |-> e.queue, named |-> e.named, opt |-> e.opt, based |-> e.based,
            active |-> act, depFeats |-> e.depFeats, missing |-> e.missing,
            unloaded |-> e.unloaded, edges |-> e.edges, error |-> e.error]
  BY DEF EngForm
<1> HIDE DEF e1
<1>3. e2 = [queue |-> e.queue, named |-> e.named, opt |-> e.opt, based |-> e.based,
            active |-> act, depFeats |-> e.depFeats, missing |-> mis,
            unloaded |-> e.unloaded, edges |-> e.edges, error |-> e.error]
  BY <1>2
<1> HIDE DEF e2
<1>4. e3 = [queue |-> e.queue, named |-> e.named, opt |-> e.opt, based |-> e.based,
            active |-> act, depFeats |-> e.depFeats, missing |-> mis,
            unloaded |-> e.unloaded, edges |-> edg, error |-> e.error]
  BY <1>3
<1> HIDE DEF e3
<1>5. e4 = [queue |-> e.queue, named |-> e.named, opt |-> e.opt, based |-> e.based,
            active |-> act, depFeats |-> e.depFeats, missing |-> mis,
            unloaded |-> unl, edges |-> edg, error |-> e.error]
  BY <1>4
<1> HIDE DEF e4
<1>6. e5 = [queue |-> q, named |-> e.named, opt |-> e.opt, based |-> e.based,
            active |-> act, depFeats |-> e.depFeats, missing |-> mis,
            unloaded |-> unl, edges |-> edg, error |-> e.error]
  BY <1>5
<1> QED BY <1>1, <1>6

New(e, n, s, chosen) == {i \in chosen : Applies(n, s, NodeDeps(n)[i]) /\ <<n, s, i>> \notin e.active}
Told(e, n, s, new) == UNION {Tell(n, s, i, Asks(e, n, s, NodeDeps(n)[i])) : i \in new}

LEMMA ActivatedForm ==
    ASSUME NEW e, EngForm(e), IsQueue(e.queue), NEW n, NEW s, NEW chosen
    PROVE  LET new == New(e, n, s, chosen)
               e2 == ActivateAll(e, n, s, chosen)
           IN  /\ EngForm(e2) /\ IsQueue(e2.queue)
               /\ Pending(e2) = Pending(e) \cup Told(e, n, s, new)
               /\ e2.named = e.named /\ e2.opt = e.opt /\ e2.based = e.based
               /\ e2.depFeats = e.depFeats /\ e2.error = e.error
               /\ e2.active = e.active \cup {<<n, s, i>> : i \in new}
<1> DEFINE new == New(e, n, s, chosen)
           targets == [i \in new |-> TargetOf(graph, n, NodeDeps(n)[i])]
           S == Told(e, n, s, new)
           act == {<<n, s, i>> : i \in new}
           mis == {<<n, i>> : i \in {j \in new : targets[j] = {}}}
           edg == UNION {{n} \X targets[i] : i \in new}
           unl == {t \in UNION {targets[i] : i \in new} : ~Loaded(t)}
           e2 == Filled(e, e.active \cup act, e.missing \cup mis, e.edges \cup edg,
                        e.unloaded \cup unl, e.queue \o Batch(S))
<1>1. ActivateAll(e, n, s, chosen) = e2 BY DEF ActivateAll, ActivateEdges, Filled, New, Told
<1> HIDE DEF new, act, mis, edg, unl, S
<1>2. e2 = [queue |-> e.queue \o Batch(S), named |-> e.named, opt |-> e.opt, based |-> e.based,
            active |-> e.active \cup act, depFeats |-> e.depFeats, missing |-> e.missing \cup mis,
            unloaded |-> e.unloaded \cup unl, edges |-> e.edges \cup edg, error |-> e.error]
  <2> DEFINE A == e.active \cup act
             M == e.missing \cup mis
             D == e.edges \cup edg
             X == e.unloaded \cup unl
             q == e.queue \o Batch(S)
  <2>1. e2 = Filled(e, A, M, D, X, q) OBVIOUS
  <2> HIDE DEF e2, A, M, D, X, q
  <2>2. e2 = [queue |-> q, named |-> e.named, opt |-> e.opt, based |-> e.based,
              active |-> A, depFeats |-> e.depFeats, missing |-> M,
              unloaded |-> X, edges |-> D, error |-> e.error]
    BY <2>1, FieldsForm
  <2> QED BY <2>2 DEF A, M, D, X, q
<1> HIDE DEF e2
<1>3. EngForm(e2) /\ e2.queue = e.queue \o Batch(S) /\ e2.active = e.active \cup act
  BY <1>2 DEF EngForm
<1>4. IsQueue(e2.queue) /\ Pending(e2) = Pending(e) \cup S
  <2>1. /\ IsQueue(e.queue \o Batch(S))
        /\ UNION ToSet(e.queue \o Batch(S)) = (UNION ToSet(e.queue)) \cup S
    BY Queued
  <2>2. Pending(e2) = UNION ToSet(e2.queue) /\ Pending(e) = UNION ToSet(e.queue) BY DEF Pending
  <2> QED BY <1>3, <2>1, <2>2
<1>5. /\ e2.named = e.named /\ e2.opt = e.opt /\ e2.based = e.based
      /\ e2.depFeats = e.depFeats /\ e2.error = e.error
  BY <1>2
<1> QED BY <1>1, <1>3, <1>4, <1>5 DEF act, S, new

LEMMA ToldForm ==
    ASSUME NEW n, NEW s, NEW i, NEW values, \A v \in values : v = Base \/ IsValue(v),
           NEW y \in Tell(n, s, i, values)
    PROVE  TaskForm(y)
<1>1. PICK t : y \in For(t, TargetSide(t, NodeDeps(n)[i], s), values) BY DEF Tell
<1>2. TargetSide(t, NodeDeps(n)[i], s) \in BOOLEAN BY DEF TargetSide, Side
<1> QED BY <1>1, <1>2 DEF For, TaskForm

LEMMA AsksForm ==
    ASSUME NEW e, NEW n, NEW s, NEW dep
    PROVE  \A v \in Asks(e, n, s, dep) : v = Base \/ IsValue(v)
<1>1. \A f : IsValue(Feat(f)) BY ValueKinds DEF IsValue
<1> QED BY <1>1 DEF Asks

(* What is asked for is what the rules ask for.                            *)
LEMMA AsksFollow ==
    ASSUME NEW e, NEW T, Sound(e, T), NEW n, NEW s, NEW dep
    PROVE  Asks(e, n, s, dep) \subseteq Asked(T, n, s, dep)
<1>1. ASSUME NEW q \in e.depFeats, q.n = n, q.s = s, q.dep = dep.name
      PROVE  Feat(q.feat) \in Asked(T, n, s, dep)
  <2>1. PICK x \in T : x.v.do = "depfeat" /\ q = [n |-> x.n, s |-> x.s, dep |-> x.v.dep, feat |-> x.v.feat]
    BY DEF Sound
  <2>2. x.n = n /\ x.s = s /\ x.v.dep = dep.name /\ q.feat = x.v.feat BY <1>1, <2>1
  <2> QED BY <2>1, <2>2 DEF Asked
<1> QED BY <1>1 DEF Asks, Asked

LEMMA TellFollows ==
    ASSUME NEW T, Closed(T), NEW n, NEW s, NEW i \in Edges(T, n, s),
           NEW values, values \subseteq Asked(T, n, s, NodeDeps(n)[i])
    PROVE  Tell(n, s, i, values) \subseteq T
<1>1. Tell(n, s, i, values) \subseteq Tell(n, s, i, Asked(T, n, s, NodeDeps(n)[i])) BY DEF Tell, For
<1>2. Tell(n, s, i, Asked(T, n, s, NodeDeps(n)[i])) \subseteq Pulled(T, n, s) BY DEF Pulled
<1>3. \E x \in T : <<n, s>> = <<x.n, x.s>> BY DEF Edges
<1>4. Pulled(T, n, s) \subseteq Implications(T)
  <2> DEFINE k == <<n, s>>
  <2>1. k \in {<<x.n, x.s>> : x \in T} BY <1>3
  <2>2. k[1] = n /\ k[2] = s OBVIOUS
  <2> HIDE DEF k
  <2>3. Pulled(T, k[1], k[2]) \subseteq Implications(T) BY <2>1 DEF Implications
  <2> QED BY <2>2, <2>3
<1> QED BY <1>1, <1>2, <1>4 DEF Closed

LEMMA ImpliedFollows ==
    ASSUME NEW T, Closed(T), NEW x \in T
    PROVE  Implied(x) \subseteq T
BY DEF Closed, Implications

(* A task turns some dependencies on.                                      *)
LEMMA ActivatedGood ==
    ASSUME NEW start, Good(eng, start), ~eng.error, eng.queue # <<>>, Loaded(Task.n),
           Task.v.do \in {"base", "dep"}, NEW e, EngForm(e), e.queue = Popped.queue,
           e.named = eng.named, e.depFeats = eng.depFeats, e.active = eng.active, e.error = eng.error,
           eng.based \subseteq e.based, eng.opt \subseteq e.opt, Taken(e, Task), NEW chosen,
           \A i \in chosen : /\ i \in DOMAIN NodeDeps(Task.n)
                             /\ Task.v = IF NodeDeps(Task.n)[i].optional
                                         THEN Dep(NodeDeps(Task.n)[i].name) ELSE Base,
           \A k \in e.based \ eng.based :
              /\ k = <<Task.n, Task.s>>
              /\ \A i \in DOMAIN NodeDeps(Task.n) : ~NodeDeps(Task.n)[i].optional => i \in chosen,
           \A k \in e.opt \ eng.opt :
              /\ k[1] = Task.n /\ k[2] = Task.s
              /\ \A i \in DOMAIN NodeDeps(Task.n) :
                    NodeDeps(Task.n)[i].optional /\ NodeDeps(Task.n)[i].name = k[3] => i \in chosen
    PROVE  Good(ActivateAll(e, Task.n, Task.s, chosen), start)
<1> DEFINE n == Task.n
           s == Task.s
           new == New(e, n, s, chosen)
           asked(i) == Tell(n, s, i, Asks(e, n, s, NodeDeps(n)[i]))
           e2 == ActivateAll(e, n, s, chosen)
<1>1. /\ Task \in Pending(eng) /\ IsQueue(e.queue)
      /\ Pending(eng) = Pending(e) \cup {Task}
  BY PoppedForm DEF Good, Pending
<1>2. /\ EngForm(e2) /\ IsQueue(e2.queue)
      /\ Pending(e2) = Pending(e) \cup Told(e, n, s, new)
      /\ e2.named = e.named /\ e2.opt = e.opt /\ e2.based = e.based
      /\ e2.depFeats = e.depFeats /\ e2.error = e.error
      /\ e2.active = e.active \cup {<<n, s, i>> : i \in new}
  BY <1>1, ActivatedForm
<1>10. Told(e, n, s, new) = UNION {asked(i) : i \in new} BY DEF Told
<1> HIDE DEF e2, new
<1>3. /\ new \subseteq chosen /\ new \subseteq DOMAIN NodeDeps(n)
      /\ \A i \in new : Applies(n, s, NodeDeps(n)[i])
      /\ \A i \in chosen : Applies(n, s, NodeDeps(n)[i]) => <<n, s, i>> \in e2.active
  BY <1>2 DEF new, New
<1>4. Handled(e2, Task)
  <2>1. Taken(e2, Task) BY <1>2 DEF Taken
  <2> QED BY <2>1 DEF Handled
<1>5. \A x : Got(eng, x) => Got(e2, x)
  <2>1. Pending(eng) \subseteq Pending(e2) \cup {Task} BY <1>1, <1>2
  <2> QED BY <1>2, <1>4, <2>1, GotStays
<1>6. ASSUME NEW x \in Pending(e2) PROVE TaskForm(x)
  <2>1. CASE x \in Pending(e) BY <1>1, <2>1 DEF Good
  <2>2. ASSUME NEW i \in new, x \in asked(i) PROVE TaskForm(x)
    <3>1. \A v \in Asks(e, n, s, NodeDeps(n)[i]) : v = Base \/ IsValue(v) BY AsksForm
    <3> QED BY <2>2, <3>1, ToldForm
  <2> QED BY <1>2, <1>10, <2>1, <2>2
<1>7. Complete(e2, start)
  <2>1. Complete(eng, start) BY DEF Good
  <2>2. StartGot(e2, start) BY <1>5, <2>1 DEF Complete, StartGot
  <2>3. NamedGot(e2) BY <1>2, <1>5, <2>1 DEF Complete, NamedGot
  <2>4. BasedActive(e2)
    <3>1. ASSUME NEW k \in e2.based, NEW i \in DOMAIN NodeDeps(k[1]),
                 ~NodeDeps(k[1])[i].optional, Applies(k[1], k[2], NodeDeps(k[1])[i])
          PROVE  <<k[1], k[2], i>> \in e2.active
      <4>1. CASE k \in eng.based BY <1>2, <2>1, <3>1, <4>1 DEF Complete, BasedActive
      <4>2. CASE k \notin eng.based
        <5>1. k[1] = n /\ k[2] = s BY <1>2, <4>2
        <5>2. i \in chosen BY <1>2, <3>1, <4>2, <5>1
        <5>3. Applies(n, s, NodeDeps(n)[i]) BY <3>1, <5>1
        <5>4. <<n, s, i>> \in e2.active BY <1>3, <5>2, <5>3
        <5> QED BY <5>1, <5>4
      <4> QED BY <4>1, <4>2
    <3> QED BY <3>1 DEF BasedActive
  <2>5. OptActive(e2)
    <3>1. ASSUME NEW k \in e2.opt, NEW i \in DOMAIN NodeDeps(k[1]),
                 NodeDeps(k[1])[i].optional, NodeDeps(k[1])[i].name = k[3],
                 Applies(k[1], k[2], NodeDeps(k[1])[i])
          PROVE  <<k[1], k[2], i>> \in e2.active
      <4>1. CASE k \in eng.opt BY <1>2, <2>1, <3>1, <4>1 DEF Complete, OptActive
      <4>2. CASE k \notin eng.opt
        <5>1. k[1] = n /\ k[2] = s BY <1>2, <4>2
        <5>2. i \in chosen BY <1>2, <3>1, <4>2, <5>1
        <5>3. Applies(n, s, NodeDeps(n)[i]) BY <3>1, <5>1
        <5>4. <<n, s, i>> \in e2.active BY <1>3, <5>2, <5>3
        <5> QED BY <5>1, <5>4
      <4> QED BY <4>1, <4>2
    <3> QED BY <3>1 DEF OptActive
  <2>6. ActiveForm(e2)
    <3>1. ASSUME NEW a \in e2.active PROVE a = <<a[1], a[2], a[3]>> /\ a[3] \in DOMAIN NodeDeps(a[1])
      <4>1. CASE a \in eng.active BY <2>1, <4>1 DEF Complete, ActiveForm
      <4>2. ASSUME NEW i \in new, a = <<n, s, i>> PROVE a = <<a[1], a[2], a[3]>> /\ a[3] \in DOMAIN NodeDeps(a[1])
        BY <1>3, <4>2
      <4> QED BY <1>2, <4>1, <4>2
    <3> QED BY <3>1 DEF ActiveForm
  <2>7. ActiveGot(e2)
    <3>1. ASSUME NEW m, NEW z, NEW d PROVE Asks(e2, m, z, d) = Asks(eng, m, z, d) /\ Asks(e2, m, z, d) = Asks(e, m, z, d)
      BY <1>2 DEF Asks
    <3>2. ASSUME NEW a \in e2.active,
                 NEW y \in Tell(a[1], a[2], a[3], Asks(e2, a[1], a[2], NodeDeps(a[1])[a[3]]))
          PROVE  Got(e2, y)
      <4>1. CASE a \in eng.active
        <5>1. y \in Tell(a[1], a[2], a[3], Asks(eng, a[1], a[2], NodeDeps(a[1])[a[3]])) BY <3>1
        <5>2. Got(eng, y) BY <2>1, <4>1, <5>1 DEF Complete, ActiveGot
        <5> QED BY <1>5, <5>2
      <4>2. ASSUME NEW i \in new, a = <<n, s, i>> PROVE Got(e2, y)
        <5>1. y \in Tell(n, s, i, Asks(e2, n, s, NodeDeps(n)[i])) BY <4>2
        <5>2. y \in asked(i) BY <3>1, <5>1
        <5> QED BY <1>2, <1>10, <5>2 DEF Got
      <4> QED BY <1>2, <4>1, <4>2
    <3> QED BY <3>2 DEF ActiveGot
  <2> QED BY <2>2, <2>3, <2>4, <2>5, <2>6, <2>7 DEF Complete
<1>8. ASSUME NEW T, start \subseteq T, Closed(T) PROVE Sound(e2, T)
  <2>1. Sound(eng, T) BY <1>8 DEF Good
  <2>2. Task \in T BY <1>1, <2>1 DEF Sound
  <2>3. Task = [n |-> n, s |-> s, v |-> Task.v] BY <1>1 DEF Good, TaskForm
  <2>4. new \subseteq Edges(T, n, s)
    <3>1. ASSUME NEW i \in new PROVE i \in Edges(T, n, s)
      <4>1. [n |-> n, s |-> s, v |-> IF NodeDeps(n)[i].optional THEN Dep(NodeDeps(n)[i].name) ELSE Base] \in T
        BY <1>3, <2>2, <2>3
      <4> QED BY <1>3, <4>1 DEF Edges
    <3> QED BY <3>1
  <2>5. ASSUME NEW i \in new PROVE asked(i) \subseteq T
    <3>1. Asks(e, n, s, NodeDeps(n)[i]) = Asks(eng, n, s, NodeDeps(n)[i]) BY DEF Asks
    <3>2. Asks(e, n, s, NodeDeps(n)[i]) \subseteq Asked(T, n, s, NodeDeps(n)[i]) BY <2>1, <3>1, AsksFollow
    <3>3. i \in Edges(T, n, s) BY <2>4
    <3> QED BY <1>8, <3>2, <3>3, TellFollows
  <2>6. Pending(e2) \subseteq T
    <3>1. Pending(e) \subseteq T BY <1>1, <2>1 DEF Sound
    <3> HIDE DEF asked
    <3> QED BY <1>2, <1>10, <2>5, <3>1
  <2>7. ASSUME NEW a \in e2.active PROVE a[3] \in Edges(T, a[1], a[2])
    <3>1. CASE a \in eng.active BY <2>1, <3>1 DEF Sound
    <3>2. ASSUME NEW i \in new, a = <<n, s, i>> PROVE a[3] \in Edges(T, a[1], a[2])
      <4>1. a[1] = n /\ a[2] = s /\ a[3] = i BY <3>2
      <4> QED BY <2>4, <4>1
    <3> QED BY <1>2, <3>1, <3>2
  <2> QED BY <1>2, <2>1, <2>6, <2>7 DEF Sound
<1>9. ~e2.error BY <1>2
<1> QED BY <1>2, <1>6, <1>7, <1>8, <1>9 DEF Good, e2

(* A task is done with, and others come of it.                             *)
LEMMA AppendedGood ==
    ASSUME NEW start, Good(eng, start), ~eng.error, eng.queue # <<>>, NEW e2, NEW S,
           EngForm(e2), IsQueue(e2.queue), Pending(e2) = Pending(Popped) \cup S, ~e2.error,
           e2.opt = eng.opt, e2.based = eng.based, e2.active = eng.active,
           eng.named \subseteq e2.named, eng.depFeats \subseteq e2.depFeats, Handled(e2, Task),
           \A x \in S : TaskForm(x),
           \A k \in e2.named \ eng.named :
              /\ k = <<Task.n, Task.s, Task.v.feat>> /\ Task.v.do = "feat"
              /\ Loaded(Task.n) /\ Task.v.feat \in DOMAIN NodeFeatures(Task.n)
              /\ \A v \in ToSet(NodeFeatures(Task.n)[Task.v.feat]) : [n |-> Task.n, s |-> Task.s, v |-> v] \in S,
           \A q \in e2.depFeats \ eng.depFeats :
              /\ Task.v.do = "depfeat"
              /\ q = [n |-> Task.n, s |-> Task.s, dep |-> Task.v.dep, feat |-> Task.v.feat]
              /\ \A a \in eng.active : a[1] = Task.n /\ a[2] = Task.s
                                       /\ NodeDeps(a[1])[a[3]].name = Task.v.dep
                    => Tell(a[1], a[2], a[3], {Feat(Task.v.feat)}) \subseteq S,
           \A T : start \subseteq T /\ Closed(T) /\ Sound(eng, T) => S \subseteq T
    PROVE  Good(e2, start)
<1>1. /\ Task \in Pending(eng) /\ Pending(eng) = Pending(Popped) \cup {Task}
  BY PoppedForm DEF Good
<1>2. \A x : Got(eng, x) => Got(e2, x)
  <2>1. Pending(eng) \subseteq Pending(e2) \cup {Task} BY <1>1
  <2> QED BY <2>1, GotStays
<1>3. \A x \in Pending(e2) : TaskForm(x) BY <1>1 DEF Good
<1>4. Complete(e2, start)
  <2>1. Complete(eng, start) BY DEF Good
  <2>2. StartGot(e2, start) BY <1>2, <2>1 DEF Complete, StartGot
  <2>3. NamedGot(e2)
    <3>1. ASSUME NEW k \in e2.named, NEW v \in ToSet(NodeFeatures(k[1])[k[3]])
          PROVE  Got(e2, [n |-> k[1], s |-> k[2], v |-> v])
      <4>1. CASE k \in eng.named BY <1>2, <2>1, <4>1 DEF Complete, NamedGot
      <4>2. CASE k \notin eng.named
        <5>1. k[1] = Task.n /\ k[2] = Task.s /\ k[3] = Task.v.feat BY <4>2
        <5>2. [n |-> Task.n, s |-> Task.s, v |-> v] \in S BY <4>2, <5>1
        <5> QED BY <5>1, <5>2 DEF Got
      <4> QED BY <4>1, <4>2
    <3> QED BY <3>1 DEF NamedGot
  <2>4. BasedActive(e2) BY <2>1 DEF Complete, BasedActive
  <2>5. OptActive(e2) BY <2>1 DEF Complete, OptActive
  <2>6. ActiveForm(e2) BY <2>1 DEF Complete, ActiveForm
  <2>7. ActiveGot(e2)
    <3>1. ASSUME NEW a \in e2.active,
                 NEW y \in Tell(a[1], a[2], a[3], Asks(e2, a[1], a[2], NodeDeps(a[1])[a[3]]))
          PROVE  Got(e2, y)
      <4> DEFINE n == a[1]
                 s == a[2]
                 d == NodeDeps(a[1])[a[3]]
      <4>1. PICK v \in Asks(e2, n, s, d) : y \in Tell(n, s, a[3], {v}) BY DEF Tell, For
      <4>2. CASE v \in Asks(eng, n, s, d)
        <5>1. y \in Tell(n, s, a[3], Asks(eng, n, s, d)) BY <4>1, <4>2 DEF Tell, For
        <5>2. Got(eng, y) BY <2>1, <5>1 DEF Complete, ActiveGot
        <5> QED BY <1>2, <5>2
      <4>3. CASE v \notin Asks(eng, n, s, d)
        <5>1. PICK q \in e2.depFeats : q.n = n /\ q.s = s /\ q.dep = d.name /\ v = Feat(q.feat)
          BY <4>1, <4>3 DEF Asks
        <5>2. q \notin eng.depFeats BY <4>3, <5>1 DEF Asks
        <5>3. q = [n |-> Task.n, s |-> Task.s, dep |-> Task.v.dep, feat |-> Task.v.feat] BY <5>2
        <5>4. n = Task.n /\ s = Task.s /\ d.name = Task.v.dep /\ v = Feat(Task.v.feat) BY <5>1, <5>3
        <5>5. Tell(n, s, a[3], {Feat(Task.v.feat)}) \subseteq S BY <5>2, <5>4
        <5>6. y \in S BY <4>1, <5>4, <5>5
        <5> QED BY <5>6 DEF Got
      <4> QED BY <4>2, <4>3
    <3> QED BY <3>1 DEF ActiveGot
  <2> QED BY <2>2, <2>3, <2>4, <2>5, <2>6, <2>7 DEF Complete
<1>5. ASSUME NEW T, start \subseteq T, Closed(T) PROVE Sound(e2, T)
  <2>1. Sound(eng, T) BY <1>5 DEF Good
  <2>2. Task \in T BY <1>1, <2>1 DEF Sound
  <2>3. Pending(e2) \subseteq T
    <3>1. S \subseteq T BY <1>5, <2>1
    <3>2. Pending(Popped) \subseteq T BY <1>1, <2>1 DEF Sound
    <3> QED BY <3>1, <3>2
  <2>4. ASSUME NEW k \in e2.named
        PROVE  \E x \in T : /\ k = <<x.n, x.s, x.v.feat>> /\ x.v.do = "feat"
                            /\ Loaded(x.n) /\ x.v.feat \in DOMAIN NodeFeatures(x.n)
    <3>1. CASE k \in eng.named BY <2>1, <3>1 DEF Sound
    <3>2. CASE k \notin eng.named BY <2>2, <3>2
    <3> QED BY <3>1, <3>2
  <2>5. ASSUME NEW q \in e2.depFeats
        PROVE  \E x \in T : x.v.do = "depfeat" /\ q = [n |-> x.n, s |-> x.s, dep |-> x.v.dep, feat |-> x.v.feat]
    <3>1. CASE q \in eng.depFeats BY <2>1, <3>1 DEF Sound
    <3>2. CASE q \notin eng.depFeats BY <2>2, <3>2
    <3> QED BY <3>1, <3>2
  <2>6. \A a \in e2.active : a[3] \in Edges(T, a[1], a[2]) BY <2>1 DEF Sound
  <2> QED BY <2>3, <2>4, <2>5, <2>6 DEF Sound
<1> QED BY <1>3, <1>4, <1>5 DEF Good

LEMMA PoppedGood ==
    ASSUME NEW start, Good(eng, start), ~eng.error, eng.queue # <<>>, Taken(eng, Task),
           Task.v.do # "depfeat" \/ ~Loaded(Task.n),
           NEW e2, EngForm(e2), e2.queue = Popped.queue, ~e2.error,
           e2.opt = eng.opt, e2.based = eng.based, e2.active = eng.active,
           e2.named = eng.named, e2.depFeats = eng.depFeats
    PROVE  Good(e2, start)
<1>1. IsQueue(e2.queue) /\ Pending(e2) = Pending(Popped) \cup {} BY PoppedForm DEF Good, Pending
<1>2. Taken(e2, Task) BY DEF Taken
<1>3. Task.v.do = "depfeat" => Implied(Task) = {} BY DEF Implied
<1>4. Handled(e2, Task) BY <1>2, <1>3 DEF Handled
<1> DEFINE S == {}
<1>5. Pending(e2) = Pending(Popped) \cup S BY <1>1
<1>6. \A x \in S : TaskForm(x) OBVIOUS
<1>7. \A T : S \subseteq T OBVIOUS
<1>8. e2.named \ eng.named = {} /\ e2.depFeats \ eng.depFeats = {} OBVIOUS
<1> HIDE DEF S
<1> QED BY <1>1, <1>4, <1>5, <1>6, <1>7, <1>8, AppendedGood

(* One lemma for each kind of task.                                        *)
LEMMA SkipGood ==
    ASSUME NEW start, Good(eng, start), SkipUnloaded
    PROVE  Good(eng', start)
<1>1. eng.queue # <<>> /\ ~Loaded(Task.n) /\ eng' = [Popped EXCEPT !.unloaded = @ \cup {Task.n}]
  BY DEF SkipUnloaded
<1>2. ~eng.error BY <1>1 DEF Good
<1>3. /\ EngForm(Popped) /\ ~Popped.error
      /\ Popped.named = eng.named /\ Popped.opt = eng.opt /\ Popped.based = eng.based
      /\ Popped.active = eng.active /\ Popped.depFeats = eng.depFeats
  BY <1>1, <1>2, PoppedForm DEF Good
<1> DEFINE more == Popped.unloaded \cup {Task.n}
<1>4. eng' = [Popped EXCEPT !.unloaded = more] BY <1>1
<1> HIDE DEF more
<1>5. eng' = [queue |-> Popped.queue, named |-> eng.named, opt |-> eng.opt, based |-> eng.based,
              active |-> eng.active, depFeats |-> eng.depFeats, missing |-> Popped.missing,
              unloaded |-> more, edges |-> Popped.edges, error |-> Popped.error]
  BY <1>3, <1>4 DEF EngForm
<1>6. EngForm(eng') BY <1>5 DEF EngForm
<1>7. Taken(eng, Task) BY <1>1 DEF Taken
<1>8. /\ eng'.queue = Popped.queue /\ ~eng'.error
      /\ eng'.opt = eng.opt /\ eng'.based = eng.based /\ eng'.active = eng.active
      /\ eng'.named = eng.named /\ eng'.depFeats = eng.depFeats
  BY <1>3, <1>5
<1> DEFINE e2 == eng'
<1> HIDE DEF e2
<1>9. Good(e2, start)
  <2>1. EngForm(e2) /\ e2.queue = Popped.queue /\ ~e2.error
        /\ e2.opt = eng.opt /\ e2.based = eng.based /\ e2.active = eng.active
        /\ e2.named = eng.named /\ e2.depFeats = eng.depFeats
    BY <1>6, <1>8 DEF e2
  <2> QED BY <1>1, <1>2, <1>7, <2>1, PoppedGood
<1> QED BY <1>9 DEF e2

LEMMA BaseGood ==
    ASSUME NEW start, Good(eng, start), TakeBase
    PROVE  Good(eng', start)
<1> DEFINE n == Task.n
           s == Task.s
           B == Popped.based \cup {<<n, s>>}
           e == [Popped EXCEPT !.based = B]
           chosen == {i \in DOMAIN NodeDeps(n) : ~NodeDeps(n)[i].optional}
<1>1. /\ eng.queue # <<>> /\ Loaded(n) /\ Task.v.do = "base"
      /\ eng' = IF <<n, s>> \in eng.based THEN Popped ELSE ActivateAll(e, n, s, chosen)
  BY DEF TakeBase
<1>2. ~eng.error /\ IsQueue(eng.queue) /\ EngForm(eng) BY <1>1 DEF Good
<1>3. /\ Task \in Pending(eng) /\ EngForm(Popped) /\ Popped.error = eng.error
      /\ Popped.named = eng.named /\ Popped.opt = eng.opt /\ Popped.based = eng.based
      /\ Popped.active = eng.active /\ Popped.depFeats = eng.depFeats
  BY <1>1, <1>2, PoppedForm
<1>4. CASE <<n, s>> \in eng.based
  <2>1. Taken(eng, Task) BY <1>1, <1>4 DEF Taken
  <2> HIDE DEF Good
  <2>2. Good(Popped, start) BY <1>1, <1>2, <1>3, <2>1, PoppedGood
  <2> QED BY <1>1, <1>4, <2>2
<1>5. CASE <<n, s>> \notin eng.based
  <2> HIDE DEF B
  <2>1. e = [queue |-> Popped.queue, named |-> Popped.named, opt |-> Popped.opt, based |-> B,
             active |-> Popped.active, depFeats |-> Popped.depFeats, missing |-> Popped.missing,
             unloaded |-> Popped.unloaded, edges |-> Popped.edges, error |-> Popped.error]
    BY <1>3 DEF EngForm
  <2> HIDE DEF e
  <2>2. /\ EngForm(e) /\ e.queue = Popped.queue /\ e.named = eng.named
        /\ e.depFeats = eng.depFeats /\ e.active = eng.active /\ e.error = eng.error
        /\ e.opt = eng.opt /\ e.based = eng.based \cup {<<n, s>>}
    BY <1>3, <2>1 DEF EngForm, B
  <2>3. Taken(e, Task) BY <1>1, <2>2 DEF Taken
  <2>4. Task.v = Base
    <3>1. TaskForm(Task) BY <1>2, <1>3 DEF Good
    <3>2. ASSUME NEW f, NEW d, NEW w
          PROVE  Feat(f).do # "base" /\ Dep(d).do # "base" /\ DepFeat(d, f, w).do # "base"
      BY ValueKinds
    <3> QED BY <1>1, <3>1, <3>2 DEF TaskForm, IsValue
  <2>5. \A i \in chosen : /\ i \in DOMAIN NodeDeps(n)
                          /\ Task.v = IF NodeDeps(n)[i].optional THEN Dep(NodeDeps(n)[i].name) ELSE Base
    BY <2>4
  <2>6. \A k \in e.based \ eng.based :
           /\ k = <<n, s>>
           /\ \A i \in DOMAIN NodeDeps(n) : ~NodeDeps(n)[i].optional => i \in chosen
    BY <2>2
  <2>7. e.opt \ eng.opt = {} /\ eng.opt \subseteq e.opt /\ eng.based \subseteq e.based BY <2>2
  <2> HIDE DEF Good, chosen
  <2>8. Good(ActivateAll(e, n, s, chosen), start)
    BY <1>1, <1>2, <2>2, <2>3, <2>5, <2>6, <2>7, ActivatedGood
  <2> QED BY <1>1, <1>5, <2>8
<1> QED BY <1>4, <1>5

LEMMA DepGood ==
    ASSUME NEW start, Good(eng, start), TakeDep
    PROVE  Good(eng', start)
<1> DEFINE n == Task.n
           s == Task.s
           name == Task.v.dep
           O == Popped.opt \cup {<<n, s, name>>}
           e == [Popped EXCEPT !.opt = O]
           chosen == {i \in DOMAIN NodeDeps(n) : NodeDeps(n)[i].optional /\ NodeDeps(n)[i].name = name}
<1>1. /\ eng.queue # <<>> /\ Loaded(n) /\ Task.v.do = "dep"
      /\ eng' = IF <<n, s, name>> \in eng.opt THEN Popped ELSE ActivateAll(e, n, s, chosen)
  BY DEF TakeDep
<1>2. ~eng.error /\ IsQueue(eng.queue) /\ EngForm(eng) BY <1>1 DEF Good
<1>3. /\ Task \in Pending(eng) /\ EngForm(Popped) /\ Popped.error = eng.error
      /\ Popped.named = eng.named /\ Popped.opt = eng.opt /\ Popped.based = eng.based
      /\ Popped.active = eng.active /\ Popped.depFeats = eng.depFeats
  BY <1>1, <1>2, PoppedForm
<1>4. CASE <<n, s, name>> \in eng.opt
  <2>1. Taken(eng, Task) BY <1>1, <1>4 DEF Taken
  <2> HIDE DEF Good
  <2>2. Good(Popped, start) BY <1>1, <1>2, <1>3, <2>1, PoppedGood
  <2> QED BY <1>1, <1>4, <2>2
<1>5. CASE <<n, s, name>> \notin eng.opt
  <2> HIDE DEF O
  <2>1. e = [queue |-> Popped.queue, named |-> Popped.named, opt |-> O, based |-> Popped.based,
             active |-> Popped.active, depFeats |-> Popped.depFeats, missing |-> Popped.missing,
             unloaded |-> Popped.unloaded, edges |-> Popped.edges, error |-> Popped.error]
    BY <1>3 DEF EngForm
  <2> HIDE DEF e
  <2>2. /\ EngForm(e) /\ e.queue = Popped.queue /\ e.named = eng.named
        /\ e.depFeats = eng.depFeats /\ e.active = eng.active /\ e.error = eng.error
        /\ e.based = eng.based /\ e.opt = eng.opt \cup {<<n, s, name>>}
    BY <1>3, <2>1 DEF EngForm, O
  <2>3. Taken(e, Task) BY <1>1, <2>2 DEF Taken
  <2>4. Task.v = Dep(name)
    <3>1. TaskForm(Task) BY <1>2, <1>3 DEF Good
    <3>2. ASSUME NEW f, NEW d, NEW w
          PROVE  Feat(f).do # "dep" /\ Base.do # "dep" /\ DepFeat(d, f, w).do # "dep"
      BY ValueKinds
    <3> QED BY <1>1, <3>1, <3>2 DEF TaskForm, IsValue
  <2>5. \A i \in chosen : /\ i \in DOMAIN NodeDeps(n)
                          /\ Task.v = IF NodeDeps(n)[i].optional THEN Dep(NodeDeps(n)[i].name) ELSE Base
    BY <2>4
  <2>6. \A k \in e.opt \ eng.opt :
           /\ k[1] = n /\ k[2] = s
           /\ \A i \in DOMAIN NodeDeps(n) :
                 NodeDeps(n)[i].optional /\ NodeDeps(n)[i].name = k[3] => i \in chosen
    <3>1. ASSUME NEW k \in e.opt \ eng.opt PROVE k[1] = n /\ k[2] = s /\ k[3] = name
      <4>1. k = <<n, s, name>> BY <2>2
      <4> QED BY <4>1
    <3> QED BY <3>1
  <2>7. e.based \ eng.based = {} /\ eng.opt \subseteq e.opt /\ eng.based \subseteq e.based BY <2>2
  <2> HIDE DEF Good, chosen
  <2>8. Good(ActivateAll(e, n, s, chosen), start)
    BY <1>1, <1>2, <2>2, <2>3, <2>5, <2>6, <2>7, ActivatedGood
  <2> QED BY <1>1, <1>5, <2>8
<1> QED BY <1>4, <1>5

LEMMA FeatGood ==
    ASSUME NEW start, Known, Good(eng, start), TakeFeat
    PROVE  Good(eng', start)
<1> DEFINE n == Task.n
           s == Task.s
           f == Task.v.feat
           N == Popped.named \cup {<<n, s, f>>}
           S == For(n, s, ToSet(NodeFeatures(n)[f]))
           q == Popped.queue \o Batch(S)
           e1 == [Popped EXCEPT !.named = N]
           e2 == [e1 EXCEPT !.queue = q]
           yes == TRUE
           e3 == [Popped EXCEPT !.error = yes]
           e4 == [e3 EXCEPT !.queue = <<>>]
<1>1. /\ eng.queue # <<>> /\ Loaded(n) /\ Task.v.do = "feat"
      /\ \/ f \notin DOMAIN NodeFeatures(n) /\ eng' = Popped
         \/ eng' = [Popped EXCEPT !.error = TRUE, !.queue = <<>>]
         \/ <<n, s, f>> \in eng.named /\ eng' = Popped
         \/ /\ f \in DOMAIN NodeFeatures(n)
            /\ eng' = [Popped EXCEPT !.named = @ \cup {<<n, s, f>>}, !.queue = @ \o Batch(S)]
  BY DEF TakeFeat
<1>2. ~eng.error /\ IsQueue(eng.queue) /\ EngForm(eng) BY <1>1 DEF Good
<1>3. /\ Task \in Pending(eng) /\ EngForm(Popped) /\ IsQueue(Popped.queue)
      /\ Popped.error = eng.error
      /\ Popped.named = eng.named /\ Popped.opt = eng.opt /\ Popped.based = eng.based
      /\ Popped.active = eng.active /\ Popped.depFeats = eng.depFeats
  BY <1>1, <1>2, PoppedForm
<1>4. TaskForm(Task) BY <1>2, <1>3 DEF Good
<1>5. CASE (f \notin DOMAIN NodeFeatures(n) \/ <<n, s, f>> \in eng.named) /\ eng' = Popped
  <2>1. Taken(eng, Task) BY <1>1, <1>5 DEF Taken
  <2> HIDE DEF Good
  <2>2. Good(Popped, start) BY <1>1, <1>2, <1>3, <2>1, PoppedGood
  <2> QED BY <1>5, <2>2
<1>6. CASE eng' = [Popped EXCEPT !.error = TRUE, !.queue = <<>>]
  <2>1. eng' = e4 BY <1>6
  <2> HIDE DEF yes
  <2>2. e3 = [queue |-> Popped.queue, named |-> Popped.named, opt |-> Popped.opt, based |-> Popped.based,
              active |-> Popped.active, depFeats |-> Popped.depFeats, missing |-> Popped.missing,
              unloaded |-> Popped.unloaded, edges |-> Popped.edges, error |-> yes]
    BY <1>3 DEF EngForm
  <2> HIDE DEF e3
  <2>3. e4 = [queue |-> <<>>, named |-> Popped.named, opt |-> Popped.opt, based |-> Popped.based,
              active |-> Popped.active, depFeats |-> Popped.depFeats, missing |-> Popped.missing,
              unloaded |-> Popped.unloaded, edges |-> Popped.edges, error |-> yes]
    BY <2>2
  <2> HIDE DEF e4
  <2>4. EngForm(e4) /\ e4.queue = <<>> /\ e4.error BY <2>3 DEF EngForm, yes
  <2>5. IsQueue(<<>>) BY DEF IsQueue, ToSet
  <2>6. Good(e4, start) BY <2>4, <2>5 DEF Good
  <2> QED BY <2>1, <2>6
<1>7. CASE /\ f \in DOMAIN NodeFeatures(n)
           /\ eng' = [Popped EXCEPT !.named = @ \cup {<<n, s, f>>}, !.queue = @ \o Batch(S)]
  <2>1. eng' = e2 BY <1>7
  <2> HIDE DEF q, N
  <2>2. e1 = [queue |-> Popped.queue, named |-> N, opt |-> Popped.opt, based |-> Popped.based,
              active |-> Popped.active, depFeats |-> Popped.depFeats, missing |-> Popped.missing,
              unloaded |-> Popped.unloaded, edges |-> Popped.edges, error |-> Popped.error]
    BY <1>3 DEF EngForm
  <2> HIDE DEF e1
  <2>3. e2 = [queue |-> q, named |-> N, opt |-> Popped.opt, based |-> Popped.based,
              active |-> Popped.active, depFeats |-> Popped.depFeats, missing |-> Popped.missing,
              unloaded |-> Popped.unloaded, edges |-> Popped.edges, error |-> Popped.error]
    BY <2>2
  <2> HIDE DEF e2
  <2>4. /\ EngForm(e2) /\ e2.queue = q /\ e2.named = eng.named \cup {<<n, s, f>>}
        /\ e2.depFeats = eng.depFeats /\ e2.active = eng.active /\ ~e2.error
        /\ e2.opt = eng.opt /\ e2.based = eng.based
    BY <1>2, <1>3, <2>3 DEF EngForm, N
  <2> HIDE DEF S
  <2>5. IsQueue(e2.queue) /\ Pending(e2) = Pending(Popped) \cup S
    <3>1. /\ IsQueue(Popped.queue \o Batch(S))
          /\ UNION ToSet(Popped.queue \o Batch(S)) = (UNION ToSet(Popped.queue)) \cup S
      BY <1>3, Queued
    <3>2. Pending(e2) = UNION ToSet(e2.queue) /\ Pending(Popped) = UNION ToSet(Popped.queue)
      BY DEF Pending
    <3> QED BY <2>4, <3>1, <3>2 DEF q
  <2>6. Taken(e2, Task) BY <1>1, <2>4 DEF Taken
  <2>7. Handled(e2, Task) BY <1>1, <2>6 DEF Handled
  <2>8. \A x \in S : TaskForm(x)
    <3>1. s \in BOOLEAN BY <1>4 DEF TaskForm
    <3>2. \A v \in ToSet(NodeFeatures(n)[f]) : IsValue(v) BY <1>7, ValuesForm
    <3> QED BY <3>1, <3>2 DEF S, For, TaskForm
  <2>9. \A k \in e2.named \ eng.named :
           /\ k = <<n, s, f>> /\ Task.v.do = "feat" /\ Loaded(n) /\ f \in DOMAIN NodeFeatures(n)
           /\ \A v \in ToSet(NodeFeatures(n)[f]) : [n |-> n, s |-> s, v |-> v] \in S
    <3>1. \A v \in ToSet(NodeFeatures(n)[f]) : [n |-> n, s |-> s, v |-> v] \in S BY DEF S, For
    <3> QED BY <1>1, <1>7, <2>4, <3>1
  <2>10. e2.depFeats \ eng.depFeats = {} /\ eng.named \subseteq e2.named BY <2>4
  <2>11. ASSUME NEW T, start \subseteq T, Closed(T), Sound(eng, T) PROVE S \subseteq T
    <3>1. Task \in T BY <1>3, <2>11 DEF Sound
    <3>2. Implied(Task) = {[Task EXCEPT !.v = v] : v \in ToSet(NodeFeatures(n)[f])}
      BY <1>1, <1>7 DEF Implied
    <3>3. Task = [n |-> n, s |-> s, v |-> Task.v] BY <1>4 DEF TaskForm
    <3>4. ASSUME NEW x \in S PROVE x \in Implied(Task)
      <4>1. PICK v \in ToSet(NodeFeatures(n)[f]) : x = [n |-> n, s |-> s, v |-> v] BY DEF S, For
      <4>2. x = [Task EXCEPT !.v = v] BY <3>3, <4>1
      <4> QED BY <3>2, <4>2
    <3> QED BY <2>11, <3>1, <3>4, ImpliedFollows
  <2> HIDE DEF Good
  <2>12. Good(e2, start)
    BY <1>1, <1>2, <2>4, <2>5, <2>7, <2>8, <2>9, <2>10, <2>11, AppendedGood
  <2> QED BY <2>1, <2>12
<1> QED BY <1>1, <1>5, <1>6, <1>7

LEMMA DepFeatGood ==
    ASSUME NEW start, Good(eng, start), TakeDepFeat
    PROVE  Good(eng', start)
<1> DEFINE n == Task.n
           s == Task.s
           v == Task.v
           turnsOn == (~v.weak \/ opts.weakActivates) /\ Optional(n, s, v.dep)
           own == IF ~v.weak /\ v.dep \in DOMAIN NodeFeatures(n) THEN {Feat(v.dep)} ELSE {}
           told == {i \in DOMAIN NodeDeps(n) : <<n, s, i>> \in eng.active /\ NodeDeps(n)[i].name = v.dep}
           A == IF turnsOn THEN For(n, s, {Dep(v.dep)} \cup own) ELSE {}
           C == UNION {Tell(n, s, i, {Feat(v.feat)}) : i \in told}
           S == A \cup C
           rec == [n |-> n, s |-> s, dep |-> v.dep, feat |-> v.feat]
           D == Popped.depFeats \cup {rec}
           q == Popped.queue \o Batch(S)
           e1 == [Popped EXCEPT !.depFeats = D]
           e2 == [e1 EXCEPT !.queue = q]
<1>1. /\ eng.queue # <<>> /\ Loaded(n) /\ v.do = "depfeat" /\ eng' = e2
  BY DEF TakeDepFeat
<1>2. ~eng.error /\ IsQueue(eng.queue) /\ EngForm(eng) BY <1>1 DEF Good
<1>3. /\ Task \in Pending(eng) /\ EngForm(Popped) /\ IsQueue(Popped.queue)
      /\ Popped.error = eng.error
      /\ Popped.named = eng.named /\ Popped.opt = eng.opt /\ Popped.based = eng.based
      /\ Popped.active = eng.active /\ Popped.depFeats = eng.depFeats
  BY <1>1, <1>2, PoppedForm
<1>4. TaskForm(Task) BY <1>2, <1>3 DEF Good
<1>5. Task = [n |-> n, s |-> s, v |-> v] /\ s \in BOOLEAN BY <1>4 DEF TaskForm
<1>6. Implied(Task) = IF turnsOn THEN {[Task EXCEPT !.v = Dep(v.dep)]}
                                     \cup (IF ~v.weak /\ v.dep \in DOMAIN NodeFeatures(n)
                                           THEN {[Task EXCEPT !.v = Feat(v.dep)]} ELSE {})
                      ELSE {}
  BY <1>1 DEF Implied
<1>7. Implied(Task) = A
  <2>1. ASSUME NEW w PROVE [Task EXCEPT !.v = w] = [n |-> n, s |-> s, v |-> w] BY <1>5
  <2>2. ASSUME turnsOn PROVE A = {[n |-> n, s |-> s, v |-> w] : w \in {Dep(v.dep)} \cup own}
    BY <2>2 DEF For
  <2> DEFINE w1 == Dep(v.dep)
             w2 == Feat(v.dep)
  <2>3. CASE turnsOn /\ own = {w2}
    <3>1. A = {[n |-> n, s |-> s, v |-> w1], [n |-> n, s |-> s, v |-> w2]} BY <2>2, <2>3
    <3>2. Implied(Task) = {[Task EXCEPT !.v = w1], [Task EXCEPT !.v = w2]} BY <1>6, <2>3
    <3> QED BY <2>1, <3>1, <3>2
  <2>4. CASE turnsOn /\ own = {}
    <3>1. A = {[n |-> n, s |-> s, v |-> w1]} BY <2>2, <2>4
    <3>2. Implied(Task) = {[Task EXCEPT !.v = w1]} BY <1>6, <2>4
    <3> QED BY <2>1, <3>1, <3>2
  <2>5. CASE ~turnsOn BY <1>6, <2>5
  <2> QED BY <2>3, <2>4, <2>5
<1> HIDE DEF S, rec, q
<1>8. e1 = [queue |-> Popped.queue, named |-> Popped.named, opt |-> Popped.opt, based |-> Popped.based,
            active |-> Popped.active, depFeats |-> D, missing |-> Popped.missing,
            unloaded |-> Popped.unloaded, edges |-> Popped.edges, error |-> Popped.error]
  <2> HIDE DEF D
  <2> QED BY <1>3 DEF EngForm
<1> HIDE DEF e1
<1>9. e2 = [queue |-> q, named |-> Popped.named, opt |-> Popped.opt, based |-> Popped.based,
            active |-> Popped.active, depFeats |-> D, missing |-> Popped.missing,
            unloaded |-> Popped.unloaded, edges |-> Popped.edges, error |-> Popped.error]
  <2> HIDE DEF D
  <2> QED BY <1>8
<1> HIDE DEF e2
<1>10. /\ EngForm(e2) /\ e2.queue = q /\ e2.named = eng.named
       /\ e2.depFeats = eng.depFeats \cup {rec} /\ e2.active = eng.active /\ ~e2.error
       /\ e2.opt = eng.opt /\ e2.based = eng.based
  <2>1. EngForm(e2) /\ e2.queue = q /\ e2.depFeats = D BY <1>9 DEF EngForm
  <2>2. /\ e2.named = eng.named /\ e2.active = eng.active /\ ~e2.error
        /\ e2.opt = eng.opt /\ e2.based = eng.based
    BY <1>2, <1>3, <1>9
  <2> QED BY <1>3, <2>1, <2>2
<1>11. IsQueue(e2.queue) /\ Pending(e2) = Pending(Popped) \cup S
  <2>1. /\ IsQueue(Popped.queue \o Batch(S))
        /\ UNION ToSet(Popped.queue \o Batch(S)) = (UNION ToSet(Popped.queue)) \cup S
    BY <1>3, Queued
  <2>2. Pending(e2) = UNION ToSet(e2.queue) /\ Pending(Popped) = UNION ToSet(Popped.queue)
    BY DEF Pending
  <2> QED BY <1>10, <2>1, <2>2 DEF q
<1>12. Handled(e2, Task)
  <2>1. Taken(e2, Task) BY <1>1, <1>10 DEF Taken, rec
  <2>2. Implied(Task) \subseteq Pending(e2) BY <1>7, <1>11 DEF S
  <2> QED BY <2>1, <2>2 DEF Handled
<1>13. ASSUME NEW x \in S PROVE TaskForm(x)
  <2>1. \A w : IsValue(Feat(w)) /\ IsValue(Dep(w)) BY ValueKinds DEF IsValue
  <2>2. CASE x \in A BY <1>5, <2>1, <2>2 DEF For, TaskForm
  <2>3. CASE x \in C
    <3>1. PICK i \in told : x \in Tell(n, s, i, {Feat(v.feat)}) BY <2>3
    <3>2. \A w \in {Feat(v.feat)} : IsValue(w) BY <2>1
    <3> QED BY <3>1, <3>2, ToldForm
  <2> QED BY <2>2, <2>3 DEF S
<1>14. \A p \in e2.depFeats \ eng.depFeats :
          /\ v.do = "depfeat" /\ p = [n |-> n, s |-> s, dep |-> v.dep, feat |-> v.feat]
          /\ \A a \in eng.active : a[1] = n /\ a[2] = s /\ NodeDeps(a[1])[a[3]].name = v.dep
               => Tell(a[1], a[2], a[3], {Feat(v.feat)}) \subseteq S
  <2>1. ASSUME NEW a \in eng.active, a[1] = n, a[2] = s, NodeDeps(a[1])[a[3]].name = v.dep
        PROVE  Tell(a[1], a[2], a[3], {Feat(v.feat)}) \subseteq S
    <3>1. a = <<a[1], a[2], a[3]>> /\ a[3] \in DOMAIN NodeDeps(a[1])
      BY <1>2 DEF Good, Complete, ActiveForm
    <3>2. a[3] \in told BY <2>1, <3>1
    <3>3. Tell(n, s, a[3], {Feat(v.feat)}) \subseteq C BY <3>2
    <3> QED BY <2>1, <3>3 DEF S
  <2> HIDE DEF n, s, v
  <2> QED BY <1>1, <1>10, <2>1 DEF rec
<1>15. e2.named \ eng.named = {} /\ eng.named \subseteq e2.named /\ eng.depFeats \subseteq e2.depFeats
  BY <1>10
<1>16. ASSUME NEW T, start \subseteq T, Closed(T), Sound(eng, T) PROVE S \subseteq T
  <2>1. Task \in T BY <1>3, <1>16 DEF Sound
  <2>2. A \subseteq T BY <1>7, <1>16, <2>1, ImpliedFollows
  <2>3. ASSUME NEW i \in told PROVE Tell(n, s, i, {Feat(v.feat)}) \subseteq T
    <3>1. <<n, s, i>> \in eng.active /\ NodeDeps(n)[i].name = v.dep BY <2>3
    <3>2. i \in Edges(T, n, s)
      <4> DEFINE a == <<n, s, i>>
      <4>1. a[1] = n /\ a[2] = s /\ a[3] = i OBVIOUS
      <4> HIDE DEF a
      <4>2. a \in eng.active BY <3>1 DEF a
      <4>3. a[3] \in Edges(T, a[1], a[2]) BY <1>16, <4>2 DEF Sound
      <4> QED BY <4>1, <4>3
    <3>3. Feat(v.feat) \in Asked(T, n, s, NodeDeps(n)[i]) BY <1>1, <2>1, <3>1 DEF Asked
    <3> QED BY <1>16, <3>2, <3>3, TellFollows
  <2> HIDE DEF A, told
  <2> QED BY <2>2, <2>3 DEF S
<1> HIDE DEF Good
<1>17. Good(e2, start)
  BY <1>1, <1>2, <1>10, <1>11, <1>12, <1>13, <1>14, <1>15, <1>16, AppendedGood
<1> QED BY <1>1, <1>17 DEF e2

-----------------------------------------------------------------------------
(* What the drained engine has is the least closed set.                    *)
LEMMA TellGrows ==
    ASSUME NEW n, NEW s, NEW i, NEW V, NEW W, V \subseteq W
    PROVE  Tell(n, s, i, V) \subseteq Tell(n, s, i, W)
BY DEF Tell, For

LEMMA HandledClosed ==
    ASSUME NEW start, Good(eng, start), eng.queue = <<>>, ~eng.error
    PROVE  LET H == {x \in Tasks(start) : Handled(eng, x)}
           IN  /\ \A x \in start : Handled(eng, x)
               /\ Closed(H)
               /\ \A n, s : \A i \in Edges(H, n, s) : <<n, s, i>> \in eng.active
<1> DEFINE H == {x \in Tasks(start) : Handled(eng, x)}
<1>1. Pending(eng) = {} BY DEF Pending, ToSet
<1>2. Complete(eng, start) BY DEF Good
<1>3. \A x : Got(eng, x) => Handled(eng, x) BY <1>1 DEF Got
<1>4. \A x \in start : Handled(eng, x) BY <1>2, <1>3 DEF Complete, StartGot
<1>5. H \in SUBSET Tasks(start) OBVIOUS
<1>6. ASSUME NEW x \in H PROVE Taken(eng, x) /\ x = [n |-> x.n, s |-> x.s, v |-> x.v]
  BY DEF Handled, Tasks
<1>7. ASSUME NEW x \in H, NEW y \in Implied(x) PROVE Handled(eng, y)
  <2>1. Loaded(x.n) BY <1>7 DEF Implied
  <2>2. CASE x.v.do = "feat"
    <3>1. x.v.feat \in DOMAIN NodeFeatures(x.n) BY <1>7, <2>2 DEF Implied
    <3>2. Implied(x) = {[x EXCEPT !.v = v] : v \in ToSet(NodeFeatures(x.n)[x.v.feat])}
      BY <2>1, <2>2, <3>1 DEF Implied
    <3>3. PICK v \in ToSet(NodeFeatures(x.n)[x.v.feat]) : y = [x EXCEPT !.v = v] BY <1>7, <3>2
    <3>4. y = [n |-> x.n, s |-> x.s, v |-> v] BY <1>6, <3>3
    <3>5. <<x.n, x.s, x.v.feat>> \in eng.named BY <1>6, <2>1, <2>2, <3>1 DEF Taken
    <3>6. Got(eng, [n |-> x.n, s |-> x.s, v |-> v])
      <4> DEFINE k == <<x.n, x.s, x.v.feat>>
      <4>1. k[1] = x.n /\ k[2] = x.s /\ k[3] = x.v.feat OBVIOUS
      <4> HIDE DEF k
      <4>2. v \in ToSet(NodeFeatures(k[1])[k[3]]) BY <4>1
      <4>3. Got(eng, [n |-> k[1], s |-> k[2], v |-> v]) BY <1>2, <3>5, <4>2 DEF Complete, NamedGot, k
      <4> QED BY <4>1, <4>3
    <3> QED BY <1>3, <3>4, <3>6
  <2>3. CASE x.v.do = "depfeat"
    <3>1. Taken(eng, y) BY <1>1, <1>7, <2>3 DEF Handled
    <3>2. y = [x EXCEPT !.v = Dep(x.v.dep)] \/ y = [x EXCEPT !.v = Feat(x.v.dep)]
      BY <1>7, <2>1, <2>3 DEF Implied
    <3>3. y.v = Dep(x.v.dep) \/ y.v = Feat(x.v.dep)
      <4> DEFINE w1 == Dep(x.v.dep)
                 w2 == Feat(x.v.dep)
      <4>1. y = [x EXCEPT !.v = w1] \/ y = [x EXCEPT !.v = w2] BY <3>2
      <4> HIDE DEF w1, w2
      <4>2. y.v = w1 \/ y.v = w2 BY <1>6, <4>1
      <4> QED BY <4>2 DEF w1, w2
    <3>4. \A d : Dep(d).do # "depfeat" /\ Feat(d).do # "depfeat" BY ValueKinds
    <3>5. y.v.do # "depfeat" BY <3>3, <3>4
    <3> QED BY <3>1, <3>5 DEF Handled
  <2>4. CASE x.v.do # "feat" /\ x.v.do # "depfeat" BY <1>7, <2>4 DEF Implied
  <2> QED BY <2>2, <2>3, <2>4
<1>8. ASSUME NEW n, NEW s, NEW i \in Edges(H, n, s) PROVE <<n, s, i>> \in eng.active
  <2> DEFINE d == NodeDeps(n)[i]
             v == IF d.optional THEN Dep(d.name) ELSE Base
             x == [n |-> n, s |-> s, v |-> v]
  <2>1. i \in DOMAIN NodeDeps(n) /\ Loaded(n) /\ Applies(n, s, d) /\ x \in H BY DEF Edges
  <2>2. Taken(eng, x) BY <1>6, <2>1
  <2> DEFINE k == <<n, s>>
             j == <<n, s, d.name>>
  <2>3. k[1] = n /\ k[2] = s /\ j[1] = n /\ j[2] = s /\ j[3] = d.name OBVIOUS
  <2>4. x.n = n /\ x.s = s /\ x.v = v OBVIOUS
  <2> HIDE DEF x, v, d
  <2>5. CASE d.optional
    <3>1. v = Dep(d.name) BY <2>5 DEF v
    <3>2. v.do = "dep" /\ v.dep = d.name BY <3>1, ValueKinds
    <3>3. j \in eng.opt BY <2>1, <2>2, <2>4, <3>2 DEF Taken
    <3> HIDE DEF j
    <3> QED BY <1>2, <2>1, <2>3, <2>5, <3>3 DEF Complete, OptActive, d
  <2>6. CASE ~d.optional
    <3>1. v = Base BY <2>6 DEF v
    <3>2. v.do = "base" BY <3>1, ValueKinds
    <3>3. k \in eng.based BY <2>1, <2>2, <2>4, <3>2 DEF Taken
    <3> HIDE DEF k
    <3> QED BY <1>2, <2>1, <2>3, <2>6, <3>3 DEF Complete, BasedActive, d
  <2> QED BY <2>5, <2>6
<1>9. ASSUME NEW n, NEW s, NEW y \in Pulled(H, n, s) PROVE Handled(eng, y)
  <2>1. PICK i \in Edges(H, n, s) : y \in Tell(n, s, i, Asked(H, n, s, NodeDeps(n)[i]))
    BY <1>9 DEF Pulled
  <2> DEFINE d == NodeDeps(n)[i]
             a == <<n, s, i>>
  <2>2. Asked(H, n, s, d) \subseteq Asks(eng, n, s, d)
    <3>1. ASSUME NEW x \in H, x.n = n, x.s = s, x.v.do = "depfeat", x.v.dep = d.name
          PROVE  Feat(x.v.feat) \in Asks(eng, n, s, d)
      <4>1. Loaded(x.n) BY <3>1 DEF Edges
      <4>2. [n |-> n, s |-> s, dep |-> d.name, feat |-> x.v.feat] \in eng.depFeats
        BY <1>6, <3>1, <4>1 DEF Taken
      <4> QED BY <4>2 DEF Asks
    <3> QED BY <3>1 DEF Asked, Asks
  <2>3. y \in Tell(n, s, i, Asks(eng, n, s, d)) BY <2>1, <2>2, TellGrows
  <2>4. a[1] = n /\ a[2] = s /\ a[3] = i OBVIOUS
  <2>5. a \in eng.active BY <1>8
  <2> HIDE DEF a
  <2>6. Got(eng, y) BY <1>2, <2>3, <2>4, <2>5 DEF Complete, ActiveGot
  <2> QED BY <1>3, <2>6
<1>10. Closed(H)
  <2>1. Implications(H) \subseteq Tasks(start) BY <1>5, RulesStay
  <2>2. \A y \in Implications(H) : Handled(eng, y)
    <3> HIDE DEF H
    <3> QED BY <1>7, <1>9 DEF Implications
  <2> QED BY <2>1, <2>2 DEF Closed
<1> QED BY <1>4, <1>8, <1>10

LEMMA DrainedLeast ==
    ASSUME NEW start, Good(eng, start), eng.queue = <<>>, ~eng.error,
           IsFiniteSet(Tasks(start)), \A x \in start : TaskForm(x)
    PROVE  LET T == Closure(start)
           IN  /\ eng.named = {<<x.n, x.s, x.v.feat>> :
                                 x \in {y \in T : /\ y.v.do = "feat" /\ Loaded(y.n)
                                                  /\ y.v.feat \in DOMAIN NodeFeatures(y.n)}}
               /\ eng.active = UNION {{<<k[1], k[2], i>> : i \in Edges(T, k[1], k[2])} :
                                        k \in {<<x.n, x.s>> : x \in T}}
<1> DEFINE H == {x \in Tasks(start) : Handled(eng, x)}
           C == Closure(start)
<1>1. start \subseteq Tasks(start)
  <2> DEFINE N == graph.pkg \cup graph.sum \cup {x.n : x \in start}
             said == {x.v : x \in start} \cup UNION {Mentioned(n) : n \in N}
             V == said \cup UNION {{Dep(v.dep), Feat(v.dep), Feat(v.feat)} : v \in said}
  <2>1. Tasks(start) = [n : N, s : BOOLEAN, v : V] BY DEF Tasks
  <2>2. ASSUME NEW x \in start PROVE x \in [n : N, s : BOOLEAN, v : V]
    <3>1. x.n \in N /\ x.v \in V OBVIOUS
    <3> HIDE DEF N, V
    <3> QED BY <3>1 DEF TaskForm
  <2> QED BY <2>1, <2>2
<1>2. /\ start \subseteq C /\ C \subseteq Tasks(start) /\ Closed(C)
      /\ \A T \in SUBSET Tasks(start) : start \subseteq T /\ Closed(T) => C \subseteq T
  BY <1>1, RulesStay, ClosureIsLeast DEF Closed
<1> HIDE DEF C
<1>3. /\ \A x \in start : Handled(eng, x)
      /\ Closed(H)
      /\ \A n, s : \A i \in Edges(H, n, s) : <<n, s, i>> \in eng.active
  BY HandledClosed
<1>4. C \subseteq H
  <2>1. H \in SUBSET Tasks(start) /\ start \subseteq H BY <1>1, <1>3
  <2> HIDE DEF H
  <2> QED BY <1>2, <1>3, <2>1
<1>5. Sound(eng, C) BY <1>2 DEF Good
<1>6. eng.named = {<<x.n, x.s, x.v.feat>> :
                     x \in {y \in C : /\ y.v.do = "feat" /\ Loaded(y.n)
                                      /\ y.v.feat \in DOMAIN NodeFeatures(y.n)}}
  <2>1. ASSUME NEW x \in C, x.v.do = "feat", Loaded(x.n), x.v.feat \in DOMAIN NodeFeatures(x.n)
        PROVE  <<x.n, x.s, x.v.feat>> \in eng.named
    <3>1. Taken(eng, x) BY <1>4 DEF Handled
    <3> QED BY <2>1, <3>1 DEF Taken
  <2> HIDE DEF H
  <2> QED BY <1>5, <2>1 DEF Sound
<1>7. eng.active = UNION {{<<k[1], k[2], i>> : i \in Edges(C, k[1], k[2])} :
                            k \in {<<x.n, x.s>> : x \in C}}
  <2> DEFINE K == {<<x.n, x.s>> : x \in C}
             E(k) == {<<k[1], k[2], i>> : i \in Edges(C, k[1], k[2])}
  <2>1. ASSUME NEW k, NEW i \in Edges(C, k[1], k[2]) PROVE <<k[1], k[2], i>> \in eng.active
    <3>1. i \in Edges(H, k[1], k[2]) BY <1>4, <2>1 DEF Edges
    <3> HIDE DEF H
    <3> QED BY <1>3, <3>1
  <2>2. ASSUME NEW a \in eng.active PROVE \E k \in K : a \in E(k)
    <3>1. a = <<a[1], a[2], a[3]>> BY DEF Good, Complete, ActiveForm
    <3>2. a[3] \in Edges(C, a[1], a[2]) BY <1>5 DEF Sound
    <3>3. \E x \in C : x.n = a[1] /\ x.s = a[2] BY <3>2 DEF Edges
    <3> DEFINE k == <<a[1], a[2]>>
    <3>4. k \in K BY <3>3
    <3>5. k[1] = a[1] /\ k[2] = a[2] OBVIOUS
    <3> HIDE DEF k, K
    <3>6. a \in E(k) BY <3>1, <3>2, <3>5
    <3> QED BY <3>4, <3>6
  <2> HIDE DEF K
  <2>3. UNION {E(k) : k \in K} \subseteq eng.active BY <2>1
  <2>4. eng.active \subseteq UNION {E(k) : k \in K} BY <2>2
  <2> QED BY <2>3, <2>4 DEF K
<1> QED BY <1>6, <1>7 DEF C

-----------------------------------------------------------------------------
(* What the engine starts from is finite and well formed.                  *)
LEMMA StartForm ==
    ASSUME NEW reqs
    PROVE  LET e == Start(reqs)
           IN  /\ EngForm(e) /\ IsQueue(e.queue) /\ ~e.error
               /\ Pending(e) = UNION {RequestTasks(r) : r \in reqs}
               /\ e.named = {} /\ e.opt = {} /\ e.based = {} /\ e.active = {} /\ e.depFeats = {}
<1> DEFINE S == UNION {RequestTasks(r) : r \in reqs}
           q == Batch(S)
<1>1. Start(reqs) = [Idle EXCEPT !.queue = q] BY DEF Start
<1> HIDE DEF q
<1>2. Start(reqs) = [queue |-> q, named |-> {}, opt |-> {}, based |-> {}, active |-> {},
                     depFeats |-> {}, missing |-> {}, unloaded |-> {}, edges |-> {},
                     error |-> Idle.error]
  <2> DEFINE no == Idle.error
  <2>1. Idle = [queue |-> <<>>, named |-> {}, opt |-> {}, based |-> {}, active |-> {},
                depFeats |-> {}, missing |-> {}, unloaded |-> {}, edges |-> {}, error |-> no]
    BY DEF Idle
  <2> HIDE DEF no
  <2>2. Start(reqs) = [queue |-> q, named |-> {}, opt |-> {}, based |-> {}, active |-> {},
                       depFeats |-> {}, missing |-> {}, unloaded |-> {}, edges |-> {}, error |-> no]
    BY <1>1, <2>1
  <2> QED BY <2>2 DEF no
<1>3. ~Idle.error BY DEF Idle
<1> HIDE DEF S
<1>4. IsQueue(q) /\ UNION ToSet(q) = S
  <2>1. CASE S = {}
    <3>1. q = <<>> BY <2>1 DEF q, Batch
    <3> QED BY <2>1, <3>1 DEF IsQueue, ToSet
  <2>2. CASE S # {}
    <3>1. q = <<S>> BY <2>2 DEF q, Batch
    <3>2. DOMAIN q = {1} /\ q[1] = S BY <3>1
    <3>3. ToSet(q) = {S} BY <3>2 DEF ToSet
    <3>4. q \in Seq({S}) BY <3>1
    <3> QED BY <2>2, <3>3, <3>4 DEF IsQueue
  <2> QED BY <2>1, <2>2
<1>5. EngForm(Start(reqs)) /\ Start(reqs).queue = q BY <1>2 DEF EngForm
<1>6. Pending(Start(reqs)) = S BY <1>4, <1>5 DEF Pending
<1> DEFINE e == Start(reqs)
<1>7. /\ e.named = {} /\ e.opt = {} /\ e.based = {} /\ e.active = {} /\ e.depFeats = {}
      /\ ~e.error
  BY <1>2, <1>3
<1>8. EngForm(e) /\ IsQueue(e.queue) /\ Pending(e) = S BY <1>4, <1>5, <1>6
<1> HIDE DEF e
<1>9. /\ EngForm(e) /\ IsQueue(e.queue) /\ ~e.error /\ Pending(e) = UNION {RequestTasks(r) : r \in reqs}
      /\ e.named = {} /\ e.opt = {} /\ e.based = {} /\ e.active = {} /\ e.depFeats = {}
  BY <1>7, <1>8 DEF S
<1> QED BY <1>9 DEF e

Valid(r) == IsFiniteSet(r.values) /\ \A v \in r.values : IsValue(v)

LEMMA RequestTasksForm ==
    ASSUME Known, NEW r, Valid(r)
    PROVE  IsFiniteSet(RequestTasks(r)) /\ \A x \in RequestTasks(r) : TaskForm(x)
<1> DEFINE n == r.n
           host == Side(Loaded(n) /\ IsProcMacro(n))
           all == IF r.all /\ Loaded(n) THEN {Feat(f) : f \in DOMAIN NodeFeatures(n)} ELSE {}
           default == IF r.default THEN {Feat("default")} ELSE {}
           V == (({Base} \cup default) \cup all) \cup r.values
           ff == [f \in DOMAIN NodeFeatures(n) |-> Feat(f)]
           vs == [v \in V |-> [n |-> n, s |-> host, v |-> v]]
<1>1. IsFiniteSet(all)
  <2>1. IsFiniteSet({ff[f] : f \in DOMAIN ff})
    <3>1. ff = [f \in DOMAIN ff |-> ff[f]] /\ DOMAIN ff = DOMAIN NodeFeatures(n) OBVIOUS
    <3>2. IsFiniteSet(DOMAIN ff) BY <3>1, DataFinite DEF Known
    <3> HIDE DEF ff
    <3> QED BY <3>1, <3>2, ImageFinite
  <2>2. {ff[f] : f \in DOMAIN ff} = {Feat(f) : f \in DOMAIN NodeFeatures(n)} OBVIOUS
  <2> QED BY <2>1, <2>2, EmptyFinite
<1>2. IsFiniteSet(default)
  <2>1. IsFiniteSet({Feat("default")}) BY FS_Singleton
  <2> QED BY <2>1, EmptyFinite
<1>3. IsFiniteSet({Base}) BY FS_Singleton
<1> HIDE DEF all, default
<1>4. IsFiniteSet(V)
  <2>1. IsFiniteSet({Base} \cup default) BY <1>2, <1>3, FS_Union
  <2>2. IsFiniteSet(({Base} \cup default) \cup all) BY <1>1, <2>1, FS_Union
  <2> QED BY <2>2, FS_Union DEF Valid
<1>5. RequestTasks(r) = {vs[v] : v \in DOMAIN vs}
  <2>1. RequestTasks(r) = For(n, host, V) BY DEF RequestTasks, all, default
  <2> HIDE DEF V, host
  <2> QED BY <2>1 DEF For
<1>6. \A v \in V : v = Base \/ IsValue(v)
  <2>1. \A f : IsValue(Feat(f)) BY ValueKinds DEF IsValue
  <2> QED BY <2>1 DEF Valid, all, default
<1>7. IsFiniteSet(RequestTasks(r))
  <2>1. vs = [v \in DOMAIN vs |-> vs[v]] /\ DOMAIN vs = V OBVIOUS
  <2> HIDE DEF vs, V
  <2> QED BY <1>4, <1>5, <2>1, ImageFinite
<1>8. host \in BOOLEAN BY DEF Side
<1>9. \A x \in RequestTasks(r) : TaskForm(x)
  <2> HIDE DEF V, host
  <2> QED BY <1>5, <1>6, <1>8 DEF TaskForm
<1> QED BY <1>7, <1>9

LEMMA StartTasksForm ==
    ASSUME Known, NEW reqs, IsFiniteSet(reqs), \A r \in reqs : Valid(r)
    PROVE  LET start == Pending(Start(reqs))
           IN  IsFiniteSet(start) /\ (\A x \in start : TaskForm(x)) /\ Good(Start(reqs), start)
<1> DEFINE e == Start(reqs)
           start == Pending(e)
           rs == [r \in reqs |-> RequestTasks(r)]
<1>1. /\ EngForm(e) /\ IsQueue(e.queue) /\ ~e.error
      /\ start = UNION {RequestTasks(r) : r \in reqs}
      /\ e.named = {} /\ e.opt = {} /\ e.based = {} /\ e.active = {} /\ e.depFeats = {}
  BY StartForm
<1> HIDE DEF e
<1>2. IsFiniteSet(start)
  <2>1. rs = [r \in DOMAIN rs |-> rs[r]] /\ DOMAIN rs = reqs OBVIOUS
  <2>2. \A r \in DOMAIN rs : IsFiniteSet(rs[r]) BY RequestTasksForm
  <2>3. UNION {rs[r] : r \in DOMAIN rs} = UNION {RequestTasks(r) : r \in reqs} OBVIOUS
  <2> HIDE DEF rs
  <2> QED BY <1>1, <2>1, <2>2, <2>3, UnionFinite
<1>3. \A x \in start : TaskForm(x)
  <2>1. ASSUME NEW x \in start PROVE TaskForm(x)
    <3>1. PICK r \in reqs : x \in RequestTasks(r) BY <1>1
    <3> QED BY <3>1, RequestTasksForm
  <2> QED BY <2>1
<1>4. Complete(e, start)
  <2>1. StartGot(e, start) BY DEF StartGot, Got
  <2> QED BY <1>1, <2>1 DEF Complete, NamedGot, BasedActive, OptActive, ActiveForm, ActiveGot
<1>5. \A T : start \subseteq T => Sound(e, T) BY <1>1 DEF Sound
<1>6. Good(e, start) BY <1>1, <1>3, <1>4, <1>5 DEF Good
<1> QED BY <1>2, <1>3, <1>6 DEF e

LEMMA SelectedFinite ==
    ASSUME world \in Worlds
    PROVE  IsFiniteSet(Selected)
<1>1. /\ IsFiniteSet(world.members) /\ IsFiniteSet(world.defaultMembers)
      /\ IsFiniteSet(world.cmd.specs)
  BY PlanningAssumption
<1>2. ASSUME NEW spec PROVE IsFiniteSet(Picked(spec))
  <2> DEFINE found == {n \in graph.nodes : Matches(spec, n)}
  <2>1. CASE \E n, m \in found : n # m
    <3>1. Picked(spec) \subseteq world.members BY <2>1 DEF Picked
    <3> QED BY <1>1, <3>1, FS_Subset
  <2>2. CASE ~\E n, m \in found : n # m
    <3>1. Picked(spec) = found BY <2>2 DEF Picked
    <3>2. found = {} \/ \E n : found = {n} BY <2>2
    <3>3. ASSUME NEW S, S = {} \/ \E n : S = {n} PROVE IsFiniteSet(S)
      <4>1. CASE S = {} BY <4>1, EmptyFinite
      <4>2. CASE \E n : S = {n}
        <5>1. PICK n : S = {n} BY <4>2
        <5> QED BY <5>1, FS_Singleton
      <4> QED BY <3>3, <4>1, <4>2
    <3> HIDE DEF found
    <3> QED BY <3>1, <3>2, <3>3
  <2> QED BY <2>1, <2>2
<1>3. CASE world.cmd.workspace
  <2>1. Selected \subseteq world.members BY <1>3 DEF Selected
  <2> QED BY <1>1, <2>1, FS_Subset
<1>4. CASE ~world.cmd.workspace /\ world.cmd.specs # {}
  <2> DEFINE ps == [s \in world.cmd.specs |-> Picked(s)]
  <2>1. ps = [s \in DOMAIN ps |-> ps[s]] /\ DOMAIN ps = world.cmd.specs OBVIOUS
  <2>2. \A s \in DOMAIN ps : IsFiniteSet(ps[s]) BY <1>2
  <2>3. Selected = UNION {ps[s] : s \in DOMAIN ps} BY <1>4 DEF Selected
  <2> HIDE DEF ps
  <2> QED BY <1>1, <2>1, <2>2, <2>3, UnionFinite
<1>5. CASE ~world.cmd.workspace /\ world.cmd.specs = {}
  <2>1. CASE world.current \in world.members
    <3>1. Selected \subseteq world.members BY <1>5, <2>1 DEF Selected
    <3> QED BY <1>1, <3>1, FS_Subset
  <2>2. CASE world.current \notin world.members
    <3>1. Selected = world.defaultMembers BY <1>5, <2>2 DEF Selected
    <3> QED BY <1>1, <3>1
  <2> QED BY <2>1, <2>2
<1> QED BY <1>3, <1>4, <1>5

LEMMA LockRequestsForm ==
    ASSUME world \in Worlds
    PROVE  IsFiniteSet(LockRequests) /\ \A r \in LockRequests : Valid(r)
<1> DEFINE f == [n \in world.members |-> [n |-> n, values |-> {}, all |-> TRUE, default |-> TRUE]]
<1>1. f = [n \in DOMAIN f |-> f[n]] /\ DOMAIN f = world.members OBVIOUS
<1>2. LockRequests = {f[n] : n \in DOMAIN f} BY DEF LockRequests
<1>3. IsFiniteSet(world.members) BY PlanningAssumption
<1>4. ASSUME NEW r \in LockRequests PROVE Valid(r)
  <2>1. r.values = {} BY DEF LockRequests
  <2> QED BY <2>1, EmptyFinite DEF Valid
<1> HIDE DEF f
<1> QED BY <1>1, <1>2, <1>3, <1>4, ImageFinite

LEMMA BuildRequestsForm ==
    ASSUME world \in Worlds
    PROVE  IsFiniteSet(BuildRequests) /\ \A r \in BuildRequests : Valid(r)
<1> DEFINE values(n) == UNION {Claimed(c, n) : c \in world.cmd.cli}
           f == [n \in Selected |-> [n |-> n, values |-> values(n), all |-> world.cmd.all,
                                     default |-> world.cmd.default]]
<1>1. f = [n \in DOMAIN f |-> f[n]] /\ DOMAIN f = Selected OBVIOUS
<1>2. BuildRequests = {f[n] : n \in DOMAIN f} BY DEF BuildRequests
<1>3. \A x : IsValue(Feat(x)) BY ValueKinds DEF IsValue
<1>6. ASSUME NEW d, NEW x, NEW w PROVE IsValue(DepFeat(d, x, w))
  <2> DEFINE v == [do |-> "depfeat", dep |-> d, feat |-> x, weak |-> w]
  <2>1. v.dep = d /\ v.feat = x /\ v.weak = w OBVIOUS
  <2>2. v = DepFeat(d, x, w) BY DEF DepFeat
  <2> HIDE DEF v
  <2>3. v = DepFeat(v.dep, v.feat, v.weak) BY <2>1, <2>2
  <2>4. IsValue(v) BY <2>3 DEF IsValue
  <2> QED BY <2>2, <2>4
<1>4. ASSUME NEW n PROVE IsFiniteSet(values(n)) /\ \A v \in values(n) : IsValue(v)
  <2> DEFINE cs == [c \in world.cmd.cli |-> Claimed(c, n)]
  <2>1. ASSUME NEW c PROVE IsFiniteSet(Claimed(c, n)) /\ \A v \in Claimed(c, n) : IsValue(v)
    <3>1. \/ Claimed(c, n) = {} \/ Claimed(c, n) = {Feat(c.feat)}
          \/ Claimed(c, n) = {DepFeat(c.owner, c.feat, FALSE)}
      BY DEF Claimed
    <3> DEFINE a == Feat(c.feat)
               b == DepFeat(c.owner, c.feat, FALSE)
    <3>2. IsValue(a) /\ IsValue(b) BY <1>3, <1>6
    <3>3. Claimed(c, n) = {} \/ Claimed(c, n) = {a} \/ Claimed(c, n) = {b} BY <3>1
    <3>4. ASSUME NEW v, IsValue(v) PROVE IsFiniteSet({v}) /\ \A w \in {v} : IsValue(w)
      BY <3>4, FS_Singleton
    <3> HIDE DEF a, b
    <3>5. /\ IsFiniteSet({a}) /\ \A w \in {a} : IsValue(w)
          /\ IsFiniteSet({b}) /\ \A w \in {b} : IsValue(w)
      BY <3>2, <3>4
    <3> QED BY <3>3, <3>5, EmptyFinite
  <2>2. cs = [c \in DOMAIN cs |-> cs[c]] /\ DOMAIN cs = world.cmd.cli OBVIOUS
  <2>3. \A c \in DOMAIN cs : IsFiniteSet(cs[c]) BY <2>1
  <2>4. values(n) = UNION {cs[c] : c \in DOMAIN cs} OBVIOUS
  <2>5. IsFiniteSet(world.cmd.cli) BY PlanningAssumption
  <2>6. \A v \in values(n) : IsValue(v) BY <2>1
  <2> HIDE DEF cs, values
  <2> QED BY <2>2, <2>3, <2>4, <2>5, <2>6, UnionFinite
<1>5. ASSUME NEW r \in BuildRequests PROVE Valid(r)
  <2>1. PICK n : r.values = values(n) BY DEF BuildRequests
  <2> HIDE DEF values
  <2> QED BY <1>4, <2>1 DEF Valid
<1> HIDE DEF f
<1> QED BY <1>1, <1>2, <1>5, SelectedFinite, ImageFinite

-----------------------------------------------------------------------------
(* While the engine runs the graph stays: its state before a step and      *)
(* after it are judged alike.                                              *)
LEMMA OperatorsKept ==
    ASSUME UNCHANGED <<world, graph, opts>>
    PROVE  /\ \A n : /\ Loaded(n)' <=> Loaded(n)
                     /\ NodeDeps(n)' = NodeDeps(n)
                     /\ NodeFeatures(n)' = NodeFeatures(n)
           /\ \A n, s, d : Applies(n, s, d)' <=> Applies(n, s, d)
           /\ \A n, s, d : Optional(n, s, d)' <=> Optional(n, s, d)
           /\ \A n, s, i, v : Tell(n, s, i, v)' = Tell(n, s, i, v)
           /\ \A x : Implied(x)' = Implied(x)
           /\ \A T, n, s : Edges(T, n, s)' = Edges(T, n, s)
           /\ \A T, n, s, d : Asked(T, n, s, d)' = Asked(T, n, s, d)
           /\ \A T, n, s : Pulled(T, n, s)' = Pulled(T, n, s)
           /\ \A T : Closed(T)' <=> Closed(T)
<1>1. \A n : Loaded(n)' <=> Loaded(n) BY DEF Loaded, HasData
<1>2. \A n : NodeDeps(n)' = NodeDeps(n) BY DEF NodeDeps, DepsOf, HasData
<1>3. \A n : NodeFeatures(n)' = NodeFeatures(n) BY DEF NodeFeatures, FeaturesOf, HasData
<1>4. \A n, s, d : Applies(n, s, d)' <=> Applies(n, s, d)
  BY DEF Applies, KindOk, PlatformOk, Platform
<1>5. \A n, s, d : Optional(n, s, d)' <=> Optional(n, s, d) BY <1>2, <1>4 DEF Optional
<1>6. \A n, d : TargetOf(graph, n, d)' = TargetOf(graph, n, d) BY DEF TargetOf
<1>7. \A t, d, s : TargetSide(t, d, s)' = TargetSide(t, d, s) BY DEF TargetSide, Side, IsProcMacro
<1>8. \A n, s, i, v : Tell(n, s, i, v)' = Tell(n, s, i, v) BY <1>1, <1>2, <1>6, <1>7 DEF Tell
<1>9. \A x : Implied(x)' = Implied(x) BY <1>1, <1>3, <1>5 DEF Implied
<1>10. \A T, n, s : Edges(T, n, s)' = Edges(T, n, s) BY <1>1, <1>2, <1>4 DEF Edges
<1>11. \A T, n, s, d : Asked(T, n, s, d)' = Asked(T, n, s, d) BY DEF Asked
<1>12. \A T, n, s : Pulled(T, n, s)' = Pulled(T, n, s) BY <1>2, <1>8, <1>10, <1>11 DEF Pulled
<1>13. \A T : Closed(T)' <=> Closed(T) BY <1>9, <1>12 DEF Closed, Implications
<1> QED BY <1>1, <1>2, <1>3, <1>4, <1>5, <1>8, <1>9, <1>10, <1>11, <1>12, <1>13

LEMMA GoodKept ==
    ASSUME UNCHANGED <<world, graph, opts>>, NEW start, Good(eng', start)
    PROVE  Good(eng, start)'
<1> DEFINE ops == /\ \A n : /\ Loaded(n)' <=> Loaded(n)
                            /\ NodeDeps(n)' = NodeDeps(n)
                            /\ NodeFeatures(n)' = NodeFeatures(n)
                  /\ \A n, s, d : Applies(n, s, d)' <=> Applies(n, s, d)
                  /\ \A n, s, i, v : Tell(n, s, i, v)' = Tell(n, s, i, v)
                  /\ \A x : Implied(x)' = Implied(x)
                  /\ \A T, n, s : Edges(T, n, s)' = Edges(T, n, s)
                  /\ \A T : Closed(T)' <=> Closed(T)
<1>1. ops BY OperatorsKept
<1>2. \A x : Taken(eng, x)' <=> Taken(eng', x) BY <1>1 DEF Taken
<1>3. Pending(eng)' = Pending(eng') BY DEF Pending
<1>4. \A x : Handled(eng, x)' <=> Handled(eng', x) BY <1>1, <1>2, <1>3 DEF Handled
<1>5. \A x : Got(eng, x)' <=> Got(eng', x) BY <1>3, <1>4 DEF Got
<1>6. \A n, s, d : Asks(eng, n, s, d)' = Asks(eng', n, s, d) BY DEF Asks
<1>7. StartGot(eng, start)' <=> StartGot(eng', start) BY <1>5 DEF StartGot
<1>8. NamedGot(eng)' <=> NamedGot(eng') BY <1>1, <1>5 DEF NamedGot
<1>9. BasedActive(eng)' <=> BasedActive(eng') BY <1>1 DEF BasedActive
<1>10. OptActive(eng)' <=> OptActive(eng') BY <1>1 DEF OptActive
<1>11. ActiveForm(eng)' <=> ActiveForm(eng') BY <1>1 DEF ActiveForm
<1>12. ActiveGot(eng)' <=> ActiveGot(eng') BY <1>1, <1>5, <1>6 DEF ActiveGot
<1>13. Complete(eng, start)' <=> Complete(eng', start)
  BY <1>7, <1>8, <1>9, <1>10, <1>11, <1>12 DEF Complete
<1>14. \A T : Sound(eng, T)' <=> Sound(eng', T) BY <1>1, <1>3 DEF Sound
<1>15. EngForm(eng)' <=> EngForm(eng') BY DEF EngForm
<1> QED BY <1>1, <1>3, <1>13, <1>14, <1>15 DEF Good

LEMMA StartKept ==
    ASSUME UNCHANGED <<world, graph, opts>>
    PROVE  /\ Pending(Start(LockRequests))' = Pending(Start(LockRequests))
           /\ Pending(Start(BuildRequests))' = Pending(Start(BuildRequests))
<1>1. \A n : (Loaded(n)' <=> Loaded(n)) /\ NodeFeatures(n)' = NodeFeatures(n) /\ NodeDeps(n)' = NodeDeps(n)
  BY OperatorsKept
<1>2. \A r : RequestTasks(r)' = RequestTasks(r)
  <2>1. \A r : (Side(Loaded(r.n) /\ IsProcMacro(r.n)))' = Side(Loaded(r.n) /\ IsProcMacro(r.n))
    BY <1>1 DEF Side, IsProcMacro
  <2> QED BY <1>1, <2>1 DEF RequestTasks
<1>3. \A R : Pending(Start(R))' = Pending(Start(R)) BY <1>2 DEF Pending, Start
<1>4. LockRequests' = LockRequests BY DEF LockRequests
<1>5. \A spec : Picked(spec)' = Picked(spec) BY DEF Picked
<1>6. Selected' = Selected BY <1>5 DEF Selected
<1>7. \A c, n : Claimed(c, n)' = Claimed(c, n) BY <1>1 DEF Claimed, HasData
<1>8. BuildRequests' = BuildRequests BY <1>6, <1>7 DEF BuildRequests
<1>9. (Start(LockRequests))' = Start(LockRequests) BY <1>2, <1>4 DEF Start
<1>10. (Start(BuildRequests))' = Start(BuildRequests) BY <1>2, <1>8 DEF Start
<1> QED BY <1>9, <1>10 DEF Pending

-----------------------------------------------------------------------------
(* What resolution does to the graph keeps its form: every package whose   *)
(* data is loaded has a manifest.                                          *)
GraphOk(gr) == /\ gr = [nodes |-> gr.nodes, sum |-> gr.sum, pkg |-> gr.pkg,
                        edges |-> gr.edges, patch |-> gr.patch]
               /\ gr.pkg \cup gr.sum \subseteq DOMAIN Manifests

LEMMA NewestIn ==
    ASSUME NEW S, IsFiniteSet(S), S # {}, \A t \in S : t.vers \in Int
    PROVE  Newest(S) \in S
<1> DEFINE Above(t) == {u \in S : u.vers > t.vers}
           B == {Above(t) : t \in S}
<1>1. IsWellFoundedOn(StrictSubsetOrdering(S), SUBSET S)
  BY FS_StrictSubsetOrderingWellFounded, FS_FiniteSubsetsOfFinite
<1>2. B \subseteq SUBSET S /\ B # {} OBVIOUS
<1>3. PICK A \in B : \A Q \in B : ~(<<Q, A>> \in StrictSubsetOrdering(S))
  <2> HIDE DEF B
  <2> QED BY <1>1, <1>2, WFMin
<1>4. PICK t \in S : A = Above(t) OBVIOUS
<1>5. ASSUME NEW u \in S, u.vers > t.vers PROVE FALSE
  <2>1. Above(u) \subseteq Above(t)
    <3>1. ASSUME NEW v \in S, v.vers > u.vers PROVE v.vers > t.vers
      <4>1. v.vers \in Int /\ u.vers \in Int /\ t.vers \in Int OBVIOUS
      <4> QED BY <1>5, <3>1, <4>1
    <3> QED BY <3>1
  <2>2. u \in Above(t) BY <1>5
  <2>3. u \notin Above(u)
    <3>1. u.vers \in Int OBVIOUS
    <3>2. ~(u.vers > u.vers) BY <3>1
    <3> QED BY <3>2
  <2>4. <<Above(u), Above(t)>> \in StrictSubsetOrdering(S)
    BY <2>1, <2>2, <2>3 DEF StrictSubsetOrdering
  <2> QED BY <1>3, <1>4, <2>4
<1>6. \A u \in S : u.vers <= t.vers
  <2>1. ASSUME NEW u \in S PROVE u.vers <= t.vers
    <3>1. u.vers \in Int /\ t.vers \in Int OBVIOUS
    <3>2. ~(u.vers > t.vers) BY <1>5
    <3> QED BY <3>1, <3>2
  <2> QED BY <2>1
<1> QED BY <1>6 DEF Newest

LEMMA WithPackageOk ==
    ASSUME NEW gr, GraphOk(gr), NEW t \in DOMAIN Manifests \cup gr.nodes
    PROVE  GraphOk(WithPackage(gr, t))
<1>1. CASE t \in gr.nodes BY <1>1 DEF WithPackage
<1>2. CASE t \notin gr.nodes
  <2> DEFINE nd == gr.nodes \cup {t}
             pk == gr.pkg \cup {t}
             g2 == [nodes |-> nd, sum |-> gr.sum, pkg |-> pk, edges |-> gr.edges, patch |-> gr.patch]
  <2>1. pk \cup gr.sum \subseteq DOMAIN Manifests BY <1>2 DEF GraphOk
  <2>2. WithPackage(gr, t) = [gr EXCEPT !.nodes = nd, !.pkg = pk] BY <1>2 DEF WithPackage
  <2> HIDE DEF nd, pk
  <2>3. WithPackage(gr, t) = g2 BY <2>2 DEF GraphOk
  <2>4. GraphOk(g2) BY <2>1 DEF GraphOk
  <2> QED BY <2>3, <2>4
<1> QED BY <1>1, <1>2

LEMMA FieldsOk ==
    ASSUME NEW gr, GraphOk(gr), NEW x
    PROVE  /\ GraphOk([gr EXCEPT !.nodes = x])
           /\ GraphOk([gr EXCEPT !.edges = x])
           /\ GraphOk([gr EXCEPT !.patch = x])
           /\ x \subseteq DOMAIN Manifests =>
                GraphOk([gr EXCEPT !.sum = x]) /\ GraphOk([gr EXCEPT !.pkg = x])
           /\ [gr EXCEPT !.nodes = x].sum = gr.sum
           /\ [gr EXCEPT !.nodes = x].pkg = gr.pkg
           /\ [gr EXCEPT !.sum = x].pkg = gr.pkg
<1> DEFINE g1 == [nodes |-> x, sum |-> gr.sum, pkg |-> gr.pkg, edges |-> gr.edges, patch |-> gr.patch]
           g2 == [nodes |-> gr.nodes, sum |-> gr.sum, pkg |-> gr.pkg, edges |-> x, patch |-> gr.patch]
           g3 == [nodes |-> gr.nodes, sum |-> gr.sum, pkg |-> gr.pkg, edges |-> gr.edges, patch |-> x]
           g4 == [nodes |-> gr.nodes, sum |-> x, pkg |-> gr.pkg, edges |-> gr.edges, patch |-> gr.patch]
           g5 == [nodes |-> gr.nodes, sum |-> gr.sum, pkg |-> x, edges |-> gr.edges, patch |-> gr.patch]
<1>1. /\ [gr EXCEPT !.nodes = x] = g1 /\ [gr EXCEPT !.edges = x] = g2
      /\ [gr EXCEPT !.patch = x] = g3 /\ [gr EXCEPT !.sum = x] = g4
      /\ [gr EXCEPT !.pkg = x] = g5
  BY DEF GraphOk
<1>2. GraphOk(g1) /\ GraphOk(g2) /\ GraphOk(g3) BY DEF GraphOk
<1>3. x \subseteq DOMAIN Manifests => GraphOk(g4) /\ GraphOk(g5) BY DEF GraphOk
<1>4. g1.sum = gr.sum /\ g1.pkg = gr.pkg /\ g4.pkg = gr.pkg OBVIOUS
<1> HIDE DEF g1, g2, g3, g4, g5
<1> QED BY <1>1, <1>2, <1>3, <1>4

LEMMA TwoFieldsOk ==
    ASSUME NEW gr, GraphOk(gr), NEW x, NEW y
    PROVE  /\ GraphOk([gr EXCEPT !.nodes = x, !.edges = y])
           /\ y \subseteq DOMAIN Manifests => GraphOk([gr EXCEPT !.nodes = x, !.sum = y])
           /\ x \cup y \subseteq DOMAIN Manifests => GraphOk([gr EXCEPT !.sum = x, !.pkg = y])
<1> DEFINE g1 == [nodes |-> x, sum |-> gr.sum, pkg |-> gr.pkg, edges |-> y, patch |-> gr.patch]
           g2 == [nodes |-> x, sum |-> y, pkg |-> gr.pkg, edges |-> gr.edges, patch |-> gr.patch]
           g3 == [nodes |-> gr.nodes, sum |-> x, pkg |-> y, edges |-> gr.edges, patch |-> gr.patch]
<1> DEFINE h1 == [nodes |-> x, sum |-> gr.sum, pkg |-> gr.pkg, edges |-> gr.edges, patch |-> gr.patch]
           h3 == [nodes |-> gr.nodes, sum |-> x, pkg |-> gr.pkg, edges |-> gr.edges, patch |-> gr.patch]
<1>1. /\ [gr EXCEPT !.nodes = x, !.edges = y] = g1
      /\ [gr EXCEPT !.nodes = x, !.sum = y] = g2
      /\ [gr EXCEPT !.sum = x, !.pkg = y] = g3
  <2>1. [gr EXCEPT !.nodes = x] = h1 /\ [gr EXCEPT !.sum = x] = h3 BY DEF GraphOk
  <2>2. [h1 EXCEPT !.edges = y] = g1 OBVIOUS
  <2>3. [h1 EXCEPT !.sum = y] = g2 OBVIOUS
  <2>4. [h3 EXCEPT !.pkg = y] = g3 OBVIOUS
  <2> HIDE DEF g1, g2, g3, h1, h3
  <2> QED BY <2>1, <2>2, <2>3, <2>4
<1>2. /\ GraphOk(g1) /\ (y \subseteq DOMAIN Manifests => GraphOk(g2))
      /\ (x \cup y \subseteq DOMAIN Manifests => GraphOk(g3))
  BY DEF GraphOk
<1> HIDE DEF g1, g2, g3
<1> QED BY <1>1, <1>2

LEMMA LocalGraphOk ==
    ASSUME world \in Worlds
    PROVE  GraphOk(LocalGraph)
<1> DEFINE l == world.locals
<1>1. l \subseteq DOMAIN Manifests BY PlanningAssumption
<1> DEFINE no == {}
           g == [nodes |-> l, sum |-> no, pkg |-> l, edges |-> no, patch |-> no]
<1>2. EmptyGraph = [nodes |-> no, sum |-> no, pkg |-> no, edges |-> no, patch |-> no] BY DEF EmptyGraph
<1>3. no \subseteq DOMAIN Manifests OBVIOUS
<1>4. LocalGraph = [EmptyGraph EXCEPT !.nodes = l, !.pkg = l] BY DEF LocalGraph
<1> HIDE DEF l, no
<1>5. LocalGraph = g BY <1>2, <1>4
<1>6. GraphOk(g) BY <1>1, <1>3 DEF GraphOk
<1> QED BY <1>5, <1>6

LEMMA ImportOk ==
    ASSUME NEW gr, GraphOk(gr), NEW file
    PROVE  GraphOk(MarkLockPatches(ImportLock(gr, file)))
<1>1. ASSUME NEW g, GraphOk(g) PROVE GraphOk(MarkLockPatches(g))
  <2> DEFINE meant(d) == {n \in g.nodes : n.name = d.pkg /\ SourceMatches(g, d, n)}
             found == {d \in world.patches : meant(d) # {}}
             p == g.patch \cup {<<FirstNode(meant(d)), world.patchFor>> : d \in found}
  <2>1. MarkLockPatches(g) = [g EXCEPT !.patch = p] BY DEF MarkLockPatches
  <2> HIDE DEF p
  <2>2. GraphOk([g EXCEPT !.patch = p]) BY <1>1, FieldsOk
  <2> QED BY <2>1, <2>2
<1>2. GraphOk(ImportLock(gr, file))
  <2> DEFINE locked == UNION {LockNode(gr, p) : p \in file}
             targets(p) == UNION {LockNode(gr, q) : q \in UNION {Named(file, d) : d \in p.deps}}
             x == gr.nodes \cup locked
             y == gr.edges \cup UNION {LockNode(gr, p) \X targets(p) : p \in file}
  <2>1. ImportLock(gr, file) = [gr EXCEPT !.nodes = x, !.edges = y] BY DEF ImportLock
  <2> HIDE DEF x, y
  <2>2. GraphOk([gr EXCEPT !.nodes = x, !.edges = y]) BY TwoFieldsOk
  <2> QED BY <2>1, <2>2
<1> QED BY <1>1, <1>2

LEMMA LoadOk ==
    ASSUME GraphOk(graph), LoadUnloaded \/ BuildLoad
    PROVE  GraphOk(graph')
<1> USE DEF GraphOk
<1>1. CASE LoadUnloaded
  <2> DEFINE x == graph.sum \cup {u \in eng.unloaded : u.src.at = "registry"}
             y == graph.pkg \cup {u \in eng.unloaded : u.src.at # "registry"}
             lost == \E u \in eng.unloaded : IF u.src.at = "registry" THEN \A e \in Index : e.id # u
                                             ELSE u \notin DOMAIN Manifests
  <2>1. CASE lost BY <1>1, <2>1 DEF LoadUnloaded
  <2>2. CASE ~lost
    <3>1. graph' = [graph EXCEPT !.sum = x, !.pkg = y] BY <1>1, <2>2 DEF LoadUnloaded
    <3>2. x \cup y \subseteq DOMAIN Manifests
      <4>1. ASSUME NEW u \in eng.unloaded PROVE u \in DOMAIN Manifests
        BY <2>2, PlanningAssumption
      <4> QED BY <4>1
    <3> HIDE DEF x, y
    <3> HIDE DEF GraphOk
    <3> QED BY <3>1, <3>2, TwoFieldsOk
  <2> QED BY <2>1, <2>2
<1>2. CASE BuildLoad
  <2> DEFINE y == graph.pkg \cup eng.unloaded
  <2>1. CASE eng.unloaded \subseteq DOMAIN Manifests
    <3>1. graph' = [graph EXCEPT !.pkg = y] BY <1>2, <2>1 DEF BuildLoad
    <3>2. y \subseteq DOMAIN Manifests BY <2>1
    <3> HIDE DEF y, GraphOk
    <3> QED BY <3>1, <3>2, FieldsOk
  <2>2. CASE ~(eng.unloaded \subseteq DOMAIN Manifests) BY <1>2, <2>2 DEF BuildLoad
  <2> QED BY <2>1, <2>2
<1> QED BY <1>1, <1>2

LEMMA FixedIn ==
    ASSUME NEW dep, Fixed(dep) # {}
    PROVE  FixedNode(dep) \in DOMAIN Manifests \cup graph.nodes
<1>1. FixedNode(dep) \in Fixed(dep) BY DEF FixedNode, Only
<1>2. Fixed(dep) \subseteq DOMAIN Manifests \cup graph.nodes
  <2> DEFINE here == {x \in graph.nodes : /\ x.name = dep.pkg /\ x.src.at = "git"
                                          /\ x.src.url = dep.src.url /\ x.src.ref = dep.src.ref}
  <2>1. here \subseteq graph.nodes OBVIOUS
  <2>2. Fixed(dep) = here \/ Fixed(dep) \subseteq DOMAIN Manifests BY DEF Fixed
  <2> HIDE DEF here
  <2> QED BY <2>1, <2>2
<1> QED BY <1>1, <1>2

LEMMA TriedOk ==
    ASSUME NEW dep, GraphOk(graph), ~Unfound(dep)
    PROVE  GraphOk(Tried(dep))
<1>1. CASE PatchOf(dep) = {} BY <1>1 DEF Tried
<1>2. CASE PatchOf(dep) # {}
  <2>1. Only(PatchOf(dep)) \in PatchOf(dep) BY <1>2 DEF Only
  <2>2. Fixed(Only(PatchOf(dep))) # {} BY <2>1 DEF Unfound
  <2> QED BY <1>2, <2>2, FixedIn, WithPackageOk DEF Tried
<1> QED BY <1>1, <1>2

LEMMA SelectOk ==
    ASSUME GraphOk(graph), Select
    PROVE  GraphOk(graph')
<1> USE DEF Select
<1>1. PICK d \in todo :
         \/ SelectNothing(d[1], d[2])
         \/ /\ ~Unfound(NodeDeps(d[1])[d[2]])
            /\ \/ SelectFixed(d[1], d[2])    \/ SelectPatched(d[1], d[2])
               \/ SelectExisting(d[1], d[2]) \/ SelectLocked(d[1], d[2])
               \/ SelectNewest(d[1], d[2])
  OBVIOUS
<1> DEFINE n == d[1]
           i == d[2]
           dep == NodeDeps(n)[i]
<1>2. ASSUME NEW gr, NEW m, NEW j, NEW t, GraphOk(gr), Choose(gr, m, j, t)
      PROVE  GraphOk(graph')
  <2> DEFINE x == gr.edges \cup {<<m, t>>}
  <2>1. graph' = [gr EXCEPT !.edges = x] BY <1>2 DEF Choose
  <2> HIDE DEF x
  <2> QED BY <1>2, <2>1, FieldsOk
<1>3. CASE SelectNothing(n, i) BY <1>3 DEF SelectNothing
<1>4. ASSUME ~Unfound(dep), SelectFixed(n, i) PROVE GraphOk(graph')
  <2>1. Fixed(dep) # {} BY <1>4 DEF Unfound, SelectFixed
  <2>2. GraphOk(WithPackage(graph, FixedNode(dep))) BY <2>1, FixedIn, WithPackageOk
  <2> QED BY <1>2, <1>4, <2>2 DEF SelectFixed
<1>5. ASSUME ~Unfound(dep), SelectPatched(n, i) PROVE GraphOk(graph')
  <2> DEFINE t == FixedNode(Only(PatchOf(dep)))
             g == Tried(dep)
             x == {p \in g.patch : p[1] # t} \cup {<<t, dep.src.reg>>}
  <2>1. Choose([g EXCEPT !.patch = x], n, i, t) BY <1>5 DEF SelectPatched
  <2>2. GraphOk(g) BY <1>5, TriedOk
  <2> HIDE DEF x, g, t
  <2>3. GraphOk([g EXCEPT !.patch = x]) BY <2>2, FieldsOk
  <2> QED BY <1>2, <2>1, <2>3
<1>6. ASSUME ~Unfound(dep), SelectExisting(n, i) PROVE GraphOk(graph')
  BY <1>2, <1>6, TriedOk DEF SelectExisting
<1>7. ASSUME ~Unfound(dep), SelectLocked(n, i) PROVE GraphOk(graph')
  <2> DEFINE t == Newest(LockedFor(dep))
             g == Tried(dep)
             x == g.nodes \cup {t}
  <2>1. Choose([g EXCEPT !.nodes = x], n, i, t) BY <1>7 DEF SelectLocked
  <2>2. GraphOk(g) BY <1>7, TriedOk
  <2> HIDE DEF x, g, t
  <2>3. GraphOk([g EXCEPT !.nodes = x]) BY <2>2, FieldsOk
  <2> QED BY <1>2, <2>1, <2>3
<1>8. ASSUME ~Unfound(dep), SelectNewest(n, i) PROVE GraphOk(graph')
  <2> DEFINE S == {e.id : e \in Pool(dep)}
             t == Newest(S)
             g == Tried(dep)
             x == g.nodes \cup {t}
             y == g.sum \cup {t}
  <2>1. Choose([g EXCEPT !.nodes = x, !.sum = y], n, i, t) /\ Pool(dep) # {} BY <1>8 DEF SelectNewest
  <2>2. GraphOk(g) BY <1>8, TriedOk
  <2>3. Pool(dep) \subseteq Index BY DEF Pool, Candidates
  <2>4. S \subseteq DOMAIN Manifests BY <2>3, PlanningAssumption
  <2>5. IsFiniteSet(S) BY <2>4, PlanningAssumption, FS_Subset
  <2>6. S # {} BY <2>1
  <2>7. \A s \in S : s.vers \in Int BY <2>4, PlanningAssumption
  <2>8. t \in S
    <3> HIDE DEF S
    <3> QED BY <2>5, <2>6, <2>7, NewestIn
  <2>9. y \subseteq DOMAIN Manifests
    <3>1. g.sum \subseteq DOMAIN Manifests BY <2>2 DEF GraphOk
    <3> HIDE DEF S, t, g
    <3> QED BY <2>4, <2>8, <3>1
  <2> HIDE DEF S, x, y, g, t
  <2>10. GraphOk([g EXCEPT !.nodes = x, !.sum = y]) BY <2>2, <2>9, TwoFieldsOk
  <2> QED BY <1>2, <2>1, <2>10
<1> HIDE DEF Select
<1> QED BY <1>1, <1>3, <1>4, <1>5, <1>6, <1>7, <1>8

-----------------------------------------------------------------------------
(* What the engine was started with, and its invariant while it runs.      *)
Working == {"locking", "building"}
Begun == Pending(Start(IF phase = "locking" THEN LockRequests ELSE BuildRequests))
EngineInv ==
    /\ world \in Worlds /\ GraphOk(graph)
    /\ phase \in Working => \E start : start = Begun /\ Good(eng, start)

LEMMA BegunForm ==
    ASSUME world \in Worlds, GraphOk(graph), NEW R, R \in {LockRequests, BuildRequests}
    PROVE  /\ IsFiniteSet(Pending(Start(R))) /\ \A x \in Pending(Start(R)) : TaskForm(x)
           /\ Good(Start(R), Pending(Start(R)))
<1>1. Known BY DEF Known, GraphOk
<1>2. IsFiniteSet(R) /\ \A r \in R : Valid(r) BY LockRequestsForm, BuildRequestsForm
<1> QED BY <1>1, <1>2, StartTasksForm

LEMMA RequestStep ==
    ASSUME EngineInv, Request
    PROVE  EngineInv'
<1> DEFINE R == IF phase = "round" THEN LockRequests ELSE BuildRequests
<1>1. UNCHANGED <<world, graph, opts>> /\ eng' = Start(R) BY DEF Request
<1>2. phase' = IF phase = "round" THEN "locking" ELSE "building" BY DEF Request
<1>3. PICK start : start = Pending(Start(R)) OBVIOUS
<1>4. Good(Start(R), Pending(Start(R)))
  <2>1. R \in {LockRequests, BuildRequests} OBVIOUS
  <2> HIDE DEF R
  <2> QED BY <2>1, BegunForm DEF EngineInv
<1>5. Begun' = start
  <2>1. CASE phase = "round"
    <3>1. phase' = "locking" BY <1>2, <2>1
    <3>2. Begun' = Pending(Start(LockRequests))' BY <3>1 DEF Begun
    <3> QED BY <1>1, <1>3, <2>1, <3>2, StartKept
  <2>2. CASE phase # "round"
    <3>1. phase' # "locking" BY <1>2, <2>2
    <3>2. Begun' = Pending(Start(BuildRequests))' BY <3>1 DEF Begun
    <3> QED BY <1>1, <1>3, <2>2, <3>2, StartKept
  <2> QED BY <2>1, <2>2
<1> HIDE DEF R
<1>6. Good(eng', start) BY <1>1, <1>3, <1>4
<1>7. Good(eng, start)' BY <1>1, <1>6, GoodKept
<1>8. (world \in Worlds)' /\ GraphOk(graph)' BY <1>1 DEF EngineInv
<1> QED BY <1>5, <1>7, <1>8 DEF EngineInv

LEMMA EngineKeeps ==
    ASSUME EngineInv, Engine
    PROVE  EngineInv'
<1>1. UNCHANGED <<world, graph, opts, phase>> /\ phase \in Working /\ EngineStep
  BY DEF Engine, Working
<1>2. PICK start : start = Begun /\ Good(eng, start) BY <1>1 DEF EngineInv
<1>3. Known BY DEF EngineInv, Known, GraphOk
<1>4. Good(eng', start)
  BY <1>1, <1>2, <1>3, SkipGood, BaseGood, DepGood, FeatGood, DepFeatGood DEF EngineStep
<1>5. Good(eng, start)' BY <1>1, <1>4, GoodKept
<1>6. Begun' = start
  <2>1. CASE phase = "locking"
    <3>1. Begun = Pending(Start(LockRequests)) /\ Begun' = Pending(Start(LockRequests))'
      BY <1>1, <2>1 DEF Begun
    <3> QED BY <1>1, <1>2, <3>1, StartKept
  <2>2. CASE phase # "locking"
    <3>1. Begun = Pending(Start(BuildRequests)) /\ Begun' = Pending(Start(BuildRequests))'
      BY <1>1, <2>2 DEF Begun
    <3> QED BY <1>1, <1>2, <3>1, StartKept
  <2> QED BY <2>1, <2>2
<1>7. (world \in Worlds)' /\ GraphOk(graph)' BY <1>1 DEF EngineInv
<1> QED BY <1>5, <1>6, <1>7 DEF EngineInv

(* Nothing else runs the engine: the other steps end it or come before.    *)
LEMMA OthersStop ==
    ASSUME EngineInv, Next, ~Request, ~Engine
    PROVE  phase' \notin Working /\ GraphOk(graph') /\ world' = world
<1> USE DEF EngineInv, Working
<1>1. CASE ReadLock
  <2>1. GraphOk(LocalGraph) BY LocalGraphOk
  <2>2. GraphOk(MarkLockPatches(ImportLock(LocalGraph, lock))) BY <2>1, ImportOk
  <2> QED BY <1>1, <2>1, <2>2 DEF ReadLock, Relock
<1>2. CASE Begin BY <1>2 DEF Begin, StartBuild
<1>3. CASE EngineFails BY <1>3 DEF EngineFails
<1>4. CASE LoadUnloaded
  <2>1. GraphOk(graph') BY <1>4, LoadOk
  <2> QED BY <1>4, <2>1 DEF LoadUnloaded
<1>5. CASE Select
  <2>1. GraphOk(graph') BY <1>5, SelectOk
  <2>2. PICK n, i : \/ SelectFixed(n, i)    \/ SelectPatched(n, i)
                    \/ SelectExisting(n, i) \/ SelectLocked(n, i)
                    \/ SelectNewest(n, i)   \/ SelectNothing(n, i)
    BY <1>5 DEF Select
  <2>3. phase = "selecting" /\ world' = world BY <1>5 DEF Select
  <2>4. ASSUME NEW gr, NEW t, Choose(gr, n, i, t) PROVE phase' \in {"failed", phase}
    BY <2>4 DEF Choose
  <2>5. phase' \in {"failed", phase}
    BY <2>2, <2>4 DEF SelectFixed, SelectPatched, SelectExisting, SelectLocked, SelectNewest, SelectNothing
  <2> QED BY <2>1, <2>3, <2>5
<1>6. CASE NextRound BY <1>6 DEF NextRound
<1>7. CASE CommitLock BY <1>7 DEF CommitLock
<1>8. CASE BuildMissing
  <2>1. GraphOk(LocalGraph) BY LocalGraphOk
  <2> QED BY <1>8, <2>1 DEF BuildMissing, Relock
<1>9. CASE BuildLoad
  <2>1. GraphOk(graph') BY <1>9, LoadOk
  <2> QED BY <1>9, <2>1 DEF BuildLoad
<1>10. CASE BuildDone BY <1>10 DEF BuildDone
<1>11. CASE Update
  <2>1. GraphOk(LocalGraph) BY LocalGraphOk
  <2> QED BY <1>11, <2>1 DEF Update
<1>12. CASE UnitStep
  BY <1>12 DEF UnitStep, BuildUnits, Intern, EndUnits, DropDocs, ShareOne, FinishUnits
<1>13. CASE PlanStep
  BY <1>13 DEF PlanStep, StartLto, PropagateLto, PlanUnit, FinishPlan, rest
<1>14. CASE Stop BY <1>14 DEF Stop, Ended, allVars, vars
<1> QED BY <1>1, <1>2, <1>3, <1>4, <1>5, <1>6, <1>7, <1>8, <1>9, <1>10, <1>11, <1>12, <1>13, <1>14
        DEF Next, ResolveStep

LEMMA EngineStutters ==
    ASSUME EngineInv, UNCHANGED allVars
    PROVE  EngineInv'
<1>1. UNCHANGED <<world, graph, opts, phase, eng>> BY DEF allVars, vars
<1>2. (world \in Worlds)' /\ GraphOk(graph)' BY <1>1 DEF EngineInv
<1>3. CASE phase \notin Working BY <1>1, <1>2, <1>3 DEF EngineInv, Working
<1>4. CASE phase \in Working
  <2>1. PICK start : start = Begun /\ Good(eng, start) BY <1>4 DEF EngineInv
  <2>2. Good(eng', start) BY <1>1, <2>1
  <2>3. Good(eng, start)' BY <1>1, <2>2, GoodKept
  <2>4. Begun' = start
    <3>1. CASE phase = "locking"
      <4>1. Begun = Pending(Start(LockRequests)) /\ Begun' = Pending(Start(LockRequests))'
        BY <1>1, <3>1 DEF Begun
      <4> QED BY <1>1, <2>1, <4>1, StartKept
    <3>2. CASE phase # "locking"
      <4>1. Begun = Pending(Start(BuildRequests)) /\ Begun' = Pending(Start(BuildRequests))'
        BY <1>1, <3>2 DEF Begun
      <4> QED BY <1>1, <2>1, <4>1, StartKept
    <3> QED BY <3>1, <3>2
  <2> QED BY <1>2, <2>3, <2>4 DEF EngineInv
<1> QED BY <1>3, <1>4

(* Whatever order the engine takes its tasks in, what it has turned on     *)
(* when its queue is empty is the least set closed under the rules         *)
(* (features.rs, Engine::run and activate_edge).                           *)
THEOREM FeaturesLeast == Spec => []FeaturesAreLeast
<1>1. InitPlanning => EngineInv
  <2>1. SUFFICES ASSUME InitPlanning PROVE EngineInv OBVIOUS
  <2>2. world \in Worlds /\ graph = LocalGraph /\ phase = "read" BY <2>1 DEF InitPlanning, Init
  <2>3. GraphOk(graph) BY <2>2, LocalGraphOk
  <2> QED BY <2>2, <2>3 DEF EngineInv, Working
<1>2. EngineInv /\ [Next]_allVars => EngineInv'
  <2>1. SUFFICES ASSUME EngineInv, [Next]_allVars PROVE EngineInv' OBVIOUS
  <2>2. ASSUME Next, ~Request, ~Engine PROVE EngineInv'
    <3>1. phase' \notin Working /\ GraphOk(graph') /\ world' = world BY <2>1, <2>2, OthersStop
    <3>2. (phase \notin Working)' BY <3>1 DEF Working
    <3>3. GraphOk(graph)' BY <3>1
    <3> QED BY <2>1, <3>1, <3>2, <3>3 DEF EngineInv
  <2> QED BY <2>1, <2>2, RequestStep, EngineKeeps, EngineStutters
<1>3. EngineInv => FeaturesAreLeast
  <2>1. SUFFICES ASSUME EngineInv, Drained, ~eng.error
                 PROVE  LET T == Closure(Begun)
                        IN  /\ eng.named = {<<x.n, x.s, x.v.feat>> :
                                 x \in {y \in T : /\ y.v.do = "feat" /\ Loaded(y.n)
                                                  /\ y.v.feat \in DOMAIN NodeFeatures(y.n)}}
                            /\ eng.active = UNION {{<<k[1], k[2], i>> : i \in Edges(T, k[1], k[2])} :
                                                     k \in {<<x.n, x.s>> : x \in T}}
    BY DEF FeaturesAreLeast, Begun
  <2>2. PICK start : start = Begun /\ Good(eng, start) BY <2>1 DEF EngineInv, Drained, Working
  <2>3. IsFiniteSet(start) /\ \A x \in start : TaskForm(x)
    <3> DEFINE R == IF phase = "locking" THEN LockRequests ELSE BuildRequests
    <3>1. start = Pending(Start(R)) BY <2>2 DEF Begun
    <3>2. R \in {LockRequests, BuildRequests} OBVIOUS
    <3> HIDE DEF R
    <3> QED BY <2>1, <3>1, <3>2, BegunForm DEF EngineInv
  <2>4. IsFiniteSet(Tasks(start))
    <3>1. graph.pkg \cup graph.sum \subseteq DOMAIN Manifests BY <2>1 DEF EngineInv, GraphOk
    <3> QED BY <2>3, <3>1, TasksFinite
  <2>5. eng.queue = <<>> BY <2>1 DEF Drained
  <2> QED BY <2>1, <2>2, <2>3, <2>4, <2>5, DrainedLeast
<1> QED BY <1>1, <1>2, <1>3, PTL DEF Spec

-----------------------------------------------------------------------------
(* What is reachable in a finite graph is the least set closed under needs. *)
LEMMA KeptIsLeast ==
    ASSUME NEW D, IsFiniteSet(DOMAIN D), NEW start \in SUBSET DOMAIN D,
           \A u \in DOMAIN D : \A d \in D[u] : d.unit \in DOMAIN D
    PROVE  /\ start \subseteq Kept(D, start) /\ Kept(D, start) \subseteq DOMAIN D
           /\ \A u \in Kept(D, start) : \A d \in D[u] : d.unit \in Kept(D, start)
           /\ \A T \in SUBSET DOMAIN D :
                 start \subseteq T /\ (\A u \in T : \A d \in D[u] : d.unit \in T) => Kept(D, start) \subseteq T
<1> DEFINE W == DOMAIN D
           Step(S) == {d.unit : d \in UNION {D[u] : u \in S}}
           step == [S \in SUBSET W |-> Step(S)]
           Eqn(f) == f = [S \in SUBSET W |-> IF S \cup Step(S) = S THEN S ELSE f[S \cup Step(S)]]
           grow == CHOOSE f : Eqn(f)
<1>1. \A S \in SUBSET W : Step(S) \in SUBSET W OBVIOUS
<1>2. \A S, T \in SUBSET W : S \subseteq T => Step(S) \subseteq Step(T) OBVIOUS
<1>3. \A S, T \in SUBSET W : Step(S) \subseteq T <=> \A u \in S : \A d \in D[u] : d.unit \in T OBVIOUS
<1>4. Kept(D, start) = grow[start] BY DEF Kept, LeastAbove
<1> HIDE DEF Step, grow
<1>5. /\ step \in [SUBSET W -> SUBSET W]
      /\ \A S, T \in SUBSET W : S \subseteq T => step[S] \subseteq step[T]
      /\ \A S \in SUBSET W : step[S] = Step(S)
  BY <1>1, <1>2
<1>6. \A f : Eqn(f) <=> Grows(W, step, f) BY DEF Grows
<1> HIDE DEF step, Eqn
<1>7. /\ \E f : Grows(W, step, f)
      /\ \A f : Grows(W, step, f) => \A S \in SUBSET W : f[S] = LeastClosed(W, step, S)
  BY <1>5, LeastReached
<1>8. Eqn(grow) BY <1>6, <1>7 DEF grow
<1>9. Kept(D, start) = LeastClosed(W, step, start) BY <1>4, <1>6, <1>7, <1>8
<1>10. LET least == LeastClosed(W, step, start) IN
       /\ least \in SUBSET W /\ start \subseteq least /\ step[least] \subseteq least
       /\ \A T \in SUBSET W : start \subseteq T /\ step[T] \subseteq T => least \subseteq T
  BY <1>5, LeastIs
<1> DEFINE K == Kept(D, start)
<1>11. K \in SUBSET W /\ start \subseteq K /\ Step(K) \subseteq K BY <1>5, <1>9, <1>10
<1>12. \A u \in K : \A d \in D[u] : d.unit \in K
  <2> HIDE DEF K
  <2> QED BY <1>3, <1>11
<1>13. ASSUME NEW T \in SUBSET W, start \subseteq T, \A u \in T : \A d \in D[u] : d.unit \in T
       PROVE  K \subseteq T
  <2>1. Step(T) \subseteq T BY <1>3, <1>13
  <2>2. step[T] \subseteq T BY <1>5, <2>1
  <2> QED BY <1>9, <1>10, <1>13, <2>2
<1> QED BY <1>11, <1>12, <1>13

-----------------------------------------------------------------------------
(* The graph of units is finite and whole: every unit that is needed is    *)
(* there, and only what the roots lead to.                                 *)
Closing(D, S) == \A u \in DOMAIN D \cap S : \A d \in D[u] : d.unit \in S
Leads(D, start) == \A S : start \subseteq S /\ Closing(D, S) => DOMAIN D \subseteq S
Whole(D, start) == start \subseteq DOMAIN D /\ Closing(D, DOMAIN D)
UnitsWhole ==
    /\ IsFiniteSet(DOMAIN units)
    /\ phase \in UnitPhases => Leads(units, roots \cup aux)
    /\ phase \in UnitPhases \ {"units"} => Whole(units, roots \cup aux)

LEMMA PrunedWhole ==
    ASSUME NEW D, IsFiniteSet(DOMAIN D), NEW start, Whole(D, start)
    PROVE  /\ IsFiniteSet(DOMAIN Pruned(D, start))
           /\ Whole(Pruned(D, start), start) /\ Leads(Pruned(D, start), start)
<1> DEFINE P == Pruned(D, start)
           K == Kept(D, start)
<1>1. /\ start \subseteq K /\ K \subseteq DOMAIN D
      /\ \A u \in K : \A d \in D[u] : d.unit \in K
      /\ \A T \in SUBSET DOMAIN D :
            start \subseteq T /\ (\A u \in T : \A d \in D[u] : d.unit \in T) => K \subseteq T
  BY KeptIsLeast DEF Whole, Closing
<1>2. DOMAIN P = DOMAIN D \cap K /\ \A u \in DOMAIN P : P[u] = D[u] BY DEF Pruned
<1> HIDE DEF P, K
<1>3. DOMAIN P = K BY <1>1, <1>2
<1>4. IsFiniteSet(DOMAIN P) BY <1>1, <1>3, FS_Subset
<1>5. Whole(P, start) BY <1>1, <1>2, <1>3 DEF Whole, Closing
<1>6. ASSUME NEW S, start \subseteq S, Closing(P, S) PROVE DOMAIN P \subseteq S
  <2> DEFINE T == K \cap S
  <2>1. T \in SUBSET DOMAIN D /\ start \subseteq T BY <1>1, <1>6
  <2>2. ASSUME NEW u \in T, NEW d \in D[u] PROVE d.unit \in T
    BY <1>1, <1>2, <1>3, <1>6, <2>2 DEF Closing
  <2>3. K \subseteq T BY <1>1, <2>1, <2>2
  <2> QED BY <1>3, <2>3
<1> QED BY <1>4, <1>5, <1>6 DEF P, Leads

LEMMA RestStep ==
    ASSUME NothingEarly, [Next]_allVars,
           ~BuildUnits, ~Intern, ~EndUnits, ~DropDocs, ~ShareOne, ~FinishUnits
    PROVE  /\ UNCHANGED <<world, units, roots, aux, alias, profile>>
           /\ phase' \in UnitPhases => phase \in UnitPhases
           /\ phase' \in UnitPhases \ {"units"} => phase # "units"
<1> USE DEF NothingEarly, UnitPhases
<1>1. CASE ResolveStep BY <1>1, ResolveFirst DEF uvars
<1>2. CASE StartLto BY <1>2 DEF StartLto, rest
<1>3. CASE PropagateLto BY <1>3 DEF PropagateLto, rest
<1>4. CASE PlanUnit BY <1>4 DEF PlanUnit, rest
<1>5. CASE FinishPlan BY <1>5 DEF FinishPlan, rest
<1>6. CASE Stop \/ UNCHANGED allVars BY <1>6 DEF Stop, allVars, vars, uvars, pvars
<1> QED BY <1>1, <1>2, <1>3, <1>4, <1>5, <1>6 DEF Next, UnitStep, PlanStep

LEMMA UnitsWholeStep ==
    ASSUME GraphInv, UnitsWhole, [Next]_allVars
    PROVE  UnitsWhole'
<1> USE DEF GraphInv
<1>1. CASE BuildUnits
  <2>1. DOMAIN units' = {} /\ phase' \in {"units", "failed"}
    BY <1>1, BuildUnitsStep DEF NoEntries
  <2> QED BY <2>1, FS_EmptySet DEF UnitsWhole, Leads, UnitPhases
<1>2. CASE Intern
  <2>1. /\ UNCHANGED <<roots, aux>> /\ phase = "units" /\ phase' = "units"
        /\ NextUnit \subseteq Uninterned
        /\ DOMAIN units' = DOMAIN units \cup NextUnit
        /\ \A u \in DOMAIN units : units'[u] = units[u]
    BY <1>2, InternStep
  <2>2. IsFiniteSet(DOMAIN units')
    BY <2>1, FS_AddElement DEF NextUnit, UnitsWhole
  <2>3. ASSUME NEW S, roots \cup aux \subseteq S, Closing(units', S) PROVE DOMAIN units' \subseteq S
    <3>1. Closing(units, S) BY <2>1, <2>3 DEF Closing
    <3>2. DOMAIN units \subseteq S BY <2>1, <2>3, <3>1 DEF UnitsWhole, Leads, UnitPhases
    <3>3. Uninterned \subseteq S BY <2>3, <3>1, <3>2 DEF Uninterned, Closing
    <3> QED BY <2>1, <3>2, <3>3
  <2> QED BY <2>1, <2>2, <2>3 DEF UnitsWhole, Leads
<1>3. CASE EndUnits
  <2>1. UNCHANGED <<units, roots, aux>> /\ phase = "units" /\ Uninterned = {}
    BY <1>3 DEF EndUnits, uvars
  <2>2. Whole(units, roots \cup aux) BY <2>1 DEF Uninterned, Whole, Closing
  <2> QED BY <2>1, <2>2 DEF UnitsWhole, Whole, Leads, Closing, UnitPhases
<1>4. CASE DropDocs
  <2> DEFINE gone == UNION {Removed(Colliding(u)) : u \in Docs}
             left == [u \in DOMAIN units |-> {d \in units[u] : d.unit \notin gone}]
  <2>1. /\ units' = Pruned(left, roots \cup aux) /\ UNCHANGED <<roots, aux>>
        /\ phase = "docs"
    BY <1>4 DEF DropDocs
  <2>2. DOMAIN left = DOMAIN units /\ \A u \in DOMAIN left : left[u] \subseteq units[u] OBVIOUS
  <2> HIDE DEF left
  <2>3. IsFiniteSet(DOMAIN left) /\ Whole(left, roots \cup aux)
    BY <2>1, <2>2 DEF UnitsWhole, Whole, Closing, UnitPhases
  <2>4. /\ IsFiniteSet(DOMAIN units')
        /\ Whole(units', roots \cup aux) /\ Leads(units', roots \cup aux)
    BY <2>1, <2>3, PrunedWhole
  <2>5. roots' = roots /\ aux' = aux BY <2>1
  <2> QED BY <2>4, <2>5 DEF UnitsWhole
<1>5. CASE ShareOne
  <2>1. UNCHANGED <<units, roots, aux>> /\ phase = "sharing" /\ phase' = "sharing"
    BY <1>5 DEF ShareOne
  <2> QED BY <2>1 DEF UnitsWhole, Whole, Leads, Closing
<1>6. CASE FinishUnits
  <2>1. phase = "sharing" /\ phase' = "planning" BY <1>6 DEF FinishUnits
  <2>2. IsFiniteSet(DOMAIN units) /\ Whole(units, roots \cup aux) /\ Leads(units, roots \cup aux)
    BY <2>1 DEF UnitsWhole, UnitPhases
  <2>3. CASE ~world.noTarget
    <3>1. UNCHANGED <<units, roots, aux>> BY <1>6, <2>3 DEF FinishUnits
    <3> QED BY <2>2, <3>1 DEF UnitsWhole, Whole, Leads, Closing
  <2>4. CASE world.noTarget
    <3> DEFINE shared == [u \in DOMAIN units |-> Aliased(u)]
    <3>1. /\ roots' = {Now(r) : r \in roots} /\ aux' = {Now(r) : r \in aux}
          /\ units' = Pruned(shared, roots' \cup aux')
      BY <1>6, <2>4 DEF FinishUnits
    <3>2. DOMAIN shared = DOMAIN units /\ \A u \in DOMAIN shared : shared[u] = Aliased(u) OBVIOUS
    <3> HIDE DEF shared
    <3>3. ASSUME NEW u \in DOMAIN units PROVE Now(u) \in DOMAIN units
      BY <2>1, <3>3 DEF SharedAbove, Now
    <3>4. roots' \cup aux' \subseteq DOMAIN shared BY <2>2, <3>1, <3>2, <3>3 DEF Whole
    <3>5. ASSUME NEW u \in DOMAIN shared, NEW d \in shared[u] PROVE d.unit \in DOMAIN shared
      <4>1. PICK e \in units[u] : d.unit = Now(e.unit) BY <3>2, <3>5 DEF Aliased
      <4> QED BY <2>2, <3>2, <3>3, <4>1 DEF Whole, Closing
    <3>6. Whole(shared, roots' \cup aux') BY <3>4, <3>5 DEF Whole, Closing
    <3>7. IsFiniteSet(DOMAIN shared) BY <2>2, <3>2
    <3>8. /\ IsFiniteSet(DOMAIN units')
          /\ Whole(units', roots' \cup aux') /\ Leads(units', roots' \cup aux')
      BY <3>1, <3>6, <3>7, PrunedWhole
    <3> QED BY <3>8 DEF UnitsWhole
  <2> QED BY <2>3, <2>4
<1>7. CASE ~BuildUnits /\ ~Intern /\ ~EndUnits /\ ~DropDocs /\ ~ShareOne /\ ~FinishUnits
  <2>1. /\ UNCHANGED <<units, roots, aux>>
        /\ phase' \in UnitPhases => phase \in UnitPhases
        /\ phase' \in UnitPhases \ {"units"} => phase # "units"
    BY <1>7, RestStep
  <2> QED BY <2>1 DEF UnitsWhole, Whole, Leads, Closing
<1> QED BY <1>1, <1>2, <1>3, <1>4, <1>5, <1>6, <1>7

-----------------------------------------------------------------------------
(* No table for a package or the host sets `lto': cargo refuses that.      *)
OverridesKeep(field) ==
    \A i \in DOMAIN world.tomls : \A name \in DOMAIN world.tomls[i] :
        field \notin DOMAIN world.tomls[i][name].override
KeepLto == PackagesKeep("lto") /\ OverridesKeep("lto")

MainProfile ==
    LET names == Ancestry(Requested)
        chain == [i \in DOMAIN names |-> Layer(names[i])]
    IN  Apply(<<Default(names[1]), Apply([i \in DOMAIN chain |-> chain[i].set])>>)
MainLto == MainProfile["lto"]

LEMMA OverridesSet ==
    ASSUME NEW field, OverridesKeep(field), NEW name
    PROVE  field \notin DOMAIN Layer(name).override
<1> DEFINE of(file) == IF name \in DOMAIN file THEN file[name] ELSE NoLayer
           t == [i \in DOMAIN world.tomls |-> of(world.tomls[i])]
<1>1. Layer(name).override = Merge([i \in DOMAIN t |-> t[i].override]) BY DEF Layer
<1>2. ASSUME NEW i \in DOMAIN t PROVE field \notin DOMAIN t[i].override
  BY <1>2 DEF OverridesKeep, NoLayer, NoFields
<1> HIDE DEF t
<1> QED BY <1>1, <1>2 DEF Merge

LEMMA OverridesLeave ==
    ASSUME NEW field, OverridesKeep(field), NEW names
    PROVE  LET chain == [i \in DOMAIN names |-> Layer(names[i])]
           IN  field \notin DOMAIN Apply([i \in DOMAIN chain |-> chain[i].override])
<1> DEFINE chain == [i \in DOMAIN names |-> Layer(names[i])]
           tables == [i \in DOMAIN chain |-> chain[i].override]
<1>1. \A i \in DOMAIN tables : tables[i] = Layer(names[i]).override OBVIOUS
<1> HIDE DEF tables
<1>2. \A i \in DOMAIN tables : field \notin DOMAIN tables[i] BY <1>1, OverridesSet
<1>3. field \notin DOMAIN Apply(tables) BY <1>2, ApplyHas
<1> QED BY <1>3 DEF tables

LEMMA ProfileLtos ==
    ASSUME NEW n, NEW forHost
    PROVE  /\ "lto" \in DOMAIN GetProfile(n, forHost)
           /\ KeepLto => GetProfile(n, forHost).lto = MainLto
<1> DEFINE names == Ancestry(Requested)
           chain == [i \in DOMAIN names |-> Layer(names[i])]
           main == Apply(<<Default(names[1]), Apply([i \in DOMAIN chain |-> chain[i].set])>>)
           weak == [opt |-> 0, units |-> 0]
           bare == IF world.noTarget THEN [debug |-> 0] ELSE NoFields
           override == Apply([i \in DOMAIN chain |-> chain[i].override])
           hosts == Apply(<<weak, bare, override, [panic |-> "unwind"]>>)
           host == IF forHost THEN hosts ELSE NoFields
           packages == Apply([i \in DOMAIN chain |-> ForPackage(chain[i], n)])
           whole == Apply(<<main, host, packages>>)
<1>1. GetProfile(n, forHost) = [whole EXCEPT !.strip = Strip(whole, main.debug = 0)]
  BY DEF GetProfile
<1>2. "lto" \in DOMAIN main
  <2> DEFINE sets == Apply([i \in DOMAIN chain |-> chain[i].set])
  <2>1. "lto" \in DOMAIN Default(names[1]) BY DEF Default
  <2> HIDE DEF names, sets
  <2> QED BY <2>1, ApplyHas
<1>3. KeepLto => "lto" \notin DOMAIN host
  <2>1. KeepLto => "lto" \notin DOMAIN override BY OverridesLeave DEF KeepLto
  <2> HIDE DEF override
  <2> DEFINE tables == <<weak, bare, override, [panic |-> "unwind"]>>
  <2>2. KeepLto => \A i \in DOMAIN tables : "lto" \notin DOMAIN tables[i] BY <2>1 DEF NoFields
  <2> HIDE DEF tables
  <2>3. KeepLto => "lto" \notin DOMAIN Apply(tables) BY <2>2, ApplyHas
  <2> QED BY <2>3 DEF tables, NoFields
<1>4. KeepLto => "lto" \notin DOMAIN packages BY PackagesLeave DEF KeepLto
<1>5. MainLto = main["lto"] BY DEF MainLto, MainProfile
<1> HIDE DEF main, host, packages
<1> DEFINE all == <<main, host, packages>>
<1>6. DOMAIN all = 1..3 /\ all[1] = main /\ all[2] = host /\ all[3] = packages OBVIOUS
<1> HIDE DEF all
<1>7. "lto" \in DOMAIN Apply(all) BY <1>2, <1>6, ApplyHas
<1>8. KeepLto => Apply(all)["lto"] = all[1]["lto"]
  <2>1. KeepLto => \A j \in DOMAIN all : j > 1 => "lto" \notin DOMAIN all[j] BY <1>3, <1>4, <1>6
  <2> QED BY <1>2, <1>6, <2>1, ApplyLast
<1>9. whole = Apply(all) BY DEF all
<1> HIDE DEF whole
<1> QED BY <1>1, <1>5, <1>6, <1>7, <1>8, <1>9

LEMMA ProfileOfLto ==
    ASSUME NEW u, NEW rooted
    PROVE  /\ "lto" \in DOMAIN ProfileOf(u, rooted)
           /\ KeepLto => ProfileOf(u, rooted).lto = MainLto
<1> DEFINE rootMacro == rooted /\ u.host
           p == GetProfile(u.pkg, u.host /\ ~rootMacro)
<1>1. /\ "lto" \in DOMAIN p
      /\ KeepLto => p.lto = MainLto
  BY ProfileLtos
<1>2. ProfileOf(u, rooted) = IF rootMacro \/ IsTest(u.mode) THEN [p EXCEPT !.panic = "unwind"] ELSE p
  BY DEF ProfileOf
<1> HIDE DEF p
<1> QED BY <1>1, <1>2

-----------------------------------------------------------------------------
(* Every profile of a plan asks for the same LTO.                          *)
SameLto == KeepLto =>
    /\ phase \in UnitPhases => DOMAIN units \subseteq DOMAIN profile
    /\ \A u, v \in DOMAIN profile : profile[u].lto = profile[v].lto

LEMMA SameLtoStep ==
    ASSUME GraphInv, SameLto, [Next]_allVars
    PROVE  SameLto'
<1> USE DEF GraphInv
<1>1. world' = world
  BY BuildUnitsStep, InternStep, DropDocsStep, ShareOneStep, FinishUnitsStep, OtherStep
<1>2. KeepLto' <=> KeepLto BY <1>1 DEF KeepLto, PackagesKeep, OverridesKeep
<1>3. SUFFICES ASSUME KeepLto
               PROVE  /\ phase' \in UnitPhases => DOMAIN units' \subseteq DOMAIN profile'
                      /\ \A u, v \in DOMAIN profile' : profile'[u].lto = profile'[v].lto
  BY <1>2 DEF SameLto
<1>4. /\ phase \in UnitPhases => DOMAIN units \subseteq DOMAIN profile
      /\ \A u, v \in DOMAIN profile : profile[u].lto = profile[v].lto
  BY <1>3 DEF SameLto
<1>5. CASE BuildUnits
  <2>1. DOMAIN units' = {} /\ profile' = profile BY <1>5, BuildUnitsStep
  <2> QED BY <1>4, <2>1
<1>6. CASE Intern
  <2>1. /\ DOMAIN profile' = DOMAIN units'
        /\ \A u \in DOMAIN units' : profile'[u] = ProfileOf(u, u \in roots)
    BY <1>6 DEF Intern
  <2>2. \A u \in DOMAIN units' : profile'[u].lto = MainLto
    BY <1>3, <2>1, ProfileOfLto
  <2> QED BY <2>1, <2>2
<1>7. CASE DropDocs BY <1>4, <1>7, DropDocsStep DEF UnitPhases
<1>8. CASE ShareOne BY <1>4, <1>8, ShareOneStep DEF UnitPhases
<1>9. CASE FinishUnits BY <1>4, <1>9, FinishUnitsStep DEF UnitPhases
<1>10. CASE EndUnits
  <2>1. UNCHANGED <<units, profile>> /\ phase = "units" BY <1>10 DEF EndUnits, uvars
  <2> QED BY <1>4, <2>1 DEF UnitPhases
<1>11. CASE ~BuildUnits /\ ~Intern /\ ~EndUnits /\ ~DropDocs /\ ~ShareOne /\ ~FinishUnits
  BY <1>4, <1>11, RestStep
<1> QED BY <1>5, <1>6, <1>7, <1>8, <1>9, <1>10, <1>11

-----------------------------------------------------------------------------
(* How a unit takes part in LTO, and how consumers that disagree do: a     *)
(* semilattice.                                                            *)
Levels == {"Run", "Off", "OnlyObject", "OnlyBitcode", "ObjectAndBitcode"}

LEMMA MergeJoins ==
    ASSUME NEW a \in Levels, NEW b \in Levels, NEW c \in Levels
    PROVE  /\ MergeLto(a, b) \in Levels
           /\ MergeLto(a, a) = a
           /\ MergeLto(a, MergeLto(a, b)) = MergeLto(a, b)
           /\ MergeLto(a, c) = c => MergeLto(a, MergeLto(b, c)) = MergeLto(b, c)
BY DEF MergeLto, Levels

(* What a unit can take part in if every profile says l.                   *)
LtoValues(l) == IF l = "default" THEN {"OnlyObject"}
                ELSE IF l = "off" THEN {"Off", "OnlyObject"} ELSE Levels \ {"Off"}
Takes(u, l, x) ==
    /\ x \in LtoValues(l)
    /\ x = "Run" => CrateTypes(u) \subseteq {"bin", "staticlib", "cdylib"}
    /\ x = "OnlyBitcode" => ~HostOnly(u) /\ ~NeedsObject(CrateTypes(u))

LEMMA RootTakes ==
    ASSUME NEW u
    PROVE  RootLto(u) \in Levels /\ RootLto(u) \in LtoValues(ProfileLto(u))
<1> DEFINE l == ProfileLto(u)
           types == CrateTypes(u)
<1>1. WhenNeedsObject(types) \in {"OnlyObject", "ObjectAndBitcode"} BY DEF WhenNeedsObject
<1> HIDE DEF types, l
<1>2. CASE l = "default"
  <2>1. RootLto(u) = "OnlyObject" BY <1>2 DEF RootLto, l
  <2> QED BY <1>2, <2>1 DEF LtoValues, Levels, l
<1>3. CASE l = "off"
  <2>1. RootLto(u) = "Off" BY <1>3 DEF RootLto, l
  <2> QED BY <1>3, <2>1 DEF LtoValues, Levels, l
<1>4. CASE l \notin {"default", "off"}
  <2>1. RootLto(u) \in {"OnlyObject", "OnlyBitcode", WhenNeedsObject(types)}
    BY <1>4 DEF RootLto, l, types
  <2>2. RootLto(u) \in Levels \ {"Off"} BY <1>1, <2>1 DEF Levels
  <2> QED BY <1>4, <2>2 DEF LtoValues, Levels, l
<1> QED BY <1>2, <1>3, <1>4

LEMMA OwnTakes ==
    ASSUME NEW u, NEW p \in Levels
    PROVE  /\ OwnLto(u, p) \in Levels
           /\ p \in LtoValues(ProfileLto(u)) => Takes(u, ProfileLto(u), OwnLto(u, p))
<1> DEFINE types == CrateTypes(u)
           linked == types \subseteq {"bin", "staticlib", "cdylib"}
           l == ProfileLto(u)
<1>1. CASE HostOnly(u)
  <2>1. OwnLto(u, p) = "OnlyObject" BY <1>1 DEF OwnLto
  <2> QED BY <2>1 DEF Takes, LtoValues, Levels
<1>2. CASE ~HostOnly(u) /\ linked
  <2>1. OwnLto(u, p) = CASE l = "default" -> "OnlyObject" [] l = "off" -> "Off" [] OTHER -> "Run"
    BY <1>2 DEF OwnLto
  <2> HIDE DEF l
  <2>2. OwnLto(u, p) \in {"OnlyObject", "Off", "Run"} /\ OwnLto(u, p) \in LtoValues(l)
    BY <2>1 DEF LtoValues, Levels
  <2> QED BY <1>2, <2>2 DEF Takes, Levels, l
<1>3. CASE ~HostOnly(u) /\ ~linked
  <2>1. OwnLto(u, p) = IF p = "Run" /\ ~NeedsObject(types) THEN "OnlyBitcode"
                       ELSE IF p \in {"Run", "OnlyBitcode"} /\ NeedsObject(types)
                            THEN WhenNeedsObject(types) ELSE p
    BY <1>3 DEF OwnLto
  <2>2. WhenNeedsObject(types) \in {"OnlyObject", "ObjectAndBitcode"} BY DEF WhenNeedsObject
  <2> HIDE DEF types, l
  <2>3. OwnLto(u, p) \in Levels BY <2>1, <2>2 DEF Levels
  <2>4. p \in LtoValues(l) => OwnLto(u, p) \in LtoValues(l) BY <2>1, <2>2 DEF LtoValues, Levels
  <2>5. OwnLto(u, p) # "Run" BY <2>1, <2>2
  <2>6. OwnLto(u, p) = "OnlyBitcode" => ~NeedsObject(types) BY <2>1, <2>2
  <2> QED BY <1>3, <2>3, <2>4, <2>5, <2>6 DEF Takes, types, l
<1> QED BY <1>1, <1>2, <1>3

LEMMA MergeTakes ==
    ASSUME NEW u, NEW l, NEW a, NEW b, Takes(u, l, a), Takes(u, l, b)
    PROVE  Takes(u, l, MergeLto(a, b))
BY DEF Takes, MergeLto, LtoValues, Levels

-----------------------------------------------------------------------------
(* The calls of propagate_lto that are still to make.  What a unit takes   *)
(* part in has been told to each of its dependencies, or is about to be.   *)
LtoPhases == {"lto", "planned"}
Calls == UNION ToSet(stack)
Heard(u, v) == \/ [unit |-> v, parent |-> lto[u]] \in Calls
               \/ v \in DOMAIN lto /\ MergeLto(OwnLto(v, lto[u]), lto[v]) = lto[v]
LtoTold ==
    /\ phase \notin LtoPhases => lto = NoEntries
    /\ phase = "planned" => stack = <<>>
    /\ phase \in LtoPhases =>
         /\ IsQueue(stack)
         /\ \A r \in roots \cup aux : r \in DOMAIN lto \/ \E c \in Calls : c.unit = r
         /\ \A c \in Calls : c.unit \in DOMAIN units /\ c.parent \in Levels
         /\ \A u \in DOMAIN lto : /\ u \in DOMAIN units /\ lto[u] \in Levels
                                  /\ \A d \in units[u] : Heard(u, d.unit)
LtoSuits == phase \in LtoPhases =>
    \A l : (\A u \in DOMAIN units : ProfileLto(u) = l) =>
        /\ \A c \in Calls : c.parent \in LtoValues(l)
        /\ \A u \in DOMAIN lto : Takes(u, l, lto[u])

LEMMA LtoOthers ==
    ASSUME NothingEarly, LtoTold, [Next]_allVars, ~StartLto, ~PropagateLto
    PROVE  /\ phase' \in LtoPhases =>
                /\ phase \in LtoPhases
                /\ UNCHANGED <<units, roots, aux, profile, lto, stack>>
           /\ phase' = "planned" => stack = <<>>
           /\ phase' \notin LtoPhases => lto' = lto /\ phase \notin LtoPhases
<1> USE DEF NothingEarly, UnitPhases, LtoPhases, LtoTold
<1>1. CASE ResolveStep BY <1>1, ResolveFirst DEF uvars, pvars
<1>2. CASE UnitStep
  <2>1. UNCHANGED pvars BY <1>2 DEF UnitStep
  <2>2. phase \notin {"lto", "planned"} /\ phase' \notin {"lto", "planned"}
    BY <1>2 DEF UnitStep, BuildUnits, Intern, EndUnits, DropDocs, ShareOne, FinishUnits
  <2> QED BY <2>1, <2>2 DEF pvars
<1>3. CASE PlanUnit BY <1>3 DEF PlanUnit, rest
<1>4. CASE FinishPlan BY <1>4 DEF FinishPlan, rest
<1>5. CASE Stop \/ UNCHANGED allVars BY <1>5 DEF Stop, allVars, vars, uvars, pvars
<1> QED BY <1>1, <1>2, <1>3, <1>4, <1>5 DEF Next, PlanStep

LEMMA StartLtoForm ==
    ASSUME StartLto
    PROVE  /\ phase = "planning" /\ phase' = "lto" /\ lto' = lto
           /\ UNCHANGED <<units, roots, aux, profile>>
           /\ IsQueue(stack')
           /\ Calls' = {[unit |-> r, parent |-> RootLto(r)] : r \in roots \cup aux}
<1> DEFINE first == {[unit |-> r, parent |-> RootLto(r)] : r \in roots \cup aux}
<1>1. /\ phase = "planning" /\ phase' = "lto" /\ lto' = lto
      /\ UNCHANGED <<units, roots, aux, profile>>
      /\ stack' = Batch(first)
  BY DEF StartLto, rest
<1> HIDE DEF first
<1>2. ToSet(<<>>) = {} BY DEF ToSet
<1>3. IsQueue(<<>>) BY <1>2 DEF IsQueue
<1>4. <<>> \o Batch(first) = Batch(first) BY DEF Batch
<1>5. IsQueue(stack') /\ UNION ToSet(stack') = first
  <2>1. IsQueue(<<>> \o Batch(first)) /\ UNION ToSet(<<>> \o Batch(first)) = (UNION ToSet(<<>>)) \cup first
    BY <1>3, Queued
  <2>2. UNION ToSet(<<>>) = {} BY <1>2
  <2> QED BY <1>1, <1>4, <2>1, <2>2
<1> QED BY <1>1, <1>5 DEF Calls, first

(* The call of c, of which its unit takes part in `merged': that is told   *)
(* to the dependencies unless it is not new.                               *)
Propagated(c, merged) ==
    /\ c \in Calls /\ IsQueue(stack')
    /\ merged = IF c.unit \in DOMAIN lto THEN MergeLto(OwnLto(c.unit, c.parent), lto[c.unit])
                ELSE OwnLto(c.unit, c.parent)
    /\ \A x \in Calls : x = c \/ x \in Calls'
    /\ \/ /\ c.unit \in DOMAIN lto /\ merged = lto[c.unit] /\ lto' = lto
          /\ Calls' \subseteq Calls
       \/ /\ lto' = [v \in DOMAIN lto \cup {c.unit} |-> IF v = c.unit THEN merged ELSE lto[v]]
          /\ \A d \in units[c.unit] : [unit |-> d.unit, parent |-> merged] \in Calls'
          /\ \A x \in Calls' : \/ x \in Calls
                               \/ \E d \in units[c.unit] : x = [unit |-> d.unit, parent |-> merged]

LEMMA PropagateForm ==
    ASSUME PropagateLto, IsQueue(stack)
    PROVE  /\ phase = "lto" /\ phase' = "lto" /\ UNCHANGED <<units, roots, aux, profile>>
           /\ \E c, merged : Propagated(c, merged)
<1> DEFINE c == Call
           own == OwnLto(c.unit, c.parent)
           merged == IF c.unit \in DOMAIN lto THEN MergeLto(own, lto[c.unit]) ELSE own
           calls == {[unit |-> d.unit, parent |-> merged] : d \in units[c.unit]}
<1>1. stack # <<>> /\ phase = "lto" /\ phase' = "lto" /\ UNCHANGED <<units, roots, aux, profile>>
  BY DEF PropagateLto, rest
<1>2. \/ c.unit \in DOMAIN lto /\ merged = lto[c.unit] /\ stack' = Returned /\ lto' = lto
      \/ /\ lto' = [v \in DOMAIN lto \cup {c.unit} |-> IF v = c.unit THEN merged ELSE lto[v]]
         /\ stack' = Batch(calls) \o Returned
  BY DEF PropagateLto
<1>3. c \in Head(stack)
  <2>1. 1 \in DOMAIN stack /\ Head(stack) = stack[1] BY <1>1 DEF IsQueue
  <2>2. Head(stack) # {} BY <2>1 DEF IsQueue, ToSet
  <2> QED BY <2>2 DEF Call, Only
<1>4. IsQueue(Returned) /\ Calls = (UNION ToSet(Returned)) \cup {c}
  BY <1>1, <1>3, Taking DEF Returned, Calls
<1>0. merged = IF c.unit \in DOMAIN lto THEN MergeLto(OwnLto(c.unit, c.parent), lto[c.unit])
                 ELSE OwnLto(c.unit, c.parent)
  OBVIOUS
<1> HIDE DEF c, own, merged, calls
<1>5. IsQueue(Batch(calls) \o Returned) /\ UNION ToSet(Batch(calls) \o Returned) = calls \cup (UNION ToSet(Returned))
  BY <1>4, Pushed
<1>6. CASE c.unit \in DOMAIN lto /\ merged = lto[c.unit] /\ stack' = Returned /\ lto' = lto
  <2>1. Calls' = UNION ToSet(Returned) /\ IsQueue(stack') BY <1>4, <1>6 DEF Calls
  <2>2. Propagated(c, merged) BY <1>0, <1>4, <1>6, <2>1 DEF Propagated
  <2> QED BY <1>1, <2>2
<1>7. CASE /\ lto' = [v \in DOMAIN lto \cup {c.unit} |-> IF v = c.unit THEN merged ELSE lto[v]]
           /\ stack' = Batch(calls) \o Returned
  <2>1. Calls' = calls \cup (UNION ToSet(Returned)) /\ IsQueue(stack') BY <1>5, <1>7 DEF Calls
  <2>2. \A d \in units[c.unit] : [unit |-> d.unit, parent |-> merged] \in Calls' BY <2>1 DEF calls
  <2>3. \A x \in Calls' : \/ x \in Calls
                          \/ \E d \in units[c.unit] : x = [unit |-> d.unit, parent |-> merged]
    BY <1>4, <2>1 DEF calls
  <2>4. c \in Calls /\ \A x \in Calls : x = c \/ x \in Calls' BY <1>4, <2>1
  <2>5. lto' = [v \in DOMAIN lto \cup {c.unit} |-> IF v = c.unit THEN merged ELSE lto[v]] BY <1>7
  <2>6. Propagated(c, merged) BY <1>0, <2>1, <2>2, <2>3, <2>4, <2>5 DEF Propagated
  <2> QED BY <1>1, <2>6
<1> QED BY <1>2, <1>6, <1>7

LEMMA SameOwnLto ==
    ASSUME profile' = profile, NEW u, NEW x
    PROVE  OwnLto(u, x)' = OwnLto(u, x) /\ Takes(u, ProfileLto(u), x)' = Takes(u, ProfileLto(u), x)
BY DEF OwnLto, ProfileLto, Profile

LEMMA LtoToldStep ==
    ASSUME NothingEarly, UnitsWhole, LtoTold, [Next]_allVars
    PROVE  LtoTold'
<1>1. CASE StartLto
  <2>1. /\ phase = "planning" /\ phase' = "lto" /\ lto' = lto
        /\ UNCHANGED <<units, roots, aux>> /\ IsQueue(stack')
        /\ Calls' = {[unit |-> r, parent |-> RootLto(r)] : r \in roots \cup aux}
    BY <1>1, StartLtoForm
  <2>2. lto' = NoEntries BY <2>1 DEF LtoTold, LtoPhases
  <2>3. roots \cup aux \subseteq DOMAIN units BY <2>1 DEF UnitsWhole, UnitPhases, Whole
  <2>4. \A r \in roots \cup aux : \E c \in Calls' : c.unit = r
    <3>1. \A r \in roots \cup aux : [unit |-> r, parent |-> RootLto(r)] \in Calls' BY <2>1
    <3> QED BY <3>1
  <2>5. \A c \in Calls' : c.unit \in DOMAIN units /\ c.parent \in Levels
    BY <2>1, <2>3, RootTakes
  <2> QED BY <2>1, <2>2, <2>4, <2>5 DEF LtoTold, LtoPhases, NoEntries
<1>2. CASE PropagateLto
  <2>0. phase = "lto" BY <1>2 DEF PropagateLto
  <2>1. /\ IsQueue(stack)
        /\ \A r \in roots \cup aux : r \in DOMAIN lto \/ \E c \in Calls : c.unit = r
        /\ \A c \in Calls : c.unit \in DOMAIN units /\ c.parent \in Levels
        /\ \A u \in DOMAIN lto : /\ u \in DOMAIN units /\ lto[u] \in Levels
                                 /\ \A d \in units[u] : Heard(u, d.unit)
    BY <2>0 DEF LtoTold, LtoPhases
  <2> PICK c, merged : Propagated(c, merged) BY <1>2, <2>1, PropagateForm
  <2>2. /\ phase' = "lto" /\ UNCHANGED <<units, roots, aux, profile>>
        /\ Propagated(c, merged)
    BY <1>2, <2>1, PropagateForm
  <2> USE DEF Propagated
  <2> DEFINE w == c.unit
             own == OwnLto(w, c.parent)
  <2>3. w \in DOMAIN units /\ own \in Levels BY <2>1, <2>2, OwnTakes
  <2>4. merged \in Levels BY <2>1, <2>2, <2>3, MergeJoins
  <2>5. ASSUME NEW d \in units[w] PROVE d.unit \in DOMAIN units
    BY <2>0, <2>3 DEF UnitsWhole, UnitPhases, Whole, Closing
  <2>6. /\ DOMAIN lto \subseteq DOMAIN lto' /\ w \in DOMAIN lto'
        /\ \A v \in DOMAIN lto' : v = w \/ (v \in DOMAIN lto /\ lto'[v] = lto[v])
        /\ lto'[w] = merged
    BY <2>2
  (* Joining what w was told leaves nothing of it to be told.              *)
  <2>7. MergeLto(own, lto'[w]) = lto'[w] BY <2>1, <2>2, <2>3, <2>6, MergeJoins
  (* What w has been told by others stands.                                *)
  <2>8. ASSUME NEW a \in Levels, w \in DOMAIN lto, MergeLto(a, lto[w]) = lto[w]
        PROVE  MergeLto(a, lto'[w]) = lto'[w]
    <3>1. lto'[w] = MergeLto(own, lto[w]) BY <2>2, <2>6, <2>8
    <3>2. lto[w] \in Levels BY <2>1, <2>8
    <3> DEFINE z == lto[w]
    <3> HIDE DEF own, z
    <3>3. MergeLto(a, z) = z => MergeLto(a, MergeLto(own, z)) = MergeLto(own, z)
      <4>1. own \in Levels /\ z \in Levels BY <2>3, <3>2 DEF z
      <4> QED BY <4>1 DEF MergeLto, Levels
    <3> QED BY <2>8, <3>1, <3>3 DEF z
  <2>9. ASSUME NEW u \in DOMAIN lto, NEW d \in units[u], lto'[u] = lto[u]
        PROVE  Heard(u, d.unit)'
    <3> DEFINE v == d.unit
    <3>1. Heard(u, v) BY <2>1, <2>9
    <3>2. OwnLto(v, lto[u])' = OwnLto(v, lto'[u]) /\ OwnLto(v, lto[u]) \in Levels
      BY <2>1, <2>2, <2>9, OwnTakes, SameOwnLto
    <3>3. CASE [unit |-> v, parent |-> lto[u]] \in Calls'
      BY <2>9, <3>3 DEF Heard
    <3>4. CASE [unit |-> v, parent |-> lto[u]] = c
      <4>1. v = w /\ own = OwnLto(v, lto'[u]) BY <2>9, <3>4
      <4> HIDE DEF own
      <4> QED BY <2>6, <2>7, <3>2, <4>1 DEF Heard
    <3>5. CASE v \in DOMAIN lto /\ MergeLto(OwnLto(v, lto[u]), lto[v]) = lto[v]
      <4>1. v \in DOMAIN lto' /\ MergeLto(OwnLto(v, lto[u]), lto'[v]) = lto'[v]
        BY <2>6, <2>8, <3>2, <3>5
      <4> QED BY <2>9, <3>2, <4>1 DEF Heard
    <3> QED BY <2>2, <3>1, <3>3, <3>4, <3>5 DEF Heard
  <2>10. ASSUME NEW u \in DOMAIN lto', NEW d \in units[u] PROVE Heard(u, d.unit)'
    <3>1. CASE u \in DOMAIN lto /\ lto'[u] = lto[u] BY <2>9, <3>1
    <3>2. CASE ~(u \in DOMAIN lto /\ lto'[u] = lto[u])
      <4>1. u = w /\ [unit |-> d.unit, parent |-> lto'[u]] \in Calls' BY <2>2, <2>6, <3>2
      <4> QED BY <4>1 DEF Heard
    <3> QED BY <3>1, <3>2
  <2>11. \A x \in Calls' : x.unit \in DOMAIN units /\ x.parent \in Levels
    BY <2>1, <2>2, <2>4, <2>5
  <2>12. \A r \in roots \cup aux : r \in DOMAIN lto' \/ \E x \in Calls' : x.unit = r
    BY <2>1, <2>2, <2>6
  <2>13. \A u \in DOMAIN lto' : u \in DOMAIN units /\ lto'[u] \in Levels
    BY <2>1, <2>3, <2>4, <2>6
  <2> QED BY <2>2, <2>10, <2>11, <2>12, <2>13 DEF LtoTold, LtoPhases
<1>3. CASE ~StartLto /\ ~PropagateLto
  <2>1. CASE phase' \notin LtoPhases
    BY <1>3, <2>1, LtoOthers DEF LtoTold, LtoPhases
  <2>2. CASE phase' \in LtoPhases
    <3>1. /\ phase \in LtoPhases /\ UNCHANGED <<units, roots, aux, profile, lto, stack>>
          /\ phase' = "planned" => stack = <<>>
      BY <1>3, <2>2, LtoOthers
    <3>2. \A u, v : Heard(u, v)' <=> Heard(u, v)
      <4>1. \A u, v : OwnLto(v, lto[u])' = OwnLto(v, lto[u]) BY <3>1 DEF OwnLto, ProfileLto, Profile
      <4> QED BY <3>1, <4>1 DEF Heard, Calls
    <3>3. Calls' = Calls BY <3>1 DEF Calls
    <3> QED BY <2>2, <3>1, <3>2, <3>3 DEF LtoTold
  <2> QED BY <2>1, <2>2
<1> QED BY <1>1, <1>2, <1>3

LEMMA LtoSuitsStep ==
    ASSUME NothingEarly, UnitsWhole, LtoTold, LtoSuits, [Next]_allVars
    PROVE  LtoSuits'
<1>1. CASE StartLto
  <2>1. /\ phase = "planning" /\ phase' = "lto" /\ lto' = lto
        /\ UNCHANGED <<units, profile>>
        /\ Calls' = {[unit |-> r, parent |-> RootLto(r)] : r \in roots \cup aux}
    BY <1>1, StartLtoForm
  <2>2. DOMAIN lto' = {} BY <2>1 DEF LtoTold, LtoPhases, NoEntries
  <2>3. roots \cup aux \subseteq DOMAIN units BY <2>1 DEF UnitsWhole, UnitPhases, Whole
  <2>4. \A u : ProfileLto(u)' = ProfileLto(u) BY <2>1 DEF ProfileLto, Profile
  <2>5. ASSUME NEW l, \A u \in DOMAIN units : ProfileLto(u) = l, NEW c \in Calls'
        PROVE  c.parent \in LtoValues(l)
    BY <2>1, <2>3, <2>5, RootTakes
  <2> QED BY <2>1, <2>2, <2>4, <2>5 DEF LtoSuits
<1>2. CASE PropagateLto
  <2>1. phase = "lto" BY <1>2 DEF PropagateLto
  <2>2. /\ IsQueue(stack)
        /\ \A c \in Calls : c.unit \in DOMAIN units /\ c.parent \in Levels
    BY <2>1 DEF LtoTold, LtoPhases
  <2> PICK c, merged : Propagated(c, merged) BY <1>2, <2>2, PropagateForm
  <2>3. UNCHANGED <<units, profile>> BY <1>2, <2>2, PropagateForm
  <2>4. \A u : ProfileLto(u)' = ProfileLto(u) BY <2>3 DEF ProfileLto, Profile
  <2>5. c \in Calls /\ c.unit \in DOMAIN units BY <2>2 DEF Propagated
  <2>6. ASSUME NEW l, \A u \in DOMAIN units : ProfileLto(u) = l
        PROVE  /\ \A x \in Calls' : x.parent \in LtoValues(l)
               /\ \A u \in DOMAIN lto' : Takes(u, l, lto'[u])
    <3>1. /\ \A x \in Calls : x.parent \in LtoValues(l)
          /\ \A u \in DOMAIN lto : Takes(u, l, lto[u])
      BY <2>1, <2>6 DEF LtoSuits, LtoPhases
    <3>2. ProfileLto(c.unit) = l BY <2>5, <2>6
    <3>3. Takes(c.unit, l, OwnLto(c.unit, c.parent)) BY <2>2, <2>5, <3>1, <3>2, OwnTakes
    <3>4. c.unit \in DOMAIN lto => Takes(c.unit, l, lto[c.unit]) BY <3>1
    <3>5. Takes(c.unit, l, merged) BY <3>3, <3>4, MergeTakes DEF Propagated
    <3>6. merged \in LtoValues(l) BY <3>5 DEF Takes
    <3>7. \A x \in Calls' : x.parent \in LtoValues(l) BY <3>1, <3>6 DEF Propagated
    <3>8. \A u \in DOMAIN lto' : \/ u = c.unit /\ lto'[u] = merged
                                 \/ u \in DOMAIN lto /\ lto'[u] = lto[u]
      BY DEF Propagated
    <3> QED BY <3>1, <3>5, <3>7, <3>8
  <2> QED BY <2>3, <2>4, <2>6 DEF LtoSuits
<1>3. CASE ~StartLto /\ ~PropagateLto
  <2>1. SUFFICES ASSUME phase' \in LtoPhases PROVE LtoSuits' BY DEF LtoSuits
  <2>2. phase \in LtoPhases /\ UNCHANGED <<units, profile, lto, stack>>
    BY <1>3, <2>1, LtoOthers
  <2>3. \A u : ProfileLto(u)' = ProfileLto(u) BY <2>2 DEF ProfileLto, Profile
  <2>4. Calls' = Calls BY <2>2 DEF Calls
  <2> QED BY <2>2, <2>3, <2>4 DEF LtoSuits
<1> QED BY <1>1, <1>2, <1>3

(* When no call is left every unit has been visited, and told of by all    *)
(* that need it.                                                           *)
LEMMA AllHeard ==
    ASSUME UnitsWhole, LtoTold, phase \in LtoPhases, stack = <<>>
    PROVE  /\ DOMAIN units = DOMAIN lto
           /\ \A u \in DOMAIN units : \A d \in units[u] :
                MergeLto(OwnLto(d.unit, lto[u]), lto[d.unit]) = lto[d.unit]
<1>1. Calls = {} BY DEF Calls, ToSet
<1>2. ASSUME NEW u \in DOMAIN lto, NEW d \in units[u]
      PROVE  /\ d.unit \in DOMAIN lto
             /\ MergeLto(OwnLto(d.unit, lto[u]), lto[d.unit]) = lto[d.unit]
  BY <1>1 DEF LtoTold, Heard
<1>3. roots \cup aux \subseteq DOMAIN lto BY <1>1 DEF LtoTold
<1>4. Closing(units, DOMAIN lto) BY <1>2 DEF Closing
<1>5. DOMAIN units \subseteq DOMAIN lto
  BY <1>3, <1>4 DEF UnitsWhole, Leads, UnitPhases, LtoPhases
<1>6. DOMAIN lto \subseteq DOMAIN units BY DEF LtoTold
<1> QED BY <1>2, <1>5, <1>6

-----------------------------------------------------------------------------
(* What a library linked into a unit is to carry: transitively so, from    *)
(* the unit to the library of a library.                                   *)
Fits(a, b) == /\ b # "Run"
              /\ a \in {"Run", "OnlyBitcode"} => b \in {"OnlyBitcode", "ObjectAndBitcode"}
              /\ a = "OnlyObject" => b # "OnlyBitcode"
              /\ a \in {"ObjectAndBitcode", "Off"} => b = a
LibsFit == KeepLto => \A u \in DOMAIN libs : \A v \in libs[u] :
               v \in DOMAIN libs /\ (Static(u) => Fits(lto[u], lto[v]))

LEMMA HeardFits ==
    ASSUME NEW l, NEW u, NEW w, LibCrate(w), CrateTypes(w) \cap {"lib", "rlib"} # {},
           NEW x, NEW y, Takes(u, l, x), Takes(w, l, y), MergeLto(OwnLto(w, x), y) = y
    PROVE  Fits(x, y)
<1> DEFINE types == CrateTypes(w)
<1>1. ~HostOnly(w) BY DEF HostOnly, LibCrate, MacroCrate
<1>2. ~(types \subseteq {"bin", "staticlib", "cdylib"}) OBVIOUS
<1>3. OwnLto(w, x) = IF x = "Run" /\ ~NeedsObject(types) THEN "OnlyBitcode"
                     ELSE IF x \in {"Run", "OnlyBitcode"} /\ NeedsObject(types)
                          THEN WhenNeedsObject(types) ELSE x
  BY <1>1, <1>2 DEF OwnLto
<1>4. WhenNeedsObject(types) = "ObjectAndBitcode"
  <2>1. types # {"dylib"} OBVIOUS
  <2> HIDE DEF types
  <2> QED BY <2>1 DEF WhenNeedsObject
<1>5. y # "Run" BY <1>2 DEF Takes
<1>6. x \in LtoValues(l) /\ y \in LtoValues(l) BY DEF Takes
<1> DEFINE needs == NeedsObject(types)
<1> HIDE DEF types, needs
<1>7. OwnLto(w, x) = IF x = "Run" /\ ~needs THEN "OnlyBitcode"
                     ELSE IF x \in {"Run", "OnlyBitcode"} /\ needs THEN "ObjectAndBitcode" ELSE x
  BY <1>3, <1>4 DEF needs
<1>8. CASE x \in {"Run", "OnlyBitcode"}
  <2>1. OwnLto(w, x) \in {"OnlyBitcode", "ObjectAndBitcode"} BY <1>7, <1>8
  <2>2. y \in Levels \ {"Off", "Run"} BY <1>5, <1>6, <1>8 DEF LtoValues, Levels
  <2> QED BY <1>8, <2>1, <2>2 DEF Fits, MergeLto, Levels
<1>9. CASE x \notin {"Run", "OnlyBitcode"}
  <2>1. MergeLto(x, y) = y BY <1>7, <1>9
  <2>2. x \in {"Off", "OnlyObject", "ObjectAndBitcode"} /\ y \in Levels BY <1>6, <1>9 DEF LtoValues, Levels
  <2>3. x = "ObjectAndBitcode" => y # "Off" BY <1>6 DEF LtoValues, Levels
  <2> QED BY <1>5, <2>1, <2>2, <2>3 DEF Fits, MergeLto, Levels
<1> QED BY <1>8, <1>9

LEMMA FitsOn ==
    ASSUME NEW a, NEW b \in Levels, NEW c, Fits(a, b), Fits(b, c)
    PROVE  Fits(a, c)
BY DEF Fits, Levels

LEMMA LibsFitStep ==
    ASSUME GraphInv, PlannedBelow, UnitsWhole, SameLto, LtoTold, LtoSuits, LibsFit, [Next]_allVars
    PROVE  LibsFit'
<1>1. world' = world
  BY BuildUnitsStep, InternStep, DropDocsStep, ShareOneStep, FinishUnitsStep, OtherStep DEF GraphInv
<1>2. KeepLto' <=> KeepLto BY <1>1 DEF KeepLto, PackagesKeep, OverridesKeep
<1>3. SUFFICES ASSUME KeepLto, NEW x \in DOMAIN libs', NEW v \in libs'[x]
               PROVE  v \in DOMAIN libs' /\ (Static(x)' => Fits(lto'[x], lto'[v]))
  BY <1>2 DEF LibsFit
<1>4. \A w \in DOMAIN libs : \A y \in libs[w] :
         y \in DOMAIN libs /\ (Static(w) => Fits(lto[w], lto[y]))
  BY <1>3 DEF LibsFit
<1>5. CASE PlanUnit
  <2>1. PICK u \in DOMAIN units \ DOMAIN hash :
          /\ {d.unit : d \in units[u]} \subseteq DOMAIN hash
          /\ DOMAIN libs' = DOMAIN hash \cup {u}
          /\ \A w \in DOMAIN hash \cup {u} : libs'[w] = IF w = u THEN LibClosure(u) ELSE libs[w]
          /\ lto' = lto /\ phase = "lto" /\ stack = <<>>
    BY <1>5, PlanUnitStep
  <2>2. DOMAIN libs = DOMAIN hash BY DEF PlannedBelow
  <2>3. CASE x # u
    <3>1. x \in DOMAIN libs /\ libs'[x] = libs[x] BY <2>1, <2>2, <2>3
    <3>2. Static(x)' <=> Static(x) BY <3>1 DEF Static
    <3> QED BY <1>4, <2>1, <2>2, <3>1, <3>2
  <2>4. CASE x = u
    <3>1. libs'[u] = LibClosure(u) BY <2>1, <2>4
    <3>2. /\ DOMAIN units = DOMAIN lto
          /\ \A d \in units[u] : MergeLto(OwnLto(d.unit, lto[u]), lto[d.unit]) = lto[d.unit]
      BY <2>1, AllHeard DEF LtoPhases
    <3>3. /\ DOMAIN units \subseteq DOMAIN profile
          /\ \A w, y \in DOMAIN profile : profile[w].lto = profile[y].lto
      BY <1>3, <2>1 DEF SameLto, UnitPhases
    <3> DEFINE l == ProfileLto(u)
    <3>4. \A w \in DOMAIN units : ProfileLto(w) = l BY <2>1, <3>3 DEF ProfileLto, Profile
    <3>5. \A w \in DOMAIN units : Takes(w, l, lto[w])
      <4> HIDE DEF l
      <4> QED BY <2>1, <3>2, <3>4 DEF LtoSuits, LtoPhases
    <3>6. ASSUME NEW w \in Behind(u)
          PROVE  /\ w \in DOMAIN libs
                 /\ CrateTypes(w) \cap {"lib", "rlib"} # {} => Fits(lto[u], lto[w])
      <4>1. PICK d \in units[u] : d.unit = w /\ LibCrate(w) BY <3>6 DEF Behind, Externs
      <4>2. w \in DOMAIN libs /\ w \in DOMAIN units BY <2>1, <2>2, <4>1 DEF PlannedBelow
      <4>3. Takes(u, l, lto[u]) /\ Takes(w, l, lto[w]) BY <2>1, <3>5, <4>2
      <4>4. MergeLto(OwnLto(w, lto[u]), lto[w]) = lto[w] BY <3>2, <4>1
      <4> HIDE DEF l
      <4> QED BY <4>1, <4>2, <4>3, <4>4, HeardFits
    <3>7. CASE v \in Behind(u)
      <4>1. Static(x)' => CrateTypes(v) \cap {"lib", "rlib"} # {}
        BY <1>3 DEF Static
      <4> QED BY <2>1, <2>2, <2>4, <3>6, <3>7, <4>1
    <3>8. ASSUME NEW w \in Behind(u), v \in libs[w]
          PROVE  v \in DOMAIN libs' /\ (Static(x)' => Fits(lto'[x], lto'[v]))
      <4>1. w \in DOMAIN libs /\ v \in DOMAIN libs BY <1>4, <3>6, <3>8
      <4>2. \A y \in {w} \cup libs[w] : y \in libs'[x] BY <2>4, <3>1, <3>8 DEF LibClosure
      <4>3. Static(x)' => Static(w) /\ CrateTypes(w) \cap {"lib", "rlib"} # {}
        BY <4>2 DEF Static
      <4>4. lto[w] \in Levels
        <5>1. w \in DOMAIN lto BY <2>2, <3>2, <4>1 DEF PlannedBelow
        <5> QED BY <2>1, <5>1 DEF LtoTold, LtoPhases
      <4>5. Static(x)' => Fits(lto[u], lto[w]) /\ Fits(lto[w], lto[v])
        BY <1>4, <3>6, <3>8, <4>1, <4>3
      <4>6. Static(x)' => Fits(lto[u], lto[v]) BY <4>4, <4>5, FitsOn
      <4> QED BY <2>1, <2>2, <2>4, <4>1, <4>6
    <3> QED BY <2>4, <3>1, <3>7, <3>8 DEF LibClosure
  <2> QED BY <2>3, <2>4
<1>6. CASE ~PlanUnit
  <2>1. CASE UNCHANGED planned
    <3>1. UNCHANGED <<libs, lto>> BY <2>1 DEF planned
    <3> QED BY <1>3, <1>4, <3>1 DEF Static
  <2>2. CASE DOMAIN libs' = {} BY <1>3, <2>2
  <2> QED BY <1>6, <2>1, <2>2, PlanKept DEF GraphInv
<1> QED BY <1>5, <1>6

LtoInv == UnitsWhole /\ SameLto /\ LtoTold /\ LtoSuits /\ LibsFit

(* Every library carries what its consumers link, bitcode or object code   *)
(* (plan.rs propagate_lto), if tables for packages and the host leave LTO  *)
(* to the profile.                                                         *)
THEOREM LtoServing == Spec => [](KeepLto => LtoServes)
<1>1. InitPlanning => LtoInv
  <2>1. SUFFICES ASSUME InitPlanning PROVE LtoInv OBVIOUS
  <2>2. /\ units = NoEntries /\ profile = NoEntries /\ lto = NoEntries /\ libs = NoEntries
        /\ phase = "read"
    BY <2>1 DEF InitPlanning, Init, InitUnits, InitPlan
  <2>3. DOMAIN units = {} BY <2>2 DEF NoEntries
  <2>4. UnitsWhole BY <2>2, <2>3, FS_EmptySet DEF UnitsWhole, UnitPhases
  <2> QED BY <2>2, <2>4 DEF LtoInv, SameLto, LtoTold, LtoSuits, LibsFit, LtoPhases, UnitPhases, NoEntries
<1>2. PlanInv /\ LtoInv /\ [Next]_allVars => LtoInv'
  BY UnitsWholeStep, SameLtoStep, LtoToldStep, LtoSuitsStep, LibsFitStep DEF LtoInv, PlanInv, GraphInv
<1>3. PlanInv /\ LtoInv => (KeepLto => LtoServes)
  <2>1. SUFFICES ASSUME PlanInv, LtoInv, KeepLto, phase = "planned",
                        NEW u \in DOMAIN units, Linked(u), CrateTypes(u) \cap {"lib", "rlib"} = {}, Static(u),
                        NEW v \in libs[u]
                 PROVE  IF lto[u] = "Run" THEN lto[v] \in {"OnlyBitcode", "ObjectAndBitcode"}
                        ELSE lto[v] \in {"OnlyObject", "ObjectAndBitcode", "Off"}
    BY DEF LtoServes, Planned, U
  <2>2. stack = <<>> /\ DOMAIN libs = DOMAIN units
    BY <2>1 DEF LtoInv, LtoTold, PlanInv, PlannedBelow
  <2>3. DOMAIN units = DOMAIN lto BY <2>1, <2>2, AllHeard DEF LtoInv, LtoPhases
  <2>4. v \in DOMAIN lto /\ Fits(lto[u], lto[v]) BY <2>1, <2>2, <2>3 DEF LtoInv, LibsFit
  <2>5. lto[u] \in Levels /\ lto[v] \in Levels
    BY <2>1, <2>3, <2>4 DEF LtoInv, LtoTold, LtoPhases
  <2>6. lto[u] # "OnlyBitcode"
    <3> DEFINE l == ProfileLto(u)
    <3>1. DOMAIN units \subseteq DOMAIN profile /\ \A w, y \in DOMAIN profile : profile[w].lto = profile[y].lto
      BY <2>1 DEF LtoInv, SameLto, UnitPhases
    <3>2. \A w \in DOMAIN units : ProfileLto(w) = l BY <3>1 DEF ProfileLto, Profile
    <3> HIDE DEF l
    <3>3. Takes(u, l, lto[u]) BY <2>1, <2>3, <3>2 DEF LtoInv, LtoSuits, LtoPhases
    <3>4. HostOnly(u) \/ NeedsObject(CrateTypes(u))
      BY <2>1 DEF Linked, NeedsLink, HostOnly, NeedsObject
    <3> QED BY <3>3, <3>4 DEF Takes
  <2> QED BY <2>4, <2>5, <2>6 DEF Fits, Levels
<1> QED BY <1>1, <1>2, <1>3, PlanInvariant, PTL DEF Spec
=============================================================================
