-------------------------- MODULE TargetDirProofs --------------------------
(***************************************************************************)
(* Theorems about TargetDir: the record of a build directory never lies,   *)
(* what keep-variants promises is not compiled again, and an incremental   *)
(* cache comes back whole, whatever the crates, the variants and the       *)
(* limits, over any number of builds, edits, failures and kills.           *)
(***************************************************************************)
EXTENDS TargetDir, SequenceTheorems, FiniteSetTheorems, TLAPS

\* No build that began before a `rb clean' is met by one that began after it:
\* the lock excludes them from each other.
Exclusive == \A r \in Rules : ~r.crowd

-----------------------------------------------------------------------------
(* What a state holds. *)

Keys == Variants \X Versions
Places == [Variants -> Keys \cup {None}]
Record(m) == /\ m = [slot |-> m.slot, prev |-> m.prev, used |-> m.used]
             /\ m.slot \in Places /\ m.prev \in Places /\ m.used \in [Variants -> Nat]

Early  == {"check"}
Mid    == {"restore", "build", "unpacked", "rustc"}
Late   == {"sweep", "files", "queue"}
Build(u) ==
  /\ u = [pc |-> u.pc, lock |-> u.lock, graph |-> u.graph, want |-> u.want, mem |-> u.mem,
          todo |-> u.todo, at |-> u.at, moved |-> u.moved, swept |-> u.swept, owed |-> u.owed]
  /\ u.graph \in SUBSET Variants /\ u.want \in [u.graph -> Versions]
  /\ Record(u.mem) /\ u.at \in Nat
  /\ u.pc \in Early \cup Mid \cup Late

DirTypes ==
  /\ rules \in Rules /\ src \in [Variants -> Versions]
  /\ Record(units) /\ out = [v \in Variants |-> out[v]]
  /\ {inc, pend, arch} \subseteq [Variants -> Caches \cup {None}]
  /\ promise \in [Variants -> Seq(Keys)]
  /\ clock \in Nat /\ last \in [Variants -> Nat]
  /\ \/ pk.pc \in {"idle", "pack"}
     \/ pk \in [pc : {"probed", "load", "drop"}, hot : {pk.hot}, todo : {pk.todo}, beside : BOOLEAN]
     \/ pk \in [pc : {"read", "remove"}, v : Variants, got : Caches]
Types ==
  /\ DirTypes
  /\ bld = [b \in Builders |-> bld[b]]
  /\ \A b \in Builders : bld[b].pc # "idle" => Build(bld[b])

Alone == \A b, o \in Builders : bld[b].pc # "idle" /\ bld[o].pc # "idle" => b = o

\* What a record says of the outputs.
Honest(m) == \A v \in Variants : m.slot[v] # None => out[v] \in {None, m.slot[v]}

\* A record that names what is promised, and one that does so only of what
\* still owns its slot.
Recalls(m, v, p) ==
  \/ p = <<>>
  \/ m.slot[v] = p[1] /\ (Len(p) = 2 => m.prev[v] = p[2])
  \/ m.slot[v] = None /\ Len(p) = 1 /\ m.prev[v] = p[1]
Names(m, v) == Recalls(m, v, promise[v])
NamesOwned(m, v) ==
  Len(promise[v]) = 2 /\ m.slot[v] = promise[v][1] => m.prev[v] = promise[v][2]

\* A build that has looked will name what is promised when it ends.
WillName(u, v) ==
  promise[v] # <<>> =>
    IF Key(v, u.want[v]) = promise[v][1] THEN Len(promise[v]) = 2 => u.mem.prev[v] = promise[v][2]
    ELSE KeepVariants > 0 => u.mem.prev[v] = promise[v][1]

EarlySound(u) ==
  u.pc \in Early => \A v \in Variants : /\ Names(units, v) /\ Names(u.mem, v)
                                        /\ u.mem.slot[v] = None => units.slot[v] = None
MidSound(u) ==
  u.pc \in Mid =>
    /\ u.todo \subseteq u.graph /\ u.owed \subseteq u.graph
    /\ \A v \in u.todo : u.mem.slot[v] = None /\ units.slot[v] = None
    /\ \A v \in u.graph \ u.todo : u.mem.slot[v] = Key(v, u.want[v])
    /\ \A v \in u.graph : WillName(u, v)
    /\ \A v \in Variants \ u.graph : Names(units, v) /\ Names(u.mem, v)
OwedSound(u) ==
  /\ u.pc = "restore" => \A v \in u.owed : Key(v, u.want[v]) \in stored
  /\ u.pc \in {"build", "unpacked", "rustc"} => u.todo \cap u.owed = {}
LateSound(u) ==
  u.pc \in Late => \A v \in Variants : Names(units, v) /\ Names(u.mem, v)

\* A cache as the last session left it.
Whole(c, v) == c # None /\ c.parts = Parts /\ c.session = last[v]

MovedSound(u) ==
  u.pc \in {"unpacked", "rustc"} =>
    /\ u.moved \subseteq u.todo
    /\ \A v \in u.moved : pend[v] = None /\ (v \notin spoilt => Whole(inc[v], v))
CacheSafe(v) ==
  v \notin spoilt =>
    /\ IF inc[v] # None THEN Whole(inc[v], v)
       ELSE IF pend[v] # None /\ ~(Packing(v) /\ pk.pc = "remove") THEN Whole(pend[v], v)
       ELSE Whole(arch[v], v)
    /\ Packing(v) => inc[v] = None /\ pend[v] = pk.got

CachesSound == \A v \in Variants : CacheSafe(v) /\ (inc[v] = None \/ pend[v] = None)

BuildSound(u) ==
  u.pc # "idle" => /\ Honest(u.mem) /\ EarlySound(u) /\ MidSound(u) /\ OwedSound(u) /\ LateSound(u)
                   /\ MovedSound(u)

PromiseSound ==
  \A v \in Variants :
    /\ Len(promise[v]) <= 2
    /\ \A i \in 1 .. Len(promise[v]) : promise[v][i] \in stored \cap listed
    /\ NamesOwned(units, v)

\* A collection that no build came across knows all that is promised.
CollectSound ==
  Collecting =>
    \/ pk.beside = TRUE
    \/ /\ \A b \in Builders : bld[b].pc = "idle"
       /\ pk.pc # "probed" => \A v \in Variants : \A i \in 1 .. Len(promise[v]) : promise[v][i] \in pk.hot
       /\ pk.pc = "drop" => pk.todo \cap pk.hot = {}

DirInv ==
  /\ Types /\ Alone
  /\ Honest(units)
  /\ PromiseSound
  /\ (\A b \in Builders : bld[b].pc = "idle") => \A v \in Variants : Names(units, v)
  /\ \A b \in Builders : BuildSound(bld[b])
  /\ CachesSound
  /\ CollectSound

-----------------------------------------------------------------------------
LEMMA KeysAreKeys ==
  /\ None \notin Keys /\ None \notin Caches
  /\ \A v \in Variants, n \in Versions : Key(v, n) \in Keys
BY TargetDirAssumption DEF Keys, Key

\* A sequence of at most two.
LEMMA FirstTwo ==
  ASSUME NEW S, NEW p \in Seq(S), Len(p) <= 2
  PROVE  /\ \A i \in 1 .. Len(p) : i = 1 \/ (i = 2 /\ Len(p) = 2)
         /\ Len(p) = 2 => p[1] \in S /\ p # <<>>
<1>1. PICK n \in Nat : n = Len(p)
  OBVIOUS
<1>2. n <= 2
  BY <1>1
<1>3. \A i \in 1 .. n : i = 1 \/ (i = 2 /\ n = 2)
  BY <1>2
<1>4. n = 2 => 1 \in 1 .. n
  OBVIOUS
<1>5. n = 2 => p # <<>>
  <2>1. Len(<<>>) = 0
    OBVIOUS
  <2>2. p = <<>> => Len(p) = 0
    BY <2>1, Zenon
  <2> QED
    BY <1>1, <2>2
<1>6. \A i \in 1 .. Len(p) : p[i] \in S
  OBVIOUS
<1> QED
  BY <1>1, <1>3, <1>4, <1>5, <1>6

LEMMA InitDir == Init => DirInv
<1> SUFFICES ASSUME Init PROVE DirInv
  OBVIOUS
<1>1. (CHOOSE n \in Versions : TRUE) \in Versions
  BY TargetDirAssumption
<1>2. Record(units) /\ \A v \in Variants : units.slot[v] = None
  BY DEF Init, Fresh0, NoCache, Record, Places
<1>3. DirTypes
  BY <1>1, <1>2, TargetDirAssumption DEF Init, DirTypes, NoCache, NoPack
<1>4. \A b \in Builders : bld[b].pc = "idle"
  BY DEF Init, NoBuild
<1>5. Types /\ Alone
  BY <1>3, <1>4 DEF Types, Alone, Init
<1>6. \A v \in Variants : Names(units, v) /\ promise[v] = <<>>
  BY DEF Init, Names, Recalls
<1>7. PromiseSound
  BY <1>6 DEF PromiseSound, NamesOwned
<1>8. CachesSound
  BY DEF Init, CachesSound, CacheSafe, NoCache
<1> QED
  BY <1>2, <1>4, <1>5, <1>6, <1>7, <1>8 DEF DirInv, BuildSound, Honest, Init, NoPack, CollectSound, Collecting

-----------------------------------------------------------------------------
(* How a step keeps the parts it does not touch. *)

LEMMA CachesKept ==
  ASSUME CachesSound, UNCHANGED <<inc, pend, arch, pk, last, spoilt>>
  PROVE  CachesSound'
BY DEF CachesSound, CacheSafe, Packing, Whole

LEMMA PromisesKept ==
  ASSUME PromiseSound, UNCHANGED <<promise, stored, listed, units>>
  PROVE  PromiseSound'
BY DEF PromiseSound, NamesOwned

\* The step of one build, while there is no other.
LEMMA BuilderMoves ==
  ASSUME DirInv, NEW b \in Builders, \A o \in Builders \ {b} : bld[o].pc = "idle",
         NEW u, bld' = [bld EXCEPT ![b] = u],
         DirTypes', Honest(units)', PromiseSound', CachesSound',
         (bld[b].pc # "idle" /\ pk' = pk) \/ CollectSound',
         u.pc = "idle" => (\A v \in Variants : Names(units, v))',
         u.pc # "idle" => Build(u), BuildSound(u)'
  PROVE  DirInv'
<1>1. bld'[b] = u /\ bld' = [o \in Builders |-> bld'[o]] /\ \A o \in Builders \ {b} : bld'[o].pc = "idle"
  BY DEF DirInv, Types
<1>2. Types' /\ Alone'
  BY <1>1 DEF Types, Alone
<1>3. \A o \in Builders : BuildSound(bld[o])'
  BY <1>1 DEF BuildSound
<1>4. (\A o \in Builders : bld'[o].pc = "idle") => (\A v \in Variants : Names(units, v))'
  BY <1>1
<1>5. CollectSound'
  BY DEF DirInv, CollectSound, Collecting
<1> QED
  BY <1>2, <1>3, <1>4, <1>5 DEF DirInv

\* A step beside the builds.
LEMMA BuildersRest ==
  ASSUME DirInv, DirTypes', UNCHANGED <<units, out, promise, stored, bld>>, PromiseSound', CachesSound',
         \A b \in Builders : MovedSound(bld[b])', CollectSound'
  PROVE  DirInv'
<1>1. Types' /\ Alone'
  BY DEF DirInv, Types, Alone
<1>2. \A b \in Builders : BuildSound(bld[b])'
  BY DEF DirInv, BuildSound, Honest, EarlySound, MidSound, OwedSound, LateSound, WillName, Names, Recalls
<1> QED
  BY <1>1, <1>2 DEF DirInv, Honest, Names, Recalls

LEMMA DirKept ==
  ASSUME DirInv, UNCHANGED vars
  PROVE  DirInv'
<1>1. UNCHANGED <<rules, src, units, out, inc, pend, arch, stored, listed, bld, pk, clock, promise, last, spoilt>>
  BY DEF vars, disk
<1>2. DirTypes' /\ PromiseSound' /\ CachesSound'
  BY <1>1, CachesKept, PromisesKept DEF DirInv, Types, DirTypes
<1>3. \A b \in Builders : MovedSound(bld[b])'
  BY <1>1 DEF DirInv, BuildSound, MovedSound, Whole
<1>4. CollectSound'
  BY <1>1 DEF DirInv, CollectSound, Collecting
<1> QED
  BY <1>1, <1>2, <1>3, <1>4, BuildersRest

-----------------------------------------------------------------------------
(* A build. *)

LEMMA AtWork ==
  ASSUME DirInv, NEW b \in Builders, bld[b].pc # "idle"
  PROVE  /\ \A o \in Builders \ {b} : bld[o].pc = "idle"
         /\ Build(bld[b]) /\ BuildSound(bld[b])
BY DEF DirInv, Types, Alone

LEMMA StartKeeps ==
  ASSUME Exclusive, DirInv, NEW b \in Builders, Start(b)
  PROVE  DirInv'
<1>1. /\ \A o \in Builders : bld[o].pc = "idle"
      /\ UNCHANGED <<rules, src, units, out, inc, pend, arch, stored, listed, promise, last, spoilt>>
      /\ clock' = clock + 1
      /\ pk' = IF Collecting THEN [pk EXCEPT !.beside = TRUE] ELSE pk
  BY DEF Start, Tick, disk, Exclusive, DirInv, Types, DirTypes
<1>2. PICK G \in Graphs :
        bld' = [bld EXCEPT ![b] =
          [pc |-> "check", lock |-> lock, graph |-> G, want |-> Restrict(src, G), mem |-> units,
           todo |-> {}, at |-> clock, moved |-> {}, swept |-> FALSE, owed |-> {}]]
  BY DEF Start
<1>3. PICK u : u = [pc |-> "check", lock |-> lock, graph |-> G, want |-> Restrict(src, G), mem |-> units,
                    todo |-> {}, at |-> clock, moved |-> {}, swept |-> FALSE, owed |-> {}]
  OBVIOUS
<1>4. G \subseteq Variants /\ Restrict(src, G) \in [G -> Versions]
  BY TargetDirAssumption DEF DirInv, Types, DirTypes, Restrict
<1>5. u.pc = "check" /\ u.mem = units /\ Build(u)
  BY <1>3, <1>4 DEF Build, DirInv, Types, DirTypes, Early
<1>6. \A v \in Variants : Names(units, v)
  BY <1>1 DEF DirInv
<1>7. BuildSound(u)'
  BY <1>1, <1>5, <1>6 DEF BuildSound, EarlySound, MidSound, OwedSound, LateSound, MovedSound,
                          Early, Mid, Late, DirInv, Honest, Names, Recalls
<1>8. /\ pk'.pc = pk.pc /\ (~Collecting => pk' = pk)
      /\ Collecting => /\ pk' \in [pc : {"probed", "load", "drop"}, hot : {pk'.hot}, todo : {pk'.todo}, beside : BOOLEAN]
                       /\ pk'.beside = TRUE
  BY <1>1 DEF DirInv, Types, DirTypes, Collecting
<1>9. CollectSound'
  BY <1>8 DEF CollectSound, Collecting
<1>10. CachesSound'
  BY <1>1, <1>8 DEF DirInv, CachesSound, CacheSafe, Packing, Collecting, Whole
<1>11. DirTypes' /\ PromiseSound' /\ Honest(units)'
  BY <1>1, <1>8, PromisesKept DEF DirInv, Types, DirTypes, Honest, Collecting
<1> QED
  BY <1>1, <1>2, <1>3, <1>5, <1>7, <1>9, <1>10, <1>11, BuilderMoves

\* What a build that looks at the record gives up, it has the version of that a
\* revert would ask for.
LEMMA ReleasedNames ==
  ASSUME DirInv, NEW b \in Builders, bld[b].pc = "check"
  PROVE  LET m == Released(b)
             r == bld[b].mem
         IN  /\ Record(m)
             /\ \A v \in Variants : m.slot[v] \in {None, r.slot[v]}
             /\ \A v \in Stales(b) : m.slot[v] = None
             /\ \A v \in bld[b].graph \ Stales(b) : m.slot[v] = Wants(b, v)
             /\ \A v \in Variants \ Stales(b) : m.slot[v] = r.slot[v] /\ m.prev[v] = r.prev[v]
             /\ \A v \in bld[b].graph :
                  promise[v] # <<>> =>
                    IF Wants(b, v) = promise[v][1] THEN Len(promise[v]) = 2 => m.prev[v] = promise[v][2]
                    ELSE KeepVariants > 0 => m.prev[v] = promise[v][1]
<1> DEFINE r == bld[b].mem
           m == Released(b)
<1>1. /\ Build(bld[b]) /\ \A v \in Variants : Names(r, v)
  BY AtWork DEF BuildSound, EarlySound, Early
<1>2. Record(r) /\ bld[b].graph \subseteq Variants /\ bld[b].want \in [bld[b].graph -> Versions]
  BY <1>1 DEF Build
<1>3. /\ m = [slot |-> m.slot, prev |-> m.prev, used |-> m.used]
      /\ m.slot = [v \in Variants |-> IF v \in Stales(b) THEN None ELSE r.slot[v]]
      /\ m.prev = [v \in Variants |-> IF v \in Stales(b) THEN Replaced(b, v) ELSE r.prev[v]]
      /\ m.used = [v \in Variants |-> IF v \in bld[b].graph THEN bld[b].at ELSE r.used[v]]
  BY DEF Released, Cleared
<1>4. \A v \in Variants : Replaced(b, v) \in {r.prev[v], r.slot[v]}
  BY DEF Replaced
<1>5. Record(m)
  BY <1>1, <1>2, <1>3, <1>4 DEF Record, Places, Build
<1>6. \A v \in bld[b].graph \ Stales(b) : r.slot[v] = Wants(b, v)
  BY DEF Stales, IsFresh
<1>7. ASSUME NEW v \in bld[b].graph, promise[v] # <<>>
      PROVE  IF Wants(b, v) = promise[v][1] THEN Len(promise[v]) = 2 => m.prev[v] = promise[v][2]
             ELSE KeepVariants > 0 => m.prev[v] = promise[v][1]
  <2>1. Names(r, v) /\ v \in Variants /\ KeepVariants \in Nat
    BY <1>1, <1>2, TargetDirAssumption
  <2>2. promise[v] \in Seq(Keys) /\ promise[v][1] # None /\ Len(promise[v]) \in Nat
    BY <1>7, <2>1, KeysAreKeys DEF DirInv, Types, DirTypes
  <2>3. CASE v \notin Stales(b)
    BY <1>3, <1>6, <1>7, <2>1, <2>2, <2>3 DEF Names, Recalls
  <2>4. CASE v \in Stales(b)
    BY <1>3, <1>7, <2>1, <2>2, <2>4 DEF Names, Recalls, Replaced
  <2> QED
    BY <2>3, <2>4
<1>8. /\ \A v \in Variants : m.slot[v] \in {None, r.slot[v]}
      /\ \A v \in Stales(b) : m.slot[v] = None
      /\ \A v \in bld[b].graph \ Stales(b) : m.slot[v] = Wants(b, v)
      /\ \A v \in Variants \ Stales(b) : m.slot[v] = r.slot[v] /\ m.prev[v] = r.prev[v]
  <2>1. Stales(b) \subseteq Variants
    BY <1>2 DEF Stales
  <2> HIDE DEF m
  <2> QED
    BY <1>2, <1>3, <1>6, <2>1
<1> QED
  BY <1>5, <1>7, <1>8

LEMMA CheckKeeps ==
  ASSUME DirInv, NEW b \in Builders, CheckUnits(b)
  PROVE  DirInv'
<1> DEFINE r == bld[b].mem
<1>1. /\ bld[b].pc = "check" /\ units' = Saved(b)
      /\ bld' = [bld EXCEPT ![b].pc = "restore", ![b].mem = Released(b), ![b].todo = Stales(b),
                   ![b].owed = {v \in bld[b].graph : Wants(b, v) \in Range(promise[v])}]
      /\ UNCHANGED <<rules, src, out, inc, pend, arch, stored, listed, pk, clock, promise, last, spoilt>>
  BY DEF CheckUnits
<1>2. /\ \A o \in Builders \ {b} : bld[o].pc = "idle"
      /\ Build(bld[b]) /\ BuildSound(bld[b])
  BY <1>1, AtWork
<1>3. PICK m : m = Released(b)
  OBVIOUS
<1>4. /\ Record(m)
      /\ \A v \in Variants : m.slot[v] \in {None, r.slot[v]}
      /\ \A v \in Stales(b) : m.slot[v] = None
      /\ \A v \in bld[b].graph \ Stales(b) : m.slot[v] = Wants(b, v)
      /\ \A v \in Variants \ Stales(b) : m.slot[v] = r.slot[v] /\ m.prev[v] = r.prev[v]
      /\ \A v \in bld[b].graph :
           promise[v] # <<>> =>
             IF Wants(b, v) = promise[v][1] THEN Len(promise[v]) = 2 => m.prev[v] = promise[v][2]
             ELSE KeepVariants > 0 => m.prev[v] = promise[v][1]
  BY <1>1, <1>3, ReleasedNames
<1> DEFINE owed == {v \in bld[b].graph : Wants(b, v) \in Range(promise[v])}
<1>5. PICK u : u = [bld[b] EXCEPT !.pc = "restore", !.mem = m, !.todo = Stales(b), !.owed = owed]
  OBVIOUS
<1>6. /\ Build(u) /\ u.pc = "restore" /\ u.mem = m /\ u.todo = Stales(b) /\ u.owed = owed
      /\ u.graph = bld[b].graph /\ u.want = bld[b].want
  BY <1>2, <1>4, <1>5 DEF Build, Mid
<1>7. bld' = [bld EXCEPT ![b] = u]
  BY <1>1, <1>3, <1>5
<1>8. /\ \A v \in Variants : Names(units, v) /\ Names(r, v)
      /\ \A v \in Variants : r.slot[v] = None => units.slot[v] = None
      /\ Honest(units) /\ Honest(r) /\ Record(units)
  BY <1>1, <1>2 DEF BuildSound, EarlySound, Early, DirInv, Types, DirTypes
<1>9. Stales(b) \subseteq bld[b].graph /\ bld[b].graph \subseteq Variants
  BY <1>2 DEF Stales, Build
<1>10. \/ units' = m
       \/ units' = units /\ \A v \in Stales(b) : units.slot[v] = None
  BY <1>1, <1>3, <1>8, <1>9 DEF Saved
<1>11. Record(units') /\ Honest(units') /\ Honest(m)
  BY <1>4, <1>8, <1>10 DEF Honest
<1>12. \A v \in Variants \ bld[b].graph : Names(units', v) /\ Names(m, v)
  BY <1>4, <1>8, <1>9, <1>10 DEF Names, Recalls
<1>13. \A v \in Variants : NamesOwned(units', v)
  <2> SUFFICES ASSUME NEW v \in Variants PROVE NamesOwned(units', v)
    OBVIOUS
  <2>1. NamesOwned(units, v) /\ promise[v] \in Seq(Keys)
    BY DEF DirInv, PromiseSound, Types, DirTypes
  <2>2. CASE units' = m /\ v \in Stales(b)
    <3>1. m.slot[v] = None
      BY <1>4, <2>2
    <3>2. Len(promise[v]) = 2 => promise[v][1] # None
      BY <2>1, KeysAreKeys
    <3> QED
      BY <2>2, <3>1, <3>2 DEF NamesOwned
  <2>3. CASE units' = m /\ v \notin Stales(b)
    <3>1. m.slot[v] = r.slot[v] /\ m.prev[v] = r.prev[v] /\ Names(r, v)
      BY <1>4, <1>8, <2>3
    <3>2. r.slot[v] = promise[v][1] /\ Len(promise[v]) = 2 => r.prev[v] = promise[v][2]
      BY <3>1, <2>1 DEF Names, Recalls
    <3> QED
      BY <2>3, <3>1, <3>2 DEF NamesOwned
  <2> QED
    BY <1>10, <2>1, <2>2, <2>3
<1>14. PromiseSound'
  BY <1>1, <1>13 DEF DirInv, PromiseSound, NamesOwned
<1>15. \A v \in owed : Wants(b, v) \in stored
  <2> SUFFICES ASSUME NEW v \in owed PROVE Wants(b, v) \in stored
    OBVIOUS
  <2>1. promise[v] \in Seq(Keys) /\ v \in Variants /\ Wants(b, v) \in Range(promise[v])
    BY <1>9 DEF DirInv, Types, DirTypes
  <2>2. PICK i \in 1 .. Len(promise[v]) : Wants(b, v) = promise[v][i]
    BY <2>1 DEF Range
  <2> QED
    BY <2>1, <2>2 DEF DirInv, PromiseSound
<1>16. BuildSound(u)'
  <2>1. (EarlySound(u) /\ LateSound(u) /\ MovedSound(u))'
    BY <1>6 DEF EarlySound, LateSound, MovedSound, Early, Late
  <2>2. OwedSound(u)'
    BY <1>1, <1>6, <1>15 DEF OwedSound, Wants
  <2>3. Honest(u.mem)'
    BY <1>1, <1>6, <1>11 DEF Honest
  <2>4. \A v \in u.graph : WillName(u, v)'
    BY <1>1, <1>4, <1>6 DEF WillName, Wants
  <2>5. \A v \in u.todo : u.mem.slot[v] = None /\ units'.slot[v] = None
    BY <1>4, <1>6, <1>10
  <2>6. \A v \in u.graph \ u.todo : u.mem.slot[v] = Key(v, u.want[v])
    BY <1>4, <1>6 DEF Wants
  <2>7. \A v \in Variants \ u.graph : (Names(units, v) /\ Names(u.mem, v))'
    BY <1>1, <1>6, <1>12 DEF Names, Recalls
  <2>8. MidSound(u)'
    BY <1>6, <1>9, <2>4, <2>5, <2>6, <2>7 DEF MidSound, Mid
  <2> QED
    BY <2>1, <2>2, <2>3, <2>8 DEF BuildSound
<1>17. DirTypes' /\ CachesSound' /\ Honest(units)'
  BY <1>1, <1>11, CachesKept DEF DirInv, Types, DirTypes, Honest
<1> QED
  BY <1>1, <1>2, <1>6, <1>7, <1>14, <1>16, <1>17, BuilderMoves

\* What the units a build has still to do own, and the others.
LEMMA Midway ==
  ASSUME DirInv, NEW b \in Builders, bld[b].pc \in Mid
  PROVE  /\ \A o \in Builders \ {b} : bld[o].pc = "idle"
         /\ Build(bld[b]) /\ Record(bld[b].mem) /\ Honest(bld[b].mem) /\ MidSound(bld[b])
         /\ bld[b].todo \subseteq bld[b].graph /\ bld[b].graph \subseteq Variants
         /\ bld[b].owed \subseteq bld[b].graph
         /\ \A v \in bld[b].todo : bld[b].mem.slot[v] = None /\ units.slot[v] = None
         /\ \A v \in bld[b].graph \ bld[b].todo : bld[b].mem.slot[v] = Wants(b, v)
         /\ \A v \in bld[b].graph : Wants(b, v) \in Keys /\ WillName(bld[b], v)
         /\ \A v \in Variants \ bld[b].graph : Names(units, v) /\ Names(bld[b].mem, v)
<1>1. /\ \A o \in Builders \ {b} : bld[o].pc = "idle"
      /\ Build(bld[b]) /\ BuildSound(bld[b])
  BY AtWork DEF Mid
<1>2. /\ Record(bld[b].mem) /\ Honest(bld[b].mem) /\ MidSound(bld[b])
      /\ bld[b].graph \subseteq Variants /\ bld[b].want \in [bld[b].graph -> Versions]
  BY <1>1 DEF BuildSound, Build, Mid
<1>3. \A v \in bld[b].graph : Wants(b, v) \in Keys
  BY <1>2, KeysAreKeys DEF Wants
<1> QED
  BY <1>1, <1>2, <1>3 DEF MidSound, Wants

LEMMA RestoreKeeps ==
  ASSUME DirInv, NEW b \in Builders, Restore(b)
  PROVE  DirInv'
<1> DEFINE r == bld[b].mem
           m == [r EXCEPT !.slot = Restored(b, @)]
<1>1. /\ bld[b].pc = "restore" /\ out' = Restored(b, out)
      /\ bld' = [bld EXCEPT ![b].pc = "build", ![b].todo = @ \ Hits(b), ![b].mem.slot = Restored(b, @)]
      /\ UNCHANGED <<rules, src, units, inc, pend, arch, stored, listed, pk, clock, promise, last, spoilt>>
  BY DEF Restore
<1>2. bld[b].pc \in Mid
  BY <1>1 DEF Mid
<1>3. /\ \A o \in Builders \ {b} : bld[o].pc = "idle"
      /\ Build(bld[b]) /\ Record(r) /\ Honest(r)
      /\ bld[b].todo \subseteq bld[b].graph /\ bld[b].graph \subseteq Variants
      /\ bld[b].owed \subseteq bld[b].graph
      /\ \A v \in bld[b].todo : r.slot[v] = None /\ units.slot[v] = None
      /\ \A v \in bld[b].graph \ bld[b].todo : r.slot[v] = Wants(b, v)
      /\ \A v \in bld[b].graph : Wants(b, v) \in Keys /\ WillName(bld[b], v)
      /\ \A v \in Variants \ bld[b].graph : Names(units, v) /\ Names(r, v)
  BY <1>2, Midway
<1>4. Hits(b) \subseteq bld[b].todo /\ \A v \in bld[b].todo \ Hits(b) : Wants(b, v) \notin stored
  BY DEF Hits
<1>5. /\ m = [slot |-> m.slot, prev |-> m.prev, used |-> m.used] /\ m.prev = r.prev /\ m.used = r.used
      /\ m.slot = [v \in Variants |-> IF v \in Hits(b) THEN Wants(b, v) ELSE r.slot[v]]
  BY <1>3 DEF Record, Restored
<1> HIDE DEF m
<1>6. Record(m)
  BY <1>3, <1>4, <1>5 DEF Record, Places
<1>7. PICK n : n = m
  OBVIOUS
<1>8. PICK u : u = [bld[b] EXCEPT !.pc = "build", !.todo = @ \ Hits(b), !.mem = m]
  OBVIOUS
<1>9. /\ Build(u) /\ u.pc = "build" /\ u.mem = n /\ u.todo = bld[b].todo \ Hits(b) /\ u.owed = bld[b].owed
      /\ u.graph = bld[b].graph /\ u.want = bld[b].want
  BY <1>3, <1>6, <1>7, <1>8 DEF Build, Mid
<1>10. bld' = [bld EXCEPT ![b] = u]
  BY <1>1, <1>8, <1>3 DEF m, Build
<1>11. out' = [v \in Variants |-> IF v \in Hits(b) THEN Wants(b, v) ELSE out[v]]
  BY <1>1 DEF Restored
<1>12. Honest(units)' /\ Honest(n)'
  BY <1>1, <1>3, <1>4, <1>5, <1>7, <1>11 DEF Honest, DirInv
<1>13. BuildSound(u)'
  <2>1. (EarlySound(u) /\ LateSound(u) /\ MovedSound(u))'
    BY <1>9 DEF EarlySound, LateSound, MovedSound, Early, Late
  <2>2. u.todo \cap u.owed = {}
    <3>1. \A v \in bld[b].owed : Wants(b, v) \in stored
      BY <1>1, AtWork DEF BuildSound, OwedSound, Wants
    <3> QED
      BY <1>4, <1>9, <3>1
  <2>3. \A v \in u.graph : WillName(u, v)'
    BY <1>1, <1>3, <1>5, <1>7, <1>9 DEF WillName
  <2>4. /\ \A v \in u.todo : u.mem.slot[v] = None /\ units'.slot[v] = None
        /\ \A v \in u.graph \ u.todo : u.mem.slot[v] = Key(v, u.want[v])
    BY <1>1, <1>3, <1>4, <1>5, <1>7, <1>9 DEF Wants
  <2>5. \A v \in Variants \ u.graph : (Names(units, v) /\ Names(u.mem, v))'
    BY <1>1, <1>3, <1>4, <1>5, <1>7, <1>9 DEF Names, Recalls
  <2>6. MidSound(u)'
    BY <1>3, <1>9, <2>3, <2>4, <2>5 DEF MidSound, Mid
  <2> QED
    BY <1>9, <1>12, <2>1, <2>2, <2>6 DEF BuildSound, OwedSound
<1>14. DirTypes' /\ CachesSound' /\ PromiseSound'
  BY <1>1, <1>11, CachesKept, PromisesKept DEF DirInv, Types, DirTypes
<1> QED
  BY <1>1, <1>3, <1>9, <1>10, <1>12, <1>13, <1>14, BuilderMoves

LEMMA PrepareKeeps ==
  ASSUME DirInv, NEW b \in Builders, Prepare(b)
  PROVE  DirInv'
<1>1. bld[b].pc = "build" /\ bld[b].pc \in Mid /\ clock' = clock + 1
      /\ UNCHANGED <<rules, src, units, arch, stored, listed, pk, promise, last>>
  BY DEF Prepare, Mid, Tick
<1>2. PICK v \in bld[b].todo :
       /\ out' = [out EXCEPT ![v] = None]
       /\ inc' = [inc EXCEPT ![v] =
            IF @ # None THEN @ ELSE IF pend[v] # None THEN pend[v]
            ELSE IF arch[v] # None THEN [arch[v] EXCEPT !.id = clock] ELSE None]
       /\ pend' = [pend EXCEPT ![v] = IF inc[v] = None THEN None ELSE @]
       /\ spoilt' = IF Packing(v) THEN spoilt \cup {v} ELSE spoilt
       /\ bld' = [bld EXCEPT ![b].pc = IF inc[v] = None /\ pend[v] = None /\ arch[v] # None
                                       THEN "unpacked" ELSE "rustc",
                             ![b].moved = {v}]
  BY DEF Prepare
<1>3. /\ \A o \in Builders \ {b} : bld[o].pc = "idle"
      /\ Build(bld[b]) /\ Honest(bld[b].mem) /\ MidSound(bld[b])
      /\ bld[b].todo \subseteq bld[b].graph /\ bld[b].graph \subseteq Variants
  BY <1>1, Midway
<1>4. v \in Variants /\ CacheSafe(v) /\ (inc[v] = None \/ pend[v] = None)
  BY <1>2, <1>3 DEF DirInv, CachesSound
<1>5. PICK u : u = [bld[b] EXCEPT !.pc = IF inc[v] = None /\ pend[v] = None /\ arch[v] # None
                                         THEN "unpacked" ELSE "rustc",
                                  !.moved = {v}]
  OBVIOUS
<1>6. /\ Build(u) /\ u.pc \in {"unpacked", "rustc"} /\ u.mem = bld[b].mem /\ u.todo = bld[b].todo
      /\ u.owed = bld[b].owed /\ u.graph = bld[b].graph /\ u.want = bld[b].want /\ u.moved = {v}
  BY <1>3, <1>5 DEF Build, Mid
<1>7. bld' = [bld EXCEPT ![b] = u]
  BY <1>2, <1>5
<1>8. /\ inc \in [Variants -> Caches \cup {None}] /\ pend \in [Variants -> Caches \cup {None}]
      /\ arch \in [Variants -> Caches \cup {None}] /\ clock \in Nat /\ out = [w \in Variants |-> out[w]]
  BY DEF DirInv, Types, DirTypes
<1>9. /\ arch[v] # None => LET c == [arch[v] EXCEPT !.id = clock] IN
           c \in Caches /\ c # None /\ c.parts = arch[v].parts /\ c.session = arch[v].session
  BY <1>4, <1>8, KeysAreKeys DEF Caches
<1>10. inc' \in [Variants -> Caches \cup {None}] /\ pend' \in [Variants -> Caches \cup {None}]
  BY <1>2, <1>4, <1>8, <1>9
<1>11. /\ out'[v] = None /\ \A w \in Variants \ {v} : out'[w] = out[w]
       /\ pend'[v] = None
       /\ \A w \in Variants \ {v} : inc'[w] = inc[w] /\ pend'[w] = pend[w]
       /\ inc'[v] = IF inc[v] # None THEN inc[v] ELSE IF pend[v] # None THEN pend[v]
                    ELSE IF arch[v] # None THEN [arch[v] EXCEPT !.id = clock] ELSE None
  BY <1>2, <1>4, <1>8
<1>12. v \notin spoilt' => Whole(inc'[v], v) /\ ~Packing(v)
  <2> SUFFICES ASSUME v \notin spoilt' PROVE Whole(inc'[v], v) /\ ~Packing(v)
    OBVIOUS
  <2>1. ~Packing(v) /\ v \notin spoilt
    BY <1>2
  <2>2. IF inc[v] # None THEN Whole(inc[v], v) ELSE IF pend[v] # None THEN Whole(pend[v], v)
        ELSE Whole(arch[v], v)
    BY <1>4, <2>1 DEF CacheSafe
  <2> QED
    BY <1>9, <1>11, <2>1, <2>2 DEF Whole
<1>13. CachesSound'
  <2> SUFFICES ASSUME NEW w \in Variants PROVE (CacheSafe(w) /\ (inc[w] = None \/ pend[w] = None))'
    BY DEF CachesSound
  <2>1. CASE w = v
    BY <1>1, <1>11, <1>12, <2>1 DEF CacheSafe, Whole, Packing
  <2>2. CASE w # v
    <3>1. w \in spoilt' <=> w \in spoilt
      BY <1>2, <2>2
    <3>2. CacheSafe(w) /\ (inc[w] = None \/ pend[w] = None)
      BY DEF DirInv, CachesSound
    <3> QED
      BY <1>1, <1>11, <2>2, <3>1, <3>2 DEF CacheSafe, Whole, Packing
  <2> QED
    BY <2>1, <2>2
<1>14. Honest(units)' /\ Honest(u.mem)'
  BY <1>1, <1>3, <1>6, <1>11 DEF Honest, DirInv
<1>15. BuildSound(u)'
  <2>1. (EarlySound(u) /\ LateSound(u))' /\ u.todo \cap u.owed = {}
    BY <1>1, <1>6, AtWork DEF EarlySound, LateSound, Early, Late, BuildSound, OwedSound
  <2>2. MidSound(u)'
    BY <1>1, <1>3, <1>6 DEF MidSound, Mid, WillName, Names, Recalls
  <2>3. MovedSound(u)'
    BY <1>1, <1>2, <1>6, <1>11, <1>12 DEF MovedSound, Whole
  <2> QED
    BY <1>6, <1>14, <2>1, <2>2, <2>3 DEF BuildSound, OwedSound
<1>16. DirTypes'
  <2>1. clock' \in Nat /\ {inc', pend', arch'} \subseteq [Variants -> Caches \cup {None}]
    BY <1>1, <1>8, <1>10
  <2>2. out' = [w \in Variants |-> out'[w]]
    BY <1>2, <1>8
  <2> QED
    BY <1>1, <2>1, <2>2 DEF DirInv, Types, DirTypes
<1>17. PromiseSound'
  BY <1>1, PromisesKept DEF DirInv
<1> QED
  BY <1>1, <1>3, <1>6, <1>7, <1>13, <1>14, <1>15, <1>16, <1>17, BuilderMoves

LEMMA UnpackedKeeps ==
  ASSUME DirInv, NEW b \in Builders, Unpacked(b)
  PROVE  DirInv'
<1>1. /\ bld[b].pc = "unpacked" /\ bld[b].pc \in Mid /\ arch' = Cleared(arch, bld[b].moved)
      /\ bld' = [bld EXCEPT ![b].pc = "rustc"]
      /\ UNCHANGED <<rules, src, units, out, inc, pend, stored, listed, pk, clock, promise, last, spoilt>>
  BY DEF Unpacked, Mid, Go
<1>2. /\ \A o \in Builders \ {b} : bld[o].pc = "idle"
      /\ Build(bld[b]) /\ BuildSound(bld[b])
  BY <1>1, AtWork
<1>3. PICK u : u = [bld[b] EXCEPT !.pc = "rustc"]
  OBVIOUS
<1>4. /\ Build(u) /\ u.pc = "rustc" /\ u.mem = bld[b].mem /\ u.todo = bld[b].todo
      /\ u.owed = bld[b].owed /\ u.graph = bld[b].graph /\ u.want = bld[b].want /\ u.moved = bld[b].moved
  BY <1>2, <1>3 DEF Build, Mid
<1>5. bld' = [bld EXCEPT ![b] = u]
  BY <1>1, <1>3
<1>6. BuildSound(u)'
  BY <1>1, <1>2, <1>4 DEF BuildSound, EarlySound, MidSound, OwedSound, LateSound, MovedSound,
       Early, Mid, Late, WillName, Names, Recalls, Honest, Whole
<1>7. arch' = [v \in Variants |-> IF v \in bld[b].moved THEN None ELSE arch[v]]
  BY <1>1 DEF Cleared
<1>8. CachesSound'
  <2>1. \A v \in bld[b].moved : v \notin spoilt => inc[v] # None
    BY <1>1, <1>2 DEF BuildSound, MovedSound, Whole
  <2> QED
    BY <1>1, <1>7, <2>1 DEF DirInv, CachesSound, CacheSafe, Whole, Packing
<1>9. DirTypes' /\ PromiseSound' /\ Honest(units)'
  BY <1>1, <1>7, PromisesKept DEF DirInv, Types, DirTypes, Honest
<1> QED
  BY <1>1, <1>2, <1>4, <1>5, <1>6, <1>8, <1>9, BuilderMoves

LEMMA RustcKeeps ==
  ASSUME DirInv, NEW b \in Builders, Rustc(b)
  PROVE  DirInv'
<1> DEFINE r == bld[b].mem
<1>1. /\ bld[b].pc = "rustc" /\ bld[b].pc \in Mid /\ clock' = clock + 1
      /\ UNCHANGED <<rules, src, units, pend, arch, listed, pk, promise>>
  BY DEF Rustc, Mid, Tick
<1>2. PICK v \in bld[b].moved :
       /\ out' = [out EXCEPT ![v] = Wants(b, v)]
       /\ inc' = [inc EXCEPT ![v] = [id |-> IF @ = None THEN clock ELSE @.id,
                                     session |-> clock, parts |-> Parts, at |-> clock]]
       /\ stored' = stored \cup {Wants(b, v)}
       /\ last' = [last EXCEPT ![v] = clock]
       /\ spoilt' = IF Packing(v) THEN spoilt ELSE spoilt \ {v}
       /\ bld' = [bld EXCEPT ![b].pc = "build", ![b].todo = @ \ {v}, ![b].moved = {},
                             ![b].mem.slot[v] = Wants(b, v)]
  BY DEF Rustc
<1>3. /\ \A o \in Builders \ {b} : bld[o].pc = "idle"
      /\ Build(bld[b]) /\ Record(r) /\ Honest(r)
      /\ bld[b].todo \subseteq bld[b].graph /\ bld[b].graph \subseteq Variants
      /\ bld[b].owed \subseteq bld[b].graph
      /\ \A w \in bld[b].todo : r.slot[w] = None /\ units.slot[w] = None
      /\ \A w \in bld[b].graph \ bld[b].todo : r.slot[w] = Wants(b, w)
      /\ \A w \in bld[b].graph : Wants(b, w) \in Keys /\ WillName(bld[b], w)
      /\ \A w \in Variants \ bld[b].graph : Names(units, w) /\ Names(r, w)
  BY <1>1, Midway
<1>4. /\ v \in bld[b].todo /\ v \in Variants /\ pend[v] = None /\ (v \notin spoilt => Whole(inc[v], v))
      /\ CacheSafe(v) /\ bld[b].todo \cap bld[b].owed = {}
  BY <1>1, <1>2, <1>3, AtWork DEF BuildSound, MovedSound, OwedSound, DirInv, CachesSound
<1>5. PICK m : m = [r EXCEPT !.slot[v] = Wants(b, v)]
  OBVIOUS
<1>6. /\ m = [slot |-> m.slot, prev |-> m.prev, used |-> m.used] /\ m.prev = r.prev /\ m.used = r.used
      /\ m.slot = [w \in Variants |-> IF w = v THEN Wants(b, v) ELSE r.slot[w]]
  BY <1>3, <1>5 DEF Record, Places
<1>7. Record(m)
  BY <1>3, <1>4, <1>6 DEF Record, Places
<1>8. PICK u : u = [bld[b] EXCEPT !.pc = "build", !.todo = @ \ {v}, !.moved = {}, !.mem = m]
  OBVIOUS
<1>9. /\ Build(u) /\ u.pc = "build" /\ u.mem = m /\ u.todo = bld[b].todo \ {v} /\ u.owed = bld[b].owed
      /\ u.graph = bld[b].graph /\ u.want = bld[b].want
  BY <1>3, <1>7, <1>8 DEF Build, Mid
<1>10. bld' = [bld EXCEPT ![b] = u]
  BY <1>2, <1>3, <1>5, <1>8 DEF Build
<1>11. /\ inc \in [Variants -> Caches \cup {None}] /\ last \in [Variants -> Nat] /\ clock \in Nat
       /\ out = [w \in Variants |-> out[w]]
  BY DEF DirInv, Types, DirTypes
<1>12. PICK c : c = [id |-> IF inc[v] = None THEN clock ELSE inc[v].id, session |-> clock,
                     parts |-> Parts, at |-> clock]
  OBVIOUS
<1>13. c \in Caches /\ c # None /\ c.parts = Parts /\ c.session = clock
  <2>1. inc[v] # None => inc[v].id \in Nat
    BY <1>4, <1>11 DEF Caches
  <2>2. c \in Caches
    BY <1>11, <1>12, <2>1 DEF Caches
  <2> QED
    BY <1>12, <2>2, KeysAreKeys
<1>14. /\ inc' = [inc EXCEPT ![v] = c] /\ inc'[v] = c /\ \A w \in Variants \ {v} : inc'[w] = inc[w]
       /\ last'[v] = clock /\ \A w \in Variants \ {v} : last'[w] = last[w]
       /\ out'[v] = Wants(b, v) /\ \A w \in Variants \ {v} : out'[w] = out[w]
  BY <1>2, <1>4, <1>11, <1>12
<1>15. Honest(units)' /\ Honest(m)'
  BY <1>1, <1>3, <1>4, <1>6, <1>14 DEF Honest, DirInv
<1>16. BuildSound(u)'
  <2>1. (EarlySound(u) /\ LateSound(u) /\ MovedSound(u))' /\ u.todo \cap u.owed = {}
    BY <1>4, <1>9 DEF EarlySound, LateSound, MovedSound, Early, Late
  <2>2. \A w \in u.graph : WillName(u, w)'
    BY <1>1, <1>3, <1>6, <1>9 DEF WillName
  <2>3. /\ \A w \in u.todo : u.mem.slot[w] = None /\ units'.slot[w] = None
        /\ \A w \in u.graph \ u.todo : u.mem.slot[w] = Key(w, u.want[w])
    BY <1>1, <1>3, <1>4, <1>6, <1>9 DEF Wants
  <2>4. \A w \in Variants \ u.graph : (Names(units, w) /\ Names(u.mem, w))'
    BY <1>1, <1>3, <1>4, <1>6, <1>9 DEF Names, Recalls
  <2>5. MidSound(u)'
    BY <1>3, <1>9, <2>2, <2>3, <2>4 DEF MidSound, Mid
  <2> QED
    BY <1>9, <1>15, <2>1, <2>5 DEF BuildSound, OwedSound
<1>17. CachesSound'
  <2> SUFFICES ASSUME NEW w \in Variants PROVE (CacheSafe(w) /\ (inc[w] = None \/ pend[w] = None))'
    BY DEF CachesSound
  <2>1. CASE w = v
    <3>1. v \notin spoilt' => ~Packing(v)
      BY <1>2, <1>4 DEF CacheSafe, Whole
    <3> QED
      BY <1>1, <1>4, <1>13, <1>14, <2>1, <3>1 DEF CacheSafe, Whole, Packing
  <2>2. CASE w # v
    <3>1. w \in spoilt' <=> w \in spoilt
      BY <1>2, <2>2
    <3>2. CacheSafe(w) /\ (inc[w] = None \/ pend[w] = None)
      BY DEF DirInv, CachesSound
    <3> QED
      BY <1>1, <1>14, <2>2, <3>1, <3>2 DEF CacheSafe, Whole, Packing
  <2> QED
    BY <2>1, <2>2
<1>18. DirTypes'
  <2>1. clock' \in Nat /\ {inc', pend', arch'} \subseteq [Variants -> Caches \cup {None}]
    BY <1>1, <1>4, <1>11, <1>13, <1>14 DEF DirInv, Types, DirTypes
  <2>2. out' = [w \in Variants |-> out'[w]] /\ last' \in [Variants -> Nat]
    BY <1>2, <1>11
  <2> QED
    BY <1>1, <2>1, <2>2 DEF DirInv, Types, DirTypes
<1>19. PromiseSound'
  BY <1>1, <1>2 DEF DirInv, PromiseSound, NamesOwned
<1> QED
  BY <1>1, <1>3, <1>9, <1>10, <1>15, <1>16, <1>17, <1>18, <1>19, BuilderMoves

-----------------------------------------------------------------------------
(* The end of a build, and what is promised then. *)

\* What a record recalls, a registration lists.
LEMMA RecalledListed ==
  ASSUME NEW m, Record(m), NEW v \in Variants, NEW p \in Seq(Keys), Len(p) <= 2, Recalls(m, v, p)
  PROVE  \A i \in 1 .. Len(p) : p[i] \in Listing(m)
<1> SUFFICES ASSUME NEW i \in 1 .. Len(p) PROVE p[i] \in Listing(m)
  OBVIOUS
<1>1. p[i] \in Keys /\ p[i] # None /\ Len(p) \in Nat /\ p # <<>>
  BY KeysAreKeys
<1>2. m.slot[v] = p[i] \/ m.prev[v] = p[i]
  <2>1. i = 1 \/ (i = 2 /\ Len(p) = 2)
    BY FirstTwo
  <2> QED
    BY <1>1, <2>1 DEF Recalls
<1>3. DOMAIN m.slot = Variants /\ DOMAIN m.prev = Variants
  BY DEF Record, Places
<1> QED
  BY <1>1, <1>2, <1>3 DEF Listing, Owned, Range

\* What is left of a promise when a build stops is recalled by the record it leaves.
LEMMA StillNamed ==
  ASSUME DirInv, NEW b \in Builders, NEW m, NEW v \in Variants, NamesOwned(m, v),
         v \notin bld[b].graph => Names(m, v)
  PROVE  LET p == StillPromised(b, m, v) IN
         /\ p \in Seq(Keys) /\ Len(p) <= 2 /\ Recalls(m, v, p)
         /\ \A i \in 1 .. Len(p) : p[i] \in stored \cap listed
<1> DEFINE p == StillPromised(b, m, v)
<1>1. /\ promise[v] \in Seq(Keys) /\ Len(promise[v]) \in Nat /\ Len(promise[v]) <= 2
      /\ \A i \in 1 .. Len(promise[v]) : promise[v][i] \in stored \cap listed
  BY DEF DirInv, PromiseSound, Types, DirTypes
<1>2. CASE v \notin bld[b].graph \/ promise[v] = <<>> \/ m.slot[v] = promise[v][1]
  <2>1. p = promise[v]
    BY <1>2 DEF StillPromised
  <2>2. Recalls(m, v, promise[v])
    BY <1>2 DEF Names, NamesOwned, Recalls
  <2> HIDE DEF p
  <2> QED
    BY <1>1, <2>1, <2>2 DEF p
<1>3. CASE ~(v \notin bld[b].graph \/ promise[v] = <<>> \/ m.slot[v] = promise[v][1])
  <2>1. CASE m.slot[v] = None /\ m.prev[v] \in Range(promise[v])
    <3>1. p = <<m.prev[v]>>
      BY <1>3, <2>1 DEF StillPromised
    <3>2. PICK i \in 1 .. Len(promise[v]) : m.prev[v] = promise[v][i]
      BY <1>1, <2>1 DEF Range
    <3>3. m.prev[v] \in Keys /\ m.prev[v] \in stored \cap listed
      BY <1>1, <3>2
    <3> HIDE DEF p
    <3>4. p \in Seq(Keys) /\ Len(p) = 1 /\ p[1] = m.prev[v]
      BY <3>1, <3>3
    <3> QED
      BY <2>1, <3>3, <3>4 DEF p, Recalls
  <2>2. CASE ~(m.slot[v] = None /\ m.prev[v] \in Range(promise[v]))
    <3>1. p = <<>>
      BY <1>3, <2>2 DEF StillPromised
    <3> HIDE DEF p
    <3>2. p \in Seq(Keys) /\ Len(p) = 0
      BY <3>1
    <3> QED
      BY <3>1, <3>2 DEF p, Recalls
  <2> QED
    BY <2>1, <2>2
<1> QED
  BY <1>2, <1>3

\* A build is over before its time, with m as its record.
LEMMA StopKeeps ==
  ASSUME DirInv, NEW b \in Builders, \A o \in Builders \ {b} : bld[o].pc = "idle",
         Record(units'),
         UNCHANGED <<rules, src, inc, pend, arch, stored, listed, pk, clock, last, spoilt>>,
         bld[b].pc # "idle", out' = [v \in Variants |-> out'[v]], Honest(units)',
         bld' = [bld EXCEPT ![b] = NoBuild],
         \A v \in Variants : NamesOwned(units', v) /\ (v \notin bld[b].graph => Names(units', v)),
         promise' = [v \in Variants |-> StillPromised(b, units', v)]
  PROVE  DirInv'
<1>1. ASSUME NEW v \in Variants
      PROVE  /\ promise'[v] \in Seq(Keys) /\ Len(promise'[v]) <= 2 /\ Recalls(units', v, promise'[v])
             /\ \A i \in 1 .. Len(promise'[v]) : promise'[v][i] \in stored \cap listed
  <2>1. PICK m : m = units'
    OBVIOUS
  <2>2. NamesOwned(m, v) /\ (v \notin bld[b].graph => Names(m, v)) /\ promise'[v] = StillPromised(b, m, v)
    BY <2>1
  <2> QED
    BY <2>1, <2>2, StillNamed
<1>2. PICK u : u = NoBuild
  OBVIOUS
<1>3. \A v \in Variants : Names(units, v)' /\ NamesOwned(units, v)'
  <2> SUFFICES ASSUME NEW v \in Variants PROVE Names(units, v)' /\ NamesOwned(units, v)'
    OBVIOUS
  <2>1. promise'[v] \in Seq(Keys) /\ Len(promise'[v]) <= 2 /\ Recalls(units', v, promise'[v])
    BY <1>1
  <2>2. PICK p \in Seq(Keys) : p = promise'[v]
    BY <2>1
  <2>3. Len(p) = 2 => p[1] # None /\ p # <<>>
    BY <2>1, <2>2, FirstTwo, KeysAreKeys
  <2> QED
    BY <2>1, <2>2, <2>3 DEF Names, NamesOwned, Recalls
<1>4. PromiseSound'
  BY <1>1, <1>3 DEF PromiseSound
<1>5. promise' \in [Variants -> Seq(Keys)]
  BY <1>1
<1>6. DirTypes' /\ CachesSound'
  BY <1>5, CachesKept DEF DirInv, Types, DirTypes
<1>7. u.pc = "idle" /\ bld' = [bld EXCEPT ![b] = u] /\ BuildSound(u)'
  BY <1>2 DEF NoBuild, BuildSound
<1> QED
  BY <1>3, <1>4, <1>6, <1>7, BuilderMoves

\* What a build has in memory recalls of a promise what follows its first part.
LEMMA MidOwned ==
  ASSUME DirInv, NEW b \in Builders, bld[b].pc \in Mid, NEW m, m = bld[b].mem
  PROVE  /\ \A o \in Builders \ {b} : bld[o].pc = "idle"
         /\ Record(m) /\ Honest(m)
         /\ \A v \in Variants : NamesOwned(m, v) /\ (v \notin bld[b].graph => Names(m, v))
<1>1. /\ \A o \in Builders \ {b} : bld[o].pc = "idle"
      /\ Record(m) /\ Honest(m)
      /\ \A v \in bld[b].todo : m.slot[v] = None
      /\ \A v \in bld[b].graph \ bld[b].todo : m.slot[v] = Wants(b, v)
      /\ \A v \in bld[b].graph : WillName(bld[b], v)
      /\ \A v \in Variants \ bld[b].graph : Names(m, v)
  BY Midway
<1>2. \A v \in Variants : NamesOwned(m, v)
  <2> SUFFICES ASSUME NEW v \in Variants, Len(promise[v]) = 2, m.slot[v] = promise[v][1]
               PROVE  m.prev[v] = promise[v][2]
    BY DEF NamesOwned
  <2>1. promise[v] \in Seq(Keys)
    BY DEF DirInv, Types, DirTypes
  <2>4. promise[v] # <<>> /\ promise[v][1] # None
    BY <2>1, KeysAreKeys
  <2>2. CASE v \in bld[b].graph
    BY <1>1, <2>2, <2>4 DEF WillName, Wants
  <2>3. CASE v \notin bld[b].graph
    BY <1>1, <2>3, <2>4 DEF Names, Recalls
  <2> QED
    BY <2>2, <2>3
<1> QED
  BY <1>1, <1>2

LEMMA FailsKeeps ==
  ASSUME DirInv, NEW b \in Builders, Fails(b)
  PROVE  DirInv'
<1>1. /\ bld[b].pc = "rustc" /\ bld[b].pc \in Mid /\ units' = bld[b].mem
      /\ bld' = [bld EXCEPT ![b] = NoBuild]
      /\ promise' = [v \in Variants |-> StillPromised(b, units', v)]
      /\ UNCHANGED <<rules, src, out, inc, pend, arch, stored, listed, pk, clock, last, spoilt>>
  BY DEF Fails, Mid
<1>2. PICK m : m = bld[b].mem
  OBVIOUS
<1>3. /\ \A o \in Builders \ {b} : bld[o].pc = "idle"
      /\ Record(m) /\ Honest(m)
      /\ \A v \in Variants : NamesOwned(m, v) /\ (v \notin bld[b].graph => Names(m, v))
  BY <1>1, <1>2, MidOwned
<1>4. /\ Record(units') /\ Honest(units)' /\ out' = [v \in Variants |-> out'[v]]
      /\ \A v \in Variants : NamesOwned(units', v) /\ (v \notin bld[b].graph => Names(units', v))
  BY <1>1, <1>2, <1>3 DEF Honest, DirInv, Types, DirTypes
<1> QED
  BY <1>1, <1>3, <1>4, StopKeeps

LEMMA KillKeeps ==
  ASSUME DirInv, NEW b \in Builders, Kill(b)
  PROVE  DirInv'
<1>1. /\ bld[b].pc # "idle" /\ units' = units
      /\ bld' = [bld EXCEPT ![b] = NoBuild]
      /\ promise' = [v \in Variants |-> StillPromised(b, units', v)]
      /\ out' = [v \in Variants |-> IF v \in Writes(b) THEN Torn ELSE out[v]]
      /\ UNCHANGED <<rules, src, inc, pend, arch, stored, listed, pk, clock, last, spoilt>>
  BY DEF Kill
<1>2. \A o \in Builders \ {b} : bld[o].pc = "idle" /\ Build(bld[b]) /\ BuildSound(bld[b])
  BY <1>1, AtWork
<1>3. Build(bld[b]) /\ BuildSound(bld[b])
  BY <1>1, AtWork
<1>4. \A v \in Writes(b) : units.slot[v] = None
  BY <1>3 DEF Writes, BuildSound, MidSound, MovedSound, Mid
<1>5. Honest(units)'
  BY <1>1, <1>4 DEF Honest, DirInv
<1>6. \A v \in Variants : NamesOwned(units, v) /\ (v \notin bld[b].graph => Names(units, v))
  BY <1>1, <1>3 DEF DirInv, PromiseSound, BuildSound, EarlySound, MidSound, LateSound, Build
<1>7. /\ Record(units') /\ out' = [v \in Variants |-> out'[v]]
      /\ \A v \in Variants : NamesOwned(units', v) /\ (v \notin bld[b].graph => Names(units', v))
  BY <1>1, <1>6 DEF DirInv, Types, DirTypes
<1> QED
  BY <1>1, <1>2, <1>5, <1>7, StopKeeps

\* A kill at the end: the record may be new, the registration old or cut short.
LEMMA KillEndingKeeps ==
  ASSUME DirInv, NEW b \in Builders, KillEnding(b)
  PROVE  DirInv'
<1>1. /\ bld[b].pc \in Mid \cup Late /\ bld[b].pc # "idle"
      /\ units' = IF bld[b].pc = "build" THEN bld[b].mem ELSE units
      /\ bld[b].pc \in {"build", "queue"}
      /\ bld' = [bld EXCEPT ![b] = NoBuild]
      /\ UNCHANGED <<rules, src, out, inc, pend, arch, stored, pk, clock, last, spoilt>>
  BY DEF KillEnding, Registering, Mid, Late
<1>2. PICK m : m = units'
  OBVIOUS
<1>3. /\ \A o \in Builders \ {b} : bld[o].pc = "idle"
      /\ Record(m) /\ Honest(m)
      /\ \A v \in Variants : NamesOwned(m, v) /\ (v \notin bld[b].graph => Names(m, v))
  <2>1. CASE bld[b].pc = "build"
    BY <1>1, <1>2, <2>1, MidOwned DEF Mid
  <2>2. CASE bld[b].pc = "queue"
    <3>1. m = units /\ BuildSound(bld[b]) /\ \A o \in Builders \ {b} : bld[o].pc = "idle"
      BY <1>1, <1>2, <2>2, AtWork
    <3> QED
      BY <1>1, <2>2, <3>1 DEF BuildSound, LateSound, Late, DirInv, PromiseSound, Types, DirTypes
  <2> QED
    BY <1>1, <2>1, <2>2
<1>4. Record(units') /\ Honest(units)' /\ out' = [v \in Variants |-> out'[v]]
  BY <1>1, <1>2, <1>3 DEF Honest, DirInv, Types, DirTypes
<1>5. CASE listed' = listed /\ promise' = [v \in Variants |-> StillPromised(b, units', v)]
  <2>1. \A v \in Variants : NamesOwned(units', v) /\ (v \notin bld[b].graph => Names(units', v))
    BY <1>2, <1>3
  <2> QED
    BY <1>1, <1>3, <1>4, <1>5, <2>1, StopKeeps
<1>6. CASE promise' = [v \in Variants |-> <<>>]
  <2>1. \A v \in Variants : promise'[v] = <<>> /\ promise'[v] \in Seq(Keys)
    BY <1>6
  <2>2. PromiseSound' /\ \A v \in Variants : Names(units, v)'
    BY <2>1 DEF PromiseSound, NamesOwned, Names, Recalls
  <2>3. promise' \in [Variants -> Seq(Keys)]
    BY <1>6
  <2>4. DirTypes' /\ CachesSound'
    BY <1>1, <1>4, <2>3, CachesKept DEF DirInv, Types, DirTypes
  <2>5. PICK u : u = NoBuild
    OBVIOUS
  <2>6. u.pc = "idle" /\ bld' = [bld EXCEPT ![b] = u] /\ BuildSound(u)'
    BY <1>1, <2>5 DEF NoBuild, BuildSound
  <2> QED
    BY <1>1, <1>3, <1>4, <2>2, <2>4, <2>6, BuilderMoves
<1> QED
  BY <1>5, <1>6 DEF KillEnding

\* What a build that ends promises, its record recalls and the store has.
LEMMA PromisedNamed ==
  ASSUME DirInv, NEW b \in Builders, bld[b].pc = "build", bld[b].todo = {}, NEW v \in Variants
  PROVE  LET p == Promised(b, v) IN
         /\ p \in Seq(Keys) /\ Len(p) <= 2 /\ Recalls(bld[b].mem, v, p)
         /\ \A i \in 1 .. Len(p) : p[i] \in stored
<1> DEFINE p == Promised(b, v)
           m == bld[b].mem
           w == Wants(b, v)
<1>1. /\ promise[v] \in Seq(Keys) /\ Len(promise[v]) \in Nat /\ Len(promise[v]) <= 2
      /\ \A i \in 1 .. Len(promise[v]) : promise[v][i] \in stored
  BY DEF DirInv, PromiseSound, Types, DirTypes
<1>2. bld[b].pc \in Mid
  BY DEF Mid
<1>3. /\ v \in bld[b].graph => w \in Keys /\ WillName(bld[b], v) /\ m.slot[v] = w
      /\ v \notin bld[b].graph => Names(m, v)
  BY <1>2, Midway
<1>4. KeepVariants \in Nat
  BY TargetDirAssumption
<1>5. CASE p = promise[v] /\ v \notin bld[b].graph
  <2>1. Recalls(m, v, promise[v])
    BY <1>3, <1>5 DEF Names
  <2> HIDE DEF p
  <2> QED
    BY <1>1, <1>5, <2>1 DEF p
<1>6. CASE p = promise[v] /\ v \in bld[b].graph /\ promise[v] # <<>> /\ promise[v][1] = w
  <2>1. Recalls(m, v, promise[v])
    BY <1>3, <1>6 DEF Recalls, WillName, Wants
  <2> HIDE DEF p
  <2> QED
    BY <1>1, <1>6, <2>1 DEF p
<1>7. CASE p = <<>>
  <2> HIDE DEF p
  <2>1. p \in Seq(Keys) /\ Len(p) = 0
    BY <1>7
  <2> QED
    BY <1>7, <2>1 DEF Recalls, p
<1>8. CASE p = <<w>> /\ v \in bld[b].graph /\ w \in stored
  <2> HIDE DEF p, w
  <2>1. p \in Seq(Keys) /\ Len(p) = 1 /\ p[1] = w
    BY <1>3, <1>8
  <2> QED
    BY <1>3, <1>8, <2>1 DEF Recalls, p
<1>9. CASE p = <<w, promise[v][1]>> /\ v \in bld[b].graph /\ w \in stored
           /\ promise[v] # <<>> /\ promise[v][1] # w /\ KeepVariants # 0
  <2>1. promise[v][1] \in Keys /\ promise[v][1] \in stored
    BY <1>1, <1>9
  <2>2. m.prev[v] = promise[v][1]
    BY <1>3, <1>4, <1>9 DEF WillName, Wants
  <2>3. PICK h : h = promise[v][1]
    OBVIOUS
  <2> HIDE DEF p, w
  <2>4. p \in Seq(Keys) /\ Len(p) = 2 /\ p[1] = w /\ p[2] = h
    BY <1>3, <1>9, <2>1, <2>3
  <2>5. \A i \in 1 .. Len(p) : i = 1 \/ i = 2
    BY <2>4
  <2> QED
    BY <1>3, <1>9, <2>1, <2>2, <2>3, <2>4, <2>5 DEF Recalls, p
<1>10. \/ p = promise[v] /\ v \notin bld[b].graph
       \/ p = promise[v] /\ v \in bld[b].graph /\ promise[v] # <<>> /\ promise[v][1] = w
       \/ p = <<>>
       \/ p = <<w>> /\ v \in bld[b].graph /\ w \in stored
       \/ p = <<w, promise[v][1]>> /\ v \in bld[b].graph /\ w \in stored
           /\ promise[v] # <<>> /\ promise[v][1] # w /\ KeepVariants # 0
  BY Zenon DEF Promised
<1> QED
  BY <1>5, <1>6, <1>7, <1>8, <1>9, <1>10

\* A build late in its course, whose record and whose promises recall each other.
LEMMA LateMoves ==
  ASSUME DirInv, NEW b \in Builders, \A o \in Builders \ {b} : bld[o].pc = "idle",
         bld[b].pc # "idle", pk' = pk,
         NEW u, bld' = [bld EXCEPT ![b] = u], u.pc \in Late \cup {"idle"}, u.pc \in Late => Build(u),
         DirTypes', CachesSound',
         Honest(units)', u.pc \in Late => Honest(u.mem)',
         \A v \in Variants : Names(units, v)' /\ (u.pc \in Late => Names(u.mem, v)'),
         \A v \in Variants : Len(promise'[v]) <= 2
            /\ \A i \in 1 .. Len(promise'[v]) : promise'[v][i] \in stored' \cap listed'
  PROVE  DirInv'
<1>1. PromiseSound'
  <2> SUFFICES ASSUME NEW v \in Variants PROVE NamesOwned(units, v)'
    BY DEF PromiseSound
  <2>1. promise'[v] \in Seq(Keys) /\ Len(promise'[v]) <= 2 /\ Recalls(units', v, promise'[v])
    BY DEF DirTypes, Names
  <2>2. PICK p \in Seq(Keys) : p = promise'[v]
    BY <2>1
  <2>3. Len(p) = 2 => p[1] # None /\ p # <<>>
    BY <2>1, <2>2, FirstTwo, KeysAreKeys
  <2> QED
    BY <2>1, <2>2, <2>3 DEF NamesOwned, Recalls
<1>2. BuildSound(u)'
  <2>1. (EarlySound(u) /\ MidSound(u) /\ OwedSound(u) /\ MovedSound(u))'
    BY DEF EarlySound, MidSound, OwedSound, MovedSound, Early, Mid, Late
  <2>2. LateSound(u)'
    BY DEF LateSound
  <2> QED
    BY <2>1, <2>2 DEF BuildSound, Late
<1> QED
  BY <1>1, <1>2, BuilderMoves DEF Late

LEMMA FinishKeeps ==
  ASSUME DirInv, NEW b \in Builders, Finish(b)
  PROVE  DirInv'
<1>1. /\ bld[b].pc = "build" /\ bld[b].pc \in Mid /\ bld[b].todo = {}
      /\ units' = bld[b].mem /\ listed' = Listing(bld[b].mem)
      /\ promise' = [v \in Variants |-> Promised(b, v)]
      /\ bld' = [bld EXCEPT ![b].pc = "sweep"]
      /\ UNCHANGED <<rules, src, out, inc, pend, arch, stored, pk, clock, last, spoilt>>
  BY DEF Finish, Go, Mid
<1>2. PICK m : m = bld[b].mem
  OBVIOUS
<1>3. /\ \A o \in Builders \ {b} : bld[o].pc = "idle"
      /\ Build(bld[b]) /\ Record(m) /\ Honest(m)
  BY <1>1, <1>2, Midway
<1>4. PICK u : u = [bld[b] EXCEPT !.pc = "sweep"]
  OBVIOUS
<1>5. Build(u) /\ u.pc = "sweep" /\ u.mem = m
  BY <1>2, <1>3, <1>4 DEF Build, Late
<1>6. ASSUME NEW v \in Variants
      PROVE  /\ promise'[v] \in Seq(Keys) /\ Len(promise'[v]) <= 2 /\ Recalls(m, v, promise'[v])
             /\ \A i \in 1 .. Len(promise'[v]) : promise'[v][i] \in stored' \cap listed'
  <2>1. PICK p : p = Promised(b, v)
    OBVIOUS
  <2>2. /\ p \in Seq(Keys) /\ Len(p) <= 2 /\ Recalls(m, v, p)
        /\ \A i \in 1 .. Len(p) : p[i] \in stored
    BY <1>1, <1>2, <2>1, PromisedNamed
  <2>3. \A i \in 1 .. Len(p) : p[i] \in Listing(m)
    BY <1>3, <2>2, RecalledListed
  <2>4. promise'[v] = p /\ listed' = Listing(m)
    BY <1>1, <1>2, <2>1
  <2> QED
    BY <1>1, <2>2, <2>3, <2>4
<1>7. Honest(units)' /\ Honest(m)'
  BY <1>1, <1>2, <1>3 DEF Honest
<1>8. promise' \in [Variants -> Seq(Keys)]
  BY <1>1, <1>6
<1>9. DirTypes' /\ CachesSound'
  BY <1>1, <1>2, <1>3, <1>8, CachesKept DEF DirInv, Types, DirTypes
<1>10. \A v \in Variants : Names(units, v)' /\ Names(m, v)'
  BY <1>1, <1>2, <1>6 DEF Names
<1>11. u.pc \in Late /\ bld' = [bld EXCEPT ![b] = u]
  BY <1>1, <1>4, <1>5 DEF Late
<1> QED
  BY <1>1, <1>3, <1>5, <1>6, <1>7, <1>9, <1>10, <1>11, LateMoves

-----------------------------------------------------------------------------
(* The sweep. *)

LEMMA CratesApart ==
  ASSUME NEW v \in Variants
  PROVE  /\ CrateOf(v) \in Crates /\ v \in CrateOf(v)
         /\ \A c \in Crates : v \in c => c = CrateOf(v)
<1>1. \E c \in Crates : v \in c
  BY DEF Variants
<1>2. CrateOf(v) \in Crates /\ v \in CrateOf(v)
  BY <1>1 DEF CrateOf
<1> QED
  BY <1>2, TargetDirAssumption

LEMMA SmallSets ==
  ASSUME NEW S \in SUBSET Variants
  PROVE  /\ IsFiniteSet(S) /\ Cardinality(S) \in Nat
         /\ \A T \in SUBSET S : Cardinality(T) <= Cardinality(S) /\ Cardinality(T) \in Nat
<1>1. IsFiniteSet(S)
  BY TargetDirAssumption, FS_Subset
<1> QED
  BY <1>1, FS_Subset, FS_CardinalityType

\* A sweep forgets nothing that is kept.
LEMMA KeptStays ==
  ASSUME DirInv, NEW b \in Builders, bld[b].pc # "idle", NEW v \in Variants, Kept(b, v)
  PROVE  v \notin Stale(b)
<1> DEFINE m == bld[b].mem
           older(c) == {w \in c \ bld[b].graph : m.slot[w] # None}
<1> SUFFICES ASSUME v \in Stale(b) PROVE FALSE
  OBVIOUS
<1>1. PICK c \in Crates :
        /\ v \in older(c)
        /\ \/ m.used[v] < bld[b].at - KeepFor
           \/ Cardinality({w \in older(c) : Newer(m, v, w)}) >= KeepVariants
  BY DEF Stale
<1>2. c = CrateOf(v) /\ v \notin bld[b].graph
  BY <1>1, CratesApart
<1>3. /\ m.used[v] >= bld[b].at - KeepFor
      /\ Cardinality({w \in c \ bld[b].graph : Newer(m, v, w)}) < KeepVariants
  BY <1>2 DEF Kept
<1>4. m.used[v] \in Nat /\ bld[b].at \in Nat /\ KeepFor \in Nat /\ KeepVariants \in Nat
  BY AtWork, TargetDirAssumption DEF Build, Record
<1>5. Cardinality({w \in older(c) : Newer(m, v, w)}) >= KeepVariants
  BY <1>1, <1>3, <1>4
<1> DEFINE S == {w \in c \ bld[b].graph : Newer(m, v, w)}
           T == {w \in older(c) : Newer(m, v, w)}
<1>6. S \in SUBSET Variants /\ T \in SUBSET S
  BY DEF Variants
<1>7. Cardinality(T) <= Cardinality(S) /\ Cardinality(T) \in Nat /\ Cardinality(S) \in Nat
  BY <1>6, SmallSets
<1> HIDE DEF S, T
<1>8. Cardinality(S) < KeepVariants /\ Cardinality(T) >= KeepVariants
  BY <1>3, <1>5 DEF S, T
<1> QED
  BY <1>4, <1>7, <1>8

LEMMA LateFacts ==
  ASSUME DirInv, NEW b \in Builders, bld[b].pc \in Late
  PROVE  /\ \A o \in Builders \ {b} : bld[o].pc = "idle"
         /\ Build(bld[b]) /\ Record(bld[b].mem) /\ Honest(bld[b].mem)
         /\ \A v \in Variants :
              /\ Names(units, v) /\ Names(bld[b].mem, v)
              /\ promise[v] \in Seq(Keys) /\ Len(promise[v]) <= 2
              /\ \A i \in 1 .. Len(promise[v]) : promise[v][i] \in stored \cap listed
<1>1. bld[b].pc # "idle"
  BY DEF Late
<1>2. /\ \A o \in Builders \ {b} : bld[o].pc = "idle"
      /\ Build(bld[b]) /\ BuildSound(bld[b])
  BY <1>1, AtWork
<1> QED
  BY <1>1, <1>2 DEF BuildSound, LateSound, Build, DirInv, PromiseSound, Types, DirTypes

LEMMA SweepStateKeeps ==
  ASSUME DirInv, NEW b \in Builders, SweepState(b)
  PROVE  DirInv'
<1> DEFINE r == bld[b].mem
<1>1. /\ bld[b].pc = "sweep" /\ bld[b].pc \in Late /\ bld[b].pc # "idle"
      /\ bld' = [bld EXCEPT ![b].pc = "files",
           ![b].mem = [slot |-> Cleared(@.slot, Stale(b)), prev |-> Cleared(@.prev, Stale(b)),
                       used |-> [v \in Variants |-> IF v \in Stale(b) THEN 0 ELSE @.used[v]]]]
      /\ promise' = [v \in Variants |-> IF Kept(b, v) THEN promise[v] ELSE <<>>]
      /\ UNCHANGED <<rules, src, units, out, inc, pend, arch, stored, listed, pk, clock, last, spoilt>>
  BY DEF SweepState, disk, Late
<1>2. /\ \A o \in Builders \ {b} : bld[o].pc = "idle"
      /\ Build(bld[b]) /\ Record(r) /\ Honest(r)
      /\ \A v \in Variants :
           /\ Names(units, v) /\ Names(r, v)
           /\ promise[v] \in Seq(Keys) /\ Len(promise[v]) <= 2
           /\ \A i \in 1 .. Len(promise[v]) : promise[v][i] \in stored \cap listed
  BY <1>1, LateFacts
<1>3. PICK m : m = [slot |-> Cleared(r.slot, Stale(b)), prev |-> Cleared(r.prev, Stale(b)),
                    used |-> [v \in Variants |-> IF v \in Stale(b) THEN 0 ELSE r.used[v]]]
  OBVIOUS
<1>4. /\ m.slot = [v \in Variants |-> IF v \in Stale(b) THEN None ELSE r.slot[v]]
      /\ m.prev = [v \in Variants |-> IF v \in Stale(b) THEN None ELSE r.prev[v]]
      /\ m.used = [v \in Variants |-> IF v \in Stale(b) THEN 0 ELSE r.used[v]]
      /\ m = [slot |-> m.slot, prev |-> m.prev, used |-> m.used]
  BY <1>3 DEF Cleared
<1>5. Record(m)
  BY <1>2, <1>4 DEF Record, Places
<1>6. PICK u : u = [bld[b] EXCEPT !.pc = "files", !.mem = m]
  OBVIOUS
<1>7. Build(u) /\ u.pc = "files" /\ u.mem = m /\ u.pc \in Late
  BY <1>2, <1>5, <1>6 DEF Build, Late
<1>8. bld' = [bld EXCEPT ![b] = u]
  BY <1>1, <1>3, <1>6
<1>9. Honest(units)' /\ Honest(m)'
  BY <1>1, <1>2, <1>4 DEF Honest, DirInv
<1>10. ASSUME NEW v \in Variants
       PROVE  /\ promise'[v] \in Seq(Keys) /\ Len(promise'[v]) <= 2
              /\ \A i \in 1 .. Len(promise'[v]) : promise'[v][i] \in stored' \cap listed'
              /\ Names(units, v)' /\ Names(m, v)'
  <2>1. CASE Kept(b, v)
    <3>1. promise'[v] = promise[v] /\ m.slot[v] = r.slot[v] /\ m.prev[v] = r.prev[v]
      BY <1>1, <1>4, <2>1, KeptStays
    <3> QED
      BY <1>1, <1>2, <3>1 DEF Names, Recalls
  <2>2. CASE ~Kept(b, v)
    <3>1. promise'[v] = <<>>
      BY <1>1, <2>2
    <3>2. PICK p : p = <<>>
      OBVIOUS
    <3>3. p \in Seq(Keys) /\ Len(p) = 0
      BY <3>2
    <3> QED
      BY <3>1, <3>2, <3>3 DEF Names, Recalls
  <2> QED
    BY <2>1, <2>2
<1>11. promise' \in [Variants -> Seq(Keys)]
  BY <1>1, <1>10
<1>12. DirTypes' /\ CachesSound'
  BY <1>1, <1>11, CachesKept DEF DirInv, Types, DirTypes
<1> QED
  BY <1>1, <1>2, <1>7, <1>8, <1>9, <1>10, <1>12, LateMoves

\* A cache under its two names, when it is moved aside or removed.
LEMMA AsideKeeps ==
  ASSUME CachesSound, NEW v \in Variants, inc[v] # None,
         {inc, pend} \subseteq [Variants -> Caches \cup {None}],
         inc' = [inc EXCEPT ![v] = None], UNCHANGED <<arch, pk, last>>,
         \/ /\ pend[v] = None /\ pend' = [pend EXCEPT ![v] = inc[v]]
            /\ spoilt' = IF Packing(v) THEN spoilt \cup {v} ELSE spoilt
         \/ pend' = pend /\ spoilt' = spoilt \cup {v}
  PROVE  CachesSound' /\ {inc', pend'} \subseteq [Variants -> Caches \cup {None}]
<1>1. /\ inc'[v] = None /\ \A w \in Variants \ {v} : inc'[w] = inc[w] /\ pend'[w] = pend[w]
      /\ \A w \in Variants \ {v} : w \in spoilt' <=> w \in spoilt
      /\ {inc', pend'} \subseteq [Variants -> Caches \cup {None}]
  OBVIOUS
<1>2. \A w \in Variants : CacheSafe(w) /\ (inc[w] = None \/ pend[w] = None)
  BY DEF CachesSound
<1>3. CacheSafe(v)'
  <2>1. CASE v \in spoilt'
    BY <2>1 DEF CacheSafe
  <2>2. CASE v \notin spoilt'
    <3>1. pend'[v] = inc[v] /\ ~Packing(v) /\ v \notin spoilt
      BY <2>2
    <3>2. Whole(inc[v], v)
      BY <1>2, <3>1 DEF CacheSafe
    <3> QED
      BY <1>1, <3>1, <3>2 DEF CacheSafe, Whole, Packing
  <2> QED
    BY <2>1, <2>2
<1>4. ASSUME NEW w \in Variants \ {v} PROVE (CacheSafe(w) /\ (inc[w] = None \/ pend[w] = None))'
  BY <1>1, <1>2 DEF CacheSafe, Whole, Packing
<1> QED
  BY <1>1, <1>3, <1>4 DEF CachesSound

LEMMA SweepOneKeeps ==
  ASSUME DirInv, NEW b \in Builders, SweepOne(b)
  PROVE  DirInv'
<1> DEFINE m == bld[b].mem
<1>1. /\ bld[b].pc = "files" /\ bld[b].pc \in Late
      /\ UNCHANGED <<rules, src, units, arch, stored, listed, pk, clock, promise, last>>
  BY DEF SweepOne, Late
<1>2. /\ \A o \in Builders \ {b} : bld[o].pc = "idle"
      /\ Build(bld[b]) /\ Record(m) /\ Honest(m)
      /\ \A v \in Variants :
           /\ Names(units, v) /\ Names(m, v)
           /\ promise[v] \in Seq(Keys) /\ Len(promise[v]) <= 2
           /\ \A i \in 1 .. Len(promise[v]) : promise[v][i] \in stored \cap listed
  BY <1>1, LateFacts
<1>3. {inc, pend, arch} \subseteq [Variants -> Caches \cup {None}] /\ out = [v \in Variants |-> out[v]]
  BY DEF DirInv, Types, DirTypes
<1>4. PICK v \in Variants \ Live(b) :
       \/ /\ out' = [out EXCEPT ![v] = None]
          /\ bld' = [bld EXCEPT ![b].swept = TRUE]
          /\ UNCHANGED <<inc, pend, spoilt>>
       \/ /\ inc[v] # None /\ KeepVariants > 0
          /\ bld' = [bld EXCEPT ![b].swept = TRUE,
                                ![b].moved = IF pend[v] = None THEN @ \cup {v} ELSE @]
          /\ inc' = [inc EXCEPT ![v] = IF pend[v] = None THEN None ELSE @]
          /\ pend' = [pend EXCEPT ![v] = IF @ = None THEN inc[v] ELSE @]
          /\ spoilt' = IF Packing(v) THEN spoilt \cup {v} ELSE spoilt
          /\ UNCHANGED out
       \/ /\ inc[v] # None /\ KeepVariants = 0
          /\ inc' = [inc EXCEPT ![v] = None]
          /\ spoilt' = spoilt \cup {v}
          /\ bld' = [bld EXCEPT ![b].swept = TRUE]
          /\ UNCHANGED <<out, pend>>
  BY DEF SweepOne
<1>5. CachesSound' /\ {inc', pend'} \subseteq [Variants -> Caches \cup {None}]
  <2>1. CASE UNCHANGED <<inc, pend, spoilt>>
    BY <1>1, <1>3, <2>1, CachesKept DEF DirInv
  <2>2. CASE ~UNCHANGED <<inc, pend, spoilt>>
    <3>1. inc[v] # None => pend[v] = None
      BY DEF DirInv, CachesSound
    <3>2. /\ inc[v] # None /\ inc' = [inc EXCEPT ![v] = None]
          /\ \/ /\ pend[v] = None /\ pend' = [pend EXCEPT ![v] = inc[v]]
                /\ spoilt' = IF Packing(v) THEN spoilt \cup {v} ELSE spoilt
             \/ pend' = pend /\ spoilt' = spoilt \cup {v}
      BY <1>3, <1>4, <2>2, <3>1
    <3> QED
      BY <1>1, <1>3, <3>2, AsideKeeps DEF DirInv
  <2> QED
    BY <2>1, <2>2
<1>6. out' = [w \in Variants |-> out'[w]] /\ \A w \in Variants : out'[w] \in {None, out[w]}
  BY <1>3, <1>4
<1>7. PICK u : /\ bld' = [bld EXCEPT ![b] = u]
               /\ \/ u = [bld[b] EXCEPT !.swept = TRUE]
                  \/ u = [bld[b] EXCEPT !.swept = TRUE, !.moved = @ \cup {v}]
  BY <1>4
<1>8. Build(u) /\ u.mem = m /\ u.pc \in Late
  BY <1>1, <1>2, <1>7 DEF Build, Late
<1>9. PICK n : n = m
  OBVIOUS
<1>10. Honest(units)' /\ Honest(n)'
  BY <1>1, <1>2, <1>6, <1>9 DEF Honest, DirInv
<1>11. \A w \in Variants : Names(units, w)' /\ Names(n, w)'
  BY <1>1, <1>2, <1>9 DEF Names, Recalls
<1>12. DirTypes'
  BY <1>1, <1>3, <1>5, <1>6 DEF DirInv, Types, DirTypes
<1> QED
  BY <1>1, <1>2, <1>5, <1>7, <1>8, <1>9, <1>10, <1>11, <1>12, LateMoves

\* An archive is pruned when more of its crate wait than may.
LEMMA ExcessCrowded ==
  ASSUME DirInv, NEW b \in Builders, NEW v \in Variants, <<v, "tar.zst">> \in Excess(b)
  PROVE  v \notin Live(b) /\ Cardinality(AsideOf(b, CrateOf(v))) > ArchivesPerCrate
<1> DEFINE e     == <<v, "tar.zst">>
           all   == AsideOf(b, CrateOf(v))
           later == {o \in all : SetAside(o) > SetAside(e)}
<1>1. e \in Aside(b) /\ e[1] = v /\ Cardinality(later) >= ArchivesPerCrate
  BY DEF Excess
<1>2. e \in all /\ all \in SUBSET (Variants \X {"pending", "tar.zst"}) /\ v \notin Live(b)
  BY <1>1, CratesApart DEF Aside, AsideOf
<1>3. SetAside(e) \in Nat
  <2>1. arch[v] \in Caches \cup {None} /\ arch[v] # None /\ SetAside(e) = arch[v].at
    BY <1>1 DEF DirInv, Types, DirTypes, Aside, SetAside
  <2> QED
    BY <2>1 DEF Caches
<1>4. e \notin later
  BY <1>3
<1>5. IsFiniteSet(Variants \X {"pending", "tar.zst"})
  <2>1. IsFiniteSet({"pending"})
    BY FS_Singleton
  <2>2. IsFiniteSet({"pending"} \cup {"tar.zst"}) /\ {"pending"} \cup {"tar.zst"} = {"pending", "tar.zst"}
    BY <2>1, FS_AddElement
  <2> QED
    BY <2>2, TargetDirAssumption, FS_Product
<1> HIDE DEF all
<1>6. later \in SUBSET (all \ {e}) /\ IsFiniteSet(all \ {e})
  BY <1>2, <1>4, <1>5, FS_Subset
<1> HIDE DEF later
<1>7. /\ Cardinality(later) <= Cardinality(all \ {e}) /\ Cardinality(later) \in Nat
      /\ Cardinality(all \ {e}) \in Nat
  BY <1>6, FS_Subset, FS_CardinalityType
<1>8. Cardinality(all) = Cardinality(all \ {e}) + 1
  <2>1. (all \ {e}) \cup {e} = all /\ e \notin all \ {e}
    BY <1>2
  <2> QED
    BY <1>6, <2>1, FS_AddElement
<1>9. ArchivesPerCrate \in Nat
  BY TargetDirAssumption
<1> QED
  BY <1>1, <1>2, <1>7, <1>8, <1>9 DEF all

LEMMA SweptKeeps ==
  ASSUME DirInv, NEW b \in Builders, Swept(b)
  PROVE  DirInv'
<1> DEFINE back == {v \in Live(b) : inc[v] # None}
           gone == IF bld[b].moved = {} THEN {}
                   ELSE back \cup {v \in Variants : <<v, "tar.zst">> \in Excess(b)}
<1>1. /\ bld[b].pc = "files" /\ bld[b].pc \in Late
      /\ arch' = Cleared(arch, gone)
      /\ spoilt' = spoilt \cup
           {v \in Variants \ Live(b) : Cardinality(AsideOf(b, CrateOf(v))) > ArchivesPerCrate}
      /\ units' = IF bld[b].swept THEN bld[b].mem ELSE units
      /\ bld' = [bld EXCEPT ![b].pc = "queue"]
      /\ UNCHANGED <<rules, src, out, inc, pend, stored, listed, pk, clock, promise, last>>
  BY DEF Swept, Late, Go
<1>2. PICK m : m = bld[b].mem
  OBVIOUS
<1>3. /\ \A o \in Builders \ {b} : bld[o].pc = "idle"
      /\ Build(bld[b]) /\ Record(m) /\ Honest(m)
      /\ \A v \in Variants :
           /\ Names(units, v) /\ Names(m, v)
           /\ promise[v] \in Seq(Keys) /\ Len(promise[v]) <= 2
           /\ \A i \in 1 .. Len(promise[v]) : promise[v][i] \in stored \cap listed
  BY <1>1, <1>2, LateFacts
<1>4. PICK u : u = [bld[b] EXCEPT !.pc = "queue"]
  OBVIOUS
<1>5. Build(u) /\ u.mem = m /\ u.pc \in Late /\ bld' = [bld EXCEPT ![b] = u]
  BY <1>1, <1>2, <1>3, <1>4 DEF Build, Late
<1>6. Honest(units)' /\ Honest(m)'
  BY <1>1, <1>2, <1>3 DEF Honest, DirInv
<1>7. \A v \in Variants : Names(units, v)' /\ Names(m, v)'
  BY <1>1, <1>2, <1>3 DEF Names, Recalls
<1>8. arch' = [v \in Variants |-> IF v \in gone THEN None ELSE arch[v]]
  BY <1>1 DEF Cleared
<1>9. \A v \in gone : inc[v] # None \/ v \in spoilt'
  BY <1>1, ExcessCrowded
<1> HIDE DEF gone
<1>10. CachesSound'
  <2> SUFFICES ASSUME NEW v \in Variants PROVE (CacheSafe(v) /\ (inc[v] = None \/ pend[v] = None))'
    BY DEF CachesSound
  <2>1. CacheSafe(v) /\ (inc[v] = None \/ pend[v] = None) /\ (v \in spoilt => v \in spoilt')
    BY <1>1 DEF DirInv, CachesSound
  <2>2. CASE v \in spoilt'
    BY <1>1, <2>1, <2>2 DEF CacheSafe
  <2>3. CASE v \notin spoilt'
    BY <1>1, <1>8, <1>9, <2>1, <2>3 DEF CacheSafe, Whole, Packing
  <2> QED
    BY <2>2, <2>3
<1>11. DirTypes'
  <2>1. {inc, pend, arch} \subseteq [Variants -> Caches \cup {None}] /\ Record(units)
    BY DEF DirInv, Types, DirTypes
  <2>2. {inc', pend', arch'} \subseteq [Variants -> Caches \cup {None}] /\ Record(units')
    BY <1>1, <1>2, <1>3, <1>8, <2>1
  <2> QED
    BY <1>1, <2>2 DEF DirInv, Types, DirTypes
<1> QED
  BY <1>1, <1>3, <1>5, <1>6, <1>7, <1>10, <1>11, LateMoves

LEMMA HousekeepingKeeps ==
  ASSUME DirInv, NEW b \in Builders, Housekeeping(b)
  PROVE  DirInv'
<1>1. /\ bld[b].pc = "queue" /\ bld[b].pc \in Late
      /\ listed' = IF bld[b].swept THEN Listing(bld[b].mem) ELSE listed
      /\ bld' = [bld EXCEPT ![b] = NoBuild]
      /\ UNCHANGED <<rules, src, units, out, inc, pend, arch, stored, pk, clock, promise, last, spoilt>>
  BY DEF Housekeeping, Late, disk
<1>2. PICK m : m = bld[b].mem
  OBVIOUS
<1>3. /\ \A o \in Builders \ {b} : bld[o].pc = "idle"
      /\ Record(m)
      /\ \A v \in Variants :
           /\ Names(units, v) /\ Names(m, v)
           /\ promise[v] \in Seq(Keys) /\ Len(promise[v]) <= 2
           /\ \A i \in 1 .. Len(promise[v]) : promise[v][i] \in stored \cap listed
  BY <1>1, <1>2, LateFacts
<1>4. \A v \in Variants : \A i \in 1 .. Len(promise[v]) : promise[v][i] \in Listing(m)
  BY <1>3, RecalledListed DEF Names
<1>5. PICK u : u = NoBuild
  OBVIOUS
<1>6. u.pc = "idle" /\ u.pc \notin Late /\ bld' = [bld EXCEPT ![b] = u]
  BY <1>1, <1>5 DEF NoBuild, Late
<1>7. \A v \in Variants : /\ Names(units, v)' /\ Len(promise'[v]) <= 2
                          /\ \A i \in 1 .. Len(promise'[v]) : promise'[v][i] \in stored' \cap listed'
  BY <1>1, <1>2, <1>3, <1>4 DEF Names, Recalls
<1>8. DirTypes' /\ CachesSound' /\ Honest(units)'
  BY <1>1, CachesKept DEF DirInv, Types, DirTypes, Honest
<1> QED
  BY <1>1, <1>3, <1>6, <1>7, <1>8, LateMoves

-----------------------------------------------------------------------------
(* Compaction. *)

\* A step of the packing, and of `rb __compact' being killed.
LEMMA PackMoves ==
  ASSUME DirInv, UNCHANGED <<units, out, stored, listed, bld, promise, last>>,
         DirTypes', CachesSound', spoilt \subseteq spoilt',
         \A v \in Variants : /\ pend[v] = None => pend'[v] = None
                             /\ v \notin spoilt' /\ inc[v] # None => inc'[v] = inc[v],
         CollectSound'
  PROVE  DirInv'
<1>1. \A b \in Builders : MovedSound(bld[b])'
  <2> SUFFICES ASSUME NEW b \in Builders, bld[b].pc \in {"unpacked", "rustc"}
               PROVE  MovedSound(bld[b])'
    BY DEF MovedSound
  <2>1. BuildSound(bld[b]) /\ MidSound(bld[b]) /\ MovedSound(bld[b]) /\ Build(bld[b])
    BY AtWork DEF BuildSound
  <2>2. bld[b].moved \subseteq Variants
    BY <2>1 DEF MidSound, MovedSound, Build, Mid
  <2> QED
    BY <2>1, <2>2 DEF MovedSound, Whole
<1>2. PromiseSound'
  BY PromisesKept DEF DirInv
<1> QED
  BY <1>1, <1>2, BuildersRest

\* A step of the collection that removes nothing.
LEMMA CollectMoves ==
  ASSUME DirInv, UNCHANGED <<rules, src, units, out, inc, pend, arch, stored, bld, clock, promise, last, spoilt>>,
         PromiseSound', ~\E v \in Variants : Packing(v) \/ Packing(v)',
         \/ pk'.pc \in {"idle", "pack"}
         \/ pk' \in [pc : {"probed", "load", "drop"}, hot : {pk'.hot}, todo : {pk'.todo}, beside : BOOLEAN],
         CollectSound'
  PROVE  DirInv'
<1>1. DirTypes'
  BY DEF DirInv, Types, DirTypes
<1>2. CachesSound'
  BY DEF DirInv, CachesSound, CacheSafe, Whole
<1>3. \A b \in Builders : MovedSound(bld[b])'
  BY DEF DirInv, BuildSound, MovedSound, Whole
<1> QED
  BY <1>1, <1>2, <1>3, BuildersRest

LEMMA ProbeKeeps ==
  ASSUME DirInv, Probe
  PROVE  DirInv'
<1>1. /\ pk.pc = "idle" /\ pk' = [pc |-> "probed", hot |-> {}, todo |-> {}, beside |-> BuildRuns]
      /\ UNCHANGED <<rules, src, units, out, inc, pend, arch, stored, listed, bld, clock, promise, last, spoilt>>
  BY DEF Probe, disk
<1>2. pk' \in [pc : {"probed", "load", "drop"}, hot : {pk'.hot}, todo : {pk'.todo}, beside : BOOLEAN]
  BY <1>1 DEF BuildRuns
<1>3. CollectSound'
  BY <1>1 DEF CollectSound, BuildRuns
<1>4. PromiseSound' /\ ~\E v \in Variants : Packing(v) \/ Packing(v)'
  BY <1>1, PromisesKept DEF DirInv, Packing
<1> QED
  BY <1>1, <1>2, <1>3, <1>4, CollectMoves

\* Nothing is promised of a directory whose record is gone.
LEMMA NothingPromised ==
  ASSUME DirInv, \A b \in Builders : bld[b].pc = "idle", units = Fresh0, NEW v \in Variants
  PROVE  promise[v] = <<>>
<1>1. Names(units, v) /\ promise[v] \in Seq(Keys)
  BY DEF DirInv, Types, DirTypes
<1>2. units.slot[v] = None /\ units.prev[v] = None
  BY DEF Fresh0, NoCache
<1>3. promise[v] # <<>> => promise[v][1] \in Keys
  BY <1>1
<1> QED
  BY <1>1, <1>2, <1>3, KeysAreKeys DEF Names, Recalls

LEMMA ReadKeysKeeps ==
  ASSUME DirInv, ReadKeys
  PROVE  DirInv'
<1>1. /\ pk.pc = "probed"
      /\ UNCHANGED <<rules, src, units, out, inc, pend, arch, stored, bld, clock, promise, last, spoilt>>
  BY DEF ReadKeys, disk
<1>2. pk \in [pc : {"probed", "load", "drop"}, hot : {pk.hot}, todo : {pk.todo}, beside : BOOLEAN]
  BY <1>1 DEF DirInv, Types, DirTypes
<1>3. /\ pk'.pc = "load" /\ pk'.beside = pk.beside
      /\ pk' \in [pc : {"probed", "load", "drop"}, hot : {pk'.hot}, todo : {pk'.todo}, beside : BOOLEAN]
  BY <1>1, <1>2 DEF ReadKeys
<1>4. \/ listed' = listed /\ pk'.hot = listed
      \/ listed' = listed /\ \E b \in Builders : Registering(b)
      \/ ~BuildRuns /\ units = Fresh0
  BY <1>1, <1>2 DEF ReadKeys
<1>5. PromiseSound'
  <2>1. CASE listed' = listed
    BY <1>1, <2>1, PromisesKept DEF DirInv
  <2>2. CASE ~BuildRuns /\ units = Fresh0
    <3>1. \A v \in Variants : promise'[v] = <<>>
      BY <1>1, <2>2, NothingPromised DEF BuildRuns
    <3> QED
      BY <3>1 DEF PromiseSound, NamesOwned
  <2> QED
    BY <1>4, <2>1, <2>2
<1>6. CollectSound'
  <2>1. CASE pk.beside
    BY <1>2, <1>3, <2>1 DEF CollectSound
  <2>2. CASE ~pk.beside
    <3>1. \A b \in Builders : bld[b].pc = "idle"
      BY <1>1, <2>2 DEF DirInv, CollectSound, Collecting
    <3>2. \/ pk'.hot = listed
          \/ \A v \in Variants : promise[v] = <<>>
      BY <1>4, <3>1, NothingPromised DEF Registering
    <3>3. \A v \in Variants : \A i \in 1 .. Len(promise[v]) : promise[v][i] \in pk'.hot
      BY <3>2 DEF DirInv, PromiseSound
    <3> QED
      BY <1>1, <1>3, <3>1, <3>3 DEF CollectSound
  <2> QED
    BY <2>1, <2>2
<1>7. ~\E v \in Variants : Packing(v) \/ Packing(v)'
  BY <1>1, <1>3 DEF Packing
<1> QED
  BY <1>1, <1>3, <1>5, <1>6, <1>7, CollectMoves

LEMMA LoadUnitsKeeps ==
  ASSUME DirInv, LoadUnits
  PROVE  DirInv'
<1>1. /\ pk.pc = "load" /\ pk' = [pk EXCEPT !.pc = "drop", !.todo = stored \ pk.hot]
      /\ UNCHANGED <<rules, src, units, out, inc, pend, arch, stored, listed, bld, clock, promise, last, spoilt>>
  BY DEF LoadUnits, disk
<1>2. pk \in [pc : {"probed", "load", "drop"}, hot : {pk.hot}, todo : {pk.todo}, beside : BOOLEAN]
  BY <1>1 DEF DirInv, Types, DirTypes
<1>3. /\ pk'.pc = "drop" /\ pk'.hot = pk.hot /\ pk'.todo = stored \ pk.hot /\ pk'.beside = pk.beside
      /\ pk' \in [pc : {"probed", "load", "drop"}, hot : {pk'.hot}, todo : {pk'.todo}, beside : BOOLEAN]
  BY <1>1, <1>2
<1>4. CollectSound'
  BY <1>1, <1>3 DEF DirInv, CollectSound, Collecting
<1>5. PromiseSound' /\ ~\E v \in Variants : Packing(v) \/ Packing(v)'
  BY <1>1, <1>3, PromisesKept DEF DirInv, Packing
<1> QED
  BY <1>1, <1>3, <1>4, <1>5, CollectMoves

LEMMA CollectEnds ==
  ASSUME DirInv, Collected \/ PackEnd
  PROVE  DirInv'
<1>1. /\ pk.pc \in {"drop", "pack"} /\ pk'.pc \in {"pack", "idle"}
      /\ UNCHANGED <<rules, src, units, out, inc, pend, arch, stored, listed, bld, clock, promise, last, spoilt>>
  BY DEF Collected, PackEnd, NoPack, disk
<1>2. CollectSound' /\ PromiseSound' /\ ~\E v \in Variants : Packing(v) \/ Packing(v)'
  BY <1>1, PromisesKept DEF DirInv, CollectSound, Collecting, Packing
<1> QED
  BY <1>1, <1>2, CollectMoves

\* A unit that is removed was promised to nobody, or is not any more.
LEMMA RemoveUnitKeeps ==
  ASSUME DirInv, RemoveUnit
  PROVE  DirInv'
<1>1. /\ pk.pc = "drop"
      /\ UNCHANGED <<rules, src, units, out, inc, pend, arch, listed, clock, last, spoilt>>
  BY DEF RemoveUnit, disk
<1>2. PICK k \in pk.todo :
        /\ stored' = stored \ {k} /\ pk' = [pk EXCEPT !.todo = @ \ {k}]
        /\ promise' = [v \in Variants |-> IF pk.beside /\ k \in Range(promise[v]) THEN <<>> ELSE promise[v]]
        /\ bld' = [b \in Builders |->
             IF bld[b].pc = "idle" THEN bld[b]
             ELSE [bld[b] EXCEPT !.owed = {v \in @ : v \notin bld[b].graph \/ Wants(b, v) # k}]]
  BY DEF RemoveUnit
<1>3. pk \in [pc : {"probed", "load", "drop"}, hot : {pk.hot}, todo : {pk.todo}, beside : BOOLEAN]
  BY <1>1 DEF DirInv, Types, DirTypes
<1>4. /\ pk'.pc = "drop" /\ pk'.hot = pk.hot /\ pk'.todo = pk.todo \ {k} /\ pk'.beside = pk.beside
      /\ pk' \in [pc : {"probed", "load", "drop"}, hot : {pk'.hot}, todo : {pk'.todo}, beside : BOOLEAN]
  BY <1>1, <1>2, <1>3
<1>5. ASSUME NEW v \in Variants
      PROVE  /\ promise'[v] \in Seq(Keys) /\ promise'[v] \in {<<>>, promise[v]}
             /\ Len(promise'[v]) <= 2
             /\ \A i \in 1 .. Len(promise'[v]) : promise'[v][i] \in stored' \cap listed
  <2>1. /\ promise[v] \in Seq(Keys) /\ Len(promise[v]) <= 2
        /\ \A i \in 1 .. Len(promise[v]) : promise[v][i] \in stored \cap listed
    BY DEF DirInv, PromiseSound, Types, DirTypes
  <2>2. CASE pk.beside /\ k \in Range(promise[v])
    <3>1. promise'[v] = <<>>
      BY <1>2, <2>2
    <3>2. PICK p : p = <<>>
      OBVIOUS
    <3>3. p \in Seq(Keys) /\ Len(p) = 0
      BY <3>2
    <3> QED
      BY <3>1, <3>2, <3>3
  <2>3. CASE ~(pk.beside /\ k \in Range(promise[v]))
    <3>1. promise'[v] = promise[v]
      BY <1>2, <2>3
    <3>2. \A i \in 1 .. Len(promise[v]) : promise[v][i] # k
      <4>1. CASE pk.beside
        BY <2>1, <2>3, <4>1 DEF Range
      <4>2. CASE ~pk.beside
        BY <1>1, <1>2, <4>2 DEF DirInv, CollectSound, Collecting
      <4> QED
        BY <4>1, <4>2
    <3> QED
      BY <1>2, <2>1, <3>1, <3>2
  <2> QED
    BY <2>2, <2>3
<1>6. PromiseSound'
  BY <1>1, <1>5 DEF DirInv, PromiseSound, NamesOwned
<1>7. DirTypes' /\ CachesSound'
  <2>1. promise' \in [Variants -> Seq(Keys)]
    BY <1>2, <1>5
  <2>2. ~\E v \in Variants : Packing(v) \/ Packing(v)'
    BY <1>1, <1>4 DEF Packing
  <2> QED
    BY <1>1, <1>4, <2>1, <2>2 DEF DirInv, Types, DirTypes, CachesSound, CacheSafe, Whole
<1>8. ASSUME NEW b \in Builders
      PROVE  /\ bld[b].pc = "idle" => bld'[b] = bld[b]
             /\ bld[b].pc # "idle" =>
                  bld'[b] = [bld[b] EXCEPT !.owed = {v \in @ : v \notin bld[b].graph \/ Wants(b, v) # k}]
             /\ bld'[b].pc = bld[b].pc
  <2>1. CASE bld[b].pc = "idle"
    BY <1>2, <2>1
  <2>2. CASE bld[b].pc # "idle"
    <3>1. Build(bld[b])
      BY <2>2, AtWork
    <3> QED
      BY <1>2, <2>2, <3>1 DEF Build
  <2> QED
    BY <2>1, <2>2
<1>9. ASSUME NEW b \in Builders, bld[b].pc # "idle"
      PROVE  Build(bld[b])' /\ BuildSound(bld[b])'
  <2>1. Build(bld[b]) /\ BuildSound(bld[b])
    BY <1>9, AtWork
  <2>2. PICK u : u = bld'[b]
    OBVIOUS
  <2>3. /\ Build(u) /\ u.pc = bld[b].pc /\ u.mem = bld[b].mem /\ u.todo = bld[b].todo
        /\ u.graph = bld[b].graph /\ u.want = bld[b].want /\ u.moved = bld[b].moved
        /\ u.owed = {v \in bld[b].owed : v \notin bld[b].graph \/ Key(v, bld[b].want[v]) # k}
    BY <1>8, <1>9, <2>1, <2>2 DEF Build, Wants
  <2>4. \A m : \A v \in Variants : Names(m, v) => Names(m, v)'
    BY <1>5 DEF Names, Recalls
  <2>5. Honest(u.mem)' /\ EarlySound(u)' /\ LateSound(u)' /\ MovedSound(u)'
    <3>1. Honest(u.mem)'
      BY <1>1, <1>9, <2>1, <2>3 DEF BuildSound, Honest
    <3>2. EarlySound(u)' /\ LateSound(u)'
      BY <1>1, <1>9, <2>1, <2>3, <2>4 DEF BuildSound, EarlySound, LateSound
    <3>3. MovedSound(u)'
      BY <1>1, <1>9, <2>1, <2>3 DEF BuildSound, MovedSound, Whole
    <3> QED
      BY <3>1, <3>2, <3>3
  <2>6. MidSound(u)'
    <3>1. \A v \in Variants : WillName(bld[b], v) => WillName(u, v)'
      BY <1>5, <2>3 DEF WillName
    <3>2. u.graph \subseteq Variants
      BY <2>3 DEF Build
    <3> QED
      BY <1>1, <1>9, <2>1, <2>3, <2>4, <3>1, <3>2 DEF BuildSound, MidSound
  <2>7. OwedSound(u)'
    <3>1. u.pc = "restore" => \A v \in u.owed : v \in u.graph /\ Key(v, u.want[v]) \in stored'
      BY <1>2, <1>9, <2>1, <2>3 DEF BuildSound, OwedSound, MidSound, Mid
    <3> QED
      BY <1>9, <2>1, <2>3, <3>1 DEF BuildSound, OwedSound
  <2> QED
    BY <2>2, <2>3, <2>5, <2>6, <2>7 DEF BuildSound
<1>10. Types' /\ Alone' /\ \A b \in Builders : BuildSound(bld[b])'
  <2>1. bld' = [b \in Builders |-> bld'[b]]
    BY <1>2
  <2>2. \A b \in Builders : (bld[b].pc = "idle" => BuildSound(bld[b])')
    BY <1>8 DEF BuildSound
  <2> QED
    BY <1>7, <1>8, <1>9, <2>1, <2>2 DEF DirInv, Types, Alone
<1>11. (\A b \in Builders : bld'[b].pc = "idle") => (\A v \in Variants : Names(units, v))'
  BY <1>1, <1>5, <1>8 DEF DirInv, Names, Recalls
<1>12. CollectSound'
  <2>1. CASE pk.beside
    BY <1>4, <2>1 DEF CollectSound
  <2>2. CASE ~pk.beside
    <3>1. /\ \A b \in Builders : bld[b].pc = "idle"
          /\ \A v \in Variants : \A i \in 1 .. Len(promise[v]) : promise[v][i] \in pk.hot
          /\ pk.todo \cap pk.hot = {}
      BY <1>1, <2>2 DEF DirInv, CollectSound, Collecting
    <3>2. \A v \in Variants : promise'[v] = promise[v]
      BY <1>2, <2>2
    <3> QED
      BY <1>4, <1>8, <3>1, <3>2 DEF CollectSound
  <2> QED
    BY <2>1, <2>2
<1>13. Honest(units)'
  BY <1>1 DEF DirInv, Honest
<1> QED
  BY <1>6, <1>7, <1>10, <1>11, <1>12, <1>13 DEF DirInv

LEMMA PackFacts ==
  ASSUME DirInv, pk.pc \in {"read", "remove"}
  PROVE  /\ pk \in [pc : {"read", "remove"}, v : Variants, got : Caches]
         /\ inc \in [Variants -> Caches \cup {None}] /\ pend \in [Variants -> Caches \cup {None}]
         /\ arch \in [Variants -> Caches \cup {None}] /\ clock \in Nat
         /\ \A v \in Variants : CacheSafe(v) /\ (inc[v] = None \/ pend[v] = None)
         /\ pk.v \notin spoilt => inc[pk.v] = None /\ pend[pk.v] = pk.got /\ pk.got # None
<1>1. /\ pk \in [pc : {"read", "remove"}, v : Variants, got : Caches]
      /\ inc \in [Variants -> Caches \cup {None}] /\ pend \in [Variants -> Caches \cup {None}]
      /\ arch \in [Variants -> Caches \cup {None}] /\ clock \in Nat
      /\ \A v \in Variants : CacheSafe(v) /\ (inc[v] = None \/ pend[v] = None)
  BY DEF DirInv, Types, DirTypes, CachesSound
<1>2. pk.got # None
  BY <1>1, KeysAreKeys
<1> QED
  BY <1>1, <1>2 DEF CacheSafe, Packing

LEMMA PackOpenKeeps ==
  ASSUME DirInv, PackOpen
  PROVE  DirInv'
<1>1. UNCHANGED <<rules, src, units, out, inc, pend, arch, stored, listed, bld, clock, promise, last, spoilt>>
      /\ pk.pc = "pack"
  BY DEF PackOpen, disk
<1>2. PICK v \in Variants : pend[v] # None /\ pk' = [pc |-> "read", v |-> v, got |-> pend[v]]
  BY DEF PackOpen
<1>3. pend[v] \in Caches
  BY <1>2 DEF DirInv, Types, DirTypes
<1>4. DirTypes'
  BY <1>1, <1>2, <1>3 DEF DirInv, Types, DirTypes
<1>5. CachesSound'
  BY <1>1, <1>2 DEF DirInv, CachesSound, CacheSafe, Packing, Whole
<1>6. CollectSound'
  BY <1>2 DEF CollectSound, Collecting
<1> QED
  BY <1>1, <1>4, <1>5, <1>6, PackMoves

LEMMA PackFailsKeeps ==
  ASSUME DirInv, PackFails
  PROVE  DirInv'
<1>1. /\ pk.pc = "read" /\ ~Holds(pend[pk.v]) /\ pend' = [pend EXCEPT ![pk.v] = None] /\ pk' = [pc |-> "pack"]
      /\ UNCHANGED <<rules, src, units, out, inc, arch, stored, listed, bld, clock, promise, last, spoilt>>
  BY DEF PackFails
<1>2. pk.v \in spoilt
  BY <1>1, PackFacts DEF Holds
<1>3. pk.v \in Variants /\ pend \in [Variants -> Caches \cup {None}]
      /\ \A v \in Variants : CacheSafe(v) /\ (inc[v] = None \/ pend[v] = None)
  BY <1>1, PackFacts
<1>4. /\ pend'[pk.v] = None /\ \A v \in Variants \ {pk.v} : pend'[v] = pend[v]
      /\ pend' \in [Variants -> Caches \cup {None}] /\ pk'.pc = "pack"
  BY <1>1, <1>3
<1>5. CachesSound'
  BY <1>1, <1>2, <1>3, <1>4 DEF CachesSound, CacheSafe, Packing, Whole
<1>6. DirTypes'
  <2>1. {inc', pend', arch'} \subseteq [Variants -> Caches \cup {None}]
    BY <1>1, <1>4, PackFacts
  <2>2. DirTypes /\ UNCHANGED <<rules, src, units, out, clock, promise, last>>
    BY <1>1 DEF DirInv, Types
  <2> QED
    BY <1>4, <2>1, <2>2 DEF DirTypes
<1>7. CollectSound'
  BY <1>4 DEF CollectSound, Collecting
<1> QED
  BY <1>1, <1>4, <1>5, <1>6, <1>7, PackMoves

LEMMA PackPublishKeeps ==
  ASSUME DirInv, PackPublish
  PROVE  DirInv'
<1> DEFINE v == pk.v
<1>1. /\ pk.pc = "read" /\ arch' = [arch EXCEPT ![v] = [pk.got EXCEPT !.at = clock]]
      /\ pk' = IF pend[v] = None THEN [pc |-> "pack"] ELSE [pk EXCEPT !.pc = "remove", !.got = pend[v]]
      /\ clock' = clock + 1
      /\ UNCHANGED <<rules, src, units, out, inc, pend, stored, listed, bld, promise, last, spoilt>>
  BY DEF PackPublish, Tick
<1>2. /\ pk \in [pc : {"read", "remove"}, v : Variants, got : Caches]
      /\ pend \in [Variants -> Caches \cup {None}] /\ arch \in [Variants -> Caches \cup {None}]
      /\ inc \in [Variants -> Caches \cup {None}] /\ clock \in Nat
      /\ \A w \in Variants : CacheSafe(w) /\ (inc[w] = None \/ pend[w] = None)
      /\ v \notin spoilt => inc[v] = None /\ pend[v] = pk.got /\ pk.got # None
  BY <1>1, PackFacts
<1>3. PICK c : c = [pk.got EXCEPT !.at = clock]
  OBVIOUS
<1>4. c \in Caches /\ c # None /\ c.parts = pk.got.parts /\ c.session = pk.got.session
  BY <1>2, <1>3, KeysAreKeys DEF Caches
<1>5. arch'[v] = c /\ (\A w \in Variants \ {v} : arch'[w] = arch[w]) /\ arch' \in [Variants -> Caches \cup {None}]
  BY <1>1, <1>2, <1>3, <1>4
<1>6. /\ pk'.pc = (IF pend[v] = None THEN "pack" ELSE "remove")
      /\ pend[v] # None => /\ pk'.v = v
                           /\ pk' \in [pc : {"read", "remove"}, v : Variants, got : Caches]
                           /\ pk'.got = pend[v]
  BY <1>1, <1>2
<1>7. DirTypes'
  <2>1. clock' \in Nat /\ {inc', pend', arch'} \subseteq [Variants -> Caches \cup {None}]
    BY <1>1, <1>2, <1>5
  <2>2. pk'.pc = "pack" \/ pk' \in [pc : {"read", "remove"}, v : Variants, got : Caches]
    BY <1>6
  <2> QED
    BY <1>1, <2>1, <2>2 DEF DirInv, Types, DirTypes
<1>8. CachesSound'
  <2> SUFFICES ASSUME NEW w \in Variants PROVE (CacheSafe(w) /\ (inc[w] = None \/ pend[w] = None))'
    BY DEF CachesSound
  <2>1. CASE w = v
    <3>1. v \notin spoilt => Whole(pk.got, v)
      BY <1>1, <1>2, KeysAreKeys DEF CacheSafe, Packing
    <3> QED
      BY <1>1, <1>2, <1>4, <1>5, <1>6, <2>1, <3>1 DEF CacheSafe, Whole, Packing
  <2>2. CASE w # v
    BY <1>1, <1>2, <1>5, <1>6, <2>2 DEF CacheSafe, Whole, Packing
  <2> QED
    BY <2>1, <2>2
<1>9. CollectSound'
  BY <1>6 DEF CollectSound, Collecting
<1> QED
  BY <1>1, <1>7, <1>8, <1>9, PackMoves

\* Of a directory that is being packed, less is left; nothing else changes.
LEMMA LessLeft ==
  ASSUME NEW dir \in Caches \cup {None}, NEW x, pk.got \in Caches, None \notin Caches
  PROVE  /\ Without(dir, x) \in Caches \cup {None}
         /\ dir = None <=> Without(dir, x) = None
         /\ dir = pk.got => Without(dir, x) = [pk.got EXCEPT !.parts = @ \ {x}]
BY DEF Without, Holds, Caches

LEMMA PackRemoveKeeps ==
  ASSUME DirInv, PackRemove
  PROVE  DirInv'
<1> DEFINE v == pk.v
<1>1. pk.pc = "remove" /\ UNCHANGED <<rules, src, units, out, arch, stored, listed, bld, clock, promise, last, spoilt>>
  BY DEF PackRemove
<1>2. PICK x \in pk.got.parts :
        /\ inc' = [inc EXCEPT ![v] = Without(@, x)]
        /\ pend' = [pend EXCEPT ![v] = Without(@, x)]
        /\ pk' = [pk EXCEPT !.got.parts = @ \ {x}]
  BY DEF PackRemove
<1>3. /\ pk \in [pc : {"read", "remove"}, v : Variants, got : Caches]
      /\ inc \in [Variants -> Caches \cup {None}] /\ pend \in [Variants -> Caches \cup {None}]
      /\ \A w \in Variants : CacheSafe(w) /\ (inc[w] = None \/ pend[w] = None)
      /\ v \notin spoilt => inc[v] = None /\ pend[v] = pk.got /\ pk.got # None
  BY <1>1, PackFacts
<1>4. PICK got : got = [pk.got EXCEPT !.parts = @ \ {x}]
  OBVIOUS
<1>5. got \in Caches
  BY <1>3, <1>4 DEF Caches
<1>6. pk' \in [pc : {"read", "remove"}, v : Variants, got : Caches] /\ pk'.v = v /\ pk'.pc = "remove" /\ pk'.got = got
  BY <1>1, <1>2, <1>3, <1>4, <1>5
<1>7. /\ Without(inc[v], x) \in Caches \cup {None} /\ (inc[v] = None <=> Without(inc[v], x) = None)
      /\ Without(pend[v], x) \in Caches \cup {None} /\ (pend[v] = None <=> Without(pend[v], x) = None)
      /\ pend[v] = pk.got => Without(pend[v], x) = got
  BY <1>3, <1>4, KeysAreKeys, LessLeft
<1>8. /\ inc'[v] = Without(inc[v], x) /\ pend'[v] = Without(pend[v], x)
      /\ \A w \in Variants \ {v} : inc'[w] = inc[w] /\ pend'[w] = pend[w]
      /\ inc' \in [Variants -> Caches \cup {None}] /\ pend' \in [Variants -> Caches \cup {None}]
  BY <1>2, <1>3, <1>7
<1>9. DirTypes'
  <2>1. {inc', pend', arch'} \subseteq [Variants -> Caches \cup {None}]
    BY <1>1, <1>8 DEF DirInv, Types, DirTypes
  <2> QED
    BY <1>1, <1>6, <2>1 DEF DirInv, Types, DirTypes
<1>10. CachesSound'
  <2> SUFFICES ASSUME NEW w \in Variants PROVE (CacheSafe(w) /\ (inc[w] = None \/ pend[w] = None))'
    BY DEF CachesSound
  <2>1. CASE w = v
    <3>1. v \notin spoilt => Whole(arch[v], v)
      BY <1>1, <1>3 DEF CacheSafe, Packing
    <3> QED
      BY <1>1, <1>3, <1>6, <1>7, <1>8, <2>1, <3>1 DEF CacheSafe, Whole, Packing
  <2>2. CASE w # v
    BY <1>1, <1>3, <1>6, <1>8, <2>2 DEF CacheSafe, Whole, Packing
  <2> QED
    BY <2>1, <2>2
<1>11. \A w \in Variants : /\ pend[w] = None => pend'[w] = None
                           /\ w \notin spoilt' /\ inc[w] # None => inc'[w] = inc[w]
  BY <1>1, <1>3, <1>7, <1>8
<1>12. CollectSound'
  BY <1>6 DEF CollectSound, Collecting
<1> QED
  BY <1>1, <1>9, <1>10, <1>11, <1>12, PackMoves

LEMMA PackDoneKeeps ==
  ASSUME DirInv, PackDone
  PROVE  DirInv'
<1> DEFINE v == pk.v
<1>1. /\ pk.pc = "remove" /\ pk.got.parts = {} /\ pk' = [pc |-> "pack"]
      /\ pend' = [pend EXCEPT ![v] = IF Emptied(@) THEN None ELSE @]
      /\ UNCHANGED <<rules, src, units, out, inc, arch, stored, listed, bld, clock, promise, last, spoilt>>
  BY DEF PackDone
<1>2. /\ pk \in [pc : {"read", "remove"}, v : Variants, got : Caches]
      /\ pend \in [Variants -> Caches \cup {None}]
      /\ \A w \in Variants : CacheSafe(w) /\ (inc[w] = None \/ pend[w] = None)
      /\ v \notin spoilt => inc[v] = None /\ pend[v] = pk.got /\ pk.got # None
  BY <1>1, PackFacts
<1>3. /\ pend'[v] \in {None, pend[v]} /\ \A w \in Variants \ {v} : pend'[w] = pend[w]
      /\ v \notin spoilt => pend'[v] = None
      /\ pend' \in [Variants -> Caches \cup {None}] /\ pk'.pc = "pack"
  BY <1>1, <1>2 DEF Emptied, Holds
<1>4. CachesSound'
  <2> SUFFICES ASSUME NEW w \in Variants PROVE (CacheSafe(w) /\ (inc[w] = None \/ pend[w] = None))'
    BY DEF CachesSound
  <2>1. CASE w = v
    <3>1. v \notin spoilt => Whole(arch[v], v)
      BY <1>1, <1>2 DEF CacheSafe, Packing
    <3> QED
      BY <1>1, <1>2, <1>3, <2>1, <3>1 DEF CacheSafe, Whole, Packing
  <2>2. CASE w # v
    BY <1>1, <1>2, <1>3, <2>2 DEF CacheSafe, Whole, Packing
  <2> QED
    BY <2>1, <2>2
<1>5. DirTypes'
  <2>1. {inc', pend', arch'} \subseteq [Variants -> Caches \cup {None}]
    BY <1>1, <1>3 DEF DirInv, Types, DirTypes
  <2> QED
    BY <1>1, <1>3, <2>1 DEF DirInv, Types, DirTypes
<1>6. \A w \in Variants : pend[w] = None => pend'[w] = None
  BY <1>2, <1>3
<1>7. CollectSound'
  BY <1>3 DEF CollectSound, Collecting
<1> QED
  BY <1>1, <1>4, <1>5, <1>6, <1>7, PackMoves

LEMMA KillPackKeeps ==
  ASSUME DirInv, KillPack
  PROVE  DirInv'
<1>1. /\ pk' = NoPack /\ spoilt' = spoilt \cup {v \in Variants : Packing(v)}
      /\ UNCHANGED <<rules, src, units, out, inc, pend, arch, stored, listed, bld, clock, promise, last>>
  BY DEF KillPack, disk
<1>2. pk'.pc = "idle"
  BY <1>1 DEF NoPack
<1>3. DirTypes'
  BY <1>1, <1>2 DEF DirInv, Types, DirTypes
<1>4. CachesSound'
  BY <1>1, <1>2 DEF DirInv, CachesSound, CacheSafe, Packing, Whole
<1>5. CollectSound'
  BY <1>2 DEF CollectSound, Collecting
<1> QED
  BY <1>1, <1>3, <1>4, <1>5, PackMoves

-----------------------------------------------------------------------------
(* The user. *)

LEMMA BesideKeeps ==
  ASSUME DirInv, Edit \/ DaysPass
  PROVE  DirInv'
<1>1. /\ UNCHANGED <<rules, units, out, inc, pend, arch, stored, listed, bld, pk, promise, last, spoilt>>
      /\ src' \in [Variants -> Versions] /\ clock' \in Nat
  <2>1. src \in [Variants -> Versions] /\ clock \in Nat /\ KeepFor \in Nat
    BY TargetDirAssumption DEF DirInv, Types, DirTypes
  <2> QED
    BY <2>1 DEF Edit, DaysPass, disk
<1>2. DirTypes' /\ CachesSound'
  BY <1>1, CachesKept DEF DirInv, Types, DirTypes
<1>3. CollectSound'
  BY <1>1 DEF DirInv, CollectSound, Collecting
<1> QED
  BY <1>1, <1>2, <1>3, PackMoves

LEMMA CleanKeeps ==
  ASSUME DirInv, Clean
  PROVE  DirInv'
<1>1. /\ units' = Fresh0 /\ out' = NoCache /\ inc' = NoCache /\ pend' = NoCache /\ arch' = NoCache
      /\ spoilt' = Variants /\ promise' = [v \in Variants |-> <<>>]
      /\ UNCHANGED <<rules, src, stored, listed, bld, pk, clock, last>>
  BY DEF Clean
<1>2. Record(units') /\ \A v \in Variants : units'.slot[v] = None /\ out'[v] = None /\ pend'[v] = None
                                            /\ promise'[v] = <<>>
  BY <1>1 DEF Fresh0, NoCache, Record, Places
<1>3. DirTypes'
  BY <1>1, <1>2 DEF DirInv, Types, DirTypes, NoCache
<1>4. Types' /\ Alone'
  BY <1>1, <1>3 DEF DirInv, Types, Alone
<1>5. \A m : Honest(m)' /\ \A v \in Variants : Names(m, v)' /\ NamesOwned(m, v)'
  BY <1>2 DEF Honest, Names, Recalls, NamesOwned
<1>6. PromiseSound'
  BY <1>2 DEF PromiseSound, NamesOwned
<1>7. CachesSound'
  BY <1>1, <1>2 DEF CachesSound, CacheSafe
<1>8. ASSUME NEW b \in Builders PROVE BuildSound(bld[b])'
  <2>1. CASE bld[b].pc = "idle"
    BY <1>1, <2>1 DEF BuildSound
  <2>2. CASE bld[b].pc # "idle"
    <3>1. Build(bld[b]) /\ BuildSound(bld[b])
      BY <2>2, AtWork
    <3>2. (EarlySound(bld[b]) /\ LateSound(bld[b]) /\ Honest(bld[b].mem))'
      BY <1>1, <1>2 DEF EarlySound, LateSound, Honest, Names, Recalls
    <3>3. OwedSound(bld[b])'
      BY <1>1, <2>2, <3>1 DEF BuildSound, OwedSound
    <3>4. MidSound(bld[b])'
      BY <1>1, <1>2, <2>2, <3>1 DEF BuildSound, Build, MidSound, WillName, Names, Recalls
    <3>5. MovedSound(bld[b])'
      BY <1>1, <1>2, <2>2, <3>1 DEF BuildSound, Build, MovedSound, MidSound, Mid
    <3> QED
      BY <3>2, <3>3, <3>4, <3>5 DEF BuildSound
  <2> QED
    BY <2>1, <2>2
<1>9. CollectSound'
  BY <1>1, <1>2 DEF DirInv, CollectSound, Collecting
<1> QED
  BY <1>2, <1>4, <1>5, <1>6, <1>7, <1>8, <1>9 DEF DirInv, Honest, Names, Recalls

-----------------------------------------------------------------------------
(* The theorems. *)

LEMMA StepKeeps ==
  ASSUME Exclusive, DirInv, [Next]_vars
  PROVE  DirInv'
<1>1. ASSUME NEW b \in Builders, Start(b) \/ CheckUnits(b) \/ Restore(b) \/ Prepare(b) \/ Unpacked(b) \/ Rustc(b)
      PROVE  DirInv'
  BY <1>1, StartKeeps, CheckKeeps, RestoreKeeps, PrepareKeeps, UnpackedKeeps, RustcKeeps
<1>2. ASSUME NEW b \in Builders, Finish(b) \/ Fails(b) \/ Kill(b) \/ KillEnding(b)
      PROVE  DirInv'
  BY <1>2, FinishKeeps, FailsKeeps, KillKeeps, KillEndingKeeps
<1>3. ASSUME NEW b \in Builders, SweepState(b) \/ SweepOne(b) \/ Swept(b) \/ Housekeeping(b)
      PROVE  DirInv'
  BY <1>3, SweepStateKeeps, SweepOneKeeps, SweptKeeps, HousekeepingKeeps
<1>4. CASE Probe \/ ReadKeys \/ LoadUnits \/ RemoveUnit \/ Collected \/ PackEnd
  BY <1>4, ProbeKeeps, ReadKeysKeeps, LoadUnitsKeeps, RemoveUnitKeeps, CollectEnds
<1>7. CASE PackOpen \/ PackFails \/ PackPublish \/ PackRemove \/ PackDone \/ KillPack
  BY <1>7, PackOpenKeeps, PackFailsKeeps, PackPublishKeeps, PackRemoveKeeps, PackDoneKeeps,
     KillPackKeeps
<1>5. CASE Edit \/ DaysPass \/ Clean
  BY <1>5, BesideKeeps, CleanKeeps
<1>6. CASE UNCHANGED vars
  BY <1>6, DirKept
<1> QED
  BY <1>1, <1>2, <1>3, <1>4, <1>5, <1>6, <1>7 DEF Next

THEOREM DirSound ==
  ASSUME Exclusive
  PROVE  Spec => []DirInv
<1>1. Init => DirInv
  BY InitDir
<1>2. DirInv /\ [Next]_vars => DirInv'
  BY StepKeeps
<1> QED
  BY <1>1, <1>2, PTL DEF Spec

\* units.json never lies: a slot names the key whose output is at the path, or
\* nothing is there, whatever was edited, swept, killed or cleaned (build.rs
\* "Fresh only while it owns the slot").
THEOREM RecordHonest ==
  ASSUME Exclusive
  PROVE  Spec => []SlotsHonest
<1>1. DirInv => SlotsHonest
  BY DEF DirInv, Honest, SlotsHonest
<1> QED
  BY <1>1, DirSound, PTL

\* What keep-variants promises is not compiled again: neither the version an
\* edit replaced nor a variant that is still kept, over any number of builds,
\* of which some fail or are killed, beside compactions that read the
\* registration and remove units one by one while builds go on.  A unit that
\* is removed after a build ran beside the compaction is promised no more; one
\* that is removed without was never promised (build.rs "One revert is a hit").
THEOREM RevertHits ==
  ASSUME Exclusive
  PROVE  Spec => []PromiseKept
<1>1. DirInv => PromiseKept
  <2> SUFFICES ASSUME DirInv, NEW b \in Builders, bld[b].pc \in {"build", "unpacked", "rustc"}
               PROVE  bld[b].todo \cap bld[b].owed = {}
    BY DEF PromiseKept
  <2> QED
    BY AtWork DEF BuildSound, OwedSound
<1> QED
  BY <1>1, DirSound, PTL

\* rustc finds the cache its last session wrote, and all of it, unless that was
\* pruned, cleaned away, or compaction was killed or overtaken while it packed
\* it (exec.rs "A variant that comes back gets its archived incremental cache
\* back").
THEOREM CacheReturns ==
  ASSUME Exclusive
  PROVE  Spec => []CacheComesBack
<1>1. DirInv => CacheComesBack
  <2> SUFFICES ASSUME DirInv, NEW b \in Builders, bld[b].pc = "rustc", NEW v \in bld[b].moved \ spoilt
               PROVE  inc[v] # None /\ inc[v].parts = Parts /\ inc[v].session = last[v]
    BY DEF CacheComesBack
  <2> QED
    BY AtWork DEF BuildSound, MovedSound, Whole
<1> QED
  BY <1>1, DirSound, PTL

=============================================================================
