-------------------------- MODULE FreshnessProofs --------------------------
(***************************************************************************)
(* Theorems about Freshness, for any graph, any programs, any number of    *)
(* checkouts, builds and edits: an undisturbed build leaves what a clean   *)
(* one would, and building again compiles nothing.                         *)
(***************************************************************************)
EXTENDS Freshness, FiniteSetTheorems, WellFoundedInduction, TLAPS

-----------------------------------------------------------------------------
Preds == [Units -> [vars : SUBSET Vars, files : SUBSET Files,
                    sources : SUBSET Files, declared : BOOLEAN]]

\* Everything a unit's key stands on.
Below(u) ==
  {w \in Units : \A S \in SUBSET Units : u \in S /\ (\A x \in S : Deps[x] \subseteq S) => w \in S}

PlanAt(p, c, e) == PlanFor(p, c, e, TreeHashes(c))
Made(r, c, e) == Ideal(r.programs, c, e)

Agree(F, c, o) == \A f \in F : c[f] = o[f]
\* A unit that looked at c0 and e0 finds the same in c and e.
SameInputs(r, w, c0, e0, c, e) ==
  LET rd == Looks(r, w, c0) IN Agree(rd.files, c0, c) /\ Agree(rd.vars, e0, e)
\* ... but for its own inputs outside its package.
Near(r, u, c0, e0, c, e) ==
  /\ \A w \in Below(u) \ {u} : SameInputs(r, w, c0, e0, c, e)
  /\ Agree(Looks(r, u, c0).files \cap Pkg(u), c0, c)
Found(r, u, c, e) ==
  LET rd == Looks(r, u, c)
  IN  [files |-> Restrict(c, rd.files \ Pkg(u)), vars |-> Restrict(e, rd.vars)]
Holds(inputs, c, e) ==
  /\ \A f \in DOMAIN inputs.files : c[f] = inputs.files[f]
  /\ \A v \in DOMAIN inputs.vars : e[v] = inputs.vars[v]

-----------------------------------------------------------------------------
(* What the predictions know. *)

\* The files of the package a key names.
Known(p, w) == IF w \in Runs THEN p[w].declared ELSE p[w].sources # {}
Shape(p, w) == IF Known(p, w) THEN p[w].sources ELSE Pkg(w)

\* The predictions p know all that w looks at in c, for good.
Knows(r, p, w, c) ==
  LET rd == Looks(r, w, c) IN
  /\ rd.vars \subseteq p[w].vars /\ rd.files \ Pkg(w) \subseteq p[w].files
  /\ PackageOf[w] \in Local =>
       \/ rd.files \cap Pkg(w) \subseteq p[w].sources
       \/ w \in Runs /\ ~rd.declared /\ ~p[w].declared

\* A key made with p names all that w looks at in c and that varies.
Covers(r, p, w, c) ==
  LET rd == Looks(r, w, c) IN
  /\ rd.vars \cap VaryingVars(r) \subseteq p[w].vars
  /\ (rd.files \ Pkg(w)) \cap Varying(r) \subseteq p[w].files
  /\ PackageOf[w] \in Local => rd.files \cap Pkg(w) \cap Varying(r) \subseteq Shape(p, w)

\* The predictions a settled program leaves.
SettledPred(r, p) ==
  \A w \in Units : PackageOf[w] \in Local /\ Known(p, w) =>
    \A c \in Worlds(r) : Looks(r, w, c).files \cap Varying(r) \subseteq p[w].sources

\* What a unit looks at in some sources is known, or will be when its compile
\* is looked into.
Learnt ==
  {x \in Units \X Worlds(rules) :
     \/ Settled(rules)
     \/ Knows(rules, pred, x[1], x[2])
     \/ \E d \in Dirs : /\ proc[d].phase = "build" /\ x[1] \in DOMAIN proc[d].compiled
                        /\ proc[d].compiled[x[1]] = Looks(rules, x[1], x[2])}

-----------------------------------------------------------------------------
(* What entries and records are worth (r: rules, K: what was learnt). *)

\* They were made of sources that differ from c and e at most in the inputs
\* they name, and all that went into them is known.
Traced(r, K, u, inputs, o, c, e) ==
  \E c0 \in Worlds(r), e0 \in r.envs :
    /\ Near(r, u, c0, e0, c, e)
    /\ o = Made(r, c0, e0)[u] /\ inputs = Found(r, u, c0, e0)
    /\ \A w \in Below(u) : <<w, c0>> \in K

Sound(r, K, key, inputs, o) ==
  \E u \in Units, p \in Preds, c \in Worlds(r), e \in r.envs :
    key = PlanAt(p, c, e)[u].key /\ Traced(r, K, u, inputs, o, c, e)

IsRecord(rec) == rec = [key |-> rec.key, inputs |-> rec.inputs]
IsEntry(x) == x = [key |-> x.key, inputs |-> x.inputs, out |-> x.out]
SlotSound(r, K, rec, o) ==
  rec # None => IsRecord(rec) /\ (o # None => Sound(r, K, rec.key, rec.inputs, o))

\* The output of u is what a clean build would make.
Right(d, u) == disk[d][u] = Made(rules, now[d], proc[d].env)[u]
Done(d, u)  == Right(d, u) /\ \A w \in Below(u) : <<w, now[d]>> \in Learnt

Planned(r, plan, c, e) ==
  \E p \in Preds : plan = PlanAt(p, c, e) /\ (Settled(r) => SettledPred(r, p))

Fixed == {"planned", "build", "rekey", "replan", "verify", "move"}
After == {"rekey", "replan", "verify", "move", "resave", "done"}

KeysTraced(d) ==
  proc[d].phase \in Fixed => \A u \in Units : \A x \in store :
    x.key = Key(d, u) => Traced(rules, Learnt, u, x.inputs, x.out, now[d], proc[d].env)
SlotsTraced(d) ==
  proc[d].phase \in Fixed => \A u \in Units :
    LET rec == proc[d].mem[u] IN
    rec # None /\ disk[d][u] # None /\ rec.key = Key(d, u) =>
      Traced(rules, Learnt, u, rec.inputs, disk[d][u], now[d], proc[d].env)
Building(d) ==
  proc[d].phase = "build" =>
    /\ proc[d].todo \subseteq Units /\ DOMAIN proc[d].compiled \subseteq proc[d].todo
    /\ \A u \in proc[d].todo : /\ proc[d].mem[u] = None /\ saved[d][u] = None
                               /\ \A x \in Links[u] : x \in proc[d].todo \/ Done(d, x)
    /\ \A u \in DOMAIN proc[d].compiled :
         Done(d, u) /\ proc[d].compiled[u] = Looks(rules, u, now[d])
    /\ \A u \in Roots : u \in proc[d].todo \/ Done(d, u)
Built(d) == proc[d].phase \in After => \A u \in Roots : Right(d, u)

BuildSound(d) ==
  /\ proc[d].trees = TreeHashes(now[d])
  /\ Planned(rules, proc[d].plan, now[d], proc[d].env)
  /\ proc[d].phase = "planned" => DOMAIN proc[d].compiled = {}
  /\ proc[d].phase \in {"verify", "move"} => Planned(rules, proc[d].new, now[d], proc[d].env)
  /\ KeysTraced(d) /\ SlotsTraced(d)
  /\ \A u \in Units : SlotSound(rules, Learnt, proc[d].mem[u], disk[d][u])
  /\ Building(d) /\ Built(d)

SlotsSound(d) == \A u \in Units : SlotSound(rules, Learnt, saved[d][u], disk[d][u])

-----------------------------------------------------------------------------
Whole(b) ==
  b = [phase |-> b.phase, env |-> b.env, trees |-> b.trees, plan |-> b.plan, new |-> b.new,
       mem |-> b.mem, todo |-> b.todo, compiled |-> b.compiled, grown |-> b.grown,
       quiet |-> b.quiet, alone |-> b.alone, again |-> b.again]
Build(b) ==
  /\ Whole(b)
  /\ b.mem = [u \in Units |-> b.mem[u]]
  /\ b.phase \in {"planned", "build"} \cup After
  /\ b.env \in rules.envs /\ b.grown \in BOOLEAN

Types ==
  /\ rules \in Rules /\ pred \in Preds
  /\ now = [d \in Dirs |-> now[d]] /\ disk = [d \in Dirs |-> disk[d]]
  /\ saved = [d \in Dirs |-> saved[d]] /\ proc = [d \in Dirs |-> proc[d]]
  /\ last = [d \in Dirs |-> last[d]]
  /\ \A d \in Dirs : /\ now[d] \in Worlds(rules)
                     /\ disk[d] = [u \in Units |-> disk[d][u]]
                     /\ saved[d] = [u \in Units |-> saved[d][u]]
                     /\ Busy(d) => Build(proc[d])

FreshInv ==
  /\ Types
  /\ ~Settled(rules) => \A d, o \in Dirs : Busy(d) /\ Busy(o) => d = o
  /\ Settled(rules) => SettledPred(rules, pred)
  /\ \A x \in store : IsEntry(x) /\ Sound(rules, Learnt, x.key, x.inputs, x.out)
  /\ \A d \in Dirs : SlotsSound(d) /\ (Busy(d) => BuildSound(d))

-----------------------------------------------------------------------------
(* Recursion along the graph. *)

Rank == CHOOSE rank \in [Units -> 0 .. Cardinality(Units)] :
          \A u \in Units : \A d \in Deps[u] : rank[d] < rank[u]

LEMMA RankFact ==
  /\ Rank \in [Units -> Nat]
  /\ \A u \in Units : Deps[u] \subseteq Units /\ \A d \in Deps[u] : Rank[d] < Rank[u]
<1>1. Cardinality(Units) \in Nat
  BY FS_CardinalityType, FreshnessAssumption
<1>2. /\ Rank \in [Units -> 0 .. Cardinality(Units)]
      /\ \A u \in Units : \A d \in Deps[u] : Rank[d] < Rank[u]
  BY FreshnessAssumption DEF Rank
<1>3. 0 .. Cardinality(Units) \subseteq Nat
  BY <1>1
<1> QED
  BY <1>2, <1>3, FreshnessAssumption

\* What holds of a unit when it holds of all of lower rank holds of all units.
LEMMA RankInduction ==
  ASSUME NEW S,
         \A u \in Units : (\A w \in Units : Rank[w] < Rank[u] => w \in S) => u \in S
  PROVE  Units \subseteq S
<1> SUFFICES ASSUME Units \ S # {}
             PROVE  FALSE
  OBVIOUS
<1> DEFINE ranks == {Rank[u] : u \in Units \ S}
<1>1. ranks \subseteq Nat /\ ranks # {}
  BY RankFact
<1>2. PICK m \in ranks : \A n \in ranks : ~(<<n, m>> \in OpToRel(<, Nat))
  <2> HIDE DEF ranks
  <2> QED
    BY <1>1, NatLessThanWellFounded, WFMin, Zenon
<1>3. \A n \in ranks : ~(n < m)
  BY <1>1, <1>2 DEF OpToRel
<1>4. PICK u \in Units \ S : Rank[u] = m
  OBVIOUS
<1>5. \A w \in Units : Rank[w] < Rank[u] => w \in S
  BY <1>3, <1>4
<1> QED
  BY <1>4, <1>5

\* The same for the numbers.
LEMMA UpwardInduction ==
  ASSUME NEW S, 0 \in S, \A n \in Nat : n \in S => n + 1 \in S
  PROVE  Nat \subseteq S
<1> SUFFICES ASSUME Nat \ S # {}
             PROVE  FALSE
  OBVIOUS
<1>1. PICK m \in Nat \ S : \A n \in Nat \ S : ~(<<n, m>> \in OpToRel(<, Nat))
  <2> DEFINE T == Nat \ S
  <2>1. T \subseteq Nat /\ T # {}
    OBVIOUS
  <2> HIDE DEF T
  <2>2. \E m \in T : \A n \in T : ~(<<n, m>> \in OpToRel(<, Nat))
    BY <2>1, NatLessThanWellFounded, WFMin, Zenon
  <2> QED
    BY <2>2 DEF T
<1>2. \A n \in Nat \ S : ~(n < m)
  BY <1>1 DEF OpToRel
<1>3. m # 0
  OBVIOUS
<1>4. m - 1 \in Nat /\ m - 1 < m /\ (m - 1) + 1 = m
  BY <1>3
<1> QED
  BY <1>2, <1>4

\* Units of a rank below n.
Lower(n) == {u \in Units : Rank[u] < n}

LEMMA LowerFact ==
  /\ Lower(0) = {}
  /\ \A n \in Nat : Lower(n) \subseteq Lower(n + 1)
  /\ \A n \in Nat : \A u \in Lower(n + 1) : Deps[u] \subseteq Lower(n)
  /\ \E n \in Nat : Lower(n) = Units
<1>1. /\ Lower(0) = {}
      /\ \A n \in Nat : Lower(n) \subseteq Lower(n + 1)
      /\ \A n \in Nat : \A u \in Lower(n + 1) : Deps[u] \subseteq Lower(n)
  BY RankFact DEF Lower
<1>2. Cardinality(Units) \in Nat
  BY FS_CardinalityType, FreshnessAssumption
<1>3. Rank \in [Units -> 0 .. Cardinality(Units)]
  BY FreshnessAssumption DEF Rank
<1>4. \A u \in Units : Rank[u] < Cardinality(Units) + 1
  BY <1>2, <1>3
<1>5. Lower(Cardinality(Units) + 1) = Units
  BY <1>4 DEF Lower
<1> QED
  BY <1>1, <1>2, <1>5

-----------------------------------------------------------------------------
(* The recursive functions satisfy their equations: each is built up rank  *)
(* by rank.                                                                *)

\* What a unit links: its dependencies, and what those that are libraries link.
LEMMA LinksFact ==
  Links = [u \in Units |-> Deps[u] \cup UNION {Links[d] : d \in Deps[u] \ Runs}]
<1> DEFINE Body(g, u) == Deps[u] \cup UNION {g[d] : d \in Deps[u] \ Runs}
           S == {n \in Nat : \E g : g = [u \in Lower(n) |-> Body(g, u)]}
<1>1. 0 \in S
  <2>1. LET g == [u \in {} |-> {}] IN g = [u \in Lower(0) |-> Body(g, u)]
    BY LowerFact
  <2> QED
    BY <2>1
<1>2. \A n \in Nat : n \in S => n + 1 \in S
  <2> SUFFICES ASSUME NEW n \in Nat, NEW g, g = [u \in Lower(n) |-> Body(g, u)]
               PROVE  \E h : h = [u \in Lower(n + 1) |-> Body(h, u)]
    OBVIOUS
  <2> DEFINE h == [u \in Lower(n + 1) |-> Body(g, u)]
  <2>1. \A u \in Lower(n + 1) : Body(h, u) = Body(g, u)
    <3> SUFFICES ASSUME NEW u \in Lower(n + 1)
                 PROVE  Body(h, u) = Body(g, u)
      OBVIOUS
    <3>1. \A d \in Deps[u] : d \in Lower(n) /\ d \in Lower(n + 1)
      BY LowerFact
    <3>2. \A d \in Deps[u] : h[d] = g[d]
      BY <3>1
    <3> HIDE DEF h
    <3> QED
      BY <3>2
  <2>2. h = [u \in Lower(n + 1) |-> Body(h, u)]
    BY <2>1
  <2> QED
    BY <2>2
<1>3. Nat \subseteq S
  <2> HIDE DEF S
  <2> QED
    BY <1>1, <1>2, UpwardInduction
<1>4. PICK g : g = [u \in Units |-> Body(g, u)]
  <2>1. PICK n \in Nat : Lower(n) = Units
    BY LowerFact
  <2>2. n \in S
    BY <1>3
  <2> QED
    BY <2>1, <2>2
<1> QED
  BY <1>4 DEF Links

LEMMA PlanFact ==
  ASSUME NEW p, NEW c, NEW e, NEW trees
  PROVE  PlanFor(p, c, e, trees) = [u \in Units |->
           [key    |-> [unit |-> u, identity |-> UnitIdentity(p, u, c, trees),
                        deps |-> [d \in Deps[u] |-> PlanFor(p, c, e, trees)[d]]],
            digest |-> InputDigest(p, u, c, e)]]
<1> DEFINE Body(g, u) == [key    |-> [unit |-> u, identity |-> UnitIdentity(p, u, c, trees),
                                      deps |-> [d \in Deps[u] |-> g[d]]],
                          digest |-> InputDigest(p, u, c, e)]
           S == {n \in Nat : \E g : g = [u \in Lower(n) |-> Body(g, u)]}
<1>1. 0 \in S
  <2>1. LET g == [u \in {} |-> {}] IN g = [u \in Lower(0) |-> Body(g, u)]
    BY LowerFact
  <2> QED
    BY <2>1
<1>2. \A n \in Nat : n \in S => n + 1 \in S
  <2> SUFFICES ASSUME NEW n \in Nat, NEW g, g = [u \in Lower(n) |-> Body(g, u)]
               PROVE  \E h : h = [u \in Lower(n + 1) |-> Body(h, u)]
    OBVIOUS
  <2> DEFINE h == [u \in Lower(n + 1) |-> Body(g, u)]
  <2>1. \A u \in Lower(n + 1) : Body(h, u) = Body(g, u)
    <3> SUFFICES ASSUME NEW u \in Lower(n + 1)
                 PROVE  Body(h, u) = Body(g, u)
      OBVIOUS
    <3>1. \A d \in Deps[u] : d \in Lower(n) /\ d \in Lower(n + 1)
      BY LowerFact
    <3>2. \A d \in Deps[u] : h[d] = g[d]
      BY <3>1
    <3> HIDE DEF h
    <3> QED
      BY <3>2
  <2>2. h = [u \in Lower(n + 1) |-> Body(h, u)]
    BY <2>1
  <2> QED
    BY <2>2
<1>3. Nat \subseteq S
  <2> HIDE DEF S
  <2> QED
    BY <1>1, <1>2, UpwardInduction
<1>4. PICK g : g = [u \in Units |-> Body(g, u)]
  <2>1. PICK n \in Nat : Lower(n) = Units
    BY LowerFact
  <2>2. n \in S
    BY <1>3
  <2> QED
    BY <2>1, <2>2
<1> QED
  BY <1>4 DEF PlanFor

\* A unit is below itself, and so is all that something below it depends on.
LEMMA BelowFact ==
  ASSUME NEW u \in Units
  PROVE  /\ u \in Below(u) /\ Below(u) \subseteq Units
         /\ \A w \in Below(u) : Deps[w] \subseteq Below(u) /\ Below(w) \subseteq Below(u)
         /\ Below(u) \subseteq {u} \cup UNION {Below(d) : d \in Deps[u]}
         /\ \A w \in Below(u) : w = u \/ Rank[w] < Rank[u]
<1>1. u \in Below(u) /\ Below(u) \subseteq Units
  BY DEF Below
<1>2. \A v \in Units : \A w \in Below(v) : Deps[w] \subseteq Below(v)
  BY RankFact DEF Below
<1>3. ASSUME NEW v \in Units, NEW S \in SUBSET Units, v \in S, \A x \in S : Deps[x] \subseteq S
      PROVE  Below(v) \subseteq S
  BY <1>3 DEF Below
<1>4. \A w \in Below(u) : Below(w) \subseteq Below(u)
  BY <1>1, <1>2, <1>3
<1>5. Below(u) \subseteq {u} \cup UNION {Below(d) : d \in Deps[u]}
  <2> DEFINE S == {u} \cup UNION {Below(d) : d \in Deps[u]}
  <2>1. Deps[u] \subseteq Units /\ \A d \in Deps[u] : d \in Below(d) /\ Below(d) \subseteq Units
    BY RankFact DEF Below
  <2>2. S \in SUBSET Units /\ u \in S
    BY <2>1
  <2>3. \A x \in S : Deps[x] \subseteq S
    BY <1>2, <2>1
  <2> HIDE DEF S
  <2>4. Below(u) \subseteq S
    BY <1>3, <2>2, <2>3
  <2> QED
    BY <2>4 DEF S
<1>6. \A w \in Below(u) : w = u \/ Rank[w] < Rank[u]
  <2> DEFINE S == {w \in Units : w = u \/ Rank[w] < Rank[u]}
  <2>1. S \in SUBSET Units /\ u \in S
    OBVIOUS
  <2>2. \A x \in S : Deps[x] \subseteq S
    BY RankFact
  <2>3. Below(u) \subseteq S
    <3> HIDE DEF S
    <3> QED
      BY <1>3, <2>1, <2>2
  <2> QED
    BY <2>3
<1> QED
  BY <1>1, <1>2, <1>4, <1>5, <1>6

\* What a unit links is below it.
LEMMA LinksBelow ==
  \A u \in Units : /\ Deps[u] \subseteq Links[u] /\ u \notin Links[u]
                   /\ Links[u] \subseteq Below(u)
                   /\ \A x \in Links[u] : x \in Units /\ Rank[x] < Rank[u]
<1> DEFINE S == {u \in Units : Links[u] \subseteq Below(u) /\ \A x \in Links[u] : Rank[x] < Rank[u]}
<1>1. ASSUME NEW u \in Units, \A w \in Units : Rank[w] < Rank[u] => w \in S
      PROVE  u \in S
  <2> SUFFICES ASSUME NEW x \in Links[u]
               PROVE  x \in Below(u) /\ Rank[x] < Rank[u]
    OBVIOUS
  <2>1. \A d \in Deps[u] : d \in Units /\ d \in Below(u) /\ Rank[d] < Rank[u] /\ d \in S
    BY <1>1, RankFact, BelowFact
  <2>2. CASE x \in Deps[u]
    BY <2>1, <2>2
  <2>3. CASE x \notin Deps[u]
    <3> DEFINE L(v) == Deps[v] \cup UNION {Links[d] : d \in Deps[v] \ Runs}
    <3>0. Links[u] = L(u)
      <4>1. Links = [v \in Units |-> L(v)]
        BY LinksFact
      <4> HIDE DEF L
      <4> QED
        BY <4>1
    <3>1. PICK d \in Deps[u] : x \in Links[d]
      BY <2>3, <3>0
    <3>2. x \in Below(d) /\ Rank[x] < Rank[d] /\ Below(d) \subseteq Below(u)
      BY <2>1, <3>1, BelowFact
    <3>3. x \in Units
      BY <2>1, <3>2, BelowFact
    <3> QED
      BY <2>1, <3>2, <3>3, RankFact
  <2> QED
    BY <2>2, <2>3
<1>2. Units \subseteq S
  <2> HIDE DEF S
  <2> QED
    BY <1>1, RankInduction
<1>3. \A u \in Units : Deps[u] \subseteq Links[u]
  BY LinksFact
<1> QED
  BY <1>2, <1>3, BelowFact, RankFact

\* A clean build makes every unit of its sources and of what it links.
LEMMA IdealFact ==
  ASSUME NEW programs, NEW c, NEW e
  PROVE  Ideal(programs, c, e) = [u \in Units |->
           Output(u, Reads(programs, u, c), c, e, Ideal(programs, c, e))]
<1> DEFINE Body(g, u) == Output(u, Reads(programs, u, c), c, e, g)
           S == {n \in Nat : \E g : g = [u \in Lower(n) |-> Body(g, u)]}
<1>1. 0 \in S
  <2>1. LET g == [u \in {} |-> {}] IN g = [u \in Lower(0) |-> Body(g, u)]
    BY LowerFact
  <2> QED
    BY <2>1
<1>2. \A n \in Nat : n \in S => n + 1 \in S
  <2> SUFFICES ASSUME NEW n \in Nat, NEW g, g = [u \in Lower(n) |-> Body(g, u)]
               PROVE  \E h : h = [u \in Lower(n + 1) |-> Body(h, u)]
    OBVIOUS
  <2> DEFINE h == [u \in Lower(n + 1) |-> Body(g, u)]
  <2>1. \A u \in Lower(n + 1) : Body(h, u) = Body(g, u)
    <3> SUFFICES ASSUME NEW u \in Lower(n + 1)
                 PROVE  Body(h, u) = Body(g, u)
      OBVIOUS
    <3>1. \A x \in Links[u] : x \in Lower(n) /\ x \in Lower(n + 1)
      BY LinksBelow, RankFact DEF Lower
    <3>2. \A x \in Links[u] : h[x] = g[x]
      BY <3>1
    <3> HIDE DEF h
    <3>3. Restrict(h, Links[u]) = Restrict(g, Links[u])
      BY <3>2 DEF Restrict
    <3> QED
      BY <3>3 DEF Output
  <2>2. h = [u \in Lower(n + 1) |-> Body(h, u)]
    BY <2>1
  <2> QED
    BY <2>2
<1>3. Nat \subseteq S
  <2> HIDE DEF S
  <2> QED
    BY <1>1, <1>2, UpwardInduction
<1>4. PICK g : g = [u \in Units |-> Body(g, u)]
  <2>1. PICK n \in Nat : Lower(n) = Units
    BY LowerFact
  <2>2. n \in S
    BY <1>3
  <2> QED
    BY <2>1, <2>2
<1> QED
  BY <1>4 DEF Ideal

-----------------------------------------------------------------------------
(* What a key says. *)

LEMMA PlanAtFact ==
  ASSUME NEW p, NEW c, NEW e, NEW u \in Units
  PROVE  /\ PlanAt(p, c, e)[u].key.unit = u
         /\ PlanAt(p, c, e)[u].key.identity = UnitIdentity(p, u, c, TreeHashes(c))
         /\ \A d \in Deps[u] : PlanAt(p, c, e)[u].key.deps[d] = PlanAt(p, c, e)[d]
         /\ PlanAt(p, c, e)[u].digest = InputDigest(p, u, c, e)
<1> DEFINE P == PlanFor(p, c, e, TreeHashes(c))
           B(v) == [key    |-> [unit |-> v, identity |-> UnitIdentity(p, v, c, TreeHashes(c)),
                                deps |-> [d \in Deps[v] |-> P[d]]],
                    digest |-> InputDigest(p, v, c, e)]
<1>1. P = [v \in Units |-> B(v)]
  BY PlanFact
<1>2. P[u] = B(u)
  <2> HIDE DEF P, B
  <2> QED
    BY <1>1
<1> HIDE DEF P
<1>3. /\ P[u].key.unit = u /\ P[u].key.identity = UnitIdentity(p, u, c, TreeHashes(c))
      /\ \A d \in Deps[u] : P[u].key.deps[d] = P[d]
      /\ P[u].digest = InputDigest(p, u, c, e)
  BY <1>2
<1> QED
  BY <1>3 DEF P, PlanAt

\* The files a key names are always those of the shape of the predictions.
LEMMA IdentityFact ==
  ASSUME NEW p \in Preds, NEW r \in Rules, NEW c \in Worlds(r), NEW u \in Units,
         PackageOf[u] \in Local
  PROVE  /\ UnitIdentity(p, u, c, TreeHashes(c)) = [f \in Shape(p, u) |-> c[f]]
         /\ Shape(p, u) \subseteq Files
<1>1. Tree[PackageOf[u]] \subseteq Files /\ p[u].sources \subseteq Files
  BY FreshnessAssumption DEF Preds
<1> QED
  BY <1>1 DEF UnitIdentity, Shape, Known, TreeHashes, Restrict, Pkg

\* Equal keys stand on equal identities and digests of all below.
LEMMA EqualBelow ==
  ASSUME NEW p, NEW c, NEW e, NEW q, NEW o, NEW f, NEW u \in Units,
         PlanAt(p, c, e)[u].key = PlanAt(q, o, f)[u].key
  PROVE  \A w \in Below(u) :
           /\ UnitIdentity(p, w, c, TreeHashes(c)) = UnitIdentity(q, w, o, TreeHashes(o))
           /\ w # u => InputDigest(p, w, c, e) = InputDigest(q, w, o, f)
<1> DEFINE P == PlanAt(p, c, e)
           Q == PlanAt(q, o, f)
           S == {w \in Units : P[w].key = Q[w].key /\ (w # u => P[w].digest = Q[w].digest)}
<1>1. S \in SUBSET Units /\ u \in S
  OBVIOUS
<1>2. \A x \in S : Deps[x] \subseteq S
  <2> SUFFICES ASSUME NEW x \in S, NEW d \in Deps[x]
               PROVE  d \in S
    OBVIOUS
  <2>1. P[x].key.deps[d] = P[d]
    BY PlanAtFact
  <2>2. Q[x].key.deps[d] = Q[d]
    BY PlanAtFact
  <2>3. P[x].key = Q[x].key
    OBVIOUS
  <2>4. d \in Units
    BY RankFact
  <2> HIDE DEF P, Q
  <2>5. P[d] = Q[d]
    BY <2>1, <2>2, <2>3
  <2> QED
    BY <2>4, <2>5
<1> HIDE DEF S
<1>3. Below(u) \subseteq S
  BY <1>1, <1>2 DEF Below
<1>4. \A w \in Units : /\ P[w].key.identity = UnitIdentity(p, w, c, TreeHashes(c))
                       /\ P[w].digest = InputDigest(p, w, c, e)
  BY PlanAtFact
<1>5. \A w \in Units : /\ Q[w].key.identity = UnitIdentity(q, w, o, TreeHashes(o))
                       /\ Q[w].digest = InputDigest(q, w, o, f)
  BY PlanAtFact
<1> QED
  BY <1>3, <1>4, <1>5, BelowFact DEF S

\* Where nothing varies, everything agrees.
LEMMA Unvaried ==
  ASSUME NEW r \in Rules, NEW c \in Worlds(r), NEW o \in Worlds(r),
         NEW e \in r.envs, NEW f \in r.envs
  PROVE  /\ c \in [Files -> Contents] /\ e \in [Vars -> Contents]
         /\ \A x \in Files : x \notin Varying(r) => c[x] = o[x]
         /\ \A v \in Vars : v \notin VaryingVars(r) => e[v] = f[v]
         /\ \A w \in Units : PackageOf[w] \notin Local => Pkg(w) \cap Varying(r) = {}
<1>1. \A w \in Units : PackageOf[w] \in DOMAIN Tree
  BY FreshnessAssumption
<1> QED
  BY <1>1, FreshnessAssumption DEF Worlds, Varying, VaryingVars, Pkg

\* What a unit looks at.
LEMMA LooksFact ==
  ASSUME NEW r \in Rules, NEW c \in Worlds(r), NEW u \in Units
  PROVE  LET rd == Looks(r, u, c) IN
         /\ rd \in [files : SUBSET Files, vars : SUBSET Vars, declared : BOOLEAN]
         /\ \A o \in Worlds(r) : Agree(rd.files, c, o) => Looks(r, u, o) = rd
         /\ u \in Runs /\ ~rd.declared => rd.vars = {} /\ rd.files \subseteq Pkg(u)
         /\ Pkg(u) \subseteq Files
<1>1. c \in [Files -> Contents] /\ \A o \in Worlds(r) : o \in [Files -> Contents]
  BY DEF Worlds
<1>2. PackageOf[u] \in DOMAIN Tree
  BY FreshnessAssumption
<1> DEFINE rd == Reads(r.programs, u, c)
<1>3. /\ rd \in [files : SUBSET Files, vars : SUBSET Vars, declared : BOOLEAN]
      /\ \A o \in [Files -> Contents] :
           (\A f \in rd.files : o[f] = c[f]) => Reads(r.programs, u, o) = rd
      /\ u \in Runs /\ ~rd.declared => rd.vars = {} /\ rd.files \subseteq Tree[PackageOf[u]]
  BY <1>1, FreshnessAssumption
<1>4. Tree[PackageOf[u]] \subseteq Files
  BY <1>2, FreshnessAssumption
<1> HIDE DEF rd
<1>5. Looks(r, u, c) = rd
  BY DEF Looks, rd
<1>6. ASSUME NEW o \in Worlds(r), Agree(rd.files, c, o)
      PROVE  Looks(r, u, o) = rd
  BY <1>1, <1>3, <1>6 DEF Looks, Agree
<1> QED
  BY <1>3, <1>4, <1>5, <1>6 DEF Pkg

LEMMA DigestFact ==
  ASSUME NEW p \in Preds, NEW q \in Preds, NEW r \in Rules,
         NEW c \in Worlds(r), NEW o \in Worlds(r), NEW e \in r.envs, NEW f \in r.envs,
         NEW w \in Units, InputDigest(p, w, c, e) = InputDigest(q, w, o, f)
  PROVE  Agree(q[w].files, c, o) /\ Agree(q[w].vars, e, f)
<1>1. /\ p[w].vars \subseteq Vars /\ p[w].files \subseteq Files
      /\ q[w].vars \subseteq Vars /\ q[w].files \subseteq Files
  BY DEF Preds
<1>2. CASE q[w].vars \cup q[w].files = {}
  BY <1>2 DEF Agree
<1>3. CASE q[w].vars \cup q[w].files # {}
  <2> DEFINE D(a, b, g, h) == <<[x \in a |-> g[x]], [x \in b |-> h[x]]>>
  <2>1. /\ D(q[w].vars, q[w].files, f, o) \in [q[w].vars -> Contents] \X [q[w].files -> Contents]
        /\ InputDigest(q, w, o, f) = D(q[w].vars, q[w].files, f, o)
    BY <1>1, <1>3, Unvaried DEF InputDigest, Restrict
  <2>2. InputDigest(q, w, o, f) # None
    BY <1>1, <2>1, FreshnessAssumption
  <2>3. InputDigest(p, w, c, e) = D(p[w].vars, p[w].files, e, c)
    BY <2>2 DEF InputDigest, Restrict
  <2>4. /\ [x \in p[w].vars |-> e[x]] = [x \in q[w].vars |-> f[x]]
        /\ [x \in p[w].files |-> c[x]] = [x \in q[w].files |-> o[x]]
    BY <2>1, <2>3
  <2>5. p[w].vars = q[w].vars /\ p[w].files = q[w].files
    BY <2>4
  <2> QED
    BY <2>4, <2>5 DEF Agree
<1> QED
  BY <1>2, <1>3

\* Sources that agree with one key's agree with those of an equal key, when
\* the second was made knowing what the units look at in them.
LEMMA Transfer ==
  ASSUME NEW r \in Rules, NEW p \in Preds, NEW q \in Preds,
         NEW c \in Worlds(r), NEW o \in Worlds(r), NEW e \in r.envs, NEW f \in r.envs,
         NEW u \in Units, PlanAt(p, c, e)[u].key = PlanAt(q, o, f)[u].key,
         NEW c0 \in Worlds(r), NEW e0 \in r.envs, Near(r, u, c0, e0, c, e),
         \A w \in Below(u) : Covers(r, q, w, c0)
  PROVE  Near(r, u, c0, e0, o, f)
<1> DEFINE rd(w) == Looks(r, w, c0)
<1>1. ASSUME NEW w \in Below(u)
      PROVE  Agree(rd(w).files \cap Pkg(w), c0, o)
  <2> SUFFICES ASSUME NEW x \in rd(w).files \cap Pkg(w)
               PROVE  c0[x] = o[x]
    BY DEF Agree
  <2>1. w \in Units /\ x \in Files
    BY BelowFact, LooksFact
  <2>2. CASE x \notin Varying(r)
    BY <2>1, <2>2, Unvaried
  <2>3. CASE x \in Varying(r)
    <3>1. PackageOf[w] \in Local
      BY <2>1, <2>3, Unvaried
    <3>2. x \in Shape(q, w)
      BY <1>1, <2>3, <3>1 DEF Covers
    <3>3. [y \in Shape(p, w) |-> c[y]] = [y \in Shape(q, w) |-> o[y]]
      <4>1. UnitIdentity(p, w, c, TreeHashes(c)) = UnitIdentity(q, w, o, TreeHashes(o))
        BY EqualBelow
      <4>2. /\ UnitIdentity(p, w, c, TreeHashes(c)) = [y \in Shape(p, w) |-> c[y]]
            /\ UnitIdentity(q, w, o, TreeHashes(o)) = [y \in Shape(q, w) |-> o[y]]
        BY <2>1, <3>1, IdentityFact
      <4> QED
        BY <4>1, <4>2
    <3>4. c[x] = o[x]
      <4>1. Shape(p, w) = Shape(q, w)
        BY <3>3
      <4> QED
        BY <3>2, <3>3, <4>1
    <3>5. c0[x] = c[x]
      BY <1>1 DEF Near, SameInputs, Agree
    <3> QED
      BY <3>4, <3>5
  <2> QED
    BY <2>2, <2>3
<1>2. ASSUME NEW w \in Below(u) \ {u}
      PROVE  SameInputs(r, w, c0, e0, o, f)
  <2>1. w \in Units
    BY BelowFact
  <2>2. Agree(q[w].files, c, o) /\ Agree(q[w].vars, e, f)
    <3>1. InputDigest(p, w, c, e) = InputDigest(q, w, o, f)
      BY <1>2, EqualBelow
    <3> QED
      BY <2>1, <3>1, DigestFact
  <2>3. Agree(rd(w).files, c0, c) /\ Agree(rd(w).vars, e0, e)
    BY <1>2 DEF Near, SameInputs
  <2>4. rd(w).files \subseteq Files /\ rd(w).vars \subseteq Vars
    BY <2>1, LooksFact
  <2>5. /\ rd(w).vars \cap VaryingVars(r) \subseteq q[w].vars
        /\ (rd(w).files \ Pkg(w)) \cap Varying(r) \subseteq q[w].files
    BY DEF Covers
  <2>6. \A x \in rd(w).files : c0[x] = o[x]
    <3> SUFFICES ASSUME NEW x \in rd(w).files
                 PROVE  c0[x] = o[x]
      OBVIOUS
    <3>1. CASE x \in Pkg(w)
      BY <1>1, <3>1 DEF Agree
    <3>2. CASE x \notin Varying(r)
      BY <2>4, <3>2, Unvaried
    <3>3. CASE x \notin Pkg(w) /\ x \in Varying(r)
      BY <2>2, <2>3, <2>5, <3>3 DEF Agree
    <3> QED
      BY <3>1, <3>2, <3>3
  <2>7. \A v \in rd(w).vars : e0[v] = f[v]
    <3> SUFFICES ASSUME NEW v \in rd(w).vars
                 PROVE  e0[v] = f[v]
      OBVIOUS
    <3>1. CASE v \notin VaryingVars(r)
      BY <2>4, <3>1, Unvaried
    <3>2. CASE v \in VaryingVars(r)
      BY <2>2, <2>3, <2>5, <3>2 DEF Agree
    <3> QED
      BY <3>1, <3>2
  <2> QED
    BY <2>6, <2>7 DEF SameInputs, Agree
<1> QED
  BY <1>1, <1>2, BelowFact DEF Near

\* Predictions that know what a unit looks at make keys that cover it.
LEMMA KnowsCovers ==
  ASSUME NEW r, NEW p, NEW w, NEW c, Knows(r, p, w, c)
  PROVE  Covers(r, p, w, c)
BY DEF Knows, Covers, Shape, Known

LEMMA SettledCovers ==
  ASSUME NEW r, NEW p, NEW w \in Units, NEW c \in Worlds(r), Settled(r), SettledPred(r, p)
  PROVE  Covers(r, p, w, c)
BY DEF Settled, SettledPred, Covers, Shape

\* When its own inputs hold too, nothing below a unit has changed.
LEMMA NearHolds ==
  ASSUME NEW r \in Rules, NEW u \in Units, NEW c0 \in Worlds(r), NEW e0 \in r.envs,
         NEW c, NEW e, Near(r, u, c0, e0, c, e), Holds(Found(r, u, c0, e0), c, e)
  PROVE  \A w \in Below(u) : SameInputs(r, w, c0, e0, c, e)
<1> DEFINE rd == Looks(r, u, c0)
<1>1. /\ DOMAIN Found(r, u, c0, e0).files = rd.files \ Pkg(u)
      /\ \A x \in rd.files \ Pkg(u) : Found(r, u, c0, e0).files[x] = c0[x]
      /\ DOMAIN Found(r, u, c0, e0).vars = rd.vars
      /\ \A v \in rd.vars : Found(r, u, c0, e0).vars[v] = e0[v]
  BY DEF Found, Restrict
<1>2. Agree(rd.files, c0, c) /\ Agree(rd.vars, e0, e)
  BY <1>1 DEF Near, Holds, Agree
<1> QED
  BY <1>2 DEF Near, SameInputs

\* A clean build makes a unit of what it looks at and of what it links.
LEMMA MadeFact ==
  ASSUME NEW r, NEW c, NEW e, NEW u \in Units
  PROVE  Made(r, c, e)[u] = Output(u, Looks(r, u, c), c, e, Made(r, c, e))
<1> DEFINE I == Ideal(r.programs, c, e)
           B(v) == Output(v, Reads(r.programs, v, c), c, e, I)
<1>1. I = [v \in Units |-> B(v)]
  BY IdealFact
<1> HIDE DEF B
<1>2. I[u] = B(u)
  BY <1>1
<1> QED
  BY <1>2 DEF B, Made, Looks

\* ... so it looks at the same, and a clean build makes the same of it.
LEMMA MadeSame ==
  ASSUME NEW r \in Rules, NEW u \in Units, NEW c0 \in Worlds(r), NEW e0,
         NEW c \in Worlds(r), NEW e, \A w \in Below(u) : SameInputs(r, w, c0, e0, c, e)
  PROVE  /\ \A w \in Below(u) : Looks(r, w, c) = Looks(r, w, c0)
         /\ Made(r, c0, e0)[u] = Made(r, c, e)[u]
<1>1. ASSUME NEW w \in Below(u)
      PROVE  Looks(r, w, c) = Looks(r, w, c0)
  BY BelowFact, LooksFact DEF SameInputs
<1> DEFINE S == {w \in Units : w \in Below(u) => Made(r, c0, e0)[w] = Made(r, c, e)[w]}
<1>2. ASSUME NEW w \in Units, \A x \in Units : Rank[x] < Rank[w] => x \in S
      PROVE  w \in S
  <2> SUFFICES ASSUME w \in Below(u)
               PROVE  Made(r, c0, e0)[w] = Made(r, c, e)[w]
    OBVIOUS
  <2>1. /\ Made(r, c0, e0)[w] = Output(w, Looks(r, w, c0), c0, e0, Made(r, c0, e0))
        /\ Made(r, c, e)[w] = Output(w, Looks(r, w, c), c, e, Made(r, c, e))
    BY MadeFact
  <2>2. \A x \in Links[w] : Made(r, c0, e0)[x] = Made(r, c, e)[x]
    BY <1>2, LinksBelow, BelowFact
  <2>3. Looks(r, w, c) = Looks(r, w, c0)
    BY <1>1
  <2>4. Agree(Looks(r, w, c0).files, c0, c) /\ Agree(Looks(r, w, c0).vars, e0, e)
    BY DEF SameInputs
  <2> QED
    BY <2>1, <2>2, <2>3, <2>4 DEF Output, Restrict, Agree
<1>3. Units \subseteq S
  <2> HIDE DEF S
  <2> QED
    BY <1>2, RankInduction
<1> QED
  BY <1>1, <1>3, BelowFact

-----------------------------------------------------------------------------
(* What is worth something remains so while more is learnt. *)

LEMMA MoreLearnt ==
  ASSUME NEW r, NEW K, NEW L, K \subseteq L
  PROVE  /\ \A u \in Units : \A i, o, c, e :
              Traced(r, K, u, i, o, c, e) => Traced(r, L, u, i, o, c, e)
         /\ \A key, i, o : Sound(r, K, key, i, o) => Sound(r, L, key, i, o)
         /\ \A rec, o : SlotSound(r, K, rec, o) => SlotSound(r, L, rec, o)
<1>1. \A u \in Units : \A i, o, c, e :
        Traced(r, K, u, i, o, c, e) => Traced(r, L, u, i, o, c, e)
  BY DEF Traced
<1>2. \A key, i, o : Sound(r, K, key, i, o) => Sound(r, L, key, i, o)
  BY <1>1 DEF Sound
<1> QED
  BY <1>1, <1>2 DEF SlotSound

\* A sound entry, found under the key of a plan that knows what it was made
\* of, is traced to what was planned.
LEMMA SoundTraced ==
  ASSUME NEW r \in Rules, NEW K, NEW q \in Preds, NEW o \in Worlds(r), NEW f \in r.envs,
         NEW u \in Units, NEW i, NEW out,
         Sound(r, K, PlanAt(q, o, f)[u].key, i, out),
         \A w \in Units : \A c0 \in Worlds(r) : <<w, c0>> \in K => Covers(r, q, w, c0)
  PROVE  Traced(r, K, u, i, out, o, f)
<1>1. PICK v \in Units, p \in Preds, c \in Worlds(r), e \in r.envs :
        /\ PlanAt(p, c, e)[v].key = PlanAt(q, o, f)[u].key
        /\ Traced(r, K, v, i, out, c, e)
  BY DEF Sound
<1>2. v = u
  <2>1. PlanAt(p, c, e)[v].key.unit = v
    BY PlanAtFact
  <2>2. PlanAt(q, o, f)[u].key.unit = u
    BY PlanAtFact
  <2> QED
    BY <1>1, <2>1, <2>2
<1>3. PICK c0 \in Worlds(r), e0 \in r.envs :
        /\ Near(r, u, c0, e0, c, e)
        /\ out = Made(r, c0, e0)[u] /\ i = Found(r, u, c0, e0)
        /\ \A w \in Below(u) : <<w, c0>> \in K
  BY <1>1, <1>2 DEF Traced
<1>4. \A w \in Below(u) : Covers(r, q, w, c0)
  BY <1>3, BelowFact
<1>5. Near(r, u, c0, e0, o, f)
  <2>1. PlanAt(p, c, e)[u].key = PlanAt(q, o, f)[u].key
    BY <1>1, <1>2
  <2>2. Near(r, u, c0, e0, c, e)
    BY <1>3
  <2> QED
    BY <1>4, <2>1, <2>2, Transfer
<1> QED
  BY <1>3, <1>5 DEF Traced

\* Traced outputs whose own inputs hold are right, and all below is known.
LEMMA TracedRight ==
  ASSUME NEW r \in Rules, NEW K \in SUBSET (Units \X Worlds(r)), NEW u \in Units, NEW i, NEW out,
         NEW c \in Worlds(r), NEW e \in r.envs,
         Traced(r, K, u, i, out, c, e), Holds(i, c, e)
  PROVE  /\ out = Made(r, c, e)[u]
         /\ \E c0 \in Worlds(r) :
              \A w \in Below(u) : Looks(r, w, c) = Looks(r, w, c0) /\ <<w, c0>> \in K
<1>1. PICK c0 \in Worlds(r), e0 \in r.envs :
        /\ Near(r, u, c0, e0, c, e)
        /\ out = Made(r, c0, e0)[u] /\ i = Found(r, u, c0, e0)
        /\ \A w \in Below(u) : <<w, c0>> \in K
  BY DEF Traced
<1>2. \A w \in Below(u) : SameInputs(r, w, c0, e0, c, e)
  BY <1>1, NearHolds
<1>3. /\ \A w \in Below(u) : Looks(r, w, c) = Looks(r, w, c0)
      /\ Made(r, c0, e0)[u] = Made(r, c, e)[u]
  BY <1>2, MadeSame
<1> QED
  BY <1>1, <1>3

\* What is known of some sources is known of all that look the same.
LEMMA LearntAlike ==
  ASSUME NEW w \in Units, NEW c \in Worlds(rules), NEW c0 \in Worlds(rules),
         <<w, c0>> \in Learnt, Looks(rules, w, c) = Looks(rules, w, c0)
  PROVE  <<w, c>> \in Learnt
BY DEF Learnt, Knows

-----------------------------------------------------------------------------
(* A checkout that a step leaves alone. *)

Kept(o) ==
  /\ now'[o] = now[o] /\ disk'[o] = disk[o] /\ saved'[o] = saved[o]
  /\ proc'[o].phase = proc[o].phase
  /\ Busy(o) => /\ proc'[o].env = proc[o].env /\ proc'[o].trees = proc[o].trees
                /\ proc'[o].plan = proc[o].plan /\ proc'[o].new = proc[o].new
                /\ proc'[o].mem = proc[o].mem /\ proc'[o].todo = proc[o].todo
                /\ proc'[o].compiled = proc[o].compiled

LEMMA LearntType == Learnt \subseteq Units \X Worlds(rules)
BY DEF Learnt

LEMMA OthersKept ==
  ASSUME FreshInv, rules' = rules, Learnt \subseteq Learnt',
         \A x \in store' : Sound(rules, Learnt', x.key, x.inputs, x.out),
         NEW o \in Dirs, Kept(o), Busy(o) => Settled(rules) \/ store' \subseteq store
  PROVE  SlotsSound(o)' /\ (Busy(o) => BuildSound(o))'
<1>0. rules \in Rules /\ now[o] \in Worlds(rules)
  BY DEF FreshInv, Types
<1>1. SlotsSound(o)'
  <2>1. SlotsSound(o)
    BY DEF FreshInv
  <2>2. \A rec, out : SlotSound(rules, Learnt, rec, out) => SlotSound(rules, Learnt', rec, out)
    BY MoreLearnt
  <2> QED
    BY <2>1, <2>2 DEF SlotsSound, Kept
<1>2. ASSUME Busy(o)'
      PROVE  BuildSound(o)'
  <2>1. Busy(o) /\ BuildSound(o)
    BY <1>2 DEF Busy, Kept, FreshInv
  <2>2. /\ now'[o] = now[o] /\ disk'[o] = disk[o] /\ saved'[o] = saved[o]
        /\ proc'[o].phase = proc[o].phase
        /\ proc'[o].env = proc[o].env /\ proc'[o].trees = proc[o].trees
        /\ proc'[o].plan = proc[o].plan /\ proc'[o].new = proc[o].new
        /\ proc'[o].mem = proc[o].mem /\ proc'[o].todo = proc[o].todo
        /\ proc'[o].compiled = proc[o].compiled
    BY <2>1 DEF Kept
  <2>3. /\ (proc[o].trees = TreeHashes(now[o]))'
        /\ Planned(rules, proc[o].plan, now[o], proc[o].env)'
        /\ (proc[o].phase = "planned" => DOMAIN proc[o].compiled = {})'
        /\ (proc[o].phase \in {"verify", "move"} =>
              Planned(rules, proc[o].new, now[o], proc[o].env))'
    BY <2>1, <2>2 DEF BuildSound
  <2>4. /\ \A u \in Units : \A i, out, c, e :
             Traced(rules, Learnt, u, i, out, c, e) => Traced(rules, Learnt', u, i, out, c, e)
        /\ \A rec, out : SlotSound(rules, Learnt, rec, out) => SlotSound(rules, Learnt', rec, out)
    BY MoreLearnt
  <2>5. KeysTraced(o)'
    <3> SUFFICES ASSUME (proc[o].phase \in Fixed)', NEW u \in Units, NEW x \in store',
                        x.key = Key(o, u)'
                 PROVE  Traced(rules, Learnt', u, x.inputs, x.out, now[o], proc[o].env)
      BY <2>2 DEF KeysTraced
    <3>1. x.key = Key(o, u)
      BY <2>2 DEF Key
    <3>2. CASE x \in store
      BY <2>1, <2>2, <2>4, <3>1, <3>2 DEF BuildSound, KeysTraced
    <3>3. CASE x \notin store
      <4>1. Settled(rules)
        BY <2>1, <3>3
      <4>2. PICK q \in Preds : /\ proc[o].plan = PlanAt(q, now[o], proc[o].env)
                               /\ SettledPred(rules, q)
        BY <2>1, <4>1 DEF BuildSound, Planned
      <4>3. Sound(rules, Learnt', PlanAt(q, now[o], proc[o].env)[u].key, x.inputs, x.out)
        BY <3>1, <4>2 DEF Key
      <4>4. \A w \in Units : \A c0 \in Worlds(rules) : Covers(rules, q, w, c0)
        BY <1>0, <4>1, <4>2, SettledCovers
      <4>5. proc[o].env \in rules.envs
        BY <2>1 DEF FreshInv, Types, Build
      <4> QED
        BY <1>0, <4>3, <4>4, <4>5, SoundTraced
    <3> QED
      BY <3>2, <3>3
  <2>6. SlotsTraced(o)'
    BY <2>1, <2>2, <2>4 DEF BuildSound, SlotsTraced, Key
  <2>7. (\A u \in Units : SlotSound(rules, Learnt, proc[o].mem[u], disk[o][u]))'
    BY <2>1, <2>2, <2>4 DEF BuildSound
  <2>8. \A u : Done(o, u) => Done(o, u)'
    BY <2>2 DEF Done, Right
  <2>9. Building(o)'
    <3> SUFFICES ASSUME (proc[o].phase = "build")'
                 PROVE  Building(o)'
      BY DEF Building
    <3>1. Building(o) /\ proc[o].phase = "build"
      BY <2>1, <2>2 DEF BuildSound
    <3> QED
      BY <2>2, <2>8, <3>1 DEF Building
  <2>10. Built(o)'
    BY <2>1, <2>2 DEF BuildSound, Built, Right
  <2> QED
    BY <2>3, <2>5, <2>6, <2>7, <2>9, <2>10 DEF BuildSound
<1> QED
  BY <1>1, <1>2

-----------------------------------------------------------------------------
(* A step of one build. *)

LEMMA Disturbances ==
  ASSUME Undisturbed(rules), FreshInv
  PROVE  /\ rules.during = {} /\ Forthright(rules)
         /\ rules.together \/ rules.crash => Settled(rules)
BY DEF Undisturbed

\* What a build that has begun is known to keep.
Going(d) ==
  /\ rules \in Rules /\ pred \in Preds /\ now[d] \in Worlds(rules)
  /\ Build(proc[d]) /\ BuildSound(d) /\ SlotsSound(d)

LEMMA GoingFact ==
  ASSUME FreshInv, NEW d \in Dirs, Busy(d)
  PROVE  Going(d)
BY DEF FreshInv, Types, Going

LEMMA BuildStep ==
  ASSUME FreshInv, NEW d \in Dirs, Busy(d) \/ Settled(rules) \/ \A o \in Dirs : ~Busy(o),
         rules' = rules, now' = now, pred' \in Preds,
         proc' = [o \in Dirs |-> proc'[o]], Busy(d)' => Build(proc'[d]),
         disk' = [o \in Dirs |-> disk'[o]], disk'[d] = [u \in Units |-> disk'[d][u]],
         saved' = [o \in Dirs |-> saved'[o]], saved'[d] = [u \in Units |-> saved'[d][u]],
         last' = [o \in Dirs |-> last'[o]],
         \A o \in Dirs \ {d} : Kept(o) /\ (Busy(o) => Build(proc'[o])),
         Learnt \subseteq Learnt', Settled(rules) => SettledPred(rules, pred'),
         \A x \in store' : IsEntry(x) /\ Sound(rules, Learnt', x.key, x.inputs, x.out),
         SlotsSound(d)', (Busy(d) => BuildSound(d))'
  PROVE  FreshInv'
<1>1. Types'
  <2>1. ASSUME NEW o \in Dirs
        PROVE  /\ now'[o] \in Worlds(rules')
               /\ disk'[o] = [u \in Units |-> disk'[o][u]]
               /\ saved'[o] = [u \in Units |-> saved'[o][u]]
               /\ Busy(o)' => Build(proc'[o])
    <3>1. /\ now[o] \in Worlds(rules) /\ disk[o] = [u \in Units |-> disk[o][u]]
          /\ saved[o] = [u \in Units |-> saved[o][u]]
      BY DEF FreshInv, Types
    <3>2. CASE o = d
      BY <3>1, <3>2
    <3>3. CASE o # d
      BY <3>1, <3>3 DEF Kept, Busy
    <3> QED
      BY <3>2, <3>3
  <2> QED
    BY <2>1 DEF FreshInv, Types, Build
<1>2. ASSUME ~Settled(rules)
      PROVE  \A a, o \in Dirs : Busy(a)' /\ Busy(o)' => a = o
  BY <1>2 DEF FreshInv, Busy, Kept
<1>3. ASSUME NEW o \in Dirs
      PROVE  (SlotsSound(o) /\ (Busy(o) => BuildSound(o)))'
  <2>1. CASE o = d
    BY <2>1
  <2>2. CASE o # d
    <3>1. Busy(o) => Settled(rules)
      BY <2>2 DEF FreshInv
    <3> QED
      BY <2>2, <3>1, OthersKept
  <2> QED
    BY <2>1, <2>2
<1> QED
  BY <1>1, <1>2, <1>3 DEF FreshInv

\* The same for a step that teaches nothing and stores nothing.
LEMMA PlainStep ==
  ASSUME FreshInv, NEW d \in Dirs, Busy(d) \/ Settled(rules) \/ \A o \in Dirs : ~Busy(o),
         NEW b, Busy(d)' => Build(b),
         proc' = [proc EXCEPT ![d] = b],
         disk' = [o \in Dirs |-> IF o = d THEN disk'[d] ELSE disk[o]],
         disk'[d] = [u \in Units |-> disk'[d][u]],
         saved' = [o \in Dirs |-> IF o = d THEN saved'[d] ELSE saved[o]],
         saved'[d] = [u \in Units |-> saved'[d][u]],
         last' = [o \in Dirs |-> last'[o]],
         rules' = rules, now' = now, pred' = pred, store' = store,
         Learnt \subseteq Learnt', SlotsSound(d)', (Busy(d) => BuildSound(d))'
  PROVE  FreshInv'
<1>1. proc = [o \in Dirs |-> proc[o]] /\ pred \in Preds /\ \A o \in Dirs : Busy(o) => Build(proc[o])
  BY DEF FreshInv, Types
<1>2. proc' = [o \in Dirs |-> proc'[o]] /\ proc'[d] = b
  BY <1>1
<1>3. \A o \in Dirs \ {d} : proc'[o] = proc[o] /\ disk'[o] = disk[o] /\ saved'[o] = saved[o]
  BY <1>1
<1>4. \A o \in Dirs \ {d} : Kept(o) /\ (Busy(o) => Build(proc'[o]))
  BY <1>1, <1>3 DEF Kept
<1>5. /\ disk' = [o \in Dirs |-> disk'[o]] /\ saved' = [o \in Dirs |-> saved'[o]]
  OBVIOUS
<1>6. \A x \in store' : IsEntry(x) /\ Sound(rules, Learnt', x.key, x.inputs, x.out)
  BY MoreLearnt DEF FreshInv
<1>7. Settled(rules) => SettledPred(rules, pred')
  BY DEF FreshInv
<1> QED
  BY <1>1, <1>2, <1>4, <1>5, <1>6, <1>7, BuildStep

\* Nothing is forgotten by a step that leaves what was compiled to be looked into.
LEMMA NothingForgotten ==
  ASSUME rules' = rules, pred' = pred,
         \A o \in Dirs : proc[o].phase = "build" /\ DOMAIN proc[o].compiled # {} =>
           /\ proc'[o].phase = "build"
           /\ \A w \in DOMAIN proc[o].compiled :
                w \in DOMAIN proc'[o].compiled /\ proc'[o].compiled[w] = proc[o].compiled[w]
  PROVE  Learnt \subseteq Learnt'
<1> SUFFICES ASSUME NEW w \in Units, NEW c \in Worlds(rules), <<w, c>> \in Learnt
             PROVE  <<w, c>> \in Learnt'
  BY LearntType
<1>1. CASE Settled(rules) \/ Knows(rules, pred, w, c)
  BY <1>1 DEF Learnt
<1>2. ASSUME NEW o \in Dirs, proc[o].phase = "build", w \in DOMAIN proc[o].compiled,
             proc[o].compiled[w] = Looks(rules, w, c)
      PROVE  <<w, c>> \in Learnt'
  <2>1. /\ proc'[o].phase = "build" /\ w \in DOMAIN proc'[o].compiled
        /\ proc'[o].compiled[w] = Looks(rules', w, c)
    BY <1>2
  <2> QED
    BY <2>1 DEF Learnt
<1> QED
  BY <1>1, <1>2 DEF Learnt

\* ... and what is traced in a build stays so.
LEMMA StillTraced ==
  ASSUME NEW d \in Dirs, Going(d), rules' = rules, now' = now, Learnt \subseteq Learnt',
         proc[d].phase \in Fixed, proc'[d].env = proc[d].env, proc'[d].plan = proc[d].plan
  PROVE  /\ store' = store => KeysTraced(d)'
         /\ disk' = disk /\ proc'[d].mem = proc[d].mem => SlotsTraced(d)'
         /\ disk' = disk /\ proc'[d].mem = proc[d].mem =>
              (\A u \in Units : SlotSound(rules, Learnt, proc[d].mem[u], disk[d][u]))'
         /\ \A u : disk'[d][u] = disk[d][u] /\ Done(d, u) => Done(d, u)'
<1>1. /\ \A u \in Units : \A i, out, c, e :
           Traced(rules, Learnt, u, i, out, c, e) => Traced(rules, Learnt', u, i, out, c, e)
      /\ \A rec, out : SlotSound(rules, Learnt, rec, out) => SlotSound(rules, Learnt', rec, out)
  BY MoreLearnt
<1>2. store' = store => KeysTraced(d)'
  BY <1>1 DEF Going, BuildSound, KeysTraced, Key
<1>3. disk' = disk /\ proc'[d].mem = proc[d].mem => SlotsTraced(d)'
  BY <1>1 DEF Going, BuildSound, SlotsTraced, Key
<1>4. disk' = disk /\ proc'[d].mem = proc[d].mem =>
        (\A u \in Units : SlotSound(rules, Learnt, proc[d].mem[u], disk[d][u]))'
  BY <1>1 DEF Going, BuildSound
<1>5. \A u : disk'[d][u] = disk[d][u] /\ Done(d, u) => Done(d, u)'
  BY DEF Done, Right
<1> QED
  BY <1>2, <1>3, <1>4, <1>5

-----------------------------------------------------------------------------
(* From the end of the compiles to the end of the build. *)

\* A build turns to another phase.
LEMMA PhaseStep ==
  ASSUME FreshInv, NEW d \in Dirs, Busy(d), NEW to \in {"rekey", "replan", "move", "done"},
         proc' = [proc EXCEPT ![d].phase = to],
         proc[d].phase \in {"build"} \cup After,
         proc[d].phase = "build" => proc[d].todo = {},
         to = "move" => proc[d].phase = "verify", to \in Fixed => proc[d].phase \in Fixed,
         rules' = rules, now' = now, pred' = pred, store' = store, disk' = disk, last' = last,
         saved' \in {saved, [saved EXCEPT ![d] = proc[d].mem]}
  PROVE  FreshInv'
<1>1. Going(d) /\ proc = [o \in Dirs |-> proc[o]] /\ disk = [o \in Dirs |-> disk[o]]
      /\ saved = [o \in Dirs |-> saved[o]] /\ last = [o \in Dirs |-> last[o]]
      /\ disk[d] = [u \in Units |-> disk[d][u]] /\ saved[d] = [u \in Units |-> saved[d][u]]
  BY GoingFact DEF FreshInv, Types
<1> DEFINE b == [proc[d] EXCEPT !.phase = to]
<1>2. proc' = [proc EXCEPT ![d] = b] /\ proc'[d] = b
  BY <1>1
<1>3. Build(proc[d])
  BY <1>1 DEF Going
<1>4. /\ b.phase = to /\ b.env = proc[d].env /\ b.trees = proc[d].trees /\ b.plan = proc[d].plan
      /\ b.new = proc[d].new /\ b.mem = proc[d].mem /\ b.todo = proc[d].todo
      /\ b.compiled = proc[d].compiled /\ b.grown = proc[d].grown
  BY <1>3 DEF Build, Whole
<1>5. Build(b)
  BY <1>3 DEF Build, Whole, After
<1> HIDE DEF b
<1>6. Learnt \subseteq Learnt'
  <2>1. proc[d].phase = "build" => DOMAIN proc[d].compiled = {}
    BY <1>1 DEF Going, BuildSound, Building, Busy
  <2>2. \A o \in Dirs \ {d} : proc'[o] = proc[o]
    BY <1>1, <1>2
  <2> QED
    BY <2>1, <2>2, NothingForgotten
<1>7. /\ saved'[d] = proc[d].mem \/ saved'[d] = saved[d]
      /\ saved' = [o \in Dirs |-> IF o = d THEN saved'[d] ELSE saved[o]]
  BY <1>1
<1>8. saved'[d] = [u \in Units |-> saved'[d][u]]
  BY <1>1, <1>3, <1>7 DEF Build, Whole
<1>9. SlotsSound(d)'
  <2>1. \A rec, out : SlotSound(rules, Learnt, rec, out) => SlotSound(rules, Learnt', rec, out)
    BY <1>6, MoreLearnt
  <2> QED
    BY <1>1, <1>7, <2>1 DEF Going, BuildSound, SlotsSound
<1>10. BuildSound(d)'
  <2>1. BuildSound(d)
    BY <1>1 DEF Going
  <2>2. /\ (proc[d].trees = TreeHashes(now[d]))'
        /\ Planned(rules, proc[d].plan, now[d], proc[d].env)'
        /\ (proc[d].phase = "planned" => DOMAIN proc[d].compiled = {})'
        /\ (proc[d].phase \in {"verify", "move"} =>
              Planned(rules, proc[d].new, now[d], proc[d].env))'
    BY <1>2, <1>4, <2>1 DEF BuildSound
  <2>3. KeysTraced(d)' /\ SlotsTraced(d)'
    <3>1. CASE to \in Fixed
      BY <1>1, <1>2, <1>4, <1>6, <3>1, StillTraced
    <3>2. CASE to \notin Fixed
      BY <1>2, <1>4, <3>2 DEF KeysTraced, SlotsTraced
    <3> QED
      BY <3>1, <3>2
  <2>4. (\A u \in Units : SlotSound(rules, Learnt, proc[d].mem[u], disk[d][u]))'
    <3>1. \A rec, out : SlotSound(rules, Learnt, rec, out) => SlotSound(rules, Learnt', rec, out)
      BY <1>6, MoreLearnt
    <3> QED
      BY <1>2, <1>4, <2>1, <3>1 DEF BuildSound
  <2>5. Building(d)'
    BY <1>2, <1>4 DEF Building
  <2>6. Built(d)'
    <3>1. \A u \in Roots : Right(d, u)
      BY <2>1 DEF BuildSound, Building, Built, Done, After
    <3> QED
      BY <1>2, <1>4, <3>1 DEF Built, Right
  <2> QED
    BY <2>2, <2>3, <2>4, <2>5, <2>6 DEF BuildSound
<1>11. /\ disk' = [o \in Dirs |-> IF o = d THEN disk'[d] ELSE disk[o]]
       /\ disk'[d] = [u \in Units |-> disk'[d][u]] /\ last' = [o \in Dirs |-> last'[o]]
  BY <1>1
<1> QED
  BY <1>2, <1>5, <1>6, <1>7, <1>8, <1>9, <1>10, <1>11, PlainStep

LEMMA FinishStep ==
  ASSUME FreshInv, NEW d \in Dirs, Finish(d)
  PROVE  FreshInv'
<1> DEFINE to == IF proc[d].grown THEN "rekey" ELSE "done"
<1>1. /\ Busy(d) /\ to \in {"rekey", "done"} /\ proc[d].phase = "build" /\ proc[d].todo = {}
      /\ proc' = [proc EXCEPT ![d].phase = to]
  BY DEF Finish, Busy
<1> HIDE DEF to
<1>2. /\ rules' = rules /\ now' = now /\ pred' = pred /\ store' = store /\ disk' = disk
      /\ last' = last /\ saved' = [saved EXCEPT ![d] = proc[d].mem]
  BY DEF Finish
<1> QED
  BY <1>1, <1>2, PhaseStep DEF Fixed

LEMMA RekeyCheckStep ==
  ASSUME FreshInv, NEW d \in Dirs, RekeyCheck(d)
  PROVE  FreshInv'
<1> DEFINE to == IF TreeHashes(now[d]) = proc[d].trees THEN "replan" ELSE "done"
<1>1. /\ Busy(d) /\ to \in {"replan", "done"} /\ proc[d].phase = "rekey"
      /\ proc' = [proc EXCEPT ![d].phase = to]
  BY DEF RekeyCheck, Busy
<1> HIDE DEF to
<1>2. /\ rules' = rules /\ now' = now /\ pred' = pred /\ store' = store /\ disk' = disk
      /\ last' = last /\ saved' = saved
  BY DEF RekeyCheck
<1> QED
  BY <1>1, <1>2, PhaseStep DEF Fixed, After

LEMMA VerifyStep ==
  ASSUME FreshInv, NEW d \in Dirs, Verify(d)
  PROVE  FreshInv'
<1> DEFINE ok == \A u \in Moved(d) :
             proc[d].plan[u].digest # proc[d].new[u].digest =>
               OwnsSlot(d, u) /\ InputsHold(d, proc[d].mem[u].inputs)
           to == IF ok THEN "move" ELSE "done"
<1>1. /\ Busy(d) /\ proc[d].phase = "verify" /\ proc' = [proc EXCEPT ![d].phase = to]
  BY DEF Verify, Busy
<1>2. to \in {"move", "done"}
  OBVIOUS
<1> HIDE DEF to
<1>3. /\ rules' = rules /\ now' = now /\ pred' = pred /\ store' = store /\ disk' = disk
      /\ last' = last /\ saved' = saved
  BY DEF Verify
<1> QED
  BY <1>1, <1>2, <1>3, PhaseStep DEF Fixed, After

LEMMA SaveRekeyedStep ==
  ASSUME FreshInv, NEW d \in Dirs, SaveRekeyed(d)
  PROVE  FreshInv'
<1>1. /\ Busy(d) /\ proc[d].phase = "resave" /\ proc' = [proc EXCEPT ![d].phase = "done"]
      /\ rules' = rules /\ now' = now /\ pred' = pred /\ store' = store /\ disk' = disk
      /\ last' = last /\ saved' = [saved EXCEPT ![d] = proc[d].mem]
  BY DEF SaveRekeyed, Busy
<1> QED
  BY <1>1, PhaseStep DEF Fixed, After

\* The new plan is one from the predictions as they are.
LEMMA ReplanStep ==
  ASSUME FreshInv, NEW d \in Dirs, Replan(d)
  PROVE  FreshInv'
<1>1. /\ Busy(d) /\ proc[d].phase = "replan"
      /\ rules' = rules /\ now' = now /\ pred' = pred /\ store' = store /\ disk' = disk
      /\ last' = last /\ saved' = saved
      /\ proc' = [proc EXCEPT ![d].phase = "verify",
                    ![d].new = PlanFor(pred, now[d], proc[d].env, proc[d].trees)]
  BY DEF Replan, Busy
<1>2. Going(d) /\ proc = [o \in Dirs |-> proc[o]] /\ disk = [o \in Dirs |-> disk[o]]
      /\ saved = [o \in Dirs |-> saved[o]] /\ last = [o \in Dirs |-> last[o]]
      /\ disk[d] = [u \in Units |-> disk[d][u]] /\ saved[d] = [u \in Units |-> saved[d][u]]
  BY <1>1, GoingFact DEF FreshInv, Types
<1> DEFINE new == PlanFor(pred, now[d], proc[d].env, proc[d].trees)
           b == [proc[d] EXCEPT !.phase = "verify", !.new = new]
<1>3. new = PlanAt(pred, now[d], proc[d].env)
  BY <1>2 DEF Going, BuildSound, PlanAt
<1> HIDE DEF new
<1>4. Build(proc[d])
  BY <1>2 DEF Going
<1>5. proc' = [proc EXCEPT ![d] = b] /\ proc'[d] = b
  BY <1>1, <1>2 DEF new
<1>6. /\ b.phase = "verify" /\ b.env = proc[d].env /\ b.trees = proc[d].trees
      /\ b.plan = proc[d].plan /\ b.new = new /\ b.mem = proc[d].mem
      /\ b.todo = proc[d].todo /\ b.compiled = proc[d].compiled /\ b.grown = proc[d].grown
  BY <1>4 DEF Build, Whole
<1>7. Build(b)
  <2> DEFINE a == [proc[d] EXCEPT !.phase = "verify"]
  <2>1. Whole(a)
    BY <1>4 DEF Build, Whole
  <2>2. b = [a EXCEPT !.new = new]
    BY <1>4 DEF Build, Whole
  <2> HIDE DEF a, b
  <2>3. Whole(b)
    BY <2>1, <2>2 DEF Whole
  <2> QED
    BY <1>4, <1>6, <2>3 DEF Build, After
<1> HIDE DEF b
<1>8. Learnt \subseteq Learnt'
  <2>1. \A o \in Dirs \ {d} : proc'[o] = proc[o]
    BY <1>2, <1>5
  <2> QED
    BY <1>1, <2>1, NothingForgotten
<1>9. \A rec, out : SlotSound(rules, Learnt, rec, out) => SlotSound(rules, Learnt', rec, out)
  BY <1>8, MoreLearnt
<1>10. SlotsSound(d)'
  BY <1>1, <1>2, <1>9 DEF Going, SlotsSound
<1>11. BuildSound(d)'
  <2>1. BuildSound(d)
    BY <1>2 DEF Going
  <2>2. /\ (proc[d].trees = TreeHashes(now[d]))'
        /\ Planned(rules, proc[d].plan, now[d], proc[d].env)'
        /\ (proc[d].phase = "planned" => DOMAIN proc[d].compiled = {})'
    BY <1>1, <1>5, <1>6, <2>1 DEF BuildSound
  <2>3. Planned(rules, proc[d].new, now[d], proc[d].env)'
    <3>1. Planned(rules, new, now[d], proc[d].env)
      BY <1>3 DEF Planned, FreshInv, Types
    <3> QED
      BY <1>1, <1>5, <1>6, <3>1
  <2>4. /\ KeysTraced(d)' /\ SlotsTraced(d)'
        /\ (\A u \in Units : SlotSound(rules, Learnt, proc[d].mem[u], disk[d][u]))'
    BY <1>1, <1>2, <1>5, <1>6, <1>8, StillTraced DEF Fixed
  <2>5. Building(d)' /\ Built(d)'
    BY <1>1, <1>5, <1>6, <2>1 DEF Building, BuildSound, Built, Right, After
  <2> QED
    BY <2>2, <2>3, <2>4, <2>5 DEF BuildSound
<1>12. /\ disk' = [o \in Dirs |-> IF o = d THEN disk'[d] ELSE disk[o]]
       /\ disk'[d] = [u \in Units |-> disk'[d][u]]
       /\ saved' = [o \in Dirs |-> IF o = d THEN saved'[d] ELSE saved[o]]
       /\ saved'[d] = [u \in Units |-> saved'[d][u]] /\ last' = [o \in Dirs |-> last'[o]]
  BY <1>1, <1>2
<1> QED
  BY <1>1, <1>5, <1>7, <1>8, <1>10, <1>11, <1>12, PlainStep

\* A build that is over leaves its records to the next one.
LEMMA IdleStep ==
  ASSUME FreshInv, NEW d \in Dirs, Busy(d), NEW D, NEW S, NEW e,
         proc' = [proc EXCEPT ![d] = Idle], disk' = [disk EXCEPT ![d] = D],
         saved' = [saved EXCEPT ![d] = S], last' = [last EXCEPT ![d] = e],
         rules' = rules, now' = now, pred' = pred, store' = store,
         D = [u \in Units |-> D[u]], S = [u \in Units |-> S[u]],
         \A u \in Units : SlotSound(rules, Learnt, S[u], D[u]),
         Settled(rules) \/ proc[d].phase # "build" \/ DOMAIN proc[d].compiled = {}
  PROVE  FreshInv'
<1>1. proc = [o \in Dirs |-> proc[o]] /\ disk = [o \in Dirs |-> disk[o]]
      /\ saved = [o \in Dirs |-> saved[o]] /\ last = [o \in Dirs |-> last[o]]
  BY DEF FreshInv, Types
<1>2. /\ proc'[d] = Idle /\ ~Busy(d)' /\ disk'[d] = D /\ saved'[d] = S
      /\ \A o \in Dirs \ {d} : proc'[o] = proc[o]
  BY <1>1 DEF Busy, Idle
<1>3. Learnt \subseteq Learnt'
  <2>1. CASE Settled(rules)
    BY <2>1 DEF Learnt
  <2>2. CASE ~Settled(rules)
    BY <1>2, <2>2, NothingForgotten
  <2> QED
    BY <2>1, <2>2
<1>4. SlotsSound(d)'
  <2>1. \A rec, out : SlotSound(rules, Learnt, rec, out) => SlotSound(rules, Learnt', rec, out)
    BY <1>3, MoreLearnt
  <2> QED
    BY <1>2, <2>1 DEF SlotsSound
<1>5. /\ disk' = [o \in Dirs |-> IF o = d THEN disk'[d] ELSE disk[o]]
      /\ disk'[d] = [u \in Units |-> disk'[d][u]]
      /\ saved' = [o \in Dirs |-> IF o = d THEN saved'[d] ELSE saved[o]]
      /\ saved'[d] = [u \in Units |-> saved'[d][u]] /\ last' = [o \in Dirs |-> last'[o]]
  BY <1>1, <1>2
<1> QED
  BY <1>2, <1>3, <1>4, <1>5, PlainStep

LEMMA LeaveStep ==
  ASSUME FreshInv, NEW d \in Dirs, Leave(d)
  PROVE  FreshInv'
<1>1. disk = [disk EXCEPT ![d] = disk[d]] /\ saved = [saved EXCEPT ![d] = saved[d]]
      /\ disk[d] = [u \in Units |-> disk[d][u]] /\ saved[d] = [u \in Units |-> saved[d][u]]
  BY DEF FreshInv, Types
<1>2. PICK e : last' = [last EXCEPT ![d] = e]
  BY DEF Leave
<1>3. /\ Busy(d) /\ proc[d].phase # "build" /\ proc' = [proc EXCEPT ![d] = Idle]
      /\ disk' = [disk EXCEPT ![d] = disk[d]] /\ saved' = [saved EXCEPT ![d] = saved[d]]
      /\ rules' = rules /\ now' = now /\ pred' = pred /\ store' = store
  BY <1>1 DEF Leave, Busy
<1>4. \A u \in Units : SlotSound(rules, Learnt, saved[d][u], disk[d][u])
  BY DEF FreshInv, SlotsSound
<1> QED
  BY <1>1, <1>2, <1>3, <1>4, IdleStep

\* What it was compiling has no record.
LEMMA CrashStep ==
  ASSUME Undisturbed(rules), FreshInv, NEW d \in Dirs, Crash(d)
  PROVE  FreshInv'
<1>1. saved = [saved EXCEPT ![d] = saved[d]] /\ saved[d] = [u \in Units |-> saved[d][u]]
  BY DEF FreshInv, Types
<1>2. PICK e : last' = [last EXCEPT ![d] = e]
  BY DEF Crash
<1>3. PICK torn \in SUBSET IF proc[d].phase = "build" THEN proc[d].todo ELSE {} :
        disk' = [disk EXCEPT ![d] = [u \in Units |-> IF u \in torn THEN Torn ELSE disk[d][u]]]
  BY DEF Crash
<1> DEFINE D == [u \in Units |-> IF u \in torn THEN Torn ELSE disk[d][u]]
<1>4. /\ Busy(d) /\ proc' = [proc EXCEPT ![d] = Idle]
      /\ saved' = [saved EXCEPT ![d] = saved[d]]
      /\ rules' = rules /\ now' = now /\ pred' = pred /\ store' = store
  BY <1>1 DEF Crash
<1>5. Settled(rules)
  BY Disturbances DEF Crash
<1>6. \A u \in Units : SlotSound(rules, Learnt, saved[d][u], D[u])
  <2> TAKE u \in Units
  <2>1. CASE u \in torn
    <3>1. saved[d][u] = None
      BY <1>4, <2>1 DEF FreshInv, BuildSound, Building
    <3> QED
      BY <3>1 DEF SlotSound
  <2>2. CASE u \notin torn
    BY <2>2 DEF FreshInv, SlotsSound
  <2> QED
    BY <2>1, <2>2
<1>7. D = [u \in Units |-> D[u]] /\ disk' = [disk EXCEPT ![d] = D]
  BY <1>3
<1> HIDE DEF D
<1> QED
  BY <1>1, <1>2, <1>4, <1>5, <1>6, <1>7, IdleStep

LEMMA FailsStep ==
  ASSUME FreshInv, NEW d \in Dirs, Fails(d)
  PROVE  FreshInv'
<1>1. /\ Busy(d) /\ proc[d].phase = "build" /\ proc' = [proc EXCEPT ![d] = Idle]
      /\ DOMAIN proc[d].compiled = {}
      /\ saved' = [saved EXCEPT ![d] = proc[d].mem] /\ last' = [last EXCEPT ![d] = None]
      /\ rules' = rules /\ now' = now /\ pred' = pred /\ store' = store
  BY DEF Fails, Busy
<1>2. PICK v \in proc[d].todo :
        disk' = [disk EXCEPT ![d][v] = IF v \in Runs THEN Torn ELSE @]
  BY DEF Fails
<1> DEFINE D == [disk[d] EXCEPT ![v] = IF v \in Runs THEN Torn ELSE @]
<1>3. disk = [o \in Dirs |-> disk[o]] /\ disk[d] = [u \in Units |-> disk[d][u]]
  BY DEF FreshInv, Types
<1>4. /\ D = [u \in Units |-> D[u]] /\ disk' = [disk EXCEPT ![d] = D]
      /\ \A u \in Units \ {v} : D[u] = disk[d][u]
  BY <1>2, <1>3
<1> HIDE DEF D
<1>5. BuildSound(d) /\ Build(proc[d])
  BY <1>1 DEF FreshInv, Types
<1>6. proc[d].mem = [u \in Units |-> proc[d].mem[u]]
  BY <1>5 DEF Build
<1>7. \A u \in Units : SlotSound(rules, Learnt, proc[d].mem[u], D[u])
  <2> TAKE u \in Units
  <2>1. CASE u = v
    <3>1. proc[d].mem[u] = None
      BY <1>1, <1>5, <2>1 DEF BuildSound, Building
    <3> QED
      BY <3>1 DEF SlotSound
  <2>2. CASE u # v
    BY <1>4, <1>5, <2>2 DEF BuildSound
  <2> QED
    BY <2>1, <2>2
<1> QED
  BY <1>1, <1>4, <1>6, <1>7, IdleStep

-----------------------------------------------------------------------------
(* Lookup. *)

\* What is needed: the roots, and of what must be built all that it links,
\* and nothing else.
LEMMA NeededFact ==
  ASSUME NEW status
  PROVE  /\ Roots \subseteq Needed(status) /\ Needed(status) \subseteq Units
         /\ \A u \in Needed(status) : status[u] = "miss" => Links[u] \subseteq Needed(status)
         /\ \A S \in SUBSET Units :
              Roots \subseteq S /\ (\A u \in S : status[u] = "miss" => Links[u] \subseteq S) =>
                Needed(status) \subseteq S
<1>1. Roots \subseteq Units /\ \A u \in Units : Links[u] \subseteq Units
  BY LinksBelow, FreshnessAssumption
<1> QED
  BY <1>1 DEF Needed

\* An entry or a record whose inputs hold stands for a build of today.
LEMMA TracedDone ==
  ASSUME NEW d \in Dirs, Going(d), NEW u \in Units, NEW i, NEW out,
         Traced(rules, Learnt, u, i, out, now[d], proc[d].env), InputsHold(d, i)
  PROVE  /\ out = Made(rules, now[d], proc[d].env)[u]
         /\ \A w \in Below(u) : <<w, now[d]>> \in Learnt
<1>1. rules \in Rules /\ now[d] \in Worlds(rules) /\ proc[d].env \in rules.envs
  BY DEF Going, Build
<1>2. Holds(i, now[d], proc[d].env)
  BY DEF InputsHold, Holds
<1>3. /\ out = Made(rules, now[d], proc[d].env)[u]
      /\ \E c0 \in Worlds(rules) : \A w \in Below(u) :
           Looks(rules, w, now[d]) = Looks(rules, w, c0) /\ <<w, c0>> \in Learnt
  BY <1>1, <1>2, LearntType, TracedRight
<1> QED
  BY <1>1, <1>3, BelowFact, LearntAlike

LEMMA CheckUnitsStep ==
  ASSUME FreshInv, NEW d \in Dirs, CheckUnits(d)
  PROVE  FreshInv'
<1> DEFINE status   == Status(d)
           needed   == Needed(status)
           cached   == {u \in needed : status[u] = "cached"}
           released == {u \in needed : status[u] # "fresh"}
           missing  == {u \in needed : status[u] = "miss"}
           kept     == [u \in Units |-> IF u \in released THEN None ELSE proc[d].mem[u]]
<1>1. /\ Busy(d) /\ proc[d].phase = "planned"
      /\ rules' = rules /\ now' = now /\ pred' = pred /\ store' = store /\ last' = last
  BY DEF CheckUnits, Busy
<1>2. PICK hit :
        /\ \A u \in cached : hit[u] \in Hits(d, u)
        /\ saved' = [saved EXCEPT ![d] = kept]
        /\ disk' = [disk EXCEPT ![d] = [u \in Units |->
             IF u \in cached THEN hit[u].out ELSE disk[d][u]]]
        /\ proc' = [proc EXCEPT
             ![d].phase = "build", ![d].todo = missing,
             ![d].mem = [u \in Units |-> IF u \in cached
                 THEN [key |-> Key(d, u), inputs |-> hit[u].inputs] ELSE kept[u]]]
  BY DEF CheckUnits
<1>3. Going(d) /\ proc = [o \in Dirs |-> proc[o]] /\ disk = [o \in Dirs |-> disk[o]]
      /\ saved = [o \in Dirs |-> saved[o]] /\ last = [o \in Dirs |-> last[o]]
  BY <1>1, GoingFact DEF FreshInv, Types
<1>4. /\ needed \subseteq Units /\ Roots \subseteq needed
      /\ \A u \in missing : Links[u] \subseteq needed
      /\ released \subseteq needed /\ cached \subseteq released /\ missing \subseteq released
      /\ missing \cap cached = {}
  BY NeededFact
<1>5. /\ \A u \in needed : u \notin released => IsFresh(d, u)
      /\ \A u \in needed : u \in cached \/ u \in missing \/ u \notin released
  BY <1>4 DEF Status
<1> DEFINE mem == [u \in Units |-> IF u \in cached
                     THEN [key |-> Key(d, u), inputs |-> hit[u].inputs] ELSE kept[u]]
<1> HIDE DEF status, needed, cached, released, missing
<1> DEFINE a1 == [proc[d] EXCEPT !.phase = "build"]
           a2 == [a1 EXCEPT !.todo = missing]
           b  == [a2 EXCEPT !.mem = mem]
<1>6. Whole(proc[d]) /\ proc[d].env \in rules.envs /\ proc[d].grown \in BOOLEAN
  BY <1>3 DEF Going, Build
<1>7. proc'[d] = b /\ proc' = [proc EXCEPT ![d] = b]
  BY <1>2, <1>3, <1>6 DEF Whole
<1>8. /\ b.phase = "build" /\ b.env = proc[d].env /\ b.trees = proc[d].trees
      /\ b.plan = proc[d].plan /\ b.new = proc[d].new /\ b.mem = mem
      /\ b.todo = missing /\ b.compiled = proc[d].compiled /\ b.grown = proc[d].grown
  BY <1>6 DEF Whole
<1>9. Whole(b)
  <2> HIDE DEF mem
  <2>1. Whole(a1)
    BY <1>6 DEF Whole
  <2> HIDE DEF a1
  <2>2. Whole(a2)
    BY <2>1 DEF Whole
  <2> HIDE DEF a2
  <2> QED
    BY <2>2 DEF Whole
<1> HIDE DEF a1, a2, b
<1>10. Build(b)
  BY <1>6, <1>8, <1>9 DEF Build
<1>11. /\ saved'[d] = kept
       /\ disk'[d] = [u \in Units |-> IF u \in cached THEN hit[u].out ELSE disk[d][u]]
  BY <1>2, <1>3
<1>12. Learnt \subseteq Learnt'
  <2>1. \A o \in Dirs \ {d} : proc'[o] = proc[o]
    BY <1>3, <1>7
  <2> QED
    BY <1>1, <2>1, NothingForgotten
<1>13. BuildSound(d)
  BY <1>3 DEF Going
<1>14. /\ \A u \in Units : \A i, out, c, e :
            Traced(rules, Learnt, u, i, out, c, e) => Traced(rules, Learnt', u, i, out, c, e)
       /\ \A rec, out : SlotSound(rules, Learnt, rec, out) => SlotSound(rules, Learnt', rec, out)
       /\ \A key, i, out : Sound(rules, Learnt, key, i, out) => Sound(rules, Learnt', key, i, out)
  BY <1>12, MoreLearnt
<1>15. ASSUME NEW u \in cached
       PROVE  /\ u \in Units /\ hit[u] \in store /\ hit[u].key = Key(d, u)
              /\ InputsHold(d, hit[u].inputs)
              /\ Traced(rules, Learnt, u, hit[u].inputs, hit[u].out, now[d], proc[d].env)
              /\ Sound(rules, Learnt, Key(d, u), hit[u].inputs, hit[u].out)
  <2>1. u \in Units /\ hit[u] \in store /\ hit[u].key = Key(d, u) /\ InputsHold(d, hit[u].inputs)
    BY <1>2, <1>4 DEF Hits, cached
  <2>2. Traced(rules, Learnt, u, hit[u].inputs, hit[u].out, now[d], proc[d].env)
    BY <1>1, <1>13, <2>1 DEF BuildSound, KeysTraced, Fixed
  <2>3. Sound(rules, Learnt, Key(d, u), hit[u].inputs, hit[u].out)
    BY <2>1 DEF FreshInv
  <2> QED
    BY <2>1, <2>2, <2>3
<1>16. SlotsSound(d)' /\ (\A u \in Units : SlotSound(rules, Learnt, proc[d].mem[u], disk[d][u]))'
  <2> SUFFICES ASSUME NEW u \in Units
               PROVE  /\ SlotSound(rules, Learnt', saved'[d][u], disk'[d][u])
                      /\ SlotSound(rules, Learnt', mem[u], disk'[d][u])
    BY <1>1, <1>7, <1>8 DEF SlotsSound
  <2>1. SlotSound(rules, Learnt', proc[d].mem[u], disk[d][u])
    BY <1>13, <1>14 DEF BuildSound
  <2>2. CASE u \in cached
    <3>1. saved'[d][u] = None
      BY <1>4, <1>11, <2>2
    <3>2. /\ mem[u].key = Key(d, u) /\ mem[u].inputs = hit[u].inputs /\ IsRecord(mem[u])
          /\ disk'[d][u] = hit[u].out
      BY <1>11, <2>2 DEF IsRecord
    <3> QED
      BY <1>14, <1>15, <2>2, <3>1, <3>2 DEF SlotSound
  <2>3. CASE u \notin cached
    <3>1. /\ saved'[d][u] = IF u \in released THEN None ELSE proc[d].mem[u]
          /\ mem[u] = saved'[d][u] /\ disk'[d][u] = disk[d][u]
      BY <1>11, <2>3
    <3> QED
      BY <2>1, <3>1 DEF SlotSound
  <2> QED
    BY <2>2, <2>3
<1>17. \A u \in needed : u \in missing \/ Done(d, u)'
  <2> SUFFICES ASSUME NEW u \in needed, u \notin missing
               PROVE  Done(d, u)'
    OBVIOUS
  <2>1. u \in Units
    BY <1>4
  <2>2. /\ disk'[d][u] = Made(rules, now[d], proc[d].env)[u]
        /\ \A w \in Below(u) : <<w, now[d]>> \in Learnt
    <3>1. CASE u \in cached
      <4>1. disk'[d][u] = hit[u].out
        BY <1>11, <2>1, <3>1
      <4>2. /\ Traced(rules, Learnt, u, hit[u].inputs, hit[u].out, now[d], proc[d].env)
            /\ InputsHold(d, hit[u].inputs)
        BY <1>15, <3>1
      <4>3. /\ hit[u].out = Made(rules, now[d], proc[d].env)[u]
            /\ \A w \in Below(u) : <<w, now[d]>> \in Learnt
        BY <1>3, <2>1, <4>2, TracedDone
      <4> QED
        BY <4>1, <4>3
    <3>2. CASE u \notin cached
      <4>1. IsFresh(d, u) /\ disk'[d][u] = disk[d][u]
        BY <1>5, <1>11, <2>1, <3>2
      <4>2. /\ Traced(rules, Learnt, u, proc[d].mem[u].inputs, disk[d][u], now[d], proc[d].env)
            /\ InputsHold(d, proc[d].mem[u].inputs)
        BY <1>1, <1>13, <2>1, <4>1 DEF BuildSound, SlotsTraced, IsFresh, Fixed
      <4>3. /\ disk[d][u] = Made(rules, now[d], proc[d].env)[u]
            /\ \A w \in Below(u) : <<w, now[d]>> \in Learnt
        BY <1>3, <2>1, <4>2, TracedDone
      <4> QED
        BY <4>1, <4>3
    <3> QED
      BY <3>1, <3>2
  <2> QED
    BY <1>1, <1>7, <1>8, <1>12, <2>2 DEF Done, Right
<1>18. BuildSound(d)'
  <2>1. /\ (proc[d].trees = TreeHashes(now[d]))'
        /\ Planned(rules, proc[d].plan, now[d], proc[d].env)'
        /\ (proc[d].phase = "planned" => DOMAIN proc[d].compiled = {})'
        /\ (proc[d].phase \in {"verify", "move"} =>
              Planned(rules, proc[d].new, now[d], proc[d].env))'
    BY <1>1, <1>7, <1>8, <1>13 DEF BuildSound
  <2>2. KeysTraced(d)'
    BY <1>1, <1>3, <1>7, <1>8, <1>12, StillTraced DEF Fixed
  <2>3. SlotsTraced(d)'
    <3> SUFFICES ASSUME NEW u \in Units, mem[u] # None, disk'[d][u] # None,
                        mem[u].key = Key(d, u)
                 PROVE  Traced(rules, Learnt', u, mem[u].inputs, disk'[d][u], now[d], proc[d].env)
      BY <1>1, <1>7, <1>8 DEF SlotsTraced, Key
    <3>1. CASE u \in cached
      <4>1. mem[u].inputs = hit[u].inputs /\ disk'[d][u] = hit[u].out
        BY <1>11, <3>1
      <4> QED
        BY <1>14, <1>15, <3>1, <4>1
    <3>2. CASE u \notin cached
      <4>1. mem[u] = proc[d].mem[u] /\ disk'[d][u] = disk[d][u]
        BY <1>11, <3>2
      <4> QED
        BY <1>1, <1>13, <1>14, <4>1 DEF BuildSound, SlotsTraced, Fixed
    <3> QED
      BY <3>1, <3>2
  <2>4. Building(d)'
    <3>1. \A u \in missing : mem[u] = None /\ saved'[d][u] = None /\ u \in Units
      <4> TAKE u \in missing
      <4>1. u \in Units /\ u \in released /\ u \notin cached
        BY <1>4
      <4> QED
        BY <1>11, <4>1
    <3>2. DOMAIN proc[d].compiled = {}
      BY <1>1, <1>13 DEF BuildSound
    <3> QED
      BY <1>4, <1>7, <1>8, <1>17, <3>1, <3>2 DEF Building
  <2>5. Built(d)'
    BY <1>7, <1>8 DEF Built, After
  <2> QED
    BY <1>16, <2>1, <2>2, <2>3, <2>4, <2>5 DEF BuildSound
<1>19. /\ disk' = [o \in Dirs |-> IF o = d THEN disk'[d] ELSE disk[o]]
       /\ disk'[d] = [u \in Units |-> disk'[d][u]]
       /\ saved' = [o \in Dirs |-> IF o = d THEN saved'[d] ELSE saved[o]]
       /\ saved'[d] = [u \in Units |-> saved'[d][u]] /\ last' = [o \in Dirs |-> last'[o]]
  BY <1>1, <1>2, <1>3, <1>11
<1> QED
  BY <1>1, <1>7, <1>10, <1>12, <1>16, <1>18, <1>19, PlainStep

-----------------------------------------------------------------------------
(* Compiling. *)

\* A unit of the build is compiled, or found, or stored.
LEMMA UnitBuilt ==
  ASSUME NEW d \in Dirs, NEW u \in Units, Going(d), proc[d].phase = "build", u \in proc[d].todo,
         rules' = rules, now' = now, saved' = saved, Learnt \subseteq Learnt',
         \A v \in Units \ {u} : /\ proc'[d].mem[v] = proc[d].mem[v]
                                /\ disk'[d][v] = disk[d][v],
         proc'[d].phase = "build", proc'[d].env = proc[d].env, proc'[d].trees = proc[d].trees,
         proc'[d].plan = proc[d].plan,
         proc'[d].todo = proc[d].todo \/ proc'[d].todo = proc[d].todo \ {u},
         DOMAIN proc'[d].compiled \subseteq proc'[d].todo \cap (DOMAIN proc[d].compiled \cup {u}),
         \A v \in DOMAIN proc'[d].compiled : proc'[d].compiled[v] = Looks(rules, v, now[d]),
         Done(d, u)', KeysTraced(d)',
         u \in proc'[d].todo => proc'[d].mem[u] = None,
         u \notin proc'[d].todo =>
           LET rec == proc'[d].mem[u] IN
           /\ IsRecord(rec)
           /\ Traced(rules, Learnt', u, rec.inputs, disk'[d][u], now[d], proc[d].env)
           /\ Sound(rules, Learnt', rec.key, rec.inputs, disk'[d][u])
  PROVE  SlotsSound(d)' /\ BuildSound(d)'
<1>1. BuildSound(d) /\ SlotsSound(d) /\ Building(d)
  BY DEF Going, BuildSound
<1>2. /\ \A v \in Units : \A i, out, c, e :
           Traced(rules, Learnt, v, i, out, c, e) => Traced(rules, Learnt', v, i, out, c, e)
      /\ \A rec, out : SlotSound(rules, Learnt, rec, out) => SlotSound(rules, Learnt', rec, out)
  BY MoreLearnt
<1>3. \A v \in Units \ {u} : Done(d, v) => Done(d, v)'
  BY DEF Done, Right
<1>4. SlotsSound(d)'
  <2>1. saved[d][u] = None
    BY <1>1 DEF Building
  <2> QED
    BY <1>1, <1>2, <2>1 DEF SlotsSound, SlotSound
<1>5. (\A v \in Units : SlotSound(rules, Learnt, proc[d].mem[v], disk[d][v]))'
  BY <1>1, <1>2 DEF BuildSound, SlotSound
<1>6. SlotsTraced(d)'
  BY <1>1, <1>2 DEF BuildSound, SlotsTraced, Key, Fixed
<1>7. Building(d)'
  <2>1. /\ proc[d].todo \subseteq Units
        /\ \A v \in proc[d].todo : /\ proc[d].mem[v] = None /\ saved[d][v] = None
                                   /\ \A x \in Links[v] : x \in proc[d].todo \/ Done(d, x)
        /\ \A v \in DOMAIN proc[d].compiled : Done(d, v)
        /\ \A v \in Roots : v \in proc[d].todo \/ Done(d, v)
        /\ DOMAIN proc[d].compiled \subseteq Units /\ Roots \subseteq Units
    BY <1>1, FreshnessAssumption DEF Building
  <2>2. proc'[d].todo \subseteq proc[d].todo /\ proc[d].todo \subseteq proc'[d].todo \cup {u}
    OBVIOUS
  <2>3. \A x \in Units : x \in proc[d].todo \/ Done(d, x) => x \in proc'[d].todo \/ Done(d, x)'
    BY <1>3, <2>2
  <2>4. \A v \in proc'[d].todo : /\ proc'[d].mem[v] = None /\ saved'[d][v] = None
                                 /\ \A x \in Links[v] : x \in proc'[d].todo \/ Done(d, x)'
    <3> TAKE v \in proc'[d].todo
    <3>1. v \in Units /\ v \in proc[d].todo /\ Links[v] \subseteq Units
      BY <2>1, <2>2, LinksBelow
    <3>2. proc'[d].mem[v] = None
      BY <2>1, <3>1
    <3> QED
      BY <2>1, <2>3, <3>1, <3>2
  <2>5. \A v \in DOMAIN proc'[d].compiled : Done(d, v)'
    BY <1>3, <2>1
  <2> QED
    BY <2>1, <2>2, <2>3, <2>4, <2>5 DEF Building
<1>8. /\ (proc[d].trees = TreeHashes(now[d]))'
      /\ Planned(rules, proc[d].plan, now[d], proc[d].env)'
      /\ (proc[d].phase = "planned" => DOMAIN proc[d].compiled = {})'
      /\ (proc[d].phase \in {"verify", "move"} =>
            Planned(rules, proc[d].new, now[d], proc[d].env))' /\ Built(d)'
  BY <1>1 DEF BuildSound, Built, After
<1> QED
  BY <1>4, <1>5, <1>6, <1>7, <1>8 DEF BuildSound

LEMMA RestoreStep ==
  ASSUME FreshInv, NEW d \in Dirs, NEW u \in Units, RestoreAfterWait(d, u)
  PROVE  FreshInv'
<1>1. /\ Busy(d) /\ proc[d].phase = "build" /\ u \in proc[d].todo \ DOMAIN proc[d].compiled
      /\ rules' = rules /\ now' = now /\ pred' = pred /\ store' = store /\ saved' = saved
      /\ last' = last
  BY DEF RestoreAfterWait, Pending, Busy
<1>2. PICK x \in Hits(d, u) :
        /\ disk' = [disk EXCEPT ![d][u] = x.out]
        /\ proc' = [proc EXCEPT ![d].todo = @ \ {u},
                                ![d].mem[u] = [key |-> Key(d, u), inputs |-> x.inputs]]
  BY DEF RestoreAfterWait
<1>3. Going(d) /\ proc = [o \in Dirs |-> proc[o]] /\ disk = [o \in Dirs |-> disk[o]]
      /\ saved = [o \in Dirs |-> saved[o]] /\ last = [o \in Dirs |-> last[o]]
      /\ disk[d] = [v \in Units |-> disk[d][v]] /\ saved[d] = [v \in Units |-> saved[d][v]]
  BY <1>1, GoingFact DEF FreshInv, Types
<1>4. /\ Whole(proc[d]) /\ proc[d].env \in rules.envs /\ proc[d].grown \in BOOLEAN
      /\ proc[d].mem = [v \in Units |-> proc[d].mem[v]]
  BY <1>3 DEF Going, Build
<1> DEFINE rec == [key |-> Key(d, u), inputs |-> x.inputs]
           mem == [proc[d].mem EXCEPT ![u] = rec]
           left == proc[d].todo \ {u}
           a == [proc[d] EXCEPT !.todo = left]
           b == [a EXCEPT !.mem = mem]
<1>5. proc'[d] = b /\ proc' = [proc EXCEPT ![d] = b]
  BY <1>2, <1>3, <1>4 DEF Whole
<1>6. /\ mem = [v \in Units |-> mem[v]] /\ mem[u] = rec
      /\ \A v \in Units \ {u} : mem[v] = proc[d].mem[v]
  BY <1>4
<1> HIDE DEF rec, mem, left
<1>7. /\ b.phase = "build" /\ b.env = proc[d].env /\ b.trees = proc[d].trees
      /\ b.plan = proc[d].plan /\ b.new = proc[d].new /\ b.mem = mem
      /\ b.todo = left /\ b.compiled = proc[d].compiled /\ b.grown = proc[d].grown
  BY <1>1, <1>4 DEF Whole
<1>8. Whole(b)
  <2>1. Whole(a)
    BY <1>4 DEF Whole
  <2> HIDE DEF a
  <2> QED
    BY <2>1 DEF Whole
<1> HIDE DEF a, b
<1>9. Build(b)
  BY <1>4, <1>6, <1>7, <1>8 DEF Build
<1>10. Learnt \subseteq Learnt'
  <2>1. \A o \in Dirs \ {d} : proc'[o] = proc[o]
    BY <1>3, <1>5
  <2> QED
    BY <1>1, <1>5, <1>7, <2>1, NothingForgotten
<1>11. /\ disk'[d] = [v \in Units |-> disk'[d][v]] /\ disk'[d][u] = x.out
       /\ \A v \in Units \ {u} : disk'[d][v] = disk[d][v]
  BY <1>2, <1>3
<1>12. /\ rec.inputs = x.inputs /\ rec.key = Key(d, u) /\ rec.key = x.key /\ x \in store
       /\ InputsHold(d, x.inputs) /\ IsRecord(rec)
  BY DEF rec, Hits, IsRecord
<1>13. Traced(rules, Learnt, u, x.inputs, x.out, now[d], proc[d].env)
  BY <1>1, <1>3, <1>12 DEF Going, BuildSound, KeysTraced, Fixed
<1>14. /\ Traced(rules, Learnt', u, x.inputs, x.out, now[d], proc[d].env)
       /\ Sound(rules, Learnt', x.key, x.inputs, x.out)
  BY <1>10, <1>12, <1>13, MoreLearnt DEF FreshInv
<1>15. Done(d, u)'
  <2>1. /\ x.out = Made(rules, now[d], proc[d].env)[u]
        /\ \A w \in Below(u) : <<w, now[d]>> \in Learnt
    BY <1>3, <1>12, <1>13, TracedDone
  <2> QED
    BY <1>1, <1>5, <1>7, <1>10, <1>11, <2>1 DEF Done, Right
<1>16. KeysTraced(d)'
  BY <1>1, <1>3, <1>5, <1>7, <1>10, StillTraced DEF Fixed
<1>17. DOMAIN b.compiled \subseteq left \cap (DOMAIN proc[d].compiled \cup {u})
       /\ \A v \in DOMAIN b.compiled : b.compiled[v] = Looks(rules, v, now[d])
  BY <1>1, <1>3, <1>7 DEF Going, BuildSound, Building, left
<1>18. SlotsSound(d)' /\ BuildSound(d)'
  <2>1. u \notin left /\ left = proc[d].todo \ {u}
    BY DEF left
  <2> QED
    BY <1>1, <1>3, <1>5, <1>6, <1>7, <1>10, <1>11, <1>12, <1>14, <1>15, <1>16, <1>17, <2>1,
       UnitBuilt
<1>19. /\ disk' = [o \in Dirs |-> IF o = d THEN disk'[d] ELSE disk[o]]
       /\ saved' = [o \in Dirs |-> IF o = d THEN saved'[d] ELSE saved[o]]
       /\ saved'[d] = [v \in Units |-> saved'[d][v]] /\ last' = [o \in Dirs |-> last'[o]]
  BY <1>1, <1>2, <1>3
<1> QED
  BY <1>1, <1>5, <1>9, <1>10, <1>11, <1>18, <1>19, PlainStep

\* A program whose links are right makes what a clean build would, and its
\* dep-info is there to be looked into.
LEMMA ExecuteStep ==
  ASSUME FreshInv, NEW d \in Dirs, NEW u \in Units, Execute(d, u)
  PROVE  FreshInv'
<1> DEFINE rd == Reads(rules.programs, u, now[d])
           out == Output(u, rd, now[d], proc[d].env, disk[d])
           old == proc[d].compiled
           compiled == [x \in DOMAIN old \cup {u} |-> IF x = u THEN rd ELSE old[x]]
           b == [proc[d] EXCEPT !.compiled = compiled]
<1>1. /\ Busy(d) /\ proc[d].phase = "build" /\ u \in proc[d].todo \ DOMAIN old
      /\ Ready(d, u)
      /\ rules' = rules /\ now' = now /\ pred' = pred /\ store' = store /\ saved' = saved
      /\ last' = last
  BY DEF Execute, Pending, Busy
<1>2. /\ disk' = [disk EXCEPT ![d][u] = out]
      /\ proc' = [proc EXCEPT ![d].compiled = [x \in DOMAIN @ \cup {u} |-> IF x = u THEN rd ELSE @[x]]]
  BY DEF Execute
<1>3. Going(d) /\ proc = [o \in Dirs |-> proc[o]] /\ disk = [o \in Dirs |-> disk[o]]
      /\ saved = [o \in Dirs |-> saved[o]] /\ last = [o \in Dirs |-> last[o]]
      /\ disk[d] = [v \in Units |-> disk[d][v]] /\ saved[d] = [v \in Units |-> saved[d][v]]
  BY <1>1, GoingFact DEF FreshInv, Types
<1>4. Whole(proc[d]) /\ Build(proc[d]) /\ BuildSound(d) /\ Building(d)
  BY <1>3 DEF Going, Build, BuildSound
<1>5. proc'[d] = b /\ proc' = [proc EXCEPT ![d] = b]
  BY <1>2, <1>3
<1>6. /\ DOMAIN compiled = DOMAIN old \cup {u} /\ compiled[u] = Looks(rules, u, now[d])
      /\ \A v \in DOMAIN old : compiled[v] = old[v]
  BY <1>1 DEF Looks
<1>7. out = Output(u, Looks(rules, u, now[d]), now[d], proc[d].env, disk[d])
  BY DEF Looks
<1> HIDE DEF compiled, rd, out
<1>8. /\ b.phase = "build" /\ b.env = proc[d].env /\ b.trees = proc[d].trees
      /\ b.plan = proc[d].plan /\ b.new = proc[d].new /\ b.mem = proc[d].mem
      /\ b.todo = proc[d].todo /\ b.compiled = compiled /\ b.grown = proc[d].grown
  BY <1>1, <1>4 DEF Whole
<1>9. Build(b)
  <2>1. Whole(b)
    BY <1>4 DEF Whole
  <2> QED
    BY <1>4, <1>8, <2>1 DEF Build
<1> HIDE DEF b
<1>10. Learnt \subseteq Learnt'
  <2>1. \A o \in Dirs \ {d} : proc'[o] = proc[o]
    BY <1>3, <1>5
  <2> QED
    BY <1>1, <1>5, <1>6, <1>8, <2>1, NothingForgotten
<1>11. /\ disk'[d] = [v \in Units |-> disk'[d][v]] /\ disk'[d][u] = out
       /\ \A v \in Units \ {u} : disk'[d][v] = disk[d][v]
  BY <1>2, <1>3
<1>12. ASSUME NEW x \in Links[u]
       PROVE  Done(d, x)
  BY <1>1, <1>4, <1>12 DEF Building, Ready
<1>13. Right(d, u)'
  <2>1. \A x \in Links[u] : disk[d][x] = Made(rules, now[d], proc[d].env)[x]
    BY <1>12 DEF Done, Right
  <2>2. out = Made(rules, now[d], proc[d].env)[u]
    BY <1>7, <2>1, MadeFact DEF Output, Restrict
  <2> QED
    BY <1>1, <1>5, <1>8, <1>11, <2>2 DEF Right
<1>14. \A w \in Below(u) : <<w, now[d]>> \in Learnt'
  <2> SUFFICES ASSUME NEW w \in Below(u)
               PROVE  <<w, now[d]>> \in Learnt'
    OBVIOUS
  <2>1. CASE w = u
    <3>1. now[d] \in Worlds(rules)
      BY <1>3 DEF Going
    <3>2. /\ proc'[d].phase = "build" /\ u \in DOMAIN proc'[d].compiled
          /\ proc'[d].compiled[u] = Looks(rules', u, now[d])
      BY <1>1, <1>5, <1>6, <1>8
    <3> QED
      BY <1>1, <2>1, <3>1, <3>2 DEF Learnt
  <2>2. CASE w # u
    <3>1. PICK x \in Deps[u] : w \in Below(x)
      BY <2>2, BelowFact
    <3>2. Done(d, x)
      BY <1>12, LinksBelow
    <3> QED
      BY <1>10, <3>1, <3>2 DEF Done
  <2> QED
    BY <2>1, <2>2
<1>15. Done(d, u)'
  BY <1>1, <1>13, <1>14 DEF Done
<1>16. KeysTraced(d)'
  BY <1>1, <1>3, <1>5, <1>8, <1>10, StillTraced DEF Fixed
<1>17. /\ DOMAIN compiled \subseteq proc[d].todo \cap (DOMAIN proc[d].compiled \cup {u})
       /\ \A v \in DOMAIN compiled : compiled[v] = Looks(rules, v, now[d])
  BY <1>1, <1>4, <1>6 DEF Building
<1>18. proc[d].mem[u] = None
  BY <1>1, <1>4 DEF Building
<1>19. SlotsSound(d)' /\ BuildSound(d)'
  BY <1>1, <1>3, <1>5, <1>8, <1>10, <1>11, <1>15, <1>16, <1>17, <1>18, UnitBuilt
<1>20. /\ disk' = [o \in Dirs |-> IF o = d THEN disk'[d] ELSE disk[o]]
       /\ saved' = [o \in Dirs |-> IF o = d THEN saved'[d] ELSE saved[o]]
       /\ saved'[d] = [v \in Units |-> saved'[d][v]] /\ last' = [o \in Dirs |-> last'[o]]
  BY <1>1, <1>2, <1>3
<1> QED
  BY <1>1, <1>5, <1>9, <1>10, <1>11, <1>19, <1>20, PlainStep

\* What a build makes of its sources is sound under the key of its plan.
LEMMA OwnSound ==
  ASSUME NEW d \in Dirs, Going(d), NEW K, NEW u \in Units, Right(d, u),
         \A w \in Below(u) : <<w, now[d]>> \in K
  PROVE  LET i == Found(rules, u, now[d], proc[d].env) IN
         /\ Traced(rules, K, u, i, disk[d][u], now[d], proc[d].env)
         /\ Sound(rules, K, Key(d, u), i, disk[d][u])
<1> DEFINE i == Found(rules, u, now[d], proc[d].env)
<1>1. now[d] \in Worlds(rules) /\ proc[d].env \in rules.envs
  BY DEF Going, Build
<1>2. Traced(rules, K, u, i, disk[d][u], now[d], proc[d].env)
  <2>1. Near(rules, u, now[d], proc[d].env, now[d], proc[d].env)
    BY DEF Near, SameInputs, Agree
  <2> HIDE DEF i
  <2>2. disk[d][u] = Made(rules, now[d], proc[d].env)[u]
    BY DEF Right
  <2> QED
    BY <1>1, <2>1, <2>2 DEF Traced, i
<1>3. PICK p \in Preds : Key(d, u) = PlanAt(p, now[d], proc[d].env)[u].key
  BY DEF Going, BuildSound, Planned, Key
<1> HIDE DEF i
<1>4. Sound(rules, K, Key(d, u), i, disk[d][u])
  BY <1>1, <1>2, <1>3 DEF Sound
<1> QED
  BY <1>2, <1>4 DEF i

-----------------------------------------------------------------------------
(* Learning. *)

\* What looking into a compile does to the predictions of its unit.
LEMMA RecordFact ==
  ASSUME NEW d \in Dirs, NEW u \in Units, Attach(d, u), pred \in Preds
  PROVE  LET rd == proc[d].compiled[u] IN
         /\ pred' = [pred EXCEPT ![u] = pred'[u]] /\ \A w \in Units \ {u} : pred'[w] = pred[w]
         /\ \/ /\ pred'[u] = pred[u] /\ PackageOf[u] \notin Local
               /\ rd.files \ Pkg(u) = {} /\ rd.vars = {}
            \/ pred'[u] = [vars     |-> pred[u].vars \cup rd.vars,
                           files    |-> pred[u].files \cup (rd.files \ Pkg(u)),
                           sources  |-> pred[u].sources \cup
                             IF u \in Runs /\ ~rd.declared THEN {} ELSE rd.files \cap Pkg(u),
                           declared |-> u \in Runs /\ rd.declared]
<1> DEFINE rd     == proc[d].compiled[u]
           inputs == Discovered(d, u, rd)
           noted  == Record(pred[u], u, inputs, rd)
           learnt == IF PackageOf[u] \in Local \/ DOMAIN inputs.files \cup DOMAIN inputs.vars # {}
                     THEN noted ELSE pred[u]
<1>1. pred' = [pred EXCEPT ![u] = learnt]
  BY DEF Attach
<1>2. DOMAIN inputs.files = rd.files \ Pkg(u) /\ DOMAIN inputs.vars = rd.vars
  BY DEF Discovered, Restrict, Pkg
<1>3. noted = [vars     |-> pred[u].vars \cup rd.vars,
               files    |-> pred[u].files \cup (rd.files \ Pkg(u)),
               sources  |-> pred[u].sources \cup
                 IF u \in Runs /\ ~rd.declared THEN {} ELSE rd.files \cap Pkg(u),
               declared |-> u \in Runs /\ rd.declared]
  BY <1>2 DEF Record, Sources, Pkg
<1> HIDE DEF rd, inputs, noted
<1>4. pred'[u] = learnt /\ \A w \in Units \ {u} : pred'[w] = pred[w]
  BY <1>1 DEF Preds
<1> QED
  BY <1>1, <1>2, <1>3, <1>4 DEF rd

\* Nothing is forgotten by it.
LEMMA AttachLearns ==
  ASSUME Undisturbed(rules), FreshInv, NEW d \in Dirs, NEW u \in Units, Attach(d, u)
  PROVE  /\ pred' \in Preds /\ (Settled(rules) => SettledPred(rules, pred'))
         /\ Learnt \subseteq Learnt'
<1> DEFINE rd == proc[d].compiled[u]
<1>1. /\ Busy(d) /\ proc[d].phase = "build" /\ u \in DOMAIN proc[d].compiled
      /\ rules' = rules /\ now' = now
  BY DEF Attach, Busy
<1>2. Going(d) /\ pred \in Preds /\ rules \in Rules /\ now[d] \in Worlds(rules)
  BY <1>1, GoingFact DEF Going
<1>3. rd = Looks(rules, u, now[d])
  BY <1>1, <1>2 DEF Going, BuildSound, Building
<1>4. /\ rd \in [files : SUBSET Files, vars : SUBSET Vars, declared : BOOLEAN]
      /\ Pkg(u) \subseteq Files
  BY <1>2, <1>3, LooksFact
<1> DEFINE new == [vars     |-> pred[u].vars \cup rd.vars,
                   files    |-> pred[u].files \cup (rd.files \ Pkg(u)),
                   sources  |-> pred[u].sources \cup
                     IF u \in Runs /\ ~rd.declared THEN {} ELSE rd.files \cap Pkg(u),
                   declared |-> u \in Runs /\ rd.declared]
<1>5. /\ pred' = [pred EXCEPT ![u] = pred'[u]] /\ \A w \in Units \ {u} : pred'[w] = pred[w]
      /\ \/ /\ pred'[u] = pred[u] /\ PackageOf[u] \notin Local
            /\ rd.files \ Pkg(u) = {} /\ rd.vars = {}
         \/ pred'[u] = new
  BY <1>2, RecordFact
<1> HIDE DEF rd
<1>6. pred' \in Preds
  <2>1. new \in [vars : SUBSET Vars, files : SUBSET Files,
                 sources : SUBSET Files, declared : BOOLEAN]
    BY <1>2, <1>4 DEF Preds
  <2> HIDE DEF new
  <2> QED
    BY <1>2, <1>5, <2>1 DEF Preds
<1>7. ASSUME Settled(rules)
      PROVE  SettledPred(rules, pred')
  <2>1. SettledPred(rules, pred)
    BY <1>7 DEF FreshInv
  <2> SUFFICES ASSUME NEW w \in Units, PackageOf[w] \in Local, Known(pred', w),
                      NEW c \in Worlds(rules)
               PROVE  Looks(rules, w, c).files \cap Varying(rules) \subseteq pred'[w].sources
    BY DEF SettledPred
  <2>2. CASE w # u
    BY <1>5, <2>1, <2>2 DEF SettledPred, Known
  <2>3. CASE w = u
    <3>1. pred'[u] = new
      BY <1>5, <2>3
    <3>2. Looks(rules, u, c).files \cap Varying(rules) \subseteq rd.files \cap Pkg(u)
      BY <1>2, <1>3, <1>7 DEF Settled
    <3>3. CASE u \in Runs /\ ~rd.declared
      <4>1. Known(pred', u) <=> pred'[u].declared
        BY <3>3, Zenon DEF Known
      <4>2. pred'[u].declared = (u \in Runs /\ rd.declared)
        BY <3>1
      <4> QED
        BY <2>3, <3>3, <4>1, <4>2
    <3>4. CASE ~(u \in Runs /\ ~rd.declared)
      BY <2>3, <3>1, <3>2, <3>4
    <3> QED
      BY <3>3, <3>4
  <2> QED
    BY <2>2, <2>3
<1>8. Learnt \subseteq Learnt'
  <2>1. CASE Settled(rules)
    BY <1>1, <2>1 DEF Learnt
  <2>2. ASSUME ~Settled(rules), NEW w \in Units, NEW c \in Worlds(rules), <<w, c>> \in Learnt
        PROVE  <<w, c>> \in Learnt'
    <3>1. \A o \in Dirs \ {d} : proc[o].phase # "build"
      BY <1>1, <2>2 DEF FreshInv, Busy
    <3>2. \/ Knows(rules, pred, w, c)
          \/ w \in DOMAIN proc[d].compiled /\ proc[d].compiled[w] = Looks(rules, w, c)
      BY <2>2, <3>1 DEF Learnt
    <3>3. Knows(rules, pred', w, c) => <<w, c>> \in Learnt'
      BY <1>1, <2>2 DEF Learnt
    <3>4. CASE w # u
      <4>1. CASE Knows(rules, pred, w, c)
        <5>1. pred'[w] = pred[w]
          BY <1>5, <3>4
        <5>2. Knows(rules, pred', w, c)
          BY <4>1, <5>1 DEF Knows
        <5> QED
          BY <3>3, <5>2
      <4>2. CASE w \in DOMAIN proc[d].compiled /\ proc[d].compiled[w] = Looks(rules, w, c)
        <5> DEFINE old == proc[d].compiled
        <5>1. Whole(proc[d]) /\ proc = [o \in Dirs |-> proc[o]]
          BY <1>2 DEF Going, Build, FreshInv, Types
        <5>2. /\ proc'[d].phase = "build"
              /\ proc'[d].compiled = [v \in DOMAIN old \ {u} |-> old[v]]
          BY <1>1, <5>1 DEF Attach, Restrict, Whole
        <5>3. w \in DOMAIN proc'[d].compiled /\ proc'[d].compiled[w] = Looks(rules', w, c)
          BY <1>1, <3>4, <4>2, <5>2
        <5> QED
          BY <1>1, <5>2, <5>3 DEF Learnt
      <4> QED
        BY <3>2, <4>1, <4>2
    <3>5. CASE w = u
      <4> DEFINE lk == Looks(rules, u, c)
      <4>1. CASE pred'[u] = pred[u] /\ rd.files \ Pkg(u) = {} /\ rd.vars = {} /\ PackageOf[u] \notin Local
        <5>1. CASE Knows(rules, pred, u, c)
          BY <3>3, <3>5, <4>1, <5>1 DEF Knows
        <5>2. CASE lk = rd
          BY <3>3, <3>5, <4>1, <5>2 DEF Knows
        <5> QED
          BY <3>2, <3>5, <5>1, <5>2 DEF rd
      <4>2. CASE pred'[u] = new
        <5>1. CASE lk = rd
          <6>1. lk.vars \subseteq new.vars /\ lk.files \ Pkg(u) \subseteq new.files
            BY <5>1
          <6>2. \/ lk.files \cap Pkg(u) \subseteq new.sources
                \/ u \in Runs /\ ~lk.declared /\ ~new.declared
            BY <5>1
          <6> HIDE DEF new
          <6> QED
            BY <3>3, <3>5, <4>2, <6>1, <6>2 DEF Knows
        <5>2. CASE Knows(rules, pred, u, c)
          <6>1. lk.vars \subseteq new.vars /\ lk.files \ Pkg(u) \subseteq new.files
            BY <5>2 DEF Knows
          <6>2. PackageOf[u] \in Local =>
                  \/ lk.files \cap Pkg(u) \subseteq new.sources
                  \/ u \in Runs /\ ~lk.declared /\ ~new.declared
            <7> SUFFICES ASSUME PackageOf[u] \in Local
                         PROVE  \/ lk.files \cap Pkg(u) \subseteq new.sources
                                \/ u \in Runs /\ ~lk.declared /\ ~new.declared
              OBVIOUS
            <7>1. CASE lk.files \cap Pkg(u) \subseteq pred[u].sources
              BY <7>1
            <7>2. CASE u \in Runs /\ ~lk.declared /\ ~rd.declared
              BY <7>2
            <7>3. CASE u \in Runs /\ ~lk.declared /\ rd.declared
              <8>1. lk.files \subseteq rd.files
                BY <1>2, <1>3, <7>3, Disturbances DEF Forthright
              <8> QED
                BY <7>3, <8>1
            <7> QED
              BY <5>2, <7>1, <7>2, <7>3 DEF Knows
          <6> HIDE DEF new
          <6> QED
            BY <3>3, <3>5, <4>2, <6>1, <6>2 DEF Knows
        <5> QED
          BY <3>2, <3>5, <5>1, <5>2 DEF rd
      <4> QED
        BY <1>5, <4>1, <4>2
    <3> QED
      BY <3>4, <3>5
  <2> QED
    BY <2>1, <2>2, LearntType
<1> QED
  BY <1>6, <1>7, <1>8

\* What was compiled is stored and recorded under the key it was planned with.
LEMMA AttachStep ==
  ASSUME Undisturbed(rules), FreshInv, NEW d \in Dirs, NEW u \in Units, Attach(d, u)
  PROVE  FreshInv'
<1> DEFINE rd     == proc[d].compiled[u]
           inputs == Discovered(d, u, rd)
           learnt == IF PackageOf[u] \in Local \/ DOMAIN inputs.files \cup DOMAIN inputs.vars # {}
                     THEN Record(pred[u], u, inputs, rd) ELSE pred[u]
           rec    == [key |-> Key(d, u), inputs |-> inputs]
           entry  == [key |-> Key(d, u), inputs |-> inputs, out |-> disk[d][u]]
           mem    == [proc[d].mem EXCEPT ![u] = rec]
           left   == proc[d].todo \ {u}
           rest   == Restrict(proc[d].compiled, DOMAIN proc[d].compiled \ {u})
           grown  == proc[d].grown \/ learnt # pred[u]
<1>1. /\ Busy(d) /\ proc[d].phase = "build" /\ u \in DOMAIN proc[d].compiled
      /\ rules' = rules /\ now' = now /\ disk' = disk /\ saved' = saved
  BY DEF Attach, Busy
<1>2. Going(d) /\ proc = [o \in Dirs |-> proc[o]] /\ disk = [o \in Dirs |-> disk[o]]
      /\ saved = [o \in Dirs |-> saved[o]]
      /\ disk[d] = [v \in Units |-> disk[d][v]] /\ saved[d] = [v \in Units |-> saved[d][v]]
      /\ \A o \in Dirs : Busy(o) => Build(proc[o])
  BY <1>1, GoingFact DEF FreshInv, Types
<1>3. /\ Whole(proc[d]) /\ proc[d].env \in rules.envs /\ grown \in BOOLEAN
      /\ proc[d].mem = [v \in Units |-> proc[d].mem[v]] /\ BuildSound(d) /\ Building(d)
  BY <1>2 DEF Going, Build, BuildSound
<1>4. u \in proc[d].todo /\ rd = Looks(rules, u, now[d]) /\ Done(d, u)
  BY <1>1, <1>3 DEF Building
<1> DEFINE a1 == [proc[d] EXCEPT !.todo = left]
           a2 == [a1 EXCEPT !.compiled = rest]
           a3 == [a2 EXCEPT !.grown = grown]
           b  == [a3 EXCEPT !.mem = mem]
<1>5. /\ proc' = [o \in Dirs |-> proc'[o]] /\ proc'[d] = b
      /\ \A o \in Dirs \ {d} : \/ proc'[o] = proc[o]
                               \/ Busy(o) /\ proc'[o] = [proc[o] EXCEPT !.alone = FALSE]
      /\ last' = [o \in Dirs |-> last'[o]]
  BY <1>3 DEF Attach, Whole
<1>6. store' = Upsert(store, {entry})
  BY DEF Attach
<1>7. inputs = Found(rules, u, now[d], proc[d].env)
  BY <1>4 DEF Discovered, Found, Pkg
<1>8. /\ mem = [v \in Units |-> mem[v]] /\ mem[u] = rec
      /\ \A v \in Units \ {u} : mem[v] = proc[d].mem[v]
  BY <1>3
<1>9. /\ DOMAIN rest = DOMAIN proc[d].compiled \ {u}
      /\ \A v \in DOMAIN rest : rest[v] = proc[d].compiled[v]
  BY DEF Restrict
<1>10. rec.key = Key(d, u) /\ rec.inputs = inputs /\ u \notin left /\ IsRecord(rec)
  BY DEF IsRecord
<1>11. left = proc[d].todo \ {u}
  OBVIOUS
<1>12. \A x \in store' : x \in store \/ x = entry
  BY <1>6 DEF Upsert
<1> HIDE DEF rd, inputs, learnt, rec, mem, left, rest, grown
<1>13. /\ b.phase = "build" /\ b.env = proc[d].env /\ b.trees = proc[d].trees
       /\ b.plan = proc[d].plan /\ b.new = proc[d].new /\ b.mem = mem
       /\ b.todo = left /\ b.compiled = rest /\ b.grown = grown
  BY <1>1, <1>3 DEF Whole
<1>14. Build(b)
  <2>1. Whole(a1)
    BY <1>3 DEF Whole
  <2> HIDE DEF a1
  <2>2. Whole(a2)
    BY <2>1 DEF Whole
  <2> HIDE DEF a2
  <2>3. Whole(a3)
    BY <2>2 DEF Whole
  <2> HIDE DEF a3
  <2>4. Whole(b)
    BY <2>3 DEF Whole
  <2> HIDE DEF b
  <2> QED
    BY <1>3, <1>8, <1>13, <2>4 DEF Build
<1> HIDE DEF a1, a2, a3, b
<1>15. \A o \in Dirs \ {d} : Kept(o) /\ (Busy(o) => Build(proc'[o]))
  <2> SUFFICES ASSUME NEW o \in Dirs \ {d}
               PROVE  Kept(o) /\ (Busy(o) => Build(proc'[o]))
    OBVIOUS
  <2>1. CASE proc'[o] = proc[o]
    BY <1>1, <1>2, <2>1 DEF Kept
  <2>2. CASE Busy(o) /\ proc'[o] = [proc[o] EXCEPT !.alone = FALSE]
    <3> DEFINE no == FALSE
               a  == [proc[o] EXCEPT !.alone = no]
    <3>1. proc'[o] = a
      BY <2>2
    <3> HIDE DEF no
    <3>2. Build(proc[o]) /\ Whole(proc[o])
      BY <1>2, <2>2 DEF Build
    <3>3. /\ a.phase = proc[o].phase /\ a.env = proc[o].env /\ a.trees = proc[o].trees
          /\ a.plan = proc[o].plan /\ a.new = proc[o].new /\ a.mem = proc[o].mem
          /\ a.todo = proc[o].todo /\ a.compiled = proc[o].compiled /\ a.grown = proc[o].grown
      BY <3>2 DEF Whole
    <3>4. Whole(a)
      BY <3>2 DEF Whole
    <3> HIDE DEF a
    <3>5. Build(a)
      BY <3>2, <3>3, <3>4 DEF Build
    <3> QED
      BY <1>1, <3>1, <3>3, <3>5 DEF Kept
  <2> QED
    BY <1>5, <2>1, <2>2
<1>16. /\ pred' \in Preds /\ (Settled(rules) => SettledPred(rules, pred'))
       /\ Learnt \subseteq Learnt'
  BY AttachLearns
<1>17. /\ Traced(rules, Learnt', u, inputs, disk[d][u], now[d], proc[d].env)
       /\ Sound(rules, Learnt', Key(d, u), inputs, disk[d][u])
  <2>1. Right(d, u) /\ \A w \in Below(u) : <<w, now[d]>> \in Learnt'
    BY <1>4, <1>16 DEF Done
  <2> QED
    BY <1>2, <1>7, <2>1, OwnSound
<1>18. \A x \in store' : IsEntry(x) /\ Sound(rules, Learnt', x.key, x.inputs, x.out)
  <2> SUFFICES ASSUME NEW x \in store'
               PROVE  IsEntry(x) /\ Sound(rules, Learnt', x.key, x.inputs, x.out)
    OBVIOUS
  <2>1. CASE x \in store
    BY <1>16, <2>1, MoreLearnt DEF FreshInv
  <2>2. CASE x = entry
    BY <1>17, <2>2 DEF IsEntry
  <2> QED
    BY <1>12, <2>1, <2>2
<1>19. KeysTraced(d)'
  <2> SUFFICES ASSUME NEW v \in Units, NEW x \in store', x.key = Key(d, v)
               PROVE  Traced(rules, Learnt', v, x.inputs, x.out, now[d], proc[d].env)
    BY <1>1, <1>5, <1>13 DEF KeysTraced, Key
  <2>1. CASE x \in store
    BY <1>1, <1>3, <1>16, <2>1, MoreLearnt DEF BuildSound, KeysTraced, Fixed
  <2>2. CASE x = entry
    <3>1. PICK p : proc[d].plan = PlanAt(p, now[d], proc[d].env)
      BY <1>3 DEF BuildSound, Planned
    <3>2. PlanAt(p, now[d], proc[d].env)[u].key.unit = u
      BY PlanAtFact
    <3>3. PlanAt(p, now[d], proc[d].env)[v].key.unit = v
      BY PlanAtFact
    <3>4. u = v
      BY <2>2, <3>1, <3>2, <3>3 DEF Key
    <3> QED
      BY <1>17, <2>2, <3>4
  <2> QED
    BY <1>12, <2>1, <2>2
<1>20. Done(d, u)'
  BY <1>1, <1>4, <1>5, <1>13, <1>16 DEF Done, Right
<1>21. DOMAIN rest \subseteq left \cap (DOMAIN proc[d].compiled \cup {u})
       /\ \A v \in DOMAIN rest : rest[v] = Looks(rules, v, now[d])
  <2>1. \A v \in DOMAIN proc[d].compiled :
          v \in proc[d].todo /\ proc[d].compiled[v] = Looks(rules, v, now[d])
    BY <1>1, <1>3 DEF Building
  <2>2. \A v \in DOMAIN rest : v \in left /\ v \in DOMAIN proc[d].compiled
    BY <1>9, <1>11, <2>1
  <2> QED
    BY <1>9, <2>1, <2>2
<1>22. SlotsSound(d)' /\ BuildSound(d)'
  <2>1. \A v \in Units \ {u} : proc'[d].mem[v] = proc[d].mem[v] /\ disk'[d][v] = disk[d][v]
    BY <1>1, <1>5, <1>8, <1>13
  <2>2. LET r == proc'[d].mem[u] IN
        /\ IsRecord(r)
        /\ Traced(rules, Learnt', u, r.inputs, disk'[d][u], now[d], proc[d].env)
        /\ Sound(rules, Learnt', r.key, r.inputs, disk'[d][u])
    BY <1>1, <1>5, <1>8, <1>10, <1>13, <1>17
  <2>3. u \notin proc'[d].todo
    BY <1>5, <1>10, <1>13
  <2> QED
    BY <1>1, <1>2, <1>4, <1>5, <1>11, <1>13, <1>16, <1>19, <1>20, <1>21, <2>1, <2>2, <2>3,
       UnitBuilt
<1>23. /\ disk' = [o \in Dirs |-> disk'[o]] /\ disk'[d] = [v \in Units |-> disk'[d][v]]
       /\ saved' = [o \in Dirs |-> saved'[o]] /\ saved'[d] = [v \in Units |-> saved'[d][v]]
  BY <1>1, <1>2
<1> QED
  BY <1>1, <1>5, <1>14, <1>15, <1>16, <1>18, <1>22, <1>23, BuildStep

-----------------------------------------------------------------------------
(* Moving the records. *)

LEMMA MoveStep ==
  ASSUME FreshInv, NEW d \in Dirs, Move(d)
  PROVE  FreshInv'
<1> DEFINE mem == MovedRecords(d)
           a   == [proc[d] EXCEPT !.phase = "resave"]
           b   == [a EXCEPT !.mem = mem]
<1>1. /\ Busy(d) /\ proc[d].phase = "move" /\ store' = Upsert(store, Aliases(d))
      /\ rules' = rules /\ now' = now /\ pred' = pred /\ disk' = disk /\ saved' = saved
      /\ last' = last /\ proc' = [proc EXCEPT ![d].phase = "resave", ![d].mem = mem]
  BY DEF Move, Busy
<1>2. Going(d) /\ proc = [o \in Dirs |-> proc[o]] /\ disk = [o \in Dirs |-> disk[o]]
      /\ saved = [o \in Dirs |-> saved[o]] /\ last = [o \in Dirs |-> last[o]]
      /\ disk[d] = [u \in Units |-> disk[d][u]] /\ saved[d] = [u \in Units |-> saved[d][u]]
      /\ \A o \in Dirs : Busy(o) => Build(proc[o])
  BY <1>1, GoingFact DEF FreshInv, Types
<1>3. Whole(proc[d]) /\ Build(proc[d]) /\ BuildSound(d)
  BY <1>2 DEF Going, Build
<1>4. mem = [u \in Units |-> mem[u]]
  BY DEF MovedRecords
<1>5. \A u \in Units : IF u \in Moving(d)
                       THEN mem[u] = [proc[d].mem[u] EXCEPT !.key = proc[d].new[u].key]
                       ELSE mem[u] = proc[d].mem[u]
  BY DEF MovedRecords
<1> HIDE DEF mem
<1>6. proc'[d] = b /\ \A o \in Dirs \ {d} : proc'[o] = proc[o]
  BY <1>1, <1>2, <1>3 DEF Whole
<1>7. /\ b.phase = "resave" /\ b.env = proc[d].env /\ b.trees = proc[d].trees
      /\ b.plan = proc[d].plan /\ b.new = proc[d].new /\ b.mem = mem
      /\ b.todo = proc[d].todo /\ b.compiled = proc[d].compiled /\ b.grown = proc[d].grown
  BY <1>3 DEF Whole
<1>8. Build(b)
  <2>1. Whole(a)
    BY <1>3 DEF Whole
  <2> HIDE DEF a
  <2>2. Whole(b)
    BY <2>1 DEF Whole
  <2> HIDE DEF b
  <2> QED
    BY <1>3, <1>4, <1>7, <2>2 DEF Build, After
<1> HIDE DEF a, b
<1>9. Learnt \subseteq Learnt'
  BY <1>1, <1>6, NothingForgotten
<1>10. /\ \A u \in Units : \A i, out, c, e :
            Traced(rules, Learnt, u, i, out, c, e) => Traced(rules, Learnt', u, i, out, c, e)
       /\ \A rec, out : SlotSound(rules, Learnt, rec, out) => SlotSound(rules, Learnt', rec, out)
       /\ \A key, i, out : Sound(rules, Learnt, key, i, out) => Sound(rules, Learnt', key, i, out)
  BY <1>9, MoreLearnt
<1>11. ASSUME NEW u \in Units, NEW i, NEW out,
              Traced(rules, Learnt, u, i, out, now[d], proc[d].env)
       PROVE  Sound(rules, Learnt', proc[d].new[u].key, i, out)
  <2>1. PICK p \in Preds : proc[d].new = PlanAt(p, now[d], proc[d].env)
    BY <1>1, <1>3 DEF BuildSound, Planned
  <2>2. now[d] \in Worlds(rules) /\ proc[d].env \in rules.envs
    BY <1>2 DEF Going, Build
  <2>3. Traced(rules, Learnt', u, i, out, now[d], proc[d].env)
    BY <1>10, <1>11
  <2> QED
    BY <2>1, <2>2, <2>3 DEF Sound
<1>12. \A x \in store' : IsEntry(x) /\ Sound(rules, Learnt', x.key, x.inputs, x.out)
  <2> SUFFICES ASSUME NEW x \in store'
               PROVE  IsEntry(x) /\ Sound(rules, Learnt', x.key, x.inputs, x.out)
    OBVIOUS
  <2>1. CASE x \in store
    BY <1>10, <2>1 DEF FreshInv
  <2>2. CASE x \notin store
    <3>1. x \in Aliases(d)
      BY <1>1, <2>2 DEF Upsert
    <3>2. PICK u \in Moving(d), y \in store :
            y.key = Key(d, u) /\ x = [y EXCEPT !.key = proc[d].new[u].key]
      BY <3>1 DEF Aliases
    <3>3. IsEntry(y) /\ u \in Units
      BY DEF FreshInv, Moving, Moved
    <3>4. x = [key |-> proc[d].new[u].key, inputs |-> y.inputs, out |-> y.out]
      BY <3>2, <3>3 DEF IsEntry
    <3>5. Traced(rules, Learnt, u, y.inputs, y.out, now[d], proc[d].env)
      BY <1>1, <1>3, <3>2, <3>3 DEF BuildSound, KeysTraced, Fixed
    <3> QED
      BY <1>11, <3>3, <3>4, <3>5 DEF IsEntry
  <2> QED
    BY <2>1, <2>2
<1>13. \A u \in Units : SlotSound(rules, Learnt', mem[u], disk[d][u])
  <2> TAKE u \in Units
  <2>1. SlotSound(rules, Learnt', proc[d].mem[u], disk[d][u])
    BY <1>3, <1>10 DEF BuildSound
  <2>2. CASE u \notin Moving(d)
    BY <1>5, <2>1, <2>2
  <2>3. CASE u \in Moving(d)
    <3>1. /\ proc[d].mem[u] # None /\ proc[d].mem[u].key = Key(d, u)
          /\ IsRecord(proc[d].mem[u])
      BY <2>1, <2>3 DEF Moving, OwnsSlot, SlotSound
    <3>2. mem[u] = [key |-> proc[d].new[u].key, inputs |-> proc[d].mem[u].inputs]
      BY <1>5, <2>3, <3>1 DEF IsRecord
    <3>3. disk[d][u] # None =>
            Traced(rules, Learnt, u, proc[d].mem[u].inputs, disk[d][u], now[d], proc[d].env)
      BY <1>1, <1>3, <3>1 DEF BuildSound, SlotsTraced, Fixed
    <3> QED
      BY <1>11, <3>2, <3>3 DEF SlotSound, IsRecord
  <2> QED
    BY <2>2, <2>3
<1>14. SlotsSound(d)'
  BY <1>1, <1>2, <1>10 DEF Going, SlotsSound
<1>15. BuildSound(d)'
  <2>1. /\ (proc[d].trees = TreeHashes(now[d]))'
        /\ Planned(rules, proc[d].plan, now[d], proc[d].env)'
        /\ (proc[d].phase = "planned" => DOMAIN proc[d].compiled = {})'
        /\ (proc[d].phase \in {"verify", "move"} =>
              Planned(rules, proc[d].new, now[d], proc[d].env))'
    BY <1>1, <1>3, <1>6, <1>7 DEF BuildSound
  <2>2. KeysTraced(d)' /\ SlotsTraced(d)' /\ Building(d)'
    BY <1>6, <1>7 DEF KeysTraced, SlotsTraced, Building, Fixed
  <2>3. (\A u \in Units : SlotSound(rules, Learnt, proc[d].mem[u], disk[d][u]))'
    BY <1>1, <1>6, <1>7, <1>13
  <2>4. Built(d)'
    BY <1>1, <1>3, <1>6, <1>7 DEF BuildSound, Built, Right, After
  <2> QED
    BY <2>1, <2>2, <2>3, <2>4 DEF BuildSound
<1>16. \A o \in Dirs \ {d} : Kept(o) /\ (Busy(o) => Build(proc'[o]))
  BY <1>1, <1>2, <1>6 DEF Kept
<1>17. /\ disk' = [o \in Dirs |-> disk'[o]] /\ disk'[d] = [u \in Units |-> disk'[d][u]]
       /\ saved' = [o \in Dirs |-> saved'[o]] /\ saved'[d] = [u \in Units |-> saved'[d][u]]
       /\ last' = [o \in Dirs |-> last'[o]] /\ proc' = [o \in Dirs |-> proc'[o]]
  BY <1>1, <1>2
<1>18. pred' \in Preds /\ (Settled(rules) => SettledPred(rules, pred'))
  BY <1>1 DEF FreshInv, Types
<1> QED
  BY <1>1, <1>6, <1>8, <1>9, <1>12, <1>14, <1>15, <1>16, <1>17, <1>18, BuildStep

-----------------------------------------------------------------------------
(* Between builds. *)

\* The predictions know what the entries in the store were made of, so what is
\* found under the keys of a plan made now is worth it.
LEMMA StartStep ==
  ASSUME Undisturbed(rules), FreshInv, NEW d \in Dirs, Start(d)
  PROVE  FreshInv'
<1>1. /\ ~Busy(d) /\ (rules.together \/ \A o \in Dirs : proc[o].phase = "idle")
      /\ rules' = rules /\ now' = now /\ pred' = pred /\ store' = store /\ disk' = disk
      /\ saved' = saved /\ last' = last
  BY DEF Start, Busy
<1>2. PICK e \in rules.envs :
        LET trees == TreeHashes(now[d])
            plan  == PlanFor(pred, now[d], e, trees)
        IN  proc' = [proc EXCEPT ![d] =
              [phase |-> "planned", env |-> e, trees |-> trees, plan |-> plan,
               new |-> plan, mem |-> saved[d], todo |-> {},
               compiled |-> [u \in {} |-> None], grown |-> FALSE,
               quiet |-> TRUE, alone |-> TRUE, again |-> last[d] = e]]
  BY DEF Start
<1> DEFINE plan == PlanAt(pred, now[d], e)
           none == [u \in {} |-> None]
           no == FALSE
           yes == TRUE
           again == last[d] = e
           b == [phase |-> "planned", env |-> e, trees |-> TreeHashes(now[d]), plan |-> plan,
                 new |-> plan, mem |-> saved[d], todo |-> {}, compiled |-> none, grown |-> no,
                 quiet |-> yes, alone |-> yes, again |-> again]
<1>3. /\ proc = [o \in Dirs |-> proc[o]] /\ disk = [o \in Dirs |-> disk[o]]
      /\ saved = [o \in Dirs |-> saved[o]] /\ last = [o \in Dirs |-> last[o]]
      /\ disk[d] = [u \in Units |-> disk[d][u]] /\ saved[d] = [u \in Units |-> saved[d][u]]
      /\ rules \in Rules /\ pred \in Preds /\ now[d] \in Worlds(rules)
  BY DEF FreshInv, Types
<1>4. proc' = [proc EXCEPT ![d] = b]
  BY <1>2 DEF PlanAt
<1>5. DOMAIN none = {} /\ no \in BOOLEAN
  OBVIOUS
<1> HIDE DEF plan, none, no, yes, again
<1>6. proc'[d] = b
  BY <1>3, <1>4
<1>7. Build(b)
  BY <1>3, <1>5 DEF Build, Whole
<1>8. Learnt \subseteq Learnt'
  <2>1. \A o \in Dirs \ {d} : proc'[o] = proc[o]
    BY <1>3, <1>4
  <2> QED
    BY <1>1, <2>1, NothingForgotten DEF Busy
<1>9. \A w \in Units : \A c0 \in Worlds(rules) : <<w, c0>> \in Learnt => Covers(rules, pred, w, c0)
  <2> SUFFICES ASSUME NEW w \in Units, NEW c0 \in Worlds(rules), <<w, c0>> \in Learnt
               PROVE  Covers(rules, pred, w, c0)
    OBVIOUS
  <2>1. CASE Settled(rules)
    BY <2>1, SettledCovers DEF FreshInv
  <2>2. CASE ~Settled(rules)
    <3>1. \A o \in Dirs : proc[o].phase # "build"
      BY <1>1, <2>2, Disturbances
    <3>2. Knows(rules, pred, w, c0)
      BY <2>2, <3>1 DEF Learnt
    <3> QED
      BY <3>2, KnowsCovers
  <2> QED
    BY <2>1, <2>2
<1>10. ASSUME NEW u \in Units, NEW i, NEW out, Sound(rules, Learnt, plan[u].key, i, out)
       PROVE  Traced(rules, Learnt', u, i, out, now[d], e)
  <2>1. Traced(rules, Learnt, u, i, out, now[d], e)
    BY <1>3, <1>9, <1>10, SoundTraced DEF plan
  <2> QED
    BY <1>8, <2>1, MoreLearnt
<1>11. \A rec, out : SlotSound(rules, Learnt, rec, out) => SlotSound(rules, Learnt', rec, out)
  BY <1>8, MoreLearnt
<1>12. SlotsSound(d)' /\ (\A u \in Units : SlotSound(rules, Learnt, proc[d].mem[u], disk[d][u]))'
  BY <1>1, <1>6, <1>11 DEF FreshInv, SlotsSound
<1>13. BuildSound(d)'
  <2>1. /\ (proc[d].trees = TreeHashes(now[d]))'
        /\ (proc[d].phase = "planned" => DOMAIN proc[d].compiled = {})'
        /\ (proc[d].phase \notin {"verify", "move"})'
    BY <1>1, <1>5, <1>6
  <2>2. Planned(rules, proc[d].plan, now[d], proc[d].env)'
    <3>1. Planned(rules, plan, now[d], e)
      BY <1>3 DEF Planned, FreshInv, plan
    <3> QED
      BY <1>1, <1>6, <3>1
  <2>3. KeysTraced(d)'
    <3> SUFFICES ASSUME NEW u \in Units, NEW x \in store, x.key = plan[u].key
                 PROVE  Traced(rules, Learnt', u, x.inputs, x.out, now[d], e)
      BY <1>1, <1>6 DEF KeysTraced, Key
    <3> QED
      BY <1>10 DEF FreshInv
  <2>4. SlotsTraced(d)'
    <3> SUFFICES ASSUME NEW u \in Units, saved[d][u] # None, disk[d][u] # None,
                        saved[d][u].key = plan[u].key
                 PROVE  Traced(rules, Learnt', u, saved[d][u].inputs, disk[d][u], now[d], e)
      BY <1>1, <1>6 DEF SlotsTraced, Key
    <3> QED
      BY <1>10 DEF FreshInv, SlotsSound, SlotSound
  <2>5. Building(d)' /\ Built(d)'
    BY <1>6 DEF Building, Built, After
  <2> QED
    BY <1>12, <2>1, <2>2, <2>3, <2>4, <2>5 DEF BuildSound
<1>14. /\ disk' = [o \in Dirs |-> IF o = d THEN disk'[d] ELSE disk[o]]
       /\ disk'[d] = [u \in Units |-> disk'[d][u]]
       /\ saved' = [o \in Dirs |-> IF o = d THEN saved'[d] ELSE saved[o]]
       /\ saved'[d] = [u \in Units |-> saved'[d][u]] /\ last' = [o \in Dirs |-> last'[o]]
  BY <1>1, <1>3
<1>15. Busy(d) \/ Settled(rules) \/ \A o \in Dirs : ~Busy(o)
  BY <1>1, Disturbances DEF Busy
<1> HIDE DEF b
<1> QED
  BY <1>1, <1>4, <1>7, <1>8, <1>12, <1>13, <1>14, <1>15, PlainStep

\* Sources change only between the builds of their checkout.
LEMMA EditStep ==
  ASSUME Undisturbed(rules), FreshInv, NEW d \in Dirs, Edit(d)
  PROVE  FreshInv'
<1>1. /\ rules' = rules /\ pred' = pred /\ store' = store /\ disk' = disk /\ saved' = saved
      /\ last' = [last EXCEPT ![d] = None] /\ ~Busy(d) /\ proc' = proc
  BY Disturbances DEF Edit
<1>2. PICK f \in rules.edited, x \in Contents : now' = [now EXCEPT ![d][f] = x]
  BY DEF Edit
<1>3. Types
  BY DEF FreshInv
<1>4. now'[d] \in Worlds(rules) /\ \A o \in Dirs \ {d} : now'[o] = now[o]
  <2>1. now'[d] = [now[d] EXCEPT ![f] = x] /\ now[d] \in Worlds(rules)
    BY <1>2, <1>3 DEF Types
  <2> QED
    BY <1>2, <1>3, <2>1 DEF Types, Worlds, Varying
<1>5. Learnt' = Learnt
  BY <1>1 DEF Learnt
<1>6. Types'
  BY <1>1, <1>2, <1>3, <1>4 DEF Types, Build, Busy
<1>7. ASSUME NEW o \in Dirs
      PROVE  (SlotsSound(o) /\ (Busy(o) => BuildSound(o)))'
  <2>1. CASE o = d
    BY <1>1, <1>5, <2>1 DEF FreshInv, SlotsSound, Busy
  <2>2. CASE o # d
    BY <1>1, <1>4, <1>5, <2>2, OthersKept DEF Kept, FreshInv
  <2> QED
    BY <2>1, <2>2
<1> QED
  BY <1>1, <1>5, <1>6, <1>7 DEF FreshInv, Busy

LEMMA FreshInit ==
  ASSUME Init
  PROVE  FreshInv
<1>1. /\ rules \in Rules /\ pred = [u \in Units |-> NothingKnown] /\ store = {}
      /\ disk = [d \in Dirs |-> [u \in Units |-> None]]
      /\ saved = [d \in Dirs |-> [u \in Units |-> None]]
      /\ proc = [d \in Dirs |-> Idle] /\ last = [d \in Dirs |-> None]
  BY DEF Init
<1>2. /\ now \in [Dirs -> [Files -> Contents]]
      /\ \A d \in Dirs, f \in Files : now[d][f] # 1 => f \in rules.start
  BY DEF Init
<1>3. \A d \in Dirs : ~Busy(d) /\ now[d] \in Worlds(rules)
  BY <1>1, <1>2 DEF Busy, Idle, Worlds, Varying
<1>4. pred \in Preds
  BY <1>1 DEF Preds, NothingKnown
<1>5. SettledPred(rules, pred)
  BY <1>1 DEF SettledPred, Known, NothingKnown
<1>6. Types
  BY <1>1, <1>2, <1>3, <1>4 DEF Types
<1>7. \A d \in Dirs : SlotsSound(d)
  BY <1>1 DEF SlotsSound, SlotSound
<1> QED
  BY <1>1, <1>3, <1>5, <1>6, <1>7 DEF FreshInv

LEMMA FreshNext ==
  ASSUME Undisturbed(rules), FreshInv, [Next]_vars
  PROVE  FreshInv'
<1>1. ASSUME NEW d \in Dirs, NEW u \in Units, RestoreAfterWait(d, u)
      PROVE  FreshInv'
  BY <1>1, RestoreStep
<1>2. ASSUME NEW d \in Dirs, NEW u \in Units, Compile(d, u) \/ RunScript(d, u)
      PROVE  FreshInv'
  BY <1>2, ExecuteStep DEF Compile, RunScript
<1>3. ASSUME NEW d \in Dirs, NEW u \in Units, Attach(d, u)
      PROVE  FreshInv'
  BY <1>3, AttachStep
<1>4. ASSUME NEW d \in Dirs, Start(d) \/ CheckUnits(d)
      PROVE  FreshInv'
  BY <1>4, StartStep, CheckUnitsStep
<1>5. ASSUME NEW d \in Dirs, Fails(d) \/ Finish(d) \/ Leave(d) \/ Crash(d)
      PROVE  FreshInv'
  BY <1>5, FailsStep, FinishStep, LeaveStep, CrashStep
<1>6. ASSUME NEW d \in Dirs, RekeyCheck(d) \/ Replan(d) \/ Verify(d) \/ Move(d) \/ SaveRekeyed(d)
      PROVE  FreshInv'
  BY <1>6, RekeyCheckStep, ReplanStep, VerifyStep, MoveStep, SaveRekeyedStep
<1>7. ASSUME NEW d \in Dirs, Edit(d)
      PROVE  FreshInv'
  BY <1>7, EditStep
<1>8. CASE UNCHANGED vars
  <2>1. /\ rules' = rules /\ now' = now /\ pred' = pred /\ store' = store /\ disk' = disk
        /\ saved' = saved /\ proc' = proc /\ last' = last
    BY <1>8 DEF vars
  <2>2. Learnt' = Learnt
    BY <2>1 DEF Learnt
  <2>3. \A o \in Dirs : (SlotsSound(o) /\ (Busy(o) => BuildSound(o)))'
    BY <2>1, <2>2, OthersKept DEF Kept, FreshInv
  <2>4. Types'
    BY <2>1 DEF FreshInv, Types, Build, Busy
  <2> QED
    BY <2>1, <2>2, <2>3, <2>4 DEF FreshInv, Busy
<1> QED
  BY <1>1, <1>2, <1>3, <1>4, <1>5, <1>6, <1>7, <1>8 DEF Next

-----------------------------------------------------------------------------
LEMMA RulesFixed ==
  ASSUME [Next]_vars
  PROVE  rules' = rules
<1>1. ASSUME NEW d \in Dirs, NEW u \in Units,
             RestoreAfterWait(d, u) \/ Compile(d, u) \/ RunScript(d, u) \/ Attach(d, u)
      PROVE  rules' = rules
  BY <1>1 DEF RestoreAfterWait, Compile, RunScript, Execute, Attach
<1>2. ASSUME NEW d \in Dirs, Start(d) \/ CheckUnits(d) \/ Fails(d) \/ Finish(d) \/ Leave(d)
      PROVE  rules' = rules
  BY <1>2 DEF Start, CheckUnits, Fails, Finish, Leave
<1>3. ASSUME NEW d \in Dirs, RekeyCheck(d) \/ Replan(d) \/ Verify(d) \/ Move(d) \/ SaveRekeyed(d)
      PROVE  rules' = rules
  BY <1>3 DEF RekeyCheck, Replan, Verify, Move, SaveRekeyed
<1>4. ASSUME NEW d \in Dirs, Edit(d) \/ Crash(d)
      PROVE  rules' = rules
  BY <1>4 DEF Edit, Crash
<1> QED
  BY <1>1, <1>2, <1>3, <1>4 DEF Next, vars

(* The invariant holds of every behaviour that is not disturbed. *)
THEOREM FreshInvariant == Spec => [](Undisturbed(rules) => FreshInv)
<1>1. Init => (Undisturbed(rules) => FreshInv)
  BY FreshInit
<1>2. (Undisturbed(rules) => FreshInv) /\ [Next]_vars => (Undisturbed(rules) => FreshInv)'
  <2> SUFFICES ASSUME Undisturbed(rules) => FreshInv, [Next]_vars, Undisturbed(rules)'
               PROVE  FreshInv'
    OBVIOUS
  <2>1. rules' = rules
    BY RulesFixed
  <2>2. Undisturbed(rules)
    BY <2>1
  <2> QED
    BY <2>2, FreshNext
<1> QED
  BY <1>1, <1>2, PTL DEF Spec

(* For any graph, programs, checkouts, numbers of builds and edits: a build *)
(* leaves what a clean build of the sources would (plan.rs keys, exec.rs    *)
(* lookup and discovered_inputs, build.rs execute and rekey), as long as    *)
(* nothing is edited while it is built, scripts that stop declaring their   *)
(* inputs read no more than they declared, and, where builds overlap or are *)
(* killed, what the programs look at does not depend on the sources.        *)
THEOREM BuildsAreCurrent == Spec => [](Undisturbed(rules) => BuiltIsCurrent)
<1>1. FreshInv => BuiltIsCurrent
  <2> SUFFICES ASSUME FreshInv, NEW d \in Dirs, proc[d].phase = "done", NEW u \in Roots
               PROVE  disk[d][u] = Ideal(rules.programs, now[d], proc[d].env)[u]
    BY DEF BuiltIsCurrent
  <2>1. Built(d)
    BY DEF FreshInv, Busy, BuildSound
  <2> QED
    BY <2>1 DEF Built, Right, Made, After
<1> QED
  BY <1>1, FreshInvariant, PTL

-----------------------------------------------------------------------------
(* What a build leaves for the next: every root's entry under the key that *)
(* the next plan will give it.                                             *)

AllFound(S, plan, c, e) ==
  \A u \in Roots : \E x \in S : x.key = plan[u].key /\ Holds(x.inputs, c, e)

\* What is recorded was stored.
InStore(S, rec) ==
  rec # None => IsRecord(rec) /\ \E x \in S : x.key = rec.key /\ x.inputs = rec.inputs

\* A build b of the sources c has u's outputs, whose inputs still hold.
Owns(b, u, c) ==
  LET rec == b.mem[u]
  IN  rec # None /\ rec.key = b.plan[u].key /\ Holds(rec.inputs, c, b.env)

\* A digest that differs from the planned one is that of a unit just looked
\* into; once a build is over, its roots are found.
Foresees(S, p, c, b) ==
  /\ b.phase \in {"planned", "build", "rekey", "replan", "verify"} =>
       \A u \in Units : b.plan[u].digest # InputDigest(p, u, c, b.env) => Owns(b, u, c)
  /\ b.phase \in {"planned", "build"} /\ ~b.grown => b.plan = PlanAt(p, c, b.env)
  /\ b.phase \in {"verify", "move"} => b.new = PlanAt(p, c, b.env)
  /\ b.phase \in {"resave", "done"} => AllFound(S, PlanAt(p, c, b.env), c, b.env)

\* A build of sources that stay as they are.
Goes(S, p, c, b) ==
  /\ b.trees = TreeHashes(c)
  /\ b.phase = "planned" => ~b.grown /\ (b.again => AllFound(S, b.plan, c, b.env))
  /\ b.phase = "build" => /\ b.again => b.todo = {}
                          /\ \A u \in Roots : u \in b.todo \/ Owns(b, u, c)
  /\ b.phase \in {"rekey", "replan", "verify", "move"} => \A u \in Roots : Owns(b, u, c)
  /\ b.alone => Foresees(S, p, c, b)

Resumes(S, p, c, e) == e # None => AllFound(S, PlanAt(p, c, e), c, e)

Sits(d) ==
  /\ saved[d] = [u \in Units |-> saved[d][u]]
  /\ \A u \in Units : InStore(store, saved[d][u])
  /\ Busy(d) => /\ Build(proc[d])
                /\ \A u \in Units : InStore(store, proc[d].mem[u])
                /\ proc[d].quiet => Goes(store, pred, now[d], proc[d])
  /\ ~Busy(d) => Resumes(store, pred, now[d], last[d])

RedoInv ==
  /\ rules \in Rules /\ pred = [u \in Units |-> pred[u]]
  /\ now = [d \in Dirs |-> now[d]] /\ saved = [d \in Dirs |-> saved[d]]
  /\ proc = [d \in Dirs |-> proc[d]] /\ last = [d \in Dirs |-> last[d]]
  /\ \A x \in store : IsEntry(x)
  /\ \A d \in Dirs : Sits(d)

\* The absence of a record is not one.
NoneIsNoRecord == \A key, inputs : None # [key |-> key, inputs |-> inputs]

\* Every set of inputs stored in S under some key is in T under that key.
Within(S, T) == \A x \in S : \E y \in T : y.key = x.key /\ y.inputs = x.inputs

LEMMA WithinFact ==
  ASSUME NEW S, NEW T, Within(S, T)
  PROVE  /\ \A rec : InStore(S, rec) => InStore(T, rec)
         /\ \A plan, c, e : AllFound(S, plan, c, e) => AllFound(T, plan, c, e)
         /\ \A p, c, b : Goes(S, p, c, b) => Goes(T, p, c, b)
         /\ \A p, c, e : Resumes(S, p, c, e) => Resumes(T, p, c, e)
<1>1. \A rec : InStore(S, rec) => InStore(T, rec)
  BY DEF Within, InStore
<1>2. ASSUME NEW plan, NEW c, NEW e, AllFound(S, plan, c, e)
      PROVE  AllFound(T, plan, c, e)
  <2> SUFFICES ASSUME NEW u \in Roots
               PROVE  \E y \in T : y.key = plan[u].key /\ Holds(y.inputs, c, e)
    BY DEF AllFound
  <2>1. PICK x \in S : x.key = plan[u].key /\ Holds(x.inputs, c, e)
    BY <1>2 DEF AllFound
  <2>2. PICK y \in T : y.key = x.key /\ y.inputs = x.inputs
    BY DEF Within
  <2>3. y.key = plan[u].key /\ Holds(y.inputs, c, e)
    BY <2>1, <2>2
  <2> QED
    BY <2>3
<1>3. \A p, c, b : Foresees(S, p, c, b) => Foresees(T, p, c, b)
  BY <1>2 DEF Foresees
<1>4. \A p, c, b : Goes(S, p, c, b) => Goes(T, p, c, b)
  BY <1>2, <1>3 DEF Goes
<1> QED
  BY <1>1, <1>2, <1>4 DEF Resumes

\* Storing loses nothing, and what is stored is there.
LEMMA UpsertFact ==
  ASSUME NEW S, NEW T
  PROVE  Within(S, Upsert(S, T)) /\ T \subseteq Upsert(S, T) /\ Upsert(S, T) \subseteq S \cup T
BY DEF Within, Upsert

\* What a record and an entry under its key allow.
LEMMA OwnsFact ==
  ASSUME NEW S, NEW b, NEW c, \A u \in Roots : Owns(b, u, c) /\ InStore(S, b.mem[u])
  PROVE  AllFound(S, b.plan, c, b.env)
<1> SUFFICES ASSUME NEW u \in Roots
             PROVE  \E x \in S : x.key = b.plan[u].key /\ Holds(x.inputs, c, b.env)
  BY DEF AllFound
<1>1. /\ b.mem[u] # None /\ b.mem[u].key = b.plan[u].key
      /\ Holds(b.mem[u].inputs, c, b.env)
  BY DEF Owns
<1>2. PICK x \in S : x.key = b.mem[u].key /\ x.inputs = b.mem[u].inputs
  BY <1>1 DEF InStore
<1> QED
  BY <1>1, <1>2

-----------------------------------------------------------------------------
(* A step of one build leaves the others what they had, or tells them that *)
(* they are not alone.                                                     *)

Bystander(o) ==
  /\ now'[o] = now[o] /\ saved'[o] = saved[o]
  /\ \/ proc'[o] = proc[o]
     \/ Busy(o) /\ proc'[o] = [proc[o] EXCEPT !.alone = FALSE]
  /\ last'[o] = last[o] \/ last'[o] = None
  /\ pred' = pred \/ (IF Busy(o) THEN proc'[o].alone = FALSE ELSE last'[o] = None)

LEMMA BystanderSits ==
  ASSUME RedoInv, rules' = rules, Within(store, store'), NEW o \in Dirs, Bystander(o)
  PROVE  Sits(o)'
<1>1. Sits(o)
  BY DEF RedoInv
<1>2. /\ \A rec : InStore(store, rec) => InStore(store', rec)
      /\ \A p, c, b : Goes(store, p, c, b) => Goes(store', p, c, b)
      /\ \A p, c, e : Resumes(store, p, c, e) => Resumes(store', p, c, e)
  BY WithinFact
<1>3. (saved[o] = [u \in Units |-> saved[o][u]] /\ \A u \in Units : InStore(store, saved[o][u]))'
  BY <1>1, <1>2 DEF Sits, Bystander
<1>4. CASE ~Busy(o)
  <2>1. ~Busy(o)' /\ now'[o] = now[o]
    BY <1>4 DEF Bystander, Busy
  <2>2. Resumes(store, pred, now[o], last[o])
    BY <1>1, <1>4 DEF Sits
  <2>3. Resumes(store', pred', now[o], last'[o])
    <3>1. CASE last'[o] = None
      BY <3>1 DEF Resumes
    <3>2. CASE last'[o] = last[o] /\ pred' = pred
      BY <1>2, <2>2, <3>2
    <3> QED
      BY <1>4, <3>1, <3>2 DEF Bystander
  <2> QED
    BY <1>3, <2>1, <2>3 DEF Sits
<1>5. CASE Busy(o)
  <2>1. /\ Build(proc[o]) /\ Whole(proc[o])
        /\ \A u \in Units : InStore(store, proc[o].mem[u])
        /\ proc[o].quiet => Goes(store, pred, now[o], proc[o])
    BY <1>1, <1>5 DEF Sits, Build
  <2>2. CASE proc'[o] = proc[o] /\ pred' = pred
    <3>1. Busy(o)' /\ now'[o] = now[o]
      BY <1>5, <2>2 DEF Busy, Bystander
    <3>2. Build(proc[o])'
      BY <2>1, <2>2 DEF Build
    <3>3. /\ \A u \in Units : InStore(store', proc'[o].mem[u])
          /\ proc'[o].quiet => Goes(store', pred', now'[o], proc'[o])
      BY <1>2, <2>1, <2>2, <3>1
    <3> QED
      BY <1>3, <3>1, <3>2, <3>3 DEF Sits
  <2>3. CASE proc'[o].alone = FALSE /\ proc'[o] # proc[o]
    <3> DEFINE no == FALSE
               a  == [proc[o] EXCEPT !.alone = no]
    <3>1. proc'[o] = a
      BY <2>3 DEF Bystander
    <3>2. a.alone = no /\ ~no
      BY <2>1 DEF Whole
    <3> HIDE DEF no
    <3>3. /\ a.phase = proc[o].phase /\ a.env = proc[o].env /\ a.trees = proc[o].trees
          /\ a.plan = proc[o].plan /\ a.new = proc[o].new /\ a.mem = proc[o].mem
          /\ a.todo = proc[o].todo /\ a.compiled = proc[o].compiled /\ a.grown = proc[o].grown
          /\ a.quiet = proc[o].quiet /\ a.again = proc[o].again
      BY <2>1 DEF Whole
    <3>4. Whole(a)
      BY <2>1 DEF Whole
    <3> HIDE DEF a
    <3>5. Build(a)
      BY <2>1, <3>3, <3>4 DEF Build
    <3>6. a.quiet => Goes(store, pred', now[o], a)
      BY <2>1, <3>2, <3>3 DEF Goes, Owns
    <3>7. /\ Busy(o)' /\ now'[o] = now[o] /\ Build(proc[o])'
      BY <1>5, <3>1, <3>3, <3>5 DEF Busy, Bystander, Build
    <3>8. /\ \A u \in Units : InStore(store', proc'[o].mem[u])
          /\ proc'[o].quiet => Goes(store', pred', now'[o], proc'[o])
      BY <1>2, <2>1, <3>1, <3>3, <3>6, <3>7
    <3> QED
      BY <1>3, <3>7, <3>8 DEF Sits
  <2>4. CASE proc'[o].alone = FALSE /\ proc'[o] = proc[o]
    <3>1. Busy(o)' /\ now'[o] = now[o]
      BY <1>5, <2>4 DEF Busy, Bystander
    <3>2. Build(proc[o])'
      BY <2>1, <2>4 DEF Build
    <3>3. proc[o].quiet => Goes(store, pred', now[o], proc[o])
      BY <2>1, <2>4 DEF Goes
    <3>4. /\ \A u \in Units : InStore(store', proc'[o].mem[u])
          /\ proc'[o].quiet => Goes(store', pred', now'[o], proc'[o])
      BY <1>2, <2>1, <2>4, <3>1, <3>3
    <3> QED
      BY <1>3, <3>1, <3>2, <3>4 DEF Sits
  <2>5. \/ proc'[o] = proc[o] /\ pred' = pred
        \/ proc'[o].alone = FALSE
    <3>1. CASE proc'[o] = proc[o]
      BY <1>5, <3>1 DEF Bystander
    <3>2. CASE proc'[o] = [proc[o] EXCEPT !.alone = FALSE]
      <4>1. proc'[o].alone = FALSE
        BY <2>1, <3>2, Zenon DEF Whole
      <4> QED
        BY <4>1
    <3> QED
      BY <3>1, <3>2 DEF Bystander
  <2> QED
    BY <2>2, <2>3, <2>4, <2>5
<1> QED
  BY <1>4, <1>5

LEMMA RedoStep ==
  ASSUME RedoInv, NEW d \in Dirs, rules' = rules, Within(store, store'),
         pred' = [u \in Units |-> pred'[u]], now' = [o \in Dirs |-> now'[o]],
         saved' = [o \in Dirs |-> saved'[o]], proc' = [o \in Dirs |-> proc'[o]],
         last' = [o \in Dirs |-> last'[o]],
         \A x \in store' : IsEntry(x),
         \A o \in Dirs \ {d} : Bystander(o), Sits(d)'
  PROVE  RedoInv'
<1>1. \A o \in Dirs : Sits(o)'
  BY BystanderSits
<1> QED
  BY <1>1 DEF RedoInv

\* A step of a build that neither learns nor stores.
LEMMA OnwardStep ==
  ASSUME RedoInv, NEW d \in Dirs, NEW b, NEW S,
         rules' = rules, now' = now, pred' = pred, store' = store, last' = last,
         proc' = [proc EXCEPT ![d] = b], saved' = [saved EXCEPT ![d] = S],
         S = [u \in Units |-> S[u]], \A u \in Units : InStore(store, S[u]),
         Build(b), \A u \in Units : InStore(store, b.mem[u]),
         b.quiet => Goes(store, pred, now[d], b)
  PROVE  RedoInv'
<1>1. /\ pred = [u \in Units |-> pred[u]] /\ now = [o \in Dirs |-> now[o]]
      /\ saved = [o \in Dirs |-> saved[o]] /\ proc = [o \in Dirs |-> proc[o]]
      /\ last = [o \in Dirs |-> last[o]] /\ \A x \in store : IsEntry(x)
  BY DEF RedoInv
<1>2. /\ proc'[d] = b /\ saved'[d] = S
      /\ \A o \in Dirs \ {d} : proc'[o] = proc[o] /\ saved'[o] = saved[o]
  BY <1>1
<1>3. Within(store, store')
  BY DEF Within
<1>4. \A o \in Dirs \ {d} : Bystander(o)
  BY <1>2 DEF Bystander
<1>5. Sits(d)'
  <2>1. Busy(d)'
    BY <1>2 DEF Busy, Build, After
  <2>2. Build(proc[d])'
    BY <1>2 DEF Build
  <2>3. (saved[d] = [u \in Units |-> saved[d][u]] /\ \A u \in Units : InStore(store, saved[d][u]))'
    BY <1>2
  <2>4. /\ \A u \in Units : InStore(store', proc'[d].mem[u])
        /\ proc'[d].quiet => Goes(store', pred', now'[d], proc'[d])
    BY <1>2
  <2> QED
    BY <2>1, <2>2, <2>3, <2>4 DEF Sits
<1>6. /\ now' = [o \in Dirs |-> now'[o]] /\ last' = [o \in Dirs |-> last'[o]]
      /\ saved' = [o \in Dirs |-> saved'[o]] /\ proc' = [o \in Dirs |-> proc'[o]]
      /\ pred' = [u \in Units |-> pred'[u]] /\ \A x \in store' : IsEntry(x)
  BY <1>1
<1> QED
  BY <1>3, <1>4, <1>5, <1>6, RedoStep

\* What a build that has begun is known to keep.
Underway(d) ==
  /\ Build(proc[d]) /\ \A u \in Units : InStore(store, proc[d].mem[u])
  /\ proc[d].quiet => Goes(store, pred, now[d], proc[d])
  /\ proc = [o \in Dirs |-> proc[o]] /\ saved = [o \in Dirs |-> saved[o]]
  /\ saved[d] = [u \in Units |-> saved[d][u]]
  /\ \A u \in Units : InStore(store, saved[d][u])

LEMMA UnderwayFact ==
  ASSUME RedoInv, NEW d \in Dirs, Busy(d)
  PROVE  Underway(d)
BY DEF RedoInv, Sits, Underway

\* A build moves to another phase.
LEMMA OnwardPhase ==
  ASSUME RedoInv, NEW d \in Dirs, Busy(d), NEW to \in {"build"} \cup After,
         proc' = [proc EXCEPT ![d].phase = to],
         saved' \in {saved, [saved EXCEPT ![d] = proc[d].mem]},
         rules' = rules, now' = now, pred' = pred, store' = store, last' = last,
         \A b : /\ proc[d].quiet /\ b.phase = to
                /\ b.env = proc[d].env /\ b.trees = proc[d].trees /\ b.plan = proc[d].plan
                /\ b.new = proc[d].new /\ b.mem = proc[d].mem /\ b.grown = proc[d].grown
                /\ b.alone = proc[d].alone
                => Goes(store, pred, now[d], b)
  PROVE  RedoInv'
<1>1. Underway(d)
  BY UnderwayFact
<1>2. Whole(proc[d]) /\ Build(proc[d]) /\ proc[d].mem = [u \in Units |-> proc[d].mem[u]]
  BY <1>1 DEF Underway, Build
<1> DEFINE b == [proc[d] EXCEPT !.phase = to]
<1>3. proc' = [proc EXCEPT ![d] = b]
  BY <1>1 DEF Underway
<1>4. /\ b.phase = to /\ b.env = proc[d].env /\ b.trees = proc[d].trees
      /\ b.plan = proc[d].plan /\ b.new = proc[d].new /\ b.mem = proc[d].mem
      /\ b.grown = proc[d].grown /\ b.alone = proc[d].alone /\ b.quiet = proc[d].quiet
  BY <1>2 DEF Whole
<1>5. Whole(b)
  BY <1>2 DEF Whole
<1> HIDE DEF b
<1>6. Build(b)
  BY <1>2, <1>4, <1>5 DEF Build
<1>7. b.quiet => Goes(store, pred, now[d], b)
  BY <1>4
<1>8. \A u \in Units : InStore(store, b.mem[u])
  BY <1>1, <1>4 DEF Underway
<1>9. CASE saved' = saved
  <2>1. saved' = [saved EXCEPT ![d] = saved[d]]
    BY <1>1, <1>9 DEF Underway
  <2> QED
    BY <1>1, <1>3, <1>6, <1>7, <1>8, <2>1, OnwardStep DEF Underway
<1>10. CASE saved' = [saved EXCEPT ![d] = proc[d].mem]
  BY <1>1, <1>2, <1>3, <1>6, <1>7, <1>8, <1>10, OnwardStep DEF Underway
<1> QED
  BY <1>9, <1>10

LEMMA RedoFinish ==
  ASSUME RedoInv, NEW d \in Dirs, Finish(d)
  PROVE  RedoInv'
<1> DEFINE to == IF proc[d].grown THEN "rekey" ELSE "done"
<1>1. /\ Busy(d) /\ proc[d].phase = "build" /\ proc[d].todo = {}
      /\ proc' = [proc EXCEPT ![d].phase = to] /\ saved' = [saved EXCEPT ![d] = proc[d].mem]
      /\ rules' = rules /\ now' = now /\ pred' = pred /\ store' = store /\ last' = last
  BY DEF Finish, Busy
<1>2. to \in After /\ (to = "rekey" \/ (to = "done" /\ ~proc[d].grown))
  BY DEF After
<1> HIDE DEF to
<1>3. ASSUME NEW b, proc[d].quiet, b.phase = to,
             b.env = proc[d].env, b.trees = proc[d].trees, b.plan = proc[d].plan,
             b.new = proc[d].new, b.mem = proc[d].mem, b.grown = proc[d].grown,
             b.alone = proc[d].alone
      PROVE  Goes(store, pred, now[d], b)
  <2>1. Underway(d) /\ Goes(store, pred, now[d], proc[d])
    BY <1>1, <1>3, UnderwayFact DEF Underway
  <2>2. \A u \in Units : Owns(b, u, now[d]) <=> Owns(proc[d], u, now[d])
    BY <1>3 DEF Owns
  <2>3. b.trees = TreeHashes(now[d]) /\ \A u \in Roots : Owns(b, u, now[d])
    BY <1>1, <1>3, <2>1, <2>2, FreshnessAssumption DEF Goes
  <2>4. CASE to = "rekey"
    BY <1>1, <1>3, <2>1, <2>2, <2>3, <2>4 DEF Goes, Foresees
  <2>5. CASE to = "done" /\ ~proc[d].grown
    <3>1. \A u \in Roots : InStore(store, b.mem[u])
      BY <1>3, <2>1, FreshnessAssumption DEF Underway
    <3>2. AllFound(store, b.plan, now[d], b.env)
      BY <2>3, <3>1, OwnsFact
    <3>3. b.alone => b.plan = PlanAt(pred, now[d], b.env)
      BY <1>1, <1>3, <2>1, <2>5 DEF Goes, Foresees
    <3>4. b.alone => Foresees(store, pred, now[d], b)
      BY <1>3, <2>5, <3>2, <3>3 DEF Foresees
    <3> QED
      BY <1>3, <2>3, <2>5, <3>4 DEF Goes
  <2> QED
    BY <1>2, <2>4, <2>5
<1> QED
  BY <1>1, <1>2, <1>3, OnwardPhase

\* The sources are as they were hashed.
LEMMA RedoRekeyCheck ==
  ASSUME RedoInv, NEW d \in Dirs, RekeyCheck(d)
  PROVE  RedoInv'
<1> DEFINE to == IF TreeHashes(now[d]) = proc[d].trees THEN "replan" ELSE "done"
<1>1. /\ Busy(d) /\ proc[d].phase = "rekey" /\ proc' = [proc EXCEPT ![d].phase = to]
      /\ rules' = rules /\ now' = now /\ pred' = pred /\ store' = store /\ last' = last
      /\ saved' = saved
  BY DEF RekeyCheck, Busy
<1>2. to \in After /\ (TreeHashes(now[d]) = proc[d].trees => to = "replan")
  BY DEF After
<1> HIDE DEF to
<1>3. ASSUME NEW b, proc[d].quiet, b.phase = to,
             b.env = proc[d].env, b.trees = proc[d].trees, b.plan = proc[d].plan,
             b.new = proc[d].new, b.mem = proc[d].mem, b.grown = proc[d].grown,
             b.alone = proc[d].alone
      PROVE  Goes(store, pred, now[d], b)
  <2>1. Goes(store, pred, now[d], proc[d])
    BY <1>1, <1>3, UnderwayFact DEF Underway
  <2>2. \A u \in Units : Owns(b, u, now[d]) <=> Owns(proc[d], u, now[d])
    BY <1>3 DEF Owns
  <2>3. /\ b.trees = TreeHashes(now[d]) /\ to = "replan"
        /\ \A u \in Roots : Owns(b, u, now[d])
    BY <1>1, <1>2, <1>3, <2>1, <2>2, FreshnessAssumption DEF Goes
  <2> QED
    BY <1>1, <1>3, <2>1, <2>2, <2>3 DEF Goes, Foresees
<1> QED
  BY <1>1, <1>2, <1>3, OnwardPhase

\* A digest moved only where the unit was just looked into, and its inputs are
\* as they were found.
LEMMA RedoVerify ==
  ASSUME RedoInv, NEW d \in Dirs, Verify(d)
  PROVE  RedoInv'
<1> DEFINE ok == \A u \in Moved(d) :
             proc[d].plan[u].digest # proc[d].new[u].digest =>
               OwnsSlot(d, u) /\ InputsHold(d, proc[d].mem[u].inputs)
           to == IF ok THEN "move" ELSE "done"
<1>1. /\ Busy(d) /\ proc[d].phase = "verify" /\ proc' = [proc EXCEPT ![d].phase = to]
      /\ rules' = rules /\ now' = now /\ pred' = pred /\ store' = store /\ last' = last
      /\ saved' = saved
  BY DEF Verify, Busy
<1>2. to \in {"move", "done"} /\ to \in After /\ (ok => to = "move")
  BY DEF After
<1> HIDE DEF to
<1>3. ASSUME NEW b, proc[d].quiet, b.phase = to,
             b.env = proc[d].env, b.trees = proc[d].trees, b.plan = proc[d].plan,
             b.new = proc[d].new, b.mem = proc[d].mem, b.grown = proc[d].grown,
             b.alone = proc[d].alone
      PROVE  Goes(store, pred, now[d], b)
  <2>1. Goes(store, pred, now[d], proc[d])
    BY <1>1, <1>3, UnderwayFact DEF Underway
  <2>2. \A u \in Units : Owns(b, u, now[d]) <=> Owns(proc[d], u, now[d])
    BY <1>3 DEF Owns
  <2>3. b.trees = TreeHashes(now[d]) /\ \A u \in Roots : Owns(b, u, now[d])
    BY <1>1, <1>3, <2>1, <2>2, FreshnessAssumption DEF Goes
  <2>4. CASE ~b.alone
    BY <1>2, <1>3, <2>3, <2>4 DEF Goes
  <2>5. CASE b.alone
    <3>1. proc[d].new = PlanAt(pred, now[d], proc[d].env)
      BY <1>1, <1>3, <2>1, <2>5 DEF Goes, Foresees
    <3>2. \A u \in Units : proc[d].new[u].digest = InputDigest(pred, u, now[d], proc[d].env)
      BY <3>1, PlanAtFact
    <3>3. \A u \in Units : proc[d].plan[u].digest # proc[d].new[u].digest =>
                             Owns(proc[d], u, now[d])
      BY <1>1, <1>3, <2>1, <2>5, <3>2 DEF Goes, Foresees
    <3>4. ok
      BY <3>3 DEF Moved, Owns, OwnsSlot, Key, InputsHold, Holds
    <3>5. b.phase = "move"
      BY <1>2, <1>3, <3>4
    <3>6. Foresees(store, pred, now[d], b)
      BY <1>3, <3>1, <3>5 DEF Foresees
    <3> QED
      BY <2>3, <3>5, <3>6 DEF Goes
  <2> QED
    BY <2>4, <2>5
<1> HIDE DEF ok
<1> QED
  BY <1>1, <1>2, <1>3, OnwardPhase

LEMMA RedoSaveRekeyed ==
  ASSUME RedoInv, NEW d \in Dirs, SaveRekeyed(d)
  PROVE  RedoInv'
<1>1. /\ Busy(d) /\ proc[d].phase = "resave" /\ proc' = [proc EXCEPT ![d].phase = "done"]
      /\ rules' = rules /\ now' = now /\ pred' = pred /\ store' = store /\ last' = last
      /\ saved' = [saved EXCEPT ![d] = proc[d].mem]
  BY DEF SaveRekeyed, Busy
<1>2. ASSUME NEW b, proc[d].quiet, b.phase = "done",
             b.env = proc[d].env, b.trees = proc[d].trees, b.plan = proc[d].plan,
             b.new = proc[d].new, b.mem = proc[d].mem, b.grown = proc[d].grown,
             b.alone = proc[d].alone
      PROVE  Goes(store, pred, now[d], b)
  <2>1. Goes(store, pred, now[d], proc[d])
    BY <1>1, <1>2, UnderwayFact DEF Underway
  <2> QED
    BY <1>1, <1>2, <2>1 DEF Goes, Foresees
<1>3. "done" \in After
  BY DEF After
<1> QED
  BY <1>1, <1>2, <1>3, OnwardPhase

LEMMA RedoReplan ==
  ASSUME RedoInv, NEW d \in Dirs, Replan(d)
  PROVE  RedoInv'
<1> DEFINE new == PlanFor(pred, now[d], proc[d].env, proc[d].trees)
           a   == [proc[d] EXCEPT !.phase = "verify"]
           b   == [a EXCEPT !.new = new]
<1>1. /\ Busy(d) /\ proc[d].phase = "replan"
      /\ proc' = [proc EXCEPT ![d].phase = "verify", ![d].new = new]
      /\ rules' = rules /\ now' = now /\ pred' = pred /\ store' = store /\ last' = last
      /\ saved' = saved
  BY DEF Replan, Busy
<1>2. Underway(d) /\ Build(proc[d]) /\ Whole(proc[d])
      /\ proc[d].mem = [u \in Units |-> proc[d].mem[u]]
  BY <1>1, UnderwayFact DEF Underway, Build
<1>3. proc[d].quiet => new = PlanAt(pred, now[d], proc[d].env)
  BY <1>2 DEF Underway, Goes, PlanAt
<1> HIDE DEF new
<1>4. proc' = [proc EXCEPT ![d] = b]
  BY <1>1, <1>2 DEF Underway, Whole
<1>5. /\ b.phase = "verify" /\ b.env = proc[d].env /\ b.trees = proc[d].trees
      /\ b.plan = proc[d].plan /\ b.new = new /\ b.mem = proc[d].mem
      /\ b.grown = proc[d].grown /\ b.alone = proc[d].alone /\ b.quiet = proc[d].quiet
  BY <1>2 DEF Whole
<1>6. Whole(b)
  <2>1. Whole(a)
    BY <1>2 DEF Whole
  <2> HIDE DEF a
  <2> QED
    BY <2>1 DEF Whole
<1> HIDE DEF a, b
<1>7. Build(b)
  BY <1>2, <1>5, <1>6 DEF Build, After
<1>8. ASSUME b.quiet
      PROVE  Goes(store, pred, now[d], b)
  <2>1. Goes(store, pred, now[d], proc[d])
    BY <1>2, <1>5, <1>8 DEF Underway
  <2>2. \A u \in Units : Owns(b, u, now[d]) <=> Owns(proc[d], u, now[d])
    BY <1>5 DEF Owns
  <2>3. b.new = PlanAt(pred, now[d], b.env)
    BY <1>3, <1>5, <1>8
  <2>4. b.trees = TreeHashes(now[d]) /\ \A u \in Roots : Owns(b, u, now[d])
    BY <1>1, <1>5, <2>1, <2>2, FreshnessAssumption DEF Goes
  <2>5. b.alone => Foresees(store, pred, now[d], b)
    BY <1>1, <1>5, <2>1, <2>2, <2>3 DEF Goes, Foresees
  <2> QED
    BY <1>5, <2>4, <2>5 DEF Goes
<1>9. saved' = [saved EXCEPT ![d] = saved[d]] /\ \A u \in Units : InStore(store, b.mem[u])
  BY <1>1, <1>2, <1>5 DEF Underway
<1> QED
  BY <1>1, <1>2, <1>4, <1>7, <1>8, <1>9, OnwardStep DEF Underway

\* A build like the last one finds all it asks for.
LEMMA RedoStart ==
  ASSUME RedoInv, NEW d \in Dirs, Start(d)
  PROVE  RedoInv'
<1>1. /\ ~Busy(d) /\ rules' = rules /\ now' = now /\ pred' = pred /\ store' = store
      /\ saved' = saved /\ last' = last
  BY DEF Start, Busy
<1>2. PICK e \in rules.envs :
        LET trees == TreeHashes(now[d])
            plan  == PlanFor(pred, now[d], e, trees)
        IN  proc' = [proc EXCEPT ![d] =
              [phase |-> "planned", env |-> e, trees |-> trees, plan |-> plan,
               new |-> plan, mem |-> saved[d], todo |-> {},
               compiled |-> [u \in {} |-> None], grown |-> FALSE,
               quiet |-> TRUE, alone |-> TRUE, again |-> last[d] = e]]
  BY DEF Start
<1> DEFINE plan == PlanAt(pred, now[d], e)
           none == [u \in {} |-> None]
           no == FALSE
           yes == TRUE
           again == last[d] = e
           b == [phase |-> "planned", env |-> e, trees |-> TreeHashes(now[d]), plan |-> plan,
                 new |-> plan, mem |-> saved[d], todo |-> {}, compiled |-> none, grown |-> no,
                 quiet |-> yes, alone |-> yes, again |-> again]
<1>3. proc' = [proc EXCEPT ![d] = b]
  BY <1>2 DEF PlanAt
<1>4. /\ saved = [o \in Dirs |-> saved[o]] /\ saved[d] = [u \in Units |-> saved[d][u]]
      /\ \A u \in Units : InStore(store, saved[d][u])
      /\ Resumes(store, pred, now[d], last[d]) /\ rules \in Rules
  BY <1>1 DEF RedoInv, Sits
<1>5. e # None
  BY <1>4, FreshnessAssumption
<1>6. again => AllFound(store, plan, now[d], e)
  BY <1>4, <1>5 DEF Resumes
<1>7. ~no /\ no \in BOOLEAN
  OBVIOUS
<1>8. \A u \in Units : plan[u].digest = InputDigest(pred, u, now[d], e)
  BY PlanAtFact
<1>9. plan = PlanAt(pred, now[d], e)
  OBVIOUS
<1> HIDE DEF plan, none, no, yes, again
<1>10. /\ b.phase = "planned" /\ b.env = e /\ b.trees = TreeHashes(now[d]) /\ b.plan = plan
       /\ b.mem = saved[d] /\ b.grown = no /\ b.again = again
  OBVIOUS
<1>11. Whole(b)
  BY DEF Whole
<1> HIDE DEF b
<1>12. Build(b)
  BY <1>4, <1>7, <1>10, <1>11 DEF Build
<1>13. Goes(store, pred, now[d], b)
  BY <1>6, <1>7, <1>8, <1>9, <1>10 DEF Goes, Foresees
<1>14. saved' = [saved EXCEPT ![d] = saved[d]] /\ \A u \in Units : InStore(store, b.mem[u])
  BY <1>1, <1>4, <1>10
<1> QED
  BY <1>1, <1>3, <1>4, <1>12, <1>13, <1>14, OnwardStep

\* A program is not looked into when it has just run.
LEMMA RedoExecute ==
  ASSUME RedoInv, NEW d \in Dirs, NEW u \in Units, Execute(d, u)
  PROVE  RedoInv'
<1>1. /\ Busy(d) /\ rules' = rules /\ now' = now /\ pred' = pred /\ store' = store
      /\ saved' = saved /\ last' = last
  BY DEF Execute, Pending, Busy
<1>2. PICK compiled : proc' = [proc EXCEPT ![d].compiled = compiled]
  BY DEF Execute
<1>3. Underway(d) /\ Build(proc[d]) /\ Whole(proc[d])
      /\ proc[d].mem = [v \in Units |-> proc[d].mem[v]]
  BY <1>1, UnderwayFact DEF Underway, Build
<1> DEFINE b == [proc[d] EXCEPT !.compiled = compiled]
<1>4. proc' = [proc EXCEPT ![d] = b]
  BY <1>2, <1>3 DEF Underway
<1>5. /\ b.phase = proc[d].phase /\ b.env = proc[d].env /\ b.trees = proc[d].trees
      /\ b.plan = proc[d].plan /\ b.new = proc[d].new /\ b.mem = proc[d].mem
      /\ b.todo = proc[d].todo /\ b.grown = proc[d].grown /\ b.alone = proc[d].alone
      /\ b.quiet = proc[d].quiet /\ b.again = proc[d].again
  BY <1>3 DEF Whole
<1>6. Whole(b)
  BY <1>3 DEF Whole
<1> HIDE DEF b
<1>7. Build(b)
  BY <1>3, <1>5, <1>6 DEF Build
<1>8. b.quiet => Goes(store, pred, now[d], b)
  <2>1. \A v \in Units : Owns(b, v, now[d]) <=> Owns(proc[d], v, now[d])
    BY <1>5 DEF Owns
  <2> QED
    BY <1>3, <1>5, <2>1, FreshnessAssumption DEF Underway, Goes, Foresees
<1>9. saved' = [saved EXCEPT ![d] = saved[d]] /\ \A v \in Units : InStore(store, b.mem[v])
  BY <1>1, <1>3, <1>5 DEF Underway
<1> QED
  BY <1>1, <1>3, <1>4, <1>7, <1>8, <1>9, OnwardStep DEF Underway

\* What is restored is owned.
LEMMA RedoRestore ==
  ASSUME NoneIsNoRecord, RedoInv, NEW d \in Dirs, NEW u \in Units, RestoreAfterWait(d, u)
  PROVE  RedoInv'
<1>1. /\ Busy(d) /\ proc[d].phase = "build"
      /\ rules' = rules /\ now' = now /\ pred' = pred /\ store' = store
      /\ saved' = saved /\ last' = last
  BY DEF RestoreAfterWait, Pending, Busy
<1>2. PICK x \in Hits(d, u) :
        proc' = [proc EXCEPT ![d].todo = @ \ {u},
                             ![d].mem[u] = [key |-> Key(d, u), inputs |-> x.inputs]]
  BY DEF RestoreAfterWait
<1>3. Underway(d) /\ Build(proc[d]) /\ Whole(proc[d])
      /\ proc[d].mem = [v \in Units |-> proc[d].mem[v]]
  BY <1>1, UnderwayFact DEF Underway, Build
<1> DEFINE rec == [key |-> Key(d, u), inputs |-> x.inputs]
           mem == [proc[d].mem EXCEPT ![u] = rec]
           left == proc[d].todo \ {u}
           a == [proc[d] EXCEPT !.todo = left]
           b == [a EXCEPT !.mem = mem]
<1>4. proc' = [proc EXCEPT ![d] = b]
  BY <1>2, <1>3 DEF Underway, Whole
<1>5. /\ mem = [v \in Units |-> mem[v]] /\ mem[u] = rec
      /\ \A v \in Units \ {u} : mem[v] = proc[d].mem[v]
  BY <1>3
<1>6. IsRecord(rec) /\ rec.key = proc[d].plan[u].key /\ rec.inputs = x.inputs
  BY DEF IsRecord, Key
<1>7. \A v : v \in left <=> v \in proc[d].todo /\ v # u
  OBVIOUS
<1> HIDE DEF rec, mem, left
<1>8. /\ b.phase = "build" /\ b.env = proc[d].env /\ b.trees = proc[d].trees
      /\ b.plan = proc[d].plan /\ b.new = proc[d].new /\ b.mem = mem
      /\ b.todo = left /\ b.grown = proc[d].grown /\ b.alone = proc[d].alone
      /\ b.quiet = proc[d].quiet /\ b.again = proc[d].again
  BY <1>1, <1>3 DEF Whole
<1>9. Whole(b)
  <2>1. Whole(a)
    BY <1>3 DEF Whole
  <2> HIDE DEF a
  <2> QED
    BY <2>1 DEF Whole
<1> HIDE DEF a, b
<1>10. Build(b)
  BY <1>3, <1>5, <1>8, <1>9 DEF Build
<1>11. /\ x \in store /\ x.key = proc[d].plan[u].key /\ Holds(x.inputs, now[d], proc[d].env)
       /\ rec # None
  <2>1. x \in store /\ x.key = proc[d].plan[u].key /\ Holds(x.inputs, now[d], proc[d].env)
    BY DEF Hits, Key, InputsHold, Holds
  <2>2. rec # None
    BY DEF NoneIsNoRecord, rec
  <2> QED
    BY <2>1, <2>2
<1>12. \A v \in Units : InStore(store, mem[v])
  <2>1. InStore(store, rec)
    BY <1>6, <1>11 DEF InStore
  <2> QED
    BY <1>3, <1>5, <2>1 DEF Underway
<1>13. b.quiet => Goes(store, pred, now[d], b)
  <2>1. Owns(b, u, now[d])
    BY <1>5, <1>6, <1>8, <1>11 DEF Owns
  <2>2. \A v \in Units \ {u} : Owns(b, v, now[d]) <=> Owns(proc[d], v, now[d])
    BY <1>5, <1>8 DEF Owns
  <2> SUFFICES ASSUME b.quiet
               PROVE  Goes(store, pred, now[d], b)
    OBVIOUS
  <2>3. Goes(store, pred, now[d], proc[d])
    BY <1>3, <1>8 DEF Underway
  <2>4. b.again => left = {}
    BY <1>1, <1>7, <1>8, <2>3 DEF Goes
  <2>5. \A v \in Roots : v \in left \/ Owns(b, v, now[d])
    BY <1>1, <1>7, <2>1, <2>2, <2>3, FreshnessAssumption DEF Goes
  <2>6. b.alone => Foresees(store, pred, now[d], b)
    BY <1>1, <1>8, <2>1, <2>2, <2>3 DEF Goes, Foresees
  <2> QED
    BY <1>1, <1>8, <2>3, <2>4, <2>5, <2>6 DEF Goes
<1>14. saved' = [saved EXCEPT ![d] = saved[d]] /\ \A v \in Units : InStore(store, b.mem[v])
  BY <1>1, <1>3, <1>8, <1>12 DEF Underway
<1> QED
  BY <1>1, <1>3, <1>4, <1>10, <1>13, <1>14, OnwardStep DEF Underway

\* When all that is asked for is found, nothing is missing.
LEMMA RedoCheckUnits ==
  ASSUME NoneIsNoRecord, RedoInv, NEW d \in Dirs, CheckUnits(d)
  PROVE  RedoInv'
<1> DEFINE status   == Status(d)
           needed   == Needed(status)
           cached   == {u \in needed : status[u] = "cached"}
           released == {u \in needed : status[u] # "fresh"}
           missing  == {u \in needed : status[u] = "miss"}
           kept     == [u \in Units |-> IF u \in released THEN None ELSE proc[d].mem[u]]
<1>1. /\ Busy(d) /\ proc[d].phase = "planned"
      /\ rules' = rules /\ now' = now /\ pred' = pred /\ store' = store /\ last' = last
  BY DEF CheckUnits, Busy
<1>2. PICK hit :
        /\ \A u \in cached : hit[u] \in Hits(d, u)
        /\ saved' = [saved EXCEPT ![d] = kept]
        /\ proc' = [proc EXCEPT
             ![d].phase = "build", ![d].todo = missing,
             ![d].mem = [u \in Units |-> IF u \in cached
                 THEN [key |-> Key(d, u), inputs |-> hit[u].inputs] ELSE kept[u]]]
  BY DEF CheckUnits
<1>3. Underway(d) /\ Build(proc[d]) /\ Whole(proc[d])
      /\ proc[d].mem = [u \in Units |-> proc[d].mem[u]]
  BY <1>1, UnderwayFact DEF Underway, Build
<1>4. /\ needed \subseteq Units /\ Roots \subseteq needed
      /\ cached \subseteq released /\ missing \subseteq released /\ released \subseteq needed
      /\ missing \cap cached = {}
  BY NeededFact
<1>5. /\ \A u \in needed : u \notin released => IsFresh(d, u)
      /\ \A u \in needed : u \in cached \/ u \in missing \/ u \notin released
  BY <1>4 DEF Status
<1>6. (\A u \in Roots : Hits(d, u) # {}) => missing = {}
  <2> SUFFICES ASSUME \A u \in Roots : Hits(d, u) # {}
               PROVE  missing = {}
    OBVIOUS
  <2>1. \A u \in Roots : status[u] # "miss"
    BY FreshnessAssumption DEF Status
  <2>2. needed \subseteq Roots
    <3>1. Roots \in SUBSET Units
      BY FreshnessAssumption
    <3> HIDE DEF status
    <3> QED
      BY <2>1, <3>1, NeededFact
  <2> QED
    BY <2>1, <2>2
<1> DEFINE mem == [u \in Units |-> IF u \in cached
                     THEN [key |-> Key(d, u), inputs |-> hit[u].inputs] ELSE kept[u]]
<1> HIDE DEF status, needed, cached, released, missing
<1>7. \A u \in Units :
        /\ kept[u] = IF u \in released THEN None ELSE proc[d].mem[u]
        /\ mem[u] = IF u \in cached THEN [key |-> Key(d, u), inputs |-> hit[u].inputs]
                    ELSE kept[u]
  OBVIOUS
<1>8. kept = [u \in Units |-> kept[u]] /\ mem = [u \in Units |-> mem[u]]
  OBVIOUS
<1>9. proc' = [proc EXCEPT ![d].phase = "build", ![d].todo = missing, ![d].mem = mem]
  BY <1>2
<1> HIDE DEF mem, kept
<1> DEFINE a1 == [proc[d] EXCEPT !.phase = "build"]
           a2 == [a1 EXCEPT !.todo = missing]
           b  == [a2 EXCEPT !.mem = mem]
<1>10. proc' = [proc EXCEPT ![d] = b]
  BY <1>3, <1>9 DEF Underway, Whole
<1>11. /\ b.phase = "build" /\ b.env = proc[d].env /\ b.trees = proc[d].trees
       /\ b.plan = proc[d].plan /\ b.new = proc[d].new /\ b.mem = mem
       /\ b.todo = missing /\ b.grown = proc[d].grown /\ b.alone = proc[d].alone
       /\ b.quiet = proc[d].quiet /\ b.again = proc[d].again
  BY <1>3 DEF Whole
<1>12. Whole(b)
  <2>1. Whole(a1)
    BY <1>3 DEF Whole
  <2> HIDE DEF a1
  <2>2. Whole(a2)
    BY <2>1 DEF Whole
  <2> HIDE DEF a2
  <2> QED
    BY <2>2 DEF Whole
<1> HIDE DEF a1, a2, b
<1>13. Build(b)
  BY <1>3, <1>8, <1>11, <1>12 DEF Build
<1>14. ASSUME NEW u \in cached
       PROVE  /\ InStore(store, mem[u]) /\ mem[u] # None
              /\ mem[u].key = proc[d].plan[u].key
              /\ Holds(mem[u].inputs, now[d], proc[d].env)
  <2>1. u \in Units
    BY <1>4
  <2>2. hit[u] \in store /\ hit[u].key = Key(d, u) /\ InputsHold(d, hit[u].inputs)
    BY <1>2 DEF Hits
  <2>3. mem[u] = [key |-> Key(d, u), inputs |-> hit[u].inputs]
    BY <1>7, <2>1
  <2>4. mem[u].key = Key(d, u) /\ mem[u].inputs = hit[u].inputs /\ IsRecord(mem[u])
    BY <2>3 DEF IsRecord
  <2>5. mem[u] # None
    BY <2>3 DEF NoneIsNoRecord
  <2> QED
    BY <2>2, <2>4, <2>5 DEF InStore, InputsHold, Holds, Key
<1>15. \A u \in Units : InStore(store, kept[u]) /\ InStore(store, mem[u])
  <2> TAKE u \in Units
  <2>1. InStore(store, kept[u])
    <3>1. InStore(store, None)
      BY DEF InStore
    <3> QED
      BY <1>3, <1>7, <3>1 DEF Underway
  <2> QED
    BY <1>7, <1>14, <2>1
<1>16. ASSUME b.quiet
       PROVE  Goes(store, pred, now[d], b)
  <2>1. Goes(store, pred, now[d], proc[d])
    BY <1>3, <1>11, <1>16 DEF Underway
  <2>2. b.again => missing = {}
    <3> SUFFICES ASSUME b.again, NEW u \in Roots
                 PROVE  Hits(d, u) # {}
      BY <1>6
    <3>1. PICK x \in store : x.key = proc[d].plan[u].key /\ Holds(x.inputs, now[d], proc[d].env)
      BY <1>1, <1>11, <2>1 DEF Goes, AllFound
    <3>2. x \in Hits(d, u)
      BY <3>1 DEF Hits, Key, InputsHold, Holds
    <3> QED
      BY <3>2
  <2>3. ASSUME NEW u \in Roots, u \notin missing
        PROVE  Owns(b, u, now[d])
    <3>1. u \in Units /\ u \in needed
      BY <1>4
    <3>2. CASE u \in cached
      BY <1>11, <1>14, <3>2 DEF Owns
    <3>3. CASE u \notin cached
      <4>1. mem[u] = proc[d].mem[u] /\ IsFresh(d, u)
        BY <1>5, <1>7, <2>3, <3>1, <3>3
      <4> QED
        BY <1>11, <4>1 DEF Owns, IsFresh, Key, InputsHold, Holds
    <3> QED
      BY <3>2, <3>3
  <2>4. b.alone => Foresees(store, pred, now[d], b)
    <3> SUFFICES ASSUME b.alone
                 PROVE  Foresees(store, pred, now[d], b)
      OBVIOUS
    <3>1. b.plan = PlanAt(pred, now[d], b.env)
      BY <1>1, <1>11, <2>1 DEF Goes, Foresees
    <3>2. \A u \in Units : b.plan[u].digest = InputDigest(pred, u, now[d], b.env)
      BY <3>1, PlanAtFact
    <3> QED
      BY <1>11, <3>1, <3>2 DEF Foresees
  <2> QED
    BY <1>11, <2>1, <2>2, <2>3, <2>4 DEF Goes
<1> QED
  BY <1>1, <1>2, <1>8, <1>10, <1>11, <1>13, <1>15, <1>16, OnwardStep

\* A build comes to its end, whole or not.
LEMMA EndStep ==
  ASSUME RedoInv, NEW d \in Dirs, NEW S, NEW e,
         rules' = rules, now' = now, pred' = pred, store' = store,
         proc' = [proc EXCEPT ![d] = Idle], saved' = [saved EXCEPT ![d] = S],
         last' = [last EXCEPT ![d] = e],
         S = [u \in Units |-> S[u]], \A u \in Units : InStore(store, S[u]),
         Resumes(store, pred, now[d], e)
  PROVE  RedoInv'
<1>1. /\ pred = [u \in Units |-> pred[u]] /\ now = [o \in Dirs |-> now[o]]
      /\ saved = [o \in Dirs |-> saved[o]] /\ proc = [o \in Dirs |-> proc[o]]
      /\ last = [o \in Dirs |-> last[o]] /\ \A x \in store : IsEntry(x)
  BY DEF RedoInv
<1>2. /\ proc'[d] = Idle /\ saved'[d] = S /\ last'[d] = e
      /\ \A o \in Dirs \ {d} : proc'[o] = proc[o] /\ saved'[o] = saved[o] /\ last'[o] = last[o]
  BY <1>1
<1>3. Within(store, store')
  BY DEF Within
<1>4. \A o \in Dirs \ {d} : Bystander(o)
  BY <1>2 DEF Bystander
<1>5. ~Busy(d)'
  BY <1>2 DEF Busy, Idle
<1>6. Sits(d)'
  <2>1. (saved[d] = [u \in Units |-> saved[d][u]] /\ \A u \in Units : InStore(store, saved[d][u]))'
    BY <1>2
  <2>2. Resumes(store', pred', now'[d], last'[d])
    BY <1>2
  <2> QED
    BY <1>5, <2>1, <2>2 DEF Sits
<1>7. /\ now' = [o \in Dirs |-> now'[o]] /\ last' = [o \in Dirs |-> last'[o]]
      /\ saved' = [o \in Dirs |-> saved'[o]] /\ proc' = [o \in Dirs |-> proc'[o]]
      /\ pred' = [u \in Units |-> pred'[u]] /\ \A x \in store' : IsEntry(x)
  BY <1>1
<1> QED
  BY <1>3, <1>4, <1>6, <1>7, RedoStep

LEMMA RedoFails ==
  ASSUME RedoInv, NEW d \in Dirs, Fails(d)
  PROVE  RedoInv'
<1>1. /\ Busy(d) /\ proc' = [proc EXCEPT ![d] = Idle]
      /\ saved' = [saved EXCEPT ![d] = proc[d].mem] /\ last' = [last EXCEPT ![d] = None]
      /\ rules' = rules /\ now' = now /\ pred' = pred /\ store' = store
  BY DEF Fails, Busy
<1>2. Underway(d) /\ proc[d].mem = [u \in Units |-> proc[d].mem[u]]
  BY <1>1, UnderwayFact DEF Underway, Build
<1>3. Resumes(store, pred, now[d], None)
  BY DEF Resumes
<1> QED
  BY <1>1, <1>2, <1>3, EndStep DEF Underway

\* What a build past its moves leaves behind.
LEMMA LeftBehind ==
  ASSUME RedoInv, NEW d \in Dirs, Busy(d), NEW e, proc[d].phase \in {"resave", "done"},
         e = IF proc[d].quiet /\ proc[d].alone THEN proc[d].env ELSE None
  PROVE  Resumes(store, pred, now[d], e)
<1>1. CASE proc[d].quiet /\ proc[d].alone
  <2>1. Goes(store, pred, now[d], proc[d])
    BY <1>1, UnderwayFact DEF Underway
  <2>2. AllFound(store, PlanAt(pred, now[d], proc[d].env), now[d], proc[d].env)
    BY <1>1, <2>1 DEF Goes, Foresees
  <2> QED
    BY <1>1, <2>2 DEF Resumes
<1>2. CASE ~(proc[d].quiet /\ proc[d].alone)
  BY <1>2 DEF Resumes
<1> QED
  BY <1>1, <1>2

LEMMA RedoLeave ==
  ASSUME RedoInv, NEW d \in Dirs, Leave(d)
  PROVE  RedoInv'
<1> DEFINE e == IF proc[d].quiet /\ proc[d].alone THEN proc[d].env ELSE None
<1>1. /\ Busy(d) /\ proc[d].phase = "done" /\ proc' = [proc EXCEPT ![d] = Idle]
      /\ saved' = saved /\ last' = [last EXCEPT ![d] = e]
      /\ rules' = rules /\ now' = now /\ pred' = pred /\ store' = store
  BY DEF Leave, Busy
<1>2. Resumes(store, pred, now[d], e)
  BY <1>1, LeftBehind
<1> HIDE DEF e
<1>3. Underway(d)
  BY <1>1, UnderwayFact
<1>4. saved' = [saved EXCEPT ![d] = saved[d]]
  BY <1>1, <1>3 DEF Underway
<1> QED
  BY <1>1, <1>2, <1>3, <1>4, EndStep DEF Underway

\* Killed before its records are saved, it has moved its work all the same.
LEMMA RedoCrash ==
  ASSUME RedoInv, NEW d \in Dirs, Crash(d)
  PROVE  RedoInv'
<1> DEFINE moved == proc[d].phase \in {"resave", "done"}
           e == IF moved /\ proc[d].quiet /\ proc[d].alone THEN proc[d].env ELSE None
<1>1. /\ Busy(d) /\ proc' = [proc EXCEPT ![d] = Idle]
      /\ saved' = saved /\ last' = [last EXCEPT ![d] = e]
      /\ rules' = rules /\ now' = now /\ pred' = pred /\ store' = store
  BY DEF Crash
<1>2. Resumes(store, pred, now[d], e)
  <2>1. CASE moved
    BY <1>1, <2>1, LeftBehind
  <2>2. CASE ~moved
    BY <2>2 DEF Resumes
  <2> QED
    BY <2>1, <2>2
<1> HIDE DEF e, moved
<1>3. Underway(d)
  BY <1>1, UnderwayFact
<1>4. saved' = [saved EXCEPT ![d] = saved[d]]
  BY <1>1, <1>3 DEF Underway
<1> QED
  BY <1>1, <1>2, <1>3, <1>4, EndStep DEF Underway

\* What is looked into is stored as it was found; where that changes what is
\* predicted, whoever else is building learns that it is not alone.
LEMMA RedoAttach ==
  ASSUME NoneIsNoRecord, RedoInv, NEW d \in Dirs, NEW u \in Units, Attach(d, u)
  PROVE  RedoInv'
<1> DEFINE rd     == proc[d].compiled[u]
           inputs == Discovered(d, u, rd)
           learnt == IF PackageOf[u] \in Local \/ DOMAIN inputs.files \cup DOMAIN inputs.vars # {}
                     THEN Record(pred[u], u, inputs, rd) ELSE pred[u]
           rec    == [key |-> Key(d, u), inputs |-> inputs]
           entry  == [key |-> Key(d, u), inputs |-> inputs, out |-> disk[d][u]]
           mem    == [proc[d].mem EXCEPT ![u] = rec]
           left   == proc[d].todo \ {u}
           rest   == Restrict(proc[d].compiled, DOMAIN proc[d].compiled \ {u})
           grown  == proc[d].grown \/ learnt # pred[u]
           a1     == [proc[d] EXCEPT !.todo = left]
           a2     == [a1 EXCEPT !.compiled = rest]
           a3     == [a2 EXCEPT !.grown = grown]
           b      == [a3 EXCEPT !.mem = mem]
<1>1. /\ Busy(d) /\ proc[d].phase = "build"
      /\ rules' = rules /\ now' = now /\ saved' = saved
      /\ pred' = [pred EXCEPT ![u] = learnt] /\ store' = Upsert(store, {entry})
  BY DEF Attach, Busy
<1>2. Underway(d) /\ Build(proc[d]) /\ Whole(proc[d])
      /\ proc[d].mem = [v \in Units |-> proc[d].mem[v]]
  BY <1>1, UnderwayFact DEF Underway, Build
<1>3. /\ proc' = [o \in Dirs |-> proc'[o]] /\ proc'[d] = b
      /\ last' = [o \in Dirs |-> last'[o]]
  BY <1>2 DEF Attach, Whole
<1>4. ASSUME NEW o \in Dirs \ {d}
      PROVE  /\ proc'[o] = IF Busy(o) /\ learnt # pred[u]
                           THEN [proc[o] EXCEPT !.alone = FALSE] ELSE proc[o]
             /\ last'[o] = IF learnt # pred[u] THEN None ELSE last[o]
  BY DEF Attach
<1>5. Holds(inputs, now[d], proc[d].env)
  BY DEF Discovered, Holds, Restrict
<1>6. /\ mem = [v \in Units |-> mem[v]] /\ mem[u] = rec
      /\ \A v \in Units \ {u} : mem[v] = proc[d].mem[v]
  BY <1>2
<1>7. /\ IsRecord(rec) /\ rec.key = proc[d].plan[u].key /\ rec.inputs = inputs /\ rec # None
      /\ IsEntry(entry) /\ entry.key = rec.key /\ entry.inputs = inputs
  BY DEF IsRecord, IsEntry, Key, NoneIsNoRecord
<1>8. \A v : v \in left <=> v \in proc[d].todo /\ v # u
  OBVIOUS
<1>9. grown \in BOOLEAN /\ (~grown => ~proc[d].grown /\ learnt = pred[u])
  BY <1>2 DEF Build
<1> HIDE DEF rd, inputs, learnt, rec, entry, mem, left, rest, grown
<1>10. /\ pred = [v \in Units |-> pred[v]] /\ now = [o \in Dirs |-> now[o]]
       /\ saved = [o \in Dirs |-> saved[o]] /\ \A x \in store : IsEntry(x)
  BY DEF RedoInv
<1>11. /\ pred' = [v \in Units |-> pred'[v]] /\ \A v \in Units \ {u} : pred'[v] = pred[v]
       /\ learnt = pred[u] => pred' = pred
  BY <1>1, <1>10
<1>12. /\ b.phase = "build" /\ b.env = proc[d].env /\ b.trees = proc[d].trees
       /\ b.plan = proc[d].plan /\ b.new = proc[d].new /\ b.mem = mem
       /\ b.todo = left /\ b.grown = grown /\ b.alone = proc[d].alone
       /\ b.quiet = proc[d].quiet /\ b.again = proc[d].again
  BY <1>1, <1>2 DEF Whole
<1>13. Whole(b)
  <2>1. Whole(a1)
    BY <1>2 DEF Whole
  <2> HIDE DEF a1
  <2>2. Whole(a2)
    BY <2>1 DEF Whole
  <2> HIDE DEF a2
  <2>3. Whole(a3)
    BY <2>2 DEF Whole
  <2> HIDE DEF a3
  <2> QED
    BY <2>3 DEF Whole
<1> HIDE DEF a1, a2, a3, b
<1>14. Build(b)
  BY <1>2, <1>6, <1>9, <1>12, <1>13 DEF Build
<1>15. /\ Within(store, store') /\ entry \in store' /\ \A x \in store' : IsEntry(x)
  BY <1>1, <1>7, <1>10, UpsertFact
<1>16. \A o \in Dirs \ {d} : Bystander(o)
  <2> SUFFICES ASSUME NEW o \in Dirs \ {d}
               PROVE  Bystander(o)
    OBVIOUS
  <2>1. CASE learnt = pred[u]
    BY <1>1, <1>4, <1>11, <2>1 DEF Bystander
  <2>2. CASE learnt # pred[u]
    <3>1. last'[o] = None
      BY <1>4, <2>2
    <3>2. CASE ~Busy(o)
      BY <1>1, <1>4, <3>1, <3>2 DEF Bystander
    <3>3. CASE Busy(o)
      <4>1. Whole(proc[o])
        BY <3>3, UnderwayFact DEF Underway, Build
      <4>2. proc'[o] = [proc[o] EXCEPT !.alone = FALSE]
        BY <1>4, <2>2, <3>3
      <4>3. proc'[o].alone = FALSE
        BY <4>1, <4>2, Zenon DEF Whole
      <4> QED
        BY <1>1, <3>1, <3>3, <4>2, <4>3 DEF Bystander
    <3> QED
      BY <3>2, <3>3
  <2> QED
    BY <2>1, <2>2
<1>17. \A r : InStore(store, r) => InStore(store', r)
  BY <1>15, WithinFact
<1>18. \A v \in Units : InStore(store', mem[v])
  <2>1. InStore(store', rec)
    BY <1>7, <1>15 DEF InStore
  <2> QED
    BY <1>2, <1>6, <1>17, <2>1 DEF Underway
<1>19. ASSUME b.quiet
       PROVE  Goes(store', pred', now[d], b)
  <2>1. Goes(store, pred, now[d], proc[d])
    BY <1>2, <1>12, <1>19 DEF Underway
  <2>2. Owns(b, u, now[d])
    BY <1>5, <1>6, <1>7, <1>12 DEF Owns
  <2>3. \A v \in Units \ {u} : Owns(b, v, now[d]) <=> Owns(proc[d], v, now[d])
    BY <1>6, <1>12 DEF Owns
  <2>4. b.again => left = {}
    BY <1>1, <1>8, <1>12, <2>1 DEF Goes
  <2>5. \A v \in Roots : v \in left \/ Owns(b, v, now[d])
    BY <1>1, <1>8, <2>1, <2>2, <2>3, FreshnessAssumption DEF Goes
  <2>6. ASSUME b.alone
        PROVE  Foresees(store', pred', now[d], b)
    <3>1. Foresees(store, pred, now[d], proc[d])
      BY <1>12, <2>1, <2>6 DEF Goes
    <3>2. ASSUME NEW v \in Units \ {u},
                 b.plan[v].digest # InputDigest(pred', v, now[d], b.env)
          PROVE  Owns(b, v, now[d])
      <4>1. InputDigest(pred', v, now[d], b.env) = InputDigest(pred, v, now[d], b.env)
        BY <1>11 DEF InputDigest
      <4> QED
        BY <1>1, <1>12, <2>3, <3>1, <3>2, <4>1 DEF Foresees
    <3>3. ~b.grown => b.plan = PlanAt(pred', now[d], b.env)
      BY <1>1, <1>9, <1>11, <1>12, <3>1 DEF Foresees
    <3> QED
      BY <1>12, <2>2, <3>2, <3>3 DEF Foresees
  <2> QED
    BY <1>12, <2>1, <2>4, <2>5, <2>6 DEF Goes
<1>20. Sits(d)'
  <2>1. Busy(d)' /\ Build(proc[d])'
    BY <1>1, <1>3, <1>12, <1>14 DEF Busy, Build
  <2>2. (saved[d] = [v \in Units |-> saved[d][v]] /\ \A v \in Units : InStore(store, saved[d][v]))'
    BY <1>1, <1>2, <1>17 DEF Underway
  <2>3. /\ \A v \in Units : InStore(store', proc'[d].mem[v])
        /\ proc'[d].quiet => Goes(store', pred', now'[d], proc'[d])
    BY <1>1, <1>3, <1>12, <1>18, <1>19
  <2> QED
    BY <2>1, <2>2, <2>3 DEF Sits
<1>21. now' = [o \in Dirs |-> now'[o]] /\ saved' = [o \in Dirs |-> saved'[o]]
  BY <1>1, <1>10
<1> QED
  BY <1>1, <1>3, <1>11, <1>15, <1>16, <1>20, <1>21, RedoStep

\* The entries of the old keys are there under the new ones.
LEMMA RedoMove ==
  ASSUME NoneIsNoRecord, RedoInv, NEW d \in Dirs, Move(d)
  PROVE  RedoInv'
<1> DEFINE mem == MovedRecords(d)
           a   == [proc[d] EXCEPT !.phase = "resave"]
           b   == [a EXCEPT !.mem = mem]
<1>1. /\ Busy(d) /\ proc[d].phase = "move" /\ store' = Upsert(store, Aliases(d))
      /\ rules' = rules /\ now' = now /\ pred' = pred /\ saved' = saved /\ last' = last
      /\ proc' = [proc EXCEPT ![d].phase = "resave", ![d].mem = mem]
  BY DEF Move, Busy
<1>2. Underway(d) /\ Build(proc[d]) /\ Whole(proc[d])
      /\ proc[d].mem = [v \in Units |-> proc[d].mem[v]]
  BY <1>1, UnderwayFact DEF Underway, Build
<1>3. mem = [u \in Units |-> mem[u]]
  BY DEF MovedRecords
<1>4. \A u \in Units : IF u \in Moving(d)
                       THEN mem[u] = [proc[d].mem[u] EXCEPT !.key = proc[d].new[u].key]
                       ELSE mem[u] = proc[d].mem[u]
  BY DEF MovedRecords
<1> HIDE DEF mem
<1>5. proc' = [proc EXCEPT ![d] = b]
  BY <1>1, <1>2 DEF Underway, Whole
<1>6. /\ b.phase = "resave" /\ b.env = proc[d].env /\ b.trees = proc[d].trees
      /\ b.plan = proc[d].plan /\ b.new = proc[d].new /\ b.mem = mem
      /\ b.todo = proc[d].todo /\ b.grown = proc[d].grown /\ b.alone = proc[d].alone
      /\ b.quiet = proc[d].quiet /\ b.again = proc[d].again
  BY <1>2 DEF Whole
<1>7. Whole(b)
  <2>1. Whole(a)
    BY <1>2 DEF Whole
  <2> HIDE DEF a
  <2> QED
    BY <2>1 DEF Whole
<1> HIDE DEF a, b
<1>8. Build(b)
  BY <1>2, <1>3, <1>6, <1>7 DEF Build, After
<1>9. /\ pred = [u \in Units |-> pred[u]] /\ now = [o \in Dirs |-> now[o]]
      /\ saved = [o \in Dirs |-> saved[o]] /\ proc = [o \in Dirs |-> proc[o]]
      /\ last = [o \in Dirs |-> last[o]] /\ \A x \in store : IsEntry(x)
  BY DEF RedoInv
<1>10. ASSUME NEW u \in Moving(d), NEW x \in store, x.key = Key(d, u)
       PROVE  LET alias == [key |-> proc[d].new[u].key, inputs |-> x.inputs, out |-> x.out]
              IN  alias \in Aliases(d) /\ [x EXCEPT !.key = proc[d].new[u].key] = alias
  <2>1. [x EXCEPT !.key = proc[d].new[u].key] =
          [key |-> proc[d].new[u].key, inputs |-> x.inputs, out |-> x.out]
    BY <1>9 DEF IsEntry
  <2>2. [x EXCEPT !.key = proc[d].new[u].key] \in Aliases(d)
    BY <1>10 DEF Aliases
  <2> QED
    BY <2>1, <2>2
<1>11. Within(store, store') /\ Aliases(d) \subseteq store' /\ store' \subseteq store \cup Aliases(d)
  BY <1>1, UpsertFact
<1>12. \A x \in store' : IsEntry(x)
  <2> SUFFICES ASSUME NEW x \in Aliases(d)
               PROVE  IsEntry(x)
    BY <1>9, <1>11
  <2>1. PICK u \in Moving(d), y \in store :
          y.key = Key(d, u) /\ x = [y EXCEPT !.key = proc[d].new[u].key]
    BY DEF Aliases
  <2>2. x = [key |-> proc[d].new[u].key, inputs |-> y.inputs, out |-> y.out]
    BY <1>10, <2>1
  <2> QED
    BY <2>2 DEF IsEntry
<1>13. ASSUME NEW u \in Units, NEW x \in store, x.key = Key(d, u),
              u \in Moving(d) \/ Key(d, u) = proc[d].new[u].key
       PROVE  \E y \in store' : y.key = proc[d].new[u].key /\ y.inputs = x.inputs
  <2>1. CASE u \in Moving(d)
    <3> DEFINE y == [key |-> proc[d].new[u].key, inputs |-> x.inputs, out |-> x.out]
    <3>1. y \in store'
      BY <1>10, <1>11, <1>13, <2>1
    <3>2. y.key = proc[d].new[u].key /\ y.inputs = x.inputs
      OBVIOUS
    <3> QED
      BY <3>1, <3>2
  <2>2. CASE Key(d, u) = proc[d].new[u].key
    BY <1>11, <1>13, <2>2 DEF Within
  <2> QED
    BY <1>13, <2>1, <2>2
<1>14. \A r : InStore(store, r) => InStore(store', r)
  BY <1>11, WithinFact
<1>15. \A u \in Units : InStore(store', mem[u])
  <2> TAKE u \in Units
  <2>1. InStore(store, proc[d].mem[u])
    BY <1>2 DEF Underway
  <2>2. CASE u \notin Moving(d)
    BY <1>4, <1>14, <2>1, <2>2
  <2>3. CASE u \in Moving(d)
    <3>1. /\ proc[d].mem[u] # None /\ proc[d].mem[u].key = Key(d, u)
          /\ IsRecord(proc[d].mem[u])
      BY <2>1, <2>3 DEF Moving, OwnsSlot, InStore
    <3>2. mem[u] = [key |-> proc[d].new[u].key, inputs |-> proc[d].mem[u].inputs]
      BY <1>4, <2>3, <3>1 DEF IsRecord
    <3>3. PICK x \in store : x.key = Key(d, u) /\ x.inputs = proc[d].mem[u].inputs
      BY <2>1, <3>1 DEF InStore
    <3>4. PICK y \in store' : y.key = proc[d].new[u].key /\ y.inputs = x.inputs
      BY <1>13, <2>3, <3>3
    <3> QED
      BY <3>2, <3>3, <3>4 DEF InStore, IsRecord
  <2> QED
    BY <2>2, <2>3
<1>16. ASSUME b.quiet
       PROVE  Goes(store', pred, now[d], b)
  <2>1. Goes(store, pred, now[d], proc[d])
    BY <1>2, <1>6, <1>16 DEF Underway
  <2>2. ASSUME b.alone
        PROVE  AllFound(store', PlanAt(pred, now[d], b.env), now[d], b.env)
    <3>1. proc[d].new = PlanAt(pred, now[d], b.env)
      BY <1>1, <1>6, <2>1, <2>2 DEF Goes, Foresees
    <3>2. ASSUME NEW u \in Roots
          PROVE  \E y \in store' : y.key = proc[d].new[u].key /\ Holds(y.inputs, now[d], b.env)
      <4>1. Owns(proc[d], u, now[d]) /\ u \in Units
        BY <1>1, <2>1, FreshnessAssumption DEF Goes
      <4>2. /\ proc[d].mem[u] # None /\ proc[d].mem[u].key = Key(d, u)
            /\ Holds(proc[d].mem[u].inputs, now[d], b.env)
        BY <1>6, <4>1 DEF Owns, Key
      <4>3. PICK x \in store : x.key = Key(d, u) /\ x.inputs = proc[d].mem[u].inputs
        BY <1>2, <4>1, <4>2 DEF Underway, InStore
      <4>4. u \in Moving(d) \/ Key(d, u) = proc[d].new[u].key
        BY <4>1, <4>2 DEF Moving, Moved, OwnsSlot
      <4>5. PICK y \in store' : y.key = proc[d].new[u].key /\ y.inputs = x.inputs
        BY <1>13, <4>1, <4>3, <4>4
      <4>6. Holds(y.inputs, now[d], b.env)
        BY <4>2, <4>3, <4>5
      <4> QED
        BY <4>5, <4>6
    <3> QED
      BY <3>1, <3>2 DEF AllFound
  <2> QED
    BY <1>6, <2>1, <2>2 DEF Goes, Foresees
<1>17. \A o \in Dirs \ {d} : Bystander(o)
  BY <1>1, <1>5, <1>9 DEF Bystander
<1>18. proc'[d] = b
  BY <1>5, <1>9
<1>19. Sits(d)'
  <2>1. Busy(d)' /\ Build(proc[d])'
    BY <1>1, <1>6, <1>8, <1>18 DEF Busy, Build
  <2>2. (saved[d] = [v \in Units |-> saved[d][v]] /\ \A v \in Units : InStore(store, saved[d][v]))'
    BY <1>1, <1>2, <1>14 DEF Underway
  <2>3. /\ \A v \in Units : InStore(store', proc'[d].mem[v])
        /\ proc'[d].quiet => Goes(store', pred', now'[d], proc'[d])
    BY <1>1, <1>6, <1>15, <1>16, <1>18
  <2> QED
    BY <2>1, <2>2, <2>3 DEF Sits
<1>20. /\ now' = [o \in Dirs |-> now'[o]] /\ last' = [o \in Dirs |-> last'[o]]
       /\ saved' = [o \in Dirs |-> saved'[o]] /\ proc' = [o \in Dirs |-> proc'[o]]
       /\ pred' = [u \in Units |-> pred'[u]]
  BY <1>1, <1>5, <1>9
<1> QED
  BY <1>1, <1>11, <1>12, <1>17, <1>19, <1>20, RedoStep

\* A build whose sources are edited is quiet no more.
LEMMA RedoEdit ==
  ASSUME RedoInv, NEW d \in Dirs, Edit(d)
  PROVE  RedoInv'
<1>1. /\ rules' = rules /\ pred' = pred /\ store' = store /\ saved' = saved
      /\ last' = [last EXCEPT ![d] = None]
      /\ proc' = IF Busy(d) THEN [proc EXCEPT ![d].quiet = FALSE] ELSE proc
  BY DEF Edit
<1>2. PICK f, x : now' = [now EXCEPT ![d][f] = x]
  BY DEF Edit
<1>3. /\ pred = [u \in Units |-> pred[u]] /\ now = [o \in Dirs |-> now[o]]
      /\ saved = [o \in Dirs |-> saved[o]] /\ proc = [o \in Dirs |-> proc[o]]
      /\ last = [o \in Dirs |-> last[o]] /\ \A y \in store : IsEntry(y)
  BY DEF RedoInv
<1>4. \A o \in Dirs \ {d} : proc'[o] = proc[o] /\ now'[o] = now[o] /\ last'[o] = last[o]
  BY <1>1, <1>2, <1>3
<1>5. \A o \in Dirs \ {d} : Bystander(o)
  BY <1>1, <1>4 DEF Bystander
<1>6. (saved[d] = [u \in Units |-> saved[d][u]] /\ \A u \in Units : InStore(store, saved[d][u]))'
  BY <1>1 DEF RedoInv, Sits
<1>7. Sits(d)'
  <2>1. CASE ~Busy(d)
    <3>1. ~Busy(d)' /\ last'[d] = None
      BY <1>1, <1>3, <2>1 DEF Busy
    <3>2. Resumes(store', pred', now'[d], last'[d])
      BY <3>1 DEF Resumes
    <3> QED
      BY <1>6, <3>1, <3>2 DEF Sits
  <2>2. CASE Busy(d)
    <3> DEFINE no == FALSE
               b  == [proc[d] EXCEPT !.quiet = no]
    <3>1. Underway(d) /\ Build(proc[d]) /\ Whole(proc[d])
      BY <2>2, UnderwayFact DEF Underway, Build
    <3>2. proc'[d] = b
      BY <1>1, <1>3, <2>2
    <3>3. ~no
      OBVIOUS
    <3> HIDE DEF no
    <3>4. /\ b.phase = proc[d].phase /\ b.env = proc[d].env /\ b.mem = proc[d].mem
          /\ b.grown = proc[d].grown /\ b.quiet = no
      BY <3>1 DEF Whole
    <3>5. Whole(b)
      BY <3>1 DEF Whole
    <3> HIDE DEF b
    <3>6. Build(b)
      BY <3>1, <3>4, <3>5 DEF Build
    <3>7. Busy(d)' /\ Build(proc[d])'
      BY <1>1, <2>2, <3>2, <3>4, <3>6 DEF Busy, Build
    <3>8. /\ \A u \in Units : InStore(store', proc'[d].mem[u])
          /\ ~proc'[d].quiet
      BY <1>1, <3>1, <3>2, <3>3, <3>4 DEF Underway
    <3> QED
      BY <1>6, <3>7, <3>8 DEF Sits
  <2> QED
    BY <2>1, <2>2
<1>8. /\ now' = [o \in Dirs |-> now'[o]] /\ last' = [o \in Dirs |-> last'[o]]
      /\ saved' = [o \in Dirs |-> saved'[o]] /\ proc' = [o \in Dirs |-> proc'[o]]
      /\ pred' = [u \in Units |-> pred'[u]] /\ \A y \in store' : IsEntry(y)
  BY <1>1, <1>2, <1>3
<1>9. Within(store, store')
  BY <1>1 DEF Within
<1> QED
  BY <1>1, <1>5, <1>7, <1>8, <1>9, RedoStep

LEMMA RedoInit ==
  ASSUME Init
  PROVE  RedoInv
<1>1. /\ rules \in Rules /\ pred = [u \in Units |-> NothingKnown] /\ store = {}
      /\ saved = [d \in Dirs |-> [u \in Units |-> None]]
      /\ proc = [d \in Dirs |-> Idle] /\ last = [d \in Dirs |-> None]
      /\ now \in [Dirs -> [Files -> Contents]]
  BY DEF Init
<1>2. \A d \in Dirs : ~Busy(d) /\ last[d] = None
  BY <1>1 DEF Busy, Idle
<1>3. \A d \in Dirs : Sits(d)
  BY <1>1, <1>2 DEF Sits, Resumes, InStore
<1> QED
  BY <1>1, <1>3 DEF RedoInv

LEMMA RedoNext ==
  ASSUME NoneIsNoRecord, RedoInv, [Next]_vars
  PROVE  RedoInv'
<1>1. ASSUME NEW d \in Dirs, NEW u \in Units, RestoreAfterWait(d, u)
      PROVE  RedoInv'
  BY <1>1, RedoRestore
<1>2. ASSUME NEW d \in Dirs, NEW u \in Units, Compile(d, u) \/ RunScript(d, u)
      PROVE  RedoInv'
  BY <1>2, RedoExecute DEF Compile, RunScript
<1>3. ASSUME NEW d \in Dirs, NEW u \in Units, Attach(d, u)
      PROVE  RedoInv'
  BY <1>3, RedoAttach
<1>4. ASSUME NEW d \in Dirs, Start(d) \/ CheckUnits(d)
      PROVE  RedoInv'
  BY <1>4, RedoStart, RedoCheckUnits
<1>5. ASSUME NEW d \in Dirs, Fails(d) \/ Finish(d) \/ Leave(d) \/ Crash(d) \/ Edit(d)
      PROVE  RedoInv'
  BY <1>5, RedoFails, RedoFinish, RedoLeave, RedoCrash, RedoEdit
<1>6. ASSUME NEW d \in Dirs, RekeyCheck(d) \/ Replan(d) \/ Verify(d) \/ Move(d) \/ SaveRekeyed(d)
      PROVE  RedoInv'
  BY <1>6, RedoRekeyCheck, RedoReplan, RedoVerify, RedoMove, RedoSaveRekeyed
<1>7. CASE UNCHANGED vars
  <2>1. /\ rules' = rules /\ now' = now /\ pred' = pred /\ store' = store
        /\ saved' = saved /\ proc' = proc /\ last' = last
    BY <1>7 DEF vars
  <2>2. Within(store, store')
    BY <2>1 DEF Within
  <2>3. \A o \in Dirs : Bystander(o)
    BY <2>1 DEF Bystander
  <2>4. \A o \in Dirs : Sits(o)'
    BY <2>1, <2>2, <2>3, BystanderSits
  <2> QED
    BY <2>1, <2>4 DEF RedoInv
<1> QED
  BY <1>1, <1>2, <1>3, <1>4, <1>5, <1>6, <1>7 DEF Next

(* The invariant of what a build leaves for the next holds of every         *)
(* behaviour, whatever is edited or killed (build.rs rekey).                *)
THEOREM RedoInvariant ==
  ASSUME NoneIsNoRecord
  PROVE  Spec => []RedoInv
<1>1. Init => RedoInv
  BY RedoInit
<1>2. RedoInv /\ [Next]_vars => RedoInv'
  BY RedoNext
<1> QED
  BY <1>1, <1>2, PTL DEF Spec

(* For any graph, programs, checkouts, numbers of builds and edits: a build *)
(* that repeats one under the same environment, no source having been       *)
(* edited and no other checkout having learnt anything in between, compiles *)
(* nothing, even when the other was killed between moving its work to the   *)
(* new keys and saving them (build.rs rekey: "so the next build doesn't     *)
(* redo the graph").                                                        *)
THEOREM NothingIsRedone ==
  ASSUME NoneIsNoRecord
  PROVE  Spec => []NothingRedone
<1>1. RedoInv => NothingRedone
  <2> SUFFICES ASSUME RedoInv, NEW d \in Dirs, proc[d].phase = "build",
                      proc[d].again, proc[d].quiet
               PROVE  proc[d].todo = {}
    BY DEF NothingRedone
  <2>1. Busy(d)
    BY DEF Busy
  <2> QED
    BY <2>1, UnderwayFact DEF Underway, Goes
<1> QED
  BY <1>1, RedoInvariant, PTL

=============================================================================
