------------------------------ MODULE Features ------------------------------
(***************************************************************************)
(* The feature engine of rb-core's features.rs: a queue of tasks over a    *)
(* package graph.  It runs in lock mode (every platform, weak features     *)
(* count, index summaries will do) and in build mode (the requested        *)
(* platforms, two sides, loaded manifests only).                           *)
(***************************************************************************)
EXTENDS PackageGraph

VARIABLES graph, opts, eng

Idle == [queue |-> <<>>, named |-> {}, opt |-> {}, based |-> {}, active |-> {},
         depFeats |-> {}, missing |-> {}, unloaded |-> {}, edges |-> {},
         error |-> FALSE]

(* A task is what a feature value says, for package n on side s (TRUE for  *)
(* the host's).                                                            *)
Base == [do |-> "base", dep |-> "", feat |-> "", weak |-> FALSE]
Feat(f) == [do |-> "feat", dep |-> "", feat |-> f, weak |-> FALSE]
Dep(d) == [do |-> "dep", dep |-> d, feat |-> "", weak |-> FALSE]
DepFeat(d, f, w) == [do |-> "depfeat", dep |-> d, feat |-> f, weak |-> w]
IsValue(v) == v = Feat(v.feat) \/ v = Dep(v.dep) \/ v = DepFeat(v.dep, v.feat, v.weak)
For(n, s, values) == {[n |-> n, s |-> s, v |-> v] : v \in values}

(* The queue holds what one task asked for after what the one before it    *)
(* did; within such a batch any order will do.                             *)
Batch(tasks) == IF tasks = {} THEN <<>> ELSE <<tasks>>
Pending(e) == UNION ToSet(e.queue)

Loaded(n) == IF opts.needsPackage THEN n \in graph.pkg ELSE HasData(graph, n)
NodeDeps(n) == DepsOf(graph, n)
NodeFeatures(n) == FeaturesOf(graph, n)
IsProcMacro(n) == n \in graph.pkg /\ ProcMacro(n)
Side(host) == opts.twoSides /\ host

Platform(host) == IF host \/ world.noTarget THEN "host" ELSE "target"
PlatformOk(dep, host) == ~opts.platforms \/ Platform(host \/ dep.kind = "build") \in dep.platform
KindOk(n, dep) == dep.kind # "dev" \/ n \in opts.devFor
Applies(n, s, dep) == KindOk(n, dep) /\ PlatformOk(dep, s)

TargetSide(t, dep, s) == Side(dep.kind = "build" \/ IsProcMacro(t) \/ s)

(* For comparison: the features asked for earlier are forgotten.           *)
AsksForget(e, n, s, dep) ==
    {Base} \cup (IF dep.default THEN {Feat("default")} ELSE {}) \cup {Feat(f) : f \in dep.feats}

(* What the target of an edge is asked for: its base, its default and      *)
(* requested features, and those `dep/feat' already asked for.             *)
Asks(e, n, s, dep) ==
    {Base} \cup (IF dep.default THEN {Feat("default")} ELSE {}) \cup {Feat(f) : f \in dep.feats}
    \cup {Feat(q.feat) : q \in {x \in e.depFeats : x.n = n /\ x.s = s /\ x.dep = dep.name}}

Tell(n, s, i, values) ==
    UNION {For(t, TargetSide(t, NodeDeps(n)[i], s), values) :
               t \in {x \in TargetOf(graph, n, NodeDeps(n)[i]) : Loaded(x)}}

(* Dependencies of n become active on side s: what has no target is        *)
(* missing, what is not loaded has to be, and the others are told.         *)
ActivateEdges(e, n, s, new) ==
    LET targets == [i \in new |-> TargetOf(graph, n, NodeDeps(n)[i])]
    IN  [e EXCEPT !.active = @ \cup {<<n, s, i>> : i \in new},
                  !.missing = @ \cup {<<n, i>> : i \in {j \in new : targets[j] = {}}},
                  !.edges = @ \cup UNION {{n} \X targets[i] : i \in new},
                  !.unloaded = @ \cup {t \in UNION {targets[i] : i \in new} : ~Loaded(t)},
                  !.queue = @ \o Batch(UNION {Tell(n, s, i, Asks(e, n, s, NodeDeps(n)[i])) : i \in new})]

(* Those of the chosen dependencies of n that apply.                       *)
ActivateAll(e, n, s, chosen) ==
    ActivateEdges(e, n, s, {i \in chosen : Applies(n, s, NodeDeps(n)[i]) /\ <<n, s, i>> \notin e.active})

Optional(n, s, name) ==
    \E i \in DOMAIN NodeDeps(n) : LET d == NodeDeps(n)[i] IN
        d.optional /\ d.name = name /\ Applies(n, s, d)

Task == Only(Head(eng.queue))
Popped == [eng EXCEPT !.queue = Batch(Head(@) \ {Task}) \o Tail(@)]

SkipUnloaded ==
    /\ eng.queue # <<>> /\ ~Loaded(Task.n)
    /\ eng' = [Popped EXCEPT !.unloaded = @ \cup {Task.n}]

TakeBase ==
    /\ eng.queue # <<>> /\ Loaded(Task.n) /\ Task.v.do = "base"
    /\ LET n == Task.n  s == Task.s IN
       eng' = IF <<n, s>> \in eng.based THEN Popped
              ELSE ActivateAll([Popped EXCEPT !.based = @ \cup {<<n, s>>}], n, s,
                               {i \in DOMAIN NodeDeps(n) : ~NodeDeps(n)[i].optional})

TakeFeat ==
    /\ eng.queue # <<>> /\ Loaded(Task.n) /\ Task.v.do = "feat"
    /\ LET n == Task.n  s == Task.s  f == Task.v.feat IN
       eng' = CASE f \notin DOMAIN NodeFeatures(n) ->
                     IF f = "default" THEN Popped ELSE [Popped EXCEPT !.error = TRUE, !.queue = <<>>]
                [] <<n, s, f>> \in eng.named -> Popped
                [] OTHER -> [Popped EXCEPT !.named = @ \cup {<<n, s, f>>},
                                           !.queue = @ \o Batch(For(n, s, ToSet(NodeFeatures(n)[f])))]

TakeDep ==
    /\ eng.queue # <<>> /\ Loaded(Task.n) /\ Task.v.do = "dep"
    /\ LET n == Task.n  s == Task.s  name == Task.v.dep IN
       eng' = IF <<n, s, name>> \in eng.opt THEN Popped
              ELSE ActivateAll([Popped EXCEPT !.opt = @ \cup {<<n, s, name>>}], n, s,
                               {i \in DOMAIN NodeDeps(n) :
                                  NodeDeps(n)[i].optional /\ NodeDeps(n)[i].name = name})

(* `dep/feat' and `dep?/feat': a feature of a dependency, which the first  *)
(* turns on if it is optional.  Edges already active are told now, later   *)
(* ones by ActivateEdges.                                                  *)
TakeDepFeat ==
    /\ eng.queue # <<>> /\ Loaded(Task.n) /\ Task.v.do = "depfeat"
    /\ LET n == Task.n  s == Task.s  v == Task.v
           turnsOn == (~v.weak \/ opts.weakActivates) /\ Optional(n, s, v.dep)
           own == IF ~v.weak /\ v.dep \in DOMAIN NodeFeatures(n) THEN {Feat(v.dep)} ELSE {}
           told == {i \in DOMAIN NodeDeps(n) :
                       <<n, s, i>> \in eng.active /\ NodeDeps(n)[i].name = v.dep}
       IN  eng' = [Popped EXCEPT
                     !.depFeats = @ \cup {[n |-> n, s |-> s, dep |-> v.dep, feat |-> v.feat]},
                     !.queue = @ \o Batch((IF turnsOn THEN For(n, s, {Dep(v.dep)} \cup own) ELSE {})
                                         \cup UNION {Tell(n, s, i, {Feat(v.feat)}) : i \in told})]

EngineStep == SkipUnloaded \/ TakeBase \/ TakeFeat \/ TakeDep \/ TakeDepFeat

(* The first tasks: each request asks for a package's base, its default    *)
(* and all or some of its features.                                        *)
RequestTasks(r) ==
    LET host == Side(Loaded(r.n) /\ IsProcMacro(r.n))
        all == IF r.all /\ Loaded(r.n) THEN {Feat(f) : f \in DOMAIN NodeFeatures(r.n)} ELSE {}
    IN  For(r.n, host, {Base} \cup (IF r.default THEN {Feat("default")} ELSE {}) \cup all \cup r.values)

Start(reqs) == [Idle EXCEPT !.queue = Batch(UNION {RequestTasks(r) : r \in reqs})]

-----------------------------------------------------------------------------
(* What the engine is to compute, without an order: the least set of tasks *)
(* closed under every rule.                                                *)
Edges(T, n, s) ==
    {i \in DOMAIN NodeDeps(n) : LET d == NodeDeps(n)[i] IN
        /\ Loaded(n) /\ Applies(n, s, d)
        /\ [n |-> n, s |-> s, v |-> IF d.optional THEN Dep(d.name) ELSE Base] \in T}

Asked(T, n, s, dep) ==
    {Base} \cup (IF dep.default THEN {Feat("default")} ELSE {})
    \cup {Feat(f) : f \in dep.feats}
    \cup {Feat(x.v.feat) : x \in {y \in T : /\ y.n = n /\ y.s = s
                                            /\ y.v.do = "depfeat" /\ y.v.dep = dep.name}}

Pulled(T, n, s) == UNION {Tell(n, s, i, Asked(T, n, s, NodeDeps(n)[i])) : i \in Edges(T, n, s)}

Implied(x) ==
    IF ~Loaded(x.n) THEN {}
    ELSE CASE x.v.do = "feat" /\ x.v.feat \in DOMAIN NodeFeatures(x.n) ->
                  {[x EXCEPT !.v = v] : v \in ToSet(NodeFeatures(x.n)[x.v.feat])}
           [] x.v.do = "depfeat" /\ (~x.v.weak \/ opts.weakActivates)
                /\ Optional(x.n, x.s, x.v.dep) ->
                  {[x EXCEPT !.v = Dep(x.v.dep)]}
                  \cup (IF ~x.v.weak /\ x.v.dep \in DOMAIN NodeFeatures(x.n)
                        THEN {[x EXCEPT !.v = Feat(x.v.dep)]} ELSE {})
           [] OTHER -> {}

Implications(T) ==
    (UNION {Implied(x) : x \in T}) \cup UNION {Pulled(T, k[1], k[2]) : k \in {<<x.n, x.s>> : x \in T}}

(* All tasks there can be, with what the manifests say.                    *)
Mentioned(n) ==
    {Base, Feat("default")}
    \cup {Feat(f) : f \in UNION {NodeDeps(n)[i].feats : i \in DOMAIN NodeDeps(n)}}
    \cup UNION {ToSet(NodeFeatures(n)[f]) : f \in DOMAIN NodeFeatures(n)}
Tasks(start) ==
    LET nodes == graph.pkg \cup graph.sum \cup {x.n : x \in start}
        said == {x.v : x \in start} \cup UNION {Mentioned(n) : n \in nodes}
    IN  [n : nodes, s : BOOLEAN,
         v : said \cup UNION {{Dep(v.dep), Feat(v.dep), Feat(v.feat)} : v \in said}]

Closure(start) == LeastAbove(start, Tasks(start), Implications)
=============================================================================
