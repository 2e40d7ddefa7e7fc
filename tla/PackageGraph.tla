---------------------------- MODULE PackageGraph ----------------------------
(***************************************************************************)
(* The package graph of rb-core's resolve.rs and the Cargo.lock of         *)
(* lockfile.rs.  A node is a package id [name, vers, src]; versions are    *)
(* numbers, and a requirement is the set of versions it accepts.  `world'  *)
(* holds what the command meets outside the program.                       *)
(***************************************************************************)
EXTENDS Integers, FiniteSets, SequencesExt

CONSTANTS Manifests,        \* what is published: package ids to manifests
          Index             \* what the registries list of it

VARIABLE world

NoVersion == -1
PreRelease == 0              \* the one version "*" does not match
Star == 1..3
NoSource == [at |-> "none"]
Only(S) == CHOOSE x \in S : TRUE
NoEntries == [x \in {} |-> x]

(* The least set above `start' to which Step adds nothing.                 *)
LeastAbove(start, within, Step(_)) ==
    LET grow[S \in SUBSET within] ==
            LET more == S \cup Step(S) IN IF more = S THEN S ELSE grow[more]
    IN  grow[start]

(* A graph has its nodes, those with an index summary, those whose         *)
(* manifest is loaded, its edges and the [patch] source a node stands for. *)
EmptyGraph == [nodes |-> {}, sum |-> {}, pkg |-> {}, edges |-> {}, patch |-> {}]

IsPath(n) == n.src.at = "path"
Manifest(n) == Manifests[n]
Targets(n) == Manifest(n).targets
ProcMacro(n) == \E t \in DOMAIN Targets(n) : "proc-macro" \in Targets(n)[t].types
HasData(gr, n) == n \in gr.pkg \cup gr.sum
DepsOf(gr, n) == IF HasData(gr, n) THEN Manifest(n).deps ELSE <<>>
FeaturesOf(gr, n) == IF HasData(gr, n) THEN Manifest(n).features ELSE NoEntries

ReqAccepts(dep, v) == v \in dep.req \/ (dep.src.at # "registry" /\ dep.req = Star)

Newest(S) == CHOOSE t \in S : \A u \in S : u.vers <= t.vers

SourceMatches(gr, dep, t) ==
    \/ dep.src = t.src                                   \* a registry or a path
    \/ dep.src.at = "registry" /\ t.src.at # "registry" /\ <<t, dep.src.reg>> \in gr.patch
    \/ dep.src.at = "git" /\ t.src.at = "git" /\ dep.src.url = t.src.url
    \/ dep.src.at = "git" /\ t.src.at # "git" /\ <<t, dep.src.url>> \in gr.patch

(* The packages of the repository and commit n is from.                    *)
SameCommit(n, t) == /\ n.src.at = "git" /\ t.src.at = "git"
                    /\ n.src.url = t.src.url /\ n.src.commit = t.src.commit

(* The node a declared dependency stands for: at most one.                 *)
TargetOf(gr, n, dep) ==
    LET hit == {t \in gr.nodes : /\ <<n, t>> \in gr.edges
                                 /\ t.name = dep.pkg
                                 /\ SourceMatches(gr, dep, t)
                                 /\ ReqAccepts(dep, t.vers)}
        sibling == {t \in gr.nodes : /\ dep.src.at = "path"
                                     /\ SameCommit(n, t)
                                     /\ t.name = dep.pkg}
    IN  IF hit # {} THEN {Newest(hit)}
        ELSE IF sibling # {} THEN {Only(sibling)} ELSE {}

-----------------------------------------------------------------------------
(* Cargo.lock: a set of [name, vers, src, deps]; a dependency entry is     *)
(* [name, vers, src] with the version or the source left out when the      *)
(* name, or the name and version, say enough.  Path packages have no       *)
(* source.                                                                 *)
LockSource(n) == IF IsPath(n) THEN NoSource ELSE n.src
LockEntry(n) == [name |-> n.name, vers |-> n.vers, src |-> LockSource(n)]

(* For comparison: a name is taken to say enough.                          *)
RenderDepName(pkgs, d) == [d EXCEPT !.vers = NoVersion, !.src = NoSource]

RenderDep(pkgs, d) ==
    LET named == {p \in pkgs : p.name = d.name}
        versioned == {p \in named : p.vers = d.vers}
    IN  IF Cardinality(named) <= 1
          THEN [d EXCEPT !.vers = NoVersion, !.src = NoSource]
        ELSE IF Cardinality(versioned) > 1 THEN d
        ELSE [d EXCEPT !.src = NoSource]

Render(pkgs) == {[p EXCEPT !.deps = {RenderDep(pkgs, d) : d \in @}] : p \in pkgs}

(* The entry a dependency entry names: the first in the file, which puts   *)
(* packages without a source before the others.                            *)
Named(lock, d) ==
    LET hits == {q \in lock : /\ q.name = d.name
                              /\ d.vers \in {NoVersion, q.vers}
                              /\ d.src \in {NoSource, q.src}}
        bare == {q \in hits : q.src = NoSource}
    IN  IF bare # {} THEN {Only(bare)} ELSE IF hits # {} THEN {Only(hits)} ELSE {}

(* The node of a lock entry: a path package has to be in the graph.        *)
LockNode(gr, p) ==
    IF p.src = NoSource
    THEN {n \in gr.nodes : IsPath(n) /\ n.name = p.name /\ n.vers = p.vers}
    ELSE {[name |-> p.name, vers |-> p.vers, src |-> p.src]}

ImportLock(gr, lock) ==
    LET locked == UNION {LockNode(gr, p) : p \in lock}
        targets(p) == UNION {LockNode(gr, q) : q \in UNION {Named(lock, d) : d \in p.deps}}
    IN  [gr EXCEPT !.nodes = @ \cup locked,
                   !.edges = @ \cup UNION {LockNode(gr, p) \X targets(p) : p \in lock}]

(* [patch] replacements are marked, or dependents still look unlocked: of  *)
(* each patch the first node it can mean, a local one or the oldest.       *)
FirstNode(S) == LET here == {t \in S : IsPath(t)}
                IN  IF here # {} THEN Only(here)
                    ELSE CHOOSE t \in S : \A u \in S : t.vers <= u.vers

MarkLockPatches(gr) ==
    LET meant(d) == {n \in gr.nodes : n.name = d.pkg /\ SourceMatches(gr, d, n)}
        found == {d \in world.patches : meant(d) # {}}
    IN  [gr EXCEPT !.patch = @ \cup {<<FirstNode(meant(d)), world.patchFor>> : d \in found}]

LocalsComplete(gr) ==
    \A n \in {m \in gr.nodes : IsPath(m)} : \A i \in DOMAIN DepsOf(gr, n) :
        LET d == DepsOf(gr, n)[i]
        IN  n \in world.members \/ (~d.optional /\ d.kind # "dev") => TargetOf(gr, n, d) # {}
=============================================================================
