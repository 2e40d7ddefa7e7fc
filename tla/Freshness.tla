----------------------------- MODULE Freshness -----------------------------
(***************************************************************************)
(* When is an output up to date?  How a build keys its units before it     *)
(* compiles anything (plan.rs), what it learns while compiling about the   *)
(* inputs the keys left out (exec.rs), how that knowledge, shared by every *)
(* checkout on the machine, shapes the keys of the next build, and how the *)
(* work just done moves to those keys (build.rs, rekey).                   *)
(*                                                                         *)
(* rustc and build scripts are external: Reads says which files and        *)
(* variables one looks at, given the contents it finds.  An output is the  *)
(* record of all that went into it, a key the record of all it hashes:     *)
(* blake3 is taken to be injective, and a file's mtime and size to tell    *)
(* its contents apart.  No edit changes a unit's name (plan.rs:149), so    *)
(* the unit stands for it.                                                 *)
(***************************************************************************)
EXTENDS Integers, FiniteSets, Functions, TLC

CONSTANTS
  Units,            \* the units of the graph
  Deps,             \* unit -> units it depends on
  Runs,             \* units that run a build script
  Roots,            \* units asked for
  PackageOf,        \* unit -> package
  Local,            \* packages that are not from a registry or git
  Tree,             \* package -> the files under its root
  Files,            \* those, and files elsewhere
  Vars,             \* environment variables
  Contents,         \* contents of a file, values of a variable
  Dirs,             \* checkouts of the workspace
  Reads(_, _, _),   \* programs, unit, contents of files -> what the unit looks at
  Rules,            \* what may disturb a behaviour, and its bounds: the
                    \* numbers of builds and of edits of a file
  None, Torn        \* no file or value; what a killed compile leaves

\* What a unit looks at depends on what it finds there.  A script that says
\* nothing about its inputs reads its package alone.  What came from a registry
\* never changes.
ASSUME FreshnessAssumption ==
  /\ IsFiniteSet(Units) /\ Deps \in [Units -> SUBSET Units]
  /\ \E rank \in [Units -> 0 .. Cardinality(Units)] :
       \A u \in Units : \A d \in Deps[u] : rank[d] < rank[u]
  /\ Runs \cup Roots \subseteq Units
  /\ PackageOf \in [Units -> DOMAIN Tree] /\ Local \subseteq Range(PackageOf)
  /\ \A p \in DOMAIN Tree : Tree[p] \subseteq Files
  /\ \A r \in Rules, u \in Units, c \in [Files -> Contents] :
       LET rd == Reads(r.programs, u, c) IN
       /\ rd \in [files : SUBSET Files, vars : SUBSET Vars, declared : BOOLEAN]
       /\ \A o \in [Files -> Contents] :
            (\A f \in rd.files : o[f] = c[f]) => Reads(r.programs, u, o) = rd
       /\ u \in Runs /\ ~rd.declared => rd.vars = {} /\ rd.files \subseteq Tree[PackageOf[u]]
  /\ \A r \in Rules :
       /\ r.envs \subseteq [Vars -> Contents]
       /\ r.edited \cup r.start \subseteq Files
       /\ \A p \in DOMAIN Tree \ Local : Tree[p] \cap (r.edited \cup r.start) = {}
  /\ None \notin [Vars -> Contents]
  /\ \A V \in SUBSET Vars, F \in SUBSET Files : None \notin [V -> Contents] \X [F -> Contents]

VARIABLES
  rules,     \* the disturbances of this behaviour
  now,       \* checkout -> the contents of its files
  pred,      \* ~/.rb predictions: unit -> what it turned out to depend on
  store,     \* the store's entries
  disk,      \* checkout -> the outputs under target/
  saved,     \* checkout -> units.json: the record owning each unit's slot
  proc,      \* checkout -> the build running there
  last,      \* checkout -> environment of a build that left nothing to do
  builds, edits

vars == <<rules, now, pred, store, disk, saved, proc, last, builds, edits>>

NothingKnown == [vars |-> {}, files |-> {}, sources |-> {}, declared |-> FALSE]
Idle == [phase |-> "idle"]
Busy(d) == proc[d].phase # "idle"
-----------------------------------------------------------------------------
(* Planning: keys and digests, from what is predicted (p), the contents of *)
(* the files (c) and the environment (e).                                  *)

\* A declared build script or known dep-info: those files.  Otherwise, the
\* whole tree as hashed once this run.  What came from a registry never changes.
UnitIdentity(p, u, c, trees) ==
  LET known == IF u \in Runs THEN p[u].declared ELSE p[u].sources # {}
  IN  IF PackageOf[u] \notin Local THEN PackageOf[u]
      ELSE IF known THEN Restrict(c, p[u].sources)
      ELSE trees[PackageOf[u]]

\* Faulty: only the files, not the variables.
InputDigestNoVars(p, u, c, e) ==
  IF p[u].vars \cup p[u].files = {} THEN None ELSE Restrict(c, p[u].files)

\* The current values of the inputs found outside the package.
InputDigest(p, u, c, e) ==
  IF p[u].vars \cup p[u].files = {} THEN None
  ELSE <<Restrict(e, p[u].vars), Restrict(c, p[u].files)>>

\* Every unit's key: its identity and its dependencies' keys and digests.
PlanFor(p, c, e, trees) ==
  LET planned[u \in Units] ==
        [key    |-> [unit |-> u, identity |-> UnitIdentity(p, u, c, trees),
                     deps |-> [d \in Deps[u] |-> planned[d]]],
         digest |-> InputDigest(p, u, c, e)]
  IN  planned

TreeHashes(c) == [p \in Local |-> Restrict(c, Tree[p])]

\* `lib_reqs' and `to_link': dependencies of libraries are followed, those of
\* a script's run are not.
Links ==
  LET links[u \in Units] ==
        Deps[u] \cup UNION {links[d] : d \in Deps[u] \ Runs}
  IN  links

Start(d) ==
  /\ d \in rules.dirs /\ proc[d].phase = "idle" /\ builds < rules.builds
  /\ rules.together \/ \A o \in Dirs : proc[o].phase = "idle"
  /\ \E e \in rules.envs :
       LET trees == TreeHashes(now[d])
           plan  == PlanFor(pred, now[d], e, trees)
       IN  proc' = [proc EXCEPT ![d] =
             [phase |-> "planned", env |-> e, trees |-> trees, plan |-> plan,
              new |-> plan, mem |-> saved[d], todo |-> {},
              compiled |-> [u \in {} |-> None], grown |-> FALSE,
              quiet |-> TRUE, alone |-> TRUE, again |-> last[d] = e]]
  /\ builds' = builds + 1
  /\ UNCHANGED <<rules, now, pred, store, disk, saved, last, edits>>
-----------------------------------------------------------------------------
(* Lookup. *)

InputsHold(d, inputs) ==
  /\ \A f \in DOMAIN inputs.files : now[d][f] = inputs.files[f]
  /\ \A v \in DOMAIN inputs.vars : proc[d].env[v] = inputs.vars[v]

Key(d, u) == proc[d].plan[u].key
Hits(d, u) == {x \in store : x.key = Key(d, u) /\ InputsHold(d, x.inputs)}

\* Fresh only while its key owns the slot and the output is there.
IsFresh(d, u) ==
  LET rec == proc[d].mem[u] IN
  rec # None /\ rec.key = Key(d, u) /\ disk[d][u] # None /\ InputsHold(d, rec.inputs)

Status(d) == [u \in Units |-> IF IsFresh(d, u) THEN "fresh"
                              ELSE IF Hits(d, u) # {} THEN "cached" ELSE "miss"]

\* A hit doesn't pull its dependencies.  A miss does.
Needed(status) ==
  LET Pulled(S) == Roots \subseteq S /\ \A u \in S : status[u] = "miss" => Links[u] \subseteq S
  IN  {u \in Units : \A S \in SUBSET Units : Pulled(S) => u \in S}

\* Slots of whatever is not fresh are given up and that is saved; then hits
\* are restored.
CheckUnits(d) ==
  /\ proc[d].phase = "planned"
  /\ LET status   == Status(d)
         needed   == Needed(status)
         cached   == {u \in needed : status[u] = "cached"}
         released == {u \in needed : status[u] # "fresh"}
         kept     == [u \in Units |-> IF u \in released THEN None ELSE proc[d].mem[u]]
     IN  \E hit \in [cached -> UNION {Hits(d, u) : u \in cached}] :
           /\ \A u \in cached : hit[u] \in Hits(d, u)
           /\ saved' = [saved EXCEPT ![d] = kept]
           /\ disk' = [disk EXCEPT ![d] = [u \in Units |->
                IF u \in cached THEN hit[u].out ELSE disk[d][u]]]
           /\ proc' = [proc EXCEPT
                ![d].phase = "build",
                ![d].todo = {u \in needed : status[u] = "miss"},
                ![d].mem = [u \in Units |-> IF u \in cached
                    THEN [key |-> Key(d, u), inputs |-> hit[u].inputs] ELSE kept[u]]]
  /\ UNCHANGED <<rules, now, pred, store, last, builds, edits>>
-----------------------------------------------------------------------------
(* Compiling. *)

Output(u, rd, c, e, outs) ==
  [unit |-> u, files |-> Restrict(c, rd.files), vars |-> Restrict(e, rd.vars),
   deps |-> Restrict(outs, Links[u])]

\* A script has to be done; of another unit rustc has to have exited.
Ready(d, u) == \A x \in Links[u] \cap proc[d].todo :
                 x \notin Runs /\ x \in DOMAIN proc[d].compiled

\* The lock on the unit's key is held until its outputs are in the store.
Locked(d, u) == \E o \in Dirs \ {d} : proc[o].phase = "build" /\
                  \E x \in DOMAIN proc[o].compiled : Key(o, x) = Key(d, u)

Pending(d, u) ==
  /\ proc[d].phase = "build"
  /\ u \in proc[d].todo \ DOMAIN proc[d].compiled
  /\ Ready(d, u) /\ ~Locked(d, u)

\* Another worktree may have produced this while we waited.
RestoreAfterWait(d, u) ==
  /\ Pending(d, u)
  /\ \E x \in Hits(d, u) :
       /\ disk' = [disk EXCEPT ![d][u] = x.out]
       /\ proc' = [proc EXCEPT ![d].todo = @ \ {u},
                               ![d].mem[u] = [key |-> Key(d, u), inputs |-> x.inputs]]
  /\ UNCHANGED <<rules, now, pred, store, saved, last, builds, edits>>

\* A program reads the files as they are, and the outputs beside it.
Execute(d, u) ==
  /\ Pending(d, u) /\ Hits(d, u) = {}
  /\ LET rd == Reads(rules.programs, u, now[d]) IN
     /\ disk' = [disk EXCEPT ![d][u] = Output(u, rd, now[d], proc[d].env, disk[d])]
     /\ proc' = [proc EXCEPT ![d].compiled =
                    [x \in DOMAIN @ \cup {u} |-> IF x = u THEN rd ELSE @[x]]]
  /\ UNCHANGED <<rules, now, pred, store, saved, last, builds, edits>>

Compile(d, u) == u \notin Runs /\ Execute(d, u)
\* In an empty OUT_DIR, with the DEP_ values of the scripts it depends on.
RunScript(d, u) == u \in Runs /\ Execute(d, u)

\* What lies outside the package is hashed now, after the fact.
Discovered(d, u, rd) ==
  [files |-> Restrict(now[d], rd.files \ Tree[PackageOf[u]]),
   vars  |-> Restrict(proc[d].env, rd.vars)]
Sources(u, rd) == rd.files \cap Tree[PackageOf[u]]

\* A union, but for whether the latest run declared anything.
Record(old, u, inputs, rd) ==
  [vars     |-> old.vars \cup DOMAIN inputs.vars,
   files    |-> old.files \cup DOMAIN inputs.files,
   sources  |-> old.sources \cup IF u \in Runs /\ ~rd.declared THEN {} ELSE Sources(u, rd),
   declared |-> u \in Runs /\ rd.declared]

\* One entry per set of inputs; a new one replaces its namesake.
Upsert(S, T) == {x \in S : ~\E y \in T : y.key = x.key /\ y.inputs = x.inputs} \cup T

\* Dep-info or the script's output is read, the prediction remembered, the
\* unit recorded and its outputs stored under the key it was planned with.
Attach(d, u) ==
  /\ proc[d].phase = "build" /\ u \in DOMAIN proc[d].compiled
  /\ LET rd     == proc[d].compiled[u]
         inputs == Discovered(d, u, rd)
         learnt == IF PackageOf[u] \in Local \/ DOMAIN inputs.files \cup DOMAIN inputs.vars # {}
                   THEN Record(pred[u], u, inputs, rd) ELSE pred[u]
     IN  /\ pred' = [pred EXCEPT ![u] = learnt]
         /\ store' = Upsert(store, {[key |-> Key(d, u), inputs |-> inputs, out |-> disk[d][u]]})
         /\ proc' = [o \in Dirs |->
              IF o = d
              THEN [proc[d] EXCEPT !.todo = @ \ {u},
                      !.compiled = Restrict(@, DOMAIN @ \ {u}),
                      !.grown = @ \/ learnt # pred[u],
                      !.mem[u] = [key |-> Key(d, u), inputs |-> inputs]]
              ELSE IF Busy(o) /\ learnt # pred[u]
              THEN [proc[o] EXCEPT !.alone = FALSE] ELSE proc[o]]
         /\ last' = [o \in Dirs |-> IF o # d /\ learnt # pred[u] THEN None ELSE last[o]]
  /\ UNCHANGED <<rules, now, disk, saved, builds, edits>>

\* A unit fails, a script in its emptied OUT_DIR: what is done is saved, the
\* build is not rekeyed.
Fails(d) ==
  /\ rules.errors /\ proc[d].phase = "build"
  /\ proc[d].compiled = [u \in {} |-> None]
  /\ \E u \in {x \in proc[d].todo : Pending(d, x)} :
       disk' = [disk EXCEPT ![d][u] = IF u \in Runs THEN Torn ELSE @]
  /\ saved' = [saved EXCEPT ![d] = proc[d].mem]
  /\ proc' = [proc EXCEPT ![d] = Idle]
  /\ last' = [last EXCEPT ![d] = None]
  /\ UNCHANGED <<rules, now, pred, store, builds, edits>>

Finish(d) ==
  /\ proc[d].phase = "build" /\ proc[d].todo = {}
  /\ saved' = [saved EXCEPT ![d] = proc[d].mem]
  /\ proc' = [proc EXCEPT ![d].phase = IF proc[d].grown THEN "rekey" ELSE "done"]
  /\ UNCHANGED <<rules, now, pred, store, disk, last, builds, edits>>
-----------------------------------------------------------------------------
(* Rekeying: moving the records to the keys the next build will ask for. *)

\* An edit changes a local package and this is a no-op.
RekeyCheck(d) ==
  /\ proc[d].phase = "rekey"
  /\ proc' = [proc EXCEPT ![d].phase =
                IF TreeHashes(now[d]) = proc[d].trees THEN "replan" ELSE "done"]
  /\ UNCHANGED <<rules, now, pred, store, disk, saved, last, builds, edits>>

\* Units whose keys the new plan changes.
Moved(d) == {u \in Units : Key(d, u) # proc[d].new[u].key}
OwnsSlot(d, u) == LET rec == proc[d].mem[u] IN rec # None /\ rec.key = Key(d, u)

\* The trees are already marked unchanged, so the second look at them finds
\* nothing.  A unit whose digest moved must still have the inputs it had.
Replan(d) ==
  /\ proc[d].phase = "replan"
  /\ proc' = [proc EXCEPT ![d].phase = "verify",
                          ![d].new = PlanFor(pred, now[d], proc[d].env, proc[d].trees)]
  /\ UNCHANGED <<rules, now, pred, store, disk, saved, last, builds, edits>>

Verify(d) ==
  /\ proc[d].phase = "verify"
  /\ LET ok == \A u \in Moved(d) :
                 proc[d].plan[u].digest # proc[d].new[u].digest =>
                   OwnsSlot(d, u) /\ InputsHold(d, proc[d].mem[u].inputs)
     IN  proc' = [proc EXCEPT ![d].phase = IF ok THEN "move" ELSE "done"]
  /\ UNCHANGED <<rules, now, pred, store, disk, saved, last, builds, edits>>

\* `alias' copies the entries of the old keys; the records follow in memory.
Moving(d) == {u \in Moved(d) : OwnsSlot(d, u)}
Aliases(d) == UNION {{[x EXCEPT !.key = proc[d].new[u].key] :
                        x \in {y \in store : y.key = Key(d, u)}} : u \in Moving(d)}
MovedRecords(d) == [u \in Units |-> IF u \in Moving(d)
                      THEN [proc[d].mem[u] EXCEPT !.key = proc[d].new[u].key]
                      ELSE proc[d].mem[u]]

\* Faulty: the store keeps the old keys only.
MoveRecordsOnly(d) ==
  /\ proc[d].phase = "move"
  /\ proc' = [proc EXCEPT ![d].phase = "resave", ![d].mem = MovedRecords(d)]
  /\ UNCHANGED <<rules, now, pred, store, disk, saved, last, builds, edits>>

Move(d) ==
  /\ proc[d].phase = "move"
  /\ store' = Upsert(store, Aliases(d))
  /\ proc' = [proc EXCEPT ![d].phase = "resave", ![d].mem = MovedRecords(d)]
  /\ UNCHANGED <<rules, now, pred, disk, saved, last, builds, edits>>

SaveRekeyed(d) ==
  /\ proc[d].phase = "resave"
  /\ saved' = [saved EXCEPT ![d] = proc[d].mem]
  /\ proc' = [proc EXCEPT ![d].phase = "done"]
  /\ UNCHANGED <<rules, now, pred, store, disk, last, builds, edits>>

\* The binary runs, and the build ends.
Leave(d) ==
  /\ proc[d].phase = "done"
  /\ proc' = [proc EXCEPT ![d] = Idle]
  /\ last' = [last EXCEPT ![d] = IF proc[d].quiet /\ proc[d].alone
                             THEN proc[d].env ELSE None]
  /\ UNCHANGED <<rules, now, pred, store, disk, saved, builds, edits>>
-----------------------------------------------------------------------------
(* Disturbances. *)

\* The user saves another content: between builds, or in the phases of one
\* that the rules name.
Edit(d) ==
  /\ edits < rules.edits
  /\ Busy(d) => proc[d].phase \in rules.during
  /\ d \in rules.dirs
  /\ \E f \in rules.edited, x \in Contents :
       /\ IF rules.back THEN x # now[d][f] ELSE x > now[d][f]
       /\ now' = [now EXCEPT ![d][f] = x]
  /\ edits' = edits + 1
  /\ proc' = IF Busy(d) THEN [proc EXCEPT ![d].quiet = FALSE] ELSE proc
  /\ last' = [last EXCEPT ![d] = None]
  /\ UNCHANGED <<rules, pred, store, disk, saved, builds>>

\* The build is killed; of what it was compiling anything may be left.  Work
\* that was aliased but not saved is still in the store.
Crash(d) ==
  /\ rules.crash /\ Busy(d)
  /\ \E torn \in SUBSET IF proc[d].phase = "build" THEN proc[d].todo ELSE {} :
       disk' = [disk EXCEPT ![d] = [u \in Units |->
                  IF u \in torn THEN Torn ELSE disk[d][u]]]
  /\ last' = [last EXCEPT ![d] =
                IF proc[d].phase \in {"resave", "done"} /\ proc[d].quiet /\ proc[d].alone
                THEN proc[d].env ELSE None]
  /\ proc' = [proc EXCEPT ![d] = Idle]
  /\ UNCHANGED <<rules, now, pred, store, saved, builds, edits>>

Init ==
  /\ rules \in Rules
  /\ now \in {c \in [Dirs -> [Files -> Contents]] :
               \A d \in Dirs, f \in Files :
                 c[d][f] # 1 => d \in rules.dirs /\ f \in rules.start}
  /\ pred = [u \in Units |-> NothingKnown]
  /\ store = {}
  /\ disk = [d \in Dirs |-> [u \in Units |-> None]]
  /\ saved = [d \in Dirs |-> [u \in Units |-> None]]
  /\ proc = [d \in Dirs |-> Idle]
  /\ last = [d \in Dirs |-> None]
  /\ builds = 0 /\ edits = 0

Next ==
  \/ \E d \in Dirs, u \in Units :
       RestoreAfterWait(d, u) \/ Compile(d, u) \/ RunScript(d, u) \/ Attach(d, u)
  \/ \E d \in Dirs :
       \/ Start(d) \/ CheckUnits(d) \/ Fails(d) \/ Finish(d)
       \/ RekeyCheck(d) \/ Replan(d) \/ Verify(d) \/ Move(d)
       \/ SaveRekeyed(d) \/ Leave(d)
       \/ Edit(d) \/ Crash(d)

Spec == Init /\ [][Next]_vars
-----------------------------------------------------------------------------
(* What the keys can take, r being the rules: what may differ between two  *)
(* moments of a behaviour,                                                 *)
Varying(r) == r.edited \cup r.start
Worlds(r)  == {c \in [Files -> Contents] : \A f \in Files \ Varying(r) : c[f] = 1}
VaryingVars(r) == {v \in Vars : \E e1, e2 \in r.envs : e1[v] # e2[v]}
Looks(r, u, c) == Reads(r.programs, u, c)
Pkg(u) == Tree[PackageOf[u]]

\* Programs whose choice of files does not matter to what is learnt: they look
\* at nothing that varies outside their package, and always at the same of
\* what varies in it.
Settled(r) ==
  \A u \in Units : \A c, o \in Worlds(r) :
    /\ Looks(r, u, c).vars \cap VaryingVars(r) = {}
    /\ Looks(r, u, c).files \cap Varying(r) \subseteq Pkg(u)
    /\ Looks(r, u, c).files \cap Varying(r) = Looks(r, u, o).files \cap Varying(r)

\* A script that says nothing of its inputs reads no more than when it does.
Forthright(r) ==
  \A u \in Runs : \A c, o \in Worlds(r) :
    ~Looks(r, u, c).declared /\ Looks(r, u, o).declared =>
      Looks(r, u, c).files \subseteq Looks(r, u, o).files

\* Nothing is edited while it is built; builds come one after the other and
\* are not killed, unless the programs are settled.
Undisturbed(r) ==
  /\ r.during = {} /\ Forthright(r)
  /\ r.together \/ r.crash => Settled(r)

\* What a compiler that started from nothing would make of the sources.
Ideal(programs, c, e) ==
  LET ideal[u \in Units] == Output(u, Reads(programs, u, c), c, e, ideal)
  IN  ideal

(* A build that nothing disturbed leaves, for every unit asked for, what a *)
(* clean build of the sources as they are would make: whatever was edited  *)
(* or killed before, whichever checkout filled the store, whatever the     *)
(* predictions knew when it was planned (plan.rs keys, exec.rs lookup and  *)
(* discovered_inputs, build.rs execute and rekey).                         *)
BuiltIsCurrent ==
  \A d \in Dirs : proc[d].phase = "done" /\ proc[d].quiet =>
    \A u \in Roots : disk[d][u] = Ideal(rules.programs, now[d], proc[d].env)[u]

(* Building again without an edit compiles nothing, although the first     *)
(* build changed the keys by what it learnt (and no other checkout did),   *)
(* and even when it was killed between moving its work to the new keys and *)
(* saving them (build.rs rekey: "so the next build doesn't redo the        *)
(* graph").                                                                *)
NothingRedone ==
  \A d \in Dirs : proc[d].phase = "build" /\ proc[d].again /\ proc[d].quiet =>
    proc[d].todo = {}
=============================================================================
