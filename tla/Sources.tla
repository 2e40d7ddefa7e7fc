------------------------------ MODULE Sources ------------------------------
(***************************************************************************)
(* Where foreign code comes from: the sparse index with its cached entries *)
(* and etags, the archives and directories packages are unpacked into, and *)
(* the git databases references are resolved in (rb-core registry.rs,      *)
(* git.rs and Workspace::load_packages, rb-toolchain download.rs).  All of *)
(* it lies in the user's home, shared by every rb process without a lock.  *)
(*                                                                         *)
(* One index entry, one git repository with one branch; a behaviour is     *)
(* about one of the three (rules.part).  The servers and the git tool are  *)
(* external.                                                               *)
(***************************************************************************)
EXTENDS Integers, FiniteSets, Sequences

CONSTANTS
  Procs, Threads,
  Crates, Commits,      \* what packages are unpacked from
  Parts, Manifest,      \* the files of a package, Cargo.toml among them,
  Nested,               \* and those a submodule of the repository may hold
  Rules,                \* the part a behaviour is about, what is asked for (a
                        \* revision that is no branch's too), and its bounds
  None, Torn, Whole, Ok

Items == Crates \cup Commits
Workers == Procs \X Threads

\* Nested leaves out the manifest; there is no number, state or part that stands
\* for "nothing"; every job names a package for each thread.
ASSUME SourcesAssumption ==
  /\ Manifest \in Parts \ Nested /\ Nested \subseteq Parts
  /\ Crates \cap Commits = {} /\ Ok \notin Parts
  /\ None \notin Nat \cup Items \cup {Torn, Whole} /\ Torn \notin Nat \cup {Whole}
  /\ \A r \in Rules : /\ r.crowd \in BOOLEAN /\ r.nested \in BOOLEAN
                      /\ r.jobs \subseteq [Threads -> Items]

VARIABLES
  rules, left,                  \* what may still happen
  site, body, etag, ask,        \* the index
  archive, objs, dir, staging, work, calm, streak,
  remote, refs, head, look      \* git references

index == <<site, body, etag, ask>>
trees == <<archive, dir, staging, work, calm, streak>>
git   == <<remote, refs, head, look>>
vars  == <<rules, left, index, trees, objs, git>>

Spend(what) == left[what] > 0 /\ left' = [left EXCEPT ![what] = @ - 1]
Keep == UNCHANGED left
Alone(p, state) == rules.crowd \/ \A q \in Procs \ {p} : state[q].pc \in {"idle", "done", "failed"}
-----------------------------------------------------------------------------
(* The index: Registry::cached_get. *)

Unasked == [pc |-> "idle"]

ReadBody(p) ==
  /\ rules.part = "index" /\ ask[p].pc = "idle" /\ Alone(p, ask) /\ Spend("runs")
  /\ \E off \in BOOLEAN :
       ask' = [ask EXCEPT ![p] =
         [pc |-> "send", off |-> off, cached |-> body, tag |-> None, got |-> site, asOf |-> None]]
  /\ UNCHANGED <<rules, site, body, etag, trees, objs, git>>

\* Only with a cached body the etag is worth sending.
Send(p) ==
  /\ ask[p].pc = "send" /\ ~ask[p].off
  /\ ask' = [ask EXCEPT ![p].pc = "sent", ![p].tag = IF ask[p].cached = None THEN None ELSE etag]
  /\ Keep /\ UNCHANGED <<rules, site, body, etag, trees, objs, git>>

Offline(p) ==
  /\ ask[p].pc = "send" /\ ask[p].off
  /\ ask' = [ask EXCEPT ![p].pc = IF ask[p].cached = None THEN "failed" ELSE "done"]
  /\ Keep /\ UNCHANGED <<rules, site, body, etag, trees, objs, git>>

Unreachable(p) ==
  /\ ask[p].pc = "sent" /\ Spend("failures")
  /\ ask' = [ask EXCEPT ![p].pc = IF ask[p].cached = None THEN "failed" ELSE "done"]
  /\ UNCHANGED <<rules, site, body, etag, trees, objs, git>>

\* Any other status: no such entry, or an error, with a cached body as well.
Refused(p) ==
  /\ ask[p].pc = "sent" /\ Spend("failures")
  /\ ask' = [ask EXCEPT ![p].pc = "failed"]
  /\ UNCHANGED <<rules, site, body, etag, trees, objs, git>>

\* Faulty: the etag is written before the body it belongs to.
WritesTagFirst == <<"etag", "body">>
Writes == <<"body", "etag">>
After(pc) == IF pc = Writes[1] THEN Writes[2] ELSE "done"

NotModified(p) ==
  /\ ask[p].pc = "sent" /\ site.tag # None /\ ask[p].tag = site.tag
  /\ ask' = [ask EXCEPT ![p].pc = "done", ![p].asOf = site.v]
  /\ Keep /\ UNCHANGED <<rules, site, body, etag, trees, objs, git>>

Answer(p) ==
  /\ ask[p].pc = "sent" /\ (site.tag = None \/ ask[p].tag # site.tag)
  /\ ask' = [ask EXCEPT ![p].pc = Writes[1], ![p].cached = site.v, ![p].got = site,
                        ![p].asOf = site.v]
  /\ Keep /\ UNCHANGED <<rules, site, body, etag, trees, objs, git>>

\* A file of its own, renamed over the old one.
WriteBody(p) ==
  /\ ask[p].pc = "body"
  /\ body' = ask[p].got.v
  /\ ask' = [ask EXCEPT ![p].pc = After("body")]
  /\ Keep /\ UNCHANGED <<rules, site, etag, trees, objs, git>>

\* Written in place, or removed when the server gave none.
WriteTag(p) ==
  /\ ask[p].pc = "etag"
  /\ etag' = IF ask[p].got.tag # None /\ etag # Torn THEN Torn ELSE ask[p].got.tag
  /\ ask' = [ask EXCEPT ![p].pc = IF etag' = Torn THEN "etag" ELSE After("etag")]
  /\ Keep /\ UNCHANGED <<rules, site, body, trees, objs, git>>

\* The process ends, or is killed in the middle.
Leave(p) ==
  /\ ask[p].pc # "idle"
  /\ IF ask[p].pc \in {"done", "failed"} THEN Keep ELSE Spend("kills")
  /\ ask' = [ask EXCEPT ![p] = Unasked]
  /\ UNCHANGED <<rules, site, body, etag, trees, objs, git>>

Publish ==
  /\ rules.part = "index" /\ Spend("changes")
  /\ \E tag \in {site.v + 1, None} : site' = [v |-> site.v + 1, tag |-> tag]
  /\ UNCHANGED <<rules, body, etag, ask, trees, objs, git>>
-----------------------------------------------------------------------------
(* Packages: Workspace::load_packages runs Registry::ensure and            *)
(* Git::checkout for all of them in the threads of a process.              *)

Idle == [pc |-> "idle", off |-> FALSE, item |-> None, todo |-> {}]
At(w, pc) == work[w].pc = pc
Item(w) == work[w].item
\* A process, not a thread, has a staging directory of its own.
Staged(w) == <<w[1], Item(w)>>
Running(p) == \E t \in Threads : work[<<p, t>>].pc # "idle"
Go(w, pc) == work' = [work EXCEPT ![w].pc = pc]

Load(p) ==
  /\ rules.part = "packages" /\ ~Running(p) /\ Spend("runs")
  /\ rules.crowd \/ ~\E q \in Procs : Running(q)
  /\ \E job \in rules.jobs, off \in BOOLEAN :
       work' = [w \in Workers |->
                  IF w[1] = p THEN [pc |-> "look", off |-> off, item |-> job[w[2]], todo |-> {}]
                  ELSE work[w]]
  /\ calm' = ~\E q \in Procs : Running(q)
  /\ UNCHANGED <<rules, index, archive, objs, dir, staging, streak, git>>

Present(w) == Ok \in dir[Item(w)]

Look(w) ==
  /\ At(w, "look")
  /\ Go(w, IF Present(w) THEN "done" ELSE "obtain")
  /\ Keep /\ UNCHANGED <<rules, index, archive, objs, dir, staging, calm, streak, git>>

\* From cargo's cache when its checksum is right, copied to the place itself;
\* or downloaded, verified, and renamed.
Mirror(w) ==
  /\ At(w, "obtain") /\ Item(w) \in Crates /\ archive[Item(w)] = None
  /\ archive' = [archive EXCEPT ![Item(w)] = Torn]
  /\ Go(w, "copy")
  /\ Keep /\ UNCHANGED <<rules, index, objs, dir, staging, calm, streak, git>>

Copied(w) ==
  /\ At(w, "copy")
  /\ archive' = [archive EXCEPT ![Item(w)] = IF @ = None THEN None ELSE Whole]
  /\ Go(w, "unpack0")
  /\ Keep /\ UNCHANGED <<rules, index, objs, dir, staging, calm, streak, git>>

Fetch(w) ==
  /\ At(w, "obtain") /\ ~work[w].off
  /\ \/ /\ Item(w) \in Crates /\ archive[Item(w)] = None
        /\ archive' = [archive EXCEPT ![Item(w)] = Whole] /\ UNCHANGED objs
     \/ /\ Item(w) \in Commits \ objs
        /\ objs' = objs \cup {Item(w)} /\ UNCHANGED archive
  /\ Go(w, "unpack0")
  /\ Keep /\ UNCHANGED <<rules, index, dir, staging, calm, streak, git>>

Missing(w) == IF Item(w) \in Crates THEN archive[Item(w)] = None ELSE Item(w) \notin objs

FetchFails(w) ==
  /\ At(w, "obtain") /\ Missing(w)
  /\ IF work[w].off THEN Keep ELSE Spend("failures")
  /\ Go(w, "failed") /\ calm' = FALSE
  /\ UNCHANGED <<rules, index, archive, objs, dir, staging, streak, git>>

\* What is there is verified again, and removed when it is not what it
\* should be.
\* Faulty: it is reported and left.
DroppedNever(a) == a
Dropped(a) == IF a = Whole THEN Whole ELSE None

Verify(w) ==
  /\ At(w, "obtain") /\ ~Missing(w)
  /\ IF Item(w) \in Crates
     THEN /\ archive' = [archive EXCEPT ![Item(w)] = Dropped(@)]
          /\ Go(w, IF archive[Item(w)] = Whole THEN "unpack0" ELSE "failed")
     ELSE Go(w, "unpack0") /\ UNCHANGED archive
  /\ Keep /\ UNCHANGED <<rules, index, objs, dir, staging, calm, streak, git>>

HasSubmodules(w) == rules.nested /\ Item(w) \in Commits

\* `git archive', or a clone when the commit has a .gitmodules.
StartUnpack(w) ==
  /\ At(w, "unpack0")
  /\ IF Item(w) \in Crates /\ archive[Item(w)] # Whole THEN Go(w, "failed") /\ UNCHANGED staging
     ELSE /\ staging' = [staging EXCEPT ![Staged(w)] = {}]
          /\ work' = [work EXCEPT ![w].pc = "unpack",
                                 ![w].todo = IF HasSubmodules(w) THEN Parts \ Nested ELSE Parts]
  /\ Keep /\ UNCHANGED <<rules, index, archive, objs, dir, calm, streak, git>>

Unpack(w) ==
  /\ At(w, "unpack")
  /\ \E x \in work[w].todo :
       /\ staging' = [staging EXCEPT ![Staged(w)] = @ \cup {x}]
       /\ work' = [work EXCEPT ![w].todo = @ \ {x},
                               ![w].pc = IF work[w].todo # {x} THEN @
                                         ELSE IF HasSubmodules(w) THEN "nested" ELSE "remove"]
  /\ Keep /\ UNCHANGED <<rules, index, archive, objs, dir, calm, streak, git>>

\* A full disk, a `git archive' that dies: what is staged stays where it is.
\* Faulty: it is taken for the end of the archive.
OnErrorGoOn(w) == "remove"
OnError(w) == "failed"

UnpackFails(w) ==
  /\ At(w, "unpack") /\ Spend("failures")
  /\ Go(w, OnError(w)) /\ calm' = FALSE
  /\ UNCHANGED <<rules, index, archive, objs, dir, staging, streak, git>>

\* Submodules are fetched anew; offline, git may still find them.
Submodules(w) ==
  /\ At(w, "nested")
  /\ staging' = [staging EXCEPT ![Staged(w)] = @ \cup Nested]
  /\ Go(w, "remove")
  /\ Keep /\ UNCHANGED <<rules, index, archive, objs, dir, calm, streak, git>>

SubmodulesFail(w) ==
  /\ At(w, "nested")
  /\ IF work[w].off THEN Keep ELSE Spend("failures")
  /\ Go(w, "failed") /\ calm' = FALSE
  /\ UNCHANGED <<rules, index, archive, objs, dir, staging, streak, git>>

\* What another attempt left goes, file by file.
Remove(w) ==
  /\ At(w, "remove") /\ dir[Item(w)] # {}
  /\ \E x \in dir[Item(w)] : dir' = [dir EXCEPT ![Item(w)] = @ \ {x}]
  /\ Keep /\ UNCHANGED <<rules, index, archive, objs, staging, work, calm, streak, git>>

Removed(w) ==
  /\ At(w, "remove") /\ dir[Item(w)] = {}
  /\ Go(w, IF Item(w) \in Crates /\ Manifest \notin staging[Staged(w)] THEN "failed" ELSE "place")
  /\ Keep /\ UNCHANGED <<rules, index, archive, objs, dir, staging, calm, streak, git>>

Place(w) ==
  /\ At(w, "place")
  /\ IF dir[Item(w)] = {}
     THEN /\ dir' = [dir EXCEPT ![Item(w)] = staging[Staged(w)]]
          /\ staging' = [staging EXCEPT ![Staged(w)] = {}]
          /\ Go(w, "mark")
     ELSE Go(w, "failed") /\ UNCHANGED <<dir, staging>>
  /\ Keep /\ UNCHANGED <<rules, index, archive, objs, calm, streak, git>>

Mark(w) ==
  /\ At(w, "mark")
  /\ IF dir[Item(w)] = {} THEN Go(w, "failed") /\ UNCHANGED dir
     ELSE /\ dir' = [dir EXCEPT ![Item(w)] = @ \cup {Ok}]
          /\ Go(w, "done")
  /\ Keep /\ UNCHANGED <<rules, index, archive, objs, staging, calm, streak, git>>

Stopped(p) == [w \in Workers |-> IF w[1] = p THEN Idle ELSE work[w]]

\* All of the threads are joined; one error is the process's.
Loaded(p) ==
  /\ \A t \in Threads : work[<<p, t>>].pc \in {"done", "failed"}
  /\ streak' = IF calm /\ \E t \in Threads : work[<<p, t>>].pc = "failed" THEN streak + 1 ELSE 0
  /\ work' = Stopped(p)
  /\ Keep /\ UNCHANGED <<rules, index, archive, objs, dir, staging, calm, git>>

KillLoad(p) ==
  /\ Running(p) /\ Spend("kills")
  /\ work' = Stopped(p) /\ streak' = 0
  /\ UNCHANGED <<rules, index, archive, objs, dir, staging, calm, git>>
-----------------------------------------------------------------------------
(* Git::resolve.  The commits of the branch are numbered. *)

Unresolved == [pc |-> "idle"]
Reach(n) == 1..n

Resolve(p) ==
  /\ rules.part = "git" /\ look[p].pc = "idle" /\ Alone(p, look) /\ Spend("runs")
  /\ \E r \in rules.refs, off \in BOOLEAN :
       look' = [look EXCEPT ![p] = [pc |-> "lookup", off |-> off, ref |-> r, since |-> remote,
                                  got |-> None]]
  /\ UNCHANGED <<rules, index, trees, objs, remote, refs, head>>

Found(p) == IF look[p].ref = "branch" THEN refs ELSE IF look[p].ref \in objs THEN look[p].ref ELSE None

\* Faulty: what is there is good enough.
RefreshNever(p) == FALSE
\* Branches move; everything else is fetched once.
Refresh(p) == look[p].ref = "branch" /\ ~look[p].off

Lookup(p) ==
  /\ look[p].pc = "lookup"
  /\ look' = [look EXCEPT ![p].pc = IF Refresh(p) \/ Found(p) = None THEN "fetch" ELSE "done",
                          ![p].got = Found(p)]
  /\ Keep /\ UNCHANGED <<rules, index, trees, objs, remote, refs, head>>

\* All branches and tags.
FetchAll(p) ==
  /\ look[p].pc = "fetch" /\ ~look[p].off
  /\ objs' = objs \cup Reach(remote) /\ refs' = remote /\ head' = remote
  /\ look' = [look EXCEPT ![p].pc = "again"]
  /\ Keep /\ UNCHANGED <<rules, index, trees, remote>>

NoNetwork(p) ==
  /\ look[p].pc \in {"fetch", "one"}
  /\ IF look[p].off THEN Keep ELSE Spend("failures")
  /\ look' = [look EXCEPT ![p].pc = "failed"]
  /\ UNCHANGED <<rules, index, trees, objs, remote, refs, head>>

LookupAgain(p) ==
  /\ look[p].pc = "again"
  /\ look' = [look EXCEPT ![p].pc = IF Found(p) = None THEN "one" ELSE "done",
                          ![p].got = Found(p)]
  /\ Keep /\ UNCHANGED <<rules, index, trees, objs, remote, refs, head>>

\* The one commit, by its name.
FetchOne(p) ==
  /\ look[p].pc = "one" /\ ~look[p].off
  /\ objs' = objs \cup {look[p].ref} /\ head' = look[p].ref
  /\ look' = [look EXCEPT ![p].pc = "head"]
  /\ Keep /\ UNCHANGED <<rules, index, trees, remote, refs>>

ReadHead(p) ==
  /\ look[p].pc = "head"
  /\ look' = [look EXCEPT ![p].pc = "done", ![p].got = head]
  /\ Keep /\ UNCHANGED <<rules, index, trees, objs, remote, refs, head>>

EndResolve(p) ==
  /\ look[p].pc # "idle"
  /\ IF look[p].pc \in {"done", "failed"} THEN Keep ELSE Spend("kills")
  /\ look' = [look EXCEPT ![p] = Unresolved]
  /\ UNCHANGED <<rules, index, trees, objs, remote, refs, head>>

Push ==
  /\ rules.part = "git" /\ Spend("changes")
  /\ remote' = remote + 1
  /\ UNCHANGED <<rules, index, trees, objs, refs, head, look>>
-----------------------------------------------------------------------------
Init ==
  /\ rules \in Rules /\ left = rules.bounds
  /\ site = [v |-> 1, tag |-> 1] /\ body = None /\ etag = None /\ ask = [p \in Procs |-> Unasked]
  /\ archive = [c \in Crates |-> None] /\ objs = {}
  /\ dir = [i \in Items |-> {}] /\ staging = [s \in Procs \X Items |-> {}]
  /\ work = [w \in Workers |-> Idle] /\ calm = TRUE /\ streak = 0
  /\ remote = 1 /\ refs = None /\ head = None /\ look = [p \in Procs |-> Unresolved]

Next ==
  \/ Publish \/ Push
  \/ \E p \in Procs :
       \/ ReadBody(p) \/ Send(p) \/ Offline(p) \/ Unreachable(p) \/ Refused(p) \/ NotModified(p)
       \/ Answer(p) \/ WriteBody(p) \/ WriteTag(p) \/ Leave(p)
       \/ Load(p) \/ Loaded(p) \/ KillLoad(p)
       \/ Resolve(p) \/ Lookup(p) \/ FetchAll(p) \/ NoNetwork(p) \/ LookupAgain(p)
       \/ FetchOne(p) \/ ReadHead(p) \/ EndResolve(p)
  \/ \E w \in Workers :
       \/ Look(w) \/ Mirror(w) \/ Copied(w) \/ Fetch(w) \/ FetchFails(w) \/ Verify(w)
       \/ StartUnpack(w) \/ Unpack(w) \/ UnpackFails(w)
       \/ Submodules(w) \/ SubmodulesFail(w) \/ Remove(w) \/ Removed(w) \/ Place(w) \/ Mark(w)

Spec == Init /\ [][Next]_vars
-----------------------------------------------------------------------------
(* When the server answered, 304 included, what a process goes on with is  *)
(* what the server had then, whatever was killed while it stored an        *)
(* earlier answer (registry.rs cached_get).                                *)
IndexCurrent ==
  \A p \in Procs : ask[p].pc = "done" /\ ask[p].asOf # None => ask[p].cached = ask[p].asOf

(* A package that is loaded, or would be by the next process, has all of   *)
(* its files ("Extract name@version if it isn't already", registry.rs      *)
(* ensure; git.rs checkout).                                               *)
SourcesWhole ==
  /\ \A i \in Items : Ok \in dir[i] => Parts \subseteq dir[i]
  /\ \A w \in Workers : At(w, "done") => Parts \subseteq dir[Item(w)]

(* Whatever a kill or a failure left of archives, staging directories and  *)
(* packages, a process that has the home and a working network to itself   *)
(* fails at most once because of it.  What git leaves of a mirror when it  *)
(* is killed is git's: db() takes one that has a HEAD.                     *)
FailsOnce == streak <= 1

(* A branch resolves to what the server had since the process asked, and a *)
(* revision to itself (git.rs resolve).                                    *)
ResolvedRight ==
  \A p \in Procs : look[p].pc = "done" =>
    IF look[p].ref # "branch" THEN look[p].got = look[p].ref
    ELSE look[p].off \/ look[p].got >= look[p].since
=============================================================================
