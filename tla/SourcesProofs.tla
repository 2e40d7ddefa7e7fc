--------------------------- MODULE SourcesProofs ---------------------------
(***************************************************************************)
(* Theorems about Sources, for any number of processes and threads, any    *)
(* packages and revisions, and however often anything fails or is killed.  *)
(***************************************************************************)
EXTENDS Sources, TLAPS

-----------------------------------------------------------------------------
(* The three parts leave one another alone. *)

IndexStep ==
  \/ Publish
  \/ \E p \in Procs :
       \/ ReadBody(p) \/ Send(p) \/ Offline(p) \/ Unreachable(p) \/ Refused(p) \/ NotModified(p)
       \/ Answer(p) \/ WriteBody(p) \/ WriteTag(p) \/ Leave(p)
TreeStep ==
  \/ \E p \in Procs : Load(p) \/ Loaded(p) \/ KillLoad(p)
  \/ \E w \in Workers :
       \/ Look(w) \/ Mirror(w) \/ Copied(w) \/ Fetch(w) \/ FetchFails(w) \/ Verify(w)
       \/ StartUnpack(w) \/ Unpack(w) \/ UnpackFails(w)
       \/ Submodules(w) \/ SubmodulesFail(w) \/ Remove(w) \/ Removed(w) \/ Place(w) \/ Mark(w)
GitStep ==
  \/ Push
  \/ \E p \in Procs :
       \/ Resolve(p) \/ Lookup(p) \/ FetchAll(p) \/ NoNetwork(p) \/ LookupAgain(p)
       \/ FetchOne(p) \/ ReadHead(p) \/ EndResolve(p)

LEMMA PartsOfNext ==
  ASSUME [Next]_vars
  PROVE  IndexStep \/ TreeStep \/ GitStep \/ UNCHANGED vars
BY DEF Next, IndexStep, TreeStep, GitStep

LEMMA IndexFrame == ASSUME IndexStep PROVE UNCHANGED <<rules, trees, objs, git>>
BY DEF IndexStep, Publish, ReadBody, Send, Offline, Unreachable, Refused, NotModified, Answer, WriteBody,
       WriteTag, Leave, trees, git

LEMMA TreeFrame == ASSUME TreeStep PROVE UNCHANGED <<rules, index, git>>
BY DEF TreeStep, Load, Loaded, KillLoad, Look, Mirror, Copied, Fetch, FetchFails, Verify, StartUnpack,
       Unpack, UnpackFails, Submodules, SubmodulesFail, Remove, Removed, Place, Mark, index, git

LEMMA GitFrame == ASSUME GitStep PROVE UNCHANGED <<rules, index, trees>>
BY DEF GitStep, Push, Resolve, Lookup, FetchAll, NoNetwork, LookupAgain, FetchOne, ReadHead, EndResolve,
       index, trees

-----------------------------------------------------------------------------
(* The index. *)

\* One process after the other refreshes an entry.
IndexInTurn == \A r \in Rules : r.part = "index" => ~r.crowd

Versions == Nat \cup {None}
Site     == [v : Nat, tag : Versions]
Asking   == [pc : {"send", "sent", "body", "etag", "done", "failed"}, off : BOOLEAN,
             cached : Versions, tag : Versions \cup {Torn}, got : Site, asOf : Versions]
Active(p) == ask[p].pc \notin {"idle", "done", "failed"}

\* An etag is never newer than the body it lies beside, and what a process holds
\* is no newer than the server's.
TagNotNewer == etag \in Nat => body \in Nat /\ etag <= body
AskSound(p) ==
  /\ ask[p].pc \in {"send", "sent"} => ask[p].cached = body /\ ask[p].asOf = None
  /\ ask[p].pc = "sent" => ask[p].tag \in {None, etag}
  /\ ask[p].pc \in {"body", "etag"} =>
       /\ ask[p].got.v <= site.v /\ ask[p].got.tag \in {None, ask[p].got.v}
       /\ ask[p].cached = ask[p].got.v /\ ask[p].asOf = ask[p].got.v
       /\ body \in Nat => body <= ask[p].got.v
  /\ ask[p].pc = "etag" => body = ask[p].got.v
  /\ ask[p].pc = "done" /\ ask[p].asOf # None => ask[p].cached = ask[p].asOf
IndexInv ==
  /\ rules \in Rules
  /\ site \in Site /\ site.tag \in {None, site.v}
  /\ body \in Versions /\ (body \in Nat => body <= site.v)
  /\ etag \in Versions \cup {Torn}
  /\ TagNotNewer
  /\ ask \in [Procs -> Asking \cup {Unasked}]
  /\ \A p \in Procs : ask[p].pc # "idle" => ask[p] \in Asking
  /\ \A p, q \in Procs : Active(p) /\ Active(q) => p = q
  /\ \A p \in Procs : AskSound(p)
  /\ \A p \in Procs : Active(p) => rules.part = "index"

LEMMA InitIndex == Init => IndexInv
BY SourcesAssumption DEF Init, IndexInv, Site, Versions, TagNotNewer, AskSound, Unasked, Active

\* What the other parts do is nothing to the index.
LEMMA IndexKept ==
  ASSUME IndexInv, UNCHANGED <<rules, index>>
  PROVE  IndexInv'
BY DEF IndexInv, index, TagNotNewer, AskSound, Active

\* A step of one process, while the others are at rest.
LEMMA AskMoves ==
  ASSUME IndexInv, NEW p \in Procs, UNCHANGED rules, site' = site,
         NEW a \in Asking \cup {Unasked}, ask' = [ask EXCEPT ![p] = a],
         a.pc # "idle" => a \in Asking,
         a.pc \notin {"idle", "done", "failed"} =>
           rules.part = "index" /\ \A q \in Procs \ {p} : ~Active(q),
         (body' = body /\ etag' = etag) \/ Active(p),
         body' \in Versions, body' \in Nat => body' <= site.v,
         etag' \in Versions \cup {Torn}, TagNotNewer', AskSound(p)'
  PROVE  IndexInv'
<1>1. ask' \in [Procs -> Asking \cup {Unasked}]
  BY DEF IndexInv
<1>2. \A q \in Procs \ {p} : ask'[q] = ask[q]
  BY DEF IndexInv
<1>3. ask'[p] = a
  BY DEF IndexInv
<1>4. \A q \in Procs \ {p} : AskSound(q)'
  <2> SUFFICES ASSUME NEW q \in Procs \ {p} PROVE AskSound(q)'
    OBVIOUS
  <2>1. AskSound(q)
    BY DEF IndexInv
  <2>2. CASE body' = body /\ etag' = etag
    BY <1>2, <2>1, <2>2 DEF AskSound
  <2>3. CASE Active(p)
    <3>1. ~Active(q)
      BY <2>3 DEF IndexInv
    <3> QED
      BY <1>2, <2>1, <3>1 DEF AskSound, Active, IndexInv, Asking, Unasked
  <2> QED
    BY <2>2, <2>3
<1>5. \A q, r \in Procs : Active(q)' /\ Active(r)' => q = r
  BY <1>2, <1>3 DEF IndexInv, Active
<1>6. \A q \in Procs : Active(q)' => rules'.part = "index"
  BY <1>2, <1>3 DEF IndexInv, Active
<1>7. \A q \in Procs : ask'[q].pc # "idle" => ask'[q] \in Asking
  BY <1>2, <1>3 DEF IndexInv
<1> QED
  BY <1>1, <1>4, <1>5, <1>6, <1>7 DEF IndexInv

LEMMA IndexStepKeeps ==
  ASSUME IndexInTurn, IndexInv, IndexStep
  PROVE  IndexInv'
<1> USE SourcesAssumption
<1>0. /\ UNCHANGED rules /\ rules \in Rules
      /\ rules.part = "index" => ~rules.crowd
      /\ \A p \in Procs : ask[p].pc = "idle" => ask[p] = Unasked
      /\ \A p \in Procs : AskSound(p)
  BY IndexFrame DEF IndexInTurn, IndexInv, Unasked, Asking
<1>1. CASE Publish
  <2>1. PICK tag \in {site.v + 1, None} : site' = [v |-> site.v + 1, tag |-> tag]
    BY <1>1 DEF Publish
  <2>2. UNCHANGED <<body, etag, ask>>
    BY <1>1 DEF Publish
  <2>3. site' \in Site /\ site.v \in Nat /\ site'.v = site.v + 1 /\ site'.tag \in {None, site'.v}
    BY <2>1 DEF IndexInv, Site, Versions
  <2>4. body' \in Nat => body' <= site'.v
    BY <2>2, <2>3 DEF IndexInv
  <2>5. ASSUME NEW p \in Procs PROVE AskSound(p)'
    <3>1. ask[p].pc \in {"body", "etag"} => ask[p] \in Asking /\ ask[p].got.v \in Nat
      BY DEF IndexInv, Asking, Site
    <3>2. ask[p].pc \in {"body", "etag"} => ask[p].got.v <= site'.v
      BY <1>0, <2>3, <3>1 DEF AskSound
    <3> QED
      BY <1>0, <2>2, <3>2 DEF AskSound
  <2> QED
    BY <1>0, <2>2, <2>3, <2>4, <2>5 DEF IndexInv, TagNotNewer, Active
<1>2. ASSUME NEW p \in Procs, ReadBody(p) PROVE IndexInv'
  <2>1. PICK off \in BOOLEAN : ask' = [ask EXCEPT ![p] =
         [pc |-> "send", off |-> off, cached |-> body, tag |-> None, got |-> site, asOf |-> None]]
    BY <1>2 DEF ReadBody
  <2> DEFINE a == [pc |-> "send", off |-> off, cached |-> body, tag |-> None, got |-> site, asOf |-> None]
  <2>2. a \in Asking /\ a.pc = "send" /\ a.cached = body /\ a.asOf = None
    BY DEF Asking, IndexInv, Versions
  <2>3. UNCHANGED <<site, body, etag>> /\ ask'[p] = a
    BY <1>2, <2>1 DEF ReadBody, IndexInv
  <2>4. rules.part = "index" /\ \A q \in Procs \ {p} : ~Active(q)
    BY <1>0, <1>2 DEF ReadBody, Alone, Active
  <2>5. AskSound(p)'
    <3> HIDE DEF a
    <3> QED
      BY <2>2, <2>3 DEF AskSound
  <2>6. ask' = [ask EXCEPT ![p] = a]
    BY <2>1
  <2> HIDE DEF a
  <2> QED
    BY <1>0, <2>2, <2>3, <2>4, <2>5, <2>6, AskMoves DEF IndexInv, TagNotNewer
<1>3. ASSUME NEW p \in Procs, Send(p) \/ Offline(p) \/ Unreachable(p) \/ Refused(p) \/ NotModified(p)
                               \/ Answer(p)
      PROVE  IndexInv'
  <2>1. /\ UNCHANGED <<site, body, etag>> /\ Active(p) /\ ask[p] \in Asking
        /\ site \in Site /\ site.v \in Nat /\ body \in Versions /\ etag \in Versions \cup {Torn}
    BY <1>3 DEF Send, Offline, Unreachable, Refused, NotModified, Answer, Active, IndexInv, Site
  <2>2. rules.part = "index" /\ \A q \in Procs \ {p} : ~Active(q)
    BY <2>1 DEF IndexInv
  <2>3. PICK a \in Asking : /\ ask' = [ask EXCEPT ![p] = a] /\ a.off = ask[p].off
          /\ \/ /\ ask[p].pc = "send" /\ a.pc = "sent" /\ a.cached = ask[p].cached /\ a.asOf = ask[p].asOf
                /\ a.tag \in {None, etag}
             \/ /\ ask[p].pc \in {"send", "sent"} /\ a.pc \in {"done", "failed"} /\ a.asOf = ask[p].asOf
             \/ /\ ask[p].pc = "sent" /\ a.pc = "done" /\ a.cached = ask[p].cached /\ a.asOf = site.v
                /\ site.tag # None /\ ask[p].tag = site.tag
             \/ /\ ask[p].pc = "sent" /\ a.pc = "body" /\ a.cached = site.v /\ a.asOf = site.v
                /\ a.got = site
    <3>1. CASE Send(p)
      <4> DEFINE a == [ask[p] EXCEPT !.pc = "sent", !.tag = IF ask[p].cached = None THEN None ELSE etag]
      <4>1. a \in Asking /\ ask' = [ask EXCEPT ![p] = a]
        BY <2>1, <3>1 DEF Send, Asking, Versions, IndexInv
      <4> QED
        BY <2>1, <3>1, <4>1 DEF Send, Asking
    <3>2. CASE Offline(p) \/ Unreachable(p)
      <4> DEFINE a == [ask[p] EXCEPT !.pc = IF ask[p].cached = None THEN "failed" ELSE "done"]
      <4>1. a \in Asking /\ ask' = [ask EXCEPT ![p] = a]
        BY <2>1, <3>2 DEF Offline, Unreachable, Asking, IndexInv
      <4> QED
        BY <2>1, <3>2, <4>1 DEF Offline, Unreachable, Asking
    <3>5. CASE Refused(p)
      <4> DEFINE a == [ask[p] EXCEPT !.pc = "failed"]
      <4>1. a \in Asking /\ ask' = [ask EXCEPT ![p] = a]
        BY <2>1, <3>5 DEF Refused, Asking, IndexInv
      <4> QED
        BY <2>1, <3>5, <4>1 DEF Refused, Asking
    <3>3. CASE NotModified(p)
      <4> DEFINE a == [ask[p] EXCEPT !.pc = "done", !.asOf = site.v]
      <4>1. a \in Asking /\ ask' = [ask EXCEPT ![p] = a]
        BY <2>1, <3>3 DEF NotModified, Asking, IndexInv, Versions
      <4> QED
        BY <2>1, <3>3, <4>1 DEF NotModified, Asking
    <3>4. CASE Answer(p)
      <4> DEFINE a == [ask[p] EXCEPT !.pc = "body", !.cached = site.v, !.got = site, !.asOf = site.v]
      <4>1. a \in Asking /\ ask' = [ask EXCEPT ![p] = a]
        BY <2>1, <3>4 DEF Answer, Asking, IndexInv, Versions, Writes
      <4> QED
        BY <2>1, <3>4, <4>1 DEF Answer, Asking
    <3> QED
      BY <1>3, <3>1, <3>2, <3>3, <3>4, <3>5
  <2>4. ask'[p] = a
    BY <2>3 DEF IndexInv
  <2>5. AskSound(p)'
    <3>1. AskSound(p) /\ site.tag \in {None, site.v}
      BY <1>0 DEF IndexInv
    <3>2. CASE ask[p].pc = "sent" /\ ask[p].tag = site.tag /\ site.tag # None
      <4>1. etag = site.v /\ ask[p].cached = body
        BY <3>1, <3>2 DEF AskSound
      <4>2. body = site.v
        BY <2>1, <4>1 DEF IndexInv, TagNotNewer
      <4> QED
        BY <2>1, <2>3, <2>4, <3>1, <3>2, <4>1, <4>2 DEF AskSound, IndexInv
    <3>3. CASE ~(ask[p].pc = "sent" /\ ask[p].tag = site.tag /\ site.tag # None)
      BY <2>1, <2>3, <2>4, <3>1, <3>3 DEF AskSound, IndexInv
    <3> QED
      BY <3>2, <3>3
  <2> QED
    BY <1>0, <2>1, <2>2, <2>3, <2>5, AskMoves DEF IndexInv, TagNotNewer
<1>4. ASSUME NEW p \in Procs, WriteBody(p) \/ WriteTag(p) PROVE IndexInv'
  <2>1. /\ site' = site /\ Active(p) /\ ask[p] \in Asking /\ AskSound(p)
        /\ site \in Site /\ site.v \in Nat /\ ask[p].got \in Site /\ ask[p].got.v \in Nat
        /\ etag \in Versions \cup {Torn} /\ body \in Versions
    BY <1>0, <1>4 DEF WriteBody, WriteTag, Active, IndexInv, Asking, Site
  <2>2. rules.part = "index" /\ \A q \in Procs \ {p} : ~Active(q)
    BY <2>1 DEF IndexInv
  <2>3. CASE WriteBody(p)
    <3> DEFINE a == [ask[p] EXCEPT !.pc = "etag"]
    <3>1. /\ a \in Asking /\ ask' = [ask EXCEPT ![p] = a] /\ a.pc = "etag" /\ a.got = ask[p].got
          /\ a.cached = ask[p].cached /\ a.asOf = ask[p].asOf
      BY <2>1, <2>3 DEF WriteBody, After, Writes, Asking, IndexInv
    <3> HIDE DEF a
    <3>2. body' = ask[p].got.v /\ etag' = etag /\ ask[p].pc = "body" /\ ask'[p] = a
      BY <2>3, <3>1 DEF WriteBody, IndexInv
    <3>3. AskSound(p)'
      BY <2>1, <3>1, <3>2 DEF AskSound
    <3>4. TagNotNewer' /\ body' \in Versions /\ body' <= site'.v
      BY <2>1, <3>2 DEF TagNotNewer, AskSound, IndexInv, Versions
    <3> QED
      BY <1>0, <2>1, <2>2, <3>1, <3>2, <3>3, <3>4, AskMoves
  <2>4. CASE WriteTag(p)
    <3> DEFINE a == [ask[p] EXCEPT !.pc = IF etag' = Torn THEN "etag" ELSE "done"]
    <3>1. /\ a \in Asking /\ ask' = [ask EXCEPT ![p] = a] /\ a.pc \in {"etag", "done"} /\ a.got = ask[p].got
          /\ a.cached = ask[p].cached /\ a.asOf = ask[p].asOf
      BY <2>1, <2>4 DEF WriteTag, After, Writes, Asking, IndexInv
    <3> HIDE DEF a
    <3>2. body' = body /\ etag' \in {Torn, ask[p].got.tag} /\ ask[p].pc = "etag" /\ ask'[p] = a
      BY <2>4, <3>1 DEF WriteTag, IndexInv
    <3>3. AskSound(p)'
      BY <2>1, <3>1, <3>2 DEF AskSound
    <3>4. TagNotNewer' /\ etag' \in Versions \cup {Torn}
      BY <2>1, <3>2 DEF TagNotNewer, AskSound, Site, Versions
    <3> QED
      BY <1>0, <2>1, <2>2, <3>1, <3>2, <3>3, <3>4, AskMoves DEF IndexInv
  <2> QED
    BY <1>4, <2>3, <2>4
<1>5. ASSUME NEW p \in Procs, Leave(p) PROVE IndexInv'
  <2>1. UNCHANGED <<site, body, etag>> /\ ask' = [ask EXCEPT ![p] = Unasked] /\ Unasked.pc = "idle"
    BY <1>5 DEF Leave, Unasked
  <2>2. ask'[p] = Unasked
    BY <2>1 DEF IndexInv
  <2>3. AskSound(p)'
    BY <2>1, <2>2 DEF AskSound
  <2> QED
    BY <1>0, <2>1, <2>3, AskMoves DEF IndexInv, TagNotNewer
<1> QED
  BY <1>1, <1>2, <1>3, <1>4, <1>5 DEF IndexStep

LEMMA NextIndex == ASSUME IndexInTurn, IndexInv, [Next]_vars PROVE IndexInv'
<1>1. CASE UNCHANGED vars
  BY <1>1, IndexKept DEF vars
<1> QED
  BY <1>1, PartsOfNext, IndexStepKeeps, IndexKept, TreeFrame, GitFrame

\* When processes refresh an entry one after the other, a server's answer is never
\* paired with an older body, 304 included, wherever a process was killed: the body
\* is in place before the etag that vouches for it.
THEOREM IndexStaysCurrent == IndexInTurn => (Spec => []IndexCurrent)
<1> SUFFICES ASSUME IndexInTurn PROVE Spec => []IndexCurrent
  OBVIOUS
<1>1. IndexInv /\ [Next]_vars => IndexInv'
  BY NextIndex
<1>2. IndexInv => IndexCurrent
  BY DEF IndexInv, IndexCurrent, AskSound
<1> QED
  BY <1>1, <1>2, InitIndex, PTL DEF Spec

-----------------------------------------------------------------------------
(* References. *)

\* One process after the other resolves a revision; a branch may be asked for by any number.
RevisionsInTurn == \A r \in Rules : r.part = "git" => ~r.crowd \/ r.refs \subseteq {"branch"}

Refs    == UNION {r.refs : r \in Rules}
Known   == Nat \cup {None} \cup Refs
Looking == [pc : {"lookup", "fetch", "again", "one", "head", "done", "failed"}, off : BOOLEAN,
            ref : Refs, since : Nat, got : Known]
Searching(p) == look[p].pc \notin {"idle", "done", "failed"}

\* What the process knows of the branch it asked for, and of the commit it fetched by name.
LookSound(p) ==
  /\ look[p].since <= remote
  /\ look[p].pc = "again" /\ look[p].ref = "branch" => refs \in Nat /\ refs >= look[p].since
  /\ look[p].pc \in {"one", "head"} => look[p].ref # "branch"
  /\ look[p].pc = "head" => head = look[p].ref
  /\ look[p].pc = "done" =>
       IF look[p].ref # "branch" THEN look[p].got = look[p].ref
       ELSE look[p].off \/ (look[p].got \in Nat /\ look[p].got >= look[p].since)
GitInv ==
  /\ rules \in Rules
  /\ remote \in Nat /\ refs \in Nat \cup {None} /\ (refs \in Nat => refs <= remote)
  /\ head \in Known
  /\ look \in [Procs -> Looking \cup {Unresolved}]
  /\ \A p \in Procs : look[p].pc # "idle" =>
       look[p] \in Looking /\ rules.part = "git" /\ look[p].ref \in rules.refs /\ LookSound(p)
  /\ \A p, q \in Procs : Searching(p) /\ Searching(q) => p = q \/ rules.crowd

LEMMA InitGit == Init => GitInv
BY SourcesAssumption DEF Init, GitInv, Known, Unresolved, Searching

LEMMA GitKept ==
  ASSUME GitInv, UNCHANGED <<rules, git>>
  PROVE  GitInv'
BY DEF GitInv, git, LookSound, Searching

\* A step of one process that asks for a reference.
LEMMA LookMoves ==
  ASSUME RevisionsInTurn, GitInv, NEW p \in Procs, UNCHANGED rules, remote' = remote,
         NEW a \in Looking, look' = [look EXCEPT ![p] = a],
         rules.part = "git", a.ref \in rules.refs,
         a.pc \notin {"done", "failed"} => rules.crowd \/ \A q \in Procs \ {p} : ~Searching(q),
         (refs' = refs) \/ refs' = remote, head' \in Known,
         (head' = head) \/ Searching(p), LookSound(p)'
  PROVE  GitInv'
<1>2. \A q \in Procs \ {p} : look'[q] = look[q]
  BY DEF GitInv
<1>3. look'[p] = a /\ look' \in [Procs -> Looking \cup {Unresolved}]
  BY DEF GitInv
<1>4. refs' \in Nat \cup {None} /\ (refs' \in Nat => refs' <= remote') /\ (refs \in Nat => refs' \in Nat /\ refs' >= refs)
  BY DEF GitInv
<1>5. ASSUME NEW q \in Procs \ {p}, look[q].pc # "idle" PROVE LookSound(q)'
  <2>1. LookSound(q) /\ look[q] \in Looking /\ look[q].ref \in rules.refs
    BY <1>5 DEF GitInv
  <2>2. look[q].pc = "head" => head' = look[q].ref
    <3> SUFFICES ASSUME look[q].pc = "head", head' # head PROVE FALSE
      BY <2>1 DEF LookSound
    <3>1. Searching(p) /\ Searching(q)
      BY DEF Searching
    <3>2. rules.crowd
      BY <3>1 DEF GitInv
    <3>3. rules.refs \subseteq {"branch"}
      BY <3>2 DEF RevisionsInTurn, GitInv
    <3> QED
      BY <2>1, <3>3 DEF LookSound
  <2>3. look[q].since \in Nat /\ look[q].since <= remote
    BY <2>1 DEF LookSound, Looking
  <2> QED
    BY <1>2, <1>4, <2>1, <2>2, <2>3 DEF LookSound, GitInv
<1>6. \A q, r \in Procs : Searching(q)' /\ Searching(r)' => q = r \/ rules'.crowd
  BY <1>2, <1>3 DEF GitInv, Searching
<1>7. \A q \in Procs : look'[q].pc # "idle" =>
       look'[q] \in Looking /\ rules'.part = "git" /\ look'[q].ref \in rules'.refs /\ LookSound(q)'
  BY <1>2, <1>3, <1>5 DEF GitInv
<1> QED
  BY <1>3, <1>4, <1>6, <1>7 DEF GitInv

LEMMA GitStepKeeps ==
  ASSUME RevisionsInTurn, GitInv, GitStep
  PROVE  GitInv'
<1> USE SourcesAssumption
<1>0. /\ UNCHANGED rules /\ rules \in Rules /\ remote \in Nat /\ refs \in Nat \cup {None}
      /\ \A p \in Procs : look[p].pc = "idle" => look[p] = Unresolved
      /\ refs \in Nat => refs <= remote
      /\ remote \in Known /\ refs \in Known /\ None \in Known
  BY GitFrame DEF GitInv, Looking, Unresolved, Known
<1>1. CASE Push
  <2>1. remote' = remote + 1 /\ UNCHANGED <<refs, head, look>>
    BY <1>1 DEF Push
  <2>2. ASSUME NEW p \in Procs, look[p].pc # "idle" PROVE LookSound(p)'
    <3>1. LookSound(p) /\ look[p].since \in Nat
      BY <2>2 DEF GitInv, Looking
    <3> QED
      BY <1>0, <2>1, <3>1 DEF LookSound
  <2> QED
    BY <1>0, <2>1, <2>2 DEF GitInv, Searching
<1>2. ASSUME NEW p \in Procs, Resolve(p) PROVE GitInv'
  <2>1. PICK r \in rules.refs, off \in BOOLEAN : look' = [look EXCEPT ![p] =
          [pc |-> "lookup", off |-> off, ref |-> r, since |-> remote, got |-> None]]
    BY <1>2 DEF Resolve
  <2> DEFINE a == [pc |-> "lookup", off |-> off, ref |-> r, since |-> remote, got |-> None]
  <2>2. a \in Looking /\ a.pc = "lookup" /\ a.ref = r /\ a.since = remote
    BY <1>0 DEF Looking, Refs
  <2>3. look' = [look EXCEPT ![p] = a]
    BY <2>1
  <2> HIDE DEF a
  <2>4. UNCHANGED <<remote, refs, head>> /\ look'[p] = a /\ rules.part = "git"
    BY <1>2, <2>3 DEF Resolve, GitInv
  <2>5. rules.crowd \/ \A q \in Procs \ {p} : ~Searching(q)
    BY <1>2 DEF Resolve, Alone, Searching
  <2>6. LookSound(p)'
    BY <1>0, <2>2, <2>4 DEF LookSound
  <2> QED
    BY <1>0, <2>2, <2>3, <2>4, <2>5, <2>6, LookMoves DEF GitInv
<1>3. ASSUME NEW p \in Procs, Lookup(p) \/ FetchAll(p) \/ NoNetwork(p) \/ LookupAgain(p)
                              \/ FetchOne(p) \/ ReadHead(p)
      PROVE  GitInv'
  <2>1. /\ Searching(p) /\ look[p] \in Looking /\ LookSound(p) /\ rules.part = "git"
        /\ look[p].ref \in rules.refs /\ remote' = remote /\ look[p].ref \in Known
        /\ look[p].since \in Nat
    BY <1>3 DEF Lookup, FetchAll, NoNetwork, LookupAgain, FetchOne, ReadHead, GitInv, Searching, Looking, Known
  <2>2. rules.crowd \/ \A q \in Procs \ {p} : ~Searching(q)
    BY <2>1 DEF GitInv
  <2>3. /\ Found(p) \in Known
        /\ look[p].ref # "branch" /\ Found(p) # None => Found(p) = look[p].ref
        /\ look[p].ref = "branch" => Found(p) = refs
    BY <1>0, <2>1 DEF Found
  <2>4. PICK pc \in {"lookup", "fetch", "again", "one", "head", "done", "failed"}, got \in Known :
          /\ look' = [look EXCEPT ![p].pc = pc, ![p].got = got]
          /\ \/ /\ look[p].pc = "lookup" /\ UNCHANGED <<refs, head>>
                /\ pc = "fetch" \/ (pc = "done" /\ got = Found(p) /\ got # None /\ ~Refresh(p))
             \/ /\ look[p].pc = "fetch" /\ pc = "again" /\ refs' = remote /\ head' = remote
             \/ /\ pc = "failed" /\ UNCHANGED <<refs, head>>
             \/ /\ look[p].pc = "again" /\ UNCHANGED <<refs, head>> /\ got = Found(p)
                /\ pc = IF Found(p) = None THEN "one" ELSE "done"
             \/ /\ look[p].pc = "one" /\ pc = "head" /\ refs' = refs /\ head' = look[p].ref
             \/ /\ look[p].pc = "head" /\ pc = "done" /\ got = head /\ UNCHANGED <<refs, head>>
    <3>1. \A pc \in {"again", "head", "failed"} : look' = [look EXCEPT ![p].pc = pc] => look' = [look EXCEPT ![p].pc = pc, ![p].got = look[p].got]
      BY <2>1 DEF Looking, GitInv
    <3>2. look[p].got \in Known /\ head \in Known
      BY <2>1 DEF Looking, GitInv
    <3>3. CASE Lookup(p)
      BY <2>3, <3>3 DEF Lookup
    <3>4. CASE FetchAll(p)
      BY <3>1, <3>2, <3>4 DEF FetchAll
    <3>5. CASE NoNetwork(p)
      BY <3>1, <3>2, <3>5 DEF NoNetwork
    <3>6. CASE LookupAgain(p)
      BY <2>3, <3>6 DEF LookupAgain
    <3>7. CASE FetchOne(p)
      BY <3>1, <3>2, <3>7 DEF FetchOne
    <3>8. CASE ReadHead(p)
      BY <3>2, <3>8 DEF ReadHead
    <3> QED
      BY <1>3, <3>3, <3>4, <3>5, <3>6, <3>7, <3>8
  <2> DEFINE a == [look[p] EXCEPT !.pc = pc, !.got = got]
  <2>5. a \in Looking /\ a.pc = pc /\ a.got = got /\ a.ref = look[p].ref /\ a.since = look[p].since
        /\ a.off = look[p].off
    BY <2>1 DEF Looking
  <2>6. look' = [look EXCEPT ![p] = a] /\ look'[p] = a
    BY <2>4 DEF GitInv
  <2> HIDE DEF a
  <2>7. LookSound(p)'
    BY <1>0, <2>1, <2>3, <2>4, <2>5, <2>6 DEF LookSound, Refresh
  <2>8. /\ (refs' = refs) \/ refs' = remote
        /\ head' \in Known
    BY <1>0, <2>1, <2>4 DEF GitInv
  <2> QED
    BY <1>0, <2>1, <2>2, <2>5, <2>6, <2>7, <2>8, LookMoves
<1>4. ASSUME NEW p \in Procs, EndResolve(p) PROVE GitInv'
  <2>1. look' = [look EXCEPT ![p] = Unresolved] /\ UNCHANGED <<remote, refs, head>> /\ Unresolved.pc = "idle"
    BY <1>4 DEF EndResolve, Unresolved
  <2>2. look'[p] = Unresolved /\ \A q \in Procs \ {p} : look'[q] = look[q]
    BY <2>1 DEF GitInv
  <2>3. \A q \in Procs : look'[q].pc # "idle" => look'[q] = look[q] /\ look[q].pc # "idle"
    BY <2>1, <2>2
  <2>4. \A q \in Procs : look'[q].pc # "idle" => LookSound(q)'
    BY <2>1, <2>3 DEF GitInv, LookSound
  <2> QED
    BY <1>0, <2>1, <2>2, <2>3, <2>4 DEF GitInv, Searching
<1> QED
  BY <1>1, <1>2, <1>3, <1>4 DEF GitStep

LEMMA NextGit == ASSUME RevisionsInTurn, GitInv, [Next]_vars PROVE GitInv'
<1>1. CASE UNCHANGED vars
  BY <1>1, GitKept DEF vars
<1> QED
  BY <1>1, PartsOfNext, GitStepKeeps, GitKept, IndexFrame, TreeFrame

\* A branch resolves to nothing older than what the server had when the process asked,
\* however many ask at once and whatever is pushed meanwhile; a revision resolves to
\* itself when processes do not share FETCH_HEAD.
THEOREM ReferencesRight == RevisionsInTurn => (Spec => []ResolvedRight)
<1> SUFFICES ASSUME RevisionsInTurn PROVE Spec => []ResolvedRight
  OBVIOUS
<1>1. GitInv /\ [Next]_vars => GitInv'
  BY NextGit
<1>2. GitInv => ResolvedRight
  BY DEF GitInv, ResolvedRight, LookSound
<1> QED
  BY <1>1, <1>2, InitGit, PTL DEF Spec

-----------------------------------------------------------------------------
(* Packages. *)

\* One process after the other loads packages, and its threads load different ones.
PackagesInTurn == \A r \in Rules : r.part = "packages" =>
  ~r.crowd /\ \A job \in r.jobs : \A s, t \in Threads : job[s] = job[t] => s = t

Fetching == {"look", "obtain", "copy", "unpack0", "unpack", "nested", "remove", "place", "mark"}
Working  == [pc : Fetching \cup {"done", "failed"}, off : BOOLEAN, item : Items, todo : SUBSET Parts]
Busy(w)  == work[w].pc # "idle"

Exclusive ==
  \A v, w \in Workers : Busy(v) /\ Busy(w) => v[1] = w[1] /\ (Item(v) = Item(w) => v = w)

\* What a thread may rely on where it stands.
WorkSound(w) ==
  LET i == Item(w) IN
  /\ work[w].pc \in Fetching \ {"look"} => Ok \notin dir[i]
  /\ At(w, "copy") => i \in Crates /\ archive[i] = Torn
  /\ work[w].pc \in {"unpack0", "unpack", "remove", "place", "mark"} /\ i \in Crates => archive[i] = Whole
  /\ At(w, "unpack") =>
       Parts \subseteq staging[Staged(w)] \cup work[w].todo \cup (IF HasSubmodules(w) THEN Nested ELSE {})
  /\ At(w, "nested") => HasSubmodules(w) /\ Parts \subseteq staging[Staged(w)] \cup Nested
  /\ work[w].pc \in {"remove", "place"} => Parts \subseteq staging[Staged(w)]
  /\ At(w, "place") => dir[i] = {}
  /\ At(w, "mark") => Parts \subseteq dir[i]
  /\ At(w, "done") => Parts \subseteq dir[i] /\ Ok \in dir[i]
  /\ At(w, "failed") /\ i \in Crates => archive[i] # Torn

TreeTypes ==
  /\ rules \in Rules
  /\ archive \in [Crates -> {None, Torn, Whole}]
  /\ dir \in [Items -> SUBSET (Parts \cup {Ok})]
  /\ staging \in [Procs \X Items -> SUBSET Parts]
  /\ work \in [Workers -> Working \cup {Idle}]
  /\ calm \in BOOLEAN
TreeInv ==
  /\ TreeTypes
  /\ \A w \in Workers : Busy(w) => work[w] \in Working /\ rules.part = "packages"
  /\ Exclusive
  /\ \A i \in Items : Ok \in dir[i] => Parts \subseteq dir[i]
  /\ \A c \in Crates : Ok \in dir[c] => archive[c] # Torn
  /\ \A w \in Workers : Busy(w) => WorkSound(w)

LEMMA InitTree == Init => TreeInv
<1> SUFFICES ASSUME Init PROVE TreeInv
  OBVIOUS
<1>1. \A w \in Workers : ~Busy(w)
  BY DEF Init, Busy, Idle
<1>2. TreeTypes
  BY SourcesAssumption DEF Init, TreeTypes
<1> QED
  BY <1>1, <1>2, SourcesAssumption DEF Init, TreeInv, Exclusive, Items

LEMMA TreeKept ==
  ASSUME TreeInv, UNCHANGED <<rules, trees>>
  PROVE  TreeInv'
<1>1. UNCHANGED <<rules, archive, dir, staging, work, calm>>
  BY DEF trees
<1>2. \A w \in Workers : Busy(w)' <=> Busy(w)
  BY <1>1 DEF Busy
<1>3. \A w \in Workers : WorkSound(w) => WorkSound(w)'
  BY <1>1 DEF WorkSound, At, Item, Staged, HasSubmodules
<1> QED
  BY <1>1, <1>2, <1>3 DEF TreeInv, TreeTypes, Exclusive, Item

\* The step of one thread, which touches only its own package.
LEMMA WorkerMoves ==
  ASSUME TreeInv, NEW w \in Workers, Busy(w), UNCHANGED rules,
         NEW a \in Working, work' = [work EXCEPT ![w] = a], a.item = Item(w),
         calm' \in BOOLEAN,
         NEW arch \in {None, Torn, Whole},
         archive' = IF Item(w) \in Crates THEN [archive EXCEPT ![Item(w)] = arch] ELSE archive,
         NEW d \in SUBSET (Parts \cup {Ok}), dir' = [dir EXCEPT ![Item(w)] = d],
         NEW st \in SUBSET Parts, staging' = [staging EXCEPT ![Staged(w)] = st],
         Ok \in d => Parts \subseteq d /\ (Item(w) \in Crates => arch # Torn),
         WorkSound(w)'
  PROVE  TreeInv'
<1> DEFINE i == Item(w)
<1>0. /\ work[w] \in Working /\ i \in Items /\ w \in Procs \X Threads /\ Staged(w) = <<w[1], i>>
      /\ archive \in [Crates -> {None, Torn, Whole}] /\ dir \in [Items -> SUBSET (Parts \cup {Ok})]
      /\ staging \in [Procs \X Items -> SUBSET Parts] /\ work \in [Workers -> Working \cup {Idle}]
      /\ Staged(w) \in Procs \X Items
  BY DEF TreeInv, TreeTypes, Working, Item, Staged, Workers
<1>1. /\ work'[w] = a /\ \A v \in Workers \ {w} : work'[v] = work[v]
      /\ a.pc # "idle"
  BY <1>0 DEF Working, Fetching
<1>2. \A v \in Workers : (Busy(v)' <=> Busy(v)) /\ Item(v)' = Item(v)
  BY <1>1 DEF Busy, Item
<1>3. TreeTypes'
  BY <1>0 DEF TreeInv, TreeTypes
<1>4. \A j \in Items : Ok \in dir'[j] => Parts \subseteq dir'[j]
  BY <1>0 DEF TreeInv
<1>5. \A c \in Crates : Ok \in dir'[c] => archive'[c] # Torn
  <2> SUFFICES ASSUME NEW c \in Crates, Ok \in dir'[c] PROVE archive'[c] # Torn
    OBVIOUS
  <2>1. c \in Items /\ (Ok \in dir[c] => archive[c] # Torn)
    BY DEF Items, TreeInv
  <2>2. CASE c = i
    BY <1>0, <2>1, <2>2
  <2>3. CASE c # i
    <3>1. dir'[c] = dir[c] /\ archive'[c] = archive[c]
      BY <1>0, <2>1, <2>3
    <3> QED
      BY <2>1, <3>1
  <2> QED
    BY <2>2, <2>3
<1>6. ASSUME NEW v \in Workers \ {w}, Busy(v) PROVE WorkSound(v)'
  <2>1. Item(v) # i /\ Item(v) \in Items /\ WorkSound(v) /\ Staged(v) # Staged(w) /\ Staged(v) \in Procs \X Items
    BY <1>0, <1>6 DEF TreeInv, Exclusive, Staged, Workers, Working, Item
  <2>2. dir'[Item(v)] = dir[Item(v)] /\ staging'[Staged(v)] = staging[Staged(v)]
        /\ (Item(v) \in Crates => archive'[Item(v)] = archive[Item(v)])
    BY <1>0, <2>1
  <2>3. work'[v] = work[v] /\ Item(v)' = Item(v) /\ Staged(v)' = Staged(v)
        /\ (HasSubmodules(v)' <=> HasSubmodules(v))
    BY <1>1, <1>2 DEF Staged, HasSubmodules
  <2> QED
    BY <2>1, <2>2, <2>3 DEF WorkSound, At
<1>7. \A v \in Workers : Busy(v)' => work'[v] \in Working /\ rules'.part = "packages"
  BY <1>0, <1>1 DEF Busy, TreeInv
<1>8. Exclusive'
  BY <1>2 DEF Exclusive, TreeInv
<1> QED
  BY <1>2, <1>3, <1>4, <1>5, <1>6, <1>7, <1>8 DEF TreeInv

\* A step that changes nothing but where the thread stands.
LEMMA WorkerThinks ==
  ASSUME TreeInv, NEW w \in Workers, Busy(w), NEW pc \in Fetching \cup {"done", "failed"},
         Go(w, pc), UNCHANGED <<rules, archive, dir, staging>>, calm' \in BOOLEAN,
         WorkSound(w)'
  PROVE  TreeInv'
<1> DEFINE a == [work[w] EXCEPT !.pc = pc]
           arch == IF Item(w) \in Crates THEN archive[Item(w)] ELSE None
<1>1. work[w] \in Working /\ Item(w) \in Items /\ Staged(w) \in Procs \X Items /\ TreeTypes
      /\ work \in [Workers -> Working \cup {Idle}]
  BY DEF TreeInv, TreeTypes, Working, Item, Staged, Workers
<1>2. a \in Working /\ a.item = Item(w) /\ work' = [work EXCEPT ![w] = a]
  BY <1>1 DEF Working, Item, Go
<1>3. arch \in {None, Torn, Whole}
      /\ archive' = IF Item(w) \in Crates THEN [archive EXCEPT ![Item(w)] = arch] ELSE archive
  BY <1>1 DEF TreeTypes
<1>4. dir[Item(w)] \in SUBSET (Parts \cup {Ok}) /\ dir' = [dir EXCEPT ![Item(w)] = dir[Item(w)]]
      /\ staging[Staged(w)] \in SUBSET Parts /\ staging' = [staging EXCEPT ![Staged(w)] = staging[Staged(w)]]
  BY <1>1 DEF TreeTypes
<1>5. Ok \in dir[Item(w)] => Parts \subseteq dir[Item(w)] /\ (Item(w) \in Crates => arch # Torn)
  BY <1>1 DEF TreeInv
<1> HIDE DEF a, arch
<1> QED
  BY <1>2, <1>3, <1>4, <1>5, WorkerMoves

LEMMA WorkerStepKeeps ==
  ASSUME PackagesInTurn, TreeInv, NEW w \in Workers,
         \/ Look(w) \/ Mirror(w) \/ Copied(w) \/ Fetch(w) \/ FetchFails(w) \/ Verify(w)
         \/ StartUnpack(w) \/ Unpack(w) \/ UnpackFails(w)
         \/ Submodules(w) \/ SubmodulesFail(w) \/ Remove(w) \/ Removed(w) \/ Place(w) \/ Mark(w)
  PROVE  TreeInv'
<1> USE SourcesAssumption
<1> DEFINE i == Item(w)
<1>0. UNCHANGED rules /\ Busy(w)
  <2>1. TreeStep
    BY DEF TreeStep
  <2>2. UNCHANGED rules
    BY <2>1, TreeFrame
  <2>3. Busy(w)
    BY DEF Look, Mirror, Copied, Fetch, FetchFails, Verify, StartUnpack, Unpack, UnpackFails,
           Submodules, SubmodulesFail, Remove, Removed, Place, Mark, At, Busy
  <2> QED
    BY <2>2, <2>3
<1>1. /\ TreeTypes /\ work[w] \in Working /\ i \in Items /\ Staged(w) \in Procs \X Items /\ WorkSound(w)
      /\ work \in [Workers -> Working \cup {Idle}] /\ dir[i] \in SUBSET (Parts \cup {Ok})
      /\ staging[Staged(w)] \in SUBSET Parts /\ (i \in Crates => archive[i] \in {None, Torn, Whole})
      /\ archive \in [Crates -> {None, Torn, Whole}] /\ dir \in [Items -> SUBSET (Parts \cup {Ok})]
      /\ staging \in [Procs \X Items -> SUBSET Parts] /\ calm \in BOOLEAN
  BY <1>0 DEF TreeInv, TreeTypes, Working, Item, Staged, Workers
<1>2. Ok \in dir[i] => Parts \subseteq dir[i] /\ (i \in Crates => archive[i] # Torn)
  BY <1>1 DEF TreeInv
<1>3. ASSUME NEW pc \in Fetching \cup {"done", "failed"}, Go(w, pc)
      PROVE  /\ work'[w].pc = pc /\ work'[w].todo = work[w].todo /\ Item(w)' = i /\ Staged(w)' = Staged(w)
             /\ (HasSubmodules(w)' <=> HasSubmodules(w))
  BY <1>0, <1>1, <1>3 DEF Go, Item, Staged, HasSubmodules, Working
\* Where nothing but the place of the thread changes.
<1>4. CASE Look(w)
  <2>1. PICK pc \in {"done", "obtain"} : Go(w, pc) /\ (pc = "done" <=> Ok \in dir[i])
    BY <1>4 DEF Look, Present
  <2>2. UNCHANGED <<archive, dir, staging, calm>>
    BY <1>4 DEF Look
  <2>3. WorkSound(w)'
    BY <1>1, <1>2, <1>3, <2>1, <2>2 DEF WorkSound, At, Fetching
  <2> QED
    BY <1>0, <1>1, <2>1, <2>2, <2>3, WorkerThinks DEF Fetching
<1>5. CASE FetchFails(w) \/ UnpackFails(w) \/ SubmodulesFail(w)
  <2>1. Go(w, "failed") /\ UNCHANGED <<archive, dir, staging>> /\ calm' = FALSE
    BY <1>5 DEF FetchFails, UnpackFails, SubmodulesFail, OnError
  <2>2. i \in Crates => archive[i] # Torn
    BY <1>1, <1>5 DEF FetchFails, UnpackFails, SubmodulesFail, Missing, WorkSound, At, HasSubmodules
  <2>3. WorkSound(w)'
    BY <1>1, <1>3, <2>1, <2>2 DEF WorkSound, At, Fetching
  <2> QED
    BY <1>0, <2>1, <2>3, WorkerThinks
<1>6. CASE Removed(w)
  <2>1. Go(w, "place") /\ dir[i] = {} /\ UNCHANGED <<archive, dir, staging, calm>> /\ At(w, "remove")
    BY <1>1, <1>6 DEF Removed, WorkSound, At
  <2>2. WorkSound(w)'
    BY <1>1, <1>3, <2>1 DEF WorkSound, At, Fetching
  <2> QED
    BY <1>0, <1>1, <2>1, <2>2, WorkerThinks DEF Fetching
\* The archive.
<1>7. ASSUME NEW pc \in Fetching \cup {"done", "failed"}, Go(w, pc), NEW arch \in {None, Torn, Whole},
             UNCHANGED <<dir, staging, calm>>,
             archive' = IF i \in Crates THEN [archive EXCEPT ![i] = arch] ELSE archive,
             At(w, "obtain") \/ At(w, "copy"),
             \/ pc = "copy" /\ arch = Torn /\ i \in Crates
             \/ pc = "unpack0" /\ arch = Whole
             \/ pc = "failed" /\ arch = None
      PROVE  TreeInv'
  <2> DEFINE a == [work[w] EXCEPT !.pc = pc]
  <2>1. a \in Working /\ a.item = i /\ work' = [work EXCEPT ![w] = a]
    BY <1>1, <1>7 DEF Working, Item, Go
  <2> DEFINE d == dir[i]
             st == staging[Staged(w)]
  <2>2. Ok \notin d /\ (i \in Crates => archive'[i] = arch) /\ d \in SUBSET (Parts \cup {Ok})
        /\ dir' = [dir EXCEPT ![i] = d] /\ st \in SUBSET Parts
        /\ staging' = [staging EXCEPT ![Staged(w)] = st]
    BY <1>1, <1>7 DEF WorkSound, At, Fetching
  <2>3. WorkSound(w)'
    BY <1>1, <1>3, <1>7, <2>2 DEF WorkSound, At, Fetching
  <2> HIDE DEF a, d, st
  <2>4. archive' = IF Item(w) \in Crates THEN [archive EXCEPT ![Item(w)] = arch] ELSE archive
    BY <1>7
  <2> QED
    BY <1>0, <1>1, <1>7, <2>1, <2>2, <2>3, <2>4, WorkerMoves
<1>8. CASE Mirror(w) \/ Copied(w) \/ Fetch(w) \/ Verify(w)
  <2>1. i \notin Crates => archive = IF i \in Crates THEN [archive EXCEPT ![i] = Whole] ELSE archive
    OBVIOUS
  <2>2. CASE Mirror(w)
    BY <1>7, <2>2 DEF Mirror, Fetching
  <2>3. CASE Copied(w)
    <3>1. i \in Crates /\ archive[i] # None
      BY <1>1, <2>3 DEF Copied, WorkSound, At
    <3>2. archive' = [archive EXCEPT ![i] = Whole]
      BY <1>1, <2>3, <3>1 DEF Copied
    <3> QED
      BY <1>7, <2>3, <3>1, <3>2 DEF Copied, Fetching
  <2>4. CASE Fetch(w)
    <3>1. i \in Crates => i \notin Commits
      OBVIOUS
    <3> QED
      BY <1>7, <2>1, <2>4, <3>1 DEF Fetch, Fetching
  <2>5. CASE Verify(w)
    <3>1. CASE i \in Crates
      <4>1. archive' = [archive EXCEPT ![i] = IF archive[i] = Whole THEN Whole ELSE None]
        BY <1>1, <2>5, <3>1 DEF Verify, Dropped
      <4> QED
        BY <1>7, <2>5, <3>1, <4>1 DEF Verify, Fetching
    <3>2. CASE i \notin Crates
      BY <1>7, <2>1, <2>5, <3>2 DEF Verify, Fetching
    <3> QED
      BY <3>1, <3>2
  <2> QED
    BY <1>8, <2>2, <2>3, <2>4, <2>5
\* The directories.
<1>9. ASSUME NEW a \in Working, work' = [work EXCEPT ![w] = a], a.item = i,
             NEW d \in SUBSET (Parts \cup {Ok}), dir' = [dir EXCEPT ![i] = d],
             NEW st \in SUBSET Parts, staging' = [staging EXCEPT ![Staged(w)] = st],
             UNCHANGED <<archive, calm>>, Ok \in d => Parts \subseteq d /\ (i \in Crates => archive[i] # Torn),
             WorkSound(w)'
      PROVE  TreeInv'
  <2> DEFINE arch == IF i \in Crates THEN archive[i] ELSE None
  <2>1. arch \in {None, Torn, Whole} /\ (i \in Crates => arch = archive[i])
        /\ archive' = IF Item(w) \in Crates THEN [archive EXCEPT ![Item(w)] = arch] ELSE archive
    BY <1>1, <1>9
  <2> HIDE DEF arch
  <2> QED
    BY <1>0, <1>1, <1>9, <2>1, WorkerMoves
<1>10. ASSUME NEW a \in Working, work' = [work EXCEPT ![w] = a], a.item = i
       PROVE  work'[w] = a /\ Item(w)' = i /\ Staged(w)' = Staged(w)
              /\ (HasSubmodules(w)' <=> HasSubmodules(w))
  BY <1>0, <1>1, <1>10 DEF Item, Staged, HasSubmodules
<1>11. CASE StartUnpack(w)
  <2>1. i \in Crates => archive[i] = Whole
    BY <1>1, <1>11 DEF StartUnpack, WorkSound, At
  <2>2. UNCHANGED <<archive, dir, calm>> /\ staging' = [staging EXCEPT ![Staged(w)] = {}] /\ At(w, "unpack0")
    BY <1>11, <2>1 DEF StartUnpack
  <2> DEFINE a == [work[w] EXCEPT !.pc = "unpack", !.todo = IF HasSubmodules(w) THEN Parts \ Nested ELSE Parts]
  <2>3. a \in Working /\ a.item = i /\ work' = [work EXCEPT ![w] = a] /\ a.pc = "unpack"
        /\ a.todo = IF HasSubmodules(w) THEN Parts \ Nested ELSE Parts
    BY <1>1, <1>11, <2>1 DEF StartUnpack, Working, Fetching, Item
  <2>4. dir' = [dir EXCEPT ![i] = dir[i]] /\ Ok \notin dir[i]
    BY <1>1, <2>2 DEF WorkSound, At, Fetching
  <2> HIDE DEF a
  <2>5. WorkSound(w)'
    BY <1>1, <1>10, <2>1, <2>2, <2>3, <2>4 DEF WorkSound, At, Fetching
  <2> QED
    BY <1>1, <1>9, <2>2, <2>3, <2>4, <2>5
<1>12. CASE Unpack(w)
  <2>1. PICK x \in work[w].todo :
          /\ staging' = [staging EXCEPT ![Staged(w)] = @ \cup {x}]
          /\ work' = [work EXCEPT ![w].todo = @ \ {x},
                                 ![w].pc = IF work[w].todo # {x} THEN @
                                           ELSE IF HasSubmodules(w) THEN "nested" ELSE "remove"]
    BY <1>12 DEF Unpack
  <2>2. UNCHANGED <<archive, dir, calm>> /\ At(w, "unpack") /\ x \in Parts
    BY <1>1, <1>12 DEF Unpack, Working
  <2> DEFINE a == [work[w] EXCEPT !.todo = @ \ {x}, !.pc = IF work[w].todo # {x} THEN @
                                           ELSE IF HasSubmodules(w) THEN "nested" ELSE "remove"]
             st == staging[Staged(w)] \cup {x}
  <2>3. a \in Working /\ a.item = i /\ work' = [work EXCEPT ![w] = a] /\ a.todo = work[w].todo \ {x}
        /\ \/ a.pc = "unpack"
           \/ a.pc = "nested" /\ HasSubmodules(w) /\ work[w].todo = {x}
           \/ a.pc = "remove" /\ ~HasSubmodules(w) /\ work[w].todo = {x}
    BY <1>1, <2>1, <2>2 DEF Working, Fetching, Item, At
  <2>4. dir' = [dir EXCEPT ![i] = dir[i]] /\ Ok \notin dir[i] /\ st \in SUBSET Parts
        /\ staging' = [staging EXCEPT ![Staged(w)] = st] /\ staging'[Staged(w)] = st
    BY <1>1, <2>1, <2>2 DEF WorkSound, At, Fetching
  <2>5. Parts \subseteq st \cup (work[w].todo \ {x}) \cup (IF HasSubmodules(w) THEN Nested ELSE {})
        /\ (i \in Crates => archive[i] = Whole)
    BY <1>1, <2>2 DEF WorkSound, At
  <2> HIDE DEF a, st
  <2>6. WorkSound(w)'
    BY <1>10, <2>2, <2>3, <2>4, <2>5 DEF WorkSound, At, Fetching
  <2> QED
    BY <1>1, <1>9, <2>2, <2>3, <2>4, <2>6
<1>13. CASE Submodules(w)
  <2> DEFINE a == [work[w] EXCEPT !.pc = "remove"]
             st == staging[Staged(w)] \cup Nested
  <2>1. UNCHANGED <<archive, dir, calm>> /\ At(w, "nested") /\ i \in Commits
    BY <1>1, <1>13 DEF Submodules, WorkSound, At, HasSubmodules
  <2>2. a \in Working /\ a.item = i /\ work' = [work EXCEPT ![w] = a] /\ a.pc = "remove"
    BY <1>1, <1>13 DEF Submodules, Go, Working, Fetching, Item
  <2>3. dir' = [dir EXCEPT ![i] = dir[i]] /\ Ok \notin dir[i] /\ st \in SUBSET Parts /\ Parts \subseteq st
        /\ staging' = [staging EXCEPT ![Staged(w)] = st] /\ staging'[Staged(w)] = st
    BY <1>1, <1>13, <2>1 DEF Submodules, WorkSound, At, Fetching
  <2> HIDE DEF a, st
  <2>4. WorkSound(w)'
    BY <1>10, <2>1, <2>2, <2>3 DEF WorkSound, At, Fetching
  <2> QED
    BY <1>1, <1>9, <2>1, <2>2, <2>3, <2>4
<1>14. CASE Remove(w)
  <2>1. PICK x \in dir[i] : dir' = [dir EXCEPT ![i] = @ \ {x}]
    BY <1>14 DEF Remove
  <2>2. UNCHANGED <<archive, staging, work, calm>> /\ At(w, "remove")
    BY <1>14 DEF Remove
  <2> DEFINE d == dir[i] \ {x}
             st == staging[Staged(w)]
  <2>3. Ok \notin d /\ d \in SUBSET (Parts \cup {Ok}) /\ dir' = [dir EXCEPT ![i] = d]
        /\ dir'[i] = d /\ st \in SUBSET Parts /\ staging' = [staging EXCEPT ![Staged(w)] = st]
        /\ work' = [work EXCEPT ![w] = work[w]] /\ work[w].item = i
    BY <1>1, <2>1, <2>2 DEF WorkSound, At, Fetching, Item
  <2> HIDE DEF d, st
  <2>4. WorkSound(w)'
    BY <1>1, <1>10, <2>2, <2>3 DEF WorkSound, At, Fetching
  <2> QED
    BY <1>1, <1>9, <2>2, <2>3, <2>4
<1>15. CASE Place(w)
  <2> DEFINE a == [work[w] EXCEPT !.pc = "mark"]
             d == staging[Staged(w)]
  <2>1. /\ UNCHANGED <<archive, calm>> /\ dir' = [dir EXCEPT ![i] = d]
        /\ staging' = [staging EXCEPT ![Staged(w)] = {}] /\ Go(w, "mark") /\ At(w, "place")
    BY <1>1, <1>15 DEF Place, WorkSound, At
  <2>2. a \in Working /\ a.item = i /\ work' = [work EXCEPT ![w] = a] /\ a.pc = "mark"
    BY <1>1, <2>1 DEF Go, Working, Fetching, Item
  <2>3. d \in SUBSET (Parts \cup {Ok}) /\ Parts \subseteq d /\ Ok \notin d /\ dir'[i] = d
    BY <1>1, <2>1 DEF WorkSound, At
  <2> HIDE DEF a, d
  <2>4. WorkSound(w)'
    BY <1>1, <1>10, <2>1, <2>2, <2>3 DEF WorkSound, At, Fetching
  <2> QED
    BY <1>1, <1>9, <2>1, <2>2, <2>3, <2>4
<1>16. CASE Mark(w)
  <2> DEFINE a == [work[w] EXCEPT !.pc = "done"]
             d == dir[i] \cup {Ok}
             st == staging[Staged(w)]
  <2>1. Parts \subseteq dir[i] /\ dir[i] # {} /\ (i \in Crates => archive[i] = Whole)
    BY <1>1, <1>16 DEF Mark, WorkSound, At
  <2>2. UNCHANGED <<archive, staging, calm>> /\ dir' = [dir EXCEPT ![i] = d] /\ Go(w, "done")
    BY <1>16, <2>1 DEF Mark
  <2>3. a \in Working /\ a.item = i /\ work' = [work EXCEPT ![w] = a] /\ a.pc = "done"
    BY <1>1, <2>2 DEF Go, Working, Item
  <2>4. d \in SUBSET (Parts \cup {Ok}) /\ Parts \subseteq d /\ dir'[i] = d /\ Ok \in d
        /\ st \in SUBSET Parts /\ staging' = [staging EXCEPT ![Staged(w)] = st]
    BY <1>1, <2>1, <2>2
  <2> HIDE DEF a, d, st
  <2>5. WorkSound(w)'
    BY <1>10, <2>1, <2>2, <2>3, <2>4 DEF WorkSound, At, Fetching
  <2> QED
    BY <1>9, <2>1, <2>2, <2>3, <2>4, <2>5
<1> QED
  BY <1>4, <1>5, <1>6, <1>8, <1>11, <1>12, <1>13, <1>14, <1>15, <1>16

LEMMA BusyRuns ==
  ASSUME NEW w \in Workers
  PROVE  Busy(w) => w[1] \in Procs /\ Running(w[1])
BY DEF Busy, Running, Workers

LEMMA ProcessStepKeeps ==
  ASSUME PackagesInTurn, TreeInv, NEW p \in Procs, Load(p) \/ Loaded(p) \/ KillLoad(p)
  PROVE  TreeInv'
<1> USE SourcesAssumption
<1>0. /\ UNCHANGED <<rules, archive, dir, staging>> /\ TreeTypes
      /\ work \in [Workers -> Working \cup {Idle}]
  BY DEF TreeInv, TreeTypes, Load, Loaded, KillLoad
<1>1. CASE Load(p)
  <2>1. /\ rules.part = "packages" /\ ~rules.crowd
        /\ \A w \in Workers : ~Busy(w) /\ work[w].pc = "idle"
    BY <1>0, <1>1, BusyRuns DEF Load, PackagesInTurn, TreeTypes, Busy
  <2>2. PICK job \in rules.jobs, off \in BOOLEAN :
          work' = [w \in Workers |->
                     IF w[1] = p THEN [pc |-> "look", off |-> off, item |-> job[w[2]], todo |-> {}]
                     ELSE work[w]]
    BY <1>1 DEF Load
  <2>3. job \in [Threads -> Items] /\ \A s, t \in Threads : job[s] = job[t] => s = t
    BY <1>0, <2>1 DEF PackagesInTurn, TreeTypes
  <2>4. ASSUME NEW w \in Workers
        PROVE  IF w[1] = p
               THEN work'[w] \in Working /\ work'[w].pc = "look" /\ work'[w].item = job[w[2]]
               ELSE work'[w] = work[w] /\ ~Busy(w)'
    <3>1. CASE w[1] = p
      <4>1. w[2] \in Threads /\ job[w[2]] \in Items
        BY <2>3 DEF Workers
      <4>2. work'[w] = [pc |-> "look", off |-> off, item |-> job[w[2]], todo |-> {}]
        BY <2>2, <3>1
      <4> QED
        BY <3>1, <4>1, <4>2 DEF Working, Fetching
    <3>2. CASE w[1] # p
      BY <2>1, <2>2, <3>2 DEF Busy
    <3> QED
      BY <3>1, <3>2
  <2>5. TreeTypes'
    BY <1>0, <1>1, <2>2, <2>4 DEF TreeTypes, Load
  <2>6. ASSUME NEW v \in Workers, NEW w \in Workers, Busy(v)', Busy(w)'
        PROVE  v[1] = w[1] /\ (Item(v)' = Item(w)' => v = w)
    <3>1. v[1] = p /\ w[1] = p
      BY <2>4, <2>6
    <3>2. work'[v].item = job[v[2]] /\ work'[w].item = job[w[2]] /\ v[2] \in Threads /\ w[2] \in Threads
      BY <2>4, <3>1 DEF Workers
    <3>3. v = <<v[1], v[2]>> /\ w = <<w[1], w[2]>>
      BY DEF Workers
    <3> QED
      BY <2>3, <3>1, <3>2, <3>3 DEF Item
  <2>7. \A w \in Workers : Busy(w)' => work'[w] \in Working /\ work'[w].pc = "look"
    BY <2>4
  <2>8. \A w \in Workers : Busy(w)' => WorkSound(w)'
    BY <2>7 DEF WorkSound, At
  <2> QED
    BY <1>0, <2>1, <2>5, <2>6, <2>7, <2>8 DEF TreeInv, Exclusive
<1>2. CASE Loaded(p) \/ KillLoad(p)
  <2>1. work' = [w \in Workers |-> IF w[1] = p THEN Idle ELSE work[w]] /\ calm' = calm
    BY <1>2 DEF Loaded, KillLoad, Stopped
  <2>2. \A w \in Workers : Busy(w)' => Busy(w) /\ work'[w] = work[w]
    BY <2>1 DEF Busy, Idle
  <2>3. \A w \in Workers : Busy(w)' => WorkSound(w) /\ WorkSound(w)'
    BY <1>0, <2>2 DEF TreeInv, WorkSound, At, Item, Staged, HasSubmodules
  <2>4. TreeTypes'
    BY <1>0, <2>1 DEF TreeTypes
  <2> QED
    BY <1>0, <2>2, <2>3, <2>4 DEF TreeInv, Exclusive, Item
<1> QED
  BY <1>1, <1>2

LEMMA NextTree == ASSUME PackagesInTurn, TreeInv, [Next]_vars PROVE TreeInv'
<1>1. CASE UNCHANGED vars
  BY <1>1, TreeKept DEF vars
<1>2. CASE TreeStep
  BY <1>2, WorkerStepKeeps, ProcessStepKeeps DEF TreeStep
<1> QED
  BY <1>1, <1>2, PartsOfNext, TreeKept, IndexFrame, GitFrame

\* When processes load packages one after the other, whatever is marked as unpacked, and
\* whatever a process goes on with, has all of its files, wherever earlier ones were killed
\* or failed: the mark is the last thing written.
THEOREM LoadedWhole == PackagesInTurn => (Spec => []SourcesWhole)
<1> SUFFICES ASSUME PackagesInTurn PROVE Spec => []SourcesWhole
  OBVIOUS
<1>1. TreeInv /\ [Next]_vars => TreeInv'
  BY NextTree
<1>2. TreeInv => SourcesWhole
  BY DEF TreeInv, SourcesWhole, WorkSound, Busy, At
<1> QED
  BY <1>1, <1>2, InitTree, PTL DEF Spec

-----------------------------------------------------------------------------
(* Failures in a row. *)

\* Every process loads the same packages.
SamePackages == \A r \in Rules : \A j, k \in r.jobs : j = k

Bad(i) == i \in Crates /\ archive[i] = Torn
Mates(w) == \E job \in rules.jobs : \A t \in Threads : Busy(<<w[1], t>>) /\ Item(<<w[1], t>>) = job[t]

\* A process that failed for no reason of its own has left no archive behind that is not
\* whole; so the next one has nothing to fail for, unless something fails anew.
StreakInv ==
  /\ streak \in {0, 1}
  /\ \A w \in Workers : Busy(w) => Mates(w)
  /\ streak = 1 /\ (\A w \in Workers : ~Busy(w)) =>
       \A job \in rules.jobs : \A t \in Threads : ~Bad(job[t])
  /\ streak = 1 => \A w \in Workers : Busy(w) =>
       /\ Bad(Item(w)) => At(w, "copy")
       /\ calm => ~At(w, "failed")

\* What a thread's step does to the archives and to the word of failure.
LEMMA WorkerOutcome ==
  ASSUME PackagesInTurn, TreeInv, NEW w \in Workers,
         \/ Look(w) \/ Mirror(w) \/ Copied(w) \/ Fetch(w) \/ FetchFails(w) \/ Verify(w)
         \/ StartUnpack(w) \/ Unpack(w) \/ UnpackFails(w)
         \/ Submodules(w) \/ SubmodulesFail(w) \/ Remove(w) \/ Removed(w) \/ Place(w) \/ Mark(w)
  PROVE  /\ UNCHANGED <<rules, streak>> /\ Busy(w) /\ Busy(w)' /\ Item(w)' = Item(w)
         /\ \A v \in Workers \ {w} : work'[v] = work[v]
         /\ \A i \in Items \ {Item(w)} : Bad(i)' <=> Bad(i)
         /\ calm' => calm
         /\ (Bad(Item(w)) => At(w, "copy")) =>
              /\ Bad(Item(w))' => At(w, "copy")'
              /\ calm' => ~At(w, "failed")'
<1> USE SourcesAssumption
<1>0. /\ UNCHANGED <<rules, streak>> /\ Busy(w)
  BY DEF Look, Mirror, Copied, Fetch, FetchFails, Verify, StartUnpack, Unpack, UnpackFails,
         Submodules, SubmodulesFail, Remove, Removed, Place, Mark, At, Busy
<1>1. /\ work[w] \in Working /\ WorkSound(w) /\ work \in [Workers -> Working \cup {Idle}]
      /\ archive \in [Crates -> {None, Torn, Whole}] /\ Item(w) \in Items
      /\ w \in DOMAIN work
  BY <1>0 DEF TreeInv, TreeTypes, Working, Item
<1>2. ASSUME NEW pc \in Fetching \cup {"done", "failed"}, Go(w, pc)
      PROVE  At(w, pc)' /\ work'[w].pc = pc /\ Item(w)' = Item(w) /\ Busy(w)'
             /\ \A v \in Workers \ {w} : work'[v] = work[v]
  BY <1>1, <1>2 DEF Go, At, Item, Busy, Fetching, Working
<1>3. CASE Look(w)
  <2>1. PICK pc \in {"done", "obtain"} : Go(w, pc)
    BY <1>3 DEF Look
  <2>2. UNCHANGED <<archive, calm>> /\ At(w, "look")
    BY <1>3 DEF Look
  <2> QED
    BY <1>0, <1>2, <2>1, <2>2 DEF Bad, At, Fetching
<1>4. CASE FetchFails(w) \/ UnpackFails(w) \/ SubmodulesFail(w)
  <2>1. Go(w, "failed") /\ calm' = FALSE /\ UNCHANGED archive
    BY <1>4 DEF FetchFails, UnpackFails, SubmodulesFail, OnError
  <2>2. ~Bad(Item(w))
    BY <1>1, <1>4 DEF FetchFails, UnpackFails, SubmodulesFail, Missing, WorkSound, At, HasSubmodules, Bad
  <2> QED
    BY <1>0, <1>2, <2>1, <2>2 DEF Bad, At, Fetching
<1>5. CASE Mirror(w) \/ Copied(w) \/ Fetch(w) \/ Verify(w)
  <2>1. /\ calm' = calm /\ work[w].pc \in {"obtain", "copy"}
        /\ \A i \in Crates \ {Item(w)} : archive'[i] = archive[i]
    BY <1>1, <1>5 DEF Mirror, Copied, Fetch, Verify, At
  <2>2. PICK pc \in {"copy", "unpack0", "failed"} :
          /\ Go(w, pc)
          /\ pc = "failed" => At(w, "obtain") /\ Bad(Item(w))
          /\ Bad(Item(w))' => pc = "copy"
    <3>1. CASE Mirror(w)
      BY <1>1, <3>1 DEF Mirror
    <3>2. CASE Copied(w)
      <4>1. Go(w, "unpack0")
        BY <3>2 DEF Copied
      <4>2. ~Bad(Item(w))'
        <5>1. Item(w)' = Item(w)
          BY <1>2, <4>1 DEF Fetching
        <5>2. Item(w) \in Crates => archive'[Item(w)] \in {None, Whole}
          BY <1>1, <3>2 DEF Copied
        <5> QED
          BY <5>1, <5>2 DEF Bad
      <4> QED
        BY <4>1, <4>2
    <3>3. CASE Fetch(w)
      <4>1. Go(w, "unpack0")
        BY <3>3 DEF Fetch
      <4>2. ~Bad(Item(w))'
        <5>1. Item(w)' = Item(w)
          BY <1>2, <4>1 DEF Fetching
        <5>2. Item(w) \in Crates => archive'[Item(w)] = Whole
          BY <1>1, <3>3 DEF Fetch
        <5> QED
          BY <5>1, <5>2 DEF Bad
      <4> QED
        BY <4>1, <4>2
    <3>4. CASE Verify(w)
      <4>1. Item(w) \in Crates => archive[Item(w)] \in {Torn, Whole} /\ At(w, "obtain")
        BY <1>1, <3>4 DEF Verify, Missing
      <4>2. \E pc \in {"unpack0", "failed"} : Go(w, pc) /\ (pc = "failed" => Bad(Item(w)) /\ At(w, "obtain"))
        BY <3>4, <4>1 DEF Verify, Bad
      <4>3. Item(w)' = Item(w)
        BY <1>2, <4>2 DEF Fetching
      <4>4. Item(w) \in Crates => archive'[Item(w)] \in {None, Whole}
        BY <1>1, <3>4 DEF Verify, Dropped
      <4>5. ~Bad(Item(w))'
        BY <4>3, <4>4 DEF Bad
      <4> QED
        BY <4>2, <4>5
    <3> QED
      BY <1>5, <3>1, <3>2, <3>3, <3>4
  <2>3. \A i \in Items \ {Item(w)} : Bad(i)' <=> Bad(i)
    BY <2>1 DEF Bad
  <2> QED
    <3>1. At(w, pc)' /\ Item(w)' = Item(w) /\ Busy(w)' /\ \A v \in Workers \ {w} : work'[v] = work[v]
      BY <1>2, <2>2 DEF Fetching
    <3>2. Bad(Item(w))' => At(w, "copy")'
      BY <2>2, <3>1
    <3>3. At(w, "failed")' => ~(Bad(Item(w)) => At(w, "copy"))
      BY <2>2, <3>1 DEF At
    <3> QED
      BY <1>0, <2>1, <2>3, <3>1, <3>2, <3>3
<1>6. CASE StartUnpack(w) \/ Unpack(w) \/ Submodules(w)
  <2>1. UNCHANGED <<archive, calm>> /\ ~Bad(Item(w))
    BY <1>1, <1>6 DEF StartUnpack, Unpack, Submodules, WorkSound, At, Bad, HasSubmodules
  <2>2. PICK a : work' = [work EXCEPT ![w] = a] /\ a.item = Item(w) /\ a.pc \notin {"idle", "failed"}
    <3>1. CASE StartUnpack(w)
      <4> DEFINE a == [work[w] EXCEPT !.pc = "unpack", !.todo = IF HasSubmodules(w) THEN Parts \ Nested ELSE Parts]
      <4>1. work' = [work EXCEPT ![w] = a]
        BY <1>1, <3>1 DEF StartUnpack, WorkSound, At
      <4>2. a.item = Item(w) /\ a.pc \notin {"idle", "failed"}
        BY <1>1 DEF Working, Item
      <4> QED
        BY <4>1, <4>2
    <3>2. CASE Unpack(w)
      <4>1. PICK x \in work[w].todo : work' = [work EXCEPT ![w].todo = @ \ {x},
                               ![w].pc = IF work[w].todo # {x} THEN @
                                         ELSE IF HasSubmodules(w) THEN "nested" ELSE "remove"]
        BY <3>2 DEF Unpack
      <4> DEFINE a == [work[w] EXCEPT !.todo = @ \ {x}, !.pc = IF work[w].todo # {x} THEN @
                                         ELSE IF HasSubmodules(w) THEN "nested" ELSE "remove"]
      <4>2. work' = [work EXCEPT ![w] = a]
        BY <1>1, <4>1
      <4>3. a.item = Item(w) /\ a.pc \notin {"idle", "failed"}
        BY <1>1, <3>2 DEF Working, Item, Unpack, At
      <4> QED
        BY <4>2, <4>3
    <3>3. CASE Submodules(w)
      <4> DEFINE a == [work[w] EXCEPT !.pc = "remove"]
      <4>1. work' = [work EXCEPT ![w] = a]
        BY <1>1, <3>3 DEF Submodules, Go
      <4>2. a.item = Item(w) /\ a.pc \notin {"idle", "failed"}
        BY <1>1 DEF Working, Item
      <4> QED
        BY <4>1, <4>2
    <3> QED
      BY <1>6, <3>1, <3>2, <3>3
  <2>3. /\ ~At(w, "failed")'
        /\ Busy(w)' /\ Item(w)' = Item(w) /\ \A v \in Workers \ {w} : work'[v] = work[v]
    BY <1>1, <2>2 DEF At, Item, Busy
  <2> QED
    BY <1>0, <2>1, <2>3 DEF Bad
<1>7. CASE Remove(w)
  BY <1>0, <1>7 DEF Remove, Bad, At, Item, Busy
<1>8. CASE Removed(w) \/ Place(w) \/ Mark(w)
  <2>1. UNCHANGED <<archive, calm>> /\ ~Bad(Item(w))
    BY <1>1, <1>8 DEF Removed, Place, Mark, WorkSound, At, Bad
  <2>2. \E pc \in {"place", "mark", "done"} : Go(w, pc)
    BY <1>1, <1>8 DEF Removed, Place, Mark, WorkSound, At
  <2> QED
    BY <1>0, <1>2, <2>1, <2>2 DEF Bad, At, Fetching
<1> QED
  BY <1>3, <1>4, <1>5, <1>6, <1>7, <1>8

LEMMA InitStreak == Init => StreakInv
<1> SUFFICES ASSUME Init PROVE StreakInv
  OBVIOUS
<1>1. streak = 0 /\ \A w \in Workers : ~Busy(w)
  BY DEF Init, Busy, Idle
<1> QED
  BY <1>1 DEF StreakInv

LEMMA StreakKept ==
  ASSUME StreakInv, UNCHANGED <<rules, trees>>
  PROVE  StreakInv'
<1>1. UNCHANGED <<rules, archive, work, calm, streak>>
  BY DEF trees
<1>2. /\ \A w \in Workers : Busy(w)' <=> Busy(w)
      /\ \A w \in Workers, pc \in {"copy", "failed"} : At(w, pc)' <=> At(w, pc)
      /\ \A w : Item(w)' = Item(w)
      /\ \A i : Bad(i)' <=> Bad(i)
  BY <1>1 DEF Busy, At, Item, Bad
<1>3. \A w \in Workers : Busy(w) => Mates(w)'
  BY <1>1 DEF StreakInv, Mates, Busy, Item
<1> QED
  BY <1>1, <1>2, <1>3 DEF StreakInv

LEMMA WorkerStreak ==
  ASSUME PackagesInTurn, TreeInv, StreakInv, NEW w \in Workers,
         \/ Look(w) \/ Mirror(w) \/ Copied(w) \/ Fetch(w) \/ FetchFails(w) \/ Verify(w)
         \/ StartUnpack(w) \/ Unpack(w) \/ UnpackFails(w)
         \/ Submodules(w) \/ SubmodulesFail(w) \/ Remove(w) \/ Removed(w) \/ Place(w) \/ Mark(w)
  PROVE  StreakInv'
<1>1. /\ UNCHANGED <<rules, streak>> /\ Busy(w) /\ Busy(w)' /\ Item(w)' = Item(w)
      /\ \A v \in Workers \ {w} : work'[v] = work[v]
      /\ \A i \in Items \ {Item(w)} : Bad(i)' <=> Bad(i)
      /\ calm' => calm
      /\ (Bad(Item(w)) => At(w, "copy")) => (Bad(Item(w))' => At(w, "copy")') /\ (calm' => ~At(w, "failed")')
  BY WorkerOutcome
<1>2. \A v \in Workers : (Busy(v)' <=> Busy(v)) /\ Item(v)' = Item(v)
  BY <1>1 DEF Busy, Item
<1>3. ASSUME NEW v \in Workers, Busy(v)' PROVE Mates(v)'
  <2>1. PICK job \in rules.jobs : \A t \in Threads : Busy(<<v[1], t>>) /\ Item(<<v[1], t>>) = job[t]
    BY <1>2, <1>3 DEF StreakInv, Mates
  <2>2. \A t \in Threads : <<v[1], t>> \in Workers
    BY DEF Workers
  <2> QED
    BY <1>1, <1>2, <2>1, <2>2 DEF Mates
<1>4. ASSUME streak = 1, NEW v \in Workers, Busy(v)
      PROVE  (Bad(Item(v))' => At(v, "copy")') /\ (calm' => ~At(v, "failed")')
  <2>1. CASE v = w
    BY <1>1, <1>4, <2>1 DEF StreakInv
  <2>2. CASE v # w
    <3>1. Item(v) # Item(w) /\ Item(v) \in Items
      BY <1>1, <1>4, <2>2 DEF TreeInv, Exclusive, Working, Item
    <3> QED
      BY <1>1, <1>2, <1>4, <2>2, <3>1 DEF StreakInv, At, Bad
  <2> QED
    BY <2>1, <2>2
<1> QED
  BY <1>1, <1>2, <1>3, <1>4 DEF StreakInv

LEMMA ProcessStreak ==
  ASSUME PackagesInTurn, SamePackages, TreeInv, StreakInv, NEW p \in Procs,
         Load(p) \/ Loaded(p) \/ KillLoad(p)
  PROVE  StreakInv'
<1>0. /\ UNCHANGED <<rules, archive>> /\ rules \in Rules /\ rules.jobs \subseteq [Threads -> Items]
      /\ \A i : Bad(i)' <=> Bad(i)
  BY SourcesAssumption DEF TreeInv, TreeTypes, Load, Loaded, KillLoad, Bad
<1>1. CASE Load(p)
  <2>1. ~rules.crowd /\ streak' = streak
    BY <1>0, <1>1 DEF Load, PackagesInTurn
  <2>2. \A w \in Workers : ~Busy(w)
    BY <1>1, <2>1, BusyRuns DEF Load
  <2>3. PICK job \in rules.jobs, off \in BOOLEAN :
          work' = [w \in Workers |->
                     IF w[1] = p THEN [pc |-> "look", off |-> off, item |-> job[w[2]], todo |-> {}]
                     ELSE work[w]]
    BY <1>1 DEF Load
  <2>4. \A w \in Workers : IF w[1] = p THEN Busy(w)' /\ ~At(w, "failed")' /\ Item(w)' = job[w[2]]
                           ELSE ~Busy(w)'
    BY <2>2, <2>3 DEF Busy, At, Item
  <2>5. \A w \in Workers : Busy(w)' => Mates(w)'
    <3> SUFFICES ASSUME NEW w \in Workers, Busy(w)' PROVE Mates(w)'
      OBVIOUS
    <3>1. w[1] = p
      BY <2>4
    <3>2. \A t \in Threads : <<p, t>> \in Workers /\ <<p, t>>[1] = p /\ <<p, t>>[2] = t
      BY DEF Workers
    <3>3. \A t \in Threads : Busy(<<p, t>>)' /\ Item(<<p, t>>)' = job[t]
      BY <2>4, <3>2
    <3> QED
      BY <1>0, <3>1, <3>3 DEF Mates
  <2>6. ASSUME streak = 1, NEW w \in Workers, Busy(w)' PROVE ~Bad(Item(w))' /\ ~At(w, "failed")'
    <3>1. w[1] = p /\ w[2] \in Threads
      BY <2>4, <2>6 DEF Workers
    <3> QED
      BY <1>0, <2>2, <2>4, <2>6, <3>1 DEF StreakInv
  <2>7. ASSUME streak = 1, \A w \in Workers : ~Busy(w)'
        PROVE  \A k \in rules.jobs : \A t \in Threads : ~Bad(k[t])
    BY <2>2, <2>7 DEF StreakInv
  <2> QED
    BY <1>0, <2>1, <2>5, <2>6, <2>7 DEF StreakInv
<1>2. CASE Loaded(p) \/ KillLoad(p)
  <2>1. work' = [w \in Workers |-> IF w[1] = p THEN Idle ELSE work[w]]
    BY <1>2 DEF Loaded, KillLoad, Stopped
  <2>2. \A w \in Workers : Busy(w)' => Busy(w) /\ w[1] # p /\ work'[w] = work[w]
    BY <2>1 DEF Busy, Idle
  <2>3. ASSUME NEW w \in Workers, Busy(w)' PROVE Mates(w)'
    <3>1. PICK job \in rules.jobs : \A t \in Threads : Busy(<<w[1], t>>) /\ Item(<<w[1], t>>) = job[t]
      BY <2>2, <2>3 DEF StreakInv, Mates
    <3>2. \A t \in Threads : <<w[1], t>> \in Workers /\ <<w[1], t>>[1] # p
      BY <2>2, <2>3 DEF Workers
    <3> QED
      BY <1>0, <2>1, <3>1, <3>2 DEF Mates, Busy, Item
  <2>4. CASE KillLoad(p) \/ ~(calm /\ \E t \in Threads : At(<<p, t>>, "failed"))
    <3>1. streak' = 0
      BY <1>2, <2>4 DEF KillLoad, Loaded, At
    <3> QED
      BY <2>3, <3>1 DEF StreakInv
  <2>5. CASE Loaded(p) /\ calm /\ \E t \in Threads : At(<<p, t>>, "failed")
    <3>1. PICK t \in Threads : At(<<p, t>>, "failed")
      BY <2>5
    <3>2. <<p, t>> \in Workers /\ Busy(<<p, t>>)
      BY <3>1 DEF At, Busy, Workers
    <3>3. streak = 0
      BY <2>5, <3>1, <3>2 DEF StreakInv
    <3>4. streak' = 1
      BY <2>5, <3>3 DEF Loaded, At
    <3>5. \A w \in Workers : ~Busy(w)'
      <4> SUFFICES ASSUME NEW w \in Workers, Busy(w)' PROVE FALSE
        OBVIOUS
      <4>1. Busy(w) /\ w[1] # p
        BY <2>2
      <4>2. w[1] = <<p, t>>[1]
        BY <3>2, <4>1 DEF TreeInv, Exclusive
      <4> QED
        BY <4>1, <4>2
    <3>6. PICK job \in rules.jobs : \A s \in Threads : Busy(<<p, s>>) /\ Item(<<p, s>>) = job[s]
      BY <3>2 DEF StreakInv, Mates
    <3>7. ASSUME NEW s \in Threads PROVE ~Bad(job[s])
      <4>1. <<p, s>> \in Workers /\ WorkSound(<<p, s>>) /\ Item(<<p, s>>) = job[s]
        BY <3>6 DEF Workers, TreeInv
      <4>2. At(<<p, s>>, "done") \/ At(<<p, s>>, "failed")
        BY <2>5 DEF Loaded, At
      <4> QED
        BY <4>1, <4>2 DEF WorkSound, TreeInv, Bad
    <3>8. \A k \in rules.jobs : k = job
      BY <1>0 DEF SamePackages
    <3>9. \A k \in rules'.jobs : \A s \in Threads : ~Bad(k[s])'
      BY <1>0, <3>7, <3>8
    <3> QED
      BY <3>4, <3>5, <3>9 DEF StreakInv
  <2> QED
    BY <1>2, <2>4, <2>5
<1> QED
  BY <1>1, <1>2

\* Whatever a kill or a failure left behind, of the processes that load the same packages one
\* after the other, with nothing failing anew, only one fails: what it fails for is an archive
\* that is not whole, which it removes.
THEOREM FailsAtMostOnce == PackagesInTurn /\ SamePackages => (Spec => []FailsOnce)
<1> SUFFICES ASSUME PackagesInTurn, SamePackages PROVE Spec => []FailsOnce
  OBVIOUS
<1>1. TreeInv /\ [Next]_vars => TreeInv'
  BY NextTree
<1>2. TreeInv /\ StreakInv /\ [Next]_vars => StreakInv'
  <2> SUFFICES ASSUME TreeInv, StreakInv, [Next]_vars PROVE StreakInv'
    OBVIOUS
  <2>1. CASE UNCHANGED vars
    BY <2>1, StreakKept DEF vars
  <2>2. CASE TreeStep
    BY <2>2, WorkerStreak, ProcessStreak DEF TreeStep
  <2> QED
    BY <2>1, <2>2, PartsOfNext, StreakKept, IndexFrame, GitFrame
<1>3. StreakInv => FailsOnce
  BY DEF StreakInv, FailsOnce
<1> QED
  BY <1>1, <1>2, <1>3, InitTree, InitStreak, PTL DEF Spec

=============================================================================
