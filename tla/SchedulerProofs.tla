-------------------------- MODULE SchedulerProofs --------------------------
(***************************************************************************)
(* Theorems about Scheduler, for every graph of units, every -j and every  *)
(* choice of units that may fail: what is on disk when a unit starts, then *)
(* what the loop counts and concludes (job tokens, outputs being stored,   *)
(* the verdict at its end), and that it implements BuildOrder.             *)
(***************************************************************************)
EXTENDS Scheduler, FiniteSetTheorems, TLAPS

-----------------------------------------------------------------------------
(* The channel. *)

\* Sending adds one event and keeps the others.
LEMMA Sending ==
  ASSUME chan \in Seq(Event), NEW e \in Event, Send(e)
  PROVE  /\ chan' \in Seq(Event)
         /\ \A i \in DOMAIN chan' :
              chan'[i] = e \/ (i \in DOMAIN chan /\ chan'[i] = chan[i])
BY DEF Send

\* Receiving takes the first event and keeps the others.
LEMMA Receiving ==
  ASSUME chan \in Seq(Event), chan # <<>>, chan' = Tail(chan)
  PROVE  /\ Head(chan) = chan[1] /\ 1 \in DOMAIN chan /\ Head(chan) \in Event
         /\ chan' \in Seq(Event)
         /\ \A i \in DOMAIN chan' : i + 1 \in DOMAIN chan /\ chan'[i] = chan[i + 1]
OBVIOUS

-----------------------------------------------------------------------------
(* The inductive invariant. *)

\* TypeOK without `failed`, with counters of requirements that might be negative, and with the
\* sender of every event but Token a unit.
Typed ==
  /\ pc \in {"loop", "recv", "exit"}
  /\ waits \in [Units -> Int]
  /\ sat \in SUBSET (Units \X Units)
  /\ ready \in SUBSET Units
  /\ tokens \in Nat /\ requested \in Nat /\ asked \in Nat /\ pool \in Nat
  /\ running \in SUBSET Units /\ metaSeen \in SUBSET Units
  /\ recorded \in SUBSET Units /\ restored \in SUBSET Units
  /\ typed \in SUBSET Units /\ built \in SUBSET Units
  /\ storing \in Int
  /\ chan \in Seq(Event)
  /\ th \in [Units -> Phases]

\* An event speaks of a unit, and of what is on disk when it is handled.
Backed(e) ==
  /\ e.kind # "Token" => e.unit \in Units
  /\ e.kind = "Meta" => e.unit \in typed
  /\ e.kind = "Unlocked" => e.unit \in built
ChanSound == \A i \in DOMAIN chan : Backed(chan[i])

Complete   == {"ok", "freed", "unlocked", "misread", "withdrawn", "storing", "over"}
PhaseSound == \A u \in Units : th[u] \in Complete => u \in built
DiskSound  == built \subseteq typed

\* A requirement that is marked met is met.
SatSound ==
  \A d, u \in Units : <<d, u>> \in sat =>
    \/ d \in MetaDeps[u] /\ d \in typed
    \/ d \in FullDeps[u] /\ d \in built

\* What WaitsExact says, and that nothing starts before its counter is zero.
CountSound ==
  \A u \in Units :
    /\ waits[u] = Cardinality(Unmet(u))
    /\ u \in ready <=> waits[u] = 0 /\ th[u] = "idle"
    /\ th[u] # "idle" => waits[u] = 0

Inv == Typed /\ failed \in BOOLEAN /\ ChanSound /\ PhaseSound /\ DiskSound /\ SatSound /\ CountSound

LEMMA DepsFinite ==
  ASSUME NEW u \in Units
  PROVE  IsFiniteSet(Deps(u)) /\ Deps(u) \subseteq Units
<1>1. Deps(u) \subseteq Units
  BY SchedulerAssumption DEF Deps
<1> QED
  BY <1>1, SchedulerAssumption, FS_Subset

LEMMA UnmetFinite ==
  ASSUME NEW u \in Units
  PROVE  IsFiniteSet(Unmet(u)) /\ Cardinality(Unmet(u)) \in Nat
<1>1. Unmet(u) \subseteq Deps(u)
  BY DEF Unmet
<1>2. IsFiniteSet(Unmet(u))
  BY <1>1, DepsFinite, FS_Subset
<1> QED
  BY <1>2, FS_CardinalityType

-----------------------------------------------------------------------------
(* Initially. *)

LEMMA InitInv == Init => Inv
<1> SUFFICES ASSUME Init PROVE Inv
  OBVIOUS
<1>1. \A u \in Units : Unmet(u) = Deps(u)
  BY DEF Init, Unmet
<1>2. \A u \in Units : Cardinality(Deps(u)) \in Nat
                       /\ (Cardinality(Deps(u)) = 0 <=> Deps(u) = {})
  BY DepsFinite, FS_CardinalityType, FS_EmptySet
<1>3. Typed
  <2>1. waits \in [Units -> Int]
    BY <1>2 DEF Init
  <2>2. tokens \in Nat /\ requested \in Nat /\ asked \in Nat /\ pool \in Nat
    BY SchedulerAssumption DEF Init
  <2>3. chan \in Seq(Event)
    BY DEF Init
  <2>4. th \in [Units -> Phases]
    BY DEF Init, Phases
  <2>5. /\ pc \in {"loop", "recv", "exit"} /\ storing \in Int
        /\ sat \in SUBSET (Units \X Units) /\ ready \in SUBSET Units
    BY DEF Init
  <2>6. /\ running \in SUBSET Units /\ metaSeen \in SUBSET Units
        /\ recorded \in SUBSET Units /\ restored \in SUBSET Units
        /\ typed \in SUBSET Units /\ built \in SUBSET Units
    BY DEF Init
  <2> QED
    BY <2>1, <2>2, <2>3, <2>4, <2>5, <2>6 DEF Typed
<1>4. ChanSound /\ PhaseSound /\ DiskSound /\ SatSound
  BY DEF Init, ChanSound, PhaseSound, DiskSound, SatSound, Complete
<1>5. CountSound
  BY <1>1, <1>2 DEF Init, CountSound
<1>6. failed \in BOOLEAN
  BY DEF Init
<1> QED
  BY <1>3, <1>4, <1>5, <1>6 DEF Inv

-----------------------------------------------------------------------------
(* Requirements met by an event. *)

\* Marking the requirements an event meets keeps the counters exact.
LEMMA SatisfyInv ==
  ASSUME Inv, NEW d \in Units, NEW full \in BOOLEAN, Satisfy(d, full),
         d \in typed, full => d \in built,
         UNCHANGED <<th, typed, built>>
  PROVE  /\ waits' \in [Units -> Int] /\ sat' \in SUBSET (Units \X Units)
         /\ ready' \in SUBSET Units
         /\ SatSound' /\ CountSound'
<1> DEFINE now == Released(d, full)
<1>1. now \subseteq Units
  BY DEF Released
<1>2. /\ waits' \in [Units -> Int] /\ sat' \in SUBSET (Units \X Units)
      /\ ready' \in SUBSET Units
  BY <1>1 DEF Satisfy, Inv, Typed
<1>3. SatSound'
  BY DEF SatSound, Satisfy, Released, Inv
<1>4. CountSound'
  <2> SUFFICES ASSUME NEW u \in Units
               PROVE  /\ waits'[u] = Cardinality(Unmet(u)')
                      /\ u \in ready' <=> waits'[u] = 0 /\ th'[u] = "idle"
                      /\ th'[u] # "idle" => waits'[u] = 0
    BY DEF CountSound
  <2>0. /\ waits[u] = Cardinality(Unmet(u)) /\ waits[u] \in Nat
        /\ u \in ready <=> waits[u] = 0 /\ th[u] = "idle"
        /\ th[u] # "idle" => waits[u] = 0
    BY UnmetFinite DEF Inv, CountSound
  <2>1. CASE u \in now
    <3>1. d \in Unmet(u)
      BY <2>1 DEF Released, Unmet, Deps
    <3>2. Unmet(u)' = Unmet(u) \ {d}
      BY <2>1 DEF Unmet, Satisfy, Released
    <3>3. Cardinality(Unmet(u)') = Cardinality(Unmet(u)) - 1
      BY <3>1, <3>2, UnmetFinite, FS_RemoveElement
    <3>4. Cardinality(Unmet(u)) # 0
      BY <3>1, UnmetFinite, FS_EmptySet
    <3>5. waits'[u] = waits[u] - 1
      BY <2>1 DEF Satisfy
    <3>6. u \in ready' <=> u \in ready \/ waits[u] = 1
      BY <2>1 DEF Satisfy
    <3> QED
      BY <2>0, <3>3, <3>4, <3>5, <3>6
  <2>2. CASE u \notin now
    <3>1. Unmet(u)' = Unmet(u)
      BY <2>2 DEF Unmet, Satisfy, Released
    <3>2. waits'[u] = waits[u]
      BY <2>2 DEF Satisfy
    <3>3. u \in ready' <=> u \in ready
      BY <2>2 DEF Satisfy
    <3> QED
      BY <2>0, <3>1, <3>2, <3>3
  <2> QED
    BY <2>1, <2>2
<1> QED
  BY <1>2, <1>3, <1>4

-----------------------------------------------------------------------------
(* Every step. *)

\* The step of one thread: only its own phase moves, and an event may be sent.
LEMMA MainInv ==
  ASSUME Inv, Main
  PROVE  Inv'
<1>0. failed' \in BOOLEAN
  BY DEF Main, Dispatch, Leave, AskAndWait, OnToken, OnMeta, OnUnlocked, OnStored,
         OnDone, loopVars, Inv
<1>1. ASSUME NEW u \in Units, Dispatch(u) PROVE Inv'
  <2>1. Typed'
    <3>1. tokens' \in Nat
      BY <1>1 DEF Dispatch, CanDispatch, Inv, Typed
    <3>2. th' \in [Units -> Phases]
      BY <1>1 DEF Dispatch, Inv, Typed, Phases
    <3> QED
      BY <1>1, <3>1, <3>2 DEF Dispatch, diskVars, Inv, Typed
  <2>2. ChanSound' /\ DiskSound' /\ SatSound'
    BY <1>1 DEF Dispatch, diskVars, Inv, ChanSound, Backed, DiskSound, SatSound
  <2>3. PhaseSound'
    BY <1>1 DEF Dispatch, diskVars, Inv, Typed, PhaseSound, Complete
  <2>4. CountSound'
    <3>1. \A v \in Units : Unmet(v)' = Unmet(v)
      BY <1>1 DEF Dispatch, Unmet
    <3> QED
      BY <1>1, <3>1 DEF Dispatch, Inv, Typed, CountSound
  <2> QED
    BY <1>0, <2>1, <2>2, <2>3, <2>4 DEF Inv
<1>2. CASE Leave \/ AskAndWait
  <2>1. waits' = waits /\ sat' = sat /\ ready' = ready /\ th' = th /\ chan' = chan
        /\ typed' = typed /\ built' = built
    BY <1>2 DEF Leave, AskAndWait, loopVars, threadVars, diskVars
  <2>2. IsFiniteSet(ready) /\ Cardinality(ready) \in Nat
    BY SchedulerAssumption, FS_Subset, FS_CardinalityType DEF Inv, Typed
  <2>3. tokens' \in Nat /\ requested' \in Nat /\ asked' \in Nat /\ pool' \in Nat
    <3>1. CASE Leave
      BY <3>1 DEF Leave, Inv, Typed
    <3>2. CASE AskAndWait
      <4> DEFINE want == IF Stopping THEN 0 ELSE Cardinality(ready)
                 more == IF requested + tokens < want THEN want - (requested + tokens) ELSE 0
      <4>1. want \in Nat
        BY <2>2
      <4>2. more \in Nat
        <5> HIDE DEF want
        <5> QED
          BY <4>1 DEF Inv, Typed
      <4>3. requested' = requested + more /\ asked' = asked + more
        BY <3>2 DEF AskAndWait
      <4>4. \/ tokens' = 0 /\ pool' = pool + tokens
            \/ tokens' = tokens /\ pool' = pool
        BY <3>2 DEF AskAndWait
      <4> HIDE DEF more
      <4> QED
        BY <4>2, <4>3, <4>4 DEF Inv, Typed
    <3> QED
      BY <1>2, <3>1, <3>2
  <2>4. /\ pc' \in {"loop", "recv", "exit"}
        /\ running' = running /\ metaSeen' = metaSeen /\ recorded' = recorded
        /\ storing' = storing /\ restored' = restored
    BY <1>2 DEF Leave, AskAndWait, loopVars, threadVars
  <2>5. Typed'
    BY <2>1, <2>3, <2>4 DEF Inv, Typed
  <2>6. ChanSound' /\ PhaseSound' /\ DiskSound' /\ SatSound'
    BY <2>1 DEF Inv, ChanSound, Backed, PhaseSound, DiskSound, SatSound
  <2>7. CountSound'
    BY <2>1 DEF Inv, CountSound, Unmet
  <2> QED
    BY <1>0, <2>5, <2>6, <2>7 DEF Inv
<1>3. ASSUME NEW k \in Kinds, Receive(k)
      PROVE  /\ Head(chan) \in Event /\ Head(chan).kind = k /\ Backed(Head(chan))
             /\ pc' \in {"loop", "recv", "exit"}
             /\ chan' \in Seq(Event)
             /\ \A i \in DOMAIN chan' : Backed(chan'[i])
  BY <1>3, Receiving DEF Receive, Inv, Typed, ChanSound
<1>4. CASE OnToken \/ OnStored \/ OnDone
  <2>1. waits' = waits /\ sat' = sat /\ ready' = ready /\ th' = th
        /\ typed' = typed /\ built' = built
    BY <1>4 DEF OnToken, OnStored, OnDone, loopVars, threadVars, diskVars
  <2>2. /\ Head(chan) \in Event /\ Backed(Head(chan))
        /\ pc' \in {"loop", "recv", "exit"} /\ chan' \in Seq(Event)
        /\ \A i \in DOMAIN chan' : Backed(chan'[i])
    BY <1>3, <1>4 DEF OnToken, OnStored, OnDone, Kinds
  <2>3. Typed'
    <3>1. CASE OnToken
      BY <3>1, <2>1, <2>2 DEF OnToken, loopVars, threadVars, Inv, Typed
    <3>2. CASE OnStored
      BY <3>2, <2>1, <2>2 DEF OnStored, tokenVars, threadVars, Inv, Typed
    <3>3. CASE OnDone
      <4>1. Head(chan).unit \in Units
        BY <3>3, <2>2 DEF OnDone, Receive, Backed
      <4> QED
        BY <4>1, <3>3, <2>1, <2>2 DEF OnDone, tokenVars, threadVars, Inv, Typed
    <3> QED
      BY <1>4, <3>1, <3>2, <3>3
  <2>4. ChanSound'
    BY <2>1, <2>2 DEF ChanSound, Backed
  <2>5. PhaseSound' /\ DiskSound' /\ SatSound' /\ CountSound'
    BY <2>1 DEF Inv, PhaseSound, DiskSound, SatSound, CountSound, Unmet
  <2> QED
    BY <1>0, <2>3, <2>4, <2>5 DEF Inv
<1>5. CASE OnMeta \/ OnUnlocked
  <2> DEFINE d == Head(chan).unit
  <2>1. /\ d \in Units
        /\ pc' \in {"loop", "recv", "exit"} /\ chan' \in Seq(Event)
        /\ \A i \in DOMAIN chan' : Backed(chan'[i])
    BY <1>3, <1>5 DEF OnMeta, OnUnlocked, Kinds, Backed
  <2>2. th' = th /\ typed' = typed /\ built' = built
    BY <1>5 DEF OnMeta, OnUnlocked, threadVars, diskVars
  <2>3. /\ waits' \in [Units -> Int] /\ sat' \in SUBSET (Units \X Units)
        /\ ready' \in SUBSET Units /\ SatSound' /\ CountSound'
    <3>1. CASE OnMeta /\ d \in metaSeen
      <4>1. waits' = waits /\ sat' = sat /\ ready' = ready
        BY <3>1 DEF OnMeta
      <4> QED
        BY <4>1, <2>2 DEF Inv, Typed, SatSound, CountSound, Unmet
    <3>2. CASE OnMeta /\ d \notin metaSeen
      <4>1. Satisfy(d, FALSE)
        BY <3>2 DEF OnMeta
      <4>2. d \in typed
        BY <1>3, <3>2 DEF OnMeta, Kinds, Backed
      <4> QED
        BY <4>1, <4>2, <2>1, <2>2, SatisfyInv
    <3>3. CASE OnUnlocked
      <4>1. Satisfy(d, TRUE)
        BY <3>3 DEF OnUnlocked
      <4>2. d \in built /\ d \in typed
        BY <1>3, <3>3 DEF OnUnlocked, Kinds, Backed, Inv, DiskSound
      <4> QED
        BY <4>1, <4>2, <2>1, <2>2, SatisfyInv
    <3> QED
      BY <1>5, <3>1, <3>2, <3>3
  <2>4. Typed'
    BY <1>5, <2>1, <2>2, <2>3 DEF OnMeta, OnUnlocked, tokenVars, threadVars, Inv, Typed
  <2>5. ChanSound' /\ PhaseSound' /\ DiskSound'
    BY <2>1, <2>2 DEF Inv, ChanSound, Backed, PhaseSound, DiskSound
  <2> QED
    BY <1>0, <2>3, <2>4, <2>5 DEF Inv
<1> QED
  BY <1>1, <1>2, <1>4, <1>5 DEF Main

\* A thread moves its own phase; the loop's bookkeeping stays.
LEMMA ThreadFrame ==
  ASSUME Inv, NEW u \in Units, NEW from \in Phases \ {"idle"},
         NEW to \in Phases \ {"idle"}, Step(u, from, to),
         from \in Complete => to \in Complete,
         to \in Complete => u \in built', 
         built \subseteq built', typed \subseteq typed', built' \subseteq typed',
         typed' \subseteq Units,
         pool' \in Nat, restored' \in SUBSET Units, chan' \in Seq(Event), ChanSound'
  PROVE  Inv'
<1>1. failed' \in BOOLEAN
  BY DEF Step, loopVars, Inv
<1>2. Typed'
  <2>1. th' \in [Units -> Phases]
    BY DEF Step, Inv, Typed
  <2> QED
    BY <2>1 DEF Step, loopVars, Inv, Typed
<1>3. PhaseSound'
  BY DEF PhaseSound, Step, Inv, Typed
<1>4. DiskSound' /\ SatSound'
  BY DEF DiskSound, SatSound, Step, loopVars, Inv
<1>5. CountSound'
  <2>1. \A v \in Units : Unmet(v)' = Unmet(v)
    BY DEF Unmet, Step, loopVars
  <2>2. \A v \in Units : th'[v] = "idle" <=> th[v] = "idle"
    BY DEF Step, Inv, Typed
  <2> QED
    BY <2>1, <2>2 DEF CountSound, Step, loopVars, Inv
<1> QED
  BY <1>1, <1>2, <1>3, <1>4, <1>5 DEF Inv

\* An event whose content is on disk may be sent.
LEMMA SendSound ==
  ASSUME Inv, NEW e \in Event, Send(e), Backed(e)',
         typed \subseteq typed', built \subseteq built'
  PROVE  chan' \in Seq(Event) /\ ChanSound'
<1>1. /\ chan' \in Seq(Event)
      /\ \A i \in DOMAIN chan' :
           chan'[i] = e \/ (i \in DOMAIN chan /\ chan'[i] = chan[i])
  BY Sending DEF Inv, Typed
<1> QED
  BY <1>1 DEF Inv, ChanSound, Backed

\* What each event needs to be sent.
LEMMA EvBacked ==
  ASSUME NEW k \in Kinds, NEW u \in Units \cup {NoUnit}, NEW ok \in BOOLEAN,
         k # "Token" => u \in Units,
         k = "Meta" => u \in typed', k = "Unlocked" => u \in built'
  PROVE  Ev(k, u, ok) \in Event /\ Backed(Ev(k, u, ok))'
BY DEF Ev, Event, Backed

LEMMA AcquireInv ==
  ASSUME Inv, Acquire
  PROVE  Inv'
<1>1. UNCHANGED <<waits, sat, ready, running, storing, metaSeen, failed, recorded,
                  pc, tokens, requested, th, restored, typed, built>>
  BY DEF Acquire, loopVars, threadVars, diskVars
<1>2. Ev("Token", NoUnit, TRUE) \in Event /\ Backed(Ev("Token", NoUnit, TRUE))'
  BY EvBacked DEF Kinds
<1>3. chan' \in Seq(Event) /\ ChanSound'
  BY <1>1, <1>2, SendSound DEF Acquire
<1>4. asked' \in Nat /\ pool' \in Nat
  BY DEF Acquire, Inv, Typed
<1>5. Typed'
  BY <1>1, <1>3, <1>4 DEF Inv, Typed
<1>6. failed' \in BOOLEAN
  BY <1>1 DEF Inv
<1>7. PhaseSound' /\ DiskSound' /\ SatSound'
  BY <1>1 DEF Inv, PhaseSound, DiskSound, SatSound
<1>8. CountSound'
  BY <1>1 DEF Inv, CountSound, Unmet
<1> QED
  BY <1>3, <1>5, <1>6, <1>7, <1>8 DEF Inv

\* The step of a thread.
LEMMA ThreadInv ==
  ASSUME Inv, NEW u \in Units, Thread(u)
  PROVE  Inv'
<1> USE DEF Phases, Complete, Ended
<1>0. /\ chan \in Seq(Event) /\ pool \in Nat /\ restored \in SUBSET Units
      /\ typed \in SUBSET Units /\ built \in SUBSET Units /\ built \subseteq typed
      /\ th[u] \in Complete => u \in built
      /\ ChanSound
  BY DEF Inv, Typed, DiskSound, PhaseSound
<1>1. CASE EmitMeta(u)
  <2>1. Ev("Meta", u, TRUE) \in Event /\ Backed(Ev("Meta", u, TRUE))'
    BY <1>1, EvBacked DEF EmitMeta, Kinds
  <2>2. chan' \in Seq(Event) /\ ChanSound'
    BY <1>0, <1>1, <2>1, SendSound DEF EmitMeta
  <2> QED
    BY <1>0, <1>1, <2>2, ThreadFrame DEF EmitMeta
<1>2. CASE ExecuteOk(u)
  <2>1. chan' = chan /\ ChanSound'
    BY <1>0, <1>2 DEF ExecuteOk, Completed, ChanSound, Backed
  <2>2. PICK from \in {"rustc", "meta"} : Step(u, from, "ok")
    BY <1>2 DEF ExecuteOk
  <2> QED
    BY <1>0, <1>2, <2>1, <2>2, ThreadFrame DEF ExecuteOk, Completed
<1>3. CASE ExecuteRestores(u)
  <2>1. chan' = chan /\ ChanSound'
    BY <1>0, <1>3 DEF ExecuteRestores, Completed, ChanSound, Backed
  <2> QED
    BY <1>0, <1>3, <2>1, ThreadFrame DEF ExecuteRestores, Completed
<1>4. CASE ExecuteErr(u)
  <2>1. chan' = chan /\ ChanSound' /\ typed' = typed /\ built' = built
    BY <1>0, <1>4 DEF ExecuteErr, diskVars, ChanSound, Backed
  <2>2. PICK from \in {"rustc", "meta"} : Step(u, from, "err")
    BY <1>4 DEF ExecuteErr
  <2> QED
    BY <1>0, <1>4, <2>1, <2>2, ThreadFrame DEF ExecuteErr
<1>5. CASE SendError(u)
  <2>1. typed' = typed /\ built' = built
    BY <1>5 DEF SendError, diskVars
  <2>2. Ev("Done", u, FALSE) \in Event /\ Backed(Ev("Done", u, FALSE))'
    BY <1>0, <1>5, <2>1, EvBacked DEF SendError, Step, Kinds
  <2>3. chan' \in Seq(Event) /\ ChanSound'
    BY <1>0, <1>5, <2>1, <2>2, SendSound DEF SendError
  <2> QED
    BY <1>0, <1>5, <2>1, <2>3, ThreadFrame DEF SendError, Step
<1>6. CASE DropTokenAfterError(u)
  <2>1. chan' = chan /\ typed' = typed /\ built' = built
    BY <1>6 DEF DropTokenAfterError, diskVars
  <2>2. ChanSound' /\ pool' \in Nat
    BY <1>0, <1>6, <2>1 DEF DropTokenAfterError, ChanSound, Backed
  <2> QED
    BY <1>0, <1>6, <2>1, <2>2, ThreadFrame DEF DropTokenAfterError, Step
<1>7. CASE DropToken(u)
  <2>1. chan' = chan /\ typed' = typed /\ built' = built
    BY <1>7 DEF DropToken, diskVars
  <2>2. ChanSound' /\ pool' \in Nat
    BY <1>0, <1>7, <2>1 DEF DropToken, ChanSound, Backed
  <2> QED
    BY <1>0, <1>7, <2>1, <2>2, ThreadFrame DEF DropToken, Step
<1>8. CASE SendUnlocked(u)
  <2>1. typed' = typed /\ built' = built
    BY <1>8 DEF SendUnlocked, diskVars
  <2>2. Ev("Unlocked", u, TRUE) \in Event /\ Backed(Ev("Unlocked", u, TRUE))'
    BY <1>0, <1>8, <2>1, EvBacked DEF SendUnlocked, Step, Kinds
  <2>3. chan' \in Seq(Event) /\ ChanSound'
    BY <1>0, <1>8, <2>1, <2>2, SendSound DEF SendUnlocked
  <2> QED
    BY <1>0, <1>8, <2>1, <2>3, ThreadFrame DEF SendUnlocked, Step
<1>9. CASE Misreads(u)
  <2>1. chan' = chan /\ typed' = typed /\ built' = built
    BY <1>9 DEF Misreads, diskVars
  <2>2. ChanSound' /\ pool' \in Nat
    BY <1>0, <1>9, <2>1 DEF Misreads, ChanSound, Backed
  <2> QED
    BY <1>0, <1>9, <2>1, <2>2, ThreadFrame DEF Misreads, Step
<1>10. CASE SendLateError(u)
  <2>1. typed' = typed /\ built' = built
    BY <1>10 DEF SendLateError, diskVars
  <2>2. Ev("Done", u, FALSE) \in Event /\ Backed(Ev("Done", u, FALSE))'
    BY <1>0, <1>10, <2>1, EvBacked DEF SendLateError, Step, Kinds
  <2>3. chan' \in Seq(Event) /\ ChanSound'
    BY <1>0, <1>10, <2>1, <2>2, SendSound DEF SendLateError
  <2> QED
    BY <1>0, <1>10, <2>1, <2>3, ThreadFrame DEF SendLateError, Step
<1>11. CASE SendDone(u)
  <2>1. typed' = typed /\ built' = built
    BY <1>11 DEF SendDone, diskVars
  <2>2. Ev("Done", u, TRUE) \in Event /\ Backed(Ev("Done", u, TRUE))'
    BY <1>0, <1>11, <2>1, EvBacked DEF SendDone, Step, Kinds
  <2>3. chan' \in Seq(Event) /\ ChanSound'
    BY <1>0, <1>11, <2>1, <2>2, SendSound DEF SendDone
  <2> QED
    BY <1>0, <1>11, <2>1, <2>3, ThreadFrame DEF SendDone, Step
<1>12. CASE SendStored(u)
  <2>1. typed' = typed /\ built' = built
    BY <1>12 DEF SendStored, diskVars
  <2>2. PICK ok \in BOOLEAN : Send(Ev("Stored", u, ok))
    BY <1>12 DEF SendStored
  <2>3. Ev("Stored", u, ok) \in Event /\ Backed(Ev("Stored", u, ok))'
    BY EvBacked DEF Kinds
  <2>4. chan' \in Seq(Event) /\ ChanSound'
    BY <2>1, <2>2, <2>3, SendSound
  <2> QED
    BY <1>0, <1>12, <2>1, <2>4, ThreadFrame DEF SendStored, Step
<1> QED
  BY <1>1, <1>2, <1>3, <1>4, <1>5, <1>6, <1>7, <1>8, <1>9, <1>10, <1>11, <1>12
     DEF Thread

LEMMA NextInv == Inv /\ [Next]_vars => Inv'
<1> SUFFICES ASSUME Inv, [Next]_vars PROVE Inv'
  OBVIOUS
<1>1. CASE UNCHANGED vars
  <2>1. Typed' /\ ChanSound'
    BY <1>1 DEF vars, loopVars, tokenVars, threadVars, diskVars, Inv, Typed, ChanSound,
                Backed
  <2>2. PhaseSound' /\ DiskSound' /\ SatSound' /\ CountSound'
    BY <1>1 DEF vars, loopVars, threadVars, diskVars, Inv, PhaseSound, DiskSound,
                SatSound, CountSound, Unmet
  <2>3. failed' \in BOOLEAN
    BY <1>1 DEF vars, loopVars, Inv
  <2> QED
    BY <2>1, <2>2, <2>3 DEF Inv
<1>2. CASE Next
  BY <1>1, <1>2, MainInv, AcquireInv, ThreadInv DEF Next, Stop
<1> QED
  BY <1>1, <1>2

THEOREM Invariance == Spec => []Inv
BY InitInv, NextInv, PTL DEF Spec

-----------------------------------------------------------------------------
(* What follows. *)

\* Every variable stays in its domain: no counter of requirements (usize in
\* `waits`) is ever decremented below zero.
THEOREM TypeCorrect == Spec => []TypeOK
<1>1. Inv => TypeOK
  <2> SUFFICES ASSUME Inv PROVE TypeOK
    OBVIOUS
  <2>1. waits \in [Units -> Nat]
    BY UnmetFinite DEF Inv, Typed, CountSound
  <2>2. Typed /\ failed \in BOOLEAN
    BY DEF Inv
  <2> QED
    BY <2>1, <2>2 DEF Typed, TypeOK
<1> QED
  BY <1>1, Invariance, PTL

\* `waits` counts exactly the requirements still open, and the heap holds
\* exactly the units that wait for nothing and have not been started.
THEOREM CountersExact == Spec => []WaitsExact
<1>1. Inv => WaitsExact
  BY DEF Inv, CountSound, WaitsExact
<1> QED
  BY <1>1, Invariance, PTL

\* With its counter at zero, what a unit needs is on disk.
LEMMA NeedsOnDisk ==
  ASSUME Inv, NEW u \in Units, waits[u] = 0
  PROVE  FullDeps[u] \subseteq built /\ MetaDeps[u] \subseteq typed
<1>1. Unmet(u) = {}
  BY UnmetFinite, FS_EmptySet DEF Inv, CountSound
<1>2. \A d \in Deps(u) : <<d, u>> \in sat
  BY <1>1 DEF Unmet
<1>3. \A d \in Deps(u) : \/ d \in MetaDeps[u] /\ d \in typed
                         \/ d \in FullDeps[u] /\ d \in built
  BY <1>2, DepsFinite DEF Inv, SatSound
<1> QED
  BY <1>3, SchedulerAssumption DEF Deps, Inv, DiskSound

\* No unit starts before what it links is complete and the metadata it compiles
\* against is written, however the events of other units interleave.
THEOREM DependenciesFirst == Spec => []DepsFirst
<1>1. Inv => DepsFirst
  BY NeedsOnDisk DEF DepsFirst, Inv, CountSound
<1> QED
  BY <1>1, Invariance, PTL


-----------------------------------------------------------------------------
(* The channel, position by position. *)

\* What Send makes of the channel.
LEMMA Appended ==
  ASSUME chan \in Seq(Event), NEW e \in Event, Send(e)
  PROVE  /\ Len(chan) \in Nat /\ DOMAIN chan = 1 .. Len(chan)
         /\ DOMAIN chan' = 1 .. Len(chan) + 1
         /\ \A i \in 1 .. Len(chan) : chan'[i] = chan[i]
         /\ chan'[Len(chan) + 1] = e
BY DEF Send

\* What Receive makes of it.
LEMMA Shifted ==
  ASSUME chan \in Seq(Event), chan # <<>>, chan' = Tail(chan)
  PROVE  /\ Len(chan) \in Nat \ {0} /\ DOMAIN chan = 1 .. Len(chan)
         /\ DOMAIN chan' = 1 .. Len(chan) - 1
         /\ \A i \in 1 .. Len(chan) - 1 : chan'[i] = chan[i + 1]
         /\ Head(chan) = chan[1] /\ Head(chan) \in Event
OBVIOUS

-----------------------------------------------------------------------------
(* Job tokens. *)

Tokens == {i \in DOMAIN chan : chan[i].kind = "Token"}

LEMMA TokensFinite ==
  ASSUME chan \in Seq(Event)
  PROVE  IsFiniteSet(Tokens) /\ Cardinality(Tokens) \in Nat
<1>1. IsFiniteSet(DOMAIN chan)
  BY FS_Interval
<1>2. Tokens \in SUBSET DOMAIN chan
  BY DEF Tokens
<1> QED
  BY <1>1, <1>2, FS_Subset, FS_CardinalityType

\* A token that is sent is one more in the channel.
LEMMA TokensAfterSend ==
  ASSUME chan \in Seq(Event), NEW e \in Event, Send(e)
  PROVE  Cardinality(Tokens') = Cardinality(Tokens) + (IF e.kind = "Token" THEN 1 ELSE 0)
<1>1. Tokens' = IF e.kind = "Token" THEN Tokens \cup {Len(chan) + 1} ELSE Tokens
  BY Appended DEF Tokens
<1>2. Len(chan) + 1 \notin Tokens
  BY Appended DEF Tokens
<1>3. CASE e.kind = "Token"
  BY <1>1, <1>2, <1>3, TokensFinite, FS_AddElement
<1>4. CASE e.kind # "Token"
  BY <1>1, <1>4, TokensFinite
<1> QED
  BY <1>3, <1>4

\* One that is received is one less.
LEMMA TokensAfterReceive ==
  ASSUME chan \in Seq(Event), chan # <<>>, chan' = Tail(chan)
  PROVE  Cardinality(Tokens') = Cardinality(Tokens) - (IF Head(chan).kind = "Token" THEN 1 ELSE 0)
<1> DEFINE Rest == Tokens \ {1}
           back == [i \in Rest |-> i - 1]
<1>1. /\ IsFiniteSet(Rest)
      /\ Cardinality(Rest) = IF 1 \in Tokens THEN Cardinality(Tokens) - 1 ELSE Cardinality(Tokens)
  BY TokensFinite, FS_RemoveElement
<1>2. 1 \in Tokens <=> Head(chan).kind = "Token"
  BY Shifted DEF Tokens
<1>3. back \in Bijection(Rest, Tokens')
  <2>1. \A i \in Rest : i - 1 \in Tokens'
    BY Shifted DEF Tokens
  <2>2. \A t \in Tokens' : t + 1 \in Rest /\ (t + 1) - 1 = t
    BY Shifted DEF Tokens
  <2>3. \A i, j \in Rest : i - 1 = j - 1 => i = j
    BY Shifted DEF Tokens
  <2>4. back \in [Rest -> Tokens']
    BY <2>1
  <2>5. \A t \in Tokens' : \E i \in Rest : back[i] = t
    BY <2>2
  <2>6. IsInjective(back)
    BY <2>3 DEF IsInjective
  <2> QED
    BY <2>4, <2>5, <2>6 DEF Bijection, Injection, Surjection
<1>4. Cardinality(Tokens') = Cardinality(Rest)
  BY <1>1, <1>3, FS_Bijection DEF ExistsBijection
<1>5. Cardinality(Tokens) \in Nat
  BY TokensFinite
<1> QED
  BY <1>1, <1>2, <1>4, <1>5

Holders == {u \in Units : th[u] \in Holding}

LEMMA HoldersFinite == IsFiniteSet(Holders) /\ Cardinality(Holders) \in Nat
<1>1. Holders \in SUBSET Units
  BY DEF Holders
<1> QED
  BY <1>1, SchedulerAssumption, FS_Subset, FS_CardinalityType

\* A thread takes up a token, or gives it up, when its phase changes sides.
LEMMA HoldersMove ==
  ASSUME NEW u \in Units, th \in [Units -> Phases], NEW to,
         th' = [th EXCEPT ![u] = to]
  PROVE  Cardinality(Holders') = Cardinality(Holders)
           + (IF to \in Holding THEN 1 ELSE 0) - (IF th[u] \in Holding THEN 1 ELSE 0)
<1>1. Holders' = IF to \in Holding THEN Holders \cup {u} ELSE Holders \ {u}
  BY DEF Holders
<1>2. u \in Holders <=> th[u] \in Holding
  BY DEF Holders
<1>3. CASE to \in Holding
  <2>1. Cardinality(Holders \cup {u})
          = IF u \in Holders THEN Cardinality(Holders) ELSE Cardinality(Holders) + 1
    BY HoldersFinite, FS_AddElement
  <2> QED
    BY <1>1, <1>2, <1>3, <2>1, HoldersFinite
<1>4. CASE to \notin Holding
  <2>1. Cardinality(Holders \ {u})
          = IF u \in Holders THEN Cardinality(Holders) - 1 ELSE Cardinality(Holders)
    BY HoldersFinite, FS_RemoveElement
  <2> QED
    BY <1>1, <1>2, <1>4, <2>1, HoldersFinite
<1> QED
  BY <1>3, <1>4


Conserved == pool + Cardinality(Tokens) + tokens + Cardinality(Holders) = Jobs

\* A thread that sends no token and puts into the pool what it stops holding.
LEMMA ThreadConserves ==
  ASSUME Inv, Conserved, NEW u \in Units, NEW from, NEW to, Step(u, from, to),
         chan' = chan \/ \E e \in Event : e.kind # "Token" /\ Send(e),
         pool' = pool + (IF from \in Holding THEN 1 ELSE 0) - (IF to \in Holding THEN 1 ELSE 0)
  PROVE  Conserved'
<1>1. Cardinality(Holders') = Cardinality(Holders)
        + (IF to \in Holding THEN 1 ELSE 0) - (IF from \in Holding THEN 1 ELSE 0)
  BY HoldersMove DEF Step, Inv, Typed
<1>2. Cardinality(Tokens') = Cardinality(Tokens)
  <2>1. CASE chan' = chan
    BY <2>1 DEF Tokens
  <2>2. ASSUME NEW e \in Event, e.kind # "Token", Send(e) PROVE Cardinality(Tokens') = Cardinality(Tokens)
    BY <2>2, TokensAfterSend, TokensFinite DEF Inv, Typed
  <2> QED
    BY <2>1, <2>2
<1>3. /\ tokens' = tokens /\ tokens \in Nat /\ pool \in Nat
      /\ Cardinality(Tokens) \in Nat /\ Cardinality(Holders) \in Nat
  BY TokensFinite, HoldersFinite DEF Step, Inv, Typed
<1> QED
  BY <1>1, <1>2, <1>3, SchedulerAssumption DEF Conserved

LEMMA NextConserves ==
  ASSUME Inv, Conserved, [Next]_vars
  PROVE  Conserved'
<1>0. /\ tokens \in Nat /\ pool \in Nat /\ chan \in Seq(Event) /\ th \in [Units -> Phases]
      /\ Cardinality(Tokens) \in Nat /\ Cardinality(Holders) \in Nat
  BY TokensFinite, HoldersFinite DEF Inv, Typed
<1>1. CASE UNCHANGED vars
  BY <1>1 DEF vars, tokenVars, threadVars, Conserved, Tokens, Holders
<1>2. ASSUME NEW u \in Units, Dispatch(u) PROVE Conserved'
  <2>1. th[u] = "idle"
    BY <1>2 DEF Dispatch, Inv, CountSound
  <2>2. th' = [th EXCEPT ![u] = "rustc"] /\ "rustc" \in Holding /\ "idle" \notin Holding
    BY <1>2 DEF Dispatch, Holding
  <2>3. Cardinality(Holders') = Cardinality(Holders) + 1
    <3>1. Cardinality(Holders') = Cardinality(Holders)
            + (IF "rustc" \in Holding THEN 1 ELSE 0) - (IF th[u] \in Holding THEN 1 ELSE 0)
      BY <1>0, <2>2, HoldersMove
    <3> QED
      BY <1>0, <2>1, <2>2, <3>1
  <2>4. tokens' = tokens - 1 /\ pool' = pool /\ Tokens' = Tokens
    BY <1>2 DEF Dispatch, Tokens
  <2> QED
    BY <1>0, <2>3, <2>4 DEF Conserved
<1>3. CASE Leave \/ AskAndWait
  <2>1. Tokens' = Tokens /\ Holders' = Holders
    BY <1>3 DEF Leave, AskAndWait, threadVars, Tokens, Holders
  <2>2. \/ pool' = pool + tokens /\ tokens' = 0
        \/ pool' = pool /\ tokens' = tokens
    BY <1>3 DEF Leave, AskAndWait
  <2> QED
    BY <1>0, <2>1, <2>2 DEF Conserved
<1>4. CASE OnToken
  <2>1. Cardinality(Tokens') = Cardinality(Tokens) - 1
    BY <1>0, <1>4, TokensAfterReceive DEF OnToken, Receive
  <2>2. tokens' = tokens + 1 /\ pool' = pool /\ Holders' = Holders
    BY <1>4 DEF OnToken, threadVars, Holders
  <2> QED
    BY <1>0, <2>1, <2>2 DEF Conserved
<1>5. CASE OnMeta \/ OnUnlocked \/ OnStored \/ OnDone
  <2>0. chan # <<>> /\ chan' = Tail(chan) /\ Head(chan).kind # "Token"
    BY <1>5 DEF OnMeta, OnUnlocked, OnStored, OnDone, Receive
  <2>1. Cardinality(Tokens') = Cardinality(Tokens)
    BY <1>0, <2>0, TokensAfterReceive
  <2>2. tokens' = tokens /\ pool' = pool /\ Holders' = Holders
    BY <1>5 DEF OnMeta, OnUnlocked, OnStored, OnDone, tokenVars, threadVars, Holders
  <2> QED
    BY <1>0, <2>1, <2>2 DEF Conserved
<1>6. CASE Acquire
  <2>1. Ev("Token", NoUnit, TRUE) \in Event /\ Ev("Token", NoUnit, TRUE).kind = "Token"
    BY DEF Ev, Event, Kinds
  <2>2. Cardinality(Tokens') = Cardinality(Tokens) + 1
    BY <1>0, <1>6, <2>1, TokensAfterSend DEF Acquire
  <2>3. tokens' = tokens /\ pool' = pool - 1 /\ Holders' = Holders
    BY <1>6 DEF Acquire, threadVars, Holders
  <2> QED
    BY <1>0, <2>2, <2>3 DEF Conserved
<1>7. ASSUME NEW u \in Units, Thread(u) PROVE Conserved'
  <2>1. \A k \in Kinds \ {"Token"}, ok \in BOOLEAN :
          Ev(k, u, ok) \in Event /\ Ev(k, u, ok).kind # "Token"
    BY DEF Ev, Event
  <2>2. CASE EmitMeta(u) \/ SendError(u) \/ SendUnlocked(u) \/ SendLateError(u)
             \/ SendDone(u) \/ SendStored(u)
    <3>1. \/ Step(u, "rustc", "meta") \/ Step(u, "err", "reported")
          \/ Step(u, "freed", "unlocked") \/ Step(u, "misread", "withdrawn")
          \/ Step(u, "unlocked", "over") \/ Step(u, "unlocked", "storing")
          \/ Step(u, "storing", "over")
      BY <2>2 DEF EmitMeta, SendError, SendUnlocked, SendLateError, SendDone, SendStored
    <3>2. \E e \in Event : e.kind # "Token" /\ Send(e)
      BY <2>1, <2>2 DEF EmitMeta, SendError, SendUnlocked, SendLateError, SendDone, SendStored,
                        Kinds
    <3>3. pool' = pool
      BY <2>2 DEF EmitMeta, SendError, SendUnlocked, SendLateError, SendDone, SendStored
    <3>4. \E from, to : Step(u, from, to) /\ (from \in Holding <=> to \in Holding)
      BY <3>1 DEF Holding
    <3> QED
      BY <1>0, <3>2, <3>3, <3>4, ThreadConserves
  <2>3. CASE ExecuteOk(u) \/ ExecuteRestores(u) \/ ExecuteErr(u) \/ Misreads(u)
    <3>1. PICK from, to : /\ Step(u, from, to)
                          /\ from \in Holding <=> to \in Holding
      BY <2>3 DEF ExecuteOk, ExecuteRestores, ExecuteErr, Misreads, Holding
    <3>2. pool' = pool /\ chan' = chan
      BY <2>3 DEF ExecuteOk, ExecuteRestores, ExecuteErr, Misreads
    <3> QED
      BY <1>0, <3>1, <3>2, ThreadConserves
  <2>4. CASE DropTokenAfterError(u) \/ DropToken(u)
    <3>1. PICK from, to : Step(u, from, to) /\ from \in Holding /\ to \notin Holding
      BY <2>4 DEF DropTokenAfterError, DropToken, Holding
    <3>2. pool' = pool + 1 /\ chan' = chan
      BY <2>4 DEF DropTokenAfterError, DropToken
    <3> QED
      BY <1>0, <3>1, <3>2, ThreadConserves
  <2> QED
    BY <1>7, <2>2, <2>3, <2>4 DEF Thread
<1> QED
  BY <1>1, <1>2, <1>3, <1>4, <1>5, <1>6, <1>7 DEF Next, Main, Stop

THEOREM ConservedInvariance == Spec => []Conserved
<1>1. Init => Conserved
  <2> SUFFICES ASSUME Init PROVE Conserved
    OBVIOUS
  <2>1. Tokens = {} /\ Holders = {}
    BY DEF Init, Tokens, Holders, Holding
  <2> QED
    BY <2>1, FS_EmptySet, SchedulerAssumption DEF Init, Conserved
<1>2. Inv /\ Conserved /\ [Next]_vars => Conserved'
  BY NextConserves
<1> QED
  BY <1>1, <1>2, Invariance, PTL DEF Spec

\* Job tokens are neither made nor lost: the free ones, those in the channel,
\* those the loop holds and those of the compilers are -j together.
THEOREM TokensAreConserved == Spec => []TokensConserved
<1>1. Conserved => TokensConserved
  BY DEF Conserved, TokensConserved, InChannel, Tokens, Holders
<1> QED
  BY <1>1, ConservedInvariance, PTL

\* While the loop sleeps it holds no token a compiler could use.
THEOREM NoneHoarded == Spec => []NoTokenHoarded
<1>1. Init => NoTokenHoarded
  BY DEF Init, NoTokenHoarded
<1>2. ASSUME Inv, NoTokenHoarded, [Next]_vars PROVE NoTokenHoarded'
  <2>1. CASE UNCHANGED vars \/ Acquire \/ \E u \in Units : Thread(u)
    <3>1. pc' = pc /\ tokens' = tokens
      BY <2>1 DEF vars, tokenVars, Acquire, Thread, EmitMeta, ExecuteOk, ExecuteRestores,
                  ExecuteErr, SendError, DropTokenAfterError, DropToken, SendUnlocked, Misreads,
                  SendLateError, SendDone, SendStored, Step
    <3> QED
      BY <1>2, <3>1 DEF NoTokenHoarded
  <2>2. CASE AskAndWait
    BY <1>2, <2>2 DEF AskAndWait, CanDispatch, NoTokenHoarded, Inv, Typed
  <2>3. CASE Leave \/ \E u \in Units : Dispatch(u)
    <3>1. pc' # "recv"
      BY <2>3 DEF Leave, Dispatch
    <3> QED
      BY <3>1 DEF NoTokenHoarded
  <2>4. CASE OnToken \/ OnMeta \/ OnUnlocked \/ OnStored \/ OnDone
    <3>1. pc' = "loop"
      BY <2>4 DEF OnToken, OnMeta, OnUnlocked, OnStored, OnDone, Receive
    <3> QED
      BY <3>1 DEF NoTokenHoarded
  <2> QED
    BY <1>2, <2>1, <2>2, <2>3, <2>4 DEF Next, Main, Stop
<1> QED
  BY <1>1, <1>2, Invariance, PTL DEF Spec

-----------------------------------------------------------------------------
(* What a thread has sent, and what the loop has heard of it. *)

Waiting(k, u) == \E i \in DOMAIN chan : chan[i].kind = k /\ chan[i].unit = u

Working   == {"rustc", "meta", "ok", "err", "freed", "unlocked", "misread"}
Broken    == {"reported", "failed", "withdrawn"}
Through   == {"storing", "over"}
Unlocking == {"unlocked", "misread", "withdrawn"} \cup Through

Flow(u) ==
  /\ u \in running <=> th[u] \in Working \/ Waiting("Done", u)
  /\ Waiting("Done", u) => u \notin recorded /\ th[u] \in Broken \cup Through
  /\ Waiting("Unlocked", u) => th[u] \in Unlocking /\ u \in running
  /\ Waiting("Stored", u) => /\ th[u] = "over" /\ u \notin restored
                             /\ Waiting("Done", u) \/ u \in recorded
  /\ u \in recorded => th[u] \in Through
  /\ u \in restored => th[u] \in {"ok", "freed", "unlocked", "over"}
  /\ th[u] \in Through => Waiting("Done", u) \/ u \in recorded
  /\ th[u] \in Broken => Waiting("Done", u) \/ failed
  /\ th[u] = "over" /\ u \notin restored /\ Waiting("Done", u) => Waiting("Stored", u)
  /\ th[u] \in Unlocking => \/ Waiting("Unlocked", u)
                            \/ \A v \in Units : u \in Deps(v) => <<u, v>> \in sat
FlowSound == \A u \in Units : Flow(u)

\* A report of success comes from a unit that is through, of failure from one that is not.
Verdicts == \A i \in DOMAIN chan : chan[i].kind = "Done" =>
              (chan[i].ok <=> th[chan[i].unit] \in Through)

\* A unit's events stay in the order they were sent, and none is there twice.
InOrder(k, l) == \A i, j \in DOMAIN chan :
  chan[i].kind = k /\ chan[j].kind = l /\ chan[i].unit = chan[j].unit => i < j
Once(k) == \A i, j \in DOMAIN chan :
  chan[i].kind = k /\ chan[j].kind = k /\ chan[i].unit = chan[j].unit => i = j
ChanOrder == /\ InOrder("Unlocked", "Done") /\ InOrder("Done", "Stored")
             /\ Once("Unlocked") /\ Once("Done") /\ Once("Stored")

FailedSound == failed => \E u \in Units : th[u] \in Broken
ExitSound   == pc = "exit" => running = {} /\ storing = 0 /\ (ready = {} \/ Stopping)

FlowInv == FlowSound /\ Verdicts /\ ChanOrder /\ FailedSound /\ ExitSound

LEMMA WaitingAfterSend ==
  ASSUME chan \in Seq(Event), NEW e \in Event, Send(e)
  PROVE  \A k, u : Waiting(k, u)' <=> Waiting(k, u) \/ (e.kind = k /\ e.unit = u)
<1> TAKE k, u
<1>1. Waiting(k, u)' => Waiting(k, u) \/ (e.kind = k /\ e.unit = u)
  BY Appended DEF Waiting
<1>2. Waiting(k, u) => Waiting(k, u)'
  BY Appended DEF Waiting
<1>3. e.kind = k /\ e.unit = u => Waiting(k, u)'
  <2>1. Len(chan) + 1 \in DOMAIN chan' /\ chan'[Len(chan) + 1] = e
    BY Appended
  <2> QED
    BY <2>1 DEF Waiting
<1> QED
  BY <1>1, <1>2, <1>3

LEMMA WaitingAfterReceive ==
  ASSUME chan \in Seq(Event), chan # <<>>, chan' = Tail(chan)
  PROVE  /\ \A k, u : Waiting(k, u)' => Waiting(k, u)
         /\ \A k, u : Waiting(k, u) => Waiting(k, u)' \/ (Head(chan).kind = k /\ Head(chan).unit = u)
         /\ Waiting(Head(chan).kind, Head(chan).unit)
         /\ \A k, u : Once(k) /\ Head(chan).kind = k /\ Head(chan).unit = u => ~Waiting(k, u)'
         /\ \A k, l : InOrder(k, l) /\ Head(chan).kind = l /\ k # l => ~Waiting(k, Head(chan).unit)
<1>1. \A k, u : Waiting(k, u)' => Waiting(k, u)
  <2> SUFFICES ASSUME NEW k, NEW u, Waiting(k, u)' PROVE Waiting(k, u)
    OBVIOUS
  <2>1. PICK i \in DOMAIN chan' : chan'[i].kind = k /\ chan'[i].unit = u
    BY DEF Waiting
  <2>2. i + 1 \in DOMAIN chan /\ chan[i + 1] = chan'[i]
    BY Shifted
  <2> QED
    BY <2>1, <2>2 DEF Waiting
<1>2. \A k, u : Waiting(k, u) => Waiting(k, u)' \/ (Head(chan).kind = k /\ Head(chan).unit = u)
  <2> SUFFICES ASSUME NEW k, NEW u, Waiting(k, u)
               PROVE  Waiting(k, u)' \/ (Head(chan).kind = k /\ Head(chan).unit = u)
    OBVIOUS
  <2>1. PICK i \in DOMAIN chan : chan[i].kind = k /\ chan[i].unit = u
    BY DEF Waiting
  <2>2. CASE i = 1
    BY <2>1, <2>2, Shifted
  <2>3. CASE i # 1
    <3>1. i - 1 \in DOMAIN chan' /\ chan'[i - 1] = chan[i]
      BY <2>3, Shifted
    <3> QED
      BY <2>1, <3>1 DEF Waiting
  <2> QED
    BY <2>2, <2>3
<1>3. Waiting(Head(chan).kind, Head(chan).unit)
  BY Shifted DEF Waiting
<1>4. \A k, u : Once(k) /\ Head(chan).kind = k /\ Head(chan).unit = u => ~Waiting(k, u)'
  <2> SUFFICES ASSUME NEW k, NEW u, Once(k), Head(chan).kind = k, Head(chan).unit = u,
                      Waiting(k, u)'
               PROVE  FALSE
    OBVIOUS
  <2>1. PICK i \in DOMAIN chan' : chan'[i].kind = k /\ chan'[i].unit = u
    BY DEF Waiting
  <2>2. i + 1 \in DOMAIN chan /\ chan[i + 1] = chan'[i] /\ i + 1 # 1 /\ 1 \in DOMAIN chan
    BY Shifted
  <2> QED
    BY <2>1, <2>2, Shifted DEF Once
<1>5. \A k, l : InOrder(k, l) /\ Head(chan).kind = l /\ k # l => ~Waiting(k, Head(chan).unit)
  BY Shifted DEF Waiting, InOrder
<1> QED
  BY <1>1, <1>2, <1>3, <1>4, <1>5

\* Receiving keeps the order of what is left.
LEMMA OrderAfterReceive ==
  ASSUME chan \in Seq(Event), chan # <<>>, chan' = Tail(chan), ChanOrder
  PROVE  ChanOrder'
<1>1. \A i \in DOMAIN chan' : i \in Nat /\ i + 1 \in DOMAIN chan /\ chan'[i] = chan[i + 1]
  BY Shifted
<1>2. \A i, j \in DOMAIN chan' : (i + 1 < j + 1 => i < j) /\ (i + 1 = j + 1 => i = j)
  BY <1>1
<1> QED
  BY <1>1, <1>2 DEF ChanOrder, InOrder, Once

\* So does sending, when what comes later is not there yet.
LEMMA OrderAfterSend ==
  ASSUME chan \in Seq(Event), NEW e \in Event, Send(e), ChanOrder,
         e.kind \in {"Unlocked", "Done", "Stored"} => ~Waiting(e.kind, e.unit),
         e.kind = "Unlocked" => ~Waiting("Done", e.unit),
         e.kind = "Done" => ~Waiting("Stored", e.unit)
  PROVE  ChanOrder'
<1>1. /\ \A i \in DOMAIN chan' : \/ i \in DOMAIN chan /\ chan'[i] = chan[i]
                                 \/ i = Len(chan) + 1 /\ chan'[i] = e
      /\ \A i \in DOMAIN chan : i < Len(chan) + 1
  <2>1. \A i \in 1 .. Len(chan) + 1 : i \in 1 .. Len(chan) \/ i = Len(chan) + 1
    BY Appended
  <2> QED
    BY <2>1, Appended
<1>2. \A k, l \in {"Unlocked", "Done", "Stored"} :
        InOrder(k, l) /\ k # l /\ (e.kind = k => ~Waiting(l, e.unit)) => InOrder(k, l)'
  BY <1>1 DEF InOrder, Waiting
<1>3. \A k \in {"Unlocked", "Done", "Stored"} :
        Once(k) /\ (e.kind = k => ~Waiting(k, e.unit)) => Once(k)'
  BY <1>1 DEF Once, Waiting
<1> QED
  BY <1>2, <1>3 DEF ChanOrder

\* A step of u's thread leaves the others' flow alone.
LEMMA OthersFlow ==
  ASSUME Inv, FlowSound, NEW u \in Units, NEW to, th' = [th EXCEPT ![u] = to],
         UNCHANGED <<recorded, failed, sat>>,
         \A v \in Units \ {u} : v \in running' <=> v \in running,
         \A v \in Units \ {u} : v \in restored' <=> v \in restored,
         \A k : \A v \in Units \ {u} : Waiting(k, v)' <=> Waiting(k, v)
  PROVE  \A v \in Units \ {u} : Flow(v)'
<1> SUFFICES ASSUME NEW v \in Units \ {u} PROVE Flow(v)'
  OBVIOUS
<1>1. th'[v] = th[v]
  BY DEF Inv, Typed
<1>2. Flow(v)
  BY DEF FlowSound
<1> QED
  BY <1>1, <1>2 DEF Flow

\* What every step of a thread that keeps its promises preserves.
LEMMA ThreadFlow ==
  ASSUME Inv, FlowInv, NEW u \in Units, NEW from \in Phases \ {"idle"}, NEW to \in Phases,
         Step(u, from, to),
         from \in Broken \cup Through => to \in {from, "failed", "over"},
         from = "reported" => to = "failed", from = "storing" => to = "over",
         from \notin {"over", "failed", "withdrawn"},
         \A v \in Units \ {u} : v \in restored' <=> v \in restored,
         chan' \in Seq(Event),
         \A k : \A v \in Units \ {u} : Waiting(k, v)' <=> Waiting(k, v),
         Flow(u)', Verdicts', ChanOrder'
  PROVE  FlowInv'
<1>1. /\ th' = [th EXCEPT ![u] = to] /\ th[u] = from /\ th \in [Units -> Phases]
      /\ UNCHANGED <<pc, recorded, failed, sat, running, storing, ready>>
  BY DEF Step, loopVars, Inv, Typed
<1>2. FlowSound'
  BY <1>1, OthersFlow DEF FlowInv, FlowSound
<1>3. FailedSound'
  <2>1. \A v \in Units : th[v] \in Broken => th'[v] \in Broken
    BY <1>1 DEF Broken, Through
  <2> QED
    BY <1>1, <2>1 DEF FlowInv, FailedSound
<1>4. ExitSound'
  BY <1>1 DEF FlowInv, ExitSound, Stopping
<1> QED
  BY <1>2, <1>3, <1>4 DEF FlowInv

\* Reports of other units, and of this one, keep their truth.
LEMMA VerdictsKept ==
  ASSUME chan \in Seq(Event), Verdicts, th \in [Units -> Phases],
         NEW u \in Units, NEW to, th' = [th EXCEPT ![u] = to],
         Waiting("Done", u) => (to \in Through <=> th[u] \in Through),
         chan' = chan \/ \E e \in Event : Send(e) /\ (e.kind = "Done" => e.unit = u /\ (e.ok <=> to \in Through)),
         \A i \in DOMAIN chan : chan[i].kind = "Done" => chan[i].unit \in Units
  PROVE  Verdicts'
<1>1. \A i \in DOMAIN chan : chan[i].kind = "Done" => (chan[i].ok <=> th'[chan[i].unit] \in Through)
  <2> SUFFICES ASSUME NEW i \in DOMAIN chan, chan[i].kind = "Done"
               PROVE  chan[i].ok <=> th'[chan[i].unit] \in Through
    OBVIOUS
  <2>1. chan[i].ok <=> th[chan[i].unit] \in Through
    BY DEF Verdicts
  <2>2. chan[i].unit = u => Waiting("Done", u)
    BY DEF Waiting
  <2>3. th'[chan[i].unit] = IF chan[i].unit = u THEN to ELSE th[chan[i].unit]
    OBVIOUS
  <2> QED
    BY <2>1, <2>2, <2>3
<1>2. CASE chan' = chan
  BY <1>1, <1>2 DEF Verdicts
<1>3. ASSUME NEW e \in Event, Send(e), e.kind = "Done" => e.unit = u /\ (e.ok <=> to \in Through)
      PROVE  Verdicts'
  <2>1. \A i \in DOMAIN chan' : \/ i \in DOMAIN chan /\ chan'[i] = chan[i]
                                \/ chan'[i] = e
    BY <1>3, Sending
  <2> QED
    BY <1>1, <1>3, <2>1 DEF Verdicts
<1> QED
  BY <1>2, <1>3

\* The steps of a thread that send nothing.
LEMMA SilentFlow ==
  ASSUME Inv, FlowInv, NEW u \in Units, NEW from, NEW to, Step(u, from, to), chan' = chan,
         \/ /\ from \in {"rustc", "meta"} /\ to \in {"ok", "err"} /\ restored' = restored
         \/ /\ from = "rustc" /\ to = "ok" /\ restored' = restored \cup {u}
         \/ /\ <<from, to>> \in {<<"ok", "freed">>, <<"unlocked", "misread">>, <<"reported", "failed">>}
            /\ from = "unlocked" => u \notin restored
            /\ restored' = restored
  PROVE  FlowInv'
<1> USE DEF Phases, Ended, Working, Broken, Through, Unlocking
<1>0. /\ th \in [Units -> Phases] /\ th[u] = from /\ th' = [th EXCEPT ![u] = to]
      /\ chan \in Seq(Event) /\ from \in Phases \ {"idle"} /\ to \in Phases
      /\ UNCHANGED <<recorded, failed, sat, running>>
  BY DEF Step, loopVars, Inv, Typed
<1>1. \A k, v : Waiting(k, v)' <=> Waiting(k, v)
  BY DEF Waiting
<1>2. Flow(u)
  BY DEF FlowInv, FlowSound
<1>3. Flow(u)'
  <2>1. th'[u] = to
    BY <1>0
  <2> QED
    BY <1>0, <1>1, <1>2, <2>1 DEF Flow
<1>4. Waiting("Done", u) => (to \in Through <=> th[u] \in Through)
  BY <1>0, <1>2 DEF Flow
<1>5. Verdicts'
  <2>1. \A i \in DOMAIN chan : chan[i].kind = "Done" => chan[i].unit \in Units
    BY DEF Inv, ChanSound, Backed
  <2> QED
    BY <1>0, <1>4, <2>1, VerdictsKept DEF FlowInv
<1>6. ChanOrder'
  BY DEF FlowInv, ChanOrder, InOrder, Once
<1> QED
  BY <1>0, <1>1, <1>3, <1>5, <1>6, ThreadFlow

\* Those that send one event.
LEMMA SendingFlow ==
  ASSUME Inv, FlowInv, NEW u \in Units, NEW from, NEW to, Step(u, from, to),
         NEW k \in Kinds, NEW ok \in BOOLEAN, Send(Ev(k, u, ok)), restored' = restored,
         \/ from = "rustc" /\ to = "meta" /\ k = "Meta"
         \/ from = "err" /\ to = "reported" /\ k = "Done" /\ ~ok
         \/ from = "freed" /\ to = "unlocked" /\ k = "Unlocked"
         \/ from = "misread" /\ to = "withdrawn" /\ k = "Done" /\ ~ok
         \/ from = "unlocked" /\ to = "storing" /\ k = "Done" /\ ok /\ u \notin restored
         \/ from = "unlocked" /\ to = "over" /\ k = "Done" /\ ok /\ u \in restored
         \/ from = "storing" /\ to = "over" /\ k = "Stored"
  PROVE  FlowInv'
<1> USE DEF Phases, Ended, Working, Broken, Through, Unlocking
<1> DEFINE e == Ev(k, u, ok)
<1>0. /\ th \in [Units -> Phases] /\ th[u] = from /\ th' = [th EXCEPT ![u] = to]
      /\ chan \in Seq(Event) /\ from \in Phases \ {"idle"} /\ to \in Phases
      /\ UNCHANGED <<recorded, failed, sat, running>>
  BY DEF Step, loopVars, Inv, Typed
<1>1. e \in Event /\ e.kind = k /\ e.unit = u /\ e.ok = ok
  BY DEF Ev, Event
<1> HIDE DEF e
<1>2. \A l, v : Waiting(l, v)' <=> Waiting(l, v) \/ (k = l /\ u = v)
  BY <1>0, <1>1, WaitingAfterSend DEF e
<1>3. Flow(u)
  BY DEF FlowInv, FlowSound
<1>4. Flow(u)'
  <2>1. th'[u] = to
    BY <1>0
  <2>2. /\ Waiting("Done", u)' <=> Waiting("Done", u) \/ k = "Done"
        /\ Waiting("Unlocked", u)' <=> Waiting("Unlocked", u) \/ k = "Unlocked"
        /\ Waiting("Stored", u)' <=> Waiting("Stored", u) \/ k = "Stored"
    BY <1>2
  <2> QED
    BY <1>0, <1>3, <2>1, <2>2 DEF Flow
<1>5. Verdicts'
  <2>1. Waiting("Done", u) => (to \in Through <=> th[u] \in Through)
    BY <1>0, <1>3 DEF Flow
  <2>2. e.kind = "Done" => e.unit = u /\ (e.ok <=> to \in Through)
    BY <1>1
  <2>3. \A i \in DOMAIN chan : chan[i].kind = "Done" => chan[i].unit \in Units
    BY DEF Inv, ChanSound, Backed
  <2>4. Send(e)
    BY DEF e
  <2> QED
    BY <1>0, <1>1, <2>1, <2>2, <2>3, <2>4, VerdictsKept DEF FlowInv
<1>6. ChanOrder'
  <2>1. /\ k \in {"Unlocked", "Done", "Stored"} => ~Waiting(k, u)
        /\ k = "Unlocked" => ~Waiting("Done", u)
        /\ k = "Done" => ~Waiting("Stored", u)
    BY <1>0, <1>3 DEF Flow
  <2>2. Send(e)
    BY DEF e
  <2> QED
    BY <1>0, <1>1, <2>1, <2>2, OrderAfterSend DEF FlowInv
<1>7. \A l : \A v \in Units \ {u} : Waiting(l, v)' <=> Waiting(l, v)
  BY <1>2
<1>8. chan' \in Seq(Event)
  BY <1>0, <1>1, Sending DEF e
<1> QED
  BY <1>0, <1>4, <1>5, <1>6, <1>7, <1>8, ThreadFlow

LEMMA ThreadKeepsFlow ==
  ASSUME Inv, FlowInv, NEW u \in Units, Thread(u)
  PROVE  FlowInv'
<1>1. CASE ExecuteOk(u) \/ ExecuteRestores(u) \/ ExecuteErr(u) \/ DropTokenAfterError(u)
           \/ DropToken(u) \/ Misreads(u)
  <2>1. chan' = chan
    BY <1>1 DEF ExecuteOk, ExecuteRestores, ExecuteErr, DropTokenAfterError, DropToken, Misreads
  <2>2. \/ /\ \E from \in {"rustc", "meta"}, to \in {"ok", "err"} : Step(u, from, to)
           /\ restored' = restored
        \/ Step(u, "rustc", "ok") /\ restored' = restored \cup {u}
        \/ Step(u, "ok", "freed") /\ restored' = restored
        \/ Step(u, "unlocked", "misread") /\ u \notin restored /\ restored' = restored
        \/ Step(u, "reported", "failed") /\ restored' = restored
    BY <1>1 DEF ExecuteOk, ExecuteRestores, ExecuteErr, DropTokenAfterError, DropToken, Misreads
  <2> QED
    BY <2>1, <2>2, SilentFlow
<1>2. CASE EmitMeta(u) \/ SendError(u) \/ SendUnlocked(u) \/ SendLateError(u)
           \/ SendDone(u) \/ SendStored(u)
  <2>1. restored' = restored
    BY <1>2 DEF EmitMeta, SendError, SendUnlocked, SendLateError, SendDone, SendStored
  <2>2. \/ Step(u, "rustc", "meta") /\ Send(Ev("Meta", u, TRUE))
        \/ Step(u, "err", "reported") /\ Send(Ev("Done", u, FALSE))
        \/ Step(u, "freed", "unlocked") /\ Send(Ev("Unlocked", u, TRUE))
        \/ Step(u, "misread", "withdrawn") /\ Send(Ev("Done", u, FALSE))
        \/ Step(u, "unlocked", "storing") /\ u \notin restored /\ Send(Ev("Done", u, TRUE))
        \/ Step(u, "unlocked", "over") /\ u \in restored /\ Send(Ev("Done", u, TRUE))
        \/ Step(u, "storing", "over") /\ \E ok \in BOOLEAN : Send(Ev("Stored", u, ok))
    BY <1>2 DEF EmitMeta, SendError, SendUnlocked, SendLateError, SendDone, SendStored
  <2> QED
    BY <2>1, <2>2, SendingFlow DEF Kinds
<1> QED
  BY <1>1, <1>2 DEF Thread

\* The loop starts a unit, leaves, or goes to sleep.
LEMMA LoopKeepsFlow ==
  ASSUME Inv, FlowInv, Leave \/ AskAndWait \/ \E u \in Units : Dispatch(u)
  PROVE  FlowInv'
<1> USE DEF Working, Broken, Through, Unlocking
<1>0. /\ chan' = chan
      /\ UNCHANGED <<recorded, failed, sat, storing, restored>>
  BY DEF Leave, AskAndWait, Dispatch, loopVars, threadVars
<1>1. /\ \A k, v : Waiting(k, v)' <=> Waiting(k, v)
      /\ ChanOrder'
  BY <1>0 DEF Waiting, FlowInv, ChanOrder, InOrder, Once
<1>2. ASSUME NEW u \in Units, Dispatch(u) PROVE FlowInv'
  <2>1. th[u] = "idle" /\ th' = [th EXCEPT ![u] = "rustc"] /\ th \in [Units -> Phases]
        /\ running' = running \cup {u} /\ pc' # "exit"
    BY <1>2 DEF Dispatch, Inv, Typed, CountSound
  <2>2. Flow(u) /\ ~Waiting("Done", u)
    BY <2>1 DEF FlowInv, FlowSound, Flow
  <2>3. th'[u] = "rustc"
    BY <2>1
  <2>4. Flow(u)'
    BY <1>0, <1>1, <2>1, <2>2, <2>3 DEF Flow
  <2>5. FlowSound'
    BY <1>0, <1>1, <2>1, <2>4, OthersFlow DEF FlowInv, FlowSound
  <2>6. Verdicts'
    <3>1. \A i \in DOMAIN chan : chan[i].kind = "Done" => chan[i].unit \in Units
      BY DEF Inv, ChanSound, Backed
    <3> QED
      BY <1>0, <2>1, <2>2, <3>1, VerdictsKept DEF FlowInv, Inv, Typed
  <2>7. FailedSound'
    <3>1. \A v \in Units : th[v] \in Broken => th'[v] \in Broken
      BY <2>1
    <3> QED
      BY <1>0, <3>1 DEF FlowInv, FailedSound
  <2>8. ExitSound'
    BY <2>1 DEF ExitSound
  <2> QED
    BY <1>1, <2>5, <2>6, <2>7, <2>8 DEF FlowInv
<1>3. CASE Leave \/ AskAndWait
  <2>1. th' = th /\ running' = running /\ ready' = ready
    BY <1>3 DEF Leave, AskAndWait, loopVars, threadVars
  <2>2. FlowSound'
    BY <1>0, <1>1, <2>1 DEF FlowInv, FlowSound, Flow
  <2>3. Verdicts' /\ FailedSound'
    BY <1>0, <2>1 DEF FlowInv, Verdicts, FailedSound
  <2>4. ExitSound'
    BY <1>0, <1>3, <2>1 DEF Leave, AskAndWait, Finished, ExitSound, Stopping
  <2> QED
    BY <1>1, <2>2, <2>3, <2>4 DEF FlowInv
<1> QED
  BY <1>2, <1>3

\* What the loop makes of an event.
LEMMA EventKeepsFlow ==
  ASSUME Inv, FlowInv, OnToken \/ OnMeta \/ OnUnlocked \/ OnStored \/ OnDone
  PROVE  FlowInv'
<1> USE DEF Working, Broken, Through, Unlocking
<1> DEFINE e == Head(chan)
           d == Head(chan).unit
<1>0. /\ chan \in Seq(Event) /\ chan # <<>> /\ chan' = Tail(chan) /\ pc' = "loop"
      /\ th' = th /\ restored' = restored /\ ChanOrder
  BY DEF OnToken, OnMeta, OnUnlocked, OnStored, OnDone, Receive, threadVars, Inv, Typed, FlowInv
<1>1. ChanOrder'
  BY <1>0, OrderAfterReceive
<1>2. ExitSound'
  BY <1>0 DEF ExitSound
<1>3. /\ \A k, u : Waiting(k, u)' => Waiting(k, u)
      /\ \A k, u : Waiting(k, u) => Waiting(k, u)' \/ (e.kind = k /\ d = u)
      /\ Waiting(e.kind, d)
      /\ \A k, u : k \in {"Unlocked", "Done", "Stored"} /\ e.kind = k /\ d = u => ~Waiting(k, u)'
      /\ e.kind = "Done" => ~Waiting("Unlocked", d)
      /\ e.kind = "Stored" => ~Waiting("Done", d)
  BY <1>0, WaitingAfterReceive DEF ChanOrder
<1>4. Verdicts'
  BY <1>0, Shifted DEF FlowInv, Verdicts
<1>5. CASE OnToken \/ OnMeta
  <2>1. e.kind \notin {"Unlocked", "Done", "Stored"}
    BY <1>5 DEF OnToken, OnMeta, Receive
  <2>2. \A k \in {"Unlocked", "Done", "Stored"} : \A u : Waiting(k, u)' <=> Waiting(k, u)
    BY <1>3, <2>1
  <2>3. sat \subseteq sat' /\ UNCHANGED <<running, recorded, failed>>
    BY <1>5 DEF OnToken, OnMeta, loopVars, Satisfy
  <2>4. FlowSound'
    <3> SUFFICES ASSUME NEW u \in Units PROVE Flow(u)'
      BY DEF FlowSound
    <3>1. Flow(u)
      BY DEF FlowInv, FlowSound
    <3> QED
      BY <1>0, <2>2, <2>3, <3>1 DEF Flow
  <2>5. FailedSound'
    BY <1>0, <2>3 DEF FlowInv, FailedSound
  <2> QED
    BY <1>1, <1>2, <1>4, <2>4, <2>5 DEF FlowInv
<1>6. CASE OnUnlocked
  <2>1. e.kind = "Unlocked" /\ UNCHANGED <<running, recorded, failed>>
    BY <1>6 DEF OnUnlocked, Receive
  <2>2. /\ sat \subseteq sat'
        /\ \A v \in Units : d \in Deps(v) => <<d, v>> \in sat'
    BY <1>6 DEF OnUnlocked, Satisfy, Released, Deps
  <2>3. FlowSound'
    <3> SUFFICES ASSUME NEW u \in Units PROVE Flow(u)'
      BY DEF FlowSound
    <3>1. Flow(u)
      BY DEF FlowInv, FlowSound
    <3>2. \A k \in {"Done", "Stored"} : Waiting(k, u)' <=> Waiting(k, u)
      BY <1>3, <2>1
    <3>3. u # d => (Waiting("Unlocked", u)' <=> Waiting("Unlocked", u))
      BY <1>3
    <3>4. Waiting("Unlocked", u)' => Waiting("Unlocked", u)
      BY <1>3
    <3> QED
      BY <1>0, <2>1, <2>2, <3>1, <3>2, <3>3, <3>4 DEF Flow
  <2>4. FailedSound'
    BY <1>0, <2>1 DEF FlowInv, FailedSound
  <2> QED
    BY <1>1, <1>2, <1>4, <2>3, <2>4 DEF FlowInv
<1>7. CASE OnStored
  <2>1. e.kind = "Stored" /\ UNCHANGED <<running, recorded, failed, sat>>
    BY <1>7 DEF OnStored, Receive
  <2>2. FlowSound'
    <3> SUFFICES ASSUME NEW u \in Units PROVE Flow(u)'
      BY DEF FlowSound
    <3>1. Flow(u)
      BY DEF FlowInv, FlowSound
    <3>2. \A k \in {"Done", "Unlocked"} : Waiting(k, u)' <=> Waiting(k, u)
      BY <1>3, <2>1
    <3>3. /\ u # d => (Waiting("Stored", u)' <=> Waiting("Stored", u))
          /\ Waiting("Stored", u)' => Waiting("Stored", u)
          /\ u = d => ~Waiting("Done", u)
      BY <1>3, <2>1
    <3> QED
      BY <1>0, <2>1, <3>1, <3>2, <3>3 DEF Flow
  <2>3. FailedSound'
    BY <1>0, <2>1 DEF FlowInv, FailedSound
  <2> QED
    BY <1>1, <1>2, <1>4, <2>2, <2>3 DEF FlowInv
<1>8. CASE OnDone
  <2>1. /\ e.kind = "Done" /\ running' = running \ {d} /\ sat' = sat
        /\ recorded' = IF e.ok THEN recorded \cup {d} ELSE recorded
        /\ failed' = IF e.ok THEN failed ELSE TRUE
    BY <1>8 DEF OnDone, Receive
  <2>2. d \in Units /\ (e.ok <=> th[d] \in Through) /\ th[d] \in Broken \cup Through
    <3>1. Backed(e) /\ (e.ok <=> th[d] \in Through)
      BY <1>0, <2>1, Shifted DEF Inv, ChanSound, FlowInv, Verdicts
    <3>2. d \in Units
      BY <2>1, <3>1 DEF Backed
    <3>3. th[d] \in Broken \cup Through
      BY <1>3, <2>1, <3>2 DEF FlowInv, FlowSound, Flow
    <3> QED
      BY <3>1, <3>2, <3>3
  <2>3. FlowSound'
    <3> SUFFICES ASSUME NEW u \in Units PROVE Flow(u)'
      BY DEF FlowSound
    <3>1. Flow(u)
      BY DEF FlowInv, FlowSound
    <3>2. \A k \in {"Unlocked", "Stored"} : Waiting(k, u)' <=> Waiting(k, u)
      BY <1>3, <2>1
    <3>3. /\ u # d => (Waiting("Done", u)' <=> Waiting("Done", u))
          /\ Waiting("Done", u)' => Waiting("Done", u)
          /\ u = d => ~Waiting("Done", u)' /\ ~Waiting("Unlocked", u)
      BY <1>3, <2>1
    <3>4. CASE u = d
      BY <1>0, <2>1, <2>2, <3>1, <3>2, <3>3, <3>4 DEF Flow
    <3>5. CASE u # d
      BY <1>0, <2>1, <3>1, <3>2, <3>3, <3>5 DEF Flow
    <3> QED
      BY <3>4, <3>5
  <2>4. FailedSound'
    BY <1>0, <2>1, <2>2 DEF FlowInv, FailedSound
  <2> QED
    BY <1>1, <1>2, <1>4, <2>3, <2>4 DEF FlowInv
<1> QED
  BY <1>5, <1>6, <1>7, <1>8

\* A token on its way says nothing about units.
LEMMA AcquireKeepsFlow ==
  ASSUME Inv, FlowInv, Acquire
  PROVE  FlowInv'
<1> DEFINE e == Ev("Token", NoUnit, TRUE)
<1>0. /\ chan \in Seq(Event) /\ e \in Event /\ e.kind = "Token"
      /\ UNCHANGED <<pc, th, restored, sat, ready, running, storing, failed, recorded>>
  BY DEF Acquire, loopVars, threadVars, Inv, Typed, Ev, Event, Kinds
<1>1. Send(e)
  BY DEF Acquire
<1> HIDE DEF e
<1>2. \A k \in {"Unlocked", "Done", "Stored"} : \A u : Waiting(k, u)' <=> Waiting(k, u)
  BY <1>0, <1>1, WaitingAfterSend
<1>3. FlowSound'
  <2> SUFFICES ASSUME NEW u \in Units PROVE Flow(u)'
    BY DEF FlowSound
  <2>1. Flow(u)
    BY DEF FlowInv, FlowSound
  <2> QED
    BY <1>0, <1>2, <2>1 DEF Flow
<1>4. Verdicts'
  <2>1. \A i \in DOMAIN chan' : \/ i \in DOMAIN chan /\ chan'[i] = chan[i]
                                \/ chan'[i] = e
    BY <1>0, <1>1, Sending
  <2> QED
    BY <1>0, <2>1 DEF FlowInv, Verdicts
<1>5. ChanOrder'
  BY <1>0, <1>1, OrderAfterSend DEF FlowInv
<1>6. FailedSound' /\ ExitSound'
  BY <1>0 DEF FlowInv, FailedSound, ExitSound, Stopping
<1> QED
  BY <1>3, <1>4, <1>5, <1>6 DEF FlowInv

LEMMA InitFlow == Init => FlowInv
<1> SUFFICES ASSUME Init PROVE FlowInv
  OBVIOUS
<1>1. /\ chan = <<>> /\ DOMAIN chan = {} /\ running = {} /\ storing = 0 /\ recorded = {}
      /\ restored = {} /\ failed = FALSE /\ \A u \in Units : th[u] = "idle"
      /\ pc = "exit" => ready = {}
  BY DEF Init
<1>2. \A k, u : ~Waiting(k, u)
  BY <1>1 DEF Waiting
<1>3. FlowSound
  BY <1>1, <1>2 DEF FlowSound, Flow, Working, Broken, Through, Unlocking
<1>4. Verdicts /\ ChanOrder
  BY <1>1 DEF Verdicts, ChanOrder, InOrder, Once
<1>5. FailedSound /\ ExitSound
  BY <1>1 DEF FailedSound, ExitSound
<1> QED
  BY <1>3, <1>4, <1>5 DEF FlowInv

LEMMA NextFlow == Inv /\ FlowInv /\ [Next]_vars => FlowInv'
<1> SUFFICES ASSUME Inv, FlowInv, [Next]_vars PROVE FlowInv'
  OBVIOUS
<1>1. CASE UNCHANGED vars
  <2>1. UNCHANGED <<pc, chan, th, restored, sat, ready, running, storing, failed, recorded>>
    BY <1>1 DEF vars, loopVars, threadVars
  <2>2. \A k, u : Waiting(k, u)' <=> Waiting(k, u)
    BY <2>1 DEF Waiting
  <2>3. FlowSound'
    BY <2>1, <2>2 DEF FlowInv, FlowSound, Flow
  <2>4. Verdicts' /\ ChanOrder'
    BY <2>1 DEF FlowInv, Verdicts, ChanOrder, InOrder, Once
  <2>5. FailedSound' /\ ExitSound'
    BY <2>1 DEF FlowInv, FailedSound, ExitSound, Stopping
  <2> QED
    BY <2>3, <2>4, <2>5 DEF FlowInv
<1>2. CASE Leave \/ AskAndWait \/ \E u \in Units : Dispatch(u)
  BY <1>2, LoopKeepsFlow
<1>3. CASE OnToken \/ OnMeta \/ OnUnlocked \/ OnStored \/ OnDone
  BY <1>3, EventKeepsFlow
<1>4. CASE Acquire
  BY <1>4, AcquireKeepsFlow
<1>5. CASE \E u \in Units : Thread(u)
  BY <1>5, ThreadKeepsFlow
<1> QED
  BY <1>1, <1>2, <1>3, <1>4, <1>5 DEF Next, Main, Stop

THEOREM FlowInvariance == Spec => []FlowInv
BY InitFlow, NextFlow, Invariance, PTL DEF Spec

-----------------------------------------------------------------------------
(* Outputs on their way to the store. *)

BeingStored == {u \in recorded \ restored : th[u] = "storing" \/ Waiting("Stored", u)}

LEMMA BeingStoredFinite ==
  ASSUME Inv
  PROVE  IsFiniteSet(BeingStored) /\ Cardinality(BeingStored) \in Nat
<1>1. BeingStored \subseteq Units
  BY DEF BeingStored, Inv, Typed
<1> QED
  BY <1>1, SchedulerAssumption, FS_Subset, FS_CardinalityType

\* What a thread does adds nothing to the outputs the loop counts, and takes none away:
\* before its Done is handled the unit is not recorded, and from then on it is storing
\* or its Stored is on the way.
LEMMA ThreadKeepsBeingStored ==
  ASSUME Inv, FlowInv, NEW u \in Units, Thread(u)
  PROVE  BeingStored' = BeingStored /\ storing' = storing
<1> USE DEF Through, Broken, Working, Unlocking
<1>1. /\ recorded' = recorded /\ storing' = storing
      /\ \A v \in Units \ {u} : th'[v] = th[v] /\ (v \in restored' <=> v \in restored)
      /\ th \in [Units -> Phases] /\ chan \in Seq(Event) /\ recorded \subseteq Units
  BY DEF Thread, EmitMeta, ExecuteOk, ExecuteRestores, ExecuteErr, SendError, DropTokenAfterError,
         DropToken, SendUnlocked, Misreads, SendLateError, SendDone, SendStored, Step, loopVars,
         Inv, Typed
<1>2. Flow(u) /\ FlowSound
  BY DEF FlowInv, FlowSound
<1>3. CASE ~SendStored(u)
  <2>2. u \notin recorded
    BY <1>1, <1>2, <1>3 DEF Flow, Thread, EmitMeta, ExecuteOk, ExecuteRestores, ExecuteErr, SendError,
         DropTokenAfterError, DropToken, SendUnlocked, Misreads, SendLateError, SendDone, Step
  <2>3. \A v : Waiting("Stored", v)' <=> Waiting("Stored", v)
    <3>1. \A k \in Kinds, ok \in BOOLEAN : Ev(k, u, ok) \in Event /\ Ev(k, u, ok).kind = k
      BY DEF Ev, Event
    <3>2. \/ chan' = chan
          \/ \E k \in Kinds \ {"Stored"}, ok \in BOOLEAN : Send(Ev(k, u, ok))
      BY <1>3 DEF Thread, EmitMeta, ExecuteOk, ExecuteRestores, ExecuteErr, SendError, Kinds,
           DropTokenAfterError, DropToken, SendUnlocked, Misreads, SendLateError, SendDone
    <3>3. CASE chan' = chan
      BY <3>3 DEF Waiting
    <3>4. ASSUME NEW k \in Kinds \ {"Stored"}, NEW ok \in BOOLEAN, Send(Ev(k, u, ok))
          PROVE  \A v : Waiting("Stored", v)' <=> Waiting("Stored", v)
      BY <1>1, <3>1, <3>4, WaitingAfterSend
    <3> QED
      BY <3>2, <3>3, <3>4
  <2> QED
    BY <1>1, <2>2, <2>3 DEF BeingStored
<1>4. CASE SendStored(u)
  <2>1. th[u] = "storing" /\ th'[u] = "over" /\ restored' = restored
    BY <1>1, <1>4 DEF SendStored, Step
  <2>2. PICK ok \in BOOLEAN : Send(Ev("Stored", u, ok))
    BY <1>4 DEF SendStored
  <2>3. /\ Ev("Stored", u, ok) \in Event /\ Ev("Stored", u, ok).kind = "Stored"
        /\ Ev("Stored", u, ok).unit = u
    BY DEF Ev, Event, Kinds
  <2>4. \A v : Waiting("Stored", v)' <=> Waiting("Stored", v) \/ v = u
    BY <1>1, <2>2, <2>3, WaitingAfterSend
  <2> QED
    BY <1>1, <2>1, <2>4 DEF BeingStored
<1> QED
  BY <1>3, <1>4

Counted == storing = Cardinality(BeingStored)

LEMMA NextCounts ==
  ASSUME Inv, FlowInv, Counted, [Next]_vars
  PROVE  Counted'
<1> USE DEF Through, Broken
<1>0. /\ chan \in Seq(Event) /\ IsFiniteSet(BeingStored) /\ Cardinality(BeingStored) \in Nat
      /\ recorded \subseteq Units
  BY BeingStoredFinite DEF Inv, Typed
<1>1. ASSUME storing' = storing, BeingStored' = BeingStored PROVE Counted'
  BY <1>1 DEF Counted
<1>2. ASSUME UNCHANGED <<th, recorded, restored, storing>>,
             \A u : Waiting("Stored", u)' <=> Waiting("Stored", u)
      PROVE  Counted'
  BY <1>1, <1>2 DEF BeingStored
<1>3. ASSUME \/ UNCHANGED vars \/ Leave \/ AskAndWait PROVE Counted'
  <2>1. UNCHANGED <<th, recorded, restored, storing, chan>>
    BY <1>3 DEF vars, loopVars, threadVars, Leave, AskAndWait
  <2> QED
    BY <1>2, <2>1 DEF Waiting
<1>4. ASSUME NEW u \in Units, Dispatch(u) PROVE Counted'
  <2>1. /\ th[u] = "idle" /\ th' = [th EXCEPT ![u] = "rustc"] /\ th \in [Units -> Phases]
        /\ UNCHANGED <<recorded, restored, storing, chan>>
    BY <1>4 DEF Dispatch, Inv, Typed, CountSound
  <2>2. u \notin recorded
    BY <2>1 DEF FlowInv, FlowSound, Flow
  <2>3. \A v \in recorded : th'[v] = th[v]
    BY <1>0, <2>1, <2>2
  <2>4. \A v : Waiting("Stored", v)' <=> Waiting("Stored", v)
    BY <2>1 DEF Waiting
  <2>5. BeingStored' = BeingStored
    BY <2>1, <2>3, <2>4 DEF BeingStored
  <2> QED
    BY <1>1, <2>1, <2>5
<1>5. ASSUME NEW u \in Units, Thread(u) PROVE Counted'
  BY <1>1, <1>5, ThreadKeepsBeingStored
<1>6. CASE Acquire
  <2>1. /\ Ev("Token", NoUnit, TRUE) \in Event /\ Ev("Token", NoUnit, TRUE).kind = "Token"
        /\ Send(Ev("Token", NoUnit, TRUE)) /\ UNCHANGED <<th, recorded, restored, storing>>
    BY <1>6 DEF Ev, Event, Kinds, Acquire, loopVars, threadVars
  <2> QED
    BY <1>0, <1>2, <2>1, WaitingAfterSend
<1>7. ASSUME OnToken \/ OnMeta \/ OnUnlocked PROVE Counted'
  <2>1. /\ chan # <<>> /\ chan' = Tail(chan) /\ Head(chan).kind # "Stored"
        /\ UNCHANGED <<th, recorded, restored, storing>>
    BY <1>7 DEF OnToken, OnMeta, OnUnlocked, Receive, loopVars, threadVars
  <2>2. \A u : Waiting("Stored", u)' <=> Waiting("Stored", u)
    BY <1>0, <2>1, WaitingAfterReceive
  <2> QED
    BY <1>2, <2>1, <2>2
<1>8. CASE OnStored
  <2> DEFINE d == Head(chan).unit
  <2>1. /\ chan # <<>> /\ chan' = Tail(chan) /\ Head(chan).kind = "Stored"
        /\ UNCHANGED <<th, recorded, restored>> /\ storing' = storing - 1
    BY <1>8 DEF OnStored, Receive, threadVars
  <2>2. /\ \A u : u # d => (Waiting("Stored", u)' <=> Waiting("Stored", u))
        /\ Waiting("Stored", d) /\ ~Waiting("Done", d)
        /\ \A u : u = d => ~Waiting("Stored", u)'
    BY <1>0, <2>1, WaitingAfterReceive DEF FlowInv, ChanOrder
  <2>3. d \in Units
    BY <1>0, <2>1, Shifted DEF Inv, ChanSound, Backed
  <2>4. d \in recorded \ restored /\ th[d] = "over"
    BY <2>2, <2>3 DEF FlowInv, FlowSound, Flow
  <2>5. BeingStored' = BeingStored \ {d} /\ d \in BeingStored
    BY <2>1, <2>2, <2>4 DEF BeingStored
  <2>6. Cardinality(BeingStored \ {d}) = Cardinality(BeingStored) - 1
    BY <1>0, <2>5, FS_RemoveElement
  <2> QED
    BY <2>1, <2>5, <2>6 DEF Counted
<1>9. CASE OnDone
  <2> DEFINE e == Head(chan)
             d == Head(chan).unit
  <2>1. /\ chan # <<>> /\ chan' = Tail(chan) /\ e.kind = "Done"
        /\ UNCHANGED <<th, restored>>
        /\ storing' = IF e.ok /\ d \notin restored THEN storing + 1 ELSE storing
        /\ recorded' = IF e.ok THEN recorded \cup {d} ELSE recorded
    BY <1>9 DEF OnDone, Receive, threadVars
  <2>2. /\ \A u : Waiting("Stored", u)' <=> Waiting("Stored", u)
        /\ Waiting("Done", d)
    BY <1>0, <2>1, WaitingAfterReceive
  <2>3. d \in Units /\ (e.ok <=> th[d] \in Through)
    BY <1>0, <2>1, Shifted DEF Inv, ChanSound, Backed, FlowInv, Verdicts
  <2>4. d \notin recorded /\ Flow(d)
    BY <2>2, <2>3 DEF FlowInv, FlowSound, Flow
  <2>5. CASE e.ok /\ d \notin restored
    <3>1. th[d] = "storing" \/ Waiting("Stored", d)
      BY <2>2, <2>3, <2>4, <2>5 DEF Flow
    <3>2. BeingStored' = BeingStored \cup {d} /\ d \notin BeingStored
      BY <2>1, <2>2, <2>4, <2>5, <3>1 DEF BeingStored
    <3>3. Cardinality(BeingStored \cup {d}) = Cardinality(BeingStored) + 1
      BY <1>0, <3>2, FS_AddElement
    <3> QED
      BY <2>1, <2>5, <3>2, <3>3 DEF Counted
  <2>6. CASE ~(e.ok /\ d \notin restored)
    <3>1. BeingStored' = BeingStored
      BY <2>1, <2>2, <2>6 DEF BeingStored
    <3> QED
      BY <1>1, <2>1, <2>6, <3>1
  <2> QED
    BY <2>5, <2>6
<1> QED
  BY <1>3, <1>4, <1>5, <1>6, <1>7, <1>8, <1>9 DEF Next, Main, Stop

THEOREM StoringInvariance == Spec => []Counted
<1>1. Init => Counted
  <2> SUFFICES ASSUME Init PROVE Counted
    OBVIOUS
  <2>1. BeingStored = {}
    BY DEF Init, BeingStored
  <2> QED
    BY <2>1, FS_EmptySet DEF Init, Counted
<1>2. Inv /\ FlowInv /\ Counted /\ [Next]_vars => Counted'
  BY NextCounts
<1> QED
  BY <1>1, <1>2, Invariance, FlowInvariance, PTL DEF Spec

\* The loop's count of outputs on their way to the store is exact: it never falls
\* below zero (it is a usize), and the loop does not end while one is on its way.
THEOREM StoringCounted == Spec => []StoringExact
<1>1. Counted => StoringExact
  BY DEF Counted, StoringExact, BeingStored, Waiting
<1> QED
  BY <1>1, StoringInvariance, PTL

-----------------------------------------------------------------------------
(* The verdict. *)

\* Of any units, one needs none of the others.
LEMMA SomeFirst ==
  ASSUME NEW S \in SUBSET Units, S # {}
  PROVE  \E u \in S : \A d \in Deps(u) : d \notin S
<1>1. PICK rank \in [Units -> 0 .. Cardinality(Units)] :
        \A u \in Units : \A d \in Deps(u) : rank[d] < rank[u]
  BY SchedulerAssumption
<1> DEFINE ranks == {rank[u] : u \in S}
<1>2. ranks \subseteq Nat /\ ranks # {}
  <2>1. Cardinality(Units) \in Nat
    BY SchedulerAssumption, FS_CardinalityType
  <2> QED
    BY <2>1
<1>3. PICK m \in ranks : \A n \in ranks : ~(<<n, m>> \in OpToRel(<, Nat))
  <2> HIDE DEF ranks
  <2> QED
    BY <1>2, NatLessThanWellFounded, WFMin, Zenon
<1>4. \A n \in ranks : ~(n < m)
  BY <1>2, <1>3 DEF OpToRel
<1>5. PICK u \in S : rank[u] = m
  OBVIOUS
<1> QED
  BY <1>1, <1>4, <1>5

\* The loop ends with the truth: nothing is still at work, what was not built has a
\* failure to blame, a failure is reported, and success means every unit was recorded.
THEOREM HonestAtExit == Spec => []ExitHonest
<1>1. ASSUME Inv, FlowInv, Counted, pc = "exit" PROVE ExitHonest
  <2> USE DEF Working, Broken, Through, Unlocking
  <2>1. running = {} /\ storing = 0 /\ (ready = {} \/ Stopping)
    BY <1>1 DEF FlowInv, ExitSound
  <2>2. /\ \A u \in Units : th[u] \notin Working /\ ~Waiting("Done", u) /\ ~Waiting("Unlocked", u)
        /\ th \in [Units -> Phases] /\ recorded \subseteq Units
        /\ \A u \in Units : Flow(u)
    BY <1>1, <2>1 DEF FlowInv, FlowSound, Flow, Inv, Typed
  <2>3. \A u \in Units : th[u] # "storing"
    <3> SUFFICES ASSUME NEW u \in Units, th[u] = "storing" PROVE FALSE
      OBVIOUS
    <3>1. u \in recorded \ restored
      BY <2>2 DEF Flow
    <3>2. u \in BeingStored
      BY <3>1 DEF BeingStored
    <3>3. Cardinality(BeingStored) = 0
      BY <1>1, <2>1 DEF Counted
    <3> QED
      BY <1>1, <3>2, <3>3, BeingStoredFinite, FS_EmptySet
  <2>4. \A u \in Units : th[u] \in {"idle", "over", "reported", "failed", "withdrawn"}
    BY <2>2, <2>3 DEF Phases, Ended
  <2>5. \A u \in Units : th[u] \in Broken => failed
    BY <2>2 DEF Flow
  <2>6. ASSUME NEW u \in Units, th[u] = "idle", ~Stopping
        PROVE  \E d \in Deps(u) : th[d] \in {"idle", "reported", "failed"}
    <3>1. waits[u] # 0
      BY <1>1, <2>1, <2>6 DEF Inv, CountSound
    <3>2. PICK d \in Deps(u) : <<d, u>> \notin sat
      BY <1>1, <3>1, FS_EmptySet DEF Inv, CountSound, Unmet
    <3>3. d \in Units
      BY DepsFinite
    <3>4. th[d] \notin Unlocking
      BY <2>2, <2>6, <3>2, <3>3 DEF Flow
    <3> QED
      BY <2>4, <3>3, <3>4
  <2>7. (\E u \in Units : th[u] = "idle") => failed
    <3> DEFINE Idle == {u \in Units : th[u] = "idle"}
    <3> SUFFICES ASSUME Idle # {}, ~failed PROVE FALSE
      OBVIOUS
    <3>1. PICK u \in Idle : \A d \in Deps(u) : d \notin Idle
      <4> HIDE DEF Idle
      <4>1. Idle \in SUBSET Units
        BY DEF Idle
      <4> QED
        BY <4>1, SomeFirst
    <3>2. PICK d \in Deps(u) : th[d] \in {"idle", "reported", "failed"}
      BY <2>6 DEF Stopping
    <3>3. d \in Units
      BY DepsFinite
    <3> QED
      BY <2>5, <3>1, <3>2, <3>3
  <2>8. failed <=> \E u \in Units : th[u] \in Failing
    BY <1>1, <2>4, <2>5 DEF FlowInv, FailedSound, Failing
  <2>9. ~failed => recorded = Units
    <3> SUFFICES ASSUME ~failed PROVE \A u \in Units : u \in recorded
      BY <2>2
    <3>1. \A u \in Units : th[u] = "over"
      BY <2>4, <2>5, <2>7
    <3> QED
      BY <2>2, <3>1 DEF Flow
  <2>10. ASSUME NEW u \in Units
         PROVE  \/ th[u] \in Ended \cup {"reported"}
                \/ /\ th[u] = "idle" /\ failed
                   /\ KeepGoing => \E d \in Deps(u) : th[d] \in {"idle", "reported", "failed"}
    BY <2>4, <2>6, <2>7 DEF Ended, Stopping
  <2> QED
    BY <2>8, <2>9, <2>10 DEF ExitHonest
<1>2. Inv /\ FlowInv /\ Counted => ExitHonest
  BY <1>1 DEF ExitHonest
<1> QED
  BY <1>2, Invariance, FlowInvariance, StoringInvariance, PTL

-----------------------------------------------------------------------------
(* A failure and -j 1. *)

\* With one job, who holds it leaves none for anybody else.
LEMMA OnlyJob ==
  ASSUME Inv, Conserved, Jobs = 1, NEW u \in Units, th[u] \in Holding
  PROVE  tokens = 0 /\ \A i \in DOMAIN chan : chan[i].kind # "Token"
<1>1. Cardinality(Holders) # 0
  BY HoldersFinite, FS_EmptySet DEF Holders
<1>2. tokens = 0 /\ Cardinality(Tokens) = 0
  BY <1>1, TokensFinite, HoldersFinite DEF Conserved, Inv, Typed
<1>3. Tokens = {}
  BY <1>2, TokensFinite, FS_EmptySet DEF Inv, Typed
<1> QED
  BY <1>2, <1>3 DEF Tokens

OneJob == Jobs = 1 /\ ~KeepGoing

\* The report of a failure is ahead, in the channel, of every token.
Heralded(u) == \E i \in DOMAIN chan :
  /\ chan[i].kind = "Done" /\ chan[i].unit = u
  /\ \A j \in 1 .. i : chan[j].kind # "Token"
ErrorFirst ==
  OneJob => \A u \in Units :
    th[u] \in {"reported", "failed"} /\ ~failed => tokens = 0 /\ Heralded(u)

\* What is sent later does not overtake it.
LEMMA HeraldedAfterSend ==
  ASSUME chan \in Seq(Event), NEW e \in Event, Send(e), NEW u, Heralded(u)
  PROVE  Heralded(u)'
<1>1. PICK i \in DOMAIN chan : /\ chan[i].kind = "Done" /\ chan[i].unit = u
                               /\ \A j \in 1 .. i : chan[j].kind # "Token"
  BY DEF Heralded
<1>2. i \in DOMAIN chan' /\ \A j \in 1 .. i : j \in 1 .. Len(chan)
  BY Appended
<1>3. \A j \in 1 .. i : chan'[j] = chan[j]
  BY <1>2, Appended
<1>4. i \in 1 .. i
  BY Appended
<1> QED
  BY <1>1, <1>2, <1>3, <1>4 DEF Heralded

\* It is received before every token.
LEMMA HeraldedAfterReceive ==
  ASSUME chan \in Seq(Event), chan # <<>>, chan' = Tail(chan), NEW u, Heralded(u)
  PROVE  /\ Head(chan).kind # "Token"
         /\ Heralded(u)' \/ (Head(chan).kind = "Done" /\ Head(chan).unit = u)
<1>1. PICK i \in DOMAIN chan : /\ chan[i].kind = "Done" /\ chan[i].unit = u
                               /\ \A j \in 1 .. i : chan[j].kind # "Token"
  BY DEF Heralded
<1>2. i \in 1 .. Len(chan) /\ Len(chan) \in Nat
  BY Shifted
<1>3. Head(chan).kind # "Token"
  BY <1>1, <1>2, Shifted
<1>4. CASE i = 1
  BY <1>1, <1>3, <1>4, Shifted
<1>5. CASE i # 1
  <2>1. i - 1 \in DOMAIN chan' /\ chan'[i - 1] = chan[i]
    BY <1>2, <1>5, Shifted
  <2>2. \A j \in 1 .. i - 1 : j + 1 \in 1 .. i /\ chan'[j] = chan[j + 1]
    BY <1>2, <1>5, Shifted
  <2> QED
    BY <1>1, <1>3, <2>1, <2>2 DEF Heralded
<1> QED
  BY <1>4, <1>5

LEMMA ThreadKeepsErrorFirst ==
  ASSUME Inv, Conserved, ErrorFirst, OneJob, NEW u \in Units, Thread(u)
  PROVE  ErrorFirst'
<1>1. /\ chan \in Seq(Event) /\ th \in [Units -> Phases]
      /\ tokens' = tokens /\ failed' = failed
      /\ \A v \in Units \ {u} : th'[v] = th[v]
  BY DEF Thread, EmitMeta, ExecuteOk, ExecuteRestores, ExecuteErr, SendError, DropTokenAfterError,
         DropToken, SendUnlocked, Misreads, SendLateError, SendDone, SendStored, Step, loopVars,
         Inv, Typed
<1>2. \A v : Heralded(v) => Heralded(v)'
  <2>1. \A k \in Kinds, ok \in BOOLEAN : Ev(k, u, ok) \in Event
    BY DEF Ev, Event
  <2>2. chan' = chan \/ \E e \in Event : Send(e)
    BY <2>1 DEF Thread, EmitMeta, ExecuteOk, ExecuteRestores, ExecuteErr, SendError, Kinds,
         DropTokenAfterError, DropToken, SendUnlocked, Misreads, SendLateError, SendDone, SendStored
  <2>3. CASE chan' = chan
    BY <2>3 DEF Heralded
  <2> QED
    BY <1>1, <2>2, <2>3, HeraldedAfterSend
<1>3. ASSUME th'[u] \in {"reported", "failed"}
      PROVE  \/ SendError(u)
             \/ th[u] = "reported"
  BY <1>1, <1>3 DEF Thread, EmitMeta, ExecuteOk, ExecuteRestores, ExecuteErr, SendError, DropTokenAfterError,
         DropToken, SendUnlocked, Misreads, SendLateError, SendDone, SendStored, Step
<1>4. ASSUME SendError(u) PROVE tokens = 0 /\ Heralded(u)'
  <2>1. th[u] = "err" /\ Send(Ev("Done", u, FALSE))
    BY <1>4 DEF SendError, Step
  <2>2. tokens = 0 /\ \A i \in DOMAIN chan : chan[i].kind # "Token"
    BY <2>1, OnlyJob DEF OneJob, Holding
  <2>3. PICK e \in Event : Send(e) /\ e.kind = "Done" /\ e.unit = u
    <3>1. /\ Ev("Done", u, FALSE) \in Event /\ Ev("Done", u, FALSE).kind = "Done"
          /\ Ev("Done", u, FALSE).unit = u
      BY DEF Ev, Event, Kinds
    <3> QED
      BY <2>1, <3>1
  <2>4. Len(chan) + 1 \in DOMAIN chan' /\ chan'[Len(chan) + 1] = e /\ DOMAIN chan' = 1 .. Len(chan) + 1
    BY <1>1, <2>3, Appended
  <2>5. \A j \in DOMAIN chan' : chan'[j].kind # "Token"
    BY <1>1, <2>2, <2>3, Sending
  <2> QED
    BY <2>2, <2>3, <2>4, <2>5 DEF Heralded
<1> QED
  BY <1>1, <1>2, <1>3, <1>4 DEF ErrorFirst

LEMMA NextErrorFirst ==
  ASSUME Inv, FlowInv, Conserved, ErrorFirst, [Next]_vars
  PROVE  ErrorFirst'
<1> SUFFICES ASSUME OneJob PROVE ErrorFirst'
  BY DEF ErrorFirst
<1>0. chan \in Seq(Event) /\ tokens \in Nat /\ th \in [Units -> Phases]
  BY DEF Inv, Typed
<1>1. ASSUME UNCHANGED vars \/ Leave \/ AskAndWait PROVE ErrorFirst'
  <2>1. UNCHANGED <<chan, th, failed>> /\ tokens' \in {0, tokens}
    BY <1>1 DEF vars, loopVars, tokenVars, threadVars, Leave, AskAndWait
  <2>2. \A u : Heralded(u)' <=> Heralded(u)
    BY <2>1 DEF Heralded
  <2> QED
    BY <2>1, <2>2 DEF ErrorFirst
<1>2. ASSUME NEW v \in Units, Dispatch(v) PROVE ErrorFirst'
  <2>1. /\ tokens > 0 /\ failed' = failed
        /\ \A u \in Units : th'[u] \in {"reported", "failed"} => th[u] \in {"reported", "failed"}
    BY <1>0, <1>2 DEF Dispatch, CanDispatch
  <2> QED
    BY <1>0, <2>1 DEF ErrorFirst
<1>3. ASSUME OnToken \/ OnMeta \/ OnUnlocked \/ OnStored \/ OnDone PROVE ErrorFirst'
  <2> SUFFICES ASSUME NEW u \in Units, th[u] \in {"reported", "failed"}, ~failed'
               PROVE  tokens' = 0 /\ Heralded(u)'
    BY <1>3 DEF ErrorFirst, OnToken, OnMeta, OnUnlocked, OnStored, OnDone, threadVars
  <2>1. chan # <<>> /\ chan' = Tail(chan) /\ ~failed
    BY <1>3 DEF OnToken, OnMeta, OnUnlocked, OnStored, OnDone, Receive, loopVars
  <2>2. tokens = 0 /\ Heralded(u)
    BY <2>1 DEF ErrorFirst
  <2>3. ~OnToken
    BY <1>0, <2>1, <2>2, HeraldedAfterReceive DEF OnToken, Receive
  <2>4. ~(Head(chan).kind = "Done" /\ Head(chan).unit = u)
    <3> SUFFICES ASSUME Head(chan).kind = "Done", Head(chan).unit = u PROVE FALSE
      OBVIOUS
    <3>1. OnDone
      BY <1>3 DEF OnToken, OnMeta, OnUnlocked, OnStored, OnDone, Receive
    <3>2. ~Head(chan).ok
      BY <1>0, <2>1, Shifted DEF FlowInv, Verdicts, Through
    <3> QED
      BY <3>1, <3>2 DEF OnDone
  <2>5. tokens' = tokens
    BY <1>3, <2>3 DEF OnMeta, OnUnlocked, OnStored, OnDone, tokenVars
  <2> QED
    BY <1>0, <2>1, <2>2, <2>4, <2>5, HeraldedAfterReceive
<1>4. CASE Acquire
  <2>1. /\ Ev("Token", NoUnit, TRUE) \in Event
        /\ Send(Ev("Token", NoUnit, TRUE)) /\ UNCHANGED <<th, failed, tokens>>
    BY <1>4 DEF Ev, Event, Kinds, Acquire, loopVars, threadVars
  <2> QED
    BY <1>0, <2>1, HeraldedAfterSend DEF ErrorFirst
<1>5. ASSUME NEW u \in Units, Thread(u) PROVE ErrorFirst'
  BY <1>5, ThreadKeepsErrorFirst
<1> QED
  BY <1>1, <1>2, <1>3, <1>4, <1>5 DEF Next, Main, Stop

THEOREM ErrorFirstInvariance == Spec => []ErrorFirst
<1>1. Init => ErrorFirst
  BY DEF Init, ErrorFirst
<1>2. Inv /\ FlowInv /\ Conserved /\ ErrorFirst /\ [Next]_vars => ErrorFirst'
  BY NextErrorFirst
<1> QED
  BY <1>1, <1>2, Invariance, FlowInvariance, ConservedInvariance, PTL DEF Spec

\* With a single job and without --keep-going, nothing starts after a failure
\* but of a dep-info: the failure is on its way before the token is free, and the
\* loop hears of it before it hears of the token.
LEMMA NoStartAfterError ==
  ASSUME Inv, Conserved, ErrorFirst, OneJob, NEW u \in Units, Dispatch(u),
         NEW d \in Units, th[d] \in {"err", "reported", "failed"}
  PROVE  FALSE
<1>1. tokens > 0 /\ tokens \in Nat /\ ~failed
  BY DEF Dispatch, CanDispatch, Stopping, OneJob, Inv, Typed
<1>2. CASE th[d] = "err"
  BY <1>1, <1>2, OnlyJob DEF Holding, OneJob
<1>3. CASE th[d] # "err"
  BY <1>1, <1>3 DEF ErrorFirst
<1> QED
  BY <1>2, <1>3

THEOREM StoppedAtError == Spec => StopsAtError
<1> DEFINE Stops == Jobs = 1 /\ ~KeepGoing /\ (\E d \in Units : th[d] \in {"err", "reported", "failed"})
                      => \A u \in Units : th[u] = "idle" => th'[u] = "idle"
<1>1. Inv /\ Conserved /\ ErrorFirst /\ [Next]_vars => [Stops]_vars
  <2> SUFFICES ASSUME Inv, Conserved, ErrorFirst, [Next]_vars, OneJob,
                      NEW d \in Units, th[d] \in {"err", "reported", "failed"},
                      NEW u \in Units, th[u] = "idle"
               PROVE  th'[u] = "idle"
    BY DEF OneJob
  <2>1. ~Dispatch(u)
    BY NoStartAfterError
  <2>2. ASSUME NEW v \in Units, Thread(v) PROVE th'[u] = "idle"
    BY <2>2 DEF Inv, Typed, Thread, EmitMeta, ExecuteOk, ExecuteRestores, ExecuteErr, SendError,
         DropTokenAfterError, DropToken, SendUnlocked, Misreads, SendLateError, SendDone, SendStored, Step
  <2>3. ASSUME NEW v \in Units, Dispatch(v) PROVE th'[u] = "idle"
    BY <2>3, NoStartAfterError
  <2>4. CASE UNCHANGED vars \/ Acquire \/ Leave \/ AskAndWait \/ OnToken \/ OnMeta \/ OnUnlocked
             \/ OnStored \/ OnDone
    BY <2>4 DEF vars, Acquire, Leave, AskAndWait, OnToken, OnMeta, OnUnlocked, OnStored, OnDone, threadVars
  <2> QED
    BY <2>2, <2>3, <2>4 DEF Next, Main, Stop
<1> QED
  BY <1>1, Invariance, ConservedInvariance, ErrorFirstInvariance, PTL DEF Spec, StopsAtError

-----------------------------------------------------------------------------
(* What the scheduler implements. *)

\* Nothing is on disk before its compiler wrote it.
DiskExact == \A u \in Units :
  /\ th[u] \in {"idle", "rustc"} => u \notin typed
  /\ th[u] \in {"idle", "rustc", "meta", "err", "reported", "failed"} => u \notin built

\* The steps of a thread, by what they change of the build's order.
Advances(u) ==
  \/ /\ th[u] = "rustc" /\ th' = [th EXCEPT ![u] = "meta"]
     /\ typed' = typed \cup {u} /\ built' = built
  \/ /\ th[u] \in {"rustc", "meta"} /\ th' = [th EXCEPT ![u] = "ok"]
     /\ typed' = typed \cup {u} /\ built' = built \cup {u}
  \/ /\ UNCHANGED diskVars
     /\ \/ th[u] \in {"rustc", "meta"} /\ th' = [th EXCEPT ![u] = "err"]
        \/ th[u] = "unlocked" /\ th' = [th EXCEPT ![u] = "misread"]
        \/ th[u] = "ok" /\ th' = [th EXCEPT ![u] = "freed"]
        \/ th[u] = "reported" /\ th' = [th EXCEPT ![u] = "failed"]
        \/ th[u] = "err" /\ th' = [th EXCEPT ![u] = "reported"]
        \/ th[u] = "misread" /\ th' = [th EXCEPT ![u] = "withdrawn"]
        \/ th[u] \in {"freed", "unlocked", "storing"}
           /\ \E to \in {"unlocked", "storing", "over"} : th' = [th EXCEPT ![u] = to]

LEMMA ThreadAdvances ==
  ASSUME NEW u \in Units, Thread(u)
  PROVE  Advances(u)
BY DEF Advances, Thread, EmitMeta, ExecuteOk, ExecuteRestores, Completed, ExecuteErr, SendError,
       DropTokenAfterError, DropToken, SendUnlocked, Misreads, SendLateError, SendDone, SendStored,
       Step, diskVars

\* Every other step starts a unit or leaves the threads and the disk alone.
LEMMA LoopLeavesThreads ==
  ASSUME [Next]_vars, \A u \in Units : ~Dispatch(u) /\ ~Thread(u)
  PROVE  UNCHANGED <<th, typed, built>>
BY DEF Next, Main, Stop, Leave, AskAndWait, OnToken, OnMeta, OnUnlocked, OnStored, OnDone, Acquire,
       vars, threadVars, diskVars

LEMMA NextDiskExact ==
  ASSUME Inv, DiskExact, [Next]_vars
  PROVE  DiskExact'
<1>0. th \in [Units -> Phases]
  BY DEF Inv, Typed
<1>1. ASSUME NEW u \in Units, Dispatch(u) PROVE DiskExact'
  <2>1. th[u] = "idle" /\ th' = [th EXCEPT ![u] = "rustc"] /\ UNCHANGED <<typed, built>>
    BY <1>1 DEF Dispatch, diskVars, Inv, CountSound
  <2> QED
    BY <1>0, <2>1 DEF DiskExact
<1>2. ASSUME NEW u \in Units, Thread(u) PROVE DiskExact'
  BY <1>0, <1>2, ThreadAdvances DEF Advances, diskVars, DiskExact
<1>3. CASE \A u \in Units : ~Dispatch(u) /\ ~Thread(u)
  BY <1>3, LoopLeavesThreads DEF DiskExact
<1> QED
  BY <1>1, <1>2, <1>3

THEOREM DiskExactInvariance == Spec => []DiskExact
<1>1. Init => DiskExact
  BY DEF Init, DiskExact
<1> QED
  BY <1>1, NextDiskExact, Invariance, PTL DEF Spec

Started == {u \in Units : th[u] # "idle"}
Failed  == {u \in Units : th[u] \in Failing}

\* Starting a unit is a start BuildOrder allows.
LEMMA DispatchStarts ==
  ASSUME Inv, Conserved, ErrorFirst, NEW u \in Units, Dispatch(u)
  PROVE  Order!Start(u)
<1>1. /\ th \in [Units -> Phases] /\ th[u] = "idle" /\ waits[u] = 0
      /\ th' = [th EXCEPT ![u] = "rustc"] /\ UNCHANGED <<typed, built>>
  BY DEF Dispatch, diskVars, Inv, Typed, CountSound
<1>2. /\ Started' = Started \cup {u} /\ u \notin Started
      /\ Holders' = Holders \cup {u} /\ Failed' = Failed
  <2>1. /\ "rustc" \in Holding /\ "rustc" \notin Failing /\ "rustc" # "idle"
        /\ "idle" \notin Failing
    BY DEF Holding, Failing
  <2> QED
    BY <1>1, <2>1 DEF Started, Holders, Failed
<1>3. Cardinality(Holders) < Jobs
  <2>1. tokens > 0 /\ tokens \in Nat /\ pool \in Nat
    BY DEF Dispatch, CanDispatch, Inv, Typed
  <2> QED
    BY <2>1, TokensFinite, HoldersFinite, SchedulerAssumption DEF Conserved, Inv, Typed
<1>4. FullDeps[u] \subseteq built /\ MetaDeps[u] \subseteq typed
  BY <1>1, NeedsOnDisk
<1>5. OneJob => Failed \subseteq built
  BY NoStartAfterError DEF Failed, Failing, Inv, PhaseSound, Complete
<1>6. Order!Cardinality(Holders) = Cardinality(Holders)
  BY DEF Order!Cardinality, Cardinality
<1> QED
  BY <1>1, <1>2, <1>3, <1>4, <1>5, <1>6 DEF Order!Start, Started, Holders, Failed, OneJob

\* What a thread does is a step of BuildOrder, or none.
LEMMA ThreadSteps ==
  ASSUME Inv, DiskExact, NEW u \in Units, Advances(u)
  PROVE  \/ Order!EmitMeta(u) \/ Order!Build(u) \/ Order!Fail(u) \/ Order!Release(u)
         \/ UNCHANGED Order!order
<1> USE DEF Holding, Failing
<1>1. /\ th \in [Units -> Phases]
      /\ th[u] \in {"idle", "rustc"} => u \notin typed
      /\ th[u] \in {"idle", "rustc", "meta", "err", "reported", "failed"} => u \notin built
      /\ th[u] \in Complete => u \in built
  BY DEF Inv, Typed, DiskExact, PhaseSound
<1>2. ASSUME NEW to, th[u] # "idle", to # "idle", th' = [th EXCEPT ![u] = to]
      PROVE  /\ Started' = Started /\ u \in Started
             /\ Holders' = IF to \in Holding THEN Holders \cup {u} ELSE Holders \ {u}
             /\ Failed' = IF to \in Failing THEN Failed \cup {u} ELSE Failed \ {u}
  BY <1>1, <1>2 DEF Started, Holders, Failed
<1>3. (u \in Holders <=> th[u] \in Holding) /\ (u \in Failed <=> th[u] \in Failing)
  BY DEF Holders, Failed
<1>4. CASE th[u] = "rustc" /\ th' = [th EXCEPT ![u] = "meta"] /\ typed' = typed \cup {u} /\ built' = built
  <2>1. /\ "meta" # "idle" /\ "meta" \in Holding /\ "meta" \notin Failing
        /\ th[u] # "idle" /\ u \in Holders /\ u \notin Failed
    BY <1>3, <1>4
  <2>2. Started' = Started /\ Holders' = Holders /\ Failed' = Failed
    <3> HIDE DEF Holding, Failing
    <3> QED
      BY <1>2, <1>4, <2>1
  <2> QED
    BY <1>1, <1>4, <2>1, <2>2 DEF Order!EmitMeta, Started, Holders, Failed
<1>5. CASE /\ th[u] \in {"rustc", "meta"} /\ th' = [th EXCEPT ![u] = "ok"]
           /\ typed' = typed \cup {u} /\ built' = built \cup {u}
  <2>1. /\ "ok" # "idle" /\ "ok" \in Holding /\ "ok" \notin Failing
        /\ th[u] # "idle" /\ u \in Holders /\ u \notin Failed
    BY <1>3, <1>5
  <2>2. Started' = Started /\ Holders' = Holders /\ Failed' = Failed
    <3> HIDE DEF Holding, Failing
    <3> QED
      BY <1>2, <1>5, <2>1
  <2> QED
    BY <1>1, <1>5, <2>1, <2>2 DEF Order!Build, Started, Holders, Failed
<1>6. ASSUME NEW to, UNCHANGED diskVars, th' = [th EXCEPT ![u] = to],
             \/ th[u] \in {"rustc", "meta"} /\ to = "err"
             \/ th[u] = "unlocked" /\ to = "misread"
      PROVE  Order!Fail(u)
  <2>1. Started' = Started /\ u \in Started /\ Holders' = Holders /\ Failed' = Failed \cup {u}
    BY <1>2, <1>3, <1>6
  <2> QED
    BY <1>1, <1>3, <1>6, <2>1 DEF Order!Fail, Started, Holders, Failed, diskVars
<1>7. ASSUME NEW to, UNCHANGED diskVars, th' = [th EXCEPT ![u] = to],
             \/ th[u] = "ok" /\ to = "freed"
             \/ th[u] = "reported" /\ to = "failed"
      PROVE  Order!Release(u)
  <2>1. Started' = Started /\ Holders' = Holders \ {u} /\ Failed' = Failed
    BY <1>2, <1>3, <1>7
  <2> QED
    BY <1>1, <1>3, <1>7, <2>1 DEF Order!Release, Started, Holders, Failed, diskVars, Complete
<1>8. ASSUME NEW to, UNCHANGED diskVars, th' = [th EXCEPT ![u] = to],
             \/ th[u] = "err" /\ to = "reported"
             \/ th[u] = "misread" /\ to = "withdrawn"
             \/ th[u] \in {"freed", "unlocked", "storing"} /\ to \in {"unlocked", "storing", "over"}
      PROVE  UNCHANGED Order!order
  <2>1. Started' = Started /\ Holders' = Holders /\ Failed' = Failed
    BY <1>2, <1>3, <1>8
  <2> QED
    BY <1>8, <2>1 DEF Order!order, Started, Holders, Failed, diskVars
<1> QED
  BY <1>4, <1>5, <1>6, <1>7, <1>8 DEF Advances

\* The scheduler compiles in dependency order, within the job limit, each unit once,
\* and with -j 1 stops at a failure, through all its counters, tokens and events.
THEOREM SchedulerImplementsOrder == Spec => ImplementsOrder
<1>1. Init => Order!Init
  BY DEF Init, Order!Init, Holding, Failing
<1>2. ASSUME Inv, Conserved, ErrorFirst, DiskExact, [Next]_vars
      PROVE  [Order!Next]_(Order!order)
  <2>1. CASE \E u \in Units : Dispatch(u)
    BY <1>2, <2>1, DispatchStarts DEF Order!Next
  <2>2. CASE \E u \in Units : Thread(u)
    BY <1>2, <2>2, ThreadAdvances, ThreadSteps DEF Order!Next
  <2>3. CASE \A u \in Units : ~Dispatch(u) /\ ~Thread(u)
    BY <1>2, <2>3, LoopLeavesThreads DEF Order!order
  <2> QED
    BY <2>1, <2>2, <2>3
<1> QED
  BY <1>1, <1>2, Invariance, ConservedInvariance, ErrorFirstInvariance, DiskExactInvariance, PTL
     DEF Spec, ImplementsOrder, Order!Spec

=============================================================================
