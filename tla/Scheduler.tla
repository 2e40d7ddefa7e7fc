----------------------------- MODULE Scheduler -----------------------------
(***************************************************************************)
(* The scheduler of one build (rb-core build.rs, `schedule`): a main loop  *)
(* that starts a thread for every unit the store cannot serve once the     *)
(* units it needs have come far enough, and the threads, the jobserver and *)
(* its helper thread, which all report to the loop over one unbounded      *)
(* channel.                                                                *)
(*                                                                         *)
(* A thread runs `execute` (rustc, a build script, or a restore another    *)
(* build made possible while this one waited for the unit lock), gives its *)
(* job token back, reads the dep-info rustc left, reports, and stores the  *)
(* outputs.  What happens to the store is modelled in SharedStore.         *)
(*                                                                         *)
(* The ready heap pops the unit with the longest estimated chain after it. *)
(* Estimates are guesses and timings of earlier builds; here any ready     *)
(* unit may come first.                                                    *)
(***************************************************************************)
EXTENDS Integers, Sequences, FiniteSets

CONSTANTS
  Units,        \* the misses: units this build has to run
  MetaDeps,     \* unit -> the units whose metadata is enough for it to start
  FullDeps,     \* unit -> the units it needs the finished outputs of
  EmitsMeta,    \* units that write metadata before they are finished
  MayRestore,   \* units another build may store while this one waits for the lock
  MayFail,      \* units whose rustc or build script may fail
  MayMisread,   \* units whose dep-info may name a file that is gone by then
  Jobs,         \* -j
  KeepGoing     \* --keep-going

Deps(u) == MetaDeps[u] \cup FullDeps[u]

\* The requirements are deduplicated by unit, and the graph has no cycle: some
\* ranking of the units puts every unit after the ones it needs.  (The plan
\* hashes the keys of a unit's dependencies into its own and gets nowhere in a
\* cycle.)
ASSUME SchedulerAssumption ==
  /\ IsFiniteSet(Units)
  /\ MetaDeps \in [Units -> SUBSET Units]
  /\ FullDeps \in [Units -> SUBSET Units]
  /\ \A u \in Units : MetaDeps[u] \cap FullDeps[u] = {}
  /\ \A u \in Units : MetaDeps[u] \subseteq EmitsMeta
  /\ \E rank \in [Units -> 0 .. Cardinality(Units)] :
       \A u \in Units : \A d \in Deps(u) : rank[d] < rank[u]
  /\ EmitsMeta \subseteq Units
  /\ MayRestore \subseteq Units
  /\ MayFail \subseteq Units
  /\ MayMisread \subseteq Units
  /\ Jobs \in Nat \ {0}
  /\ KeepGoing \in BOOLEAN

VARIABLES
  pc,         \* main loop: "loop" (dispatching), "recv", "exit"
  waits,      \* unit -> requirements not met yet
  sat,        \* <<d, u>>: u's requirement on d is met
  ready,      \* units with nothing left to wait for, not started
  tokens,     \* job tokens the loop holds
  requested,  \* tokens the loop has asked for and not received
  running,    \* units started and not reported done
  storing,    \* units done, whose outputs are not stored yet
  metaSeen,   \* units whose metadata event was handled
  failed,     \* a failure was received
  recorded,   \* units entered in units.json
  chan,       \* the channel
  asked,      \* requests the helper thread has not served
  pool,       \* tokens free in the jobserver
  th,         \* unit -> where its thread is
  restored,   \* units the thread restored from the store after all
  typed,      \* units whose metadata dependents can read
  built       \* units whose outputs are complete

loopVars   == <<waits, sat, ready, running, storing, metaSeen, failed, recorded>>
tokenVars  == <<tokens, requested, asked, pool>>
diskVars   == <<typed, built>>
threadVars == <<th, restored, diskVars>>
vars       == <<pc, loopVars, tokenVars, chan, threadVars>>

NoUnit == "no unit"
Kinds  == {"Token", "Meta", "Unlocked", "Done", "Stored"}
Event  == [kind : Kinds, unit : Units \cup {NoUnit}, ok : BOOLEAN]

Ev(kind, u, ok) == [kind |-> kind, unit |-> u, ok |-> ok]
Send(e)         == chan' = Append(chan, e)

\* Faulty: metadata requirements are forgotten when the heap is filled.
InitForgetsMeta ==
  /\ pc = "loop"
  /\ waits = [u \in Units |-> Cardinality(Deps(u))]
  /\ sat = {}
  /\ ready = {u \in Units : FullDeps[u] = {}}
  /\ tokens = 0 /\ requested = 0 /\ asked = 0 /\ pool = Jobs
  /\ running = {} /\ storing = 0 /\ metaSeen = {} /\ recorded = {} /\ restored = {}
  /\ failed = FALSE
  /\ chan = <<>>
  /\ th = [u \in Units |-> "idle"]
  /\ typed = {} /\ built = {}

Init ==
  /\ pc = IF Units = {} THEN "exit" ELSE "loop"
  /\ waits = [u \in Units |-> Cardinality(Deps(u))]
  /\ sat = {}
  /\ ready = {u \in Units : Deps(u) = {}}
  /\ tokens = 0 /\ requested = 0 /\ asked = 0
  /\ pool = Jobs
  /\ running = {} /\ storing = 0 /\ metaSeen = {}
  /\ failed = FALSE
  /\ recorded = {}
  /\ chan = <<>>
  /\ th = [u \in Units |-> "idle"]
  /\ restored = {} /\ typed = {} /\ built = {}

-----------------------------------------------------------------------------
(* The main loop. *)

\* Faulty: a failure does not stop the loop; units to start do not keep it.
StoppingNever == FALSE
FinishedReady == running = {} /\ storing = 0

Stopping    == failed /\ ~KeepGoing
CanDispatch == ~Stopping /\ ready # {} /\ tokens > 0
Finished    == running = {} /\ storing = 0 /\ (ready = {} \/ Stopping)

\* Faulty: the token is used and kept.
DispatchKeepsToken(u) ==
  /\ pc = "loop" /\ CanDispatch /\ u \in ready
  /\ ready' = ready \ {u}
  /\ running' = running \cup {u}
  /\ th' = [th EXCEPT ![u] = "rustc"]
  /\ UNCHANGED <<pc, waits, sat, storing, metaSeen, failed, recorded,
                 tokenVars, chan, restored, diskVars>>

\* Start a thread for a ready unit and hand it a token.
Dispatch(u) ==
  /\ pc = "loop" /\ CanDispatch /\ u \in ready
  /\ ready' = ready \ {u}
  /\ tokens' = tokens - 1
  /\ running' = running \cup {u}
  /\ th' = [th EXCEPT ![u] = "rustc"]
  /\ UNCHANGED <<pc, waits, sat, storing, metaSeen, failed, recorded,
                 requested, asked, pool, chan, restored, diskVars>>

\* Everything has reported: leave the loop; tokens and helper are dropped.
Leave ==
  /\ pc = "loop" /\ ~CanDispatch /\ Finished
  /\ pc' = "exit"
  /\ tokens' = 0
  /\ pool' = pool + tokens
  /\ asked' = 0
  /\ UNCHANGED <<loopVars, requested, chan, threadVars>>

\* Faulty: tokens nobody can use are kept while waiting.
AskAndHoard ==
  LET want == IF Stopping THEN 0 ELSE Cardinality(ready)
      more == IF requested + tokens < want THEN want - (requested + tokens) ELSE 0 IN
  /\ pc = "loop" /\ ~CanDispatch /\ ~Finished
  /\ pc' = "recv"
  /\ requested' = requested + more
  /\ asked' = asked + more
  /\ UNCHANGED <<loopVars, tokens, pool, chan, threadVars>>

\* Ask for one token per ready unit, give back those nobody can use, and wait.
AskAndWait ==
  LET want == IF Stopping THEN 0 ELSE Cardinality(ready)
      more == IF requested + tokens < want THEN want - (requested + tokens) ELSE 0
      drop == ready = {} \/ Stopping IN
  /\ pc = "loop" /\ ~CanDispatch /\ ~Finished
  /\ pc' = "recv"
  /\ requested' = requested + more
  /\ asked' = asked + more
  /\ tokens' = IF drop THEN 0 ELSE tokens
  /\ pool' = IF drop THEN pool + tokens ELSE pool
  /\ UNCHANGED <<loopVars, chan, threadVars>>

\* Faulty: metadata is enough for everyone; a requirement is met twice.
ReleasedByMeta(d, full) == {u \in Units : <<d, u>> \notin sat /\ d \in Deps(u)}
ReleasedTwice(d, full)  ==
  {u \in Units : d \in MetaDeps[u] \/ (full /\ d \in FullDeps[u])}

\* The requirements on d an event meets: all of them, or those on metadata.
Released(d, full) ==
  {u \in Units : /\ <<d, u>> \notin sat
                 /\ d \in MetaDeps[u] \/ (full /\ d \in FullDeps[u])}

\* Faulty: the counter is compared before it is decremented.
SatisfyLate(d, full) ==
  LET now == Released(d, full) IN
  /\ sat' = sat \cup {<<d, u>> : u \in now}
  /\ waits' = [u \in Units |-> IF u \in now THEN waits[u] - 1 ELSE waits[u]]
  /\ ready' = ready \cup {u \in now : waits[u] = 0}

Satisfy(d, full) ==
  LET now == Released(d, full) IN
  /\ sat' = sat \cup {<<d, u>> : u \in now}
  /\ waits' = [u \in Units |-> IF u \in now THEN waits[u] - 1 ELSE waits[u]]
  /\ ready' = ready \cup {u \in now : waits[u] = 1}

Receive(kind) ==
  /\ pc = "recv" /\ chan # <<>> /\ Head(chan).kind = kind
  /\ chan' = Tail(chan)
  /\ pc' = "loop"

\* Faulty: a token received is not taken off the ones asked for.
OnTokenUncounted ==
  /\ Receive("Token")
  /\ tokens' = tokens + 1
  /\ UNCHANGED <<loopVars, requested, asked, pool, threadVars>>

OnToken ==
  /\ Receive("Token")
  /\ requested' = IF requested = 0 THEN 0 ELSE requested - 1
  /\ tokens' = tokens + 1
  /\ UNCHANGED <<loopVars, asked, pool, threadVars>>

OnMeta ==
  LET u == Head(chan).unit IN
  /\ Receive("Meta")
  /\ metaSeen' = metaSeen \cup {u}
  /\ IF u \in metaSeen THEN UNCHANGED <<sat, waits, ready>> ELSE Satisfy(u, FALSE)
  /\ UNCHANGED <<running, storing, failed, recorded, tokenVars, threadVars>>

OnUnlocked ==
  /\ Receive("Unlocked")
  /\ Satisfy(Head(chan).unit, TRUE)
  /\ UNCHANGED <<running, storing, metaSeen, failed, recorded, tokenVars, threadVars>>

OnStored ==
  /\ Receive("Stored")
  /\ storing' = storing - 1
  /\ UNCHANGED <<waits, sat, ready, running, metaSeen, failed, recorded,
                 tokenVars, threadVars>>

\* Faulty: a restored unit is counted as one whose outputs will be stored.
OnDoneCountsRestored ==
  LET e == Head(chan) IN
  /\ Receive("Done")
  /\ running' = running \ {e.unit}
  /\ IF e.ok
     THEN /\ storing' = storing + 1
          /\ recorded' = recorded \cup {e.unit}
          /\ UNCHANGED failed
     ELSE /\ failed' = TRUE
          /\ UNCHANGED <<storing, recorded>>
  /\ UNCHANGED <<waits, sat, ready, metaSeen, tokenVars, threadVars>>

\* Faulty: the error is printed and forgotten.
OnDoneForgetsError ==
  LET e == Head(chan) IN
  /\ Receive("Done")
  /\ running' = running \ {e.unit}
  /\ IF e.ok
     THEN /\ storing' = IF e.unit \in restored THEN storing ELSE storing + 1
          /\ recorded' = recorded \cup {e.unit}
     ELSE UNCHANGED <<storing, recorded>>
  /\ UNCHANGED <<waits, sat, ready, metaSeen, failed, tokenVars, threadVars>>

OnDone ==
  LET e == Head(chan) IN
  /\ Receive("Done")
  /\ running' = running \ {e.unit}
  /\ IF e.ok
     THEN /\ storing' = IF e.unit \in restored THEN storing ELSE storing + 1
          /\ recorded' = recorded \cup {e.unit}
          /\ UNCHANGED failed
     ELSE /\ failed' = TRUE
          /\ UNCHANGED <<storing, recorded>>
  /\ UNCHANGED <<waits, sat, ready, metaSeen, tokenVars, threadVars>>

-----------------------------------------------------------------------------
(* The jobserver's helper thread. *)

\* Blocks until a token is free, one request after the other.
Acquire ==
  /\ asked > 0 /\ pool > 0
  /\ asked' = asked - 1
  /\ pool' = pool - 1
  /\ Send(Ev("Token", NoUnit, TRUE))
  /\ UNCHANGED <<pc, loopVars, tokens, requested, threadVars>>

-----------------------------------------------------------------------------
(* The thread of unit u. *)

Step(u, from, to) ==
  /\ th[u] = from
  /\ th' = [th EXCEPT ![u] = to]
  /\ UNCHANGED <<pc, loopVars, tokens, requested, asked>>

\* rustc has written the metadata and goes on to code generation.
EmitMeta(u) ==
  /\ u \in EmitsMeta
  /\ Step(u, "rustc", "meta")
  /\ Send(Ev("Meta", u, TRUE))
  /\ typed' = typed \cup {u}
  /\ UNCHANGED <<pool, restored, built>>

\* rustc or the build script exits with success ...
Completed(u) ==
  /\ typed' = typed \cup {u}
  /\ built' = built \cup {u}

ExecuteOk(u) ==
  /\ Step(u, "rustc", "ok") \/ Step(u, "meta", "ok")
  /\ Completed(u)
  /\ UNCHANGED <<pool, chan, restored>>

\* ... or there was nothing to run: another build stored the unit meanwhile ...
ExecuteRestores(u) ==
  /\ u \in MayRestore
  /\ Step(u, "rustc", "ok")
  /\ restored' = restored \cup {u}
  /\ Completed(u)
  /\ UNCHANGED <<pool, chan>>

\* Faulty: the token goes back when rustc fails, before anyone hears of it.
ExecuteErrFreesToken(u) ==
  /\ u \in MayFail
  /\ Step(u, "rustc", "err") \/ Step(u, "meta", "err")
  /\ pool' = pool + 1
  /\ UNCHANGED <<chan, restored, diskVars>>

\* ... or it fails.
ExecuteErr(u) ==
  /\ u \in MayFail
  /\ Step(u, "rustc", "err") \/ Step(u, "meta", "err")
  /\ UNCHANGED <<pool, chan, restored, diskVars>>

\* A failure is reported before the token goes back.
SendError(u) ==
  /\ Step(u, "err", "reported")
  /\ Send(Ev("Done", u, FALSE))
  /\ UNCHANGED <<pool, restored, diskVars>>

DropTokenAfterError(u) ==
  /\ Step(u, "reported", "failed")
  /\ pool' = pool + 1
  /\ UNCHANGED <<chan, restored, diskVars>>

\* After a success the token goes back first.
DropToken(u) ==
  /\ Step(u, "ok", "freed")
  /\ pool' = pool + 1
  /\ UNCHANGED <<chan, restored, diskVars>>

SendUnlocked(u) ==
  /\ Step(u, "freed", "unlocked")
  /\ Send(Ev("Unlocked", u, TRUE))
  /\ UNCHANGED <<pool, restored, diskVars>>

\* Hashing the files the dep-info names may turn the success into a failure.
\* (Restored units and build scripts skip this.)
Misreads(u) ==
  /\ u \in MayMisread \ restored
  /\ Step(u, "unlocked", "misread")
  /\ UNCHANGED <<pool, chan, restored, diskVars>>

SendLateError(u) ==
  /\ Step(u, "misread", "withdrawn")
  /\ Send(Ev("Done", u, FALSE))
  /\ UNCHANGED <<pool, restored, diskVars>>

SendDone(u) ==
  /\ Step(u, "unlocked", IF u \in restored THEN "over" ELSE "storing")
  /\ Send(Ev("Done", u, TRUE))
  /\ UNCHANGED <<pool, restored, diskVars>>

\* The outputs are stored, left to compaction, or could not be stored.
SendStored(u) ==
  /\ Step(u, "storing", "over")
  /\ \E ok \in BOOLEAN : Send(Ev("Stored", u, ok))
  /\ UNCHANGED <<pool, restored, diskVars>>

-----------------------------------------------------------------------------
Thread(u) ==
  \/ EmitMeta(u) \/ ExecuteOk(u) \/ ExecuteRestores(u) \/ ExecuteErr(u)
  \/ SendError(u) \/ DropTokenAfterError(u) \/ DropToken(u) \/ SendUnlocked(u)
  \/ Misreads(u) \/ SendLateError(u) \/ SendDone(u) \/ SendStored(u)

Main ==
  \/ \E u \in Units : Dispatch(u)
  \/ Leave \/ AskAndWait
  \/ OnToken \/ OnMeta \/ OnUnlocked \/ OnStored \/ OnDone

\* The build is over: every thread has been joined.
Ended == {"over", "failed", "withdrawn"}
Over == pc = "exit" /\ (\A u \in Units : th[u] \in {"idle"} \cup Ended)
Stop == Over /\ UNCHANGED vars

Next == Main \/ Acquire \/ (\E u \in Units : Thread(u)) \/ Stop

Spec == Init /\ [][Next]_vars

\* No process is left waiting for ever for its turn on the CPU, and the
\* compiler, the build scripts and the store operations they run come back.
FairSpec ==
  /\ Spec
  /\ WF_vars(Main) /\ WF_vars(Acquire)
  /\ \A u \in Units : WF_vars(Thread(u))

-----------------------------------------------------------------------------
(* Properties. *)

Phases   == {"idle", "rustc", "meta", "ok", "err", "reported", "freed",
             "unlocked", "misread", "storing"} \cup Ended
Holding  == {"rustc", "meta", "ok", "err", "reported"}
Failing  == {"err", "reported", "failed", "misread", "withdrawn"}

\* Every variable stays in its domain; the counters the loop decrements are
\* usize and must not wrap (`storing` has StoringExact).
TypeOK ==
  /\ pc \in {"loop", "recv", "exit"}
  /\ waits \in [Units -> Nat]
  /\ sat \in SUBSET (Units \X Units)
  /\ ready \in SUBSET Units
  /\ tokens \in Nat /\ requested \in Nat /\ asked \in Nat /\ pool \in Nat
  /\ running \in SUBSET Units /\ metaSeen \in SUBSET Units
  /\ recorded \in SUBSET Units /\ restored \in SUBSET Units
  /\ typed \in SUBSET Units /\ built \in SUBSET Units
  /\ storing \in Int
  /\ failed \in BOOLEAN
  /\ chan \in Seq(Event)
  /\ th \in [Units -> Phases]

\* The counter of open requirements is exact, so a unit becomes ready with the
\* last of them, once, whatever mix of metadata and final events met them.
Unmet(u) == {d \in Deps(u) : <<d, u>> \notin sat}
WaitsExact ==
  \A u \in Units :
    /\ waits[u] = Cardinality(Unmet(u))
    /\ u \in ready <=> waits[u] = 0 /\ th[u] = "idle"

\* The count of units whose outputs are on their way to the store is exact: a
\* unit's Stored is never handled before its Done, and none is lost.
StoringExact ==
  storing = Cardinality({u \in recorded \ restored :
              \/ th[u] = "storing"
              \/ \E i \in DOMAIN chan : chan[i].kind = "Stored" /\ chan[i].unit = u})

\* A unit starts only when the outputs it needs are complete and the metadata
\* it compiles against is written.
DepsFirst ==
  \A u \in Units : th[u] # "idle" =>
    FullDeps[u] \subseteq built /\ MetaDeps[u] \subseteq typed

\* Job tokens are neither made nor lost on their way between jobserver, helper,
\* channel, loop and threads: at most Jobs compilers run at once.
InChannel(kind) == Cardinality({i \in DOMAIN chan : chan[i].kind = kind})
TokensConserved ==
  pool + InChannel("Token") + tokens
    + Cardinality({u \in Units : th[u] \in Holding}) = Jobs

\* The loop never sleeps on a token that a compiler (rustc's own threads draw
\* from the same jobserver) could use.
NoTokenHoarded == pc = "recv" => tokens = 0

\* When the loop ends it tells the truth.  Nothing is still compiling, reporting
\* or storing; what was not built is explained by a failure, under --keep-going
\* by a failed or unbuilt unit it needs; a failed build reports the failure, and
\* a successful one recorded every unit.
ExitHonest ==
  pc = "exit" =>
    /\ \A u \in Units :
         \/ th[u] \in Ended \cup {"reported"}
         \/ /\ th[u] = "idle" /\ failed
            /\ KeepGoing => \E d \in Deps(u) : th[d] \in {"idle", "reported", "failed"}
    /\ failed <=> \E u \in Units : th[u] \in Failing
    /\ ~failed => recorded = Units

\* With -j 1 nothing starts once a compiler or build script has failed (a unit
\* whose dep-info turns out unreadable has given its token back by then).
StopsAtError ==
  [][Jobs = 1 /\ ~KeepGoing /\ (\E d \in Units : th[d] \in {"err", "reported", "failed"})
       => \A u \in Units : th[u] = "idle" => th'[u] = "idle"]_vars

\* The build ends, whatever fails, however tokens and events interleave.
Terminates == <>Over

\* A unit that is ready is started, unless something fails first.
ReadyStarts ==
  \A u \in Units : u \in ready ~> (th[u] # "idle" \/ (failed /\ ~KeepGoing))

-----------------------------------------------------------------------------
(* What the scheduler implements. *)

Order == INSTANCE BuildOrder WITH
  started <- {u \in Units : th[u] # "idle"},
  busy    <- {u \in Units : th[u] \in Holding},
  broken  <- {u \in Units : th[u] \in Failing}

\* Through all its counters and events the loop compiles in dependency order,
\* within the job limit, each unit once, and with -j 1 stops at a failure.
ImplementsOrder == Order!Spec

=============================================================================
