------------------------------- MODULE Edits -------------------------------
(***************************************************************************)
(* `rb add' and `rb remove': a manifest is rewritten in place, and loading *)
(* the workspace before and after keeps Cargo.lock up with it (rb-core     *)
(* build.rs, manifest.rs, workspace.rs).  Nothing of it is under a lock,   *)
(* and users and other commands write both files too.                      *)
(*                                                                         *)
(* A manifest is a function of its dependencies (a name in a section) to   *)
(* the versions the line of each accepts, the lock file one of             *)
(* dependencies to versions; no lock file is one that locks nothing.       *)
(***************************************************************************)
EXTENDS Functions

CONSTANTS
  Deps, Lines,          \* of a manifest; a line is a set of versions
  Editors,              \* processes
  Torn

Versions == UNION Lines
Texts == UNION {[D -> Lines] : D \in SUBSET Deps}
Locks == UNION {[D -> Versions] : D \in SUBSET Deps}
Nothing == <<>>

VARIABLES
  rules,       \* what a behaviour is about
  text,        \* Cargo.toml
  lock,        \* Cargo.lock
  editor       \* what each process is doing

vars == <<rules, text, lock, editor>>

Quiet == [pc |-> "idle"]
Go(p, pc) == editor' = [editor EXCEPT ![p].pc = pc]
Ends(p) == editor' = [editor EXCEPT ![p] = Quiet]

\* Of a file whose writing is cut short, some is there, all, or nothing that
\* can be read.
Cut(f) == {Torn} \cup {Restrict(f, D) : D \in SUBSET DOMAIN f}

\* locals_complete: what is locked beyond that does not matter.
Fits(l, t) == DOMAIN t \subseteq DOMAIN l /\ \A d \in DOMAIN t : l[d] \in t[d]

\* What a resolution may come to: what is locked and still accepted stays.
Relocks(l, t) ==
  {new \in [DOMAIN t -> Versions] :
     \A d \in DOMAIN t : /\ new[d] \in t[d]
                         /\ d \in DOMAIN l /\ l[d] \in t[d] => new[d] = l[d]}
-----------------------------------------------------------------------------
\* What is asked for: dependencies to drop, lines to put.
RemoveDependencies == {[drop |-> D, put |-> Nothing] : D \in SUBSET Deps \ {{}}}
UpsertDependency == {[drop |-> {}, put |-> [d \in {e} |-> l]] : e \in Deps, l \in Lines}

Changed(t, c) ==
  [d \in (DOMAIN t \ c.drop) \cup DOMAIN c.put |-> IF d \in DOMAIN c.put THEN c.put[d] ELSE t[d]]

\* Who is about it while another command begins, or a hand edits, is promised
\* nothing.
Begin(p) ==
  /\ rules.part = "edits" /\ editor[p].pc = "idle"
  /\ rules.crowd \/ \A q \in Editors : editor[q].pc = "idle"
  /\ \E c \in RemoveDependencies \cup UpsertDependency, locked \in BOOLEAN :
       /\ c.drop \cup DOMAIN c.put \subseteq rules.deps
       /\ editor' = [q \in Editors |->
            IF q = p THEN [pc |-> "load", change |-> c, locked |-> locked, wrote |-> FALSE,
                           old |-> Nothing, to |-> Nothing,
                           sure |-> \A o \in Editors \ {p} : editor[o].pc = "idle"]
            ELSE IF editor[q].pc = "idle" THEN editor[q]
            ELSE [editor[q] EXCEPT !.sure = FALSE]]
  /\ UNCHANGED <<rules, text, lock>>

\* Loading fails for many a reason: after the manifest was written, it is
\* restored.
LoadFails(p) ==
  /\ editor[p].pc \in {"load", "commit"}
  /\ IF editor[p].wrote THEN Go(p, "undo") ELSE Ends(p)
  /\ UNCHANGED <<rules, text, lock>>

Loaded(p) == IF editor[p].wrote THEN "kept" ELSE "read"

\* A lock file that fits is left alone.  Before the manifest is touched,
\* --locked is not heeded.
Load(p) ==
  /\ editor[p].pc = "load" /\ text # Torn /\ lock # Torn
  /\ IF Fits(lock, text) THEN Go(p, Loaded(p))
     ELSE /\ ~(editor[p].wrote /\ editor[p].locked)
          /\ \E new \in Relocks(lock, text) :
               editor' = [editor EXCEPT ![p].pc = "commit", ![p].to = new]
  /\ UNCHANGED <<rules, text, lock>>

\* The lock file is written when all is resolved, and last.
CommitLock(p) ==
  /\ editor[p].pc = "commit"
  /\ lock' = editor[p].to
  /\ editor' = [editor EXCEPT ![p].pc = Loaded(p), ![p].to = Nothing]
  /\ UNCHANGED <<rules, text>>

CommitLockFails(p) ==
  /\ editor[p].pc = "commit"
  /\ lock' \in Cut(editor[p].to)
  /\ editor' = [editor EXCEPT ![p] =
       IF editor[p].wrote THEN [editor[p] EXCEPT !.pc = "undo", !.to = Nothing, !.sure = FALSE] ELSE Quiet]
  /\ UNCHANGED <<rules, text>>

\* What is not there cannot be removed; and --dry-run ends here.
ReadManifest(p) ==
  /\ editor[p].pc = "read"
  /\ \/ /\ text # Torn /\ editor[p].change.drop \subseteq DOMAIN text
        /\ editor' = [editor EXCEPT ![p].pc = "write", ![p].old = text]
     \/ Ends(p)
  /\ UNCHANGED <<rules, text, lock>>

WriteManifest(p) ==
  /\ editor[p].pc = "write"
  /\ text' = Changed(editor[p].old, editor[p].change)
  /\ editor' = [editor EXCEPT ![p].pc = "load", ![p].wrote = TRUE]
  /\ UNCHANGED <<rules, lock>>

\* Nothing is put back then.
WriteManifestFails(p) ==
  /\ editor[p].pc = "write"
  /\ text' \in {text} \cup Cut(Changed(editor[p].old, editor[p].change))
  /\ Ends(p)
  /\ UNCHANGED <<rules, lock>>

\* Faulty: the manifest stays as it was written.
LeftAsWritten(p) == text
Undone(p) == editor[p].old

PutBack(p) ==
  /\ editor[p].pc = "undo"
  /\ text' = Undone(p)
  /\ Go(p, "undone")
  /\ UNCHANGED <<rules, lock>>

\* Which nobody is told.
PutBackFails(p) ==
  /\ editor[p].pc = "undo"
  /\ text' \in {text} \cup Cut(editor[p].old)
  /\ Ends(p)
  /\ UNCHANGED <<rules, lock>>

Exit(p) ==
  /\ editor[p].pc \in {"kept", "undone"}
  /\ Ends(p)
  /\ UNCHANGED <<rules, text, lock>>

\* Whatever it was about to write may be cut short.
KillEditor(p) ==
  /\ editor[p].pc # "idle"
  /\ \/ UNCHANGED <<text, lock>>
     \/ editor[p].pc = "commit" /\ lock' \in Cut(editor[p].to) /\ UNCHANGED text
     \/ editor[p].pc = "write" /\ text' \in Cut(Changed(editor[p].old, editor[p].change)) /\ UNCHANGED lock
     \/ editor[p].pc = "undo" /\ text' \in Cut(editor[p].old) /\ UNCHANGED lock
  /\ Ends(p)
  /\ UNCHANGED rules

\* By hand, or by a build that relocks: at any moment where rules.crowd lets it.
HandEdit ==
  /\ rules.part = "edits"
  /\ rules.crowd \/ \A p \in Editors : editor[p].pc = "idle"
  /\ \/ text' \in {t \in Texts : DOMAIN t \subseteq rules.deps} /\ UNCHANGED lock
     \/ lock' \in {l \in Locks : DOMAIN l \subseteq rules.deps} /\ UNCHANGED text
  /\ editor' = [q \in Editors |->
       IF editor[q].pc = "idle" THEN editor[q] ELSE [editor[q] EXCEPT !.sure = FALSE]]
  /\ UNCHANGED rules

Init ==
  /\ text = Nothing /\ lock = Nothing
  /\ editor = [p \in Editors |-> Quiet]

Next ==
  \/ \E p \in Editors :
       \/ Begin(p) \/ LoadFails(p) \/ Load(p) \/ CommitLock(p) \/ CommitLockFails(p)
       \/ ReadManifest(p) \/ WriteManifest(p) \/ WriteManifestFails(p)
       \/ PutBack(p) \/ PutBackFails(p) \/ Exit(p) \/ KillEditor(p)
  \/ HandEdit
-----------------------------------------------------------------------------
(* When a change of a manifest has ended, made or undone, the lock file    *)
(* has a version for each dependency, one its line accepts, so that a      *)
(* --locked build goes on; and undone it is as it was found.  It is        *)
(* promised of a command that nothing else came across from its beginning, *)
(* and none of whose writes failed (build.rs add and remove, workspace.rs  *)
(* "Use Cargo.lock when it covers every local dependency").                *)
LockFits ==
  \A p \in Editors : editor[p].pc \in {"kept", "undone"} /\ editor[p].sure =>
    /\ text # Torn /\ lock # Torn /\ Fits(lock, text)
    /\ editor[p].pc = "undone" => text = editor[p].old
=============================================================================
