------------------------------ MODULE Installs ------------------------------
(***************************************************************************)
(* `rb install' and `rb uninstall', with the list they keep of what they   *)
(* put into bin/ (rb-core build.rs).  Only the build inside an install     *)
(* takes a lock, the one of install-target/, and lets it go before the     *)
(* binaries are copied; bin/ and the list are read and written under none, *)
(* so commands that run at once get into each other's way.                 *)
(***************************************************************************)
EXTENDS Functions

CONSTANTS
  Packages, BinsOf,     \* what is installed, and the binaries of each
  Users,                \* processes
  None, Torn

Binaries == UNION Range(BinsOf)
NoList == <<>>

VARIABLES
  rules,       \* what a behaviour is about
  release,     \* binary -> the package that built it, in install-target/release
  bin,         \* the same for bin/
  list,        \* .rb-install.json: package -> the binaries listed for it
  user,        \* what each process is doing
  owed         \* what completed installs listed, put there and built

files == <<release, bin, list>>
vars == <<rules, files, user, owed>>

\* f with v at x, where it may have had nothing.
Put(f, x, v) == [y \in DOMAIN f \cup {x} |-> IF y = x THEN v ELSE f[y]]

Quiet == [pc |-> "idle"]

\* Commands run at once where rules.crowd lets them, else in turn.
Begins(p) ==
  /\ rules.part = "installs" /\ user[p].pc = "idle"
  /\ rules.crowd \/ \A q \in Users : user[q].pc = "idle"

Pkg(p) == user[p].pkg

\* From its reading of the list to its having rewritten it, a command relies
\* on the list as it was.
Relying(p) == user[p].pc \in {"write", "unlink"}
Meets(p) == \E q \in Users \ {p} : Relying(q)

\* p begins to rely on it, and goes on with r: who does already is crossed.
Crossing(p, r) ==
  user' = [q \in Users |-> IF q = p THEN r
                           ELSE IF Relying(q) THEN [user[q] EXCEPT !.crossed = TRUE]
                           ELSE user[q]]

\* What is put into bin/ or taken from there is what others put there no more.
Disowned(x) == {o \in owed : o[2] # x}
Disown(p, x, r) ==
  user' = [q \in Users |-> IF q = p THEN r
                           ELSE IF user[q].pc \in {"copy", "read", "write"}
                           THEN [user[q] EXCEPT !.kept = {k \in @ : k[1] # x}]
                           ELSE user[q]]
-----------------------------------------------------------------------------
(* build.rs install. *)

Install(p) ==
  /\ Begins(p)
  /\ \E pkg \in rules.pkgs, force \in BOOLEAN :
       \E only \in {{}} \cup {{x} : x \in BinsOf[pkg]} :
         user' = [user EXCEPT ![p] = [pc |-> "build", pkg |-> pkg, force |-> force, only |-> only]]
  /\ UNCHANGED <<files, owed>>

Chosen(p) == IF user[p].only = {} THEN BinsOf[Pkg(p)] ELSE user[p].only

\* The binaries are uplifted: each a new file.
BuildInstall(p) ==
  /\ user[p].pc = "build"
  /\ release' = [x \in Binaries |-> IF x \in Chosen(p) THEN Pkg(p) ELSE release[x]]
  /\ user' = [user EXCEPT ![p].pc = "built"]
  /\ UNCHANGED <<bin, list, owed>>

BuildInstallFails(p) ==
  /\ user[p].pc = "build"
  /\ user' = [user EXCEPT ![p] = Quiet]
  /\ UNCHANGED <<files, owed>>

\* Everything that lies in release/ is copied, unless --bin names some.
ReadRelease(p) ==
  /\ user[p].pc = "built"
  /\ LET todo == {x \in Binaries : release[x] # None /\ (user[p].only = {} \/ x \in user[p].only)}
     IN  user' = [user EXCEPT ![p] =
           IF todo = {} THEN Quiet
           ELSE [pc |-> "copy", pkg |-> Pkg(p), force |-> user[p].force,
                 todo |-> todo, at |-> <<>>, copied |-> {}, kept |-> {}]]
  /\ UNCHANGED <<files, owed>>

\* In place.  What is there already ends it, with what was copied before left.
Copy(p) ==
  /\ user[p].pc = "copy" /\ user[p].at = <<>>
  /\ \E x \in user[p].todo :
       LET k == <<x, release[x]>>
           alone == ~\E q \in Users \ {p} : user[q].pc = "copy" /\ user[q].at # <<>> /\ user[q].at[1] = x
       IN  IF bin[x] # None /\ ~user[p].force
           THEN user' = [user EXCEPT ![p] = Quiet] /\ UNCHANGED <<bin, owed>>
           ELSE /\ bin' = [bin EXCEPT ![x] = Torn]
                /\ owed' = Disowned(x)
                /\ Disown(p, x, [user[p] EXCEPT !.at = k, !.kept = IF alone THEN @ \cup {k} ELSE @])
  /\ UNCHANGED <<release, list>>

\* Who copied it alone has it whole.  A file that was removed meanwhile cannot
\* be made executable, which ends the install.
Copied(p) ==
  /\ user[p].pc = "copy" /\ user[p].at # <<>>
  /\ LET x == user[p].at[1]
         outcomes == IF user[p].at \in user[p].kept THEN {user[p].at[2]}
                     ELSE {bin[x], Torn, user[p].at[2]}
     IN  IF bin[x] = None
         THEN user' = [user EXCEPT ![p] = Quiet] /\ UNCHANGED bin
         ELSE /\ \E c \in outcomes : bin' = [bin EXCEPT ![x] = c]
              /\ user' = [user EXCEPT ![p].at = <<>>, ![p].todo = @ \ {x}, ![p].copied = @ \cup {x},
                                      ![p].pc = IF user[p].todo = {x} THEN "read" ELSE @]
  /\ UNCHANGED <<release, list, owed>>

\* A list that cannot be parsed counts as empty, and so does one that another
\* command is just writing.
Entries == IF list = Torn THEN NoList ELSE list
Readings(p) == {Entries} \cup (IF Meets(p) THEN {NoList} ELSE {})

ReadList(p) ==
  /\ user[p].pc = "read"
  /\ \E l \in Readings(p) :
       Crossing(p, [pc |-> "write", pkg |-> Pkg(p), copied |-> user[p].copied,
                    kept |-> user[p].kept, read |-> l, crossed |-> Meets(p)])
  /\ owed' = IF Meets(p) THEN {} ELSE owed
  /\ UNCHANGED files

\* Faulty: the entries of all others are dropped with the package's own.
ListedAlone(p) == Put(NoList, Pkg(p), user[p].copied)
Listed(p) == Put(user[p].read, Pkg(p), user[p].copied)

\* A list two commands write at once can be a mixture.
Writings(p, l) == {l} \cup (IF user[p].crossed THEN {Torn} ELSE {})

WriteList(p) ==
  /\ user[p].pc = "write"
  /\ list' \in Writings(p, Listed(p))
  /\ owed' = IF user[p].crossed THEN owed
             ELSE {o \in owed : o[1] # Pkg(p)} \cup {<<Pkg(p), k[1], k[2]>> : k \in user[p].kept}
  /\ user' = [user EXCEPT ![p] = Quiet]
  /\ UNCHANGED <<release, bin>>
-----------------------------------------------------------------------------
(* build.rs uninstall. *)

Uninstall(p) ==
  /\ Begins(p)
  /\ \E pkg \in DOMAIN Entries :
       /\ Crossing(p, [pc |-> "unlink", pkg |-> pkg, todo |-> Entries[pkg],
                       read |-> Restrict(Entries, DOMAIN Entries \ {pkg}), crossed |-> Meets(p)])
       /\ owed' = IF Meets(p) THEN {} ELSE {o \in owed : o[1] # pkg}
  /\ UNCHANGED files

Unlink(p) ==
  /\ user[p].pc = "unlink"
  /\ \E x \in user[p].todo :
       /\ bin' = [bin EXCEPT ![x] = None]
       /\ owed' = Disowned(x)
       /\ Disown(p, x, [user[p] EXCEPT !.todo = @ \ {x}])
  /\ UNCHANGED <<release, list>>

\* The list of nothing is removed.
Unlisted(p) ==
  /\ user[p].pc = "unlink" /\ user[p].todo = {}
  /\ list' \in Writings(p, user[p].read)
  /\ user' = [user EXCEPT ![p] = Quiet]
  /\ UNCHANGED <<release, bin, owed>>
-----------------------------------------------------------------------------
\* A list of something is written.
Rewriting(p) ==
  \/ user[p].pc = "write"
  \/ user[p].pc = "unlink" /\ user[p].todo = {} /\ DOMAIN user[p].read # {}

\* Killed, or ended by a file it cannot write or remove.
KillUser(p) ==
  /\ user[p].pc # "idle"
  /\ user' = [user EXCEPT ![p] = Quiet]
  /\ \/ UNCHANGED <<list, owed>>
     \/ Rewriting(p) /\ list' = Torn /\ owed' = {}
  /\ UNCHANGED <<release, bin>>

Init ==
  /\ release = [x \in Binaries |-> None] /\ bin = [x \in Binaries |-> None]
  /\ list = NoList /\ owed = {}
  /\ user = [p \in Users |-> Quiet]

Next ==
  /\ UNCHANGED rules
  /\ \E p \in Users :
       \/ Install(p) \/ BuildInstall(p) \/ BuildInstallFails(p) \/ ReadRelease(p) \/ Copy(p) \/ Copied(p)
       \/ ReadList(p) \/ WriteList(p)
       \/ Uninstall(p) \/ Unlink(p) \/ Unlisted(p) \/ KillUser(p)
-----------------------------------------------------------------------------
(* What an install that completed put into bin/ is there, the whole of     *)
(* what it found built, and listed for `rb uninstall', until a later       *)
(* install of the package or of a binary of that name, or an uninstall     *)
(* that lists it.  It is promised of a binary no other command copied or   *)
(* removed between the first one's copying and listing it, and until two   *)
(* commands have rewritten the list at once or a write of it was cut short *)
(* (build.rs install, record_install, uninstall).                          *)
InstalledIsThere ==
  \A o \in owed :
    /\ bin[o[2]] = o[3]
    /\ list # Torn /\ o[1] \in DOMAIN list /\ o[2] \in list[o[1]]
=============================================================================
