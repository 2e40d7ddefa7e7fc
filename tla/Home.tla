-------------------------------- MODULE Home --------------------------------
(***************************************************************************)
(* What rb keeps for the user outside of builds: the sources it fetched,   *)
(* the binaries it installed, and the manifests and lock files it rewrote. *)
(* They share no state; a behaviour is about one part (rules.part).        *)
(***************************************************************************)
EXTENDS Sources

CONSTANTS Packages, BinsOf, Deps, Lines

VARIABLES release, bin, list, user, owed, text, lock, editor

installed == <<release, bin, list, user, owed>>
edited == <<text, lock, editor>>

Installing == INSTANCE Installs WITH Users <- Procs
Editing == INSTANCE Edits WITH Editors <- Procs

\* No list of what is installed, no manifest and no lock file is a torn one.
ASSUME HomeAssumption ==
  /\ DOMAIN BinsOf = Packages
  /\ \A some \in SUBSET Packages : Torn \notin [some -> SUBSET Installing!Binaries]
  /\ Torn \notin Editing!Texts /\ Torn \notin Editing!Locks
  /\ \A r \in Rules : r.pkgs \subseteq Packages /\ r.deps \subseteq Deps /\ r.crowd \in BOOLEAN

HomeInit == Init /\ Installing!Init /\ Editing!Init
HomeNext ==
  \/ Next /\ UNCHANGED <<installed, edited>>
  \/ Installing!Next /\ UNCHANGED <<vars, edited>>
  \/ Editing!Next /\ UNCHANGED <<vars, installed>>
HomeSpec == HomeInit /\ [][HomeNext]_<<vars, installed, edited>>

(* Installs, see there.                                                    *)
InstalledIsThere == Installing!InstalledIsThere
(* Edits, see there.                                                       *)
LockFits == Editing!LockFits
=============================================================================
