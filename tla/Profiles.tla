------------------------------ MODULE Profiles ------------------------------
(***************************************************************************)
(* rb-core's profile.rs: the profile a command asks for, its ancestors,    *)
(* and what the manifest, the configuration files and the environment make *)
(* of it for one package on one side.  A table of a file is a function     *)
(* from the fields it sets, in the values they are normalized to; TOML,    *)
(* macOS's split debuginfo and fields nothing here tells apart are left    *)
(* out.                                                                    *)
(***************************************************************************)
EXTENDS PackageGraph

NoFields == [f \in {} |-> 0]
NoLayer == [set |-> NoFields, inherits |-> "", override |-> NoFields, package |-> NoFields]

(* The later table wins field by field.                                    *)
Merge(tables) ==
    [f \in UNION {DOMAIN tables[i] : i \in DOMAIN tables} |->
        tables[Max({i \in DOMAIN tables : f \in DOMAIN tables[i]})][f]]
Over(specs, key) == IF key \in DOMAIN specs THEN specs[key] ELSE NoFields

(* Manifest, then configuration files from the farthest in, then           *)
(* CARGO_PROFILE_*; nested tables are merged as well.                      *)
Layer(name) ==
    LET of(file) == IF name \in DOMAIN file THEN file[name] ELSE NoLayer
        t == [i \in DOMAIN world.tomls |-> of(world.tomls[i])]
        said == {i \in DOMAIN t : t[i].inherits # ""}
    IN  [set |-> Merge([i \in DOMAIN t |-> t[i].set]),
         inherits |-> IF said = {} THEN "" ELSE t[Max(said)].inherits,
         override |-> Merge([i \in DOMAIN t |-> t[i].override]),
         package |-> [s \in UNION {DOMAIN t[i].package : i \in DOMAIN t} |->
                        Merge([i \in DOMAIN t |-> Over(t[i].package, s)])]]

Builtin == {"dev", "release"}
Parent(name) == CASE name = "test" -> "dev"
                  [] name = "bench" -> "release"
                  [] OTHER -> Layer(name).inherits

(* The names from the built-in one down, or none: the profile is part of a *)
(* loop, or one of them does not say what it inherits.                     *)
Ancestry(name) ==
    LET above[names \in Seq(STRING)] ==
            LET up == Parent(Head(names)) IN
            IF Head(names) \in Builtin THEN names
            ELSE IF up = "" \/ up \in ToSet(names) THEN <<>> ELSE above[<<up>> \o names]
    IN  above[<<name>>]

Requested == IF world.asked \notin {"", "release"} THEN world.asked
             ELSE IF world.cmd.build = "bench" THEN "bench"
             ELSE IF world.asked = "release" THEN "release"
             ELSE IF world.cmd.build = "test" THEN "test" ELSE "dev"
ProfileFails == Ancestry(Requested) = <<>>

Default(name) ==
    [opt |-> IF name = "release" THEN 3 ELSE 0, debug |-> IF name = "release" THEN 0 ELSE 2,
     lto |-> "default", panic |-> "unwind", units |-> 0, strip |-> "", flags |-> <<>>]

(* One table after the other: flags add up, all else is replaced.          *)
Apply(tables) ==
    LET last == Merge(tables)
    IN  [f \in DOMAIN last |->
            IF f = "flags" THEN FlattenSeq([i \in DOMAIN tables |-> Over(tables[i], f)])
            ELSE last[f]]

(* The tables for a package: "*" unless it is a member, its name, then its *)
(* name and version, which is the order their keys are sorted in.          *)
ForPackage(t, n) ==
    Apply(<<IF n \in world.members THEN NoFields
            ELSE Over(t.package, [name |-> "*", vers |-> NoVersion]),
            Over(t.package, [name |-> n.name, vers |-> NoVersion]),
            Over(t.package, [name |-> n.name, vers |-> n.vers])>>)

Strip(p, wasOff) == IF p.strip = "" /\ wasOff /\ p.debug = 0 THEN "debuginfo"
                    ELSE IF p.strip = "none" THEN "" ELSE p.strip

(* Host units are not optimized and unwind, whatever the profile says; the *)
(* tables for packages come last.                                          *)
GetProfile(n, forHost) ==
    LET names == Ancestry(Requested)
        chain == [i \in DOMAIN names |-> Layer(names[i])]
        main == Apply(<<Default(names[1]), Apply([i \in DOMAIN chain |-> chain[i].set])>>)
        weak == [opt |-> 0, units |-> 0]
        bare == IF world.noTarget THEN [debug |-> 0] ELSE NoFields
        host == IF forHost
                THEN Apply(<<weak, bare, Apply([i \in DOMAIN chain |-> chain[i].override]),
                             [panic |-> "unwind"]>>)
                ELSE NoFields
        whole == Apply(<<main, host, Apply([i \in DOMAIN chain |-> ForPackage(chain[i], n)])>>)
    IN  [whole EXCEPT !.strip = Strip(whole, main.debug = 0)]
=============================================================================
