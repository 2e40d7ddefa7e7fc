----------------------------- MODULE MCPlanning -----------------------------
(***************************************************************************)
(* Small workspaces, registries, locks and commands for Planning.          *)
(***************************************************************************)
EXTENDS Planning

Crates == [at |-> "registry", reg |-> "crates-io"]
In(dir) == [at |-> "path", dir |-> dir]
Repo(commit) == [at |-> "git", url |-> "repo", ref |-> "main", commit |-> commit]
Reg(name, v) == [name |-> name, vers |-> v, src |-> Crates]
Local(name, v) == [name |-> name, vers |-> v, src |-> In(name)]
Git(name, v, c) == [name |-> name, vers |-> v, src |-> Repo(c)]

On(name) == [name |-> name, pkg |-> name, src |-> Crates, req |-> Star, kind |-> "normal",
             optional |-> FALSE, default |-> TRUE, feats |-> {}, platform |-> {"host", "target"}]
OnPath(name) == [On(name) EXCEPT !.src = In(name)]
OnGit(name) == [On(name) EXCEPT !.src = [at |-> "git", url |-> "repo", ref |-> "main"]]

Tgt(kind, types) == [kind |-> kind, types |-> types, test |-> kind \in {"lib", "bin", "test"},
                   bench |-> kind \in {"lib", "bin", "bench"}, doc |-> kind \in {"lib", "bin"},
                   doctest |-> kind = "lib", required |-> {}]
LibT == Tgt("lib", {"lib"})
BinT == Tgt("bin", {"bin"})
ScriptT == Tgt("build", {"bin"})

Package(deps) == [deps |-> deps, features |-> NoEntries, links |-> FALSE,
                  defaultRun |-> "",
                  targets |-> [lib |-> LibT]]
Macro(deps) == [Package(deps) EXCEPT !.targets = [lib |-> Tgt("lib", {"proc-macro"})]]
Sys(deps) == [Package(deps) EXCEPT !.links = TRUE, !.targets = [lib |-> LibT, build |-> ScriptT]]

(* util: three versions, the last needing a newer rustc, with an optional  *)
(* dependency and weak and strong `dep/feat' values.                       *)
UtilFeatures == [default |-> <<Feat("std")>>, std |-> <<DepFeat("core", "std", TRUE)>>,
                 extra |-> <<DepFeat("core", "fast", FALSE)>>, core |-> <<Dep("core")>>]
Util == [Package(<<[On("core") EXCEPT !.optional = TRUE]>>) EXCEPT !.features = UtilFeatures]
Core == [Package(<<>>) EXCEPT !.features = [std |-> <<>>, fast |-> <<>>]]

(* The application: every kind of target and of dependency.                *)
AppDeps == << [On("util") EXCEPT !.feats = {"extra"}],
              On("derive"),
              On("sys"),
              [On("util") EXCEPT !.kind = "build", !.default = FALSE],
              [On("mock") EXCEPT !.kind = "dev", !.req = {1}],
              [On("core") EXCEPT !.optional = TRUE, !.platform = {"target"}] >>
App == [Package(AppDeps) EXCEPT
          !.features = [default |-> <<DepFeat("core", "std", TRUE)>>, big |-> <<Dep("core")>>],
          !.targets = [lib |-> LibT, build |-> ScriptT, main |-> BinT,
                       big |-> [BinT EXCEPT !.required = {"big"}],
                       it |-> Tgt("test", {"bin"}), demo |-> Tgt("example", {"bin"})]]
Tool == [Package(<<OnPath("app"), [On("util") EXCEPT !.req = {1, 2}],
                   [On("old") EXCEPT !.name = "legacy", !.pkg = "util", !.req = {1}]>>)
           EXCEPT !.defaultRun = "tool",
                  !.targets = [tool |-> BinT, dl |-> Tgt("bench", {"bin"}),
                               lib |-> Tgt("lib", {"rlib", "cdylib"})]]

(* The same library for the program and its build script, above one whose  *)
(* features differ or not.                                                 *)
Duo(feats) == [Package(<<On("mid"), [On("core") EXCEPT !.feats = feats],
                         [On("mid") EXCEPT !.kind = "build"], [On("core") EXCEPT !.kind = "build"]>>)
                 EXCEPT !.targets = [lib |-> LibT, main |-> BinT, build |-> ScriptT]]

(* A script whose owner turns a dependency on for the target alone.        *)
Gear == [Sys(<<[On("core") EXCEPT !.optional = TRUE, !.platform = {"target"}]>>) EXCEPT
           !.features = [default |-> <<DepFeat("core", "fast", FALSE)>>]]

AllOf(name, man) == [k \in {Reg(name, v) : v \in Star} |-> man]
Catalog == AllOf("util", Util) @@ AllOf("core", Core)
           @@ AllOf("derive", Macro(<<On("util")>>))
           @@ AllOf("sys", Sys(<<[On("util") EXCEPT !.kind = "build", !.feats = {"core"}], On("core")>>))
           @@ AllOf("mock", [Package(<<OnPath("app")>>) EXCEPT !.deps = <<On("core")>>])
           @@ (Git("core", 2, "c1") :> Core) @@ (Git("core", 3, "c2") :> Core)
           @@ (Git("twin", 1, "c1") :> Package(<<On("core")>>))
           @@ (Git("twin", 1, "c2") :> Package(<<On("core")>>))
           @@ (Local("app", 1) :> App) @@ (Local("tool", 1) :> Tool)
           @@ (Local("util", 3) :> Util)
           @@ AllOf("mid", Package(<<On("core")>>))
           @@ (Local("duo", 1) :> Duo({"fast"})) @@ (Local("duo", 2) :> Duo({}))
           @@ AllOf("gear", Gear) @@ (Local("mac", 1) :> Macro(<<[On("util") EXCEPT !.req = {1, 2}]>>))
           @@ (Local("mill", 1) :> [Package(<<On("gear"), [On("gear") EXCEPT !.kind = "build"]>>) EXCEPT
                                      !.targets = [main |-> BinT, build |-> ScriptT]])
           @@ (Local("wide", 1) :> Package(<<[On("util") EXCEPT !.req = {2, 3}],
                                             [On("util") EXCEPT !.name = "newer", !.req = {3}]>>))
           @@ (Local("kept", 1) :> Package(<<[On("util") EXCEPT !.req = {1, 2}]>>))
           @@ (Local("lost", 1) :> Package(<<On("nowhere")>>))
           @@ (Local("stray", 1) :> Package(<<OnGit("nowhere")>>))

Entry(id) == [id |-> id, yanked |-> id.name = "sys" /\ id.vers = 3,
              msrvOk |-> ~(id.name = "util" /\ id.vers = 3)]

Build == [do |-> "build", build |-> "build", workspace |-> FALSE, specs |-> {}, exclude |-> {},
          cli |-> {}, all |-> FALSE, default |-> TRUE, recursive |-> FALSE,
          precise |-> NoVersion, commit |-> "", dryRun |-> FALSE, docDeps |-> FALSE, kinds |-> {}, named |-> {}]
Ask(n) == [name |-> n, vers |-> 0..4]
Key(n) == [name |-> n, vers |-> NoVersion]

MCManifests == Catalog
(* What is published; derive 1 was removed.                                *)
MCIndex == {Entry(n) : n \in {m \in DOMAIN Catalog : m.src = Crates /\ m # Reg("derive", 1)}}

World(members) ==
    [members |-> members, locals |-> members, defaultMembers |-> members,
     current |-> Local("none", 1), patches |-> {}, patchFor |-> "crates-io", cratesIo |-> Crates,
     head |-> (<<"repo", "main">> :> "c2"), lock |-> NoLock, locked |-> FALSE,
     noTarget |-> TRUE, kinds |-> {"t1"}, firstKind |-> "t1", msrvAware |-> FALSE,
     twoSides |-> TRUE, cmd |-> Build, asked |-> "", tomls |-> <<>>]

Sets(fields) == [NoLayer EXCEPT !.set = fields]
Dev(layer) == <<"dev" :> layer>>
Lto(l) == [lto |-> l]
(* The host's profile is optimized as the target's is; packages from       *)
(* elsewhere are; a configuration file has its say.                        *)
Tuned == << ("dev" :> [NoLayer EXCEPT !.set = [panic |-> "abort", opt |-> 1, units |-> 4],
                                      !.override = [opt |-> 1, units |-> 4],
                                      !.package = [s \in {Key("*")} |-> [opt |-> 2]]]),
            ("dev" :> [NoLayer EXCEPT !.set = [debug |-> 0, flags |-> <<"x">>],
                                      !.package = [s \in {Key("core"), [name |-> "util", vers |-> 1]} |->
                                                    [debug |-> 2, flags |-> <<"y">>]]]) >>
(* A profile of the user's, a loop, and one without an ancestor.           *)
UsersOwn == << [dist |-> [Sets([strip |-> "none", lto |-> "thin"]) EXCEPT !.inherits = "release"],
             ring |-> [NoLayer EXCEPT !.inherits = "gnir"], gnir |-> [NoLayer EXCEPT !.inherits = "ring"],
             lone |-> Sets([opt |-> 3])] >>

Apps == World({Local("app", 1)})
Both == [World({Local("app", 1), Local("tool", 1)}) EXCEPT !.defaultMembers = {Local("app", 1)}]

LockOf(n, deps) == [name |-> n.name, vers |-> n.vers, src |-> LockSource(n), deps |-> {LockEntry(d) : d \in deps}]
(* What an earlier build locked, before `sys' became a dependency.         *)
OldLock == Render({LockOf(Local("app", 1), {Reg("util", 1), Reg("derive", 2), Reg("mock", 1), Reg("core", 1)}),
                   LockOf(Reg("util", 1), {Reg("core", 1)}), LockOf(Reg("derive", 2), {Reg("util", 1)}),
                   LockOf(Reg("mock", 1), {Reg("core", 1)}), LockOf(Reg("core", 1), {})})
(* One that covers the local package but not what `derive' needs.          *)
Torn == Render({LockOf(Local("app", 1), {Reg("util", 1), Reg("derive", 2), Reg("mock", 1), Reg("core", 1),
                                         Reg("sys", 2)}),
                LockOf(Reg("util", 1), {Reg("core", 1)}), LockOf(Reg("derive", 2), {}),
                LockOf(Reg("sys", 2), {Reg("core", 1), Reg("util", 1)}),
                LockOf(Reg("mock", 1), {Reg("core", 1)}), LockOf(Reg("core", 1), {})})

Commands == { Build,
              [Build EXCEPT !.build = "test", !.workspace = TRUE],
              [Build EXCEPT !.build = "check", !.all = TRUE],
              [Build EXCEPT !.build = "bench", !.default = FALSE],
              [Build EXCEPT !.build = "doc", !.specs = {Ask("app")}],
              [Build EXCEPT !.kinds = {"lib", "bin", "test", "example", "bench"},
                            !.cli = {[owner |-> "", feat |-> "big"]}],
              [Build EXCEPT !.build = "run", !.named = {<<"bin", "big">>}] }

Plain == UNION {{[w EXCEPT !.cmd = c] : c \in Commands} : w \in {Apps, Both}}
Cross == {[w EXCEPT !.noTarget = FALSE, !.tomls = Dev([Sets(Lto(l)) EXCEPT !.override = [opt |-> h]])] :
             w \in {[Both EXCEPT !.cmd = c] : c \in Commands}, l \in {"fat"}, h \in {0, 3}}
FatLto == {[w EXCEPT !.tomls = Dev(Sets([lto |-> l, panic |-> "abort"]))] : w \in Plain, l \in {"fat", "off"}}
Duos == {[World({Local("duo", v)}) EXCEPT !.tomls = Dev(Sets(Lto(l)))] : v \in {1, 2}, l \in {"default", "fat"}}
Asking(w, p) == [w EXCEPT !.tomls = UsersOwn, !.asked = p]
Profiled == {[w EXCEPT !.tomls = Tuned] : w \in Plain \cup {World({Local("duo", v)}) : v \in {1, 2}}}
            \cup {Asking(Both, p) : p \in {"release", "dist", "ring", "lone"}}
            \cup {[Asking(Apps, "release") EXCEPT !.cmd.build = "bench"]}
Runs == {[w EXCEPT !.cmd = [Build EXCEPT !.build = "run", !.specs = s]] :
            w \in {Both, World({Local("duo", 1)})}, s \in {{}, {Ask("tool")}, {Ask("app"), Ask("tool")}}}
OneSide == {[w EXCEPT !.twoSides = FALSE, !.msrvAware = TRUE] : w \in Plain}

UpdateOf(s, r, v) == [Build EXCEPT !.do = "update", !.specs = s, !.recursive = r,
                                 !.precise = v, !.dryRun = v = 3]
Updates == {[Apps EXCEPT !.lock = k, !.cmd = c] :
              k \in {OldLock, Torn},
              c \in {UpdateOf({}, FALSE, NoVersion), UpdateOf({Ask("nothing")}, FALSE, NoVersion)}
                    \cup {UpdateOf({Ask("util")}, r, NoVersion) : r \in BOOLEAN}
                    \cup {UpdateOf({Ask("util")}, FALSE, v) : v \in {2, 3, 4}}
                    \cup {UpdateOf({Ask("util")}, TRUE, 2)}
                    \cup {UpdateOf({[Ask("util") EXCEPT !.vers = s]}, FALSE, NoVersion) : s \in {{1, 2}, {2, 3}}}}
(* To a commit, of a repository that stands in for a crate.                *)
GitLock == Render({LockOf(Local("kept", 1), {Reg("util", 1)}), LockOf(Reg("util", 1), {Git("core", 3, "c2")}),
                   LockOf(Git("core", 3, "c2"), {})})
Commits == {[World({Local("kept", 1)}) EXCEPT !.lock = GitLock, !.patches = {OnGit("core")},
                !.cmd = [UpdateOf({Ask("core")}, FALSE, NoVersion) EXCEPT !.commit = c]] : c \in {"c1", "c3"}}
Locks == {[Apps EXCEPT !.lock = k, !.locked = b, !.msrvAware = TRUE] : k \in {OldLock, Torn}, b \in BOOLEAN}
(* [patch] by a workspace member and by a commit.                          *)
WithUtil(w) == [w EXCEPT !.members = @ \cup {Local("util", 3)}, !.locals = @ \cup {Local("util", 3)}]
Patched == {[WithUtil(w) EXCEPT !.patches = {OnPath("util")}] : w \in {Apps, Both}}
           \cup {[w EXCEPT !.patches = {OnGit("core")}] : w \in {Apps, Both}}
(* Documentation with the dependencies', for another target.               *)
Documents == {[w EXCEPT !.noTarget = FALSE, !.kinds = {"t1", "t2"}, !.cmd = [Build EXCEPT !.build = "doc", !.docDeps = TRUE]] :
                w \in {Both, [Both EXCEPT !.defaultMembers = @ \cup {Local("tool", 1)}]}}

(* Commands that have to fail, or name a package that is not a member.     *)
Gone == {LockOf(Local("app", 1), {Reg("derive", 1)}), LockOf(Reg("derive", 1), {})}
Nowhere == {LockOf(Local("lost", 1), {Reg("nowhere", 1)}), LockOf(Reg("nowhere", 1), {})}
Odd == { World({Local("lost", 1)}), World({Local("stray", 1)}),
         [World({Local("lost", 1)}) EXCEPT !.lock = Nowhere],
         [Apps EXCEPT !.lock = Gone],
         [Apps EXCEPT !.lock = Torn, !.cmd = [Build EXCEPT !.specs = {Ask("derive")}]],
         [Apps EXCEPT !.cmd = [Build EXCEPT !.specs = {Ask("sys")}]],
         [Both EXCEPT !.cmd = [Build EXCEPT !.workspace = TRUE, !.exclude = {Ask("tool")}]],
         [Both EXCEPT !.cmd = [Build EXCEPT !.workspace = TRUE, !.exclude = {Ask("util")}]],
         [Apps EXCEPT !.cmd = [Build EXCEPT !.cli = {[owner |-> "app", feat |-> "nope"]}]] }
(* Units for both sides that hash alike: checked libraries of a proc-macro  *)
(* and of a program, and two compilations of one script.                   *)
Alike == { [World({Local("kept", 1), Local("mac", 1)}) EXCEPT
                  !.tomls = Dev(Sets([debug |-> 0])), !.cmd = [Build EXCEPT !.build = "check"]],
               [World({Local("mill", 1)}) EXCEPT !.noTarget = FALSE] }
MCWorlds == Alike \cup Plain \cup Cross \cup FatLto \cup OneSide \cup Updates \cup Commits \cup Locks \cup Patched
            \cup Documents \cup Duos \cup Profiled \cup Runs \cup Odd

(* A package that nobody would need any more, had its second dependent     *)
(* been resolved later.                                                    *)
Widening == {[World({Local("wide", 1), Local("kept", 1)}) EXCEPT !.msrvAware = TRUE,
                !.lock = Render({LockOf(Local("kept", 1), {Reg("util", 1)}), LockOf(Reg("util", 1), {})})]}

(* Tests where the profile aborts on panic.                                *)
TestWorlds == {[Apps EXCEPT !.tomls = Dev(Sets([panic |-> "abort"])), !.cmd.build = "test"]}
=============================================================================
