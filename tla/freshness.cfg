CONSTANTS
    None = None
    Torn = Torn
    app = app
    sys = sys
    Units = {"run", "lib", "bin"}
    Runs = {"run"}
    Roots = {"bin"}
    Vars = {"V"}
    Local <- MCLocal
    Contents = {1, 2}
    Files = {"lib.rs", "data", "main.rs", "shared"}
    Dirs = {"a", "b"}
    Deps <- MCDeps
    PackageOf <- MCPackageOf
    Tree <- MCTree
    Reads <- MCReads
    Rules <- MCRules
SPECIFICATION Spec
INVARIANTS BuiltIsCurrent NothingRedone
CHECK_DEADLOCK FALSE
