SPECIFICATION FairSpec
CONSTANTS
  lib = lib  dep = dep  bin = bin
  Units <- MCUnits
  MetaDeps <- MCMeta
  FullDeps <- MCChain
  EmitsMeta = {dep}
  MayRestore <- MCUnits
  MayFail <- MCUnits
  MayMisread <- MCUnits
  Jobs = 2
  KeepGoing = TRUE
INVARIANTS
  TypeOK
  DepsFirst
  TokensConserved
  WaitsExact
  StoringExact
  ExitHonest
PROPERTIES
  ImplementsOrder
  Terminates
