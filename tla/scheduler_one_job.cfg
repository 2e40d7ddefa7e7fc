SPECIFICATION FairSpec
CONSTANTS
  lib = lib  dep = dep  bin = bin
  Units <- MCUnits
  MetaDeps <- MCMeta
  FullDeps <- MCWide
  EmitsMeta = {dep}
  MayRestore = {dep}
  MayFail <- MCUnits
  MayMisread = {dep}
  Jobs = 1
  KeepGoing = FALSE
INVARIANTS
  NoTokenHoarded
PROPERTIES
  StopsAtError
  ReadyStarts
