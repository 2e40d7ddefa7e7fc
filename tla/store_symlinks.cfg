SPECIFICATION Spec
CONSTANTS
  p1 = p1  p2 = p2  b1 = b1  b2 = b2  k1 = k1  k2 = k2  i1 = i1  i2 = i2
  Torn = Torn  None = None
  Projects = {p1}
  Builds = {b1}
  ProjectOf <- MCSameProject
  Keys = {k1, k2}
  Inputs = {i1}
  Contents <- MCContents
  Compile <- MCCompile
  Large = {}
  Symlinked = {p1}
  KeepVariants = 1
  Collectors = {"user"}
  MidBuildEdits = FALSE
  Crashes = {"build", "other"}
CHECK_DEADLOCK FALSE
INVARIANTS
  LinksAlive
  HitsMaterialize
SYMMETRY MCKeys
