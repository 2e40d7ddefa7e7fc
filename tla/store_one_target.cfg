SPECIFICATION Spec
CONSTANTS
  p1 = p1  p2 = p2  b1 = b1  b2 = b2  k1 = k1  k2 = k2  i1 = i1  i2 = i2
  Torn = Torn  None = None
  Projects = {p1}
  Builds = {b1, b2}
  ProjectOf <- MCSameProject
  Keys = {k1, k2}
  Inputs = {i1, i2}
  Contents <- MCContents
  Compile <- MCCompile
  Large = {}
  Symlinked = {}
  KeepVariants = 1
  Collectors = {}
  MidBuildEdits = FALSE
  Crashes = {"build", "rustc", "other"}
CHECK_DEADLOCK FALSE
INVARIANTS
  StoreSound
  SlotCrashSafe
SYMMETRY MCKeys
