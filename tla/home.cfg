SPECIFICATION HomeSpec
CONSTANTS
  p1 = p1  p2 = p2  t1 = t1  t2 = t2  c1 = c1  g1 = g1  toml = toml  lib = lib  side = side
  a = a  b = b  c = c  d = d  a1 = a1  b1 = b1  x1 = x1  x2 = x2  d1 = d1  d2 = d2  v1 = v1  v2 = v2
  None = None  Torn = Torn  Whole = Whole  Ok = Ok
  Procs = {p1, p2}
  Threads = {t1, t2}
  Crates = {c1}
  Commits = {g1}
  Parts = {toml, lib}
  Manifest = toml
  Nested = {lib}
  Packages = {a, b, c, d}
  BinsOf <- MCBins
  Deps = {d1, d2}
  Lines <- MCLines
  Rules <- MCRules
SYMMETRY Symmetry
CHECK_DEADLOCK FALSE
INVARIANTS IndexCurrent SourcesWhole FailsOnce ResolvedRight InstalledIsThere LockFits
