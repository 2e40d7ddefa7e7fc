SPECIFICATION Spec
CONSTANTS
  a = a  b = b  c = c  d = d  x = x  y = y
  b1 = b1
  None = None  Torn = Torn
  Crates <- MCCrates
  Graphs <- MCGraphs
  Versions = {1, 2}
  Builders = {b1}
  KeepVariants = 1
  KeepFor = 40
  ArchivesPerCrate = 1
  Parts = {x, y}
  Rules <- MCRules
SYMMETRY MCSym
CHECK_DEADLOCK FALSE
INVARIANTS SlotsHonest PromiseKept CacheComesBack
