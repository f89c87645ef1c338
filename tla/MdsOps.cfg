SPECIFICATION MdsSpec
CONSTANTS
  None = None
  r1 = r1  r2 = r2  c1 = c1  c2 = c2  p1 = p1  p2 = p2
  i1 = i1  i2 = i2  u = u  custom = custom
  Run = {r1, r2}
  Cluster = {c1, c2}
  Pool = {p1, p2}
  Inode = {i1, i2}
  Id = {u}
  Rank = {0, 1}
  LsName = {custom}
  Scripts <- MCScripts
  Dumps <- MCDump
  MaxClock = 2
INVARIANTS
  NothingForeign
  StaleOnlyAfterFailure
  AnswersShown
PROPERTIES
  NewerKept
SYMMETRY MCSymmetry
CHECK_DEADLOCK FALSE
