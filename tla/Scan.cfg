SPECIFICATION ScanSpec
CONSTANTS
  rt = rt
  da = da
  db = db
  dc = dc
  Top = Top
  Gone = Gone
  Directory <- MCDirectory
  Name = {0, 1, 2, 3}
  Starts <- MCStarts
  Arguments <- MCArguments
  Threshold = 3
  Depth = 2
  MaxDirs = 3
  Writes <- MCWrites
  NewBytes = 3
  Lagging <- MCDirectory
  Unquiet = {"sampling", "sleeping", "rechecking"}
  MaxChanges = 2
INVARIANTS
  RowsAddUp
  UnmarkedRowsAreExact
  RenamesFollowed
  GrowthIsSeen
PROPERTIES
  ReplayIsTheSame
