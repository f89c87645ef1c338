SPECIFICATION Spec
CONSTANTS
  Path <- MCPath
  Dir <- MCDir
  Trees <- MCTrees
  Fleeting <- MCFleeting
  Threads = 4
  BatchSize = 2
INVARIANTS
  Complete
PROPERTIES
  EndsUnlessDenied
CHECK_DEADLOCK FALSE
