CONSTANTS
  self = self
  defence = defence
  n1 = n1
  n2 = n2
  Procs = {p1, p2}
  JumpStart <- OneAtom
  Defence <- OneDefence
  Notes = {n1, n2}
  Alike <- Similar
  NoEngine = noengine
  MaxWork = 5
  MaxOverlap = 3
SYMMETRY Processes
SPECIFICATION Spec
INVARIANTS TypeOK SavedIsWhole CoreIsReady
PROPERTIES PruningIsSafe
CHECK_DEADLOCK FALSE
