CONSTANTS
  DaemonLessons = {l1, l2, l3}
  CommandLessons = {c1}
  Draws = {d1, d2, d3, d4}
  NoAtoms = noatoms
  Starts = {j1, j2, j3, j4}
  NoStart = nostart
  Versions = {v1, v2}
  NoBaseline = nobaseline
SYMMETRY Interchange
SPECIFICATION Spec
INVARIANTS TypeOK OneLessonPerBaseline AlarmsExplained
PROPERTIES DriftEndsByBaseline
