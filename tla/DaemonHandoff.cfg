CONSTANTS
  t1 = t1
  t2 = t2
  f1 = f1
  f2 = f2
  Tasks = {t1, t2}
  Steps <- Chain
  Files = {f1, f2}
  CkptFile <- OwnFile
  Remembering = {t1}
  RequireSignature = TRUE
  HasTrustedKeys = TRUE
  Modes <- OnlyResume
  NoTask = none
  MaxEntries = 14
  MaxFaults = 1
  MaxCrashes = 0
  MaxDamaged = 0
SPECIFICATION Spec
INVARIANTS HandoffPreserved
