CONSTANTS
  t1 = t1
  t2 = t2
  f1 = f1
  f2 = f2
  Tasks = {t1, t2}
  Steps <- Mixed
  Files = {f1, f2}
  CkptFile <- OwnFile
  Remembering = {t1}
  RequireSignature = TRUE
  HasTrustedKeys = TRUE
  Modes <- AnyMode
  NoTask = none
  MaxEntries = 10
  MaxFaults = 1
  MaxCrashes = 1
  MaxDamaged = 1
SPECIFICATION Spec
INVARIANTS TypeOK CheckpointIsBacked LedgerTellsTheRuns MemoryAccounted LearnedIsKept
