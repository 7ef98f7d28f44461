CONSTANTS
  Procs = {p1, p2}
  Tasks = {k1, k2}
  k1 = k1
  k2 = k2
  empty = empty
  data = data
  Reports <- OneTask
  Kinds = {"completed", "failed"}
  Payloads = {empty, data}
  NoPayload = empty
  Stamps = {1, 2, 3}
  MaxOverlap = 2
  Hash <- MCHash
  AtomHash <- MCAtomHash
  GENESIS <- MCGenesis
  NoAtom = noatom
  Rogue = {rogue}
  NoEpisode = noepisode
SYMMETRY Processes
SPECIFICATION Spec
INVARIANTS TypeOK AtomsAreImmutable AuditTellsTheAtoms RegisteredWasCompleted RegistryIsSound
PROPERTIES AtomsImplementAuditLog RegistrationsAreKept
CHECK_DEADLOCK FALSE
