CONSTANTS
  h1 = h1
  h2 = h2
  t1 = t1
  t2 = t2
  Events = {e1, e2}
  NoEvent = none
  GENESIS <- MCGenesis
  Hash <- MCHash
  EntryHash <- MCEntryHash
  MaxEntries = 2
  Handles = {h1}
  Threads = {t1, t2}
  HandleOf <- BothOnFirst
SPECIFICATION OrderlySpec
INVARIANTS HashChain
