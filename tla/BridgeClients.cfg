CONSTANTS
  h1 = h1
  h2 = h2
  t1 = t1
  t2 = t2
  t3 = t3
  append = append
  remember = remember
  skill = skill
  bare = bare
  verify = verify
  other = other
  Events = {append, remember, skill, bare, verify, other}
  NoEvent = none
  GENESIS <- MCGenesis
  Hash <- MCHash
  EntryHash <- MCEntryHash
  MaxEntries = 2
  Handles = {h1, h2}
  Threads = {t1, t2, t3}
  HandleOf <- TwoOnFirst
  Op <- MCOp
  WithManifest = {skill}
  NoBridge = nobody
  MaxSent = 2
SPECIFICATION BridgeSpec
INVARIANTS ParentOnDisk SeqNeverAhead AnswersAreTrue CarefulUseVerifies StoppedServesOneChunk
SYMMETRY Alike
CHECK_DEADLOCK FALSE
