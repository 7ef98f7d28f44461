CONSTANTS
  s1 = s1
  s2 = s2
  t1 = t1
  t2 = t2
  t3 = t3
  Stores = {s1, s2}
  Threads = {t1, t2, t3}
  StoreOf <- ClientsAndDaemon
  Noting = {t1, t2}
  Ids = {e1, e2, e3}
  NoId = none
  Inodes = {n1, n2, n3, n4}
  NoFile = nofile
SYMMETRY Interchange
CONSTRAINT TwoShared
SPECIFICATION Spec
INVARIANTS ManifestsAreClosed AnsweredIsListed
PROPERTIES ImplementsEpisodeStore
CHECK_DEADLOCK FALSE
