SPECIFICATION FairSpec
CONSTANTS
  t1 = t1
  t2 = t2
  t3 = t3
  multi = multi
  single = single
  Threads = {t1, t2, t3}
  Procs = {multi, single}
  ProcOf <- TwoAndOne
  NoProc = NoProc
  MapSize = 1
  QueueSize = 1
  MaxActive = 2
  MaxReads = 4
INVARIANTS ExactWhenSingleThreaded NoStaleEntry
PROPERTIES MissedOnlyFullOrClosing StopsWhenQuiet
CHECK_DEADLOCK FALSE
