SPECIFICATION FairSpec
CONSTANTS
  Procs = {p1, p2, p3}
  NoProc = NoProc
  MaxOpens = 1
INVARIANTS AtMostOneUser CreateNeverCollides
PROPERTIES ServingClosesCleanly WaitersGetIn
