SPECIFICATION Spec
CONSTANTS
  Procs = {p1}
  NoProc = NoProc
  MaxOpens = 2
INVARIANT LockedMeansInUse
