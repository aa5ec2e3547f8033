SPECIFICATION MCSpec
CONSTANTS
  Proc = {p, q}
  Lines <- MCLines
  Char = {"a", "b", "cr", "lf"}
  CR = "cr"
  LF = "lf"
  NUL = "nul"
  MaxLine = 4
  MaxHist = 2
  Block = 3
  DiskMayFail = TRUE
  NoFile = NoFile
  FirstSize = 1
  AllocMayFail = TRUE
  MaxInput = 6
  Inputs <- MCInputs
  Width = 11
  Default = 80
  BufSize = 7
  MaxKeys = 3
  Typeable = {"key", "R", "newline", "eof"}
  Ttys = {"cooked", "raw"}
CHECK_DEADLOCK FALSE
INVARIANTS FileIsSaved InputArrives WidthIsRight
PROPERTIES PlainHistoryReturns
