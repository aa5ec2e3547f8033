SPECIFICATION Spec
CONSTANTS
  BufLen = 3
  Text = {"a", "hi", "tab"}
  Space = "tab"
  Tab = "tab"
  NUL = "nul"
  Junk = "junk"
  High = {"hi"}
  CompletionsOf <- MCCompletions
  Letter = {"A", "a"}
  CommandNames <- MCNames
  Lower <- MCLower
  MaxLens = {1}
  DefaultMaxLen = 2
  TtyMayFail = TRUE
  NulKey = FALSE
CONSTRAINT Focus
CHECK_DEADLOCK FALSE
INVARIANTS LineWellFormed HistoryKept CompletionStands CookedOutside OffersRight
PROPERTIES TypedComesBack KeysAsPromised
