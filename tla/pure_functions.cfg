SPECIFICATION MCSpec
CONSTANTS
  WordLen <- MCWordLen
  TypedLines <- MCTypedLines
  Texts <- MCTexts
  Symbols <- MCSymbols
  MaxItems = 3
  Size = 3
  Bytes = {64, 65, 90, 122, 123}
CHECK_DEADLOCK FALSE
INVARIANTS WholeRepliesAreRight CutIsNoticed TypedIsSent WellFormedIsSent CmpIsOrder
