SPECIFICATION FairSpec
CONSTANTS
  Replies <- MCReplies
  WireOf <- MCWire
  ParseOf <- MCParse
  ReqLen = 2
  BufSize = 7
  MaxCmds = 2
  MaxCloses = 2
INVARIANT AtMostOnce
INVARIANT StartsInSync
INVARIANT ShownIsTheAnswer
PROPERTY AnswersOrExits
CHECK_DEADLOCK FALSE
