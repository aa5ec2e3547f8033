SPECIFICATION FairSpec
CONSTANTS
  Byte <- TwoBitByte
  IntBytes = 2
  U32Max = 15
  EncodeInt <- EncodeTwo
  DecodeInt <- DecodeTwo
  Keys <- KeysWithEmpty
  Vals <- ValsEmptyLong
  Storers = {t1}
  Loaders = {t1, t2}
  NoThread = NoThread
  MaxStores = 3
INVARIANTS IndexPointsAtLatest OpensUnlessTornOrTooLong
PROPERTIES LoadsAnswerLatest OnlyEmptyKeyForgets OpenTerminates
