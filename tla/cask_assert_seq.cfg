SPECIFICATION Spec
CONSTANTS
  Byte <- OneByte
  IntBytes = 1
  U32Max = 15
  EncodeInt <- EncodeOne
  DecodeInt <- DecodeOne
  Keys <- KeysAB
  Vals <- ValsShortLong
  Storers = {t1}
  Loaders = {t1}
  NoThread = NoThread
  MaxStores = 3
INVARIANT LoadAssertHolds
