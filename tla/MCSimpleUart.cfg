CONSTANTS
  a = a
  b = b
  t1 = t1
  t2 = t2
  None = None
  Task = {t1, t2}
  Byte = {a, b}
  Size = 3
  MaxLen = 2
  Quota = 3
SPECIFICATION FairSpec
CONSTRAINT Connected
INVARIANTS
  TypeOK
  NeverStalled
  SleepersAwaited
PROPERTIES
  SendsInOrder
  ReadsInOrder
  WritesReturn
  ReadersWake
  TokensMeanBytes
CHECK_DEADLOCK FALSE
