CONSTANTS
  a = a
  b = b
  t1 = t1
  t2 = t2
  None = None
  Task = {t1, t2}
  Byte = {a, b}
  Size = 3
  MaxLen = 2
  Quota = 2
SPECIFICATION Spec
PROPERTIES
  WokenFindsData
CHECK_DEADLOCK FALSE
