CONSTANTS
  Core = {c1, c2}
  None = None
  HeapWords = 24
  Requests = {1, 4}
  Data = 4
  Name = {n1, n2}
  StreamWords = 4
  NameWords = 1
SPECIFICATION StreamSpec
INVARIANTS
  BlocksIntact
