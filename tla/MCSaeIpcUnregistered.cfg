CONSTANTS
  m1 = m1
  m2 = m2
  NumCores = 2
  Task = {"main"}
  Msg = {m1}
  None = None
  Hand = 2
  QSize = 2
  RefMax = 255
  Signals = {TRUE}
  Dests = {0, 1}
  TaskCalls <- ShareTaskCalls
  CallbackCalls <- UnrefOnly
  BootMasked = FALSE
SPECIFICATION Spec
INVARIANTS
  NoLeak
