CONSTANTS
  m1 = m1
  m2 = m2
  NumCores = 2
  Task = {"main"}
  Msg = {m1, m2}
  None = None
  Hand = 2
  QSize = 4
  RefMax = 255
  Signals = {TRUE}
  Dests = {1}
  TaskCalls <- OrderTaskCalls
  CallbackCalls <- UnrefOnly
  BootMasked = TRUE
SPECIFICATION Spec
SYMMETRY MsgSymmetry
INVARIANTS
  NoLostWakeup
PROPERTIES
  ImplementsMailbox
