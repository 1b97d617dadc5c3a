CONSTANTS
  Arm = Arm
  S1 = S1
  S2 = S2
  Core = {Arm, S1, S2}
  Sharc = {S1, S2}
  TopLevel = 1
SPECIFICATION FairSpec
INVARIANTS
  TypeOK
  MutualExclusion
  LockedMeansHeld
  NeverWaitsForPreempted
PROPERTIES
  KeepsMoving
  ImplementsMutex
