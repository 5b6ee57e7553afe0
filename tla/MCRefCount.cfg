SPECIFICATION LiveSpec
CONSTANTS
  t1 = t1
  t2 = t2
  RP = RP
  Threads <- MCThreads
  MaxHeld = 2
  kRCBitsMsb = 9
  kMaxWeakRC = 9
  kMaxResurrectWeakRC = 9
INVARIANTS NoUseAfterFree CountsExact CollectedIsDead
PROPERTY LostIsFreed
CHECK_DEADLOCK FALSE
