SPECIFICATION FairSpec
CONSTANTS
  l1 = l1
  l2 = l2
  q1 = q1
  Locks = {l1, l2}
  Requests = {q1}
  NoLock = NoLock
  Tokens = {1, 3}
  Default = 2
  StackSize = 3
  MaxStacks = 1
  MaxUse = 2
  MaxErrors = 1
  MaxCrashes = 1
INVARIANTS UnitsAccounted PromisesFit
PROPERTIES ExpiredIsReleased LockCallsEnd
CHECK_DEADLOCK FALSE
