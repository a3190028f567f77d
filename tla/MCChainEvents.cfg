SPECIFICATION Spec
CONSTANTS
  t1 = t1
  n1 = n1
  s1 = s1
  s2 = s2
  Tasks = {t1}
  Nodes = {n1}
  Stacks = {s1, s2}
  OwnStacks = {s1}
  Prices = {1, 2}
  Claims = {2}
  MaxEvents = 4
  MaxErrors = 1
  MaxCrashes = 1
INVARIANTS TablesFollowChain SettledCountedOnce
PROPERTIES NoComeback
CHECK_DEADLOCK FALSE
