SPECIFICATION Spec
CONSTANTS
  t1 = t1
  n1 = n1
  s1 = s1
  s2 = s2
  Tasks = {t1}
  Nodes = {n1}
  Stacks = {s1, s2}
  OwnStacks = {s1}
  Prices = {1, 2}
  Claims = {2}
  MaxEvents = 2
  MaxErrors = 0
  MaxCrashes = 0
INVARIANTS SettlingIsNotOffered
CHECK_DEADLOCK FALSE
