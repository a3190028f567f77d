SPECIFICATION FairSpec
CONSTANTS
  u1 = u1
  r1 = r1
  r2 = r2
  Users = {u1}
  Requests = {r1}
  Owner <- MCOwner
  Balance <- MCBalance
  Tokens = {0, 3}
  Prices = {1}
  OneMillion = 2
  UnreadableBodies = {r1}
  UndecodableHashes = {}
  StackHeader = {}
  MaxTopUps = 0
  MaxDbErrors = 0
  MaxCrashes = 0
PROPERTY EveryHoldIsReleased
CHECK_DEADLOCK FALSE
