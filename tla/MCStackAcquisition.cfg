SPECIFICATION FairSpec
CONSTANTS
  Requests = {r1, r2}
  UndecodableHashes = {r2}
  NoRequest = NoRequest
  Tokens = {1, 3, 4}
  Prices = {1, 2}
  StackSize = 3
  InitialUsdc = 3
  MaxStacks = 2
  MaxAttempts = 2
  MaxUse = 2
  MaxErrors = 1
  MaxCrashes = 1
  r1 = r1
  r2 = r2
INVARIANTS OneBuyer UsdcAccounted UnitsMatch UsageMatches EventsAgree
CHECK_DEADLOCK FALSE
PROPERTIES BuyLockIsReleased UnitsAreReleased RequestsEnd
