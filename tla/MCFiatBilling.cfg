SPECIFICATION FairSpec
CONSTANTS
  u1 = u1
  r1 = r1
  r2 = r2
  Users = {u1}
  Requests = {r1, r2}
  Owner <- MCOwner
  Balance <- MCBalance
  Tokens = {0, 3}
  Prices = {1}
  OneMillion = 2
  UnreadableBodies = {r2}
  UndecodableHashes = {r2}
  StackHeader = {r1}
  MaxTopUps = 1
  MaxDbErrors = 1
  MaxCrashes = 1
INVARIANTS TypeOK LedgerMatchesHolds NoOverdraft RetryDoesNotPayTwice UsageNeverExceedsDebits ChannelAgrees
PROPERTIES HoldsAreReleased ImplementsLedger
CHECK_DEADLOCK FALSE
