SPECIFICATION FairSpec
CONSTANTS
  u1 = u1
  u2 = u2
  Usages = {u1, u2}
  NoUsage = NoUsage
  PartialUsage = PartialUsage
  Estimate = Estimate
  KeepAliveLen = 3
  MaxChunks = 4
INVARIANTS SettledOnce ReportedUsageIsCharged ClientGetsWhatIsCharged
CHECK_DEADLOCK FALSE
PROPERTIES StreamIsSettled KillReachesNode
