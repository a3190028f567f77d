SPECIFICATION StreamSpec
CONSTANTS
  u1 = u1
  r1 = r1
  used = used
  Usages = {used}
  NoUsage = NoUsage
  PartialUsage = PartialUsage
  Estimate = Estimate
  KeepAliveLen = 2
  MaxChunks = 2
  Users = {u1}
  Requests = {r1}
  Owner <- MCOwner
  Balance <- MCBalance
  Tokens = {0, 1, 2}
  Prices = {1, 2}
  OneMillion = 1
  UnreadableBodies = {}
  UndecodableHashes = {r1}
  StackHeader = {r1}
  MaxTopUps = 0
  MaxDbErrors = 1
  MaxCrashes = 1
  R = r1
  PromptTokens <- MCPrompt
  CompletionTokens <- MCCompletion
INVARIANT StreamIsDebited
PROPERTY ImplementsBilling
CHECK_DEADLOCK FALSE
