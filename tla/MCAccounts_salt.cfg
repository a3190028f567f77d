SPECIFICATION Spec
CONSTANTS
  u1 = u1
  u2 = u2
  w1 = w1
  w2 = w2
  d1 = d1
  d2 = d2
  NumCalls = 2
  Users = {u1, u2}
  NoUser = NoUser
  Registered = {u1}
  Wallets = {w1, w2}
  NoWallet = NoWallet
  Owns <- MCOwns
  ZkWallets = {w2}
  GoogleOAuth = TRUE
  Digests = {d1, d2}
  Sender <- MCSender
  Amount <- MCAmount
  Kinds = {"deposit", "elsewhere", "unclear"}
  Seconds = {1}
  MaxFaults = 0
INVARIANTS SaltIsStable
CHECK_DEADLOCK FALSE
