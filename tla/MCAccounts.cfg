SPECIFICATION Spec
CONSTANTS
  u1 = u1
  u2 = u2
  w1 = w1
  w2 = w2
  d1 = d1
  d2 = d2
  NumCalls = 3
  Users = {u1, u2}
  NoUser = NoUser
  Registered = {u1}
  Wallets = {w1, w2}
  NoWallet = NoWallet
  Owns <- MCOwns
  ZkWallets = {w2}
  GoogleOAuth = TRUE
  Digests = {d1, d2}
  Sender <- MCSender
  Amount <- MCAmount
  Kinds = {"deposit", "elsewhere", "unclear"}
  Seconds = {1, 2}
  MaxFaults = 1
INVARIANTS CreditedOnce LoginsAreValid ApiTokensInOrder DepositIsNotLost
CHECK_DEADLOCK FALSE
