SPECIFICATION ProcessFairSpec
CONSTANTS
  c1 = c1
  c2 = c2
  u1 = u1
  u2 = u2
  Calls = {c1, c2}
  Kinds <- MCKinds
  Urls = {u1, u2}
  Foreign = Foreign
  NoUrl = NoUrl
  MaxChannel = 1
  MaxErrors = 1
PROPERTIES CallsEnd ProcessEnds AddressConverges
CHECK_DEADLOCK FALSE
