SPECIFICATION Spec
CONSTANTS
  n1 = n1
  d1 = d1
  d2 = d2
  k1 = k1
  k2 = k2
  Nodes = {n1}
  Devices = {d1, d2}
  Keys = {k1, k2}
  NoKey = NoKey
  Flaws = {"nvswitch", "encoding"}
  MaxEvents = 4
  MaxErrors = 1
  MaxCrashes = 1
INVARIANTS KeysAreAttested ReplayIsHarmless
SYMMETRY Symmetry
CHECK_DEADLOCK FALSE
