SPECIFICATION Spec
CONSTANTS
  key1 = key1
  key2 = key2
  key3 = key3
  one = one
  u = u
  v = v
  two = two
  None = None
  Locator = {one, two}
  Key <- Keys
  Value = {u, v}
  Hash <- Hashes
  InitialSize = 4
  MaxChainLength = 2
  LengthMod = 256
  MaxSets = 5
  Refill = FALSE
  Root = one
INVARIANTS TypeOK OneSlotPerKey
 
CHECK_DEADLOCK FALSE
SYMMETRY Symmetry
