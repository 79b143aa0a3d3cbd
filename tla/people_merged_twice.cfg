SPECIFICATION Spec
CONSTANTS
  x = x
  y = y
  z = z
  own = own
  account = account
  OwnAddresses = {own}
  AccountAddress = account
  m1 = m1
  m2 = m2
  Linker = {l1}
  Merger = {g1}
  Message = {m1, m2}
  AddressesOf <- MCAddresses
  MaxPerson = 3
  MaxMerges = 2
  MaxKills = 0
  None = None
PROPERTY ResolvesToVisible
CHECK_DEADLOCK FALSE
