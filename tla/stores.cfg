SPECIFICATION StoresSpec
CONSTANTS
  None = None
  Account = {a1, a2}
  Unlinked = a3
  Key = {k1, k2}
  Contact = {p1, p2}
  Object = {o1, o2}
  Family = {"mail", "money", "time", "context", "nested", "people", "objects", "accounts", "jobs"}
  Chunk = 1
  MaxBatch = 2
  MaxRows = 2
  MaxCalls = 3
  x = x
  y = y
  me = me
  inbox = inbox
  m1 = m1
  m2 = m2
  Linker = {l1, l2}
  Merger = {g1}
  Message = {m1, m2}
  AddressesOf <- MCAddresses
  OwnAddresses = {me}
  AccountAddress = inbox
  MaxPerson = 3
  MaxMerges = 1
  MaxKills = 1
SYMMETRY Symmetric
INVARIANTS
  StoresAgree
  ReadsAgree
  SqlNothingDangles
  LinksSurviveMerges
  NoDuplicatePeople
CHECK_DEADLOCK FALSE
