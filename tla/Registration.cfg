SPECIFICATION Spec
CONSTANTS
  Clients = {c1, c2}
  Emails = {e1, e2}
  Phones = {p1, p2}
  NoPhone = NoPhone
  NullPhone = NullPhone
  Ids = {i1, i2}
  MaxFaults = 1
SYMMETRY Symmetry
INVARIANTS
  TypeOK
  UniqueAccounts
  OneWalletEach
  TokenHolders
  RefusedWithReason
CHECK_DEADLOCK FALSE
