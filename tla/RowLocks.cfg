SPECIFICATION FairSpec
CONSTANTS
  Users = {u1, u2, ghost}
  WalletOwners = {u1, u2}
  References = {r1}
  NoReference = noRef
  Amounts = {1}
  MaxAmount = 1
  OpeningBalance = 1
  MaxBalance = 2
  Clients = {c1, c2}
  PoolSizes = {1, 2}
  MaxFaults = 1
  u1 = u1
  u2 = u2
  ghost = ghost
  r1 = r1
  noRef = noRef
  c1 = c1
  c2 = c2
INVARIANTS
  LocksInv
PROPERTIES
  SnapshotRight
  TransactionsAtomic
  TransactionsEnd
