SPECIFICATION Spec
CONSTANTS
  Users = {ada, bob}
  WalletOwners = {ada, bob}
  References = {r1, r2}
  NoReference = NoReference
  Amounts = {1}
  MaxAmount = 1
  OpeningBalance = 1
  MaxBalance = 4
  Workers = {w1, w2}
  Handlers = {h1}
  MaxFaults = 0
INVARIANT
  NonNegativeBalance
CHECK_DEADLOCK FALSE
