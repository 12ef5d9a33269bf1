SPECIFICATION Spec
CONSTANTS
  Users = {ada}
  WalletOwners = {ada}
  References = {r1}
  NoReference = NoReference
  Amounts = {1}
  MaxAmount = 1
  OpeningBalance = 1
  MaxBalance = 4
  Workers = {w1}
  Handlers = {h1}
  MaxFaults = 0
INVARIANT
  PayoutMatchesDebit
CHECK_DEADLOCK FALSE
