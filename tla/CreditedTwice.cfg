SPECIFICATION Spec
CONSTANTS
  Users = {ada}
  WalletOwners = {ada}
  References = {r1}
  NoReference = NoReference
  Amounts = {1}
  MaxAmount = 1
  OpeningBalance = 0
  MaxBalance = 4
  Workers = {w1}
  Handlers = {h1, h2}
  MaxFaults = 0
INVARIANT
  CreditedOnce
CHECK_DEADLOCK FALSE
