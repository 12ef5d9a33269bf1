SPECIFICATION FairSpec
CONSTANTS
  Users = {ada}
  WalletOwners = {ada}
  References = {r1, r2}
  NoReference = NoReference
  Amounts = {1}
  MaxAmount = 1
  OpeningBalance = 1
  MaxBalance = 2
  Workers = {w1}
  Handlers = {h1}
  MaxFaults = 1
PROPERTIES
  DepositEventuallyCredited
  RefundEventually
CHECK_DEADLOCK FALSE
