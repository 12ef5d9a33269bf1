SPECIFICATION Spec
CONSTANTS
  Users = {ada}
  WalletOwners = {ada}
  References = {r1, r2}
  NoReference = NoReference
  Amounts = {1, 2}
  MaxAmount = 2
  OpeningBalance = 2
  MaxBalance = 3
  Workers = {w1, w2}
  Handlers = {h1, h2}
  MaxFaults = 1
SYMMETRY Symmetry
INVARIANTS
  TypeOK
  BooksInv
  ChargeRecorded
  CreditJustified
  DepositSettled
  DepositCreditBounded
  RefundOnlyDebited
PROPERTY HonorsContract
CHECK_DEADLOCK FALSE
