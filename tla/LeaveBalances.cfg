SPECIFICATION Spec
CONSTANTS
  Balances = {"earned", "bereavement"}
  Employees = {"e1"}
  Owner <- MCOwner
  Kind <- MCKind
  Rate <- MCRate
  Cap <- MCCap
  Legacy = {"bereavement"}
  Credits <- MCCredits
  Days = {2}
  Months = {1, 2}
  Years = {1}
  MaxBalance = 2
  MaxUsed = 2
  Calls = {c1, c2}
  Endpoints <- Everything
INVARIANT BalanceNotNegative
INVARIANT CreditedOncePerMonth
INVARIANT SnapshotBeforeReset
INVARIANT AccrualComplete
SYMMETRY CallSymmetry
CHECK_DEADLOCK FALSE
