SPECIFICATION Spec
CONSTANTS
  Requests = {"a", "b", "c"}
  Employees = {e1}
  Dates = {1, 2, 3}
  Calls = {c1, c2}
  MaxStep = 2
  Owner <- MCOwner
  Span <- MCSpan
  Days <- MCDays
  Paid <- AllPaid
  AutoApproved <- SomeAuto
  Chain <- TwoSteps
  InitBalance <- Scarce
  Endpoints <- DecideOnly
INVARIANT TypeOK
PROPERTY LedgerSpec
CHECK_DEADLOCK FALSE
