SPECIFICATION Spec
CONSTANTS
  Requests = {"a"}
  Employees = {e1}
  Dates = {1, 2, 3}
  Calls = {c1, c2}
  MaxStep = 1
  Owner <- MCOwner
  Span <- MCSpan
  Days <- MCDays
  Paid <- AllPaid
  AutoApproved <- NoneAuto
  Chain <- OneStep
  InitBalance <- Ample
  Endpoints <- WithCancel
INVARIANT RefundOnCancel
CHECK_DEADLOCK FALSE
