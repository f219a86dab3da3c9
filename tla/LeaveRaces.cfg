SPECIFICATION Spec
CONSTANTS
  Requests = {"a", "b", "c"}
  Employees = {e1}
  Dates = {1, 2, 3}
  Calls = {c1, c2}
  MaxStep = 2
  Owner <- MCOwner
  Span <- MCSpan
  Days <- MCDays
  Paid <- AllPaid
  AutoApproved <- SomeAuto
  Chain <- MixedSteps
  InitBalance <- Scarce
  Endpoints <- Everything
INVARIANT LedgerSettled
INVARIANT NoFreeDays
INVARIANT LeaveRowsJustified
INVARIANT NoOverdraft
INVARIANT NoOverlappingLeave
PROPERTY DecisionFinal
SYMMETRY CallSymmetry
CHECK_DEADLOCK FALSE
