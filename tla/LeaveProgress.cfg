SPECIFICATION FairSpec
CONSTANTS
  Requests = {"a"}
  Employees = {e1}
  Dates = {1, 2, 3}
  Calls = {c1, c2, c3}
  MaxStep = 2
  Owner <- MCOwner
  Span <- MCSpan
  Days <- MCDays
  Paid <- AllPaid
  AutoApproved <- NoneAuto
  Chain <- TwoSteps
  InitBalance <- Plenty
  Endpoints <- Everything
INVARIANT NobodyStuck
INVARIANT ApprovalWitness
PROPERTY DecisionFollows
CHECK_DEADLOCK FALSE
