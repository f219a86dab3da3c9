SPECIFICATION Spec
CONSTANTS
  Applications = {a1}
  MaxRecords = 1
  Calls = {c1, c2}
  Totals = {3}
  Deductions = {2}
  Tenures = {2}
  Amounts = {1}
  MaxPayments = 2
  MaxCrashes = 1
  Endpoints <- Everything
INVARIANT PaymentsBooked
INVARIANT CompletedByLastMonth
INVARIANT LoanAfterDecision
INVARIANT ApprovedHasLoan
SYMMETRY CallSymmetry
CHECK_DEADLOCK FALSE
