SPECIFICATION Spec
CONSTANTS
  Employees = {e1, e2}
  StockItems = {laptop}
  Quantity <- OneUnit
  MaxRows = 1
  MaxRecords = 1
  Calls = {c1, c2}
  Endpoints <- Everything
INVARIANT UnitsNotLost
INVARIANT CompletedHoldNothing
INVARIANT TaskDoneMeansReturned
PROPERTY ClosedStaysClosed
SYMMETRY Interchangeable
CHECK_DEADLOCK FALSE
