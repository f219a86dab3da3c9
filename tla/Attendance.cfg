SPECIFICATION FairSpec
CONSTANTS
  DayLength = 2
  Policies <- MCPolicies
  WorkDayStart <- MCStart
  WorkDayEnd <- MCEnd
  GraceMinutes <- MCGrace
  HalfDayPercent <- MCPercent
  WorkingDates <- MCWorking
  Holidays = {}
  StartOffset <- OneBefore
  EndOffset = 1
  Dates = {0, 1}
  MaxRows = 2
  MaxTime = 5
  Typed <- MCTyped
  Corrected <- MCCorrected
  LeaveKinds = {"full"}
  Buffer = 0
  SweepLimit = 1
  MaxStarts = 3
  Calls = {"c1", "c2"}
  Endpoints <- Everything
INVARIANT AuditCovers
INVARIANT AutoCloseAfterCheckIn
PROPERTY ForgottenRowsClosed
CHECK_DEADLOCK FALSE
