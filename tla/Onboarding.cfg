SPECIFICATION Spec
CONSTANTS
  Items <- MCItems
  Template = {"email"}
  Required <- MCItems
  WorkEmail = "email"
  Addresses = {"a", "b", "c", "d"}
  Old = "a"
  OtherWork = {"c"}
  OtherLogins = {"b"}
  Typed = {"c", "d"}
  Edited <- MCEdited
  MaxRecords = 2
  Calls = {"c1", "c2"}
  MaxStarts = 5
  MaxCrashes = 1
INVARIANT TypeOK
INVARIANT CompletedMeansDone
INVARIANT OnboardedOnce
INVARIANT LoginFollows
CHECK_DEADLOCK FALSE
