SPECIFICATION FairSpec
CONSTANTS
  Apps = {"a", "b"}
  MaxMails = 2
  Reviews = {f1}
  ReviewOf <- MCReviewOf
  EndOf <- MCEndOf
  Delays = {0, 1}
  Limit = 1
  MaxTime = 1
  MaxStarts = 2
  MaxFaults = 1
  Calls = {"c1", "c2"}
  Workers = {"w1", "w2"}
INVARIANT TypeOK
INVARIANT NoneQueuedInPipeline
INVARIANT DeliveredAsMarked
PROPERTY NothingLeftBehind
CHECK_DEADLOCK FALSE
