SPECIFICATION Spec
CONSTANTS
  r1 = r1
  Request = {r1}
  Method = {"GET", "POST", "PUT", "DELETE"}
  MaxRetries = 3
  RateLimitWait = TRUE
  RetryAfter = {5, 60}
  WaitCap = 91
INVARIANT TypeOK
INVARIANT OkMeansApplied
INVARIANT RefusalIsHonest
INVARIANT TwiceOnlyIfUnsure
INVARIANT PatienceBounded
PROPERTY EveryRequestEnds
