SPECIFICATION Spec
CONSTANTS
  s1 = s1
  s2 = s2
  l1 = l1
  l2 = l2
  alice = alice
  p1 = p1
  p2 = p2
  None = None
  Sid = {s1, s2}
  User = {alice}
  Password = {p1, p2}
  Login = {l1, l2}
  Probes = 4
  Ttl = 0
  Idle = 0
  MaxTime = 0
  MaxStepBack = 0
INVARIANT TypeOK
INVARIANT EveryProbeCounts
PROPERTY ImplementsContract
INVARIANT VerdictHasCause
PROPERTY EveryLoginEnds
