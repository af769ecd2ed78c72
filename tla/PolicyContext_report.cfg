SPECIFICATION Spec
CONSTANTS
  mac = mac
  g1 = g1
  g2 = g2
  p1 = p1
  n1 = n1
  alice = alice
  t1 = t1
  None = None
  Mac = mac
  GroupId = {g1, g2}
  ProfileId = {p1}
  Name = {n1}
  Caller = {alice}
  Sgt = {t1}
  MaxChanges = 1
INVARIANT TypeOK
INVARIANT MissingIsExplained
INVARIANT ReportWasTrue
INVARIANT NarrativeHonest
PROPERTY ContextGrows
PROPERTY EveryCallAnswers
CHECK_DEADLOCK FALSE
