SPECIFICATION Spec
CONSTANTS
  s1 = s1
  s2 = s2
  alice = alice
  bob = bob
  None = None
  Sid <- MCSid
  User <- MCUser
  Ttl = 3
  Idle = 2
  MaxTime = 5
  MaxStepBack = 3
SYMMETRY MCSymmetry
INVARIANT TypeOK
INVARIANT TableMatchesCallers
PROPERTY GrantsAreFresh
PROPERTY NoEarlyRefusal
PROPERTY ImplementsContract
