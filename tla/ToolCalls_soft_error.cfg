SPECIFICATION Spec
CONSTANTS
  s1 = s1
  s2 = s2
  c1 = c1
  c2 = c2
  alice = alice
  bob = bob
  None = None
  ApiKey = ApiKey
  Service = "service"
  EncodedUser = "encoded"
  Sid = {s1}
  User = {alice}
  Call = {c1, c2}
  Tool = {"ise_get_endpoint_by_mac", "ise_create_endpoint", "ise_logout"}
  Ttl = 2
  Idle = 1
  MaxTime = 0
  MaxStepBack = 0
  MaxEnrich = 1
  Configs <- MCPassthrough
INVARIANT NoSoftSessionError
