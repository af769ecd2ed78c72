SPECIFICATION Spec
CONSTANTS
  s1 = s1
  s2 = s2
  c1 = c1
  c2 = c2
  a1 = a1
  a2 = a2
  alice = alice
  bob = bob
  copilot = copilot
  v1 = v1
  v2 = v2
  u1 = u1
  u2 = u2
  None = None
  NoClient = NoClient
  Sid = {s1}
  User = {alice}
  Code = {c1}
  Attempt = {a1}
  Client = {copilot}
  ClientId = copilot
  Uri <- MCUri
  RedirectUris = {u1}
  Verifier = {v1, v2}
  Ttl = 2
  Idle = 1
  CodeTtl = 1
  MaxLag = 0
  MaxTime = 1
  MaxStepBack = 0
  MaxTries = 2
INVARIANT RefreshRenews
