SPECIFICATION Spec
CONSTANTS
  a = a
  b = b
  c = c
  u1 = u1
  u2 = u2
  p1 = p1
  p2 = p2
  Secrets = {a, b, c}
  Seed = a
  Requests = {p1, p2}
  Rotator = Rotator
  None = None
  RotationAge = 1
  XaddTries = 1
  MaxStream = 2
  Horizon = 1
  Users = {u1}
  PerSecond = 1
SYMMETRY Interchangeable
INVARIANT FreshDeeplink
