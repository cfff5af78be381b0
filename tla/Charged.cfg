SPECIFICATION FairDeployment
CONSTANTS
  a = a
  b = b
  c = c
  u1 = u1
  p1 = p1
  n1 = n1
  n2 = n2
  r1 = r1
  q1 = q1
  q2 = q2
  i1 = i1
  i2 = i2
  c1 = c1
  c2 = c2
  Nobody = Nobody
  Secrets = {a, b}
  Seed = a
  Requests = {p1}
  Rotator = Rotator
  None = None
  RotationAge = 1
  XaddTries = 2
  MaxStream = 2
  Horizon = 0
  Users = {u1}
  PerSecond = 1
  Nodes = {n1}
  Unresolvable = {}
  Backends = {"edge", "ru"}
  BurnThreshold = 2
  RecoverThreshold = 2
  MaxFaults = 0
  Feeds = {"ads", "own"}
  Kind <- Kinds
  Category <- Categories
  Domains = {"site", "sub.site", "shop"}
  Parents <- DomainTree
  Offers <- AllOffers
  MaxLost = 1
  Renewables = {r1}
  LastBucket = 3
  MaxUpsets = 0
  MaxRenewals = 0
  Calls = {q1}
  Served = {"node"}
  Limit = 1
  MaxCuts = 0
  Invoices = {i1}
  Charges = {c1}
  Attempts = 2
PROPERTY ChargesAreGranted
