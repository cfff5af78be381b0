SPECIFICATION Spec
CONSTANTS
  u1 = u1
  u2 = u2
  p1 = p1
  p2 = p2
  Users = {u1, u2}
  Ports = {1, 2}
  MaxPerPort = 2
  Sessions = {p1, p2}
  None = None
SYMMETRY Interchangeable
INVARIANTS
  PoolTypeOK
  PoolInv
  OneSecretPerUser
  PortServedOnce
  PrivateSecrets
  NoWaitCycle
PROPERTY RotationKeepsAccess
