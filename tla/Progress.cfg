SPECIFICATION FairSpec
CONSTANTS
  u1 = u1
  u2 = u2
  o1 = o1
  o2 = o2
  k1 = k1
  s1 = s1
  s2 = s2
  s3 = s3
  s4 = s4
  c1 = c1
  c2 = c2
  p1 = p1
  p2 = p2
  m1 = m1
  Users <- OneUser
  Orders = {o1}
  Codes = {k1}
  Subs = {s1, s2}
  Charges = {c1}
  Sessions = {p1, p2}
  None = None
  Plans = {m1}
  Days <- PlanDays
  Trial = Trial
  TrialDays = 1
  CodePlan <- CodeOfM1
  ReservedFor <- ForAnyone
  SingleUse = {k1}
  ValidUntil = 1
  PendingTTL = 1
  Legacy <- NoRows
  Opening = 1
  Horizon = 1
  PanelTries = 1
  MaxPanelDays = 2
PROPERTY EveryTransactionEnds
