CONSTANTS
  a1 = a1
  t1 = t1
  t2 = t2
  free = free
  pro = pro
  enterprise = enterprise
  None = None
  Accounts = {a1}
  Tasks = {t1}
  Plans = {free}
  DailyPlans = {free}
  LimitedPlans = {free}
  Limit <- MCLimit
  Rank <- MCRank
  DaysPerMonth = 2
  SelfServe = TRUE
  Endpoints = {"session", "login", "credential", "apikey"}
  Faults = {}
  QueueCap = 2
  MaxDay = 0
  MaxVersion = 2
  MaxDrops = 2
  MaxCount = 1
SYMMETRY TaskSymmetry
SPECIFICATION Spec
INVARIANTS
  RevokedStaysRevoked
