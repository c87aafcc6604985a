CONSTANTS
  a1 = a1
  t1 = t1
  t2 = t2
  free = free
  pro = pro
  enterprise = enterprise
  None = None
  Accounts = {a1}
  Tasks = {t1, t2}
  Plans = {free, pro}
  DailyPlans = {free}
  LimitedPlans = {free, pro}
  Limit <- MCLimit
  Rank <- MCRank
  DaysPerMonth = 2
  SelfServe = TRUE
  Endpoints = {"apikey", "credential", "plan"}
  Faults = {"restart", "dberror"}
  QueueCap = 1
  MaxDay = 2
  MaxVersion = 1
  MaxDrops = 1
  MaxCount = 2
SYMMETRY TaskSymmetry
SPECIFICATION Spec
INVARIANTS
  EntryWithinLimit
  UsageNeverOverstated

  
CHECK_DEADLOCK FALSE
