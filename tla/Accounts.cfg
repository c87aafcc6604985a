SPECIFICATION MCSpec
CONSTANTS
  None = None
  t1 = t1
  t2 = t2
  p1 = p1
  p2 = p2
  Tasks = {t1, t2}
  Passwords = {p1, p2}
  Faults = {"dberror", "disconnect", "restart"}
  MaxVersion = 2
  MaxSecrets = 2
  Kinds = {"key", "rule", "webhook"}
  r1 = r1
  r2 = r2
  Requests = {r1, r2}
  Owner = Owner
  Stranger = Stranger
  Nobody = Nobody
  Cap = 1
  MaxRows = 3
  MaxFaults = 1
SYMMETRY AllSymmetry
INVARIANTS
  WelcomedOnce
  FactorIsConfirmed
  CapIsSoft
  RepliesStand

  
  
