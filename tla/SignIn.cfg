SPECIFICATION MCSpec
CONSTANTS
  t1 = t1
  t2 = t2
  Tasks = {t1, t2}
  FreeAttempts = 5
  BaseDelay = 30
  MaxDelay = 900
  WordBits = 64
  MaxFailures = 72
  b1 = b1
  b2 = b2
  Browsers = {b1, b2}
  Providers = {"github", "google"}
  c1 = c1
  c2 = c2
  Callbacks = {c1, c2}
  Nobody = Nobody
  MaxFlows = 2
  MaxChanges = 2
  MaxFaults = 1
INVARIANTS
  
  CallbacksAgree
  
PROPERTIES
  BlockEnds
  NonceIsSpent
CHECK_DEADLOCK FALSE
