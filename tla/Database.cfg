SPECIFICATION MCSpec
CONSTANTS
  h1 = h1
  h2 = h2
  p1 = p1
  None = None
  Handlers = {h1, h2}
  Firers = {p1}
  QueueCap = 1
  Faults = {"dberror", "disconnect", "panic", "restart"}
  MaxWrites = 2
  Users = {u1, u2}
  Rules = {r1}
  Keys = {k1, k2}
  OpenFaults = {"crash", "dberror"}
INVARIANTS
  ProgramOrder
  NoPermitLost
  RowsSurvive
  
PROPERTIES
  KeepsPromise
  Answered
  WithdrawalStands
