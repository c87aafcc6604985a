SPECIFICATION Spec
CONSTANTS
  Users = {u1, u2}
  Rules = {r1}
  Keys = {k1, k2}
  None = None
  Faults = {"crash"}
SYMMETRY Symmetry
INVARIANTS
  RekeyIsAtomic
