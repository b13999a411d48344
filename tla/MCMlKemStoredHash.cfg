SPECIFICATION Spec
CONSTANTS
  Seeds = {d1, d2}
  RejectionSeeds = {z1}
  m1 = m1
  Messages = {m1, m2}
  Damaged = Damaged
  None = None
  MaxCalls = 2
  MaxAlterations = 1
  Garble <- MCGarble
SYMMETRY SeedSymmetry
INVARIANTS
  StoredHashIsOfStoredKey
