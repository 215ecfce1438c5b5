\* Lost answers, late commands and a crash.
CONSTANTS
  c1 = c1  c2 = c2  c3 = c3  k1 = k1  k2 = k2  l1 = l1  l2 = l2
  v1 = v1  v2 = v2
  Clients <- TwoClients
  Keys <- OneKey
  Names <- OneKeyNames
  LockName <- LockNames
  Values <- TwoValues
  Locked = Locked
  Absent = Absent
  Nobody = Nobody
  MaxTimeouts = 2
  MaxCrashes = 1
SPECIFICATION Spec
INVARIANTS TypeOK MutualExclusion InsideMeansLocked
PROPERTIES OrphansStay ImplementsLockedStore
