\* A write given up on lands inside another operation on its key.
CONSTANTS
  c1 = c1  c2 = c2  c3 = c3  k1 = k1  k2 = k2  l1 = l1  l2 = l2
  v1 = v1  v2 = v2
  Clients <- TwoClients
  Keys <- OneKey
  Names <- OneKeyNames
  LockName <- LockNames
  Values <- TwoValues
  Locked = Locked
  Absent = Absent
  Nobody = Nobody
  MaxTimeouts = 1
  MaxCrashes = 0
SPECIFICATION Spec

PROPERTY Isolation
