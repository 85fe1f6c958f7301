SPECIFICATION Spec
CONSTANTS
  Key = {k1, k2, k3}
  TTLs = {1, 2}
  MaxFaults = 2
  MaxTime = 4
INVARIANT TypeOK
PROPERTY ImplementsOneShot
