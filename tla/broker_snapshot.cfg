SPECIFICATION Spec
CONSTANTS
  Handler = {h1, h2}
  AuthTTL = 1
  CodeTTL = 1
  RefreshTTL = 3
  BindTTL = 3
  WaitTimeout = 1
  MaxDelay = 0
  MaxLogins = 1
  MaxKey = 4
  MaxFaults = 1
  LastRequest = 4
  MaxTime = 6
INVARIANT SnapshotBounded
CHECK_DEADLOCK FALSE
