SPECIFICATION Spec
CONSTANTS
  Handler = {h1, h2}
  AuthTTL = 1
  CodeTTL = 1
  RefreshTTL = 2
  BindTTL = 2
  WaitTimeout = 1
  MaxDelay = 0
  MaxLogins = 1
  MaxKey = 4
  MaxFaults = 1
  LastRequest = 4
  MaxTime = 5
INVARIANT DeletionRevokes
CHECK_DEADLOCK FALSE
