SPECIFICATION StartSpec
CONSTANTS
  Handler = {h1, h2}
  AuthTTL = 1
  CodeTTL = 1
  RefreshTTL = 2
  BindTTL = 2
  WaitTimeout = 1
  MaxDelay = 0
  MaxLogins = 2
  MaxKey = 3
  MaxFaults = 1
  LastRequest = 2
  MaxTime = 3
  MaxName = 4
  Start <- Starts
  Process = {p1, p2}
INVARIANTS TypeOK OneTokenPerSession OwnIdentity GivenOnce SharedWindow
  StoreAsNamed SomebodyCanLogIn NamesAreSubdomains AdmittedIsAccepted
  AllGroupsOrNone SwappedForOwnAccount
PROPERTY RequestsAnswered
CHECK_DEADLOCK FALSE
