SPECIFICATION Spec
CONSTANTS
  Handler = {h1, h2}
  Account = {a1, a2}
  ExpirationSecs = 3
  ServerMax = 3
  MaxLatency = 1
  MaxTime = 5
  MaxUid = 2
SYMMETRY Handlers
INVARIANTS TypeOK ForwardsLiveToken StaleTokenBounded
