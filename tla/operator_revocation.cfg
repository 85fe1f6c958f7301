SPECIFICATION Spec
CONSTANTS
  ClusterRole = {cr1}
  NsRole = {r1}
  Group = {g1}
  NoGroup = none
  BindTTL = 1
  EditTTLs <- AnyTTLs
  Laggy = {}
  Budget <- RevocationBudget
CONSTRAINT Disturbances
INVARIANTS TypeOK UnboundIsRevoked SettledIsBound
CHECK_DEADLOCK FALSE
