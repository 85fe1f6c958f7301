SPECIFICATION Spec
CONSTANTS
  ClusterRole = {cr1}
  NsRole = {r1}
  Group = {g1}
  NoGroup = none
  BindTTL = 1
  EditTTLs <- NoTTLs
  Laggy = {}
  Budget <- StraddleBudget
INVARIANTS ExpiredIsRevoked
CHECK_DEADLOCK FALSE
