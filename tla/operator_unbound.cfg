SPECIFICATION Spec
CONSTANTS
  ClusterRole = {cr1}
  NsRole = {r1}
  Group = {g1}
  NoGroup = none
  BindTTL = 1
  EditTTLs <- NoTTLs
  Laggy = {"cr"}
  Budget <- RenewalBudget
INVARIANTS UnboundIsRevoked
CHECK_DEADLOCK FALSE
