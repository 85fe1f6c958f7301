SPECIFICATION Spec
CONSTANTS
  ClusterRole = {cr1}
  NsRole = {r1}
  Group = {g1}
  NoGroup = none
  BindTTL = 1
  EditTTLs <- NoTTLs
  Laggy = {}
  Budget <- RecreateBudget
INVARIANTS SettledConverges
CHECK_DEADLOCK FALSE
