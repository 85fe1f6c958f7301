SPECIFICATION Spec
CONSTANTS
  ClusterRole = {cr1}
  NsRole = {r1}
  Group = {g1}
  NoGroup = none
  BindTTL = 1
  EditTTLs <- NoTTLs
  Laggy = {"binding"}
  Budget <- LeakBudget
INVARIANTS NoOrphanedBindings
CHECK_DEADLOCK FALSE
