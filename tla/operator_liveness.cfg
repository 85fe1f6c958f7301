SPECIFICATION LiveSpec
CONSTANTS
  ClusterRole = {cr1}
  NsRole = {}
  Group = {g1}
  NoGroup = none
  BindTTL = 1
  EditTTLs <- NoTTLs
  Laggy = {"cr", "sa", "binding"}
  Budget <- LivenessBudget
PROPERTIES DeletionCompletes Settles
CHECK_DEADLOCK FALSE
