SPECIFICATION HandshakeSpec
CONSTANTS
  Handler = {h1, h2}
  ClusterRole = {cr1}
  NsRole = {}
  Group = {g1}
  NoGroup = none
  BindTTL = 1
  EditTTLs <- NoTTLs
  Laggy = {"cr", "sa"}
  Budget <- HandshakeBudget
SYMMETRY Handlers
CONSTRAINT FaultOrTick
INVARIANTS RequestsOK BindedHasAccount SettledIsBound NoOrphanedBindings SameIncarnation
PROPERTIES ImplementsOperator FirstLoginInPlace
CHECK_DEADLOCK FALSE
