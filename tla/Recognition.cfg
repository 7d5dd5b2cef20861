SPECIFICATION Spec
CONSTANTS
  Adverts <- MCAdverts
  MacRules <- MCMacRules
  NameRules <- MCNameRules
  MaxEir = 31
  Nobody = Nobody
INVARIANTS TypeOK TextFits ParseFindsFirst TrackedByRules PositionReadable
