CONSTANTS
  Email = {e1, e2}
  GoogleId = {g1, g2}
  Request = {r1, r2, r3, r4}
  Null = Null
  MaxInFlight = 3
SYMMETRY AuthSymmetry
VIEW LiveState
SPECIFICATION Spec
INVARIANTS
  TypeOK
  OneRegistrationPerEmail
  AnsweredTokenStored
PROPERTIES
  LinkedStaysLinked
  OnlyLinkingRestores
  LogoutRevokes
CHECK_DEADLOCK FALSE
