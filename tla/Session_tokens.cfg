SPECIFICATION Spec
CONSTANTS
  Users = {ann, bob}
  Admins = {ann}
  NoUser = NoUser
  NoReturn = NoReturn
  Live = Live
  NoNav = NoNav
  MaxCalls = 2
INVARIANTS
  TypeOK
  SignedOutForgetsBoth
PROPERTIES
  GuardsHold
  LogoutCompletes
  GuardEnds
  RefreshEnds
