CONSTANTS
  Users = {ann, bob}
  NoUser = NoUser
  Pages = {p1}
  Logouts = {out1, out2}
  MaxReloads = 1
SPECIFICATION Spec
INVARIANTS
  TypeOK
  ShownUserOwnsTokens
  LogoutDiscards
  ExpiryHidden
PROPERTY
  LoadingEnds
