SPECIFICATION Spec
CONSTANTS
  User = {u1, u2, u3}
  Invitation = {i1, i2}
  Handler = {h1, h2}
  None = None
INVARIANTS
  FounderOwns
  RolesComeFromInvitations
SYMMETRY Symmetry
