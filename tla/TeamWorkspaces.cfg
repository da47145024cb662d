CONSTANTS
  r1 = r1
  r2 = r2
  o = o
  a = a
  b = b
  w1 = w1
  i1 = i1
  i2 = i2
  p1 = p1
  NoOne = NoOne
  Request <- MCRequest
  Account <- MCAccount
  Workspace <- MCWorkspace
  OwnerOf <- MCOwnerOf
  Invite <- MCInvite
  WorkspaceOf <- MCWorkspaceOf
  Project <- MCProject
  Limit = {1}
  MaxWorkspaces = 1
  MaxPending = 2
  MaxProjects = 1
  MaxAttempts = 2
  MaxVersion = 4
SYMMETRY Symmetry
SPECIFICATION Spec
INVARIANTS PointersAreMemberships ConfirmedIsListed ListingIsExact
PROPERTIES AdmissionsTakeInvites ChangesAreAllowed
CHECK_DEADLOCK FALSE
