SPECIFICATION Spec
CONSTANTS
  User = {ann, bob}
  Workspace = {w1, w2}
  Session = {s1, s2}
  Request = {q1, q2}
  Invitation = {i1, i2}
  OfferedRole = {"viewer"}
  MaxMembers = 2
  NoUser = NoUser
  NoWorkspace = NoWorkspace
  Idle = Idle
SYMMETRY Interchangeable
CHECK_DEADLOCK FALSE
INVARIANTS
  Consistent
  OneOwner
  SessionAmongOwn
PROPERTIES
  AdmittedByInvitation
