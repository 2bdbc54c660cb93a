SPECIFICATION Spec
CONSTANTS
    u1 = u1
    u2 = u2
    w1 = w1
    w2 = w2
    c1 = c1
    c2 = c2
    h1 = h1
    h2 = h2
    NoUser = NoUser
    NoWorkspace = NoWorkspace
    Idle = Idle
    User = {u1, u2}
    Workspace = {w1, w2}
    Chat = {c1, c2}
    Handler = {h1, h2}
    MaxCodes = 2
SYMMETRY Symmetry
INVARIANTS
  Consistent
  AmbiguousOnlyByTwoCodes
PROPERTIES
  SwitchKeepsUser
