SPECIFICATION Spec
CONSTANTS
    s1 = s1
    s2 = s2
    s3 = s3
    q1 = q1
    q2 = q2
    NoSession = NoSession
    Idle = Idle
    Session = {s1, s2}
    Request = {q1, q2}
    MaxPasswords = 3
    MaxTokens = 3
SYMMETRY Symmetry
CHECK_DEADLOCK FALSE
INVARIANTS
  Consistent
  OldPasswordEnds
  ReuseJustified
PROPERTIES
  EndIsFinal
