SPECIFICATION Spec
CONSTANTS
    p1 = p1  p2 = p2  i1 = i1  i2 = i2  s1 = s1  b1 = b1  b2 = b2
    Phone = {p1, p2}
    Invitation = {i1, i2}
    Staff = {s1}
    Browser = {b1, b2}
    MaxAttempts = 2
    MaxChallenges = 2
    MaxSessions = 2
SYMMETRY Symmetry
CHECK_DEADLOCK FALSE
INVARIANTS TypeOK RegistrationIsWhole AttemptsBounded CodesAreSpent
