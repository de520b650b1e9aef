CONSTANTS
    Users = {u1}
    Sessions = {s1, s2, s3}
    Requests = {r1, r2}
    Passwords = {p1, p2}
    MaxFailures = 1
    None = None
SPECIFICATION Spec
INVARIANT DisabledHasNoSession
SYMMETRY MCSymmetry
