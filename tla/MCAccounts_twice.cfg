SPECIFICATION Spec
CONSTANTS
    n1 = n1
    n2 = n2
    p1 = p1
    p2 = p2
    c1 = c1
    c2 = c2
    Names = {n1, n2}
    Passwords = {p1, p2}
    Bodies <- Bodies3
    Creations = {c1, c2}
    Logins = {}
    Touched = {}
    Life = 1
    MaxTime = 2
    MaxEnds = 1
    Failures = {}
    NoUser = NoUser
INVARIANTS
    OneCreation
