SPECIFICATION Spec
CONSTANTS
    r1 = r1  r2 = r2  r3 = r3  u1 = u1  u2 = u2  f1 = f1  f2 = f2  f3 = f3  c1 = c1
    Requests = {r1, r2, r3}
    Ops = {"list", "delete"}
    Users = {u1, u2}
    Flags = {f1, f2}
    Undecodable = {}
    Seeds <- OneSeed
    Gated = FALSE
    MaxHurt = 1
    None = None
SYMMETRY Symmetric
INVARIANTS
    ListShowsAll
CHECK_DEADLOCK FALSE
