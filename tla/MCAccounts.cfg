SPECIFICATION WorkloadSpec
CONSTANTS
    r1 = r1  r2 = r2  r3 = r3  r4 = r4  p1 = p1  p2 = p2
    Requests = {r1, r2, r3, r4}
    Ops = {"signup", "login", "access", "logout"}
    Names = {"alice", "bob"}
    Passwords = {p1, p2}
    SeededNames = {"alice"}
    SeedPassword = p1
    Ttl = 1  Skew = 1  MaxTime = 2
    None = None
SYMMETRY Symmetric
INVARIANTS
    CreatedOwnsTheName ConflictIsTrue TokenHasSession LogoutRevokes ValidTokenHonoured
CHECK_DEADLOCK FALSE
