SPECIFICATION Spec
CONSTANTS
    Users = {u1, u2}
    Ids = {1}
    BadIds = {}
    Kinds = {"auth", "answers"}
    CallIds = {c1, c2}
    None = None
INVARIANTS
    HistoryIsOwn
