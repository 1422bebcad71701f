SPECIFICATION Spec
CONSTANTS
    Users = {u1, u2}
    Ids = {1, 2}
    BadIds = {2}
    Kinds = {"auth", "list", "detail", "mine", "editor", "answers"}
    CallIds = {c1, c2}
    None = None
SYMMETRY Symmetric
INVARIANTS
    PrivateIsOwn
    LoggedOutLeaves
    NothingStuck
    ResultIsInHistory
PROPERTIES
    EndedByItsOwnCall
