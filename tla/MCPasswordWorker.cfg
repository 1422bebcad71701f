CONSTANTS
    Jobs = {j1, j2, j3}
    Capacity = 2
    None = None
SPECIFICATION Spec
INVARIANTS
    WaitingIsExact
    OneOwner
PROPERTIES
    ImplementsJobService
