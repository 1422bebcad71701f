CONSTANTS
    Clients = {c1, c2}
    MaxEvents = 2
    MaxHops = 3
    MaxStalls = 1
    PeerMoves = {"partial", "request", "junk", "reset"}
SPECIFICATION Spec
SYMMETRY ClientSymmetry
INVARIANTS
    NoUseAfterFree
    DisposedExactlyOnce
    ContextHasOneJob
    OneResponse
