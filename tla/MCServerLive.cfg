CONSTANTS
    Clients = {c1, c2}
    MaxEvents = 10
    MaxHops = 2
    MaxStalls = 1
    PeerMoves = {"partial", "request"}
SPECIFICATION Spec
PROPERTIES
    EveryRequestEnds
    ShutdownCompletes
