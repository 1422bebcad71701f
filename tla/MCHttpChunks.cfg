SPECIFICATION ChunksSpec
CONSTANTS
    Streams <- MCStreams
    Methods <- MCMethods
    MethodPeek = 3
    Versions <- MCVersions
    MaxHeaderBytes = 16
    MaxRequestBytes = 19
    MaxHeaders = 2
    SizeMax = 25
    NormalizeUri <- MCNormalizeUri
    TailLength = 4
INVARIANTS
    ChunksDoNotMatter
    RoomToReceive
    BodyIsFramed
    HeadersAreTheLines
