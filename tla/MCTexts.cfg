SPECIFICATION TextsSpec
CONSTANTS
    Uris <- MCUris
    MaxQueryParams = 2
    Schemes <- MCSchemes
    IdName <- MCIdName
    FilterName <- MCFilterName
    IntMax = 255
    MaxJsonDepth = 2
    StringTokens <- MCStringTokens
    PositiveTokens = {"7"}
    OtherScalars = {"scalar"}
    Text <- MCText
    NoText = "none"
    Empty = ""
    TooLong = {"long"}
    Usernames = {"alice"}
    Passwords = {"secret", "alice"}
    Genres = {"web"}
    UriLength = 5
    SegmentCount = 4
    QueryLength = 5
    TokenLength = 4
    Dates <- MCDates
INVARIANTS
    WritesBehindReads
    PathIsReference
    IdIsExact
    StringIsReference
    BodyIsReference
    TimeIsReference
