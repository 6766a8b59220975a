\* Reads of up to two bytes; heads of up to three, bodies of up to two are allowed.
CONSTANTS
    Streams <- MCStreams
    MaxRequests = 2
    ReadSize = 2
    MaxHeader = 3
    MaxBody = 2
    Users <- MCUsers
    Passwords <- MCPasswords
    Pages <- MCPages
    Origins <- MCOrigins
    CorsPaths <- MCCorsPaths
    AllowHeaders <- MCAllowHeaders
    MinCompress = 1024
SPECIFICATION Spec
CHECK_DEADLOCK FALSE
INVARIANTS OneAnswerOneCount FramedWithinLimits AccessDecides CorsOnEveryAnswer BodyAsTold
PROPERTIES ConnectionEnds
