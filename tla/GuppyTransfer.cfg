SPECIFICATION Spec
CONSTANTS
    Ports = {p1}
    Docs = {"page"}
    BodyLen <- MCBodyLenOf
    Specials = {"error"}
    ChunkSize = 2
    MinSeq = 1
    MaxSeq = 6
    Window = 2
    MaxSessions = 1
    MaxSendErrors = 1
    NoSession = NoSession
    NoData = NoData
    MaxBody = 5
    DeadlinesRace = TRUE
INVARIANTS TypeOK BodyExact DoneMeansDelivered WindowRespected BufferBounded
PROPERTIES SessionStable
