SPECIFICATION LiveSpec
CONSTANTS
    Ports = {p1}
    Docs = {"note"}
    BodyLen <- MCBodyLenOf
    Specials = {}
    ChunkSize = 2
    MinSeq = 1
    MaxSeq = 5
    Window = 2
    MaxSessions = 1
    MaxSendErrors = 1
    NoSession = NoSession
    NoData = NoData
    MaxBody = 3
    DeadlinesRace = FALSE
PROPERTIES FetchServed
