SPECIFICATION Spec
CONSTANTS
    Ports = {p1}
    Docs = {"note"}
    BodyLen <- MCBodyLenOf
    Specials = {}
    ChunkSize = 2
    MinSeq = 1
    MaxSeq = 5
    Window = 2
    MaxSessions = 1
    MaxSendErrors = 0
    NoSession = NoSession
    NoData = NoData
    MaxBody = 3
    DeadlinesRace = FALSE
INVARIANTS RefusedOnlyIfLarger
