SPECIFICATION Spec
CONSTANTS
    Calls <- MCCalls
    Replies <- MCReplies
    Window = 3
    MaxLine = 12
    MaxUpload = 3
    MaxBody = 8
    MaxUri = 14
INVARIANTS
    AskedAsMeant
    OwnRequestAccepted
    ResponseFaithful
    CapsHonoured
PROPERTIES
    ClientReturnsAtLast
    ServerEndsAtLast
CHECK_DEADLOCK FALSE
