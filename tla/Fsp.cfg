SPECIFICATION LiveSpec
CONSTANTS
    whole = whole
    short = short
    absent = absent
    endless = endless
    Paths = {whole, short, absent, endless}
    Missing = {absent}
    Endless = {endless}
    Content <- MCContent
    Directory <- MCDirectory
    SeqMod = 3
    Lifetime = 2
    Attempts = 2
    Wait = 2
    MaxPayload = 2
    MaxRequests = 4
INVARIANTS TypeOK KeyCurrent FileExact ListExact
PROPERTIES RequestEnds CallReturns
CHECK_DEADLOCK FALSE
