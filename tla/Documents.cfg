SPECIFICATION Spec
CONSTANTS
    PiecesOf <- MCPieces
    MaxPieces <- MCMaxPieces
    Base = 2
    MaxLine = 12
    Dirs <- MCDirs
    RegularFiles <- MCFiles
    EntryOrder <- MCEntryOrder
INVARIANTS
    RoundTrips
    ServedFromRoot
PROPERTIES
    OnlyExtends
CHECK_DEADLOCK FALSE
