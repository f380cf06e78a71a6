SPECIFICATION IdentitySpec
CONSTANTS
    Procs = {p1, p2}
    Specs <- MCAddresses
    MaxKeys = 3
INVARIANTS
    IdentityKept
PROPERTIES
    NothingOverwritten
    RotateRenews
CHECK_DEADLOCK FALSE
