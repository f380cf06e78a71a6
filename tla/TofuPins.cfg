SPECIFICATION Spec
CONSTANTS
    moving = moving
    steady = steady
    c1 = c1
    c2 = c2
    Fetches = {f1, f2, f3}
    Hosts = {moving, steady}
    Certs = {c1, c2}
    Presents <- MCPresents
    Stores = {permissive, memory}
    Permissive = permissive
    NoPin = NoPin
    NoHost = NoHost
    NoCert = NoCert
SYMMETRY MCSymmetry
INVARIANTS TypeOK PinProvenance NoFalseAlarm FirstContactOnce
