SPECIFICATION Spec
CONSTANTS
    alice1 = alice1
    alice2 = alice2
    anon = anon
    old = old
    Addresses <- MCAddresses
    Fingerprints = {alice1, alice2, anon, old}
    Conns = {c1, c2}
    NoAddress = NoAddress
    NoPin = NoPin
    NoCert = NoCert
    Served <- MCServed
    Claim <- MCClaim
    Expired <- MCExpired
    RequireSenderIdentity = FALSE
    RejectChangedSender = TRUE
SYMMETRY MCSymmetry
INVARIANTS TypeOK ReceiptHonest MailAdmissible PinHonoured IndexExact
PROPERTIES PinStable AppendOnly
CHECK_DEADLOCK FALSE
