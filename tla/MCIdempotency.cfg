\* Three requests race for one key with two payloads.
SPECIFICATION Spec
CONSTANTS
    Request  = {r1, r2, r3}
    Key      = {k1}
    Hash     = {h1, h2}
    Resource = {p1, p2}
    None     = None
    Lease    = 1
    MaxSkew  = 1
SYMMETRY Symmetry
INVARIANTS
    TypeOK
    SoleOwner
    LeaseHonoured
    OwnersShareResource
    ResponsesAgree
    OwnershipLostIsTrue
PROPERTIES
    OutcomeIsFinal
