\* Three create requests under one key: retries, takeovers, crashes.
SPECIFICATION PaymentsSpec
CONSTANTS
    Request       = {c1, c2, c3}
    CreateRequest = {c1, c2, c3}
    Resource      = {c1, c2, c3}
    CreateKey     = {k1}
    CaptureKey    = {}
    Key           <- MCKey
    Hash          = {h1}
    None          = None
    Lease         = 1
    MaxSkew       = 0
SYMMETRY CreateSymmetry
INVARIANTS
    OneReferencePerKey
    PaymentLocksHold
PROPERTIES
    FollowsProtocol
