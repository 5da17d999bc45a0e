\* One payment, created and captured by requests under the same or two keys.
SPECIFICATION PaymentsSpec
CONSTANTS
    Request       = {c1, x1, x2}
    CreateRequest = {c1}
    Resource      = {c1}
    CreateKey     = {k1}
    CaptureKey    = {k2, k3}
    Key           <- MCKey
    Hash          = {h1}
    None          = None
    Lease         = 1
    MaxSkew       = 0
SYMMETRY CaptureSymmetry
INVARIANTS
    PaymentsTypeOK
    PaymentLocksHold
    ProviderCaptureIsSerial
    SuccessIsConfirmed
    ResponsesAreDurable
PROPERTIES
    ImplementsLedger
