\* Two captures of an authorized payment wait for its row lock; no symmetry.
SPECIFICATION AuthorizedFairSpec
CONSTANTS
    Request       = {c1, x1, x2}
    CreateRequest = {c1}
    Resource      = {c1}
    CreateKey     = {k1}
    CaptureKey    = {k2, k3}
    Key           <- MCKey
    Hash          = {h1}
    None          = None
    Lease         = 1
    MaxSkew       = 0
PROPERTIES
    EveryRequestEnds
