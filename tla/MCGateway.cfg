\* Three calls of one payment with one key: create, capture, get, their
\* repetitions, and calls that are refused.
SPECIFICATION GatewaySpec
CONSTANTS
    Call      = {c1, c2, c3}
    ClientKey = {k1}
    Resource  = {p1}
    Flaw      = {"json", "auth", "schema"}
    None      = None
SYMMETRY CallSymmetry
INVARIANTS
    GatewayTypeOK
    RefusalHasNoEffect
    AnswersAgree
\* All calls are answered: the system may rest.
CHECK_DEADLOCK FALSE
