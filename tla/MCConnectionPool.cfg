\* Three captures of one payment, a create and the poller share two connections; no
\* symmetry, since liveness is checked too.
SPECIFICATION PoolFairSpec
CONSTANTS
    CreateRequest  = {r1}
    CaptureRequest = {c1, c2, c3}
    Poller         = poller
    Payment        = {p1}
    PoolSize       = 2
    None           = None
INVARIANTS
    PoolTypeOK
    NoHoldAndWait
PROPERTIES
    EveryoneIsServed
\* The poller rests between polls.
CHECK_DEADLOCK FALSE
