\* Two callers, room for two attempts, two connections and three channels; no
\* symmetry, since liveness is checked too.
SPECIFICATION RabbitFairSpec
CONSTANTS
    Connection = {k1, k2}
    Channel    = {h1, h2, h3}
    Attempt    = {a1, a2}
    Caller     = {c1, c2}
    None       = None
INVARIANTS
    RabbitTypeOK
    NoOrphans
    HeardWhileUsable
PROPERTIES
    ImplementsTransport
    EveryCallReturns
    RecoversWhenFaultsStop
\* Once closed, the manager rests.
CHECK_DEADLOCK FALSE
