\* Two requests with payloads of their own, no symmetry: liveness under Fairness.
SPECIFICATION HashedFairSpec
CONSTANTS
    Request  = {r1, r2}
    Key      = {k1}
    Hash    <- MCHash
    Value   <- MCValue
    Payload <- MCPayload
    Resource = {p1}
    None     = None
    Lease    = 1
    MaxSkew  = 1
INVARIANTS
    AnswersGoByMeaning
PROPERTIES
    AbandonedKeyIsReleased
