\* One poller, one event per batch: the second event waits behind the first.
\* Four attempts, so that an event waits three times, beyond the capped exponent.
SPECIFICATION RetryFairSpec
CONSTANTS
    Event          = {1, 2}
    Worker         = {w1}
    None           = None
    BatchSize      = 1
    MaxAttempts    = 4
    RetryBaseDelay = 1
    RetryMaxDelay  = 2
    MaxExponent    = 1
PROPERTIES
    EveryEventSettles
    DelaysBackOff
\* Polls of a settled table change nothing: the system may rest.
CHECK_DEADLOCK FALSE
