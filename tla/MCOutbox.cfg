\* Two pollers over two events, two attempts each.
SPECIFICATION OutboxSpec
CONSTANTS
    Event       = {1, 2}
    Worker      = {w1, w2}
    None        = None
    BatchSize   = 2
    MaxAttempts = 2
SYMMETRY WorkerSymmetry
INVARIANTS
    OutboxTypeOK
    HeldEventsAreStable
    DeliveryIsAtLeastOnce
\* Polls of a settled table change nothing: the system may rest.
CHECK_DEADLOCK FALSE
