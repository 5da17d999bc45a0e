\* Whether the grace of the worker comes before the hard stop.
SPECIFICATION LifecycleSpec
CONSTANTS
    Signal = {SIGTERM, SIGINT}
SYMMETRY SignalSymmetry
INVARIANTS
    BrokerWaitIsReleased
\* A process that has ended does nothing.
CHECK_DEADLOCK FALSE
