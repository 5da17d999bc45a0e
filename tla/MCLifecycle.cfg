\* The process as main runs it, with both signals and a direct call of shutdown().
SPECIFICATION LifecycleFairSpec
CONSTANTS
    Signal = {SIGTERM, SIGINT}
INVARIANTS
    LifecycleTypeOK
    ClosesBehindWork
    EndsCleanly
PROPERTIES
    SignalEndsProcess
\* A process that has ended does nothing.
CHECK_DEADLOCK FALSE
