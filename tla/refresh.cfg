\* Three repositories, one slot, and a stream of events that never ends.
SPECIFICATION FairSpec
CONSTANTS
    Repos = {r1, r2, r3}
    Executions = {e1, e2}
    None = None
    Concurrency = 1
    Debounce = 2
    MaxDebounce = 3
    Grace = 1
INVARIANTS
    CoordinatorInv
    OnePerRepository
    NoIdleSlot
    NothingForgotten
PROPERTIES
    ImplementsRequests
    StopStartsNothing
    EventsAreAnswered
    StopEnds
CHECK_DEADLOCK FALSE
