\* The Postgres store: an acceptance overtakes the timeout of its action.
SPECIFICATION Spec
CONSTANTS
    Machines = {m1}
    Sockets = {s1}
    Actions = {a1}
    None = None
    MaxQueue = 0
    MaxBeats = 1
    Outcomes = {"SUCCEEDED"}
    AtomicStore = FALSE
    StoreFaults = {}
    GraceExpires = FALSE
    Restarts = FALSE
    MaxInFlight = 3
INVARIANT SwallowedOnlyWhenEnded
CHECK_DEADLOCK FALSE
