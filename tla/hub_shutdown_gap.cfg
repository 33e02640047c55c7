\* Shutdown while a request is being created.
SPECIFICATION Spec
CONSTANTS
    Machines = {m1}
    Sockets = {s1}
    Actions = {a1}
    None = None
    MaxQueue = 0
    MaxBeats = 1
    Outcomes = {"SUCCEEDED"}
    AtomicStore = FALSE
    StoreFaults = {}
    GraceExpires = FALSE
    Restarts = FALSE
    MaxInFlight = 3
INVARIANT ShutdownResolvesActions
CHECK_DEADLOCK FALSE
