\* A connection rejected while its hello is being stored.
SPECIFICATION Spec
CONSTANTS
    Machines = {m1}
    Sockets = {s1}
    Actions = {}
    None = None
    MaxQueue = 0
    MaxBeats = 1
    Outcomes = {}
    AtomicStore = FALSE
    StoreFaults = {}
    GraceExpires = FALSE
    Restarts = FALSE
    MaxInFlight = 3
INVARIANT RejectedIsNotLive
CHECK_DEADLOCK FALSE
