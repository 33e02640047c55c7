\* The in-memory action store and fairness: every action, reservation and silent
\* connection ends, though queries fail, those of a close() among them.
SPECIFICATION FairSpec
CONSTANTS
    Machines = {m1}
    Sockets = {s1}
    Actions = {a1}
    None = None
    MaxQueue = 0
    MaxBeats = 1
    Outcomes = {"SUCCEEDED"}
    AtomicStore = TRUE
    StoreFaults = {"get"}
    GraceExpires = TRUE
    Restarts = FALSE
    MaxInFlight = 3
INVARIANTS
    SwallowedOnlyWhenEnded
    TimeoutAhead
PROPERTIES
    ActionsEnd
    ReservationsEnd
    SilentConnectionsEnd
CHECK_DEADLOCK FALSE
