\* Connections, hellos, heartbeats and requests with a message queue, failing writes,
\* shutdown and restarts, with the Postgres action store.
SPECIFICATION Spec
CONSTANTS
    Machines = {m1}
    Sockets = {s1, s2}
    Actions = {a1}
    None = None
    MaxQueue = 1
    MaxBeats = 1
    Outcomes = {"SUCCEEDED"}
    AtomicStore = FALSE
    StoreFaults = {"create", "upsert", "lostCreate"}
    GraceExpires = TRUE
    Restarts = TRUE
    MaxInFlight = 2
CONSTRAINT BoundedConcurrency
SYMMETRY HubSymmetry
INVARIANTS
    HubInv
    EndedIsClosed
PROPERTIES
    ClosedHubTakesNoRequest
    EndedRowsStay
    NoHeartbeatAfterEnd
CHECK_DEADLOCK FALSE
