\* Dispatch, reports, timeouts and interrupts, with the Postgres store: one
\* machine that reconnects, two actions in a row.
SPECIFICATION Spec
CONSTANTS
    Machines = {m1}
    Sockets = {s1, s2}
    Actions = {a1, a2}
    None = None
    MaxQueue = 0
    MaxBeats = 1
    Outcomes = {"SUCCEEDED", "DENIED"}
    AtomicStore = FALSE
    StoreFaults = {"get", "create", "update"}
    GraceExpires = FALSE
    Restarts = FALSE
    MaxInFlight = 2
CONSTRAINT WhileRunning
SYMMETRY HubSymmetry
INVARIANTS
    OneActivePerMachine
    ReservationsBalanced
    ActiveIsTracked
PROPERTIES
    FollowsLifecycle
    ReportedByAddressee
CHECK_DEADLOCK FALSE
