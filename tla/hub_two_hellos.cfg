\* Two hellos of one machine while a third session is replaced.
SPECIFICATION Spec
CONSTANTS
    Machines = {m1}
    Sockets = {s1,s2,s3}
    Actions = {a1}
    None = None
    MaxQueue = 0
    MaxBeats = 1
    Outcomes = {}
    AtomicStore = FALSE
    StoreFaults = {}
    GraceExpires = FALSE
    Restarts = FALSE
    MaxInFlight = 3
CONSTRAINT WhileRunning
SYMMETRY HubSymmetry
INVARIANT OneLiveConnection
CHECK_DEADLOCK FALSE
