----------------------------- MODULE MachineHub -----------------------------
(***************************************************************************)
(* The Hub's half of the Agent protocol: apps/api/src/machines.ts and the  *)
(* action stores of apps/api/src/actions.ts.                               *)
(*                                                                         *)
(* The Hub is one Node process.  Its handlers run to the next await, and   *)
(* whatever else is ready runs there, so every handler is split at its     *)
(* awaits: a step named for a store call is the moment the call takes      *)
(* effect, the step after it is the continuation.  A query that only reads *)
(* takes effect together with its continuation; a write and its            *)
(* continuation are two steps, because other handlers run in between.      *)
(*                                                                         *)
(* Messages of one connection are handled one at a time, in order; what a  *)
(* message holds is decided when its handler starts.  Any message an       *)
(* authenticated client could send is considered, not only those of the    *)
(* Agent of apps/agent.                                                    *)
(***************************************************************************)
EXTENDS ActionStatus, Naturals, FiniteSets

CONSTANTS
    Machines,       \* machine ids
    Sockets,        \* WebSocket connections; each is used once
    Actions,        \* action ids (randomUUID); each is used once
    None,           \* no machine, no socket, no action
    MaxQueue,       \* bound: messages waiting behind the one being handled
    MaxBeats,       \* bound: heartbeat sequence numbers
    Outcomes,       \* bound: the outcomes an Agent's results report
    AtomicStore,    \* TRUE: InMemoryMachineActionStore; FALSE: PostgresMachineActionStore
    StoreFaults,    \* the store calls that may fail
    GraceExpires,   \* may the shutdown grace period run out first?
    Restarts        \* may the process die and be started again?

ASSUME NoneAssumption == None \notin Machines \cup Sockets \cup Actions
ASSUME BoundAssumption == MaxQueue \in Nat /\ MaxBeats \in Nat
ASSUME StoreAssumption ==
    /\ AtomicStore \in BOOLEAN
    /\ GraceExpires \in BOOLEAN
    /\ Restarts \in BOOLEAN
    /\ Outcomes \subseteq TerminalStatuses \ {"INTERRUPTED"}
    /\ StoreFaults \subseteq {"upsert", "create", "lostCreate", "get", "update"}

VARIABLES
    phase,      \* "running", "closing" (shuttingDown), then "closed" (maps cleared) or "failed"
    wire,       \* readyState of each socket, "unused" before the upgrade
    connected,  \* the keys of connections and connectionStates
    conn,       \* each ConnectionState: machineId, closeReason
    helloTimer, \* the connections whose helloTimer is armed
    sequence,   \* lastSequence of each connection's session
    online,     \* is lastHeartbeatReceivedAt at most staleAfterMs old? (statusForSession)
    sessions,   \* sessions: the socket of each machine's active session
    row,        \* machines table: the connection whose hello the row describes
    queued,     \* messages waiting on a connection's messageQueue
    task,       \* where a connection's message handler is suspended
    record,     \* machine_actions: the status of each row
    request,    \* each requestAction call: where it is, and the session it captured
    pending,    \* pendingActions: the socket each tracked action was sent to
    timer,      \* is the Hub timer of an action still armed?
    reserved,   \* actionReservations
    job         \* transitions in progress: one per handler, timer and interrupt loop

connectionVars == <<wire, connected, conn, helloTimer, sequence, online, sessions>>
handlerVars == <<row, queued, task>>
dispatchVars == <<request, pending, timer, reserved>>
vars == <<phase, connectionVars, handlerVars, record, dispatchVars, job>>

-----------------------------------------------------------------------------
(* Connections, sessions and jobs. *)

CloseReasons == {"none", "rejected", "replaced", "hub_shutdown"}

\* state.terminal: set together with closeReason wherever the Hub ends a connection.
Terminal(s) == conn[s].reason # "none"

ShuttingDown == phase # "running"

HelloReceived(s) == conn[s].machine # None

\* detachSession's test that the connection's session is still the active one.
OwnsSession(s) == HelloReceived(s) /\ sessions[conn[s].machine] = s

\* Who runs transitionAction: a connection's message handler (an accepted or
\* result message, or a hello interrupting the session it replaces), the
\* interrupt loop of a detached session, an action's timer, the shutdown loop.
Jobs == ({"handler", "detach"} \X Sockets) \cup ({"timeout"} \X Actions)
            \cup {<<"shutdown", None>>}

Handler(s) == <<"handler", s>>
Detach(s) == <<"detach", s>>
Timeout(a) == <<"timeout", a>>
Shutdown == <<"shutdown", None>>

IdleJob == [pc |-> "idle", todo |-> {}, at |-> None, goal |-> "ABSENT", cur |-> "ABSENT"]

\* An async function runs to its first await at once: with nothing to do, it is over.
JobOn(as, goal) ==
    IF as = {}
      THEN IdleJob
      ELSE [pc |-> "get", todo |-> as, at |-> None, goal |-> goal, cur |-> "ABSENT"]

Candidates(s) == {a \in Actions : pending[a] = s}

SessionsWithout(s) ==
    IF OwnsSession(s) THEN [sessions EXCEPT ![conn[s].machine] = None] ELSE sessions

\* The jobs js after detachSession(s): the interrupt loop starts when the
\* session was the active one, on the actions pending at that moment.
JobsAfterDetach(js, s) ==
    IF OwnsSession(s)
      THEN [js EXCEPT ![Detach(s)] = JobOn(Candidates(s), "INTERRUPTED")]
      ELSE js

\* reject(), called while the jobs are js: only the first rejection of a
\* connection that still has a state does anything.
Reject(s, js) ==
    IF s \in connected /\ ~Terminal(s)
      THEN /\ conn' = [conn EXCEPT ![s].reason = "rejected"]
           /\ sessions' = SessionsWithout(s)
           /\ job' = JobsAfterDetach(js, s)
           /\ wire' = IF wire[s] = "open" THEN [wire EXCEPT ![s] = "closing"] ELSE wire
      ELSE /\ job' = js
           /\ UNCHANGED <<conn, sessions, wire>>

\* A handler's suspension point and the locals it keeps: the machine, the
\* session to replace or the machine row read (both a connection), the sequence.
TaskAt(pc, m, n) == [pc |-> pc, machine |-> m, replaced |-> None, seq |-> n]

IdleTask == TaskAt("idle", None, 0)

Init ==
    /\ phase = "running"
    /\ wire = [s \in Sockets |-> "unused"]
    /\ connected = {}
    /\ conn = [s \in Sockets |-> [machine |-> None, reason |-> "none"]]
    /\ helloTimer = {}
    /\ sequence = [s \in Sockets |-> 0]
    /\ online = [s \in Sockets |-> FALSE]
    /\ sessions = [m \in Machines |-> None]
    /\ row = [m \in Machines |-> None]
    /\ queued = [s \in Sockets |-> 0]
    /\ task = [s \in Sockets |-> IdleTask]
    /\ record = [a \in Actions |-> "ABSENT"]
    /\ request = [a \in Actions |-> [pc |-> "none", machine |-> None, socket |-> None]]
    /\ pending = [a \in Actions |-> None]
    /\ timer = [a \in Actions |-> FALSE]
    /\ reserved = {}
    /\ job = [j \in Jobs |-> IdleJob]

-----------------------------------------------------------------------------
(* The life of a connection. *)

\* Variant: the hello timer is never set.
ConnectUntimed(s) ==
    /\ wire[s] = "unused"
    /\ IF ShuttingDown
         THEN /\ wire' = [wire EXCEPT ![s] = "closed"]
              /\ UNCHANGED connected
         ELSE /\ wire' = [wire EXCEPT ![s] = "open"]
              /\ connected' = connected \cup {s}
    /\ UNCHANGED <<phase, conn, helloTimer, sequence, online, sessions, handlerVars, record, dispatchVars, job>>

\* handleSocket.  After shutdown has begun the socket is closed at once and
\* no state is kept for it.
Connect(s) ==
    /\ wire[s] = "unused"
    /\ IF ShuttingDown
         THEN /\ wire' = [wire EXCEPT ![s] = "closed"]
              /\ UNCHANGED <<connected, helloTimer>>
         ELSE /\ wire' = [wire EXCEPT ![s] = "open"]
              /\ connected' = connected \cup {s}
              /\ helloTimer' = helloTimer \cup {s}
    /\ UNCHANGED <<phase, conn, sequence, online, sessions, handlerVars, record, dispatchVars, job>>

\* The hello timer fires: a connection without a hello is rejected.
HelloTimeout(s) ==
    /\ s \in helloTimer
    /\ helloTimer' = helloTimer \ {s}
    /\ IF HelloReceived(s) THEN UNCHANGED <<wire, conn, sessions, job>> ELSE Reject(s, job)
    /\ UNCHANGED <<phase, connected, sequence, online, handlerVars, record, dispatchVars>>

\* The socket's 'close' event: the peer closed or vanished, or finished the
\* close the Hub asked for.  cleanupConnection detaches the session if it is
\* still the active one, and forgets the connection.
SocketClosed(s) ==
    /\ wire[s] \in {"open", "closing"}
    /\ wire' = [wire EXCEPT ![s] = "closed"]
    /\ helloTimer' = helloTimer \ {s}
    /\ sessions' = SessionsWithout(s)
    /\ job' = JobsAfterDetach(job, s)
    /\ connected' = connected \ {s}
    /\ UNCHANGED <<phase, conn, sequence, online, handlerVars, record, dispatchVars>>

\* Time passes: the last heartbeat is older than staleAfterMs.  Only the active
\* session's age is ever looked at.
GoStale(s) ==
    /\ online[s] /\ OwnsSession(s)
    /\ online' = [online EXCEPT ![s] = FALSE]
    /\ UNCHANGED <<phase, wire, connected, conn, helloTimer, sequence, sessions, handlerVars, record,
                   dispatchVars, job>>

-----------------------------------------------------------------------------
(* The per-connection message queue. *)

\* A message arrives behind the one being handled.
Enqueue(s) ==
    /\ wire[s] = "open" /\ ~Terminal(s) /\ ~ShuttingDown
    /\ task[s].pc # "idle"
    /\ queued[s] < MaxQueue
    /\ queued' = [queued EXCEPT ![s] = @ + 1]
    /\ UNCHANGED <<phase, connectionVars, row, task, record, dispatchVars, job>>

\* processMessage returns at once on a connection that was ended meanwhile.
DropQueued(s) ==
    /\ task[s].pc = "idle" /\ queued[s] > 0
    /\ Terminal(s) \/ ShuttingDown
    /\ queued' = [queued EXCEPT ![s] = 0]
    /\ UNCHANGED <<phase, connectionVars, row, task, record, dispatchVars, job>>

\* processMessage starts on the next message: one that waited (its socket may
\* have closed since), or one that just arrived on an idle connection.
TakeMessage(s) ==
    /\ task[s].pc = "idle"
    /\ ~Terminal(s) /\ ~ShuttingDown
    /\ queued[s] > 0 \/ wire[s] = "open"
    /\ queued' = IF queued[s] > 0 THEN [queued EXCEPT ![s] = @ - 1] ELSE queued

\* A message is refused before its handler awaits anything.
RefuseMessage(s) ==
    /\ Reject(s, job)
    /\ UNCHANGED <<phase, connected, helloTimer, sequence, online, row, task, record, dispatchVars>>

\* Too large, not JSON, another protocol version, not in the schema.
InvalidMessage(s) == TakeMessage(s) /\ RefuseMessage(s)

\* The handler reaches its first await.
Suspend(s, t) ==
    /\ task' = [task EXCEPT ![s] = t]
    /\ UNCHANGED <<phase, connectionVars, row, record, dispatchVars>>

-----------------------------------------------------------------------------
(* agent.hello *)

Hello(s, m) ==
    /\ TakeMessage(s)
    /\ IF HelloReceived(s)
         THEN RefuseMessage(s)
         ELSE /\ Suspend(s, TaskAt("helloGet", m, 0))
              /\ UNCHANGED job

\* A store call of a hello or heartbeat failed: the connection is rejected.
HandlerFails(s) ==
    /\ task' = [task EXCEPT ![s] = IdleTask]
    /\ Reject(s, job)
    /\ UNCHANGED row

\* store.get answered; an ended connection goes no further.
HelloRead(s) ==
    /\ task[s].pc = "helloGet"
    /\ \/ /\ task' = IF Terminal(s) \/ ShuttingDown
                       THEN [task EXCEPT ![s] = IdleTask]
                       ELSE [task EXCEPT ![s].pc = "helloUpsert"]
          /\ UNCHANGED <<row, wire, conn, sessions, job>>
       \/ "get" \in StoreFaults /\ HandlerFails(s)
    /\ UNCHANGED <<phase, connected, helloTimer, sequence, online, queued, record, dispatchVars>>

HelloUpsert(s) ==
    /\ task[s].pc = "helloUpsert"
    /\ \/ /\ row' = [row EXCEPT ![task[s].machine] = s]
          /\ task' = [task EXCEPT ![s].pc = "helloStored"]
          /\ UNCHANGED <<wire, conn, sessions, job>>
       \/ "upsert" \in StoreFaults /\ HandlerFails(s)
    /\ UNCHANGED <<phase, connected, helloTimer, sequence, online, queued, record, dispatchVars>>

\* Variant: the replaced socket is left open.
InstallSessionKeepingOld(s, m, old, c) ==
    /\ sessions' = [sessions EXCEPT ![m] = s]
    /\ conn' = [c EXCEPT ![s].machine = m]
    /\ task' = [task EXCEPT ![s] = IdleTask]
    /\ UNCHANGED wire

\* The session becomes the machine's active one, over the session on socket
\* old (None: there is none), whose socket is closed if it is still open.
InstallSession(s, m, old, c) ==
    /\ sessions' = [sessions EXCEPT ![m] = s]
    /\ conn' = [c EXCEPT ![s].machine = m]
    /\ wire' = IF old # None /\ old # s /\ wire[old] = "open"
                 THEN [wire EXCEPT ![old] = "closing"] ELSE wire
    /\ task' = [task EXCEPT ![s] = IdleTask]

\* The continuation of store.upsert reads the session to replace, and ends its
\* connection if it is still known.  Installing the new session waits for the
\* queries that interrupt the old one's actions; without any it follows in the
\* same turn of the event loop, before another query's answer.
HelloStored(s) ==
    LET m == task[s].machine
        old == sessions[m]
        ended == IF old # None /\ old \in connected
                   THEN [conn EXCEPT ![old].reason = "replaced"] ELSE conn
    IN /\ task[s].pc = "helloStored"
       /\ helloTimer' = helloTimer \ {s}
       /\ \/ /\ old # None /\ old \in connected /\ Candidates(old) # {}
             /\ conn' = ended
             /\ job' = [job EXCEPT ![Handler(s)] = JobOn(Candidates(old), "INTERRUPTED")]
             /\ task' = [task EXCEPT ![s].pc = "helloInterrupt", ![s].replaced = old]
             /\ UNCHANGED <<sessions, wire>>
          \/ /\ old = None \/ old \notin connected \/ Candidates(old) = {}
             /\ InstallSession(s, m, old, ended)
             /\ UNCHANGED job
       /\ UNCHANGED <<phase, connected, sequence, online, row, queued, record, dispatchVars>>

HelloInstall(s) ==
    /\ task[s].pc = "helloInterrupt"
    /\ job[Handler(s)].pc = "idle"
    /\ InstallSession(s, task[s].machine, task[s].replaced, conn)
    /\ UNCHANGED <<phase, connected, helloTimer, sequence, online, row, queued, record, dispatchVars, job>>

-----------------------------------------------------------------------------
(* agent.heartbeat *)

Heartbeat(s, n) ==
    /\ TakeMessage(s)
    /\ IF ~HelloReceived(s) \/ n <= sequence[s]
         THEN RefuseMessage(s)
         ELSE /\ Suspend(s, TaskAt("beatGet", conn[s].machine, n))
              /\ UNCHANGED job

\* updateHeartbeat reads the machine row and writes it back with new telemetry.
HeartbeatRead(s) ==
    /\ task[s].pc = "beatGet"
    /\ \/ /\ row[task[s].machine] # None
          /\ task' = [task EXCEPT ![s].pc = "beatUpsert", ![s].replaced = row[task[s].machine]]
          /\ UNCHANGED <<row, wire, conn, sessions, job>>
       \/ /\ row[task[s].machine] = None \/ "get" \in StoreFaults
          /\ HandlerFails(s)
    /\ UNCHANGED <<phase, connected, helloTimer, sequence, online, queued, record, dispatchVars>>

HeartbeatUpsert(s) ==
    /\ task[s].pc = "beatUpsert"
    /\ \/ /\ row' = [row EXCEPT ![task[s].machine] = task[s].replaced]
          /\ task' = [task EXCEPT ![s].pc = "beatStored"]
          /\ UNCHANGED <<wire, conn, sessions, job>>
       \/ "upsert" \in StoreFaults /\ HandlerFails(s)
    /\ UNCHANGED <<phase, connected, helloTimer, sequence, online, queued, record, dispatchVars>>

\* Variant: the connection is not looked at again after the upsert.
HeartbeatStoredUnchecked(s) ==
    /\ task[s].pc = "beatStored"
    /\ task' = [task EXCEPT ![s] = IdleTask]
    /\ sequence' = [sequence EXCEPT ![s] = task[s].seq]
    /\ online' = [online EXCEPT ![s] = TRUE]
    /\ UNCHANGED <<phase, wire, connected, conn, helloTimer, sessions, row, queued, record, dispatchVars, job>>

\* The machine counts as heard from only if its connection was not ended meanwhile.
HeartbeatStored(s) ==
    /\ task[s].pc = "beatStored"
    /\ task' = [task EXCEPT ![s] = IdleTask]
    /\ IF Terminal(s) \/ ShuttingDown
         THEN UNCHANGED <<sequence, online>>
         ELSE /\ sequence' = [sequence EXCEPT ![s] = task[s].seq]
              /\ online' = [online EXCEPT ![s] = TRUE]
    /\ UNCHANGED <<phase, wire, connected, conn, helloTimer, sessions, row, queued, record, dispatchVars, job>>

-----------------------------------------------------------------------------
(* requestAction *)

\* Variant: only actions already dispatched count, not those being created.
BusyUnreserved(m) == \E a \in Actions : pending[a] # None /\ request[a].machine = m

Busy(m) ==
    \/ m \in reserved
    \/ \E a \in Actions : pending[a] # None /\ request[a].machine = m

\* The checks, from store.get's answer to actionReservations.add, run without
\* an await.  A request they refuse leaves no trace.
RequestAction(a, m) ==
    /\ request[a].pc = "none"
    /\ row[m] # None
    /\ sessions[m] # None /\ sessions[m] \in connected
    /\ online[sessions[m]]
    /\ ~Busy(m)
    /\ reserved' = reserved \cup {m}
    /\ request' = [request EXCEPT ![a] = [pc |-> "creating", machine |-> m,
                                          socket |-> sessions[m]]]
    /\ UNCHANGED <<phase, connectionVars, handlerVars, record, pending, timer, job>>

\* Variant: a failed create keeps its reservation.
CreateRecordLeaking(a) ==
    /\ request[a].pc = "creating"
    /\ \/ /\ record' = [record EXCEPT ![a] = "PENDING"]
          /\ request' = [request EXCEPT ![a].pc = "created"]
       \/ /\ "create" \in StoreFaults
          /\ request' = [request EXCEPT ![a].pc = "done"]
          /\ UNCHANGED record
    /\ UNCHANGED <<phase, connectionVars, handlerVars, pending, timer, reserved, job>>

\* actionStore.create.  An INSERT that fails gives the reservation back, whether
\* it left no row ("create") or took effect and only its answer was lost
\* ("lostCreate").
CreateRecord(a) ==
    /\ request[a].pc = "creating"
    /\ \/ /\ record' = [record EXCEPT ![a] = "PENDING"]
          /\ request' = [request EXCEPT ![a].pc = "created"]
          /\ UNCHANGED reserved
       \/ /\ "create" \in StoreFaults
          /\ request' = [request EXCEPT ![a].pc = "done"]
          /\ reserved' = reserved \ {request[a].machine}
          /\ UNCHANGED record
       \/ /\ "lostCreate" \in StoreFaults
          /\ record' = [record EXCEPT ![a] = "PENDING"]
          /\ request' = [request EXCEPT ![a].pc = "done"]
          /\ reserved' = reserved \ {request[a].machine}
    /\ UNCHANGED <<phase, connectionVars, handlerVars, pending, timer, job>>

\* Variant: the Hub relies on the Agent's own timeout.
DispatchUntimed(a) ==
    /\ request[a].pc = "created"
    /\ request' = [request EXCEPT ![a].pc = "done"]
    /\ pending' = [pending EXCEPT ![a] = request[a].socket]
    /\ UNCHANGED <<phase, connectionVars, handlerVars, record, timer, reserved, job>>

\* The continuation of create arms the timer and sends the request on the
\* socket captured before the await, whatever has become of its session.
Dispatch(a) ==
    /\ request[a].pc = "created"
    /\ request' = [request EXCEPT ![a].pc = "done"]
    /\ timer' = [timer EXCEPT ![a] = TRUE]
    /\ pending' = [pending EXCEPT ![a] = request[a].socket]
    /\ UNCHANGED <<phase, connectionVars, handlerVars, record, reserved, job>>

-----------------------------------------------------------------------------
(* agent.action.accepted, agent.action.result, and the Hub's own timeouts. *)

\* Variant: any connection of the machine may report.
CorrelatedByMachine(s, a) == pending[a] # None /\ request[a].machine = conn[s].machine

\* The correlation test of handleActionAccepted and handleActionResult.
Correlated(s, a) == pending[a] = s /\ request[a].machine = conn[s].machine

\* An accepted (goal RUNNING) or result message for action a.
ActionReport(s, a, goal) ==
    /\ TakeMessage(s)
    /\ IF ~HelloReceived(s) \/ ~Correlated(s, a)
         THEN RefuseMessage(s)
         ELSE /\ Suspend(s, TaskAt("report", None, 0))
              /\ job' = [job EXCEPT ![Handler(s)] = JobOn({a}, goal)]

TimerFires(a) ==
    /\ timer[a]
    /\ timer' = [timer EXCEPT ![a] = FALSE]
    /\ job' = [job EXCEPT ![Timeout(a)] = JobOn({a}, "TIMED_OUT")]
    /\ UNCHANGED <<phase, connectionVars, handlerVars, record, request, pending, reserved>>

-----------------------------------------------------------------------------
(* transitionAction and its callers' loops. *)

\* Is job j the handler of an accepted or result message?
Reporting(j) == j[1] = "handler" /\ task[j[2]].pc = "report"

\* The job after it is through with the action it is at: a report is about one
\* action, an interrupt loop goes on with its other candidates.
JobAfter(j, a) ==
    IF Reporting(j) THEN IdleJob ELSE JobOn(job[j].todo \ {a}, job[j].goal)

\* The callers' ends: a report refused rejects its connection, and anything
\* that goes wrong for a timer or an interrupt loop is swallowed.
Swallow(j, a) ==
    /\ job' = [job EXCEPT ![j] = JobAfter(j, a)]
    /\ UNCHANGED <<wire, conn, sessions, task>>

RefuseReport(j) ==
    /\ task' = [task EXCEPT ![j[2]] = IdleTask]
    /\ Reject(j[2], [job EXCEPT ![j] = IdleJob])

\* The action's status is read: by actionStore.get in the caller, and again, for
\* Postgres, by update() before it writes.  The two reads are one here: had the status
\* moved between them, the write would be as if both had read the later one.
\* A report may turn out not to fit the action (another kind, target or policy
\* revision); an acceptance has no such field.  A query that fails makes the
\* handler throw, a report's or a hello's, and its connection is rejected; in the
\* shutdown loop it is CloseFails; in a timer or a detach loop nothing catches it and Node
\* ends the process, which is not modelled here.
JobGet(j) ==
    /\ job[j].pc = "get"
    /\ \E a \in job[j].todo :
         \/ /\ IF Reporting(j) THEN ValidReport(record[a], job[j].goal)
                               ELSE record[a] \in ActiveStatuses
            /\ job' = [job EXCEPT ![j].pc = IF AtomicStore THEN "update" ELSE "write",
                                  ![j].at = a, ![j].cur = record[a]]
            /\ UNCHANGED <<wire, conn, sessions, task>>
         \/ /\ Reporting(j)
            /\ ~ValidReport(record[a], job[j].goal) \/ job[j].goal # "RUNNING"
            /\ RefuseReport(j)
         \/ /\ ~Reporting(j) /\ record[a] \notin ActiveStatuses
            /\ Swallow(j, a)
         \/ /\ "get" \in StoreFaults /\ j[1] = "handler"
            /\ RefuseReport(j)
    /\ UNCHANGED <<phase, connected, helloTimer, sequence, online, row, queued, record, dispatchVars>>

\* InMemoryMachineActionStore.update: the stored status is checked and replaced
\* in one synchronous call, some time after the caller read it.
JobUpdate(j) ==
    LET a == job[j].at IN
    /\ job[j].pc = "update"
    /\ IF ValidTransition(record[a], job[j].goal)
         THEN /\ record' = [record EXCEPT ![a] = job[j].goal]
              /\ job' = [job EXCEPT ![j].pc = "ok"]
         ELSE /\ job' = [job EXCEPT ![j].pc = "failed"]
              /\ UNCHANGED record
    /\ UNCHANGED <<phase, connectionVars, handlerVars, dispatchVars>>

\* Variant: the UPDATE is not conditional on the status read before it.
JobWriteUnconditional(j) ==
    /\ job[j].pc = "write"
    /\ record' = [record EXCEPT ![job[j].at] = job[j].goal]
    /\ job' = [job EXCEPT ![j].pc = "ok"]
    /\ UNCHANGED <<phase, connectionVars, handlerVars, dispatchVars>>

\* UPDATE machine_actions ... WHERE action_id = $1 AND status = current.status.
\* A failed query may or may not have taken effect.
JobWrite(j) ==
    LET a == job[j].at IN
    /\ job[j].pc = "write"
    /\ \/ /\ record[a] = job[j].cur
          /\ record' = [record EXCEPT ![a] = job[j].goal]
          /\ \/ job' = [job EXCEPT ![j].pc = "ok"]
             \/ "update" \in StoreFaults /\ job' = [job EXCEPT ![j].pc = "failed"]
       \/ /\ record[a] # job[j].cur \/ "update" \in StoreFaults
          /\ job' = [job EXCEPT ![j].pc = "failed"]
          /\ UNCHANGED record
    /\ UNCHANGED <<phase, connectionVars, handlerVars, dispatchVars>>

\* Variant: the reservation is forgotten.
ClearPendingKeepingReservation(a) ==
    /\ timer' = IF pending[a] # None THEN [timer EXCEPT ![a] = FALSE] ELSE timer
    /\ pending' = [pending EXCEPT ![a] = None]
    /\ UNCHANGED reserved

\* clearPendingAction: the timer, the entry and the machine's reservation go together.
ClearPending(a) ==
    IF pending[a] # None
      THEN /\ timer' = [timer EXCEPT ![a] = FALSE]
           /\ pending' = [pending EXCEPT ![a] = None]
           /\ reserved' = reserved \ {request[a].machine}
      ELSE UNCHANGED <<timer, pending, reserved>>

\* Variant: the acceptance stops the Hub's timer.
JobOkStoppingTimer(j) ==
    LET a == job[j].at IN
    /\ job[j].pc = "ok"
    /\ IF job[j].goal \in TerminalStatuses
         THEN ClearPending(a)
         ELSE /\ timer' = [timer EXCEPT ![a] = FALSE]
              /\ UNCHANGED <<pending, reserved>>
    /\ job' = [job EXCEPT ![j] = JobAfter(j, a)]
    /\ task' = IF Reporting(j) THEN [task EXCEPT ![j[2]] = IdleTask] ELSE task
    /\ UNCHANGED <<phase, connectionVars, row, queued, record, request>>

\* The continuation of a successful update.
JobOk(j) ==
    LET a == job[j].at IN
    /\ job[j].pc = "ok"
    /\ IF job[j].goal \in TerminalStatuses
         THEN ClearPending(a)
         ELSE UNCHANGED <<timer, pending, reserved>>
    /\ job' = [job EXCEPT ![j] = JobAfter(j, a)]
    /\ task' = IF Reporting(j) THEN [task EXCEPT ![j[2]] = IdleTask] ELSE task
    /\ UNCHANGED <<phase, connectionVars, row, queued, record, request>>

JobFailed(j) ==
    /\ job[j].pc = "failed"
    /\ IF Reporting(j) THEN RefuseReport(j) ELSE Swallow(j, job[j].at)
    /\ UNCHANGED <<phase, connected, helloTimer, sequence, online, row, queued, record, dispatchVars>>

-----------------------------------------------------------------------------
(* Shutdown. *)

\* close(): every connection is ended, and the actions pending now are interrupted.
Close ==
    /\ phase = "running"
    /\ phase' = "closing"
    /\ job' = [job EXCEPT ![Shutdown] = JobOn({a \in Actions : pending[a] # None}, "INTERRUPTED")]
    /\ conn' = [s \in Sockets |-> IF s \in connected
                                    THEN [machine |-> conn[s].machine, reason |-> "hub_shutdown"]
                                    ELSE conn[s]]
    /\ helloTimer' = helloTimer \ connected
    /\ wire' = [s \in Sockets |-> IF s \in connected /\ wire[s] = "open" THEN "closing" ELSE wire[s]]
    /\ UNCHANGED <<connected, sequence, online, sessions, handlerVars, record, dispatchVars>>

\* Variant: sessions and connection states outlive close().
FinishCloseKeepingSessions ==
    /\ phase = "closing"
    /\ connected = {} \/ GraceExpires
    /\ job[Shutdown].pc = "idle" \/ GraceExpires
    /\ phase' = "closed"
    /\ pending' = [a \in Actions |-> None]
    /\ reserved' = {}
    /\ UNCHANGED <<connectionVars, handlerVars, record, request, timer, job>>

\* Both waits are over, each by its event or by its grace timer.  What is left
\* is terminated and detached, and every map is cleared.
FinishClose ==
    /\ phase = "closing"
    /\ connected = {} \/ GraceExpires
    /\ job[Shutdown].pc = "idle" \/ GraceExpires
    /\ phase' = "closed"
    /\ wire' = [s \in Sockets |-> IF s \in connected /\ wire[s] = "open" THEN "closing" ELSE wire[s]]
    /\ job' = [j \in Jobs |-> IF j[1] = "detach" /\ j[2] \in connected /\ OwnsSession(j[2])
                                THEN JobOn(Candidates(j[2]), "INTERRUPTED") ELSE job[j]]
    /\ connected' = {}
    /\ sessions' = [m \in Machines |-> None]
    /\ pending' = [a \in Actions |-> None]
    /\ reserved' = {}
    /\ UNCHANGED <<conn, helloTimer, sequence, online, handlerVars, record, request, timer>>

\* A query of the interrupt loop fails: interruptAllActions rejects, its other candidates
\* are left, and close() rejects with it if it still waits, before it ends or clears anything.
CloseFails ==
    /\ "get" \in StoreFaults
    /\ job[Shutdown].pc = "get"
    /\ phase' = IF phase = "closing" THEN "failed" ELSE phase
    /\ job' = [job EXCEPT ![Shutdown] = IdleJob]
    /\ UNCHANGED <<connectionVars, handlerVars, record, dispatchVars>>

\* The process dies and is started again: the rows stay, a query that was under
\* way has taken effect or will not, and everything else is as in a new
\* MachineHub.  Nothing reads the rows of machine_actions at start-up.
Restart ==
    /\ Restarts
    /\ phase' = "running"
    /\ wire' = [s \in Sockets |-> IF wire[s] = "unused" THEN "unused" ELSE "closed"]
    /\ connected' = {}
    /\ conn' = [s \in Sockets |-> [machine |-> None, reason |-> "none"]]
    /\ helloTimer' = {}
    /\ sequence' = [s \in Sockets |-> 0]
    /\ online' = [s \in Sockets |-> FALSE]
    /\ sessions' = [m \in Machines |-> None]
    /\ queued' = [s \in Sockets |-> 0]
    /\ task' = [s \in Sockets |-> IdleTask]
    /\ request' = [a \in Actions |-> IF request[a].pc = "none" THEN request[a]
                                     ELSE [request[a] EXCEPT !.pc = "done"]]
    /\ pending' = [a \in Actions |-> None]
    /\ timer' = [a \in Actions |-> FALSE]
    /\ reserved' = {}
    /\ job' = [j \in Jobs |-> IdleJob]
    /\ UNCHANGED <<row, record>>

-----------------------------------------------------------------------------

Arrive(s) ==
    \/ Enqueue(s)
    \/ InvalidMessage(s)
    \/ \E m \in Machines : Hello(s, m)
    \/ \E n \in 1 .. MaxBeats : Heartbeat(s, n)
    \/ \E a \in Actions, goal \in Outcomes \cup {"RUNNING"} : ActionReport(s, a, goal)

Continue(s) ==
    \/ DropQueued(s)
    \/ HelloRead(s) \/ HelloUpsert(s) \/ HelloStored(s) \/ HelloInstall(s)
    \/ HeartbeatRead(s) \/ HeartbeatUpsert(s) \/ HeartbeatStored(s)

RequestStep(a) == CreateRecord(a) \/ Dispatch(a)

JobStep(j) == JobGet(j) \/ JobUpdate(j) \/ JobWrite(j) \/ JobOk(j) \/ JobFailed(j)

Next ==
    \/ \E s \in Sockets : \/ Connect(s) \/ HelloTimeout(s) \/ SocketClosed(s) \/ GoStale(s)
                          \/ Arrive(s) \/ Continue(s)
    \/ \E a \in Actions : \/ \E m \in Machines : RequestAction(a, m)
                          \/ RequestStep(a) \/ TimerFires(a)
    \/ \E j \in Jobs : JobStep(j)
    \/ Close \/ FinishClose \/ CloseFails \/ Restart

Spec == Init /\ [][Next]_vars

\* The event loop runs every continuation whose query was answered and every
\* timer that is due; the database answers every query.  Nothing makes a peer
\* connect, send or hang up, a client ask for an action, or an operator stop
\* the Hub.
Fairness ==
    /\ \A s \in Sockets : WF_vars(Continue(s)) /\ WF_vars(HelloTimeout(s))
    /\ \A a \in Actions : /\ WF_vars(RequestStep(a))
                          /\ WF_vars(TimerFires(a))
    /\ \A j \in Jobs : WF_vars(JobStep(j))
    /\ WF_vars(FinishClose)

FairSpec == Spec /\ Fairness

-----------------------------------------------------------------------------
(* Properties. *)

RequestStages == {"none", "creating", "created", "done"}
TaskStages == {"idle", "helloGet", "helloUpsert", "helloStored", "helloInterrupt",
               "beatGet", "beatUpsert", "beatStored", "report"}
JobStages == {"idle", "get", "update", "write", "ok", "failed"}

ConnType == [machine : Machines \cup {None}, reason : CloseReasons]
TaskType == [pc : TaskStages, machine : Machines \cup {None}, replaced : Sockets \cup {None},
             seq : 0 .. MaxBeats]
RequestType == [pc : RequestStages, machine : Machines \cup {None}, socket : Sockets \cup {None}]
JobType == [pc : JobStages, todo : SUBSET Actions, at : Actions \cup {None},
            goal : Statuses \cup {"ABSENT"}, cur : ActiveStatuses \cup {"ABSENT"}]
JobsOK(js) ==
    /\ js \in [Jobs -> JobType]
    /\ \A j \in Jobs : js[j].pc \in {"update", "write", "ok", "failed"} => js[j].at \in Actions

TasksOK(ts) ==
    /\ ts \in [Sockets -> TaskType]
    /\ \A s \in Sockets : ts[s].pc \notin {"idle", "report"} => ts[s].machine \in Machines

\* The type of every variable.  A query under way is for a machine or an action, and an
\* UPDATE is only ever conditional on an active status: a terminal row is not
\* even the subject of one.
TypeOK ==
    /\ phase \in {"running", "closing", "closed", "failed"}
    /\ wire \in [Sockets -> {"unused", "open", "closing", "closed"}]
    /\ connected \subseteq Sockets
    /\ conn \in [Sockets -> ConnType]
    /\ helloTimer \subseteq Sockets
    /\ sequence \in [Sockets -> 0 .. MaxBeats]
    /\ online \in [Sockets -> BOOLEAN]
    /\ sessions \in [Machines -> Sockets \cup {None}]
    /\ row \in [Machines -> Sockets \cup {None}]
    /\ queued \in [Sockets -> 0 .. MaxQueue]
    /\ TasksOK(task)
    /\ record \in [Actions -> Statuses \cup {"ABSENT"}]
    /\ request \in [Actions -> RequestType]
    /\ pending \in [Actions -> Sockets \cup {None}]
    /\ timer \in [Actions -> BOOLEAN]
    /\ reserved \subseteq Machines
    /\ JobsOK(job)

Active(a) == record[a] \in ActiveStatuses

\* "There is at most one active action per Agent": two rows of one machine are
\* never PENDING or RUNNING together, across the await between the busy check
\* and the insert, whatever disconnects, times out or shuts down meanwhile.
OneActivePerMachine ==
    \A a, b \in Actions :
        Active(a) /\ Active(b) /\ request[a].machine = request[b].machine => a = b

\* No reservation leaks: until shutdown clears the maps, a machine that
\* requestAction calls busy has a request being created or an action pending.
ReservationsBalanced ==
    phase # "closed" =>
        \A m \in reserved : \E a \in Actions :
            /\ request[a].machine = m
            /\ request[a].pc \in {"creating", "created"} \/ pending[a] # None

\* Until shutdown clears the maps, an active row is one the Hub still tracks:
\* a pendingActions entry, or a create whose continuation has yet to run.
ActiveIsTracked ==
    phase # "closed" =>
        \A a \in Actions : Active(a) => request[a].pc = "created" \/ pending[a] # None

\* A row whose action has ended is never written again, whatever report, timer,
\* interrupt or query was still under way, before and after a restart.
EndedRowsStay ==
    [][\A a \in Actions : record[a] \in TerminalStatuses => record'[a] = record[a]]_vars

\* The Hub's rows follow the documented lifecycle (see ActionLifecycle).
Lifecycle == INSTANCE ActionLifecycle
                 WITH status <- record, target <- [a \in Actions |-> request[a].machine]
FollowsLifecycle == Lifecycle!LifecycleSpec

\* An acceptance, a success, a failure or a denial is only ever recorded on
\* the word of the connection the action was sent to, and for its machine.
ReportedByAddressee ==
    [][\A a \in Actions :
         record'[a] # record[a] /\ record'[a] \in {"RUNNING", "SUCCEEDED", "FAILED", "DENIED"}
           => \E s \in Sockets : /\ task[s].pc = "report" /\ job[Handler(s)].at = a
                                 /\ request[a].socket = s
                                 /\ request[a].machine = conn[s].machine]_vars

\* A connection the Hub no longer listens to is being closed, or is about to be
\* by the hello that replaces its session: no Agent keeps an open socket whose
\* messages are all ignored.
EndedIsClosed ==
    \A s \in connected :
        Terminal(s) /\ wire[s] = "open"
          => \E t \in Sockets : task[t].pc = "helloInterrupt" /\ task[t].replaced = s

\* A heartbeat whose upsert was in flight when its connection was rejected or
\* replaced, or when shutdown began, no longer makes the machine ONLINE.
NoHeartbeatAfterEnd ==
    [][\A s \in Sockets :
         Terminal(s) \/ ShuttingDown
           => sequence'[s] <= sequence[s] /\ (online'[s] => online[s])]_vars

\* After close() has cleared the maps no action is ever requested again, even
\* if a hello still in flight then installs a session.
ClosedHubTakesNoRequest ==
    [][phase = "closed" => \A a \in Actions : request[a].pc = "none" => request'[a].pc = "none"]_vars

\* Before close() clears the maps, an active tracked action has an end ahead
\* that does not depend on its Agent: its timer, or the timeout it started.
TimeoutAhead ==
    phase # "closed" =>
        \A a \in Actions :
            pending[a] # None /\ Active(a) => timer[a] \/ a \in job[Timeout(a)].todo

\* "A terminal Agent result may have won the race": when a timeout or an
\* interrupt fails to record its outcome, the action has already ended.
SwallowedOnlyWhenEnded ==
    \A j \in Jobs :
        job[j].pc = "failed" /\ ~Reporting(j) => record[job[j].at] \in TerminalStatuses

\* "Disconnects, session replacement, and Hub shutdown mark unresolved Hub
\* actions INTERRUPTED": once close() is over and no request is in flight,
\* Fastify's onClose hooks end the database pool, and no action is left
\* PENDING or RUNNING then.
PoolEnds == phase = "closed" /\ \A a \in Actions : request[a].pc \notin {"creating", "created"}
ShutdownResolvesActions == PoolEnds => \A a \in Actions : ~Active(a)

\* "Rejected protocol connections are terminal": a rejected connection does
\* not become, or stay, its machine's active session.
RejectedIsNotLive ==
    \A m \in Machines, s \in Sockets : sessions[m] = s => conn[s].reason # "rejected"

\* A hello replaces the machine's previous session: two open connections that
\* the Hub still listens to never belong to one machine.
OneLiveConnection ==
    \A s, t \in connected :
        /\ HelloReceived(s) /\ conn[s].machine = conn[t].machine
        /\ ~Terminal(s) /\ ~Terminal(t)
        => s = t

\* Every action ends, by its Agent's word, a disconnect or the Hub's own timer.
ActionsEnd ==
    \A a \in Actions : Active(a) ~> ~Active(a)

\* A machine does not stay busy for ever.
ReservationsEnd == \A m \in Machines : m \in reserved ~> m \notin reserved

\* An open connection that never says hello is not kept.
SilentConnectionsEnd ==
    \A s \in Sockets : wire[s] = "open" /\ ~HelloReceived(s)
                         ~> wire[s] # "open" \/ HelloReceived(s)

-----------------------------------------------------------------------------
(* The inductive invariant behind the theorems of MachineHubSafety_proofs. *)

\* What a request's stage says of its row and of pendingActions.
RequestsOK ==
    \A a \in Actions :
        /\ request[a].pc \in {"none", "creating"} => record[a] = "ABSENT"
        /\ request[a].pc # "done" => pending[a] = None
        /\ IF request[a].pc = "none"
             THEN request[a].machine = None
             ELSE request[a].machine \in Machines /\ request[a].socket \in Sockets

\* What a job's stage says of the row it is at: a write is only ever issued for
\* a valid transition, and what a job has read, written or seen fail stays so.
SoundJob(j) ==
    /\ job[j].pc # "idle" /\ ~Reporting(j) => job[j].goal \in {"TIMED_OUT", "INTERRUPTED"}
    /\ job[j].pc = "write" => ~AtomicStore /\ ValidTransition(job[j].cur, job[j].goal)
    /\ job[j].pc \in {"update", "write", "ok", "failed"} => record[job[j].at] # "ABSENT"
    /\ job[j].pc = "ok" /\ job[j].goal \in TerminalStatuses
         => record[job[j].at] \in TerminalStatuses
    /\ AtomicStore /\ job[j].pc = "failed" /\ ~Reporting(j)
         => record[job[j].at] \in TerminalStatuses

JobsSound == \A j \in Jobs : SoundJob(j)

\* After close() no connection is left that a request could be sent to.
ClosedForgets == phase = "closed" => connected = {}

\* Holds in every configuration.
HubInv == TypeOK /\ RequestsOK /\ JobsSound /\ ReservationsBalanced /\ ClosedForgets

\* An action that is being created, active or pending holds its machine.
Held(a) == Active(a) \/ request[a].pc \in {"creating", "created"} \/ pending[a] # None

\* The reservation a held machine has, until shutdown clears them all.
HeldIsReserved ==
    phase # "closed" =>
        \A a \in Actions : Held(a) => request[a].machine \in reserved

HeldAlone ==
    \A a, b \in Actions :
        Held(a) /\ Held(b) /\ request[a].machine = request[b].machine => a = b

\* No row is left behind by an INSERT whose answer was lost, or by a restart.
NothingLost == "lostCreate" \notin StoreFaults /\ ~Restarts

\* Holds when nothing is lost.
ReservationInv == HeldIsReserved /\ HeldAlone /\ ActiveIsTracked
=============================================================================
