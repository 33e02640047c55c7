----------------------- MODULE MachineHubSafety_proofs -----------------------
(***************************************************************************)
(* Type correctness and the safety properties of the Hub, for every set of *)
(* machines, connections and actions, either action store and any failing  *)
(* store calls: TypeOK, HubInv and ReservationInv are inductive, and what  *)
(* the Hub promises about machine_actions follows from them.               *)
(***************************************************************************)
EXTENDS MachineHub, TLAPS

-----------------------------------------------------------------------------
(* Jobs. *)

\* The members of Jobs, and what a job's kind says about it.
LEMMA JobsMembers ==
    /\ \A s \in Sockets : Handler(s) \in Jobs /\ Detach(s) \in Jobs
    /\ \A a \in Actions : Timeout(a) \in Jobs
    /\ Shutdown \in Jobs
    /\ \A j \in Jobs : j[1] \in {"handler", "detach"} => j[2] \in Sockets
BY DEF Jobs, Handler, Detach, Timeout, Shutdown

\* A job just started or finished is well typed, and is at no action yet.
LEMMA JobOnType ==
    ASSUME NEW as \in SUBSET Actions, NEW goal \in Statuses \cup {"ABSENT"}
    PROVE  /\ JobOn(as, goal) \in JobType
           /\ JobOn(as, goal).pc \in {"idle", "get"}
           /\ IdleJob \in JobType
           /\ IdleJob.pc = "idle"
BY DEF JobOn, IdleJob, JobType, JobStages, Statuses, ActiveStatuses, TerminalStatuses

\* Replacing one job by one that is at no action keeps the jobs well typed.
LEMMA JobsOKExcept ==
    ASSUME NEW js, JobsOK(js), NEW j \in Jobs, NEW r \in JobType, r.pc \in {"idle", "get"}
    PROVE  JobsOK([js EXCEPT ![j] = r])
BY DEF JobsOK

LEMMA JobsAfterDetachOK ==
    ASSUME NEW js, JobsOK(js), NEW s \in Sockets
    PROVE  JobsOK(JobsAfterDetach(js, s))
<1>1. Candidates(s) \in SUBSET Actions /\ "INTERRUPTED" \in Statuses
  BY DEF Candidates, Statuses, TerminalStatuses
<1>2. /\ JobOn(Candidates(s), "INTERRUPTED") \in JobType
      /\ JobOn(Candidates(s), "INTERRUPTED").pc \in {"idle", "get"}
  BY <1>1, JobOnType
<1>. QED
  BY <1>2, JobsMembers, JobsOKExcept DEF JobsAfterDetach

LEMMA JobAfterType ==
    ASSUME TypeOK, NEW j \in Jobs, NEW a
    PROVE  JobAfter(j, a) \in JobType /\ JobAfter(j, a).pc \in {"idle", "get"}
<1>1. job[j].todo \ {a} \in SUBSET Actions /\ job[j].goal \in Statuses \cup {"ABSENT"}
  BY DEF TypeOK, JobsOK, JobType
<1>2. JobOn(job[j].todo \ {a}, job[j].goal) \in JobType
      /\ JobOn(job[j].todo \ {a}, job[j].goal).pc \in {"idle", "get"}
      /\ IdleJob \in JobType /\ IdleJob.pc = "idle"
  BY <1>1, JobOnType
<1>. QED
  BY <1>2 DEF JobAfter

-----------------------------------------------------------------------------
(* Type correctness. *)

LEMMA RejectType ==
    ASSUME TypeOK, NEW s \in Sockets, NEW js, JobsOK(js), Reject(s, js)
    PROVE  /\ conn' \in [Sockets -> ConnType]
           /\ sessions' \in [Machines -> Sockets \cup {None}]
           /\ wire' \in [Sockets -> {"unused", "open", "closing", "closed"}]
           /\ JobsOK(job')
<1>1. CASE s \in connected /\ ~Terminal(s)
  <2>1. conn' \in [Sockets -> ConnType]
    <3>1. conn \in [Sockets -> ConnType] /\ conn' = [conn EXCEPT ![s].reason = "rejected"]
      BY <1>1 DEF Reject, TypeOK
    <3>. QED
      BY <3>1 DEF ConnType, CloseReasons
  <2>2. sessions' \in [Machines -> Sockets \cup {None}]
    BY <1>1 DEF Reject, TypeOK, SessionsWithout
  <2>3. wire' \in [Sockets -> {"unused", "open", "closing", "closed"}]
    BY <1>1 DEF Reject, TypeOK
  <2>4. JobsOK(job')
    BY <1>1, JobsAfterDetachOK DEF Reject
  <2>. QED
    BY <2>1, <2>2, <2>3, <2>4
<1>2. CASE ~(s \in connected /\ ~Terminal(s))
  BY <1>2 DEF Reject, TypeOK
<1>. QED
  BY <1>1, <1>2

LEMMA InitType == Init => TypeOK
<1>. SUFFICES ASSUME Init PROVE TypeOK
  OBVIOUS
<1>1. IdleJob \in JobType /\ IdleJob.pc = "idle"
  BY DEF IdleJob, JobType, JobStages
<1>2. IdleTask \in TaskType
  BY BoundAssumption DEF IdleTask, TaskAt, TaskType, TaskStages
<1>3. JobsOK(job)
  BY <1>1 DEF Init, JobsOK
<1>4. TasksOK(task)
  BY <1>2 DEF Init, TasksOK, IdleTask, TaskAt
<1>. QED
  BY <1>2, <1>3, <1>4, BoundAssumption
  DEF Init, TypeOK, ConnType, CloseReasons, RequestType, RequestStages

LEMMA TakeMessageType ==
    ASSUME TypeOK, NEW s \in Sockets, TakeMessage(s)
    PROVE  queued' \in [Sockets -> 0 .. MaxQueue]
BY BoundAssumption DEF TypeOK, TakeMessage

\* A message refused leaves everything well typed.
LEMMA RefuseMessageType ==
    ASSUME TypeOK, NEW s \in Sockets, TakeMessage(s), RefuseMessage(s)
    PROVE  TypeOK'
<1>1. /\ conn' \in [Sockets -> ConnType]
      /\ sessions' \in [Machines -> Sockets \cup {None}]
      /\ wire' \in [Sockets -> {"unused", "open", "closing", "closed"}]
      /\ JobsOK(job')
  BY RejectType DEF RefuseMessage, TypeOK
<1>. QED
  BY <1>1, TakeMessageType DEF RefuseMessage, TypeOK, dispatchVars

\* A handler that suspends leaves everything well typed.
LEMMA SuspendType ==
    ASSUME TypeOK, NEW s \in Sockets, TakeMessage(s), NEW t \in TaskType, Suspend(s, t),
           t.pc \notin {"idle", "report"} => t.machine \in Machines, JobsOK(job')
    PROVE  TypeOK'
<1>1. TasksOK(task')
  BY DEF Suspend, TypeOK, TasksOK
<1>. QED
  BY <1>1, TakeMessageType DEF Suspend, TypeOK, connectionVars, dispatchVars

LEMMA ConnectionTypes ==
    ASSUME TypeOK, NEW s \in Sockets,
           Connect(s) \/ HelloTimeout(s) \/ SocketClosed(s) \/ GoStale(s)
    PROVE  TypeOK'
<1>1. CASE Connect(s)
  BY <1>1 DEF Connect, TypeOK, handlerVars, dispatchVars
<1>2. CASE HelloTimeout(s)
  <2>1. /\ conn' \in [Sockets -> ConnType]
        /\ sessions' \in [Machines -> Sockets \cup {None}]
        /\ wire' \in [Sockets -> {"unused", "open", "closing", "closed"}]
        /\ JobsOK(job')
    BY <1>2, RejectType DEF HelloTimeout, TypeOK
  <2>. QED
    BY <1>2, <2>1 DEF HelloTimeout, TypeOK, handlerVars, dispatchVars
<1>3. CASE SocketClosed(s)
  <2>1. JobsOK(job')
    BY <1>3, JobsAfterDetachOK DEF SocketClosed, TypeOK
  <2>2. sessions' \in [Machines -> Sockets \cup {None}]
    BY <1>3 DEF SocketClosed, SessionsWithout, TypeOK
  <2>. QED
    BY <1>3, <2>1, <2>2 DEF SocketClosed, TypeOK, ConnType, handlerVars, dispatchVars
<1>4. CASE GoStale(s)
  BY <1>4 DEF GoStale, TypeOK, handlerVars, dispatchVars
<1>. QED
  BY <1>1, <1>2, <1>3, <1>4

LEMMA ArriveType ==
    ASSUME TypeOK, NEW s \in Sockets, Arrive(s)
    PROVE  TypeOK'
<1>1. CASE Enqueue(s)
  BY <1>1, BoundAssumption DEF Enqueue, TypeOK, connectionVars, dispatchVars
<1>2. CASE InvalidMessage(s)
  BY <1>2, RefuseMessageType DEF InvalidMessage
<1>3. ASSUME NEW m \in Machines, Hello(s, m)
      PROVE  TypeOK'
  <2>1. /\ TaskAt("helloGet", m, 0) \in TaskType
        /\ TaskAt("helloGet", m, 0).machine \in Machines
    BY BoundAssumption DEF TaskAt, TaskType, TaskStages
  <2>. QED
    BY <1>3, <2>1, RefuseMessageType, SuspendType DEF Hello, TypeOK
<1>4. ASSUME NEW n \in 1 .. MaxBeats, Heartbeat(s, n)
      PROVE  TypeOK'
  <2>1. CASE ~HelloReceived(s) \/ n <= sequence[s]
    BY <1>4, <2>1, RefuseMessageType DEF Heartbeat
  <2>2. CASE ~(~HelloReceived(s) \/ n <= sequence[s])
    <3>1. conn[s].machine \in Machines
      BY <2>2 DEF HelloReceived, TypeOK, ConnType
    <3>2. /\ TaskAt("beatGet", conn[s].machine, n) \in TaskType
          /\ TaskAt("beatGet", conn[s].machine, n).machine \in Machines
      BY <3>1, BoundAssumption DEF TaskAt, TaskType, TaskStages
    <3>. QED
      BY <1>4, <2>2, <3>2, SuspendType DEF Heartbeat, TypeOK
  <2>. QED
    BY <2>1, <2>2
<1>5. ASSUME NEW a \in Actions, NEW goal \in Outcomes \cup {"RUNNING"}, ActionReport(s, a, goal)
      PROVE  TypeOK'
  <2>1. TaskAt("report", None, 0) \in TaskType /\ TaskAt("report", None, 0).pc = "report"
    BY BoundAssumption DEF TaskAt, TaskType, TaskStages
  <2>2. goal \in Statuses
    BY StoreAssumption DEF Statuses, ActiveStatuses, TerminalStatuses
  <2>3. JobOn({a}, goal) \in JobType /\ JobOn({a}, goal).pc \in {"idle", "get"}
    BY <2>2, JobOnType
  <2>4. JobsOK([job EXCEPT ![Handler(s)] = JobOn({a}, goal)])
    BY <2>3, JobsOKExcept, JobsMembers DEF TypeOK
  <2>. QED
    BY <1>5, <2>1, <2>4, RefuseMessageType, SuspendType DEF ActionReport
<1>. QED
  BY <1>1, <1>2, <1>3, <1>4, <1>5 DEF Arrive

\* What the steps of a handler do to the tasks.
LEMMA TasksOKExcept ==
    ASSUME TypeOK, NEW s \in Sockets
    PROVE  /\ TasksOK([task EXCEPT ![s] = IdleTask])
           /\ \A pc \in TaskStages :
                task[s].machine \in Machines => TasksOK([task EXCEPT ![s].pc = pc])
           /\ \A pc \in TaskStages, x \in Sockets \cup {None} :
                task[s].machine \in Machines
                  => TasksOK([task EXCEPT ![s].pc = pc, ![s].replaced = x])
<1>1. IdleTask \in TaskType /\ IdleTask.pc = "idle"
  BY BoundAssumption DEF IdleTask, TaskAt, TaskType, TaskStages
<1>2. TasksOK(task)
  BY DEF TypeOK
<1>3. TasksOK([task EXCEPT ![s] = IdleTask])
  BY <1>1, <1>2 DEF TasksOK
<1>4. ASSUME NEW pc \in TaskStages, task[s].machine \in Machines
      PROVE  TasksOK([task EXCEPT ![s].pc = pc])
  BY <1>2, <1>4 DEF TasksOK, TaskType
<1>5. ASSUME NEW pc \in TaskStages, NEW x \in Sockets \cup {None}, task[s].machine \in Machines
      PROVE  TasksOK([task EXCEPT ![s].pc = pc, ![s].replaced = x])
  <2>. DEFINE t == [task EXCEPT ![s].pc = pc]
  <2>1. TasksOK(t) /\ t[s].machine \in Machines
    BY <1>2, <1>4, <1>5 DEF TasksOK, TaskType
  <2>2. [task EXCEPT ![s].pc = pc, ![s].replaced = x] = [t EXCEPT ![s].replaced = x]
    OBVIOUS
  <2>3. TasksOK([t EXCEPT ![s].replaced = x])
    <3>. HIDE DEF t
    <3>. QED
      BY <2>1 DEF TasksOK, TaskType
  <2>. QED
    BY <2>2, <2>3
<1>. QED
  BY <1>3, <1>4, <1>5

LEMMA InstallSessionType ==
    ASSUME TypeOK, NEW s \in Sockets, NEW m \in Machines, NEW old, NEW c \in [Sockets -> ConnType],
           InstallSession(s, m, old, c)
    PROVE  /\ sessions' \in [Machines -> Sockets \cup {None}]
           /\ conn' \in [Sockets -> ConnType]
           /\ wire' \in [Sockets -> {"unused", "open", "closing", "closed"}]
           /\ TasksOK(task')
<1>1. conn' \in [Sockets -> ConnType]
  BY DEF InstallSession, ConnType
<1>2. TasksOK(task')
  BY TasksOKExcept DEF InstallSession
<1>. QED
  BY <1>1, <1>2 DEF InstallSession, TypeOK

LEMMA HelloType ==
    ASSUME TypeOK, NEW s \in Sockets,
           DropQueued(s) \/ HelloRead(s) \/ HelloUpsert(s) \/ HelloStored(s) \/ HelloInstall(s)
    PROVE  TypeOK'
<1>1. CASE DropQueued(s)
  BY <1>1, BoundAssumption DEF DropQueued, TypeOK, connectionVars, dispatchVars
<1>2. CASE HelloRead(s)
  <2>1. task[s].machine \in Machines /\ "helloUpsert" \in TaskStages
    BY <1>2 DEF HelloRead, TypeOK, TasksOK, TaskStages
  <2>2. TasksOK(task')
    BY <1>2, <2>1, TasksOKExcept DEF HelloRead, HandlerFails
  <2>3. /\ conn' \in [Sockets -> ConnType]
        /\ sessions' \in [Machines -> Sockets \cup {None}]
        /\ wire' \in [Sockets -> {"unused", "open", "closing", "closed"}]
        /\ JobsOK(job') /\ row' = row
    BY <1>2, RejectType DEF HelloRead, HandlerFails, TypeOK
  <2>. QED
    BY <1>2, <2>2, <2>3 DEF HelloRead, TypeOK, dispatchVars
<1>3. CASE HelloUpsert(s)
  <2>1. task[s].machine \in Machines /\ "helloStored" \in TaskStages
    BY <1>3 DEF HelloUpsert, TypeOK, TasksOK, TaskStages
  <2>2. TasksOK(task')
    BY <1>3, <2>1, TasksOKExcept DEF HelloUpsert, HandlerFails
  <2>3. row' \in [Machines -> Sockets \cup {None}]
    BY <1>3 DEF HelloUpsert, HandlerFails, TypeOK
  <2>4. /\ conn' \in [Sockets -> ConnType]
        /\ sessions' \in [Machines -> Sockets \cup {None}]
        /\ wire' \in [Sockets -> {"unused", "open", "closing", "closed"}]
        /\ JobsOK(job')
    BY <1>3, RejectType DEF HelloUpsert, HandlerFails, TypeOK
  <2>. QED
    BY <1>3, <2>2, <2>3, <2>4 DEF HelloUpsert, TypeOK, dispatchVars
<1>4. CASE HelloStored(s)
  <2>. DEFINE m == task[s].machine
              old == sessions[m]
              ended == IF old # None /\ old \in connected
                         THEN [conn EXCEPT ![old].reason = "replaced"] ELSE conn
  <2>1. m \in Machines /\ "helloInterrupt" \in TaskStages
    BY <1>4 DEF HelloStored, TypeOK, TasksOK, TaskStages
  <2>2. conn \in [Sockets -> ConnType] /\ connected \subseteq Sockets /\ JobsOK(job)
    BY DEF TypeOK
  <2>3. ended \in [Sockets -> ConnType]
    BY <2>2 DEF ConnType, CloseReasons
  <2>4. CASE /\ old # None /\ old \in connected
             /\ conn' = ended
             /\ job' = [job EXCEPT ![Handler(s)] = JobOn(Candidates(old), "INTERRUPTED")]
             /\ task' = [task EXCEPT ![s].pc = "helloInterrupt", ![s].replaced = old]
             /\ UNCHANGED <<sessions, wire>>
    <3>1. Candidates(old) \in SUBSET Actions /\ "INTERRUPTED" \in Statuses
      BY DEF Candidates, Statuses, TerminalStatuses
    <3>2. JobsOK(job')
      BY <2>2, <2>4, <3>1, JobOnType, JobsOKExcept, JobsMembers
    <3>3. TasksOK(task')
      BY <2>1, <2>2, <2>4, TasksOKExcept
    <3>. QED
      BY <1>4, <2>3, <2>4, <3>2, <3>3 DEF HelloStored, TypeOK, dispatchVars
  <2>5. CASE InstallSession(s, m, old, ended) /\ UNCHANGED job
    <3>1. /\ sessions' \in [Machines -> Sockets \cup {None}]
          /\ conn' \in [Sockets -> ConnType]
          /\ wire' \in [Sockets -> {"unused", "open", "closing", "closed"}]
          /\ TasksOK(task')
      BY <2>1, <2>3, <2>5, InstallSessionType
    <3>. QED
      BY <1>4, <2>5, <3>1 DEF HelloStored, TypeOK, dispatchVars
  <2>. QED
    BY <1>4, <2>4, <2>5 DEF HelloStored
<1>5. CASE HelloInstall(s)
  <2>1. task[s].machine \in Machines /\ conn \in [Sockets -> ConnType]
    BY <1>5 DEF HelloInstall, TypeOK, TasksOK
  <2>2. /\ sessions' \in [Machines -> Sockets \cup {None}]
        /\ conn' \in [Sockets -> ConnType]
        /\ wire' \in [Sockets -> {"unused", "open", "closing", "closed"}]
        /\ TasksOK(task')
    BY <1>5, <2>1, InstallSessionType DEF HelloInstall
  <2>. QED
    BY <1>5, <2>2 DEF HelloInstall, TypeOK, dispatchVars
<1>. QED
  BY <1>1, <1>2, <1>3, <1>4, <1>5
LEMMA HeartbeatType ==
    ASSUME TypeOK, NEW s \in Sockets,
           HeartbeatRead(s) \/ HeartbeatUpsert(s) \/ HeartbeatStored(s)
    PROVE  TypeOK'
<1>1. CASE HeartbeatRead(s)
  <2>1. task[s].machine \in Machines /\ "beatUpsert" \in TaskStages
    BY <1>1 DEF HeartbeatRead, TypeOK, TasksOK, TaskStages
  <2>2. row[task[s].machine] \in Sockets \cup {None}
    BY <2>1 DEF TypeOK
  <2>3. TasksOK(task')
    <3>1. /\ TasksOK([task EXCEPT ![s] = IdleTask])
          /\ TasksOK([task EXCEPT ![s].pc = "beatUpsert", ![s].replaced = row[task[s].machine]])
      BY <2>1, <2>2, TasksOKExcept
    <3>. QED
      BY <1>1, <3>1 DEF HeartbeatRead, HandlerFails
  <2>4. /\ conn' \in [Sockets -> ConnType]
        /\ sessions' \in [Machines -> Sockets \cup {None}]
        /\ wire' \in [Sockets -> {"unused", "open", "closing", "closed"}]
        /\ JobsOK(job') /\ row' = row
    BY <1>1, RejectType DEF HeartbeatRead, HandlerFails, TypeOK
  <2>. QED
    BY <1>1, <2>3, <2>4 DEF HeartbeatRead, TypeOK, dispatchVars
<1>2. CASE HeartbeatUpsert(s)
  <2>1. task[s].machine \in Machines /\ "beatStored" \in TaskStages
    BY <1>2 DEF HeartbeatUpsert, TypeOK, TasksOK, TaskStages
  <2>2. TasksOK(task')
    BY <1>2, <2>1, TasksOKExcept DEF HeartbeatUpsert, HandlerFails
  <2>3. task[s].replaced \in Sockets \cup {None}
    BY DEF TypeOK, TasksOK, TaskType
  <2>4. row' \in [Machines -> Sockets \cup {None}]
    BY <1>2, <2>3 DEF HeartbeatUpsert, HandlerFails, TypeOK
  <2>5. /\ conn' \in [Sockets -> ConnType]
        /\ sessions' \in [Machines -> Sockets \cup {None}]
        /\ wire' \in [Sockets -> {"unused", "open", "closing", "closed"}]
        /\ JobsOK(job')
    BY <1>2, RejectType DEF HeartbeatUpsert, HandlerFails, TypeOK
  <2>. QED
    BY <1>2, <2>2, <2>4, <2>5 DEF HeartbeatUpsert, HandlerFails, TypeOK, dispatchVars
<1>3. CASE HeartbeatStored(s)
  <2>1. TasksOK(task')
    BY <1>3, TasksOKExcept DEF HeartbeatStored
  <2>2. task[s].seq \in 0 .. MaxBeats
    BY DEF TypeOK, TasksOK, TaskType
  <2>3. sequence' \in [Sockets -> 0 .. MaxBeats] /\ online' \in [Sockets -> BOOLEAN]
    BY <1>3, <2>2 DEF HeartbeatStored, TypeOK
  <2>. QED
    BY <1>3, <2>1, <2>3 DEF HeartbeatStored, TypeOK, dispatchVars
<1>. QED
  BY <1>1, <1>2, <1>3

LEMMA DispatchTypes ==
    ASSUME TypeOK, NEW a \in Actions,
           \/ \E m \in Machines : RequestAction(a, m)
           \/ CreateRecord(a) \/ Dispatch(a) \/ TimerFires(a)
    PROVE  TypeOK'
<1>1. request \in [Actions -> RequestType] /\ reserved \subseteq Machines
  BY DEF TypeOK
<1>2. ASSUME NEW pc \in RequestStages
      PROVE  [request EXCEPT ![a].pc = pc] \in [Actions -> RequestType]
  BY <1>1, <1>2 DEF RequestType
<1>3. "created" \in RequestStages /\ "done" \in RequestStages
  BY DEF RequestStages
<1>4. ASSUME NEW m \in Machines, RequestAction(a, m)
      PROVE  TypeOK'
  <2>1. sessions[m] \in Sockets \cup {None}
    BY DEF TypeOK
  <2>2. [pc |-> "creating", machine |-> m, socket |-> sessions[m]] \in RequestType
    BY <2>1 DEF RequestType, RequestStages
  <2>3. request' \in [Actions -> RequestType] /\ reserved' \subseteq Machines
    BY <1>1, <1>4, <2>2 DEF RequestAction
  <2>. QED
    BY <1>4, <2>3 DEF RequestAction, TypeOK, connectionVars, handlerVars
<1>5. CASE CreateRecord(a)
  <2>1. request' \in [Actions -> RequestType] /\ reserved' \subseteq Machines
    BY <1>1, <1>2, <1>3, <1>5 DEF CreateRecord
  <2>2. record' \in [Actions -> Statuses \cup {"ABSENT"}]
    BY <1>5 DEF CreateRecord, TypeOK, Statuses, ActiveStatuses
  <2>. QED
    BY <1>5, <2>1, <2>2 DEF CreateRecord, TypeOK, connectionVars, handlerVars
<1>6. CASE Dispatch(a)
  <2>1. request' \in [Actions -> RequestType] /\ request[a].socket \in Sockets \cup {None}
    BY <1>1, <1>2, <1>3, <1>6 DEF Dispatch, RequestType
  <2>2. pending' \in [Actions -> Sockets \cup {None}] /\ timer' \in [Actions -> BOOLEAN]
    BY <1>6, <2>1 DEF Dispatch, TypeOK
  <2>. QED
    BY <1>6, <2>1, <2>2 DEF Dispatch, TypeOK, connectionVars, handlerVars
<1>7. CASE TimerFires(a)
  <2>1. {a} \in SUBSET Actions /\ "TIMED_OUT" \in Statuses
    BY DEF Statuses, TerminalStatuses
  <2>2. JobsOK(job')
    BY <1>7, <2>1, JobOnType, JobsOKExcept, JobsMembers DEF TimerFires, TypeOK
  <2>3. timer' \in [Actions -> BOOLEAN]
    BY <1>7 DEF TimerFires, TypeOK
  <2>. QED
    BY <1>7, <2>2, <2>3 DEF TimerFires, TypeOK, connectionVars, handlerVars
<1>. QED
  BY <1>4, <1>5, <1>6, <1>7

-----------------------------------------------------------------------------
(* Steps of a job. *)

LEMMA RefuseReportType ==
    ASSUME TypeOK, NEW j \in Jobs, j[1] = "handler", RefuseReport(j)
    PROVE  /\ conn' \in [Sockets -> ConnType]
           /\ sessions' \in [Machines -> Sockets \cup {None}]
           /\ wire' \in [Sockets -> {"unused", "open", "closing", "closed"}]
           /\ JobsOK(job')
           /\ TasksOK(task')
<1>1. j[2] \in Sockets
  BY JobsMembers
<1>2. IdleJob \in JobType /\ IdleJob.pc \in {"idle", "get"}
  BY DEF IdleJob, JobType, JobStages
<1>3. JobsOK([job EXCEPT ![j] = IdleJob])
  BY <1>2, JobsOKExcept DEF TypeOK
<1>4. TasksOK(task')
  BY <1>1, TasksOKExcept DEF RefuseReport
<1>. QED
  BY <1>1, <1>3, <1>4, RejectType DEF RefuseReport

LEMMA SwallowType ==
    ASSUME TypeOK, NEW j \in Jobs, NEW a, Swallow(j, a)
    PROVE  /\ conn' \in [Sockets -> ConnType]
           /\ sessions' \in [Machines -> Sockets \cup {None}]
           /\ wire' \in [Sockets -> {"unused", "open", "closing", "closed"}]
           /\ JobsOK(job')
           /\ TasksOK(task')
<1>1. JobsOK(job')
  BY JobAfterType, JobsOKExcept DEF Swallow, TypeOK
<1>. QED
  BY <1>1 DEF Swallow, TypeOK

\* A job that moves on with the action it is at stays well typed.
LEMMA JobMovesType ==
    ASSUME TypeOK, NEW j \in Jobs, NEW pc \in JobStages, job[j].at \in Actions
    PROVE  JobsOK([job EXCEPT ![j].pc = pc])
<1>1. JobsOK(job)
  BY DEF TypeOK
<1>. QED
  BY <1>1 DEF JobsOK, JobType

LEMMA JobGetType ==
    ASSUME TypeOK, NEW j \in Jobs, JobGet(j)
    PROVE  TypeOK'
<1>1. ASSUME NEW a \in job[j].todo,
             IF Reporting(j) THEN ValidReport(record[a], job[j].goal)
                             ELSE record[a] \in ActiveStatuses,
             job' = [job EXCEPT ![j].pc = IF AtomicStore THEN "update" ELSE "write",
                                ![j].at = a, ![j].cur = record[a]],
             UNCHANGED <<wire, conn, sessions, task>>
      PROVE  TypeOK'
  <2>1. record[a] \in ActiveStatuses
    BY <1>1 DEF ValidReport, ActiveStatuses
  <2>2. JobsOK(job) /\ a \in Actions
    BY <1>1 DEF TypeOK, JobsOK, JobType
  <2>. DEFINE pc == IF AtomicStore THEN "update" ELSE "write"
              r == [job[j] EXCEPT !.pc = pc, !.at = a, !.cur = record[a]]
  <2>3. job[j] \in JobType /\ pc \in JobStages
    BY <2>2 DEF JobsOK, JobStages
  <2>4. r \in JobType /\ r.at \in Actions
    BY <2>1, <2>2, <2>3 DEF JobType
  <2>5. job' = [job EXCEPT ![j] = r]
    BY <1>1, <2>2, <2>3 DEF JobsOK
  <2>6. JobsOK(job')
    <3>. HIDE DEF r
    <3>. QED
      BY <2>2, <2>4, <2>5 DEF JobsOK
  <2>. QED
    BY <1>1, <2>6 DEF JobGet, TypeOK, dispatchVars
<1>2. CASE j[1] = "handler" /\ RefuseReport(j)
  BY <1>2, RefuseReportType DEF JobGet, TypeOK, dispatchVars
<1>3. ASSUME NEW a \in job[j].todo, Swallow(j, a)
      PROVE  TypeOK'
  BY <1>3, SwallowType DEF JobGet, TypeOK, dispatchVars
<1>4. Reporting(j) => j[1] = "handler"
  BY DEF Reporting
<1>. QED
  BY <1>1, <1>2, <1>3, <1>4 DEF JobGet

LEMMA JobStepType ==
    ASSUME TypeOK, NEW j \in Jobs, JobStep(j)
    PROVE  TypeOK'
<1>1. JobsOK(job) /\ record \in [Actions -> Statuses \cup {"ABSENT"}]
  BY DEF TypeOK
<1>2. /\ job[j].pc \in {"update", "write", "ok", "failed"} => job[j].at \in Actions
      /\ job[j].goal \in Statuses \cup {"ABSENT"}
  BY <1>1 DEF JobsOK, JobType
<1>3. "ok" \in JobStages /\ "failed" \in JobStages
  BY DEF JobStages
<1>4. CASE JobUpdate(j)
  <2>1. JobsOK(job')
    BY <1>2, <1>3, <1>4, JobMovesType DEF JobUpdate
  <2>2. record' \in [Actions -> Statuses \cup {"ABSENT"}]
    BY <1>1, <1>2, <1>4 DEF JobUpdate
  <2>. QED
    BY <1>4, <2>1, <2>2 DEF JobUpdate, TypeOK, connectionVars, handlerVars, dispatchVars
<1>5. CASE JobWrite(j)
  <2>1. JobsOK(job')
    BY <1>2, <1>3, <1>5, JobMovesType DEF JobWrite
  <2>2. record' \in [Actions -> Statuses \cup {"ABSENT"}]
    BY <1>1, <1>2, <1>5 DEF JobWrite
  <2>. QED
    BY <1>5, <2>1, <2>2 DEF JobWrite, TypeOK, connectionVars, handlerVars, dispatchVars
<1>6. CASE JobOk(j)
  <2>1. JobsOK(job')
    BY <1>6, JobAfterType, JobsOKExcept DEF JobOk, TypeOK
  <2>2. TasksOK(task')
    BY <1>6, JobsMembers, TasksOKExcept DEF JobOk, Reporting, TypeOK
  <2>3. /\ timer' \in [Actions -> BOOLEAN]
        /\ pending' \in [Actions -> Sockets \cup {None}]
        /\ reserved' \subseteq Machines
    BY <1>6 DEF JobOk, ClearPending, TypeOK
  <2>. QED
    BY <1>6, <2>1, <2>2, <2>3 DEF JobOk, TypeOK, connectionVars
<1>7. CASE JobFailed(j)
  <2>1. CASE Reporting(j)
    BY <1>7, <2>1, RefuseReportType DEF JobFailed, Reporting, TypeOK, dispatchVars
  <2>2. CASE ~Reporting(j)
    BY <1>7, <2>2, SwallowType DEF JobFailed, TypeOK, dispatchVars
  <2>. QED
    BY <2>1, <2>2
<1>. QED
  BY <1>4, <1>5, <1>6, <1>7, JobGetType DEF JobStep

-----------------------------------------------------------------------------
(* Shutdown, and the theorem. *)

LEMMA ShutdownType ==
    ASSUME TypeOK, Close \/ FinishClose \/ CloseFails
    PROVE  TypeOK'
<1>1. "INTERRUPTED" \in Statuses
  BY DEF Statuses, TerminalStatuses
<1>2. CASE Close
  <2>1. {a \in Actions : pending[a] # None} \in SUBSET Actions
    OBVIOUS
  <2>2. JobsOK(job')
    BY <1>1, <1>2, <2>1, JobOnType, JobsOKExcept, JobsMembers DEF Close, TypeOK
  <2>3. conn' \in [Sockets -> ConnType]
    <3>1. ASSUME NEW s \in Sockets
          PROVE  conn[s] \in ConnType
                 /\ [machine |-> conn[s].machine, reason |-> "hub_shutdown"] \in ConnType
      BY DEF TypeOK, ConnType, CloseReasons
    <3>. QED
      BY <1>2, <3>1 DEF Close
  <2>4. wire' \in [Sockets -> {"unused", "open", "closing", "closed"}]
    BY <1>2 DEF Close, TypeOK
  <2>. QED
    BY <1>2, <2>2, <2>3, <2>4 DEF Close, TypeOK, handlerVars, dispatchVars
<1>3. CASE FinishClose
  <2>1. JobsOK(job')
    <3>1. ASSUME NEW j \in Jobs
          PROVE  job'[j] \in JobType /\ (job'[j] = job[j] \/ job'[j].pc \in {"idle", "get"})
      <4>1. Candidates(j[2]) \in SUBSET Actions
        BY DEF Candidates
      <4>2. /\ JobOn(Candidates(j[2]), "INTERRUPTED") \in JobType
            /\ JobOn(Candidates(j[2]), "INTERRUPTED").pc \in {"idle", "get"}
        BY <1>1, <4>1, JobOnType
      <4>3. job[j] \in JobType
        BY DEF TypeOK, JobsOK
      <4>. QED
        BY <1>3, <4>2, <4>3 DEF FinishClose
    <3>2. JobsOK(job) /\ DOMAIN job' = Jobs /\ job' = [j \in Jobs |-> job'[j]]
      BY <1>3 DEF FinishClose, TypeOK
    <3>. QED
      BY <3>1, <3>2 DEF JobsOK
  <2>2. wire' \in [Sockets -> {"unused", "open", "closing", "closed"}]
    BY <1>3 DEF FinishClose, TypeOK
  <2>. QED
    BY <1>3, <2>1, <2>2 DEF FinishClose, TypeOK, handlerVars
<1>4. CASE CloseFails
  <2>1. JobsOK(job')
    BY <1>1, <1>4, JobOnType, JobsOKExcept, JobsMembers DEF CloseFails, TypeOK
  <2>. QED
    BY <1>4, <2>1 DEF CloseFails, TypeOK, connectionVars, handlerVars, dispatchVars
<1>. QED
  BY <1>2, <1>3, <1>4

LEMMA RestartType ==
    ASSUME TypeOK, Restart
    PROVE  TypeOK'
<1>1. IdleJob \in JobType /\ IdleJob.pc = "idle" /\ IdleTask \in TaskType /\ IdleTask.pc = "idle"
  BY BoundAssumption
  DEF IdleJob, JobType, JobStages, IdleTask, TaskAt, TaskType, TaskStages
<1>2. JobsOK(job')
  BY <1>1 DEF Restart, JobsOK
<1>3. TasksOK(task')
  BY <1>1 DEF Restart, TasksOK
<1>4. request' \in [Actions -> RequestType]
  <2>1. ASSUME NEW a \in Actions
        PROVE  [request[a] EXCEPT !.pc = "done"] \in RequestType /\ request[a] \in RequestType
    <3>1. request[a] \in RequestType
      BY DEF TypeOK
    <3>. QED
      BY <3>1 DEF RequestType, RequestStages
  <2>2. request' = [a \in Actions |-> IF request[a].pc = "none" THEN request[a]
                                      ELSE [request[a] EXCEPT !.pc = "done"]]
    BY DEF Restart
  <2>. QED
    BY <2>1, <2>2
<1>5. conn' \in [Sockets -> ConnType]
  BY DEF Restart, ConnType, CloseReasons
<1>. QED
  BY <1>2, <1>3, <1>4, <1>5, BoundAssumption DEF Restart, TypeOK

LEMMA NextType == TypeOK /\ [Next]_vars => TypeOK'
<1>. SUFFICES ASSUME TypeOK, [Next]_vars PROVE TypeOK'
  OBVIOUS
<1>1. CASE UNCHANGED vars
  BY <1>1 DEF vars, connectionVars, handlerVars, dispatchVars, TypeOK, JobsOK, TasksOK
<1>2. CASE Next
  BY <1>2, ConnectionTypes, ArriveType, HelloType, HeartbeatType, DispatchTypes, JobStepType,
     ShutdownType, RestartType DEF Next, Continue, RequestStep
<1>. QED
  BY <1>1, <1>2

\* Every variable of the Hub keeps its type in every behaviour, and an UPDATE is
\* only ever conditional on an active status.
THEOREM TypeCorrect == Spec => []TypeOK
BY InitType, NextType, PTL DEF Spec

-----------------------------------------------------------------------------
(* Safety. *)

\* A job that has just ended, or just begun on behalf of the Hub itself.
Fresh(r) == r.pc = "idle" \/ (r.pc = "get" /\ r.goal \in {"TIMED_OUT", "INTERRUPTED"})

\* What most steps do to the jobs: each is kept, or ends, or begins.
KeptOrFresh ==
    \A j \in Jobs : \/ job'[j] = job[j] /\ (Reporting(j)' <=> Reporting(j))
                    \/ Fresh(job'[j])

\* What every step does to the rows: they do not disappear, and ended ones stay.
RowsStay ==
    \A a \in Actions : /\ record[a] # "ABSENT" => record'[a] # "ABSENT"
                       /\ record[a] \in TerminalStatuses => record'[a] = record[a]

-----------------------------------------------------------------------------
(* Statuses. *)

LEMMA TransitionsAreFromActive ==
    ASSUME NEW from, NEW to, ValidTransition(from, to)
    PROVE  /\ from \in ActiveStatuses /\ from \notin TerminalStatuses /\ from # "ABSENT"
           /\ to \in Statuses /\ to # "ABSENT"
BY DEF ValidTransition, ActiveStatuses, TerminalStatuses, Statuses

LEMMA ActiveOrTerminal ==
    /\ "ABSENT" \notin Statuses
    /\ \A x \in Statuses : x \in ActiveStatuses <=> x \notin TerminalStatuses
BY DEF ActiveStatuses, TerminalStatuses, Statuses

\* A report that fits makes a valid transition, and so does any timeout or interrupt
\* of an active action.
LEMMA JobsAskForValidTransitions ==
    /\ \A from, to : ValidReport(from, to) => ValidTransition(from, to)
    /\ \A from \in ActiveStatuses, to \in {"TIMED_OUT", "INTERRUPTED"} : ValidTransition(from, to)
BY DEF ValidReport, ValidTransition, ActiveStatuses

-----------------------------------------------------------------------------
(* Jobs. *)

LEMMA SoundKept ==
    ASSUME TypeOK, JobsSound, RowsStay, NEW j \in Jobs,
           \/ job'[j] = job[j] /\ (Reporting(j)' <=> Reporting(j))
           \/ Fresh(job'[j])
    PROVE  SoundJob(j)'
<1>1. CASE Fresh(job'[j])
  BY <1>1 DEF Fresh, SoundJob
<1>2. CASE job'[j] = job[j] /\ (Reporting(j)' <=> Reporting(j))
  <2>1. SoundJob(j)
    BY DEF JobsSound
  <2>2. job[j].pc \in {"update", "write", "ok", "failed"} => job[j].at \in Actions
    BY DEF TypeOK, JobsOK
  <2>. QED
    BY <1>2, <2>1, <2>2 DEF SoundJob, RowsStay
<1>. QED
  BY <1>1, <1>2

LEMMA JobsSoundKept ==
    ASSUME TypeOK, JobsSound, RowsStay, KeptOrFresh
    PROVE  JobsSound'
BY SoundKept DEF KeptOrFresh, JobsSound

\* The handler job of a connection is told from all others by its connection.
LEMMA HandlerIsOne ==
    /\ \A i, j \in Jobs : i[1] = "handler" /\ j[1] = "handler" /\ i[2] = j[2] => i = j
    /\ \A s \in Sockets : Handler(s)[1] = "handler" /\ Handler(s)[2] = s
    /\ \A s \in Sockets : Detach(s)[1] = "detach"
    /\ \A a \in Actions : Timeout(a)[1] = "timeout"
    /\ Shutdown[1] = "shutdown"
BY DEF Jobs, Handler, Detach, Timeout, Shutdown

LEMMA JobOnFresh ==
    ASSUME NEW as, NEW goal \in {"TIMED_OUT", "INTERRUPTED"}
    PROVE  Fresh(JobOn(as, goal)) /\ Fresh(IdleJob)
BY DEF Fresh, JobOn, IdleJob

LEMMA DetachJobs ==
    ASSUME NEW js, JobsOK(js), NEW s \in Sockets, NEW j \in Jobs
    PROVE  JobsAfterDetach(js, s)[j] = js[j] \/ Fresh(JobsAfterDetach(js, s)[j])
BY JobOnFresh DEF JobsAfterDetach, JobsOK

LEMMA RejectJobs ==
    ASSUME NEW s \in Sockets, NEW js, JobsOK(js), Reject(s, js), NEW j \in Jobs
    PROVE  job'[j] = js[j] \/ Fresh(job'[j])
BY DetachJobs DEF Reject

\* A message that is refused, or whose handler begins with something other
\* than a report, leaves the reports under way alone.
LEMMA RefuseMessageJobs ==
    ASSUME TypeOK, NEW s \in Sockets, RefuseMessage(s)
    PROVE  KeptOrFresh
BY RejectJobs DEF RefuseMessage, KeptOrFresh, Reporting, TypeOK

\* A step that neither starts nor ends a report keeps or renews every job.
LEMMA OtherHandlerJobs ==
    ASSUME TypeOK,
           \A j \in Jobs : job'[j] = job[j] \/ Fresh(job'[j]),
           \A s \in Sockets : task'[s].pc = "report" <=> task[s].pc = "report"
    PROVE  KeptOrFresh
BY JobsMembers DEF KeptOrFresh, Reporting

LEMMA ConnectionJobs ==
    ASSUME TypeOK, NEW s \in Sockets,
           Connect(s) \/ HelloTimeout(s) \/ SocketClosed(s) \/ GoStale(s)
    PROVE  KeptOrFresh
<1>1. JobsOK(job) /\ UNCHANGED task
  BY DEF Connect, HelloTimeout, SocketClosed, GoStale, handlerVars, TypeOK
<1>2. ASSUME NEW j \in Jobs
      PROVE  job'[j] = job[j] \/ Fresh(job'[j])
  <2>1. CASE HelloTimeout(s)
    BY <1>1, <2>1, RejectJobs DEF HelloTimeout
  <2>2. CASE SocketClosed(s)
    BY <1>1, <2>2, DetachJobs DEF SocketClosed
  <2>3. CASE Connect(s) \/ GoStale(s)
    BY <2>3 DEF Connect, GoStale
  <2>. QED
    BY <2>1, <2>2, <2>3
<1>. QED
  BY <1>1, <1>2, OtherHandlerJobs

\* Arriving messages other than reports.
LEMMA MessageJobs ==
    ASSUME TypeOK, NEW s \in Sockets,
           \/ Enqueue(s) \/ InvalidMessage(s)
           \/ \E m \in Machines : Hello(s, m)
           \/ \E n \in 1 .. MaxBeats : Heartbeat(s, n)
    PROVE  KeptOrFresh
<1>1. CASE UNCHANGED <<task, job>>
  BY <1>1, OtherHandlerJobs
<1>2. CASE RefuseMessage(s)
  BY <1>2, RefuseMessageJobs
<1>3. ASSUME NEW t, t.pc # "report", TakeMessage(s), Suspend(s, t), UNCHANGED job
      PROVE  KeptOrFresh
  <2>1. \A x \in Sockets : task'[x].pc = "report" <=> task[x].pc = "report"
    BY <1>3 DEF TakeMessage, Suspend, TypeOK, TasksOK
  <2>. QED
    BY <1>3, <2>1, OtherHandlerJobs
<1>4. CASE Enqueue(s) \/ InvalidMessage(s)
  BY <1>1, <1>2, <1>4 DEF Enqueue, InvalidMessage
<1>5. ASSUME NEW m \in Machines, Hello(s, m)
      PROVE  KeptOrFresh
  <2>1. TaskAt("helloGet", m, 0).pc # "report"
    BY DEF TaskAt
  <2>. QED
    BY <1>2, <1>3, <1>5, <2>1 DEF Hello
<1>6. ASSUME NEW n \in 1 .. MaxBeats, Heartbeat(s, n)
      PROVE  KeptOrFresh
  <2>1. TaskAt("beatGet", conn[s].machine, n).pc # "report"
    BY DEF TaskAt
  <2>. QED
    BY <1>2, <1>3, <1>6, <2>1 DEF Heartbeat
<1>. QED
  BY <1>4, <1>5, <1>6

LEMMA ReportJobs ==
    ASSUME TypeOK, JobsSound, RowsStay, NEW s \in Sockets, NEW a \in Actions,
           NEW goal \in Outcomes \cup {"RUNNING"}, ActionReport(s, a, goal)
    PROVE  JobsSound'
<1>1. CASE ~HelloReceived(s) \/ ~Correlated(s, a)
  BY <1>1, RefuseMessageJobs, JobsSoundKept DEF ActionReport
<1>2. CASE ~(~HelloReceived(s) \/ ~Correlated(s, a))
  <2>1. /\ task' = [task EXCEPT ![s] = TaskAt("report", None, 0)]
        /\ job' = [job EXCEPT ![Handler(s)] = JobOn({a}, goal)]
        /\ task[s].pc = "idle"
        /\ JobsOK(job) /\ TasksOK(task)
    BY <1>2 DEF ActionReport, Suspend, TakeMessage, TypeOK
  <2>2. TaskAt("report", None, 0).pc = "report" /\ JobOn({a}, goal).pc = "get"
    BY DEF TaskAt, JobOn
  <2>3. /\ task'[s].pc = "report"
        /\ \A t \in Sockets \ {s} : task'[t] = task[t]
        /\ job'[Handler(s)].pc = "get"
        /\ \A j \in Jobs \ {Handler(s)} : job'[j] = job[j]
    BY <2>1, <2>2, JobsMembers DEF JobsOK, TasksOK
  <2>4. ASSUME NEW j \in Jobs
        PROVE  SoundJob(j)'
    <3>1. CASE j = Handler(s)
      <4>1. Reporting(j)'
        BY <2>3, <3>1, HandlerIsOne DEF Reporting
      <4>. QED
        BY <2>3, <3>1, <4>1 DEF SoundJob
    <3>2. CASE j # Handler(s)
      <4>1. j[1] = "handler" => j[2] \in Sockets \ {s}
        BY <3>2, HandlerIsOne, JobsMembers
      <4>2. Reporting(j)' <=> Reporting(j)
        BY <2>3, <4>1 DEF Reporting
      <4>. QED
        BY <2>3, <3>2, <4>2, SoundKept
    <3>. QED
      BY <3>1, <3>2
  <2>. QED
    BY <2>4 DEF JobsSound
<1>. QED
  BY <1>1, <1>2

LEMMA ContinueJobs ==
    ASSUME TypeOK, NEW s \in Sockets, Continue(s)
    PROVE  KeptOrFresh
<1>1. JobsOK(job) /\ task \in [Sockets -> TaskType] /\ IdleTask.pc = "idle"
  BY DEF TypeOK, TasksOK, IdleTask, TaskAt
<1>2. ASSUME task[s].pc # "report",
             \/ UNCHANGED task
             \/ task' = [task EXCEPT ![s] = IdleTask]
             \/ \E pc \in TaskStages \ {"report"} : task' = [task EXCEPT ![s].pc = pc]
             \/ \E pc \in TaskStages \ {"report"} : \E x :
                  task' = [task EXCEPT ![s].pc = pc, ![s].replaced = x],
             UNCHANGED job \/ Reject(s, job)
                \/ \E as : job' = [job EXCEPT ![Handler(s)] = JobOn(as, "INTERRUPTED")]
      PROVE  KeptOrFresh
  <2>1. \A j \in Jobs : job'[j] = job[j] \/ Fresh(job'[j])
    BY <1>1, <1>2, RejectJobs, JobOnFresh, JobsMembers DEF JobsOK
  <2>2. \A x \in Sockets : task'[x].pc = "report" <=> task[x].pc = "report"
    BY <1>1, <1>2 DEF TaskType
  <2>. QED
    BY <2>1, <2>2, OtherHandlerJobs
<1>3. {"helloUpsert", "helloStored", "helloInterrupt", "beatUpsert", "beatStored"} \subseteq TaskStages \ {"report"}
  BY DEF TaskStages
<1>4. CASE DropQueued(s)
  BY <1>4, <1>2 DEF DropQueued
<1>5. CASE HelloRead(s)
  BY <1>5, <1>2, <1>3 DEF HelloRead, HandlerFails
<1>6. CASE HelloUpsert(s)
  BY <1>6, <1>2, <1>3 DEF HelloUpsert, HandlerFails
<1>7. CASE HelloStored(s)
  BY <1>7, <1>2, <1>3 DEF HelloStored, InstallSession
<1>8. CASE HelloInstall(s)
  BY <1>8, <1>2 DEF HelloInstall, InstallSession
<1>9. CASE HeartbeatRead(s)
  BY <1>9, <1>2, <1>3 DEF HeartbeatRead, HandlerFails
<1>10. CASE HeartbeatUpsert(s)
  BY <1>10, <1>2, <1>3 DEF HeartbeatUpsert, HandlerFails
<1>11. CASE HeartbeatStored(s)
  BY <1>11, <1>2 DEF HeartbeatStored
<1>. QED
  BY <1>4, <1>5, <1>6, <1>7, <1>8, <1>9, <1>10, <1>11 DEF Continue

\* A job that moves on, ends or goes on with its next action.
LEMMA RefuseReportJobs ==
    ASSUME TypeOK, NEW j \in Jobs, j[1] = "handler", RefuseReport(j)
    PROVE  KeptOrFresh
<1>. DEFINE js == [job EXCEPT ![j] = IdleJob]
<1>1. j[2] \in Sockets /\ JobsOK(job) /\ task \in [Sockets -> TaskType]
  BY JobsMembers DEF TypeOK, TasksOK
<1>2. IdleJob \in JobType /\ IdleJob.pc = "idle" /\ IdleTask.pc = "idle"
  BY DEF IdleJob, JobType, JobStages, IdleTask, TaskAt
<1>3. JobsOK(js)
  BY <1>1, <1>2, JobsOKExcept
<1>4. Fresh(js[j]) /\ \A i \in Jobs \ {j} : js[i] = job[i]
  BY <1>1, <1>2 DEF Fresh, JobsOK
<1>5. Reject(j[2], js) /\ task' = [task EXCEPT ![j[2]] = IdleTask]
  BY DEF RefuseReport
<1>. HIDE DEF js
<1>6. ASSUME NEW i \in Jobs
      PROVE  \/ job'[i] = job[i] /\ (Reporting(i)' <=> Reporting(i))
             \/ Fresh(job'[i])
  <2>1. job'[i] = js[i] \/ Fresh(job'[i])
    BY <1>1, <1>3, <1>5, RejectJobs
  <2>2. CASE i = j
    BY <1>4, <2>1, <2>2
  <2>3. CASE i # j
    <3>1. i[1] = "handler" => i[2] \in Sockets /\ i[2] # j[2]
      BY <2>3, HandlerIsOne, JobsMembers
    <3>2. Reporting(i)' <=> Reporting(i)
      BY <1>1, <1>5, <3>1 DEF Reporting
    <3>. QED
      BY <1>4, <2>1, <2>3, <3>2
  <2>. QED
    BY <2>2, <2>3
<1>. QED
  BY <1>6 DEF KeptOrFresh

LEMMA SwallowJobs ==
    ASSUME TypeOK, JobsSound, NEW j \in Jobs, ~Reporting(j), job[j].pc # "idle", NEW a, Swallow(j, a)
    PROVE  KeptOrFresh
<1>1. job[j].goal \in {"TIMED_OUT", "INTERRUPTED"}
  BY DEF JobsSound, SoundJob
<1>2. Fresh(JobAfter(j, a))
  BY <1>1, JobOnFresh DEF JobAfter
<1>3. \A i \in Jobs : job'[i] = job[i] \/ Fresh(job'[i])
  BY <1>2 DEF Swallow, TypeOK, JobsOK
<1>. QED
  BY <1>3, OtherHandlerJobs DEF Swallow

\* A job that moves on with the action it is at leaves the others alone.
LEMMA MovedJob ==
    ASSUME TypeOK, JobsSound, RowsStay, UNCHANGED task, NEW j \in Jobs, NEW r,
           job' = [job EXCEPT ![j] = r], SoundJob(j)'
    PROVE  JobsSound'
<1>1. JobsOK(job)
  BY DEF TypeOK
<1>2. ASSUME NEW i \in Jobs \ {j}
      PROVE  SoundJob(i)'
  <2>1. job'[i] = job[i] /\ (Reporting(i)' <=> Reporting(i))
    BY <1>1, <1>2 DEF JobsOK, Reporting
  <2>. QED
    BY <1>2, <2>1, SoundKept
<1>. QED
  BY <1>2 DEF JobsSound

LEMMA JobGetJobs ==
    ASSUME TypeOK, JobsSound, NEW j \in Jobs, JobGet(j)
    PROVE  JobsSound'
<1>1. RowsStay
  BY DEF JobGet, RowsStay
<1>2. job[j].pc = "get" /\ JobsOK(job) /\ (Reporting(j) => j[1] = "handler")
  BY DEF JobGet, TypeOK, Reporting
<1>3. ASSUME NEW a \in job[j].todo,
             IF Reporting(j) THEN ValidReport(record[a], job[j].goal)
                             ELSE record[a] \in ActiveStatuses,
             job' = [job EXCEPT ![j].pc = IF AtomicStore THEN "update" ELSE "write",
                                ![j].at = a, ![j].cur = record[a]],
             UNCHANGED <<wire, conn, sessions, task>>
      PROVE  JobsSound'
  <2>. DEFINE r == [job[j] EXCEPT !.pc = IF AtomicStore THEN "update" ELSE "write",
                                  !.at = a, !.cur = record[a]]
  <2>1. job' = [job EXCEPT ![j] = r] /\ job[j] \in JobType
    BY <1>2, <1>3 DEF JobsOK
  <2>2. /\ r.pc = IF AtomicStore THEN "update" ELSE "write"
        /\ r.at = a /\ r.cur = record[a] /\ r.goal = job[j].goal
    BY <2>1 DEF JobType
  <2>. HIDE DEF r
  <2>3. job'[j] = r
    BY <1>2, <2>1 DEF JobsOK
  <2>4. ValidTransition(record[a], job[j].goal)
    BY <1>2, <1>3, JobsAskForValidTransitions DEF JobsSound, SoundJob
  <2>5. record[a] # "ABSENT"
    BY <2>4, TransitionsAreFromActive
  <2>6. (Reporting(j)' <=> Reporting(j)) /\ UNCHANGED <<record, task>>
    BY <1>3 DEF Reporting, JobGet
  <2>7. SoundJob(j)'
    BY <1>2, <2>2, <2>3, <2>4, <2>5, <2>6 DEF JobsSound, SoundJob
  <2>. QED
    BY <1>1, <2>1, <2>6, <2>7, MovedJob
<1>4. CASE j[1] = "handler" /\ RefuseReport(j)
  BY <1>1, <1>4, RefuseReportJobs, JobsSoundKept
<1>5. ASSUME NEW a \in job[j].todo, ~Reporting(j), Swallow(j, a)
      PROVE  JobsSound'
  BY <1>1, <1>2, <1>5, SwallowJobs, JobsSoundKept
<1>. QED
  BY <1>2, <1>3, <1>4, <1>5 DEF JobGet

\* The steps that write a row leave ended rows alone.
LEMMA WritesRows ==
    ASSUME TypeOK, RequestsOK, JobsSound, NEW j \in Jobs, JobUpdate(j) \/ JobWrite(j)
    PROVE  /\ RowsStay
           /\ \/ UNCHANGED record
              \/ /\ job[j].at \in Actions
                 /\ ValidTransition(record[job[j].at], job[j].goal)
                 /\ record' = [record EXCEPT ![job[j].at] = job[j].goal]
<1>. DEFINE a == job[j].at
<1>1. a \in Actions /\ record \in [Actions -> Statuses \cup {"ABSENT"}]
  BY DEF TypeOK, JobsOK, JobUpdate, JobWrite
<1>2. \/ UNCHANGED record
      \/ /\ ValidTransition(record[a], job[j].goal)
         /\ record' = [record EXCEPT ![a] = job[j].goal]
  <2>1. CASE JobUpdate(j)
    BY <2>1 DEF JobUpdate
  <2>2. CASE JobWrite(j)
    <3>1. ValidTransition(job[j].cur, job[j].goal)
      BY <2>2 DEF JobWrite, JobsSound, SoundJob
    <3>. QED
      BY <2>2, <3>1 DEF JobWrite
  <2>. QED
    BY <2>1, <2>2
<1>3. RowsStay
  BY <1>1, <1>2, TransitionsAreFromActive DEF RowsStay
<1>. QED
  BY <1>1, <1>2, <1>3

LEMMA WriteJobs ==
    ASSUME TypeOK, RequestsOK, JobsSound, NEW j \in Jobs, JobUpdate(j) \/ JobWrite(j)
    PROVE  JobsSound'
<1>. DEFINE a == job[j].at
<1>1. /\ RowsStay
      /\ \/ UNCHANGED record
         \/ /\ ValidTransition(record[a], job[j].goal)
            /\ record' = [record EXCEPT ![a] = job[j].goal]
  BY WritesRows
<1>2. /\ a \in Actions /\ record \in [Actions -> Statuses \cup {"ABSENT"}]
      /\ JobsOK(job) /\ SoundJob(j) /\ job[j] \in JobType
      /\ job[j].pc \in {"update", "write"}
      /\ UNCHANGED task
  BY DEF TypeOK, JobsOK, JobUpdate, JobWrite, handlerVars, JobsSound
<1>3. record[a] # "ABSENT" /\ (Reporting(j)' <=> Reporting(j))
  BY <1>2 DEF SoundJob, Reporting
<1>. DEFINE moved(x) == job' = [job EXCEPT ![j].pc = x]
<1>m. \A x : moved(x) => job'[j].pc = x
  BY <1>2 DEF JobsOK, JobType
<1>4. PICK pc \in {"ok", "failed"} : moved(pc)
  BY DEF JobUpdate, JobWrite
<1>5. job' = [job EXCEPT ![j] = [job[j] EXCEPT !.pc = pc]]
  BY <1>2, <1>4 DEF JobsOK
<1>6. job'[j].pc = pc /\ job'[j].at = a /\ job'[j].goal = job[j].goal
  BY <1>2, <1>5 DEF JobsOK, JobType
<1>7. pc = "ok" => record'[a] = job[j].goal
  <2>1. ~moved("failed") \/ pc = "failed"
    BY <1>4, <1>m
  <2>. HIDE DEF moved
  <2>2. CASE JobUpdate(j)
    BY <1>2, <2>1, <2>2 DEF JobUpdate, moved
  <2>3. CASE JobWrite(j)
    BY <1>2, <2>1, <2>3 DEF JobWrite, moved
  <2>. QED
    BY <2>2, <2>3
<1>8. ASSUME AtomicStore, pc = "failed", ~Reporting(j)
      PROVE  record'[a] \in TerminalStatuses
  <2>1. JobUpdate(j)
    BY <1>2, <1>8 DEF SoundJob, JobWrite
  <2>2. ~ValidTransition(record[a], job[j].goal) /\ UNCHANGED record
    <3>1. ~moved("ok")
      BY <1>4, <1>8, <1>m
    <3>. HIDE DEF moved
    <3>. QED
      BY <2>1, <3>1 DEF JobUpdate, moved
  <2>3. job[j].goal \in {"TIMED_OUT", "INTERRUPTED"}
    BY <1>2, <1>8 DEF SoundJob
  <2>4. record[a] \notin ActiveStatuses
    BY <2>2, <2>3, JobsAskForValidTransitions
  <2>. QED
    BY <1>2, <1>3, <2>2, <2>4, ActiveOrTerminal
<1>9. record'[a] # "ABSENT"
  BY <1>1, <1>2, <1>3 DEF RowsStay
<1>10. SoundJob(j)'
  BY <1>2, <1>3, <1>6, <1>7, <1>8, <1>9 DEF SoundJob
<1>. QED
  BY <1>1, <1>2, <1>5, <1>10, MovedJob

LEMMA JobOkJobs ==
    ASSUME TypeOK, JobsSound, NEW j \in Jobs, JobOk(j)
    PROVE  KeptOrFresh
<1>1. JobsOK(job) /\ task \in [Sockets -> TaskType] /\ job[j].pc = "ok" /\ IdleTask.pc = "idle"
  BY DEF TypeOK, TasksOK, JobOk, IdleTask, TaskAt
<1>2. job' = [job EXCEPT ![j] = JobAfter(j, job[j].at)]
  BY DEF JobOk
<1>3. CASE Reporting(j)
  <2>1. j[1] = "handler" /\ j[2] \in Sockets /\ task' = [task EXCEPT ![j[2]] = IdleTask]
    BY <1>3, JobsMembers DEF Reporting, JobOk
  <2>2. job' = [job EXCEPT ![j] = IdleJob] /\ IdleJob.pc = "idle"
    BY <1>2, <1>3 DEF JobAfter, IdleJob
  <2>3. ASSUME NEW i \in Jobs \ {j}
        PROVE  job'[i] = job[i] /\ (Reporting(i)' <=> Reporting(i))
    <3>1. i[1] = "handler" => i[2] \in Sockets /\ i[2] # j[2]
      BY <2>1, <2>3, HandlerIsOne, JobsMembers
    <3>. QED
      BY <1>1, <2>1, <2>2, <2>3, <3>1 DEF Reporting, JobsOK
  <2>4. Fresh(job'[j])
    BY <1>1, <2>2 DEF Fresh, JobsOK
  <2>. QED
    BY <2>3, <2>4 DEF KeptOrFresh
<1>4. CASE ~Reporting(j)
  <2>1. job[j].goal \in {"TIMED_OUT", "INTERRUPTED"}
    BY <1>1, <1>4 DEF JobsSound, SoundJob
  <2>2. Fresh(JobAfter(j, job[j].at))
    BY <1>4, <2>1, JobOnFresh DEF JobAfter
  <2>3. \A i \in Jobs : job'[i] = job[i] \/ Fresh(job'[i])
    BY <1>1, <1>2, <2>2 DEF JobsOK
  <2>. QED
    BY <1>4, <2>3, OtherHandlerJobs DEF JobOk
<1>. QED
  BY <1>3, <1>4

LEMMA JobFailedJobs ==
    ASSUME TypeOK, JobsSound, NEW j \in Jobs, JobFailed(j)
    PROVE  KeptOrFresh
<1>1. CASE Reporting(j)
  BY <1>1, RefuseReportJobs DEF JobFailed, Reporting
<1>2. CASE ~Reporting(j)
  BY <1>2, SwallowJobs DEF JobFailed
<1>. QED
  BY <1>1, <1>2

LEMMA ShutdownJobs ==
    ASSUME TypeOK, Close \/ FinishClose \/ CloseFails \/ Restart \/ (\E a \in Actions : TimerFires(a))
    PROVE  KeptOrFresh
<1>1. JobsOK(job)
  BY DEF TypeOK
<1>2. CASE Close
  <2>1. \A j \in Jobs : job'[j] = job[j] \/ Fresh(job'[j])
    BY <1>1, <1>2, JobOnFresh DEF Close, JobsOK
  <2>. QED
    BY <1>2, <2>1, OtherHandlerJobs DEF Close, handlerVars
<1>3. CASE FinishClose
  <2>1. \A j \in Jobs : job'[j] = job[j] \/ Fresh(job'[j])
    BY <1>1, <1>3, JobOnFresh DEF FinishClose, JobsOK
  <2>. QED
    BY <1>3, <2>1, OtherHandlerJobs DEF FinishClose, handlerVars
<1>4. CASE Restart
  BY <1>4, JobOnFresh DEF Restart, KeptOrFresh
<1>6. CASE CloseFails
  <2>1. \A j \in Jobs : job'[j] = job[j] \/ Fresh(job'[j])
    BY <1>1, <1>6, JobOnFresh DEF CloseFails, JobsOK
  <2>. QED
    BY <1>6, <2>1, OtherHandlerJobs DEF CloseFails, handlerVars
<1>5. ASSUME NEW a \in Actions, TimerFires(a)
      PROVE  KeptOrFresh
  <2>1. \A j \in Jobs : job'[j] = job[j] \/ Fresh(job'[j])
    BY <1>1, <1>5, JobOnFresh DEF TimerFires, JobsOK
  <2>. QED
    BY <1>5, <2>1, OtherHandlerJobs DEF TimerFires, handlerVars
<1>. QED
  BY <1>2, <1>3, <1>4, <1>5, <1>6

-----------------------------------------------------------------------------
(* The steps, by what they do to requests, rows and reservations. *)

\* Everything but dispatch, writes, timers, JobOk and shutdown.
QuietStep ==
    \/ \E s \in Sockets : \/ Connect(s) \/ HelloTimeout(s) \/ SocketClosed(s) \/ GoStale(s)
                          \/ Arrive(s) \/ Continue(s)
    \/ \E j \in Jobs : JobGet(j) \/ JobFailed(j)
    \/ \E a \in Actions : TimerFires(a)
    \/ Close \/ CloseFails

LEMMA QuietUnchanged ==
    ASSUME QuietStep
    PROVE  UNCHANGED <<record, request, pending, reserved>>
BY DEF QuietStep, Connect, HelloTimeout, SocketClosed, GoStale, Arrive, Enqueue, InvalidMessage, Hello,
   Heartbeat, ActionReport, RefuseMessage, Suspend, Continue, DropQueued, HelloRead, HelloUpsert, HelloStored,
   HelloInstall, HeartbeatRead, HeartbeatUpsert, HeartbeatStored, JobGet, JobFailed, TimerFires, Close,
   CloseFails, dispatchVars

LEMMA QuietPhase ==
    ASSUME TypeOK, QuietStep
    PROVE  /\ phase' = phase \/ (phase # "closed" /\ phase' # "closed")
           /\ ClosedForgets => ClosedForgets'
<1>1. ASSUME NEW s \in Sockets, Connect(s)
      PROVE  phase' = phase /\ (phase = "closed" => connected' = connected)
  BY <1>1 DEF Connect, ShuttingDown
<1>2. ASSUME NEW s \in Sockets, HelloTimeout(s) \/ SocketClosed(s) \/ GoStale(s) \/ Arrive(s) \/ Continue(s)
      PROVE  phase' = phase /\ connected' \subseteq connected
  BY <1>2 DEF HelloTimeout, SocketClosed, GoStale, Arrive, Enqueue, InvalidMessage, Hello,
     Heartbeat, ActionReport, RefuseMessage, Suspend, Continue, DropQueued, HelloRead, HelloUpsert,
     HelloStored, HelloInstall, HeartbeatRead, HeartbeatUpsert, HeartbeatStored, connectionVars
<1>3. ASSUME (\E j \in Jobs : JobGet(j) \/ JobFailed(j)) \/ (\E a \in Actions : TimerFires(a))
      PROVE  phase' = phase /\ connected' = connected
  BY <1>3 DEF JobGet, JobFailed, TimerFires, connectionVars
<1>4. CASE Close \/ CloseFails
  BY <1>4 DEF Close, CloseFails, connectionVars, ClosedForgets
<1>. QED
  BY <1>1, <1>2, <1>3, <1>4 DEF QuietStep, ClosedForgets

LEMMA QuietJobs ==
    ASSUME TypeOK, JobsSound, QuietStep
    PROVE  JobsSound'
<1>1. RowsStay
  BY QuietUnchanged DEF RowsStay
<1>2. ASSUME NEW s \in Sockets, Arrive(s)
      PROVE  JobsSound'
  BY <1>1, <1>2, MessageJobs, ReportJobs, JobsSoundKept DEF Arrive
<1>. QED
  BY <1>1, <1>2, ConnectionJobs, ContinueJobs, JobGetJobs, JobFailedJobs, ShutdownJobs, JobsSoundKept
  DEF QuietStep

-----------------------------------------------------------------------------
(* HubInv. *)

LEMMA InitHubInv == Init => HubInv
<1>. SUFFICES ASSUME Init PROVE HubInv
  OBVIOUS
<1>1. IdleJob.pc = "idle"
  BY DEF IdleJob
<1>. QED
  BY <1>1, InitType DEF Init, HubInv, RequestsOK, JobsSound, SoundJob, ReservationsBalanced, ClosedForgets

\* What the steps of requestAction do.
LEMMA RequestSteps ==
    ASSUME HubInv, NEW a \in Actions,
           (\E m \in Machines : RequestAction(a, m)) \/ CreateRecord(a) \/ Dispatch(a)
    PROVE  RequestsOK' /\ ReservationsBalanced' /\ RowsStay
           /\ UNCHANGED <<phase, connected, task, job>>
<1>1. /\ RequestsOK /\ ReservationsBalanced /\ sessions \in [Machines -> Sockets \cup {None}]
      /\ request \in [Actions -> RequestType] /\ record \in [Actions -> Statuses \cup {"ABSENT"}]
      /\ pending \in [Actions -> Sockets \cup {None}]
  BY DEF HubInv, TypeOK
<1>2. UNCHANGED <<phase, connected, task, job>>
  BY DEF RequestAction, CreateRecord, Dispatch, connectionVars, handlerVars
<1>3. ASSUME NEW m \in Machines, RequestAction(a, m)
      PROVE  RequestsOK' /\ ReservationsBalanced' /\ RowsStay
  <2>1. /\ request' = [request EXCEPT ![a] = [pc |-> "creating", machine |-> m, socket |-> sessions[m]]]
        /\ request[a].pc = "none" /\ sessions[m] \in Sockets
        /\ reserved' = reserved \cup {m}
        /\ UNCHANGED <<record, pending>>
    BY <1>1, <1>3 DEF RequestAction
  <2>2. /\ request'[a] = [pc |-> "creating", machine |-> m, socket |-> sessions[m]]
        /\ \A b \in Actions \ {a} : request'[b] = request[b]
    BY <1>1, <2>1
  <2>3. pending[a] = None
    BY <1>1, <2>1 DEF RequestsOK
  <2>4. RequestsOK'
    BY <1>1, <2>1, <2>2 DEF RequestsOK
  <2>5. ReservationsBalanced'
    BY <1>1, <1>2, <2>1, <2>2, <2>3 DEF ReservationsBalanced
  <2>. QED
    BY <2>1, <2>4, <2>5 DEF RowsStay
<1>4. CASE CreateRecord(a)
  <2>1. PICK pc \in {"created", "done"} : request' = [request EXCEPT ![a].pc = pc]
    BY <1>4 DEF CreateRecord
  <2>2. request' = [request EXCEPT ![a] = [request[a] EXCEPT !.pc = pc]] /\ request[a] \in RequestType
    BY <1>1, <2>1
  <2>3. /\ request'[a].pc = pc /\ request'[a].machine = request[a].machine
        /\ request'[a].socket = request[a].socket
        /\ \A b \in Actions \ {a} : request'[b] = request[b]
    BY <1>1, <2>2 DEF RequestType
  <2>4. /\ request[a].pc = "creating" /\ pending' = pending /\ pending[a] = None
        /\ record[a] = "ABSENT"
        /\ record' = record \/ record' = [record EXCEPT ![a] = "PENDING"]
    BY <1>1, <1>4 DEF CreateRecord, RequestsOK
  <2>5. RequestsOK'
    BY <1>1, <2>3, <2>4 DEF RequestsOK
  <2>. DEFINE moved(x) == request' = [request EXCEPT ![a].pc = x]
  <2>6. (pc = "created" /\ reserved' = reserved) \/ reserved' = reserved \ {request[a].machine}
    <3>1. \A x : moved(x) => x = pc
      BY <1>1, <2>3 DEF RequestType
    <3>. HIDE DEF moved
    <3>. QED
      BY <1>4, <3>1 DEF CreateRecord, moved
  <2>7. ReservationsBalanced'
    BY <1>1, <1>2, <2>3, <2>4, <2>6 DEF ReservationsBalanced
  <2>8. RowsStay
    BY <1>1, <2>4 DEF RowsStay, TerminalStatuses
  <2>. QED
    BY <1>2, <2>5, <2>7, <2>8
<1>5. CASE Dispatch(a)
  <2>1. /\ request[a].pc = "created" /\ request' = [request EXCEPT ![a].pc = "done"]
        /\ pending' = [pending EXCEPT ![a] = request[a].socket]
        /\ UNCHANGED <<record, reserved>>
    BY <1>5 DEF Dispatch
  <2>2. /\ request'[a].pc = "done" /\ request'[a].machine = request[a].machine
        /\ request'[a].socket = request[a].socket
        /\ \A b \in Actions \ {a} : request'[b] = request[b]
    BY <1>1, <2>1 DEF RequestType
  <2>3. request[a].socket \in Sockets /\ request[a].socket # None
    BY <1>1, <2>1, NoneAssumption DEF RequestsOK
  <2>4. RequestsOK'
    BY <1>1, <2>1, <2>2 DEF RequestsOK
  <2>5. pending'[a] # None /\ \A b \in Actions \ {a} : pending'[b] = pending[b]
    BY <1>1, <2>1, <2>3
  <2>6. ReservationsBalanced'
    BY <1>1, <1>2, <2>1, <2>2, <2>5 DEF ReservationsBalanced
  <2>. QED
    BY <1>2, <2>1, <2>4, <2>6 DEF RowsStay
<1>. QED
  BY <1>2, <1>3, <1>4, <1>5

LEMMA JobOkStep ==
    ASSUME HubInv, NEW j \in Jobs, JobOk(j)
    PROVE  /\ RequestsOK' /\ ReservationsBalanced' /\ RowsStay
           /\ UNCHANGED <<phase, connected, record, request>>
           /\ \/ UNCHANGED <<pending, reserved>>
              \/ /\ job[j].at \in Actions /\ pending[job[j].at] # None
                 /\ record[job[j].at] \in TerminalStatuses
                 /\ pending' = [pending EXCEPT ![job[j].at] = None]
                 /\ reserved' = reserved \ {request[job[j].at].machine}
<1>. DEFINE a == job[j].at
<1>1. /\ RequestsOK /\ ReservationsBalanced /\ TypeOK /\ SoundJob(j)
      /\ pending \in [Actions -> Sockets \cup {None}]
  BY DEF HubInv, TypeOK, JobsSound
<1>2. UNCHANGED <<phase, connected, record, request>> /\ a \in Actions
  BY <1>1 DEF JobOk, connectionVars, TypeOK, JobsOK
<1>3. \/ UNCHANGED <<pending, reserved>>
      \/ /\ pending[a] # None
         /\ record[a] \in TerminalStatuses
         /\ pending' = [pending EXCEPT ![a] = None]
         /\ reserved' = reserved \ {request[a].machine}
  BY <1>1 DEF JobOk, ClearPending, SoundJob
<1>4. RequestsOK'
  BY <1>1, <1>2, <1>3 DEF RequestsOK
<1>5. ReservationsBalanced'
  BY <1>1, <1>2, <1>3 DEF ReservationsBalanced
<1>. QED
  BY <1>2, <1>3, <1>4, <1>5 DEF RowsStay

LEMMA NextHubInv == HubInv /\ [Next]_vars => HubInv' /\ RowsStay
<1>. SUFFICES ASSUME HubInv, [Next]_vars PROVE HubInv' /\ RowsStay
  OBVIOUS
<1>1. TypeOK /\ RequestsOK /\ JobsSound /\ ReservationsBalanced /\ ClosedForgets
  BY DEF HubInv
<1>2. TypeOK'
  BY <1>1, NextType
<1>3. CASE UNCHANGED vars
  BY <1>1, <1>2, <1>3 DEF vars, connectionVars, handlerVars, dispatchVars, HubInv, RequestsOK, JobsSound,
     SoundJob, Reporting, ReservationsBalanced, ClosedForgets, RowsStay
<1>4. CASE QuietStep
  <2>1. RequestsOK' /\ RowsStay
    BY <1>1, <1>4, QuietUnchanged DEF RequestsOK, RowsStay
  <2>2. ReservationsBalanced'
    BY <1>1, <1>4, QuietUnchanged, QuietPhase DEF ReservationsBalanced
  <2>. QED
    BY <1>1, <1>2, <1>4, <2>1, <2>2, QuietJobs, QuietPhase DEF HubInv
<1>5. ASSUME NEW a \in Actions,
             (\E m \in Machines : RequestAction(a, m)) \/ CreateRecord(a) \/ Dispatch(a)
      PROVE  HubInv' /\ RowsStay
  <2>1. RequestsOK' /\ ReservationsBalanced' /\ RowsStay /\ UNCHANGED <<phase, connected, task, job>>
    BY <1>5, RequestSteps
  <2>2. KeptOrFresh
    BY <2>1 DEF KeptOrFresh, Reporting
  <2>. QED
    BY <1>1, <1>2, <2>1, <2>2, JobsSoundKept DEF HubInv, ClosedForgets
<1>6. ASSUME NEW j \in Jobs, JobUpdate(j) \/ JobWrite(j)
      PROVE  HubInv' /\ RowsStay
  <2>1. RowsStay /\ JobsSound'
    BY <1>1, <1>6, WritesRows, WriteJobs
  <2>2. UNCHANGED <<phase, connected, request, pending, reserved>>
    BY <1>6 DEF JobUpdate, JobWrite, connectionVars, dispatchVars
  <2>3. RequestsOK'
    <3>1. ASSUME NEW a \in Actions, record[a] = "ABSENT"
          PROVE  record'[a] = "ABSENT"
      <4>1. \/ UNCHANGED record
            \/ /\ job[j].at \in Actions
               /\ ValidTransition(record[job[j].at], job[j].goal)
               /\ record' = [record EXCEPT ![job[j].at] = job[j].goal]
        BY <1>1, <1>6, WritesRows
      <4>. QED
        BY <1>1, <3>1, <4>1, TransitionsAreFromActive DEF TypeOK
    <3>. QED
      BY <1>1, <2>2, <3>1 DEF RequestsOK
  <2>4. ReservationsBalanced' /\ ClosedForgets'
    BY <1>1, <2>2 DEF ReservationsBalanced, ClosedForgets
  <2>. QED
    BY <1>2, <2>1, <2>3, <2>4 DEF HubInv
<1>7. ASSUME NEW j \in Jobs, JobOk(j)
      PROVE  HubInv' /\ RowsStay
  BY <1>1, <1>2, <1>7, JobOkStep, JobOkJobs, JobsSoundKept DEF HubInv, ClosedForgets
<1>8. CASE FinishClose
  <2>1. /\ phase' = "closed" /\ connected' = {} /\ pending' = [a \in Actions |-> None]
        /\ UNCHANGED <<record, request>>
    BY <1>8 DEF FinishClose
  <2>2. RequestsOK' /\ ReservationsBalanced' /\ ClosedForgets' /\ RowsStay
    BY <1>1, <2>1 DEF RequestsOK, ReservationsBalanced, ClosedForgets, RowsStay
  <2>. QED
    BY <1>1, <1>2, <1>8, <2>2, ShutdownJobs, JobsSoundKept DEF HubInv
<1>9. CASE Restart
  <2>1. ASSUME NEW a \in Actions
        PROVE  /\ request[a].pc = "none" => request'[a] = request[a]
               /\ request[a].pc # "none" => request'[a].pc = "done"
               /\ request'[a].machine = request[a].machine
               /\ request'[a].socket = request[a].socket
    BY <1>1, <1>9 DEF Restart, TypeOK, RequestType
  <2>2. RequestsOK'
    BY <1>1, <1>9, <2>1 DEF Restart, RequestsOK
  <2>3. ReservationsBalanced' /\ ClosedForgets' /\ RowsStay
    BY <1>9 DEF Restart, ReservationsBalanced, ClosedForgets, RowsStay
  <2>. QED
    BY <1>1, <1>2, <1>9, <2>2, <2>3, ShutdownJobs, JobsSoundKept DEF HubInv
<1>. QED
  BY <1>3, <1>4, <1>5, <1>6, <1>7, <1>8, <1>9 DEF Next, RequestStep, JobStep, QuietStep

-----------------------------------------------------------------------------
(* ReservationInv, when no row is left behind. *)

LEMMA InitReservationInv == Init => ReservationInv
BY DEF Init, ReservationInv, HeldIsReserved, HeldAlone, ActiveIsTracked, Held, Active, ActiveStatuses

\* Only the actions that held their machine already hold it after the step.
LEMMA ReservationKept ==
    ASSUME HubInv, ReservationInv,
           phase' = phase \/ (phase # "closed" /\ phase' # "closed"),
           \A a \in Actions : request'[a].machine = request[a].machine,
           \A a \in Actions : Held(a)' => Held(a),
           \A a \in Actions : Active(a)' /\ phase # "closed" => request'[a].pc = "created" \/ pending'[a] # None,
           \A a \in Actions : Held(a)' /\ request[a].machine \in reserved => request[a].machine \in reserved'
    PROVE  ReservationInv'
<1>1. HeldIsReserved'
  BY DEF ReservationInv, HeldIsReserved
<1>2. HeldAlone'
  BY DEF ReservationInv, HeldAlone
<1>3. ActiveIsTracked'
  BY DEF ActiveIsTracked
<1>. QED
  BY <1>1, <1>2, <1>3 DEF ReservationInv

LEMMA RequestReservation ==
    ASSUME HubInv, ReservationInv, NEW a \in Actions, NEW m \in Machines, RequestAction(a, m)
    PROVE  ReservationInv'
<1>1. /\ request' = [request EXCEPT ![a] = [pc |-> "creating", machine |-> m, socket |-> sessions[m]]]
      /\ request[a].pc = "none" /\ m \notin reserved /\ sessions[m] \in connected
      /\ reserved' = reserved \cup {m}
      /\ UNCHANGED <<phase, record, pending>>
  BY DEF RequestAction, Busy
<1>2. phase # "closed"
  BY <1>1 DEF HubInv, ClosedForgets, TypeOK
<1>3. /\ request'[a].pc = "creating" /\ request'[a].machine = m
      /\ \A b \in Actions \ {a} : request'[b] = request[b]
  BY <1>1 DEF HubInv, TypeOK
<1>4. \A b \in Actions : Held(b) => request[b].machine # m
  BY <1>1, <1>2 DEF ReservationInv, HeldIsReserved
<1>5. \A b \in Actions \ {a} : Held(b)' => Held(b)
  BY <1>1, <1>3 DEF Held, Active
<1>6. record[a] = "ABSENT"
  BY <1>1 DEF HubInv, RequestsOK
<1>7. HeldIsReserved'
  BY <1>1, <1>2, <1>3, <1>5 DEF ReservationInv, HeldIsReserved
<1>8. HeldAlone'
  BY <1>3, <1>4, <1>5 DEF ReservationInv, HeldAlone
<1>9. ActiveIsTracked'
  BY <1>1, <1>2, <1>3, <1>6 DEF ReservationInv, ActiveIsTracked, Active, ActiveStatuses
<1>. QED
  BY <1>7, <1>8, <1>9 DEF ReservationInv

LEMMA CreateReservation ==
    ASSUME NothingLost, HubInv, ReservationInv, NEW a \in Actions, CreateRecord(a)
    PROVE  ReservationInv'
<1>1. /\ request \in [Actions -> RequestType] /\ record \in [Actions -> Statuses \cup {"ABSENT"}]
      /\ request[a].pc = "creating" /\ record[a] = "ABSENT" /\ pending[a] = None
      /\ UNCHANGED <<phase, pending>>
  BY DEF HubInv, TypeOK, RequestsOK, CreateRecord
<1>2. Held(a)
  BY <1>1 DEF Held
<1>. DEFINE moved(x) == request' = [request EXCEPT ![a].pc = x]
<1>3. \A x : moved(x) => /\ request'[a].pc = x /\ request'[a].machine = request[a].machine
                         /\ \A b \in Actions \ {a} : request'[b] = request[b]
  BY <1>1 DEF RequestType
<1>. HIDE DEF moved
<1>4. CASE moved("created") /\ record' = [record EXCEPT ![a] = "PENDING"] /\ UNCHANGED reserved
  <2>1. \A b \in Actions \ {a} : record'[b] = record[b] /\ request'[b] = request[b]
    BY <1>1, <1>3, <1>4
  <2>2. \A b \in Actions : Held(b)' => Held(b)
    BY <1>1, <1>2, <2>1 DEF Held, Active
  <2>3. \A b \in Actions : request'[b].machine = request[b].machine
    BY <1>3, <1>4
  <2>4. \A b \in Actions : Active(b)' /\ phase # "closed" => request'[b].pc = "created" \/ pending'[b] # None
    BY <1>1, <1>3, <1>4, <2>1 DEF ReservationInv, ActiveIsTracked, Active, HubInv, TypeOK
  <2>. QED
    BY <1>1, <1>4, <2>2, <2>3, <2>4, ReservationKept
<1>5. CASE moved("done") /\ reserved' = reserved \ {request[a].machine} /\ UNCHANGED record
  <2>1. ~Held(a)'
    BY <1>1, <1>3, <1>5 DEF Held, Active, ActiveStatuses
  <2>2. \A b \in Actions : Held(b)' => Held(b) /\ b # a
    BY <1>1, <1>3, <1>5, <2>1 DEF Held, Active
  <2>3. \A b \in Actions : request'[b].machine = request[b].machine
    BY <1>3, <1>5
  <2>4. \A b \in Actions : Held(b)' => request[b].machine # request[a].machine
    BY <1>2, <2>2 DEF ReservationInv, HeldAlone
  <2>5. \A b \in Actions : Active(b)' /\ phase # "closed" => request'[b].pc = "created" \/ pending'[b] # None
    BY <1>1, <1>3, <1>5, <2>2 DEF ReservationInv, ActiveIsTracked, Active, Held, HubInv, TypeOK
  <2>. QED
    BY <1>1, <1>5, <2>2, <2>3, <2>4, <2>5, ReservationKept
<1>. QED
  BY <1>4, <1>5 DEF CreateRecord, NothingLost, moved

LEMMA DispatchReservation ==
    ASSUME HubInv, ReservationInv, NEW a \in Actions, Dispatch(a)
    PROVE  ReservationInv'
<1>1. /\ request \in [Actions -> RequestType] /\ pending \in [Actions -> Sockets \cup {None}]
      /\ request[a].pc = "created" /\ request[a].socket \in Sockets
      /\ request' = [request EXCEPT ![a].pc = "done"]
      /\ pending' = [pending EXCEPT ![a] = request[a].socket]
      /\ UNCHANGED <<phase, record, reserved>>
  BY DEF HubInv, TypeOK, RequestsOK, Dispatch
<1>2. /\ request'[a].machine = request[a].machine
      /\ \A b \in Actions \ {a} : request'[b] = request[b]
  BY <1>1 DEF RequestType
<1>3. pending'[a] # None /\ \A b \in Actions \ {a} : pending'[b] = pending[b]
  BY <1>1, NoneAssumption
<1>4. \A b \in Actions : Held(b)' => Held(b)
  BY <1>1, <1>2, <1>3 DEF Held, Active
<1>5. \A b \in Actions : Active(b)' /\ phase # "closed" => request'[b].pc = "created" \/ pending'[b] # None
  BY <1>1, <1>2, <1>3 DEF ReservationInv, ActiveIsTracked, Active, HubInv, TypeOK
<1>. QED
  BY <1>1, <1>2, <1>4, <1>5, ReservationKept

LEMMA WriteReservation ==
    ASSUME HubInv, ReservationInv, NEW j \in Jobs, JobUpdate(j) \/ JobWrite(j)
    PROVE  ReservationInv'
<1>1. UNCHANGED <<phase, request, pending, reserved>>
  BY DEF JobUpdate, JobWrite, dispatchVars
<1>2. \/ UNCHANGED record
      \/ /\ job[j].at \in Actions
         /\ ValidTransition(record[job[j].at], job[j].goal)
         /\ record' = [record EXCEPT ![job[j].at] = job[j].goal]
  BY WritesRows DEF HubInv
<1>3. \A a \in Actions : Active(a)' => Active(a)
  BY <1>2, TransitionsAreFromActive DEF Active, HubInv, TypeOK
<1>4. \A a \in Actions : Held(a)' => Held(a)
  BY <1>1, <1>3 DEF Held
<1>5. \A b \in Actions : Active(b)' /\ phase # "closed" => request'[b].pc = "created" \/ pending'[b] # None
  BY <1>1, <1>3 DEF ReservationInv, ActiveIsTracked, HubInv, TypeOK
<1>. QED
  BY <1>1, <1>4, <1>5, ReservationKept

LEMMA JobOkReservation ==
    ASSUME HubInv, ReservationInv, NEW j \in Jobs, JobOk(j)
    PROVE  ReservationInv'
<1>0. PICK a \in Actions : a = job[j].at
  BY DEF JobOk, HubInv, TypeOK, JobsOK
<1>1. UNCHANGED <<phase, record, request>>
  BY JobOkStep
<1>2. CASE UNCHANGED <<pending, reserved>>
  <2>1. \A b \in Actions : (Held(b)' <=> Held(b)) /\ (Active(b)' <=> Active(b))
    BY <1>1, <1>2 DEF Held, Active
  <2>2. \A b \in Actions : Active(b)' /\ phase # "closed" => request'[b].pc = "created" \/ pending'[b] # None
    BY <1>1, <1>2, <2>1 DEF ReservationInv, ActiveIsTracked, HubInv, TypeOK
  <2>. QED
    BY <1>1, <1>2, <2>1, <2>2, ReservationKept
<1>3. CASE /\ a \in Actions /\ pending[a] # None
           /\ record[a] \in TerminalStatuses
           /\ pending' = [pending EXCEPT ![a] = None]
           /\ reserved' = reserved \ {request[a].machine}
  <2>1. pending'[a] = None /\ \A b \in Actions \ {a} : pending'[b] = pending[b]
    BY <1>3 DEF HubInv, TypeOK
  <2>2. request[a].pc = "done" /\ Held(a) /\ ~Active(a)
    BY <1>3 DEF HubInv, TypeOK, RequestsOK, Held, Active, TerminalStatuses, ActiveStatuses
  <2>3. ~Held(a)'
    BY <1>1, <2>1, <2>2 DEF Held, Active
  <2>4. \A b \in Actions : Held(b)' => Held(b) /\ b # a
    BY <1>1, <2>1, <2>3 DEF Held, Active
  <2>5. \A b \in Actions : Held(b)' => request[b].machine # request[a].machine
    BY <2>2, <2>4 DEF ReservationInv, HeldAlone
  <2>6. \A b \in Actions : Active(b)' /\ phase # "closed" => request'[b].pc = "created" \/ pending'[b] # None
    BY <1>1, <2>1, <2>2 DEF ReservationInv, ActiveIsTracked, Active, HubInv, TypeOK
  <2>. QED
    BY <1>1, <1>3, <2>4, <2>5, <2>6, ReservationKept
<1>. QED
  BY <1>0, <1>2, <1>3, JobOkStep

LEMMA NextReservationInv ==
    ASSUME NothingLost
    PROVE  HubInv /\ ReservationInv /\ [Next]_vars => ReservationInv'
<1>. SUFFICES ASSUME HubInv, ReservationInv, [Next]_vars PROVE ReservationInv'
  OBVIOUS
<1>1. CASE UNCHANGED <<record, request, pending, reserved>>
           /\ (phase' = phase \/ (phase # "closed" /\ phase' # "closed"))
  <2>1. \A b \in Actions : (Held(b)' <=> Held(b)) /\ (Active(b)' <=> Active(b))
    BY <1>1 DEF Held, Active
  <2>2. \A b \in Actions : Active(b)' /\ phase # "closed" => request'[b].pc = "created" \/ pending'[b] # None
    BY <1>1, <2>1 DEF ReservationInv, ActiveIsTracked, HubInv, TypeOK
  <2>. QED
    BY <1>1, <2>1, <2>2, ReservationKept
<1>2. CASE UNCHANGED vars
  BY <1>1, <1>2 DEF vars, dispatchVars
<1>3. CASE QuietStep
  BY <1>1, <1>3, QuietUnchanged, QuietPhase DEF HubInv
<1>4. CASE FinishClose
  <2>1. phase' = "closed" /\ pending' = [a \in Actions |-> None] /\ UNCHANGED <<record, request>>
    BY <1>4 DEF FinishClose
  <2>2. \A a \in Actions : Held(a)' => Held(a)
    BY <2>1 DEF Held, Active
  <2>. QED
    BY <2>1, <2>2 DEF ReservationInv, HeldIsReserved, HeldAlone, ActiveIsTracked
<1>5. CASE Restart
  BY <1>5 DEF Restart, NothingLost
<1>. QED
  BY <1>2, <1>3, <1>4, <1>5, RequestReservation, CreateReservation, DispatchReservation,
     WriteReservation, JobOkReservation
  DEF Next, RequestStep, JobStep, QuietStep

-----------------------------------------------------------------------------
(* What follows. *)

THEOREM HubInvariant == Spec => []HubInv
<1>1. HubInv /\ [Next]_vars => HubInv'
  BY NextHubInv
<1>. QED
  BY <1>1, InitHubInv, PTL DEF Spec

\* The set of reserved machines never holds one that nothing accounts for,
\* whichever query fails and whenever the Hub restarts.
THEOREM ReservationsAreBalanced == Spec => []ReservationsBalanced
<1>1. HubInv => ReservationsBalanced
  BY DEF HubInv
<1>. QED
  BY <1>1, HubInvariant, PTL

\* No step, and no restart, writes the row of an action that has ended.
THEOREM EndedRowsAreFinal == Spec => EndedRowsStay
<1>1. HubInv /\ [Next]_vars => [\A a \in Actions : record[a] \in TerminalStatuses => record'[a] = record[a]]_vars
  BY NextHubInv DEF RowsStay
<1>. QED
  BY <1>1, HubInvariant, PTL DEF Spec, EndedRowsStay

\* With the in-memory store, a timeout or interrupt only ever fails to record
\* its outcome when the action has already ended, as its comment says.
THEOREM MemorySwallowsNothing ==
    ASSUME AtomicStore
    PROVE  Spec => []SwallowedOnlyWhenEnded
<1>1. HubInv => SwallowedOnlyWhenEnded
  BY DEF HubInv, JobsSound, SoundJob, SwallowedOnlyWhenEnded
<1>. QED
  BY <1>1, HubInvariant, PTL

\* After close() no action is requested, whatever hello was still being stored.
THEOREM ClosedHubIsQuiet == Spec => ClosedHubTakesNoRequest
<1>. DEFINE quiet == phase = "closed" => \A a \in Actions : request[a].pc = "none" => request'[a].pc = "none"
<1>1. HubInv /\ [Next]_vars => [quiet]_vars
  <2>. SUFFICES ASSUME HubInv, Next, phase = "closed", NEW a \in Actions, request[a].pc = "none"
                PROVE  request'[a].pc = "none"
    OBVIOUS
  <2>1. CASE QuietStep \/ FinishClose \/ (\E j \in Jobs : JobUpdate(j) \/ JobWrite(j) \/ JobOk(j))
    BY <2>1, QuietUnchanged DEF FinishClose, JobUpdate, JobWrite, JobOk, dispatchVars
  <2>2. CASE Restart
    BY <2>2 DEF Restart
  <2>3. ASSUME NEW b \in Actions, NEW m \in Machines, RequestAction(b, m)
        PROVE  FALSE
    BY <2>3 DEF RequestAction, HubInv, ClosedForgets
  <2>4. ASSUME NEW b \in Actions, CreateRecord(b) \/ Dispatch(b)
        PROVE  request'[a].pc = "none"
    <3>1. b # a /\ request \in [Actions -> RequestType]
      BY <2>4 DEF CreateRecord, Dispatch, HubInv, TypeOK
    <3>. QED
      BY <2>4, <3>1 DEF CreateRecord, Dispatch
  <2>. QED
    BY <2>1, <2>2, <2>3, <2>4 DEF Next, RequestStep, JobStep, QuietStep
<1>. QED
  BY <1>1, HubInvariant, PTL DEF Spec, ClosedHubTakesNoRequest

THEOREM ReservationInvariant ==
    ASSUME NothingLost
    PROVE  Spec => []ReservationInv
<1>1. HubInv /\ ReservationInv /\ [Next]_vars => ReservationInv'
  BY NextReservationInv
<1>. QED
  BY <1>1, InitReservationInv, HubInvariant, PTL DEF Spec

\* "There is at most one active action per Agent", as long as no INSERT takes
\* effect behind the Hub's back and the Hub is not restarted.
THEOREM OneActive ==
    ASSUME NothingLost
    PROVE  Spec => []OneActivePerMachine
<1>1. ReservationInv => OneActivePerMachine
  BY DEF ReservationInv, HeldAlone, Held, OneActivePerMachine
<1>. QED
  BY <1>1, ReservationInvariant, PTL

\* An active row is one the Hub tracks, under the same condition.
THEOREM ActiveTracked ==
    ASSUME NothingLost
    PROVE  Spec => []ActiveIsTracked
<1>1. ReservationInv => ActiveIsTracked
  BY DEF ReservationInv
<1>. QED
  BY <1>1, ReservationInvariant, PTL

-----------------------------------------------------------------------------
(* The Hub implements the lifecycle. *)

LEMMA LifecycleStep ==
    ASSUME HubInv, ReservationInv, NothingLost, [Next]_vars
    PROVE  [Lifecycle!LifecycleNext]_(Lifecycle!lifecycleVars)
<1>. DEFINE target == [a \in Actions |-> request[a].machine]
<1>1. /\ record \in [Actions -> Statuses \cup {"ABSENT"}] /\ request \in [Actions -> RequestType]
      /\ RequestsOK /\ HeldAlone
  BY DEF HubInv, TypeOK, ReservationInv
<1>2. CASE UNCHANGED <<record, request>>
  BY <1>2 DEF Lifecycle!lifecycleVars
<1>3. ASSUME NEW a \in Actions, NEW m \in Machines, RequestAction(a, m)
      PROVE  Lifecycle!LifecycleNext
  <2>1. /\ request' = [request EXCEPT ![a] = [pc |-> "creating", machine |-> m, socket |-> sessions[m]]]
        /\ request[a].machine = None /\ UNCHANGED record
    BY <1>1, <1>3 DEF RequestAction, RequestsOK
  <2>2. target' = [target EXCEPT ![a] = m]
    BY <1>1, <2>1
  <2>. QED
    BY <2>1, <2>2 DEF Lifecycle!LifecycleNext, Lifecycle!Request
<1>4. ASSUME NEW a \in Actions, CreateRecord(a)
      PROVE  [Lifecycle!LifecycleNext]_(Lifecycle!lifecycleVars)
  <2>1. PICK pc : request' = [request EXCEPT ![a].pc = pc]
    BY <1>4 DEF CreateRecord
  <2>2. target' = target
    <3>1. \A b \in Actions : request'[b].machine = request[b].machine
      BY <1>1, <2>1 DEF RequestType
    <3>. QED
      BY <3>1
  <2>3. CASE UNCHANGED record
    BY <2>2, <2>3 DEF Lifecycle!lifecycleVars
  <2>4. CASE record' = [record EXCEPT ![a] = "PENDING"]
    <3>1. record[a] = "ABSENT" /\ request[a].machine \in Machines /\ Held(a)
      BY <1>1, <1>4 DEF CreateRecord, RequestsOK, Held
    <3>2. ASSUME NEW b \in Actions, request[b].machine = request[a].machine, record[b] \in ActiveStatuses
          PROVE  FALSE
      <4>1. Held(b)
        BY <3>2 DEF Held, Active
      <4>2. b = a
        BY <1>1, <3>1, <3>2, <4>1 DEF HeldAlone
      <4>. QED
        BY <3>1, <3>2, <4>2 DEF ActiveStatuses
    <3>3. Lifecycle!ActiveOn(target[a]) = {}
      BY <3>2 DEF Lifecycle!ActiveOn, Lifecycle!ActiveStatuses, ActiveStatuses
    <3>4. Lifecycle!Create(a)
      BY <2>2, <2>4, <3>1, <3>3 DEF Lifecycle!Create
    <3>. QED
      BY <3>4 DEF Lifecycle!LifecycleNext
  <2>. QED
    BY <1>4, <2>3, <2>4 DEF CreateRecord
<1>5. ASSUME NEW a \in Actions, Dispatch(a)
      PROVE  UNCHANGED Lifecycle!lifecycleVars
  <2>1. \A b \in Actions : request'[b].machine = request[b].machine
    BY <1>1, <1>5 DEF Dispatch, RequestType
  <2>. QED
    BY <1>5, <2>1 DEF Dispatch, Lifecycle!lifecycleVars
<1>6. ASSUME NEW j \in Jobs, JobUpdate(j) \/ JobWrite(j)
      PROVE  [Lifecycle!LifecycleNext]_(Lifecycle!lifecycleVars)
  <2>1. UNCHANGED request
    BY <1>6 DEF JobUpdate, JobWrite, dispatchVars
  <2>2. CASE UNCHANGED record
    BY <1>2, <2>1, <2>2
  <2>3. CASE /\ job[j].at \in Actions
             /\ ValidTransition(record[job[j].at], job[j].goal)
             /\ record' = [record EXCEPT ![job[j].at] = job[j].goal]
    <3>1. job[j].goal \in Statuses
      BY <2>3, TransitionsAreFromActive
    <3>2. Lifecycle!Advance(job[j].at, job[j].goal)
      BY <2>1, <2>3 DEF Lifecycle!Advance, Lifecycle!ValidTransition, ValidTransition
    <3>. QED
      BY <2>3, <3>1, <3>2 DEF Lifecycle!LifecycleNext, Lifecycle!Statuses, Lifecycle!ActiveStatuses,
         Lifecycle!TerminalStatuses, Statuses, ActiveStatuses, TerminalStatuses
  <2>. QED
    BY <1>6, <2>2, <2>3, WritesRows DEF HubInv
<1>7. CASE QuietStep \/ FinishClose \/ (\E j \in Jobs : JobOk(j)) \/ UNCHANGED vars
  BY <1>2, <1>7, QuietUnchanged DEF FinishClose, JobOk, vars, dispatchVars
<1>8. CASE Restart
  BY <1>8 DEF Restart, NothingLost
<1>. QED
  BY <1>3, <1>4, <1>5, <1>6, <1>7, <1>8 DEF Next, RequestStep, JobStep, QuietStep

\* The Hub's rows behave as ActionLifecycle says: created PENDING, one active
\* action per machine, and only documented transitions.
THEOREM HubImplementsLifecycle ==
    ASSUME NothingLost
    PROVE  Spec => FollowsLifecycle
<1>1. Init => Lifecycle!LifecycleInit
  BY DEF Init, Lifecycle!LifecycleInit
<1>2. HubInv /\ ReservationInv /\ [Next]_vars => [Lifecycle!LifecycleNext]_(Lifecycle!lifecycleVars)
  BY LifecycleStep
<1>. QED
  BY <1>1, <1>2, HubInvariant, ReservationInvariant, PTL
  DEF Spec, FollowsLifecycle, Lifecycle!LifecycleSpec
=============================================================================
