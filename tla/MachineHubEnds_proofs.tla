------------------------ MODULE MachineHubEnds_proofs ------------------------
(***************************************************************************)
(* How actions and connections of the Hub come to their ends: the Hub's    *)
(* own timeout lies ahead of every active action, and a connection that    *)
(* was ended does not stay open.  For every set of machines, connections   *)
(* and actions.                                                            *)
(***************************************************************************)
EXTENDS MachineHubSafety_proofs

-----------------------------------------------------------------------------
(* The job of a timeout is moved by nothing else than its timer and its own steps. *)

LEMMA TimeoutIsNoOther ==
    ASSUME NEW a \in Actions, NEW s \in Sockets
    PROVE  /\ Timeout(a) \in Jobs /\ Timeout(a) # Handler(s) /\ Timeout(a) # Detach(s)
           /\ Timeout(a) # Shutdown /\ Timeout(a)[1] = "timeout"
BY JobsMembers DEF Timeout, Handler, Detach, Shutdown

LEMMA RejectKeepsTimeouts ==
    ASSUME NEW s \in Sockets, NEW js, JobsOK(js), NEW a \in Actions,
           Reject(s, js) \/ job' = JobsAfterDetach(js, s)
    PROVE  job'[Timeout(a)] = js[Timeout(a)]
<1>1. JobsAfterDetach(js, s)[Timeout(a)] = js[Timeout(a)]
  BY TimeoutIsNoOther, JobsMembers DEF JobsAfterDetach, JobsOK
<1> QED BY <1>1 DEF Reject

LEMMA ConnectionsKeepTimeouts ==
    ASSUME TypeOK, NEW s \in Sockets, NEW a \in Actions,
           Connect(s) \/ HelloTimeout(s) \/ SocketClosed(s) \/ GoStale(s) \/ Arrive(s) \/ Continue(s)
    PROVE  job'[Timeout(a)] = job[Timeout(a)]
<1>1. JobsOK(job) /\ job \in [Jobs -> JobType]
  BY DEF TypeOK, JobsOK
<1>2. CASE Reject(s, job) \/ job' = JobsAfterDetach(job, s)
  BY <1>1, <1>2, RejectKeepsTimeouts
<1>3. ASSUME NEW r, job' = [job EXCEPT ![Handler(s)] = r]
      PROVE  job'[Timeout(a)] = job[Timeout(a)]
  BY <1>1, <1>3, TimeoutIsNoOther, JobsMembers
<1>4. CASE Connect(s) \/ HelloTimeout(s) \/ SocketClosed(s) \/ GoStale(s)
  BY <1>2, <1>4 DEF Connect, HelloTimeout, SocketClosed, GoStale
<1>5. CASE Arrive(s)
  BY <1>2, <1>3, <1>5 DEF Arrive, Enqueue, InvalidMessage, Hello, Heartbeat, ActionReport, RefuseMessage
<1>6. CASE Continue(s)
  BY <1>2, <1>3, <1>6 DEF Continue, DropQueued, HelloRead, HelloUpsert, HelloStored, HelloInstall,
     HeartbeatRead, HeartbeatUpsert, HeartbeatStored, HandlerFails
<1> QED BY <1>4, <1>5, <1>6

LEMMA OtherJobsKeepTimeouts ==
    ASSUME TypeOK, NEW j \in Jobs, NEW a \in Actions, j # Timeout(a), JobStep(j)
    PROVE  job'[Timeout(a)] = job[Timeout(a)]
<1>1. JobsOK(job) /\ job \in [Jobs -> JobType] /\ Timeout(a) \in Jobs
  BY JobsMembers DEF TypeOK, JobsOK
<1>2. ASSUME NEW r, job' = [job EXCEPT ![j] = r]
      PROVE  job'[Timeout(a)] = job[Timeout(a)]
  BY <1>1, <1>2
<1>3. ASSUME RefuseReport(j), j[1] = "handler"
      PROVE  job'[Timeout(a)] = job[Timeout(a)]
  <2>1. JobsOK([job EXCEPT ![j] = IdleJob])
    BY <1>1, JobsOKExcept, JobOnType DEF Statuses
  <2>2. j[2] \in Sockets
    BY <1>3, JobsMembers
  <2>3. job'[Timeout(a)] = [job EXCEPT ![j] = IdleJob][Timeout(a)]
    BY <1>3, <2>1, <2>2, RejectKeepsTimeouts DEF RefuseReport
  <2> QED BY <1>1, <2>3
<1>4. CASE JobGet(j)
  <2>1. CASE RefuseReport(j) /\ j[1] = "handler"
    BY <1>3, <2>1
  <2>2. CASE \E b : Swallow(j, b)
    BY <1>2, <2>2 DEF Swallow
  <2>3. CASE \E b \in job[j].todo : job' = [job EXCEPT ![j].pc = IF AtomicStore THEN "update" ELSE "write",
                                             ![j].at = b, ![j].cur = record[b]]
    BY <1>1, <2>3
  <2> QED BY <1>4, <2>1, <2>2, <2>3 DEF JobGet, Reporting
<1>5. CASE JobUpdate(j) \/ JobWrite(j)
  BY <1>1, <1>5 DEF JobUpdate, JobWrite
<1>6. CASE JobOk(j)
  BY <1>2, <1>6 DEF JobOk
<1>7. CASE JobFailed(j)
  <2>1. CASE Reporting(j)
    BY <1>3, <1>7, <2>1 DEF JobFailed, Reporting
  <2>2. CASE ~Reporting(j)
    BY <1>2, <1>7, <2>2 DEF JobFailed, Swallow
  <2> QED BY <2>1, <2>2
<1> QED BY <1>4, <1>5, <1>6, <1>7 DEF JobStep

-----------------------------------------------------------------------------
(* An end ahead of every active action. *)

Ahead(a) == pending[a] # None /\ Active(a) => timer[a] \/ a \in job[Timeout(a)].todo

\* A step that leaves the timer and the timeout alone keeps the end ahead.
LEMMA AheadKept ==
    ASSUME NEW a \in Actions, Ahead(a), timer'[a] = timer[a], job'[Timeout(a)] = job[Timeout(a)],
           pending'[a] # None => pending[a] # None, Active(a)' => Active(a)
    PROVE  Ahead(a)'
BY DEF Ahead

\* A timeout is through with an action only when the action has ended.
LEMMA OwnStepsAhead ==
    ASSUME AtomicStore, HubInv, NEW a \in Actions, Ahead(a), JobStep(Timeout(a)),
           pending'[a] # None => pending[a] # None, Active(a)' => Active(a)
    PROVE  Ahead(a)'
<1> DEFINE j == Timeout(a)
<1>1. /\ j \in Jobs /\ j[1] = "timeout" /\ ~Reporting(j) /\ SoundJob(j)
      /\ job \in [Jobs -> JobType]
  BY JobsMembers, HandlerIsOne DEF HubInv, TypeOK, JobsOK, Reporting, JobsSound
<1>2. record \in [Actions -> Statuses \cup {"ABSENT"}]
  BY DEF HubInv, TypeOK
<1> HIDE DEF j
<1>3. job[j] \in JobType
  BY <1>1
<1>4. ASSUME NEW b, job' = [job EXCEPT ![j] = JobAfter(j, b)], record[b] \notin ActiveStatuses \/ b # a,
             timer'[a] = timer[a] \/ ~(pending'[a] # None), record' = record
      PROVE  Ahead(a)'
  <2>1. job'[j] = JobOn(job[j].todo \ {b}, job[j].goal)
    BY <1>1, <1>4 DEF JobAfter
  <2>2. job'[j].todo = job[j].todo \ {b}
    BY <2>1 DEF JobOn, IdleJob
  <2> QED BY <1>4, <2>2 DEF Ahead, Active, j
<1>5. CASE JobGet(j)
  <2>1. ASSUME NEW b \in job[j].todo, Swallow(j, b), record[b] \notin ActiveStatuses
        PROVE  Ahead(a)'
    BY <1>4, <1>5, <2>1 DEF JobGet, Swallow, dispatchVars
  <2>2. ASSUME NEW b \in job[j].todo,
               job' = [job EXCEPT ![j].pc = IF AtomicStore THEN "update" ELSE "write",
                                  ![j].at = b, ![j].cur = record[b]]
        PROVE  Ahead(a)'
    <3>1. job'[j].todo = job[j].todo
      BY <1>1, <1>3, <2>2 DEF JobType
    <3>2. UNCHANGED <<timer, pending, record>>
      BY <1>5 DEF JobGet, dispatchVars
    <3> QED BY <3>1, <3>2 DEF Ahead, Active, j
  <2> QED BY <1>1, <1>5, <2>1, <2>2 DEF JobGet
<1>6. CASE JobUpdate(j) \/ JobWrite(j)
  <2>1. job'[j].todo = job[j].todo
    BY <1>1, <1>3, <1>6 DEF JobUpdate, JobWrite, JobType
  <2>2. UNCHANGED <<timer, pending>>
    BY <1>6 DEF JobUpdate, JobWrite, dispatchVars
  <2> QED BY <2>1, <2>2 DEF Ahead, j
<1>7. CASE JobOk(j)
  <2>1. job[j].goal \in TerminalStatuses /\ record[job[j].at] \in TerminalStatuses
    BY <1>1, <1>7 DEF JobOk, SoundJob, TerminalStatuses
  <2>2. record[job[j].at] \notin ActiveStatuses
    BY <2>1 DEF TerminalStatuses, ActiveStatuses
  <2>3. CASE job[j].at = a
    <3>1. record'[a] \notin ActiveStatuses
      BY <1>7, <2>2, <2>3 DEF JobOk
    <3> QED BY <3>1 DEF Ahead, Active
  <2>4. CASE job[j].at # a
    <3>1. timer'[a] = timer[a]
      BY <1>7, <2>4 DEF JobOk, ClearPending, HubInv, TypeOK
    <3> QED BY <1>4, <1>7, <2>4, <3>1 DEF JobOk
  <2> QED BY <2>3, <2>4
<1>8. CASE JobFailed(j)
  <2>1. record[job[j].at] \notin ActiveStatuses
    BY <1>1, <1>8 DEF JobFailed, SoundJob, TerminalStatuses, ActiveStatuses
  <2> QED BY <1>1, <1>4, <1>8, <2>1 DEF JobFailed, Swallow, dispatchVars
<1> QED BY <1>5, <1>6, <1>7, <1>8 DEF JobStep, j

LEMMA RowsEnd ==
    ASSUME HubInv, NEW j \in Jobs, JobStep(j), NEW a \in Actions
    PROVE  /\ Active(a)' => Active(a)
           /\ pending'[a] # None => pending[a] # None
           /\ j # Timeout(a) => timer'[a] = timer[a] \/ pending'[a] = None
<1>1. CASE JobGet(j) \/ JobFailed(j)
  BY <1>1 DEF JobGet, JobFailed, dispatchVars, Active
<1>2. CASE JobUpdate(j) \/ JobWrite(j)
  <2>1. \/ UNCHANGED record
        \/ /\ job[j].at \in Actions
           /\ ValidTransition(record[job[j].at], job[j].goal)
           /\ record' = [record EXCEPT ![job[j].at] = job[j].goal]
    BY <1>2, WritesRows DEF HubInv
  <2>2. Active(a)' => Active(a)
    BY <2>1, TransitionsAreFromActive DEF Active, HubInv, TypeOK
  <2> QED BY <1>2, <2>2 DEF JobUpdate, JobWrite, dispatchVars
<1>3. CASE JobOk(j)
  <2>1. record' = record
    BY <1>3 DEF JobOk
  <2>2. /\ timer \in [Actions -> BOOLEAN] /\ pending \in [Actions -> Sockets \cup {None}]
        /\ job[j].at \in Actions
    BY <1>3 DEF HubInv, TypeOK, JobsOK, JobOk
  <2>3. UNCHANGED <<timer, pending>> \/ (/\ timer' = [timer EXCEPT ![job[j].at] = FALSE]
                                         /\ pending' = [pending EXCEPT ![job[j].at] = None])
    BY <1>3 DEF JobOk, ClearPending
  <2> QED BY <2>1, <2>2, <2>3 DEF Active
<1> QED BY <1>1, <1>2, <1>3 DEF JobStep

\* With the in-memory store, until close() clears the maps, an active action has an end ahead
\* that does not depend on its Agent: its timer, or the timeout that the timer started.
THEOREM TimeoutIsAhead ==
    ASSUME AtomicStore
    PROVE  Spec => []TimeoutAhead
<1>1. Init => TimeoutAhead
  BY DEF Init, TimeoutAhead
<1>2. HubInv /\ TimeoutAhead /\ [Next]_vars => TimeoutAhead'
  <2> SUFFICES ASSUME HubInv, TimeoutAhead, [Next]_vars, phase' # "closed", NEW a \in Actions
               PROVE  Ahead(a)'
    BY DEF TimeoutAhead, Ahead
  <2>1. /\ TypeOK /\ record \in [Actions -> Statuses \cup {"ABSENT"}] /\ timer \in [Actions -> BOOLEAN]
        /\ pending \in [Actions -> Sockets \cup {None}] /\ RequestsOK
        /\ job \in [Jobs -> JobType] /\ Timeout(a) \in Jobs
    BY JobsMembers DEF HubInv, TypeOK, JobsOK
  <2>2. CASE phase # "closed"
    <3>1. Ahead(a)
      BY <2>2 DEF TimeoutAhead, Ahead
    <3>2. CASE UNCHANGED vars
      BY <3>1, <3>2, AheadKept DEF vars, dispatchVars, Active
    <3>3. ASSUME NEW s \in Sockets,
                 Connect(s) \/ HelloTimeout(s) \/ SocketClosed(s) \/ GoStale(s) \/ Arrive(s) \/ Continue(s)
          PROVE  Ahead(a)'
      <4>1. UNCHANGED <<record, pending>>
        BY <3>3, QuietUnchanged DEF QuietStep
      <4>2. timer' = timer
        BY <3>3 DEF Connect, HelloTimeout, SocketClosed, GoStale, Arrive, Enqueue, InvalidMessage, Hello,
           Heartbeat, ActionReport, RefuseMessage, Suspend, Continue, DropQueued, HelloRead, HelloUpsert,
           HelloStored, HelloInstall, HeartbeatRead, HeartbeatUpsert, HeartbeatStored, dispatchVars
      <4> QED BY <2>1, <3>1, <3>3, <4>1, <4>2, ConnectionsKeepTimeouts, AheadKept DEF Active
    <3>4. ASSUME NEW b \in Actions, \E m \in Machines : RequestAction(b, m)
          PROVE  Ahead(a)'
      BY <3>1, <3>4, AheadKept DEF RequestAction, Active
    <3>5. ASSUME NEW b \in Actions, CreateRecord(b)
          PROVE  Ahead(a)'
      <4>1. pending[b] = None
        BY <2>1, <3>5 DEF CreateRecord, RequestsOK
      <4>2. UNCHANGED <<pending, timer, job>> /\ \A c \in Actions \ {b} : record'[c] = record[c]
        BY <2>1, <3>5 DEF CreateRecord
      <4> QED BY <3>1, <4>1, <4>2 DEF Ahead, Active
    <3>6. ASSUME NEW b \in Actions, Dispatch(b)
          PROVE  Ahead(a)'
      BY <2>1, <3>1, <3>6 DEF Dispatch, Ahead, Active
    <3>7. ASSUME NEW b \in Actions, TimerFires(b)
          PROVE  Ahead(a)'
      <4>1. CASE b = a
        <5>1. job'[Timeout(a)].todo = {a}
          BY <2>1, <3>7, <4>1 DEF TimerFires, JobOn
        <5> QED BY <5>1 DEF Ahead
      <4>2. CASE b # a
        <5>1. Timeout(b) # Timeout(a)
          BY <4>2 DEF Timeout
        <5> QED BY <2>1, <3>1, <3>7, <4>2, <5>1 DEF TimerFires, Ahead, Active
      <4> QED BY <4>1, <4>2
    <3>8. ASSUME NEW j \in Jobs, JobStep(j)
          PROVE  Ahead(a)'
      <4>1. CASE j = Timeout(a)
        BY <2>1, <3>1, <3>8, <4>1, RowsEnd, OwnStepsAhead
      <4>2. CASE j # Timeout(a)
        <5>1. job'[Timeout(a)] = job[Timeout(a)]
          BY <2>1, <3>8, <4>2, OtherJobsKeepTimeouts
        <5> QED BY <3>1, <3>8, <4>2, <5>1, RowsEnd DEF Ahead
      <4> QED BY <4>1, <4>2
    <3>9. CASE Close
      <4>1. job'[Timeout(a)] = job[Timeout(a)]
        BY <2>1, <3>9, HandlerIsOne DEF Close, Timeout, Shutdown
      <4> QED BY <3>1, <3>9, <4>1 DEF Close, Ahead, Active, dispatchVars
    <3>12. CASE CloseFails
      <4>1. job'[Timeout(a)] = job[Timeout(a)]
        BY <2>1, <3>12, HandlerIsOne DEF CloseFails, Timeout, Shutdown
      <4> QED BY <3>1, <3>12, <4>1 DEF CloseFails, Ahead, Active, dispatchVars
    <3>10. ~FinishClose
      BY DEF FinishClose
    <3>11. CASE Restart
      BY <3>11 DEF Restart, Ahead
    <3> QED BY <3>2, <3>3, <3>4, <3>5, <3>6, <3>7, <3>8, <3>9, <3>10, <3>11, <3>12 DEF Next, RequestStep
  <2>3. CASE phase = "closed"
    <3>1. CASE Restart
      BY <3>1 DEF Restart, Ahead
    <3>2. CASE ~Restart
      <4>1. phase' = phase
        BY <2>1, <2>3, <3>2, QuietPhase DEF Next, QuietStep, RequestStep, JobStep, RequestAction, CreateRecord,
           Dispatch, JobUpdate, JobWrite, JobOk, FinishClose, vars
      <4> QED BY <2>3, <4>1
    <3> QED BY <3>1, <3>2
  <2> QED BY <2>2, <2>3
<1> QED BY <1>1, <1>2, HubInvariant, PTL DEF Spec

-----------------------------------------------------------------------------
(* No connection that was ended stays open. *)

Greetings == {"helloGet", "helloUpsert", "helloStored", "helloInterrupt"}

\* A socket that is not yet used was not ended; an active session's hello is complete; and a
\* connection whose hello is being handled has no session, so it does not replace itself.
ConnectionsOK ==
    /\ \A s \in Sockets : wire[s] = "unused" => s \notin connected /\ ~Terminal(s)
    /\ \A m \in Machines : sessions[m] # None => HelloReceived(sessions[m])
    /\ \A s \in Sockets : task[s].pc \in Greetings => ~HelloReceived(s)
    /\ \A s \in Sockets : task[s].pc = "helloInterrupt" => task[s].replaced # s

EndsInv == ConnectionsOK /\ EndedIsClosed

\* What a step does that neither opens a connection nor installs a session: it ends none
\* without closing it, and leaves alone the hellos that are replacing a session.
EndsNoneOpen ==
    /\ connected' \subseteq connected
    /\ \A t \in Sockets :
         /\ wire'[t] = "unused" => wire[t] = "unused"
         /\ wire[t] = "unused" => ~Terminal(t)'
         /\ conn'[t].machine = conn[t].machine
         /\ t \in connected' /\ Terminal(t)' /\ wire'[t] = "open" => Terminal(t) /\ wire[t] = "open"
    /\ \A m \in Machines : sessions'[m] = sessions[m] \/ sessions'[m] = None
    /\ \A t \in Sockets :
         \/ task'[t] = task[t]
         \/ /\ task[t].pc # "helloInterrupt" /\ task'[t].pc # "helloInterrupt"
            /\ task'[t].pc \in Greetings => ~HelloReceived(t)

LEMMA EndsNoneOpenKeeps ==
    ASSUME TypeOK, EndsInv, EndsNoneOpen
    PROVE  EndsInv'
<1>1. ConnectionsOK /\ EndedIsClosed
  BY DEF EndsInv
<1>2. connected' \subseteq Sockets /\ connected \subseteq Sockets
  BY DEF TypeOK, EndsNoneOpen
<1>3. \A s \in Sockets : wire'[s] = "unused" => s \notin connected' /\ ~Terminal(s)'
  BY <1>1 DEF ConnectionsOK, EndsNoneOpen
<1>4. \A m \in Machines : sessions'[m] # None => HelloReceived(sessions[m])'
  <2> SUFFICES ASSUME NEW m \in Machines, sessions'[m] # None
               PROVE  conn'[sessions'[m]].machine # None
    BY DEF HelloReceived
  <2>1. sessions'[m] = sessions[m] /\ sessions[m] \in Sockets
    BY DEF EndsNoneOpen, TypeOK
  <2> QED BY <1>1, <2>1 DEF ConnectionsOK, EndsNoneOpen, HelloReceived
<1>5. \A s \in Sockets : task'[s].pc \in Greetings => ~HelloReceived(s)'
  BY <1>1 DEF ConnectionsOK, EndsNoneOpen, HelloReceived
<1>6. \A s \in Sockets : task'[s].pc = "helloInterrupt" => task'[s].replaced # s
  BY <1>1 DEF ConnectionsOK, EndsNoneOpen
<1>7. EndedIsClosed'
  BY <1>1, <1>2 DEF EndedIsClosed, EndsNoneOpen
<1> QED BY <1>3, <1>4, <1>5, <1>6, <1>7 DEF EndsInv, ConnectionsOK

\* What reject() does, and what it leaves.
LEMMA RejectCloses ==
    ASSUME TypeOK, ConnectionsOK, NEW s \in Sockets, NEW js, Reject(s, js)
    PROVE  /\ \A t \in Sockets :
                /\ wire'[t] = "unused" => wire[t] = "unused"
                /\ wire[t] = "unused" => ~Terminal(t)'
                /\ conn'[t].machine = conn[t].machine
                /\ Terminal(t)' /\ wire'[t] = "open" => Terminal(t) /\ wire[t] = "open"
           /\ \A m \in Machines : sessions'[m] = sessions[m] \/ sessions'[m] = None
<1>1. /\ conn \in [Sockets -> ConnType] /\ wire \in [Sockets -> {"unused", "open", "closing", "closed"}]
      /\ sessions \in [Machines -> Sockets \cup {None}]
  BY DEF TypeOK
<1>2. \A m \in Machines : sessions'[m] = sessions[m] \/ sessions'[m] = None
  BY <1>1 DEF Reject, SessionsWithout
<1>3. CASE s \in connected /\ ~Terminal(s)
  <2>1. /\ conn' = [conn EXCEPT ![s].reason = "rejected"]
        /\ wire' = IF wire[s] = "open" THEN [wire EXCEPT ![s] = "closing"] ELSE wire
    BY <1>3 DEF Reject
  <2>2. \A t \in Sockets : conn'[t].machine = conn[t].machine /\ (t # s => conn'[t] = conn[t])
    BY <1>1, <2>1 DEF ConnType
  <2>3. \A t \in Sockets : t # s => wire'[t] = wire[t]
    BY <1>1, <2>1
  <2>4. wire'[s] # "open" /\ (wire'[s] = "unused" => wire[s] = "unused") /\ wire[s] # "unused"
    BY <1>1, <1>3, <2>1 DEF ConnectionsOK
  <2> QED BY <1>2, <2>2, <2>3, <2>4 DEF Terminal, ConnectionsOK
<1>4. CASE ~(s \in connected /\ ~Terminal(s))
  BY <1>2, <1>4 DEF Reject, Terminal, ConnectionsOK
<1> QED BY <1>3, <1>4

LEMMA RejectionEnds ==
    ASSUME TypeOK, ConnectionsOK, NEW s \in Sockets, NEW js, Reject(s, js), connected' = connected,
           task' = task \/ (task' = [task EXCEPT ![s] = IdleTask] /\ task[s].pc # "helloInterrupt")
    PROVE  EndsNoneOpen
<1>1. \A t \in Sockets :
         \/ task'[t] = task[t]
         \/ /\ task[t].pc # "helloInterrupt" /\ task'[t].pc # "helloInterrupt"
            /\ task'[t].pc \in Greetings => ~HelloReceived(t)
  BY DEF TypeOK, TasksOK, IdleTask, TaskAt, Greetings
<1> QED BY <1>1, RejectCloses DEF EndsNoneOpen

\* A step of a handler that touches neither the connections nor the sessions.
LEMMA HandlerStepEnds ==
    ASSUME TypeOK, ConnectionsOK, NEW s \in Sockets, UNCHANGED <<wire, connected, conn, sessions>>,
           \/ task' = task
           \/ \E r : /\ task' = [task EXCEPT ![s] = r]
                     /\ task[s].pc # "helloInterrupt" /\ r.pc # "helloInterrupt"
                     /\ r.pc \in Greetings => ~HelloReceived(s)
    PROVE  EndsNoneOpen
BY DEF EndsNoneOpen, Terminal, TypeOK, TasksOK, ConnectionsOK

LEMMA ConnectionsEnd ==
    ASSUME TypeOK, ConnectionsOK, NEW s \in Sockets,
           HelloTimeout(s) \/ SocketClosed(s) \/ GoStale(s) \/ Arrive(s)
    PROVE  EndsNoneOpen
<1>1. CASE HelloTimeout(s)
  <2>1. UNCHANGED <<connected, task>> /\ (UNCHANGED <<wire, conn, sessions>> \/ Reject(s, job))
    BY <1>1 DEF HelloTimeout, handlerVars
  <2> QED BY <2>1, RejectionEnds, HandlerStepEnds
<1>2. CASE SocketClosed(s)
  <2>1. /\ wire' = [wire EXCEPT ![s] = "closed"] /\ connected' = connected \ {s}
        /\ sessions' = SessionsWithout(s) /\ UNCHANGED <<conn, task>>
    BY <1>2 DEF SocketClosed, handlerVars
  <2>2. \A m \in Machines : sessions'[m] = sessions[m] \/ sessions'[m] = None
    BY <2>1 DEF SessionsWithout, TypeOK
  <2>3. \A t \in Sockets : t # s => wire'[t] = wire[t]
    BY <2>1 DEF TypeOK
  <2>4. wire'[s] = "closed"
    BY <2>1 DEF TypeOK
  <2> QED BY <2>1, <2>2, <2>3, <2>4 DEF EndsNoneOpen, Terminal, ConnectionsOK
<1>3. CASE GoStale(s)
  BY <1>3, HandlerStepEnds DEF GoStale, handlerVars
<1>4. CASE Arrive(s)
  <2>1. CASE Enqueue(s)
    BY <2>1, HandlerStepEnds DEF Enqueue, connectionVars
  <2>2. CASE RefuseMessage(s)
    BY <2>2, RejectionEnds DEF RefuseMessage
  <2>3. ASSUME NEW r, Suspend(s, r), TakeMessage(s), r.pc # "helloInterrupt",
               r.pc \in Greetings => ~HelloReceived(s)
        PROVE  EndsNoneOpen
    BY <2>3, HandlerStepEnds DEF Suspend, TakeMessage, connectionVars
  <2>4. /\ \A m : TaskAt("helloGet", m, 0).pc = "helloGet"
        /\ \A m, n : TaskAt("beatGet", m, n).pc \notin Greetings
        /\ TaskAt("report", None, 0).pc \notin Greetings
    BY DEF TaskAt, Greetings
  <2>5. ASSUME NEW m \in Machines, Hello(s, m)
        PROVE  EndsNoneOpen
    BY <2>2, <2>3, <2>4, <2>5 DEF Hello
  <2>6. ASSUME NEW n \in 1 .. MaxBeats, Heartbeat(s, n)
        PROVE  EndsNoneOpen
    BY <2>2, <2>3, <2>4, <2>6 DEF Heartbeat, Greetings
  <2>7. ASSUME NEW a \in Actions, NEW goal, ActionReport(s, a, goal)
        PROVE  EndsNoneOpen
    BY <2>2, <2>3, <2>4, <2>7 DEF ActionReport, Greetings
  <2> QED BY <1>4, <2>1, <2>2, <2>5, <2>6, <2>7 DEF Arrive, InvalidMessage
<1> QED BY <1>1, <1>2, <1>3, <1>4

\* The steps of a handler, but for those that end a hello.
LEMMA HandlersEnd ==
    ASSUME TypeOK, ConnectionsOK, NEW s \in Sockets,
           \/ DropQueued(s) \/ HelloRead(s) \/ HelloUpsert(s)
           \/ HeartbeatRead(s) \/ HeartbeatUpsert(s) \/ HeartbeatStored(s)
    PROVE  EndsNoneOpen
<1>1. task \in [Sockets -> TaskType] /\ task[s] \in TaskType
  BY DEF TypeOK, TasksOK
<1>2. CASE HandlerFails(s) /\ connected' = connected /\ task[s].pc # "helloInterrupt"
  BY <1>2, RejectionEnds DEF HandlerFails
<1>3. ASSUME NEW pc \in TaskStages, pc # "helloInterrupt", NEW r,
             task' = [task EXCEPT ![s].pc = pc] \/ task' = [task EXCEPT ![s].pc = pc, ![s].replaced = r],
             pc \in Greetings => ~HelloReceived(s),
             task[s].pc # "helloInterrupt", UNCHANGED <<wire, connected, conn, sessions>>
      PROVE  EndsNoneOpen
  <2>1. task' = [task EXCEPT ![s] = [@ EXCEPT !.pc = pc]] \/ task' = [task EXCEPT ![s] = [@ EXCEPT !.pc = pc, !.replaced = r]]
    BY <1>3
  <2>2. [task[s] EXCEPT !.pc = pc].pc = pc /\ [task[s] EXCEPT !.pc = pc, !.replaced = r].pc = pc
    BY <1>1 DEF TaskType
  <2>3. PICK q : task' = [task EXCEPT ![s] = q] /\ q.pc = pc
    BY <1>1, <2>1, <2>2
  <2>4. /\ task' = [task EXCEPT ![s] = q]
        /\ task[s].pc # "helloInterrupt" /\ q.pc # "helloInterrupt"
        /\ q.pc \in Greetings => ~HelloReceived(s)
    BY <1>3, <2>3
  <2> QED BY <1>3, <2>4, HandlerStepEnds
<1>4. IdleTask.pc = "idle" /\ "idle" \notin Greetings
  BY DEF IdleTask, TaskAt, Greetings
<1>5. CASE DropQueued(s)
  BY <1>5, HandlerStepEnds DEF DropQueued, connectionVars
<1>6. CASE HelloRead(s)
  <2>1. ~HelloReceived(s)
    BY <1>6 DEF HelloRead, ConnectionsOK, Greetings
  <2>2. CASE HandlerFails(s)
    BY <1>2, <1>6, <2>2 DEF HelloRead
  <2>3. CASE task' = [task EXCEPT ![s] = IdleTask] /\ UNCHANGED <<wire, connected, conn, sessions>>
    BY <1>4, <1>6, <2>3, HandlerStepEnds DEF HelloRead
  <2>4. CASE task' = [task EXCEPT ![s].pc = "helloUpsert"] /\ UNCHANGED <<wire, connected, conn, sessions>>
    BY <1>3, <1>6, <2>1, <2>4 DEF HelloRead, TaskStages
  <2> QED BY <1>6, <2>2, <2>3, <2>4 DEF HelloRead
<1>7. CASE HelloUpsert(s)
  <2>1. ~HelloReceived(s)
    BY <1>7 DEF HelloUpsert, ConnectionsOK, Greetings
  <2>2. CASE HandlerFails(s)
    BY <1>2, <1>7, <2>2 DEF HelloUpsert
  <2>3. CASE task' = [task EXCEPT ![s].pc = "helloStored"] /\ UNCHANGED <<wire, connected, conn, sessions>>
    BY <1>3, <1>7, <2>1, <2>3 DEF HelloUpsert, TaskStages
  <2> QED BY <1>7, <2>2, <2>3 DEF HelloUpsert
<1>8. CASE HeartbeatRead(s)
  <2>1. CASE HandlerFails(s)
    BY <1>2, <1>8, <2>1 DEF HeartbeatRead
  <2>2. CASE /\ task' = [task EXCEPT ![s].pc = "beatUpsert", ![s].replaced = row[task[s].machine]]
             /\ UNCHANGED <<wire, connected, conn, sessions>>
    BY <1>3, <1>8, <2>2 DEF HeartbeatRead, TaskStages, Greetings
  <2> QED BY <1>8, <2>1, <2>2 DEF HeartbeatRead
<1>9. CASE HeartbeatUpsert(s)
  <2>1. CASE HandlerFails(s)
    BY <1>2, <1>9, <2>1 DEF HeartbeatUpsert
  <2>2. CASE task' = [task EXCEPT ![s].pc = "beatStored"] /\ UNCHANGED <<wire, connected, conn, sessions>>
    BY <1>3, <1>9, <2>2 DEF HeartbeatUpsert, TaskStages, Greetings
  <2> QED BY <1>9, <2>1, <2>2 DEF HeartbeatUpsert
<1>10. CASE HeartbeatStored(s)
  BY <1>4, <1>10, HandlerStepEnds DEF HeartbeatStored
<1> QED BY <1>5, <1>6, <1>7, <1>8, <1>9, <1>10

LEMMA JobsEnd ==
    ASSUME TypeOK, ConnectionsOK, "get" \notin StoreFaults, NEW j \in Jobs, JobStep(j)
    PROVE  EndsNoneOpen
<1>1. ASSUME Reporting(j), RefuseReport(j), connected' = connected
      PROVE  EndsNoneOpen
  <2>1. j[2] \in Sockets /\ task[j[2]].pc # "helloInterrupt"
    BY <1>1, JobsMembers DEF Reporting
  <2> QED BY <1>1, <2>1, RejectionEnds DEF RefuseReport
<1>2. ASSUME UNCHANGED <<wire, connected, conn, sessions, task>>
      PROVE  EndsNoneOpen
  BY <1>2 DEF EndsNoneOpen, Terminal, ConnectionsOK
<1>3. CASE JobGet(j)
  BY <1>1, <1>2, <1>3 DEF JobGet, Swallow
<1>4. CASE JobUpdate(j) \/ JobWrite(j)
  BY <1>2, <1>4 DEF JobUpdate, JobWrite, connectionVars, handlerVars
<1>5. CASE JobOk(j)
  <2>1. CASE Reporting(j)
    <3>1. j[2] \in Sockets /\ task[j[2]].pc = "report" /\ task' = [task EXCEPT ![j[2]] = IdleTask]
      BY <1>5, <2>1, JobsMembers DEF JobOk, Reporting
    <3>2. IdleTask.pc = "idle" /\ "idle" \notin Greetings
      BY DEF IdleTask, TaskAt, Greetings
    <3> QED BY <1>5, <3>1, <3>2, HandlerStepEnds DEF JobOk, connectionVars
  <2>2. CASE ~Reporting(j)
    BY <1>2, <1>5, <2>2 DEF JobOk, connectionVars
  <2> QED BY <2>1, <2>2
<1>6. CASE JobFailed(j)
  BY <1>1, <1>2, <1>6 DEF JobFailed, Swallow
<1> QED BY <1>3, <1>4, <1>5, <1>6 DEF JobStep

LEMMA ConnectEnds ==
    ASSUME TypeOK, EndsInv, NEW s \in Sockets, Connect(s)
    PROVE  EndsInv'
<1>1. /\ wire[s] = "unused" /\ s \notin connected /\ ~Terminal(s)
      /\ UNCHANGED <<conn, sessions, task>>
  BY DEF EndsInv, ConnectionsOK, Connect, handlerVars
<1>2. connected' \subseteq connected \cup {s} /\ \A t \in Sockets : t # s => wire'[t] = wire[t]
  BY DEF Connect, TypeOK
<1>3. wire'[s] \in {"open", "closed"}
  BY DEF Connect, TypeOK
<1>4. ConnectionsOK'
  BY <1>1, <1>2, <1>3 DEF EndsInv, ConnectionsOK, Terminal, HelloReceived
<1>5. EndedIsClosed'
  BY <1>1, <1>2 DEF EndsInv, EndedIsClosed, Terminal, TypeOK
<1> QED BY <1>4, <1>5 DEF EndsInv

\* The session that a hello replaces is another connection's.
LEMMA ReplacesAnother ==
    ASSUME TypeOK, ConnectionsOK, NEW s \in Sockets, task[s].pc = "helloStored"
    PROVE  sessions[task[s].machine] # s
<1>1. task[s].machine \in Machines
  BY DEF TypeOK, TasksOK
<1> QED BY <1>1, NoneAssumption DEF ConnectionsOK, Greetings

\* A session is installed over that of another connection, which is closed.
LEMMA InstallEnds ==
    ASSUME TypeOK, EndsInv, NEW s \in Sockets, NEW m \in Machines, NEW old, NEW c,
           task[s].pc \in {"helloStored", "helloInterrupt"}, old # s,
           task[s].pc = "helloInterrupt" => old = task[s].replaced,
           c \in [Sockets -> ConnType], \A t \in Sockets : c[t].machine = conn[t].machine,
           \A t \in Sockets : c[t] = conn[t] \/ (t = old /\ t \in connected),
           InstallSession(s, m, old, c), connected' = connected
    PROVE  EndsInv'
<1>1. ConnectionsOK /\ EndedIsClosed
  BY DEF EndsInv
<1>2. /\ sessions' = [sessions EXCEPT ![m] = s] /\ conn' = [c EXCEPT ![s].machine = m]
      /\ task' = [task EXCEPT ![s] = IdleTask]
      /\ wire' = IF old # None /\ old # s /\ wire[old] = "open" THEN [wire EXCEPT ![old] = "closing"] ELSE wire
  BY DEF InstallSession
<1>3. /\ \A t \in Sockets : t # s => conn'[t] = c[t]
      /\ conn'[s].machine = m /\ conn'[s].reason = c[s].reason
      /\ \A t \in Sockets : t # s => task'[t] = task[t]
      /\ task'[s].pc = "idle"
      /\ m # None
  BY <1>2, NoneAssumption DEF ConnType, TypeOK, TasksOK, IdleTask, TaskAt
<1>4. \A t \in Sockets : t # old => wire'[t] = wire[t] /\ (Terminal(t)' <=> Terminal(t))
  BY <1>2, <1>3 DEF TypeOK, Terminal
<1>5. old \in Sockets => wire'[old] # "open" /\ (wire'[old] = "unused" => wire[old] = "unused")
  BY <1>2, NoneAssumption DEF TypeOK
<1>6. \A t \in Sockets : wire'[t] = "unused" => t \notin connected' /\ ~Terminal(t)'
  <2> SUFFICES ASSUME NEW t \in Sockets, wire'[t] = "unused"
               PROVE  t \notin connected' /\ ~Terminal(t)'
    OBVIOUS
  <2>1. wire[t] = "unused" /\ t \notin connected /\ ~Terminal(t)
    BY <1>1, <1>4, <1>5 DEF ConnectionsOK
  <2>2. c[t] = conn[t]
    BY <2>1
  <2> QED BY <1>3, <2>1, <2>2 DEF Terminal
<1>7. \A n \in Machines : sessions'[n] # None => HelloReceived(sessions[n])'
  <2> SUFFICES ASSUME NEW n \in Machines, sessions'[n] # None
               PROVE  conn'[sessions'[n]].machine # None
    BY DEF HelloReceived
  <2>1. sessions'[n] = s \/ (sessions'[n] = sessions[n] /\ sessions[n] \in Sockets)
    BY <1>2 DEF TypeOK
  <2> QED BY <1>1, <1>3, <2>1 DEF ConnectionsOK, HelloReceived
<1>8. \A t \in Sockets : task'[t].pc \in Greetings => ~HelloReceived(t)'
  BY <1>1, <1>3 DEF ConnectionsOK, HelloReceived, Greetings
<1>9. \A t \in Sockets : task'[t].pc = "helloInterrupt" => task'[t].replaced # t
  BY <1>1, <1>3 DEF ConnectionsOK
<1>10. EndedIsClosed'
  <2> SUFFICES ASSUME NEW t \in Sockets, t \in connected, Terminal(t)', wire'[t] = "open"
               PROVE  \E u \in Sockets : task'[u].pc = "helloInterrupt" /\ task'[u].replaced = t
    BY DEF EndedIsClosed, TypeOK
  <2>1. t # old /\ Terminal(t) /\ wire[t] = "open"
    BY <1>4, <1>5
  <2>2. PICK u \in Sockets : task[u].pc = "helloInterrupt" /\ task[u].replaced = t
    BY <1>1, <2>1 DEF EndedIsClosed
  <2>3. u # s
    BY <2>1, <2>2
  <2> QED BY <1>3, <2>2, <2>3
<1> QED BY <1>6, <1>7, <1>8, <1>9, <1>10 DEF EndsInv, ConnectionsOK

LEMMA HelloEnds ==
    ASSUME TypeOK, EndsInv, NEW s \in Sockets, HelloStored(s) \/ HelloInstall(s)
    PROVE  EndsInv'
<1>1. /\ task[s].pc \in {"helloStored", "helloInterrupt"} /\ task[s].machine \in Machines
      /\ conn \in [Sockets -> ConnType] /\ task \in [Sockets -> TaskType]
  BY DEF HelloStored, HelloInstall, TypeOK, TasksOK
<1>2. CASE HelloInstall(s)
  <2>1. task[s].replaced # s
    BY <1>2 DEF HelloInstall, EndsInv, ConnectionsOK
  <2>2. InstallSession(s, task[s].machine, task[s].replaced, conn) /\ connected' = connected
    BY <1>2 DEF HelloInstall
  <2> QED BY <1>1, <1>2, <2>1, <2>2, InstallEnds DEF HelloInstall
<1>3. CASE HelloStored(s)
  <2> DEFINE m == task[s].machine
  <2> DEFINE old == sessions[m]
  <2> DEFINE c == IF old # None /\ old \in connected THEN [conn EXCEPT ![old].reason = "replaced"] ELSE conn
  <2>1. old # s /\ (old # None => old \in Sockets)
    BY <1>1, <1>3, ReplacesAnother DEF HelloStored, EndsInv, TypeOK
  <2>2. /\ c \in [Sockets -> ConnType]
        /\ \A t \in Sockets : c[t].machine = conn[t].machine
        /\ \A t \in Sockets : c[t] = conn[t] \/ (t = old /\ t \in connected)
    BY <1>1 DEF ConnType, CloseReasons
  <2>3. connected' = connected /\ task[s].pc = "helloStored"
    BY <1>3 DEF HelloStored
  <2>4. CASE InstallSession(s, m, old, c)
    <3> HIDE DEF m, old, c
    <3>1. m \in Machines
      BY <1>1 DEF m
    <3> QED BY <1>1, <2>1, <2>2, <2>3, <2>4, <3>1, InstallEnds
  <2>5. CASE /\ old # None /\ old \in connected /\ conn' = c
             /\ task' = [task EXCEPT ![s].pc = "helloInterrupt", ![s].replaced = old]
             /\ UNCHANGED <<sessions, wire>>
    <3> HIDE DEF m, old, c
    <3>1. ConnectionsOK /\ EndedIsClosed
      BY DEF EndsInv
    <3>2. /\ task'[s].pc = "helloInterrupt" /\ task'[s].replaced = old
          /\ \A t \in Sockets : t # s => task'[t] = task[t]
      BY <1>1, <2>5 DEF TaskType
    <3>3. ConnectionsOK'
      <4>1. \A t \in Sockets : wire'[t] = "unused" => t \notin connected' /\ ~Terminal(t)'
        BY <2>2, <2>3, <2>5, <3>1 DEF ConnectionsOK, Terminal
      <4>2. \A n \in Machines : sessions'[n] # None => HelloReceived(sessions[n])'
        BY <2>2, <2>5, <3>1 DEF ConnectionsOK, HelloReceived, TypeOK
      <4>3. \A t \in Sockets : task'[t].pc \in Greetings => ~HelloReceived(t)'
        BY <2>2, <2>3, <2>5, <3>1, <3>2 DEF ConnectionsOK, HelloReceived, Greetings
      <4>4. \A t \in Sockets : task'[t].pc = "helloInterrupt" => task'[t].replaced # t
        BY <2>1, <3>1, <3>2 DEF ConnectionsOK
      <4> QED BY <4>1, <4>2, <4>3, <4>4 DEF ConnectionsOK
    <3>4. EndedIsClosed'
      <4> SUFFICES ASSUME NEW t \in Sockets, t \in connected, Terminal(t)', wire'[t] = "open"
                   PROVE  \E u \in Sockets : task'[u].pc = "helloInterrupt" /\ task'[u].replaced = t
        BY <2>3 DEF EndedIsClosed, TypeOK
      <4>1. CASE t = old
        BY <3>2, <4>1
      <4>2. CASE t # old
        <5>1. Terminal(t) /\ wire[t] = "open"
          BY <2>2, <2>5, <4>2 DEF Terminal
        <5>2. PICK u \in Sockets : task[u].pc = "helloInterrupt" /\ task[u].replaced = t
          BY <3>1, <5>1 DEF EndedIsClosed
        <5> QED BY <2>3, <3>2, <5>2
      <4> QED BY <4>1, <4>2
    <3> QED BY <3>3, <3>4 DEF EndsInv
  <2> QED BY <1>3, <2>4, <2>5 DEF HelloStored
<1> QED BY <1>2, <1>3

\* A connection that the Hub has ended, for whatever reason, is not left open: its socket is
\* being closed, or the hello that replaces it is about to close it.  A query that fails while
\* a hello interrupts the actions of the session it replaces is excepted.
THEOREM EndedConnectionsClose ==
    ASSUME "get" \notin StoreFaults
    PROVE  Spec => []EndedIsClosed
<1>1. Init => EndsInv
  BY DEF Init, EndsInv, ConnectionsOK, EndedIsClosed, Terminal, HelloReceived, IdleTask, TaskAt, Greetings
<1>2. TypeOK /\ EndsInv /\ [Next]_vars => EndsInv'
  <2> SUFFICES ASSUME TypeOK, EndsInv, [Next]_vars PROVE EndsInv'
    OBVIOUS
  <2>1. ConnectionsOK
    BY DEF EndsInv
  <2>2. CASE UNCHANGED <<wire, connected, conn, sessions, task>>
    <3>1. EndsNoneOpen
      BY <2>1, <2>2 DEF EndsNoneOpen, Terminal, ConnectionsOK
    <3> QED BY <3>1, EndsNoneOpenKeeps
  <2>3. CASE UNCHANGED vars
    BY <2>2, <2>3 DEF vars, connectionVars, handlerVars
  <2>4. ASSUME NEW s \in Sockets,
               HelloTimeout(s) \/ SocketClosed(s) \/ GoStale(s) \/ Arrive(s) \/ Connect(s) \/ Continue(s)
        PROVE  EndsInv'
    BY <2>1, <2>4, ConnectionsEnd, HandlersEnd, EndsNoneOpenKeeps, ConnectEnds, HelloEnds DEF Continue
  <2>5. ASSUME NEW a \in Actions, (\E m \in Machines : RequestAction(a, m)) \/ RequestStep(a) \/ TimerFires(a)
        PROVE  EndsInv'
    BY <2>2, <2>5 DEF RequestAction, RequestStep, CreateRecord, Dispatch, TimerFires, connectionVars, handlerVars
  <2>6. ASSUME NEW j \in Jobs, JobStep(j)
        PROVE  EndsInv'
    BY <2>1, <2>6, JobsEnd, EndsNoneOpenKeeps
  <2>7. CASE Close
    <3>1. \A t \in Sockets : conn'[t].machine = conn[t].machine
                             /\ (t \notin connected => conn'[t] = conn[t])
      BY <2>7 DEF Close
    <3>2. \A t \in Sockets : /\ wire'[t] = "unused" <=> wire[t] = "unused"
                             /\ t \in connected => wire'[t] # "open"
      BY <2>7 DEF Close
    <3>3. UNCHANGED <<connected, sessions, task>>
      BY <2>7 DEF Close, handlerVars
    <3>4. EndsNoneOpen
      BY <2>1, <3>1, <3>2, <3>3 DEF EndsNoneOpen, ConnectionsOK, Terminal
    <3> QED BY <3>4, EndsNoneOpenKeeps
  <2>8. CASE FinishClose
    <3>1. /\ connected' = {} /\ UNCHANGED <<conn, task>>
          /\ \A m \in Machines : sessions'[m] = None
          /\ \A t \in Sockets : wire'[t] = "unused" <=> wire[t] = "unused"
      BY <2>8 DEF FinishClose, handlerVars
    <3>2. EndsNoneOpen
      BY <2>1, <3>1 DEF EndsNoneOpen, ConnectionsOK, Terminal
    <3> QED BY <3>2, EndsNoneOpenKeeps
  <2>9. CASE Restart
    <3>1. ConnectionsOK'
      BY <2>9 DEF Restart, ConnectionsOK, Terminal, HelloReceived, IdleTask, TaskAt, Greetings
    <3>2. EndedIsClosed'
      BY <2>9 DEF Restart, EndedIsClosed
    <3> QED BY <3>1, <3>2 DEF EndsInv
  <2>10. ~CloseFails
    BY DEF CloseFails
  <2> QED BY <2>3, <2>4, <2>5, <2>6, <2>7, <2>8, <2>9, <2>10 DEF Next
<1>3. EndsInv => EndedIsClosed
  BY DEF EndsInv
<1> QED BY <1>1, <1>2, <1>3, TypeCorrect, PTL DEF Spec

\* A heartbeat that was still being stored when its connection was rejected or replaced, or
\* when shutdown began, changes neither the sequence nor the time of the last heartbeat.
THEOREM EndedConnectionsAreNotHeard == Spec => NoHeartbeatAfterEnd
<1> DEFINE Unheard == \A s \in Sockets :
                        Terminal(s) \/ ShuttingDown
                          => sequence'[s] <= sequence[s] /\ (online'[s] => online[s])
<1>1. TypeOK /\ [Next]_vars => [Unheard]_vars
  <2> SUFFICES ASSUME TypeOK, Next, NEW s \in Sockets, Terminal(s) \/ ShuttingDown
               PROVE  sequence'[s] <= sequence[s] /\ (online'[s] => online[s])
    OBVIOUS
  <2>1. sequence[s] \in Nat /\ sequence[s] <= sequence[s]
    BY BoundAssumption DEF TypeOK
  <2>2. CASE UNCHANGED <<sequence, online>>
    BY <2>1, <2>2
  <2>3. ASSUME NEW t \in Sockets, HeartbeatStored(t)
        PROVE  sequence'[s] <= sequence[s] /\ (online'[s] => online[s])
    <3>1. CASE t = s
      BY <2>2, <2>3, <3>1 DEF HeartbeatStored
    <3>2. CASE t # s
      BY <2>1, <2>3, <3>2 DEF HeartbeatStored, TypeOK
    <3> QED BY <3>1, <3>2
  <2>4. ASSUME NEW t \in Sockets, GoStale(t)
        PROVE  sequence'[s] <= sequence[s] /\ (online'[s] => online[s])
    BY <2>1, <2>4 DEF GoStale, TypeOK
  <2>5. CASE Restart
    BY <2>1, <2>5 DEF Restart
  <2>6. ASSUME NEW t \in Sockets, Connect(t) \/ HelloTimeout(t) \/ SocketClosed(t) \/ Arrive(t)
        PROVE  UNCHANGED <<sequence, online>>
    BY <2>6 DEF Connect, HelloTimeout, SocketClosed, Arrive, Enqueue, InvalidMessage, Hello, Heartbeat,
       ActionReport, RefuseMessage, Suspend, connectionVars
  <2>7. ASSUME NEW t \in Sockets,
               DropQueued(t) \/ HelloRead(t) \/ HelloUpsert(t) \/ HelloStored(t) \/ HelloInstall(t)
                 \/ HeartbeatRead(t) \/ HeartbeatUpsert(t)
        PROVE  UNCHANGED <<sequence, online>>
    BY <2>7 DEF DropQueued, HelloRead, HelloUpsert, HelloStored, HelloInstall, HeartbeatRead, HeartbeatUpsert,
       connectionVars
  <2>8. ASSUME NEW a \in Actions, (\E m \in Machines : RequestAction(a, m)) \/ RequestStep(a) \/ TimerFires(a)
        PROVE  UNCHANGED <<sequence, online>>
    BY <2>8 DEF RequestAction, RequestStep, CreateRecord, Dispatch, TimerFires, connectionVars
  <2>9. ASSUME NEW j \in Jobs, JobStep(j)
        PROVE  UNCHANGED <<sequence, online>>
    BY <2>9 DEF JobStep, JobGet, JobUpdate, JobWrite, JobOk, JobFailed, connectionVars
  <2>10. Close \/ FinishClose \/ CloseFails => UNCHANGED <<sequence, online>>
    BY DEF Close, FinishClose, CloseFails, connectionVars
  <2> QED BY <2>2, <2>3, <2>4, <2>5, <2>6, <2>7, <2>8, <2>9, <2>10 DEF Next, Continue
<1>2. Spec => [][Unheard]_vars
  BY <1>1, TypeCorrect, PTL DEF Spec
<1> QED BY <1>2 DEF NoHeartbeatAfterEnd

-----------------------------------------------------------------------------
(* Who reports on an action. *)

\* A report under way is about an action that was sent to its connection, for its machine.
Addressed(a, s) ==
    request[a].pc = "done" /\ request[a].socket = s /\ request[a].machine = conn[s].machine

Subject(j) == job[j].todo \cup (IF job[j].pc \in {"update", "write", "ok", "failed"} THEN {job[j].at} ELSE {})

ReportsOK ==
    /\ \A a \in Actions : pending[a] # None => pending[a] = request[a].socket
    /\ \A s \in Sockets : task[s].pc = "report" =>
         HelloReceived(s) /\ \A a \in Subject(Handler(s)) : a \in Actions /\ Addressed(a, s)

\* What the steps of others leave alone, and a report's own steps do not extend.
LeavesReports ==
    \A s \in Sockets :
        task'[s].pc = "report" =>
            /\ task[s].pc = "report" /\ Subject(Handler(s))' \subseteq Subject(Handler(s))
            /\ conn'[s].machine = conn[s].machine

LEMMA LeavesReportsKeeps ==
    ASSUME TypeOK, ReportsOK, LeavesReports,
           \A a \in Actions : request[a].pc = "done" => request'[a] = request[a],
           \A a \in Actions : pending'[a] # None => pending'[a] = request'[a].socket
    PROVE  ReportsOK'
<1>1. ASSUME NEW s \in Sockets, task'[s].pc = "report"
      PROVE  HelloReceived(s)' /\ \A a \in Subject(Handler(s))' : a \in Actions /\ Addressed(a, s)'
  <2>1. /\ HelloReceived(s) /\ \A a \in Subject(Handler(s)) : a \in Actions /\ Addressed(a, s)
        /\ Subject(Handler(s))' \subseteq Subject(Handler(s)) /\ conn'[s].machine = conn[s].machine
    BY <1>1 DEF ReportsOK, LeavesReports
  <2> QED BY <2>1 DEF Addressed, HelloReceived
<1> QED BY <1>1 DEF ReportsOK

LEMMA RejectLeavesReports ==
    ASSUME TypeOK, NEW s \in Sockets, NEW js, JobsOK(js), Reject(s, js), NEW t \in Sockets
    PROVE  job'[Handler(t)] = js[Handler(t)] /\ conn'[t].machine = conn[t].machine
<1>1. Handler(t) # Detach(s) /\ Handler(t) \in Jobs
  BY JobsMembers DEF Handler, Detach
<1>2. JobsAfterDetach(js, s)[Handler(t)] = js[Handler(t)]
  BY <1>1 DEF JobsAfterDetach, JobsOK
<1> QED BY <1>2 DEF Reject, TypeOK, ConnType

LEMMA ConnectionsLeaveReports ==
    ASSUME TypeOK, NEW s \in Sockets,
           Connect(s) \/ HelloTimeout(s) \/ SocketClosed(s) \/ GoStale(s) \/ Continue(s) \/ RefuseMessage(s)
    PROVE  LeavesReports
<1>1. /\ JobsOK(job) /\ job \in [Jobs -> JobType] /\ task \in [Sockets -> TaskType]
      /\ conn \in [Sockets -> ConnType]
  BY DEF TypeOK, JobsOK, TasksOK
<1>2. IdleTask.pc = "idle"
  BY DEF IdleTask, TaskAt
<1>3. ASSUME UNCHANGED <<conn, job>> \/ Reject(s, job),
             \A t \in Sockets : task'[t].pc = "report" => task[t].pc = "report"
      PROVE  LeavesReports
  BY <1>1, <1>3, RejectLeavesReports DEF LeavesReports, Subject
<1>4. CASE Connect(s) \/ HelloTimeout(s) \/ GoStale(s) \/ RefuseMessage(s)
  BY <1>3, <1>4 DEF Connect, HelloTimeout, GoStale, RefuseMessage, handlerVars
<1>5. CASE SocketClosed(s)
  <2>1. \A t \in Sockets : job'[Handler(t)] = job[Handler(t)]
    BY <1>1, <1>5, JobsMembers DEF SocketClosed, JobsAfterDetach, Handler, Detach
  <2> QED BY <1>5, <2>1 DEF SocketClosed, handlerVars, LeavesReports, Subject
<1>6. ASSUME NEW pc, pc # "report", NEW r,
             task' = [task EXCEPT ![s].pc = pc] \/ task' = [task EXCEPT ![s].pc = pc, ![s].replaced = r]
               \/ task' = [task EXCEPT ![s] = IdleTask] \/ task' = task
      PROVE  \A t \in Sockets : task'[t].pc = "report" => task[t].pc = "report" /\ (t # s \/ task' = task)
  BY <1>1, <1>2, <1>6 DEF TaskType
<1>7. CASE HandlerFails(s)
  BY <1>3, <1>6, <1>7 DEF HandlerFails
<1>8. CASE DropQueued(s) \/ HelloRead(s) \/ HelloUpsert(s) \/ HeartbeatRead(s) \/ HeartbeatUpsert(s)
             \/ HeartbeatStored(s)
  BY <1>3, <1>6, <1>7, <1>8 DEF DropQueued, HelloRead, HelloUpsert, HeartbeatRead, HeartbeatUpsert,
     HeartbeatStored, connectionVars
<1>9. CASE HelloStored(s) \/ HelloInstall(s)
  <2>1. \A t \in Sockets : t # s => job'[Handler(t)] = job[Handler(t)]
    BY <1>1, <1>9, JobsMembers DEF HelloStored, HelloInstall, Handler
  <2>2. \A t \in Sockets : t # s => conn'[t].machine = conn[t].machine
    BY <1>1, <1>9 DEF HelloStored, HelloInstall, InstallSession, ConnType
  <2>3. \A t \in Sockets : task'[t].pc = "report" => task[t].pc = "report" /\ t # s
    BY <1>1, <1>2, <1>9 DEF HelloStored, HelloInstall, InstallSession, TaskType
  <2> QED BY <2>1, <2>2, <2>3 DEF LeavesReports, Subject
<1> QED BY <1>4, <1>5, <1>8, <1>9 DEF Continue

LEMMA JobsLeaveReports ==
    ASSUME TypeOK, NEW j \in Jobs, JobStep(j)
    PROVE  LeavesReports
<1>1. /\ JobsOK(job) /\ job \in [Jobs -> JobType] /\ task \in [Sockets -> TaskType]
      /\ conn \in [Sockets -> ConnType] /\ \A t \in Sockets : Handler(t) \in Jobs
  BY JobsMembers DEF TypeOK, JobsOK, TasksOK
<1>2. IdleTask.pc = "idle"
  BY DEF IdleTask, TaskAt
<1>3. ASSUME RefuseReport(j), j[1] = "handler"
      PROVE  LeavesReports
  <2>1. JobsOK([job EXCEPT ![j] = IdleJob])
    BY <1>1, JobsOKExcept, JobOnType DEF Statuses
  <2>2. j[2] \in Sockets /\ task' = [task EXCEPT ![j[2]] = IdleTask] /\ Reject(j[2], [job EXCEPT ![j] = IdleJob])
    BY <1>3, JobsMembers DEF RefuseReport
  <2>3. \A t \in Sockets : job'[Handler(t)] = [job EXCEPT ![j] = IdleJob][Handler(t)]
                             /\ conn'[t].machine = conn[t].machine
    BY <2>1, <2>2, RejectLeavesReports
  <2>4. \A t \in Sockets : t # j[2] => Handler(t) # j
    BY HandlerIsOne
  <2>5. \A t \in Sockets : t # j[2] => job'[Handler(t)] = job[Handler(t)] /\ task'[t] = task[t]
    BY <1>1, <2>2, <2>3, <2>4
  <2>6. task'[j[2]].pc = "idle"
    BY <1>1, <1>2, <2>2
  <2> QED BY <2>3, <2>5, <2>6 DEF LeavesReports, Subject
<1>4. ASSUME UNCHANGED <<conn, task>>,
             \A t \in Sockets : task[t].pc = "report" => Subject(Handler(t))' \subseteq Subject(Handler(t))
      PROVE  LeavesReports
  BY <1>4 DEF LeavesReports
<1>5. ASSUME NEW b, ~Reporting(j), job' = [job EXCEPT ![j] = JobAfter(j, b)], UNCHANGED <<conn, task>>
      PROVE  LeavesReports
  <2>1. \A t \in Sockets : task[t].pc = "report" => Handler(t) # j
    BY <1>5, HandlerIsOne DEF Reporting
  <2>2. \A t \in Sockets : task[t].pc = "report" => job'[Handler(t)] = job[Handler(t)]
    BY <1>1, <1>5, <2>1
  <2> QED BY <1>4, <1>5, <2>2 DEF Subject
<1>6. CASE JobGet(j)
  <2>1. ASSUME NEW b \in job[j].todo, UNCHANGED <<conn, task>>,
               job' = [job EXCEPT ![j].pc = IF AtomicStore THEN "update" ELSE "write",
                                  ![j].at = b, ![j].cur = record[b]]
        PROVE  LeavesReports
    <3>1. /\ job'[j].todo = job[j].todo /\ job'[j].at = b /\ b \in job[j].todo
          /\ \A i \in Jobs : i # j => job'[i] = job[i]
      BY <1>1, <2>1 DEF JobType
    <3>2. \A i \in Jobs : Subject(i)' \subseteq Subject(i)
      BY <3>1 DEF Subject
    <3> QED BY <1>1, <1>4, <2>1, <3>2
  <2>2. ASSUME NEW b, ~Reporting(j), Swallow(j, b)
        PROVE  LeavesReports
    BY <1>5, <2>2 DEF Swallow
  <2>3. CASE RefuseReport(j) /\ j[1] = "handler"
    BY <1>3, <2>3
  <2> QED BY <1>6, <2>1, <2>2, <2>3 DEF JobGet, Reporting
<1>7. CASE JobUpdate(j) \/ JobWrite(j)
  <2>1. /\ job[j].pc \in {"update", "write"} /\ job'[j].todo = job[j].todo /\ job'[j].at = job[j].at
        /\ \A i \in Jobs : i # j => job'[i] = job[i]
    BY <1>1, <1>7 DEF JobUpdate, JobWrite, JobType
  <2>2. \A i \in Jobs : Subject(i)' \subseteq Subject(i)
    BY <2>1 DEF Subject
  <2>3. UNCHANGED <<conn, task>>
    BY <1>7 DEF JobUpdate, JobWrite, connectionVars, handlerVars
  <2> QED BY <1>1, <1>4, <2>2, <2>3
<1>8. CASE JobOk(j)
  <2>1. CASE ~Reporting(j)
    BY <1>5, <1>8, <2>1 DEF JobOk, connectionVars
  <2>2. CASE Reporting(j)
    <3>1. /\ j[2] \in Sockets /\ task' = [task EXCEPT ![j[2]] = IdleTask] /\ conn' = conn
          /\ job' = [job EXCEPT ![j] = JobAfter(j, job[j].at)]
      BY <1>8, <2>2, JobsMembers DEF JobOk, Reporting, connectionVars
    <3>2. \A t \in Sockets : t # j[2] => Handler(t) # j
      BY HandlerIsOne
    <3>3. \A t \in Sockets : t # j[2] => job'[Handler(t)] = job[Handler(t)] /\ task'[t] = task[t]
      BY <1>1, <3>1, <3>2
    <3>4. task'[j[2]].pc = "idle"
      BY <1>1, <1>2, <3>1
    <3> QED BY <3>1, <3>3, <3>4 DEF LeavesReports, Subject
  <2> QED BY <2>1, <2>2
<1>9. CASE JobFailed(j)
  <2>1. CASE Reporting(j)
    BY <1>3, <1>9, <2>1 DEF JobFailed, Reporting
  <2>2. CASE ~Reporting(j)
    BY <1>5, <1>9, <2>2 DEF JobFailed, Swallow
  <2> QED BY <2>1, <2>2
<1> QED BY <1>6, <1>7, <1>8, <1>9 DEF JobStep

\* A report starts on an action that is pending on its connection.
LEMMA ReportStarts ==
    ASSUME TypeOK, RequestsOK, ReportsOK, NEW s \in Sockets, NEW a \in Actions,
           NEW goal \in Outcomes \cup {"RUNNING"}, ActionReport(s, a, goal)
    PROVE  ReportsOK'
<1>1. UNCHANGED <<request, pending>>
  BY DEF ActionReport, RefuseMessage, Suspend, dispatchVars
<1>2. CASE ~HelloReceived(s) \/ ~Correlated(s, a)
  <2>1. RefuseMessage(s)
    BY <1>2 DEF ActionReport
  <2>2. LeavesReports
    BY <2>1, ConnectionsLeaveReports
  <2> QED BY <1>1, <2>2, LeavesReportsKeeps DEF ReportsOK
<1>3. CASE HelloReceived(s) /\ Correlated(s, a)
  <2>1. /\ task' = [task EXCEPT ![s] = TaskAt("report", None, 0)]
        /\ job' = [job EXCEPT ![Handler(s)] = JobOn({a}, goal)]
        /\ conn' = conn /\ JobsOK(job) /\ TasksOK(task)
    BY <1>3 DEF ActionReport, Suspend, TypeOK, connectionVars
  <2>2. JobOn({a}, goal).pc = "get" /\ JobOn({a}, goal).todo = {a}
    BY DEF JobOn
  <2>3. /\ Handler(s) \in Jobs /\ job'[Handler(s)] = JobOn({a}, goal)
        /\ \A t \in Sockets : t # s => job'[Handler(t)] = job[Handler(t)] /\ task'[t] = task[t]
    BY <2>1, JobsMembers, HandlerIsOne DEF JobsOK, TasksOK
  <2>4. Subject(Handler(s))' = {a}
    BY <2>2, <2>3 DEF Subject
  <2>5. pending[a] = s /\ s # None /\ request[a].machine = conn[s].machine
    BY <1>3, NoneAssumption DEF Correlated
  <2>6. request[a].pc = "done" /\ request[a].socket = s
    BY <2>5 DEF RequestsOK, ReportsOK
  <2>7. ASSUME NEW t \in Sockets, task'[t].pc = "report"
        PROVE  HelloReceived(t)' /\ \A b \in Subject(Handler(t))' : b \in Actions /\ Addressed(b, t)'
    <3>1. CASE t = s
      BY <1>1, <1>3, <2>1, <2>4, <2>5, <2>6, <3>1 DEF Addressed, HelloReceived
    <3>2. CASE t # s
      <4>1. Subject(Handler(t))' = Subject(Handler(t)) /\ task[t].pc = "report"
        BY <2>3, <2>7, <3>2 DEF Subject
      <4> QED BY <1>1, <2>1, <4>1 DEF ReportsOK, Addressed, HelloReceived
    <3> QED BY <3>1, <3>2
  <2> QED BY <1>1, <2>7 DEF ReportsOK
<1> QED BY <1>2, <1>3

LEMMA MessagesLeaveReports ==
    ASSUME TypeOK, NEW s \in Sockets,
           \/ Enqueue(s) \/ InvalidMessage(s)
           \/ \E m \in Machines : Hello(s, m)
           \/ \E n \in 1 .. MaxBeats : Heartbeat(s, n)
    PROVE  LeavesReports
<1>1. CASE RefuseMessage(s)
  BY <1>1, ConnectionsLeaveReports
<1>2. ASSUME NEW t, t.pc # "report", Suspend(s, t), UNCHANGED job
      PROVE  LeavesReports
  <2>1. /\ task' = [task EXCEPT ![s] = t] /\ UNCHANGED <<conn, job>> /\ TasksOK(task)
    BY <1>2 DEF Suspend, connectionVars, TypeOK
  <2>2. \A u \in Sockets : task'[u].pc = "report" => task[u].pc = "report"
    BY <1>2, <2>1 DEF TasksOK
  <2> QED BY <2>1, <2>2 DEF LeavesReports, Subject
<1>3. CASE Enqueue(s)
  BY <1>3 DEF Enqueue, connectionVars, LeavesReports, Subject
<1>4. ASSUME NEW m, NEW n
      PROVE  TaskAt("helloGet", m, n).pc # "report" /\ TaskAt("beatGet", m, n).pc # "report"
  BY DEF TaskAt
<1> QED BY <1>1, <1>2, <1>3, <1>4 DEF InvalidMessage, Hello, Heartbeat

LEMMA RequestsLeaveReports ==
    ASSUME TypeOK, RequestsOK, ReportsOK, NEW a \in Actions,
           (\E m \in Machines : RequestAction(a, m)) \/ RequestStep(a)
    PROVE  ReportsOK'
<1>1. UNCHANGED <<conn, task, job>>
  BY DEF RequestAction, RequestStep, CreateRecord, Dispatch, connectionVars, handlerVars
<1>2. LeavesReports
  BY <1>1 DEF LeavesReports, Subject
<1>3. request[a].pc # "done" /\ pending[a] = None /\ \A b \in Actions : b # a => request'[b] = request[b]
  BY DEF RequestAction, RequestStep, CreateRecord, Dispatch, RequestsOK, TypeOK
<1>4. \A b \in Actions : pending'[b] # None => pending'[b] = request'[b].socket
  <2>1. CASE UNCHANGED pending
    BY <1>3, <2>1 DEF ReportsOK
  <2>2. CASE Dispatch(a)
    <3>1. request'[a].socket = request[a].socket /\ pending'[a] = request[a].socket
          /\ \A b \in Actions : b # a => pending'[b] = pending[b]
      BY <2>2 DEF Dispatch, TypeOK, RequestType
    <3> QED BY <1>3, <3>1 DEF ReportsOK
  <2> QED BY <2>1, <2>2 DEF RequestAction, RequestStep, CreateRecord
<1> QED BY <1>2, <1>3, <1>4, LeavesReportsKeeps

LEMMA NextReportsOK == HubInv /\ ReportsOK /\ [Next]_vars => ReportsOK'
<1> SUFFICES ASSUME HubInv, ReportsOK, [Next]_vars PROVE ReportsOK'
  OBVIOUS
<1>1. TypeOK /\ RequestsOK
  BY DEF HubInv
<1>2. ASSUME LeavesReports, UNCHANGED request, \A a \in Actions : pending'[a] # None => pending'[a] = pending[a]
      PROVE  ReportsOK'
  <2>1. \A a \in Actions : pending'[a] # None => pending'[a] = request'[a].socket
    BY <1>2 DEF ReportsOK
  <2> QED BY <1>1, <1>2, <2>1, LeavesReportsKeeps
<1>3. ASSUME UNCHANGED <<conn, task>>, \A s \in Sockets : job'[Handler(s)] = job[Handler(s)]
      PROVE  LeavesReports
  BY <1>3 DEF LeavesReports, Subject
<1>4. JobsOK(job) /\ \A s \in Sockets : Handler(s) \in Jobs
  BY <1>1, JobsMembers DEF TypeOK
<1>5. CASE UNCHANGED vars
  BY <1>2, <1>3, <1>5 DEF vars, connectionVars, handlerVars, dispatchVars
<1>6. ASSUME NEW s \in Sockets,
             Connect(s) \/ HelloTimeout(s) \/ SocketClosed(s) \/ GoStale(s) \/ Continue(s)
      PROVE  ReportsOK'
  BY <1>1, <1>2, <1>6, ConnectionsLeaveReports, QuietUnchanged DEF QuietStep
<1>7. ASSUME NEW s \in Sockets, Arrive(s)
      PROVE  ReportsOK'
  <2>1. UNCHANGED <<request, pending>>
    BY <1>7, QuietUnchanged DEF QuietStep
  <2>2. CASE \E a \in Actions, goal \in Outcomes \cup {"RUNNING"} : ActionReport(s, a, goal)
    BY <1>1, <2>2, ReportStarts
  <2> QED BY <1>1, <1>2, <1>7, <2>1, <2>2, MessagesLeaveReports DEF Arrive
<1>8. ASSUME NEW a \in Actions, (\E m \in Machines : RequestAction(a, m)) \/ RequestStep(a)
      PROVE  ReportsOK'
  BY <1>1, <1>8, RequestsLeaveReports
<1>9. ASSUME NEW a \in Actions, TimerFires(a)
      PROVE  ReportsOK'
  <2>1. \A s \in Sockets : job'[Handler(s)] = job[Handler(s)]
    BY <1>4, <1>9, HandlerIsOne DEF TimerFires, JobsOK
  <2> QED BY <1>2, <1>3, <1>9, <2>1 DEF TimerFires, connectionVars, handlerVars
<1>10. ASSUME NEW j \in Jobs, JobStep(j)
       PROVE  ReportsOK'
  <2>1. request' = request
    BY <1>10 DEF JobStep, JobGet, JobUpdate, JobWrite, JobOk, JobFailed, dispatchVars
  <2>2. \A a \in Actions : pending'[a] # None => pending'[a] = pending[a]
    BY <1>1, <1>10 DEF JobStep, JobGet, JobUpdate, JobWrite, JobOk, JobFailed, dispatchVars, ClearPending, TypeOK
  <2> QED BY <1>1, <1>2, <1>10, <2>1, <2>2, JobsLeaveReports
<1>11. CASE Close
  <2>1. /\ \A s \in Sockets : job'[Handler(s)] = job[Handler(s)] /\ conn'[s].machine = conn[s].machine
        /\ task' = task
    BY <1>4, <1>11, HandlerIsOne DEF Close, JobsOK, handlerVars
  <2>2. LeavesReports
    BY <2>1 DEF LeavesReports, Subject
  <2> QED BY <1>2, <1>11, <2>2 DEF Close, dispatchVars
<1>12. CASE FinishClose
  <2>1. \A s \in Sockets : job'[Handler(s)] = job[Handler(s)]
    BY <1>4, <1>12, HandlerIsOne DEF FinishClose
  <2> QED BY <1>2, <1>3, <1>12, <2>1 DEF FinishClose, handlerVars
<1>13. CASE Restart
  <2>1. IdleTask.pc = "idle"
    BY DEF IdleTask, TaskAt
  <2>2. LeavesReports
    BY <1>13, <2>1 DEF Restart, LeavesReports
  <2>3. \A a \in Actions : request[a].pc = "done" => request'[a] = request[a]
    BY <1>1, <1>13 DEF Restart, TypeOK, RequestType
  <2>4. \A a \in Actions : pending'[a] = None
    BY <1>13 DEF Restart
  <2> QED BY <1>1, <2>2, <2>3, <2>4, LeavesReportsKeeps
<1>14. CASE CloseFails
  <2>1. \A s \in Sockets : job'[Handler(s)] = job[Handler(s)]
    BY <1>4, <1>14, HandlerIsOne DEF CloseFails, JobsOK
  <2> QED BY <1>2, <1>3, <1>14, <2>1 DEF CloseFails, connectionVars, handlerVars, dispatchVars
<1> QED BY <1>5, <1>6, <1>7, <1>8, <1>9, <1>10, <1>11, <1>12, <1>13, <1>14 DEF Next

\* That an action runs, succeeded, failed or was denied is only ever recorded for a report
\* that came on the connection the action was sent to, whose machine is the action's.
THEOREM OnlyTheAddresseeReports == Spec => ReportedByAddressee
<1> DEFINE Told == \A a \in Actions :
                     record'[a] # record[a] /\ record'[a] \in {"RUNNING", "SUCCEEDED", "FAILED", "DENIED"}
                       => \E s \in Sockets : /\ task[s].pc = "report" /\ job[Handler(s)].at = a
                                             /\ request[a].socket = s
                                             /\ request[a].machine = conn[s].machine
<1>1. Init => ReportsOK
  BY DEF Init, ReportsOK, IdleTask, TaskAt
<1>2. HubInv /\ ReportsOK /\ [Next]_vars => [Told]_vars
  <2> SUFFICES ASSUME HubInv, ReportsOK, Next, NEW a \in Actions, record'[a] # record[a],
                      record'[a] \in {"RUNNING", "SUCCEEDED", "FAILED", "DENIED"}
               PROVE  \E s \in Sockets : /\ task[s].pc = "report" /\ job[Handler(s)].at = a
                                         /\ request[a].socket = s /\ request[a].machine = conn[s].machine
    OBVIOUS
  <2>1. TypeOK /\ RequestsOK /\ JobsSound
    BY DEF HubInv
  <2>2. ~QuietStep
    BY QuietUnchanged
  <2>3. \A b \in Actions : ~CreateRecord(b)
    BY <2>1 DEF CreateRecord, TypeOK
  <2>4. PICK j \in Jobs : JobUpdate(j) \/ JobWrite(j)
    BY <2>2, <2>3 DEF Next, QuietStep, RequestAction, RequestStep, Dispatch, JobStep, JobOk, FinishClose,
       Restart, handlerVars
  <2>5. a = job[j].at /\ record'[a] = job[j].goal
    BY <2>1, <2>4, WritesRows DEF TypeOK
  <2>6. job[j].pc \in {"update", "write"}
    BY <2>4 DEF JobUpdate, JobWrite
  <2>7. Reporting(j)
    BY <2>1, <2>5, <2>6 DEF JobsSound, SoundJob
  <2>8. j[2] \in Sockets /\ j = Handler(j[2]) /\ task[j[2]].pc = "report"
    BY <2>7, JobsMembers, HandlerIsOne DEF Reporting
  <2>9. a \in Subject(Handler(j[2]))
    BY <2>5, <2>6, <2>8 DEF Subject
  <2>10. Addressed(a, j[2])
    BY <2>8, <2>9 DEF ReportsOK
  <2> QED BY <2>5, <2>8, <2>10 DEF Addressed
<1>3. Spec => [][Told]_vars
  BY <1>1, <1>2, NextReportsOK, HubInvariant, PTL DEF Spec
<1> QED BY <1>3 DEF ReportedByAddressee
=============================================================================
