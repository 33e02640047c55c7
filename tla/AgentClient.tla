----------------------------- MODULE AgentClient -----------------------------
(***************************************************************************)
(* The Agent: its client (AgentClient, apps/agent/src/index.ts), which     *)
(* keeps one connection to the Hub and sends heartbeats, and its executor  *)
(* (AgentActionExecutor and runProcess, actions.ts), which runs the        *)
(* actions the Hub requests, one at a time.  The Hub, the network, the     *)
(* operator who calls connect() and stop(), and the child processes are    *)
(* the environment.                                                        *)
(*                                                                         *)
(* The code numbers its connections; the model gives a connection a token  *)
(* of Generations that nothing refers to any more, and heartbeats a number *)
(* modulo Modulus.  Time passes for the running action only.               *)
(***************************************************************************)
EXTENDS Integers, FiniteSets

CONSTANTS
    Generations,    \* tokens for connections
    Actions,        \* ids of the actions the Hub requests
    Steps,          \* how many processes an action runs: git status, or systemctl twice
    Limit,          \* ACTION_TIMEOUTS_MS
    KillGrace,      \* PROCESS_KILL_GRACE_MS
    MaxLeft,        \* bound: the time a request has to its deadline
    Modulus,        \* bound: heartbeat numbers are counted modulo this
    None            \* no generation, no action

ASSUME AgentAssumption ==
    /\ None \notin Generations \cup Actions
    /\ Steps \in [Actions -> 1 .. 2]
    /\ Limit \in Nat \ {0} /\ KillGrace \in Nat /\ MaxLeft \in Nat /\ Modulus \in Nat \ {0, 1}

VARIABLES
    running,        \* between connect() and stop()?
    connecting,
    generation,     \* the current generation; None after stop()
    preparing,      \* generations whose connect() awaits the identity and the policy
    socket,         \* the generation of the client's socket
    link,           \* each socket: "none", "opening", "open", "closing"
    accepted,       \* handshakeAcceptedGeneration
    retrying,       \* is reconnectTimer set?
    beatTimer,      \* the generation heartbeatTimer was set for
    collecting,     \* the generation whose heartbeat collects telemetry
    sequence,       \* number of the last heartbeat
    seen,           \* seenActionIds
    active,         \* is an action running?
    job,            \* each action: its process, its clock
    greeted,        \* history: generations whose socket carried the hello
    beat,           \* history: number of the last heartbeat the client's socket carried
    outcome,        \* history: the terminal result the last step sent, and on which socket
    starts,         \* history: how many processes each action has started
    orphans         \* history: sockets that were given up when an older connect() failed

linkVars == <<running, connecting, generation, preparing, socket, link, accepted, retrying>>
beatVars == <<beatTimer, collecting, sequence>>
jobVars == <<seen, active, job, starts>>
wireVars == <<greeted, beat>>
vars == <<linkVars, beatVars, jobVars, wireVars, outcome, orphans>>

NoOutcome == [action |-> None, socket |-> None, result |-> "none"]

IdleJob == [pc |-> "idle", generation |-> None, step |-> 0, left |-> 0, due |-> 0,
            signal |-> "none", carrier |-> None]

Init ==
    /\ running = FALSE
    /\ connecting = FALSE
    /\ generation = None
    /\ preparing = {}
    /\ socket = None
    /\ link = [g \in Generations |-> "none"]
    /\ accepted = None
    /\ retrying = FALSE
    /\ beatTimer = None
    /\ collecting = None
    /\ sequence = 0
    /\ seen = {}
    /\ active = FALSE
    /\ job = [a \in Actions |-> IdleJob]
    /\ greeted = {}
    /\ beat = 0
    /\ outcome = NoOutcome
    /\ starts = [a \in Actions |-> 0]
    /\ orphans = {}

IsCurrent(g) == running /\ g = generation
IsCurrentSocket(g) == IsCurrent(g) /\ socket = g

Busy == {a \in Actions : job[a].pc = "running"}

\* Tokens something still refers to.
Referenced ==
    {generation, socket, accepted, beatTimer, collecting} \cup preparing
      \cup {g \in Generations : link[g] # "none"} \cup {job[a].generation : a \in Busy}

\* Variant: a message goes out on whatever socket there is.
CarrierUnchecked(g) == IF socket # None /\ link[socket] = "open" THEN socket ELSE None

\* send(): the socket that carries a message of generation g, or None.
Carrier(g) == IF IsCurrent(g) /\ socket # None /\ link[socket] = "open" THEN socket ELSE None

NoOutcomeSent == outcome' = NoOutcome

\* A terminal result of action a is sent for generation g, if a socket carries it.
Sends(g, a, result) ==
    outcome' = IF Carrier(g) = None THEN NoOutcome
               ELSE [action |-> a, socket |-> Carrier(g), result |-> result]

Closing(l) == IF l \in {"opening", "open"} THEN "closing" ELSE l

-----------------------------------------------------------------------------
(* Connecting and stopping. *)

\* connect() up to its await, called by the operator or by the reconnect timer.
Connect ==
    /\ ~(running /\ (connecting \/ socket # None))
    /\ running' = TRUE
    /\ connecting' = TRUE
    /\ retrying' = FALSE
    /\ \E g \in Generations \ Referenced :
         /\ generation' = g
         /\ preparing' = preparing \cup {g}
    /\ UNCHANGED <<socket, link, accepted, beatVars, jobVars, wireVars, orphans>>

Reconnect == retrying /\ Connect

\* The identity or the policy cannot be read, or the socket cannot be made: connect()
\* rejects.  A connect() of an older generation does the same to the newer one.
ConnectFails(g) ==
    /\ g \in preparing
    /\ preparing' = preparing \ {g}
    /\ connecting' = FALSE
    /\ running' = FALSE
    /\ orphans' = IF running /\ g # generation THEN orphans \cup ({socket} \ {None}) ELSE orphans
    /\ UNCHANGED <<generation, socket, link, accepted, retrying, beatVars, jobVars, wireVars>>

\* Variant: the generation is not compared after the await.
PreparedUnchecked(g) ==
    /\ g \in preparing
    /\ preparing' = preparing \ {g}
    /\ socket' = g
    /\ link' = [link EXCEPT ![g] = "opening"]
    /\ beat' = 0
    /\ UNCHANGED <<running, connecting, generation, accepted, retrying, beatVars, jobVars, greeted, orphans>>

\* connect() resumes and makes the socket, if its generation is still the current one.
Prepared(g) ==
    /\ g \in preparing
    /\ preparing' = preparing \ {g}
    /\ IF IsCurrent(g)
         THEN socket' = g /\ link' = [link EXCEPT ![g] = "opening"] /\ beat' = 0
         ELSE UNCHANGED <<socket, link, beat>>
    /\ UNCHANGED <<running, connecting, generation, accepted, retrying, beatVars, jobVars, greeted, orphans>>

\* The socket opens; the hello is sent.
Open(g) ==
    /\ link[g] = "opening"
    /\ link' = [link EXCEPT ![g] = "open"]
    /\ greeted' = IF IsCurrentSocket(g) THEN greeted \cup {g} ELSE greeted
    /\ UNCHANGED <<running, connecting, generation, preparing, socket, accepted, retrying,
                   beatVars, jobVars, beat, orphans>>

\* The history of a socket ends with it.
Forget(g) ==
    /\ greeted' = greeted \ {g}
    /\ beat' = IF g = socket THEN 0 ELSE beat
    /\ orphans' = orphans \ {g}

\* A socket closes, by the Hub, the network, or the client's close(); for the current one
\* the heartbeats stop and a reconnection is scheduled.
Close(g) ==
    /\ link[g] # "none"
    /\ link' = [link EXCEPT ![g] = "none"]
    /\ IF IsCurrentSocket(g)
         THEN /\ beatTimer' = None
              /\ socket' = None
              /\ connecting' = FALSE
              /\ accepted' = None
              /\ retrying' = TRUE
         ELSE UNCHANGED <<beatTimer, socket, connecting, accepted, retrying>>
    /\ Forget(g)
    /\ UNCHANGED <<running, generation, preparing, collecting, sequence, jobVars>>

Stop ==
    /\ running' = FALSE
    /\ connecting' = FALSE
    /\ generation' = None
    /\ retrying' = FALSE
    /\ beatTimer' = None
    /\ socket' = None
    /\ link' = [g \in Generations |-> IF g = socket THEN Closing(link[g]) ELSE link[g]]
    /\ beat' = 0
    /\ UNCHANGED <<preparing, accepted, collecting, sequence, jobVars, greeted, orphans>>

-----------------------------------------------------------------------------
(* Messages of the Hub.  A socket that is closing still delivers them. *)

Delivers(g) == link[g] \in {"open", "closing"} /\ IsCurrent(g)

\* failCurrentConnection, for a message that breaks the protocol.
FailConnection(g) ==
    /\ link' = [s \in Generations |-> IF s = socket THEN Closing(link[s]) ELSE link[s]]
    /\ UNCHANGED <<running, connecting, generation, preparing, socket, accepted, retrying>>

\* Invalid JSON, an unknown message, or a protocol error reported by the Hub.
BadMessage(g) ==
    /\ Delivers(g)
    /\ FailConnection(g)
    /\ UNCHANGED <<beatVars, jobVars, wireVars, orphans>>

\* sendHeartbeat(g) up to its await, where `on` says that g has been accepted.
Collects(g, on) ==
    collecting' = IF on /\ Carrier(g) # None /\ collecting = None THEN g ELSE collecting

\* agent.accepted: heartbeats start, and a second one breaks the protocol.
Accept(g) ==
    /\ Delivers(g) /\ g \in greeted
    /\ IF accepted = g
         THEN FailConnection(g) /\ UNCHANGED beatVars
         ELSE /\ accepted' = g
              /\ connecting' = FALSE
              /\ sequence' = 0
              /\ beatTimer' = g
              /\ Collects(g, TRUE)
              /\ UNCHANGED <<running, generation, preparing, socket, link, retrying>>
    /\ UNCHANGED <<jobVars, wireVars, orphans>>

\* The heartbeat interval fires.
BeatTimerFires ==
    /\ beatTimer # None /\ collecting = None
    /\ Collects(beatTimer, IsCurrent(beatTimer) /\ accepted = beatTimer)
    /\ UNCHANGED <<linkVars, beatTimer, sequence, jobVars, wireVars, orphans>>

\* Variant: a collection that outlives its connection leaves the flag set.
CollectedKeepingFlag(g, ok) ==
    /\ collecting = g /\ IsCurrent(g)
    /\ collecting' = None
    /\ sequence' = IF ok THEN (sequence + 1) % Modulus ELSE sequence
    /\ beat' = IF ok /\ Carrier(g) # None THEN sequence' ELSE beat
    /\ UNCHANGED <<linkVars, beatTimer, jobVars, greeted, orphans>>

\* The telemetry is there, or its collection was rejected.
Collected(g, ok) ==
    /\ collecting = g
    /\ collecting' = None
    /\ sequence' = IF ok /\ IsCurrent(g) THEN (sequence + 1) % Modulus ELSE sequence
    /\ beat' = IF ok /\ Carrier(g) # None THEN sequence' ELSE beat
    /\ UNCHANGED <<linkVars, beatTimer, jobVars, greeted, orphans>>

-----------------------------------------------------------------------------
(* Actions. *)

Least(x, y) == IF x < y THEN x ELSE y

\* A process of action a is started with the time it may take.
Started(j, step, left) ==
    [j EXCEPT !.pc = "running", !.step = step, !.left = left, !.due = Least(Limit, left), !.signal = "none"]

\* agent.action.request, for an action with `left` until its deadline that the local
\* policy, its revision and its targets allow or not.  A denial is sent at once, and a
\* second request is denied whatever became of the first.
Request(g, a, left, allowed) ==
    /\ Delivers(g)
    /\ IF accepted # g
         THEN FailConnection(g) /\ UNCHANGED jobVars /\ NoOutcomeSent
         ELSE /\ UNCHANGED linkVars
              /\ seen' = seen \cup {a}
              /\ IF a \in seen \/ left = 0 \/ ~allowed \/ active
                   THEN /\ Sends(g, a, "denied")
                        /\ UNCHANGED <<active, job, starts>>
                   ELSE /\ active' = TRUE
                        /\ job' = [job EXCEPT ![a] =
                                     Started([@ EXCEPT !.generation = g, !.carrier = Carrier(g)], 1, left)]
                        /\ starts' = [starts EXCEPT ![a] = @ + 1]
                        /\ NoOutcomeSent
    /\ UNCHANGED <<beatVars, greeted, beat, orphans>>

\* The action is over: the flag is cleared, and its result sent for the generation that
\* requested it.
Finish(a) ==
    /\ job' = [job EXCEPT ![a] = IdleJob]
    /\ active' = FALSE
    /\ Sends(job[a].generation, a, "ended")
    /\ UNCHANGED starts

\* The process closes or fails to start.  A restart goes on to ask whether the unit is
\* active, if time is left.
ProcessEnds(a, ok) ==
    LET j == job[a]
    IN  /\ j.pc = "running"
        /\ IF ok /\ j.signal = "none" /\ j.step < Steps[a] /\ j.left > 0
             THEN /\ job' = [job EXCEPT ![a] = Started(j, j.step + 1, j.left)]
                  /\ starts' = [starts EXCEPT ![a] = @ + 1]
                  /\ UNCHANGED active /\ NoOutcomeSent
             ELSE Finish(a)
        /\ UNCHANGED <<linkVars, beatVars, seen, wireVars, orphans>>

\* The timeout of the process: SIGTERM, and after a grace period SIGKILL.
TimeoutFires(a) ==
    LET j == job[a]
    IN  /\ j.pc = "running" /\ j.due = 0 /\ j.signal # "kill"
        /\ job' = [job EXCEPT ![a] =
                    IF j.signal = "none" THEN [j EXCEPT !.signal = "term", !.due = KillGrace]
                                         ELSE [j EXCEPT !.signal = "kill"]]
        /\ UNCHANGED <<linkVars, beatVars, seen, active, starts, wireVars, orphans>>

\* Time passes; no timer is overdue.
Tick ==
    /\ Busy # {}
    /\ \A a \in Busy : job[a].due > 0
    /\ job' = [a \in Actions |-> IF a \in Busy THEN [job[a] EXCEPT !.left = @ - 1, !.due = @ - 1]
                                               ELSE job[a]]
    /\ UNCHANGED <<linkVars, beatVars, seen, active, starts, wireVars, orphans>>

-----------------------------------------------------------------------------

Next ==
    \/ /\ NoOutcomeSent
       /\ \/ Connect \/ Stop \/ BeatTimerFires \/ Tick
          \/ \E a \in Actions : TimeoutFires(a)
          \/ \E g \in Generations :
               \/ ConnectFails(g) \/ Prepared(g) \/ Open(g) \/ Close(g)
               \/ BadMessage(g) \/ Accept(g)
               \/ \E ok \in BOOLEAN : Collected(g, ok)
    \/ \E g \in Generations, a \in Actions, left \in 0 .. MaxLeft, allowed \in BOOLEAN :
         Request(g, a, left, allowed)
    \/ \E a \in Actions, ok \in BOOLEAN : ProcessEnds(a, ok)

Spec == Init /\ [][Next]_vars

\* Timers fire, reads and collections end, a socket that was closed closes, and so does,
\* as tokens are scarce, one that nobody owns; time passes, and a process that got SIGKILL
\* ends.
FairSpec ==
    /\ Spec
    /\ WF_vars(Reconnect /\ NoOutcomeSent)
    /\ WF_vars(BeatTimerFires /\ NoOutcomeSent)
    /\ WF_vars(Tick /\ NoOutcomeSent)
    /\ WF_vars(\E g \in Generations : (Prepared(g) \/ ConnectFails(g)) /\ NoOutcomeSent)
    /\ WF_vars(\E g \in Generations :
                 (link[g] \in {"opening", "closing"} \/ g \in orphans) /\ (Open(g) \/ Close(g)) /\ NoOutcomeSent)
    /\ WF_vars(\E g \in Generations, ok \in BOOLEAN : Collected(g, ok) /\ NoOutcomeSent)
    /\ WF_vars(\E a \in Actions : TimeoutFires(a) /\ NoOutcomeSent)
    /\ WF_vars(\E a \in Actions, ok \in BOOLEAN : job[a].signal = "kill" /\ ProcessEnds(a, ok))

-----------------------------------------------------------------------------
(* Properties. *)

Jobs == [pc : {"idle", "running"}, generation : Generations \cup {None}, step : 0 .. 2,
         left : (- KillGrace) .. MaxLeft, due : 0 .. Limit + KillGrace,
         signal : {"none", "term", "kill"}, carrier : Generations \cup {None}]

TypeOK ==
    /\ {running, connecting, retrying, active} \subseteq BOOLEAN
    /\ {generation, socket, accepted, beatTimer, collecting} \subseteq Generations \cup {None}
    /\ preparing \subseteq Generations /\ greeted \subseteq Generations
    /\ link \in [Generations -> {"none", "opening", "open", "closing"}]
    /\ sequence \in 0 .. Modulus - 1 /\ beat \in 0 .. Modulus - 1
    /\ seen \subseteq Actions
    /\ job \in [Actions -> Jobs] /\ starts \in [Actions -> 0 .. 2]
    /\ outcome \in [action : Actions \cup {None}, socket : Generations \cup {None},
                   result : {"none", "denied", "ended"}]
    /\ orphans \subseteq Generations

\* Whatever is requested, twice or on several connections, one action runs at a time, and
\* none of its processes is started twice; the flag that keeps others out is cleared
\* exactly when it ends.
OneAtATime ==
    /\ active <=> Busy # {}
    /\ Cardinality(Busy) <= 1
    /\ \A a \in Actions : starts[a] <= Steps[a] /\ (starts[a] > 0 => a \in seen)
    /\ \A a \in Busy : starts[a] = job[a].step

\* No process is left alone after the deadline of its action: it has been terminated by
\* then, and is killed when the grace period is over.
KilledInTime ==
    \A a \in Busy : job[a].left >= CASE job[a].signal = "none" -> job[a].due
                                      [] job[a].signal = "term" -> job[a].due - KillGrace
                                      [] job[a].signal = "kill" -> - KillGrace

\* A socket that is not closing is the one the client will close or reconnect.  The failure
\* of an older connect() breaks this: it ends the newer generation and leaves its socket.
SocketsAreOwned ==
    \A g \in Generations :
        link[g] \in {"opening", "open"} => IsCurrentSocket(g) \/ g \in orphans

AgentInv == TypeOK /\ OneAtATime /\ KilledInTime /\ SocketsAreOwned

\* Each connection carries a conversation of its own: heartbeats 1, 2, 3 and so on after it
\* was accepted, though collections outlive connections; the result of a run, once, as it
\* ends, after this same connection carried its acceptance; and denials, on the connection
\* accepted now.  The first request of an action is the only one that can start it, so what
\* was once denied stays so.
Conversation ==
    [][/\ beat' # beat => \/ beat' = (beat + 1) % Modulus /\ IsCurrentSocket(accepted)
                         \/ socket' # socket \/ link'[socket] = "none"
       /\ \A a \in Actions :
            /\ job'[a].carrier \notin {job[a].carrier, None} => job'[a].carrier = accepted
            /\ starts'[a] # starts[a] => a \in Busy \/ a \notin seen
            /\ outcome'.action = a
                 => \/ outcome'.result = "ended" /\ a \in Busy \ Busy' /\ outcome'.socket = job[a].carrier
                    \/ outcome'.result = "denied" /\ a \in seen' /\ outcome'.socket = accepted]_vars

\* The network and the Hub let a connection through from time to time, and telemetry can
\* be collected.
HubAnswers ==
    /\ SF_vars(\E g \in Generations : IsCurrent(g) /\ Prepared(g) /\ NoOutcomeSent)
    /\ SF_vars(\E g \in Generations : IsCurrentSocket(g) /\ Open(g) /\ NoOutcomeSent)
    /\ SF_vars(\E g \in Generations : accepted # g /\ Accept(g) /\ NoOutcomeSent)
    /\ SF_vars(\E g \in Generations : IsCurrent(g) /\ Collected(g, TRUE) /\ NoOutcomeSent)

\* The client is connected and accepted.
Conversing == running /\ accepted = generation /\ link[accepted] = "open"

\* However connections, collections and processes end: until it is stopped, or an identity
\* that cannot be read stops it, the client gets accepted again; a connection that stays
\* accepted carries heartbeats; and every action ends.
Recovers ==
    HubAnswers =>
        /\ running ~> (accepted = generation \/ ~running)
        /\ []<>~Conversing \/ []<><<beat' # beat>>_vars
        /\ []<>(Busy = {})
=============================================================================
