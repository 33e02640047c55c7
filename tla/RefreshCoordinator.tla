------------------------- MODULE RefreshCoordinator -------------------------
(***************************************************************************)
(* GitHubRefreshCoordinator, apps/api/src/refreshCoordinator.ts: webhook   *)
(* events ask for refreshes of repositories; the coordinator debounces     *)
(* them, queues them for a bounded number of slots, and follows a refresh  *)
(* up when an event arrived while it ran.                                  *)
(*                                                                         *)
(* Everything but the handler itself is synchronous code, so each action   *)
(* is one callback with all the calls it makes.  Time advances in ticks,   *)
(* and timers fire when due or later, as the event loop gets to them.      *)
(***************************************************************************)
EXTENDS Naturals, Sequences, FiniteSets

CONSTANTS
    Repos,          \* repository keys, owner/repo in lower case
    Executions,     \* execution ids; an id is used again once nothing holds it
    None,           \* no repository, no execution
    Concurrency,    \* concurrency
    Debounce,       \* debounceMs, in ticks
    MaxDebounce,    \* maxDebounceMs, in ticks
    Grace           \* shutdownGraceMs, in ticks

ASSUME NoExecutionAssumption == None \notin Repos \cup Executions
ASSUME LimitAssumption == Concurrency \in Nat \ {0}
ASSUME TimeAssumption == Debounce \in Nat /\ MaxDebounce \in Nat /\ Grace \in Nat
ASSUME FiniteAssumption == IsFiniteSet(Repos)

VARIABLES
    timer,      \* debounceTimers and queuedAt: the time each timer has left, and
                \*   the time left until the repository's maximal deadline
    inFlight,   \* inFlight: the execution that owns each repository
    dirty,      \* dirty
    waitQueue,  \* waitQueue
    queuedKeys, \* queuedKeys
    execution,  \* the executions under way: behind runGate, or in the handler
    stops,      \* how often stop() was called; this.stopped is stops > 0
    awaited,    \* the executions the current stop() waits for
    grace,      \* the time left of its grace period
    draining,   \* is a stop() waiting?
    unanswered  \* history: repositories with an event no handler has started after

vars == <<timer, inFlight, dirty, waitQueue, queuedKeys, execution, stops, awaited, grace, draining, unanswered>>

Off == [on |-> FALSE, due |-> 0, left |-> 0]
Free == [pc |-> "free", repo |-> None]

Least(a, b) == IF a <= b THEN a ELSE b
Less(n) == IF n = 0 THEN 0 ELSE n - 1

\* Variant: the flag is set at the end of stop().
StoppedAfterDraining == stops > 0 /\ ~draining

Stopped == stops > 0

\* The repositories an in-flight map holds an entry for.
Keys(f) == {r \in Repos : f[r] # None}

\* The executions whose promise has not settled.
Live == {e \in Executions : execution[e].pc # "free"}

Elements(q) == {q[i] : i \in 1 .. Len(q)}

Init ==
    /\ timer = [r \in Repos |-> Off]
    /\ inFlight = [r \in Repos |-> None]
    /\ dirty = {}
    /\ waitQueue = <<>>
    /\ queuedKeys = {}
    /\ execution = [e \in Executions |-> Free]
    /\ stops = 0
    /\ awaited = {}
    /\ grace = 0
    /\ draining = FALSE
    /\ unanswered = {}

-----------------------------------------------------------------------------
(* scheduleRefresh, executeRefresh and processQueue, as parts of actions.  *)

\* Variant: the maximal deadline is forgotten.
RearmedWithoutCeiling(t) ==
    [on |-> TRUE, due |-> Debounce, left |-> IF t.on THEN t.left ELSE MaxDebounce]

\* A timer set again: due after the debounce time, but not after the maximal deadline.
Rearmed(t) ==
    LET left == IF t.on THEN t.left ELSE MaxDebounce
    IN  [on |-> TRUE, due |-> Least(Debounce, left), left |-> left]

\* Variant: an event for a repository in flight is dropped.
DirtyAfterDropping(r, f, d) == d

\* scheduleRefresh(r) when inFlight is f and dirty is d: a repository in flight
\* becomes dirty, a queued one stays where it is, another is debounced.
DirtyAfter(r, f, d) == IF r \in Keys(f) THEN d \cup {r} ELSE d

\* Variant: a queued repository is debounced all the same.
TimerAfterRequeueing(r, f) ==
    IF r \in Keys(f) THEN timer ELSE [timer EXCEPT ![r] = Rearmed(timer[r])]

TimerAfter(r, f) ==
    IF r \in Keys(f) \cup queuedKeys THEN timer ELSE [timer EXCEPT ![r] = Rearmed(timer[r])]

\* executeRefresh starts the repositories of S: each gets an execution of its own,
\* which owns its entry; f and x are inFlight and the executions before.  The tests
\* at the head of executeRefresh repeat those its callers have just made.
Start(S, f, x) ==
    \E id \in [S -> {e \in Executions : x[e] = Free /\ \A r \in Repos : f[r] # e}] :
        /\ \A r1, r2 \in S : id[r1] = id[r2] => r1 = r2
        /\ inFlight' = [r \in Repos |-> IF r \in S THEN id[r] ELSE f[r]]
        /\ execution' = [e \in Executions |->
                            IF \E r \in S : id[r] = e
                              THEN [pc |-> "gated", repo |-> CHOOSE r \in S : id[r] = e]
                              ELSE x[e]]

\* What executeRefresh clears for the repositories it starts.
Cleared(t, S) == [r \in Repos |-> IF r \in S THEN Off ELSE t[r]]

\* Variant: one execution too many.
TakenOneTooMany(q, f) ==
    {i \in 1 .. Len(q) :
        Cardinality(Keys(f)) + Cardinality({q[j] : j \in 1 .. (i - 1)} \ Keys(f)) <= Concurrency}

\* The loop of processQueue reaches position i of the queue when the executions under
\* way and those it has started before leave a slot.
Taken(q, f) ==
    {i \in 1 .. Len(q) :
        Cardinality(Keys(f)) + Cardinality({q[j] : j \in 1 .. (i - 1)} \ Keys(f)) < Concurrency}

TakenRepos(q, f) == {q[i] : i \in Taken(q, f)}

\* processQueue when the queue is q, its keys are ks, and t, f and x are the timers,
\* inFlight and the executions: it starts what it takes, but nothing in flight.
ProcessQueue(q, ks, t, f, x) ==
    LET started == TakenRepos(q, f) \ Keys(f)
    IN  /\ waitQueue' = SubSeq(q, Cardinality(Taken(q, f)) + 1, Len(q))
        /\ queuedKeys' = ks \ TakenRepos(q, f)
        /\ timer' = Cleared(t, started)
        /\ Start(started, f, x)

-----------------------------------------------------------------------------
(* Actions. *)

\* scheduleRefresh(r), called for a webhook event.
ScheduleRefresh(r) ==
    /\ ~Stopped
    /\ timer' = TimerAfter(r, inFlight)
    /\ dirty' = DirtyAfter(r, inFlight, dirty)
    /\ unanswered' = unanswered \cup {r}
    /\ UNCHANGED <<inFlight, waitQueue, queuedKeys, execution, stops, awaited, grace, draining>>

\* The debounce timer of r fires, and dispatch runs: it starts r if there is a free
\* slot and nobody waits, and queues it otherwise.
TimerFires(r) ==
    LET t == [timer EXCEPT ![r] = Off]
    IN  /\ timer[r].on /\ timer[r].due = 0
        /\ \/ /\ Stopped \/ r \in Keys(inFlight) \cup queuedKeys
              /\ timer' = t
              /\ UNCHANGED <<inFlight, execution, waitQueue, queuedKeys>>
           \/ /\ ~Stopped /\ r \notin Keys(inFlight) \cup queuedKeys
              /\ Cardinality(Keys(inFlight)) < Concurrency /\ waitQueue = <<>>
              /\ timer' = Cleared(t, {r})
              /\ Start({r}, inFlight, execution)
              /\ UNCHANGED <<waitQueue, queuedKeys>>
           \/ /\ ~Stopped /\ r \notin Keys(inFlight) \cup queuedKeys
              /\ ~(Cardinality(Keys(inFlight)) < Concurrency /\ waitQueue = <<>>)
              /\ ProcessQueue(Append(waitQueue, r), queuedKeys \cup {r}, t, inFlight, execution)
        /\ UNCHANGED <<dirty, stops, awaited, grace, draining, unanswered>>

\* Variant: the entry is released when the handler starts.
HandlerStartsReleasing(e) ==
    /\ execution[e].pc = "gated"
    /\ execution' = [execution EXCEPT ![e].pc = "running"]
    /\ inFlight' = [inFlight EXCEPT ![execution[e].repo] = None]
    /\ unanswered' = unanswered \ {execution[e].repo}
    /\ UNCHANGED <<timer, dirty, waitQueue, queuedKeys, stops, awaited, grace, draining>>

\* The execution passes runGate and calls refreshHandler, also after stop().
HandlerStarts(e) ==
    /\ execution[e].pc = "gated"
    /\ execution' = [execution EXCEPT ![e].pc = "running"]
    /\ unanswered' = unanswered \ {execution[e].repo}
    /\ UNCHANGED <<timer, inFlight, dirty, waitQueue, queuedKeys, stops, awaited, grace, draining>>

\* The entry of e's repository is cleared if it is still its own.
Released(e) ==
    IF inFlight[execution[e].repo] = e
      THEN [inFlight EXCEPT ![execution[e].repo] = None]
      ELSE inFlight

\* Variant: the queue is not looked at.
HandlerSettlesIdling(e) ==
    LET r == execution[e].repo
    IN  /\ execution[e].pc = "running"
        /\ inFlight' = Released(e)
        /\ execution' = [execution EXCEPT ![e] = Free]
        /\ IF ~Stopped /\ r \in dirty
             THEN /\ dirty' = DirtyAfter(r, Released(e), dirty \ {r})
                  /\ timer' = TimerAfter(r, Released(e))
             ELSE UNCHANGED <<dirty, timer>>
        /\ UNCHANGED <<waitQueue, queuedKeys, stops, awaited, grace, draining, unanswered>>

\* The handler resolves or rejects: the finally block releases the repository,
\* schedules one follow-up if it is dirty, and serves the queue.
HandlerSettles(e) ==
    LET r == execution[e].repo
        f == Released(e)
        x == [execution EXCEPT ![e] = Free]
        follow == ~Stopped /\ r \in dirty
    IN  /\ execution[e].pc = "running"
        /\ dirty' = IF follow THEN DirtyAfter(r, f, dirty \ {r}) ELSE dirty
        /\ IF Stopped
             THEN /\ inFlight' = f
                  /\ execution' = x
                  /\ UNCHANGED <<timer, waitQueue, queuedKeys>>
             ELSE ProcessQueue(waitQueue, queuedKeys, IF follow THEN TimerAfter(r, f) ELSE timer, f, x)
        /\ UNCHANGED <<stops, awaited, grace, draining, unanswered>>

\* stop(): called before the server closes (app.ts) and again when it has (server.ts).
\* It forgets all that waits, and waits for the executions in flight.
Stop ==
    /\ ~draining /\ stops < 2
    /\ stops' = stops + 1
    /\ timer' = [r \in Repos |-> Off]
    /\ dirty' = {}
    /\ waitQueue' = <<>>
    /\ queuedKeys' = {}
    /\ unanswered' = {}
    /\ awaited' = {inFlight[r] : r \in Keys(inFlight)}
    /\ draining' = (Keys(inFlight) # {})
    /\ grace' = IF Keys(inFlight) # {} THEN Grace ELSE 0
    /\ UNCHANGED <<inFlight, execution>>

\* Variant: no grace period.
StopReturnsPatiently ==
    /\ draining
    /\ awaited \cap Live = {}
    /\ draining' = FALSE
    /\ awaited' = {}
    /\ grace' = 0
    /\ UNCHANGED <<timer, inFlight, dirty, waitQueue, queuedKeys, execution, stops, unanswered>>

\* The race of stop() is decided: all it waits for has settled, or the grace period is over.
StopReturns ==
    /\ draining
    /\ awaited \cap Live = {} \/ grace = 0
    /\ draining' = FALSE
    /\ awaited' = {}
    /\ grace' = 0
    /\ UNCHANGED <<timer, inFlight, dirty, waitQueue, queuedKeys, execution, stops, unanswered>>

\* Time passes.  A timer that is due stays due until its callback runs.
Tick ==
    /\ timer' = [r \in Repos |-> [timer[r] EXCEPT !.due = Less(@), !.left = Less(@)]]
    /\ grace' = Less(grace)
    /\ UNCHANGED <<inFlight, dirty, waitQueue, queuedKeys, execution, stops, awaited, draining, unanswered>>

Next ==
    \/ \E r \in Repos : ScheduleRefresh(r) \/ TimerFires(r)
    \/ \E e \in Executions : HandlerStarts(e) \/ HandlerSettles(e)
    \/ Stop \/ StopReturns \/ Tick

Spec == Init /\ [][Next]_vars

\* The event loop runs due timers and settled promises, and time passes.  Nothing is
\* assumed of handlers, events and the operator.
FairSpec ==
    /\ Spec
    /\ \A r \in Repos : WF_vars(TimerFires(r))
    /\ \A e \in Executions : WF_vars(HandlerStarts(e))
    /\ WF_vars(StopReturns)
    /\ WF_vars(Tick)

-----------------------------------------------------------------------------
(* Properties. *)

Timers == [on : BOOLEAN, due : 0 .. Debounce, left : 0 .. MaxDebounce]
ExecutionStates == [pc : {"free", "gated", "running"}, repo : Repos \cup {None}]

TypeOK ==
    /\ timer \in [Repos -> Timers]
    /\ inFlight \in [Repos -> Executions \cup {None}]
    /\ dirty \subseteq Repos
    /\ waitQueue \in Seq(Repos)
    /\ queuedKeys \subseteq Repos
    /\ execution \in [Executions -> ExecutionStates]
    /\ stops \in 0 .. 2
    /\ awaited \subseteq Executions
    /\ grace \in 0 .. Grace
    /\ draining \in BOOLEAN
    /\ unanswered \subseteq Repos

\* Every execution under way owns the in-flight entry of its repository, and every
\* entry belongs to an execution: nothing is left in flight without one.
Owned(f, x) ==
    /\ \A e \in Executions : x[e].pc # "free" => x[e].repo \in Repos /\ f[x[e].repo] = e
    /\ \A r \in Keys(f) : f[r] \in Executions /\ x[f[r]].pc # "free" /\ x[f[r]].repo = r

EntriesAreOwned == Owned(inFlight, execution)

\* A repository debounces, waits in the queue or is in flight, one at a time, and it
\* waits at most once: no event starts a second refresh behind the first.
Placed(t, f, q, ks) ==
    /\ ks = Elements(q)
    /\ \A i, j \in 1 .. Len(q) : q[i] = q[j] => i = j
    /\ ks \cap Keys(f) = {}
    /\ \A r \in Repos : t[r].on => r \notin ks \cup Keys(f)

OnePlace == Placed(timer, inFlight, waitQueue, queuedKeys)

\* Only what is in flight needs a follow-up.
DirtyInFlight == dirty \subseteq Keys(inFlight)

\* A debounce timer never outlasts the maximal deadline of its window.
WithinMaxDebounce == \A r \in Repos : timer[r].on => timer[r].due <= timer[r].left

\* After stop() nothing waits.
StoppedIsEmpty ==
    Stopped => /\ \A r \in Repos : ~timer[r].on
               /\ waitQueue = <<>> /\ dirty = {}

\* The invariant the coordinator's maps keep, each step of every callback.
CoordinatorInv ==
    /\ TypeOK
    /\ EntriesAreOwned
    /\ OnePlace
    /\ DirtyInFlight
    /\ WithinMaxDebounce
    /\ StoppedIsEmpty

\* A repository is never refreshed twice at once, whatever events arrive while it is
\* debouncing, queued or in flight.
OnePerRepository ==
    \A e1, e2 \in Live : execution[e1].repo = execution[e2].repo => e1 = e2

\* No more refreshes run than the configured concurrency.
WithinConcurrency == Cardinality(Live) <= Concurrency

\* A repository waits in the queue only while every slot is taken: a free slot that
\* missed it would leave it waiting until some other refresh completes.
NoIdleSlot == waitQueue # <<>> => Cardinality(Keys(inFlight)) >= Concurrency

\* Until stop(), an event is answered by a handler that started after it, or one is
\* still to come: no coalescing loses it.
NothingForgotten ==
    \A r \in unanswered :
        \/ timer[r].on \/ r \in queuedKeys \/ r \in dirty
        \/ \E e \in Live : execution[e].repo = r /\ execution[e].pc = "gated"

\* After stop() was called no refresh begins, though refreshes complete and events arrive.
StopStartsNothing ==
    [][stops > 0 => {e \in Executions : execution'[e].pc # "free"} \subseteq Live]_vars

HandlersSettle == \A e \in Executions : WF_vars(HandlerSettles(e))

\* When handlers settle, every event is followed by the start of a refresh, under a
\* stream of events that never ends and with any number of repositories waiting.
EventsAreAnswered ==
    HandlersSettle => \A r \in Repos : r \in unanswered ~> (r \notin unanswered \/ Stopped)

\* The coordinator implements RefreshRequests, the promise ProjectService is built on.
\* A refresh is to come for what debounces, waits, is to be followed up, or is dispatched.
Gated == {execution[e].repo : e \in {x \in Executions : execution[x].pc = "gated"}}
Running == {execution[e].repo : e \in {x \in Executions : execution[x].pc = "running"}}
Awaiting == {r \in Repos : timer[r].on} \cup queuedKeys \cup dirty \cup Gated

Requests == INSTANCE RefreshRequests
    WITH requested <- Awaiting, running <- Running, closed <- Stopped

\* A refresh never starts without an event, twice at once, beyond the limit, or for a
\* request made after stop(), and no event is dropped before stop().
ImplementsRequests == Requests!RequestsSpec

\* stop() returns, even if a handler hangs.
StopEnds == draining ~> ~draining
=============================================================================
