# A TLA+ model of SonoranHub

SonoranHub is a self-hosted control plane: a *Hub* (`apps/api`, one Node process
with Fastify, WebSockets and Postgres), *Agents* on remote machines
(`apps/agent`), a library that collects AI capacity (`packages/ai-capacity`), a
GitHub adapter (`packages/github`) and a web dashboard (`apps/web`).

This directory holds TLA+ modules that model its concurrent parts, TLC
configurations that check small instances, and proofs checked by TLAPS. Modelled
are the Hub's handling of Agent sessions and remote actions, the coordinator of
webhook refreshes, the project service with the webhook deliveries and the order
in which the process starts and stops, the collection of GitHub data, the Agent
with its executor, and the collection of AI capacity with its four providers.

| module | what it is |
| --- | --- |
| `ActionStatus` | the statuses of a remote action and the transitions between them |
| `ActionLifecycle` | abstract: what the Hub promises about the rows of `machine_actions` |
| `MachineHub` | `apps/api/src/machines.ts` with the action stores of `actions.ts` |
| `MachineHubSafety_proofs` | type correctness of `MachineHub`, its safety theorems, and that it implements `ActionLifecycle` |
| `MachineHubEnds_proofs` | theorems on timeouts, ended connections and who reports |
| `RefreshRequests` | abstract: what the refresh coordinator promises its neighbours |
| `RefreshCoordinator` | `apps/api/src/refreshCoordinator.ts` |
| `RefreshCoordinator_proofs` | its safety theorems, and that it implements `RefreshRequests` |
| `ProjectService` | `projects.ts` with `webhooks.ts`, the two stores and the life of the process, on top of `RefreshRequests` |
| `ProjectService_proofs` | theorems on deliveries, locks and snapshots |
| `GitHubCollection` | `packages/github`, and what `projects.ts` derives from its results |
| `GitHubCollection_proofs` | its safety theorems |
| `AgentClient` | `apps/agent/src/index.ts` with the executor of `actions.ts` |
| `AgentClient_proofs` | its safety theorems |
| `CapacityCalls` | the calls of a provider's adapter: what the next four share |
| `CodexSource`, `GeminiSource`, `HttpSources` | the providers: a server process, a command, HTTP requests (OpenRouter and DeepSeek) |
| `CapacityRefresh` | the capacity coordinator, scheduler and runtime, composed with the providers |
| `CapacityRefresh_proofs` | theorems on health, quota, processes and clients |
| `CapacityResources_proofs` | theorems on what a collection tells, and on the price windows |
| `MC...` | instances for TLC: bounds, symmetry, small sets of data |

Run a check with `tlc -config hub_dispatch.cfg MCMachineHub` (the `hub_*`
configurations), `refresh.cfg` with `RefreshCoordinator`, `projects.cfg` with
`MCProjectService`, `github.cfg`, `agent.cfg` and `capacity.cfg` with
`MCGitHubCollection`, `MCAgentClient` and `MCCapacityRefresh`, and the proofs with
`tlapm MachineHubSafety_proofs.tla` and the like.

## Inventory

Everything in the Hub runs on one event loop: code is atomic between two awaits,
and nothing orders what happens at an await.

**Agent sessions and remote actions** (`machines.ts`, `actions.ts`; modelled).
State: WebSocket connections and their `ConnectionState`, one session per
machine, `pendingActions` with a timer each, `actionReservations`, the rows of
`machines` and `machine_actions`. Operations: upgrade, hello, heartbeat,
accepted and result messages, `requestAction`, timeouts, interrupts, `close`.
Hard: a machine must have one action at a time although its INSERT is awaited
between check and entry; a timeout, a report, a disconnect, a replacing session
and shutdown may all move the same action at once; queries fail, and a failed
INSERT may have taken effect; the process may die at any point. Correct when: one
active action per machine, no reservation leaks, every action ends and an ended
one never changes, an outcome is only recorded on the word of the connection
asked, a connection the Hub no longer listens to is closed.

**Webhook refresh coordinator** (`refreshCoordinator.ts`; modelled). State:
debounce timers with deadlines, `inFlight` with ownership tokens, `dirty`, a FIFO
`waitQueue`. Operations: `scheduleRefresh`, timer callbacks, completion, `stop`.
Hard: an event may arrive in any of a repository's states, and its refresh must
start after it; slots are limited; `stop` races completions. Correct when: no
event is lost, no repository is refreshed twice at once, the limit holds, no slot
idles while somebody waits, and nothing starts after `stop`.

**GitHub webhooks** (`webhooks.ts`, `webhookDeliveryStore.ts`; modelled). State: delivery
rows. A delivery is checked, recorded (`ON CONFLICT DO NOTHING`) and then
scheduled with the coordinator. Hard: concurrent redeliveries, a lost answer of
the INSERT, a restart between record and refresh, retention. Correct when: a
delivery is scheduled at most once, and a recorded one is followed by a refresh
that starts after it, or by a periodic one where a crash or shutdown came between.

**Project service** (`projects.ts`, `projectStore.ts`; modelled). State: a promise chain per
project, a cache of collections under way, snapshots and runs in Postgres, an
interval timer. Operations: full, manual and targeted refresh, start, stop,
reconciliation of the configuration. Hard: a collection shared between projects
may be older than what the second project already holds; a hanging holder of a
lock; stop between the steps. Correct when: refreshes of a project do not
overlap, saved data does not go back in time but by sharing, stop is final, and
the snapshots catch up with GitHub.

**Agent client** (`apps/agent/src/index.ts`; modelled). State: a generation per connection,
sequence number, collecting flag, backoff, timers. Hard: everything awaited may
outlive its generation. Correct when: nothing of an old generation reaches the
new connection, heartbeats go on after any reconnection, stop is final.

**Agent actions** (`actions.ts`, `policy.ts` of the Agent; modelled). State: the current
action and recent ids. Hard: duplicate requests, deadlines, processes that do not
die. Correct when: one action at a time, each id executed once, the executor
becomes free again.

**Capacity coordinator, scheduler, service** (`packages/ai-capacity`; modelled). State: the
collection under way of each provider, health, refreshes under way, snapshots.
Hard: a timeout abandons a collection that goes on; probe and collection write
one health record; stop and start. Correct when: callers share a collection, a
late answer does not overwrite a newer one, health reflects the latest outcome.

**Codex client and source** (`providers/codex`; modelled). State: a child process,
requests in flight, a shared initialization, a cached account. Hard: exit,
timeout, spawn failure and close settle the same promises, and a call the
coordinator gave up goes on. Correct when: there is one server, any other is being
ended, close ends, no child is left without a signal.

**Gemini, OpenRouter, DeepSeek** (modelled). State: a cached version and the quota
a probe leaves to its collection; nothing but the requests under way for the other
two. Hard: one of several questions fails; boundaries of balances and of pricing
windows. Correct when: a failed part neither hides the others nor is hidden, and
what is announced holds as long as it is said to.

**GitHub source and adapter** (`packages/github`; modelled). State: none between
collections but the last known health. Hard: parts fail independently and fall
back to earlier results; several workers share an index. Correct when: a result
admits how old each of its parts is, and so does the project summary made of it.

**Capacity snapshot store**, **HTTP routes**, **contracts, configuration,
logging**, **web dashboard**, **migrations**, **orchestrator**: queries and
requests without state of their own, data shapes, views, or a placeholder.
`PROJECT.json` gives the reason for each, and so does "Not modelled" below.

Interactions: a webhook calls `scheduleRefresh`, whose handler is the project
service's targeted refresh, which takes the same locks as the scheduled one; the
Hub and an Agent exchange protocol messages, and the Agent hands a request to its
executor; the capacity scheduler and service call the coordinator, which calls
the providers. `server.ts` and the hooks of `app.ts` start and stop them all.

## MachineHub

`machines.ts` is 1,000 lines of handlers. The model keeps every state change,
guard and early return, split where the code awaits:

- A handler that awaits the *read* of a row takes the read and its continuation
  in one step. A *write* is two steps, the moment it takes effect and the
  continuation, because other handlers run in between.
- `task[s]` is where the message handler of connection `s` is suspended, with the
  locals it keeps (`helloGet`, `helloUpsert`, `helloStored`, `helloInterrupt`,
  `beatGet`, ...). Messages of a connection are handled one at a time
  (`messageQueue`); `queued[s]` counts those behind. What a message contains is
  chosen when its handler starts, among all messages an authenticated client
  could send.
- `request[a]` is a call of `requestAction`: `creating`, the INSERT under way;
  `created`, the row written and the continuation to run; `done`.
- `job[j]` is a call of `transitionAction`, one for every place that calls it: a
  connection's handler (reports, and a hello that interrupts the session it
  replaces), the detach loop of a connection, each action's timer, the shutdown
  loop. A job gets the row, checks the transition, updates, and clears the
  pending entry.
- `AtomicStore` chooses the store: the in-memory one checks and writes at once;
  Postgres updates only if the status is still the one the job read.
  `StoreFaults` says which queries may fail; `lostCreate` is an INSERT that took
  effect although its answer was lost.
- `Restart` ends the process at any point: memory is lost, rows stay.

The table gives the actions for each part of the code; `map` in `PROJECT.json`
has the lines of every definition.

| code | actions |
| --- | --- |
| `handleSocket`, `cleanupConnection`, hello timer | `Connect`, `HelloTimeout`, `SocketClosed`, `Enqueue` |
| `processMessage` | `DropQueued`, `InvalidMessage`, `Hello`, `Heartbeat`, `ActionReport`, `HandlerFails` |
| hello, after its awaits | `HelloRead`, `HelloUpsert`, `HelloStored`, `HelloInstall` |
| heartbeat, after its awaits | `HeartbeatRead`, `HeartbeatUpsert`, `HeartbeatStored` |
| `requestAction` | `RequestAction`, `CreateRecord`, `Dispatch` |
| `transitionAction` and its callers | `TimerFires`, `JobGet`, `JobUpdate`, `JobWrite`, `JobOk`, `JobFailed` |
| `close` | `Close`, `FinishClose`, `CloseFails` |
| staleness of a session | `GoStale` |
| death and start of the process | `Restart` |

Left out: audit events, the contents of telemetry, catalogs and results,
`startedAt` and other times, authentication of the upgrade, and the end of the
process by an unhandled rejection (it is `Restart`, at any point, whatever the
reason).

### Runs

| run | distinct states | question |
| --- | --- | --- |
| `hub_dispatch` | 1.15 million (up to symmetry) | one active action per machine, reservations, tracking, refinement of `ActionLifecycle`, reports by the addressee only |
| `hub_sessions` | 711 thousand (up to symmetry) | message queues, failing writes, shutdown, restarts: the inductive invariant, ended connections, ended rows |
| `hub_liveness` | 27 thousand | the in-memory store, with failing reads: actions, reservations and silent connections end, and a timeout is always ahead |
| `hub_shutdown_gap` | violation | an action left active by shutdown |
| `hub_postgres_race` | violation | a timeout overtaken by an acceptance |
| `hub_two_hellos` | violation | two live connections of one machine |
| `hub_rejected_hello` | violation | a rejected connection becomes the session |

Bounds. One machine: the maps are keyed by machine, and the only thing shared
between machines is the shutdown loop; the theorems hold for any number. Two
connections are a session and the one that replaces it (three in `hub_two_hellos`, which needs them), two actions are
what it takes to break "one at a time". `MaxQueue` messages wait behind the one
in progress; a queued message matters because it is handled after the connection
has ended, and one suffices. `MaxBeats` bounds the sequence numbers. `Outcomes`
are the results Agents report. `MaxInFlight` (a CONSTRAINT) bounds how many
handlers, requests and loops are suspended at once: the races between two are
explored in full, and the runs of one connection have no such constraint.
`WhileRunning` cuts `hub_dispatch` off when the Hub begins to close, which the other two explore.
Symmetry is used only in runs without liveness; machines, connections and
actions are interchangeable in the specification and in the properties of those
runs. Deadlock is not checked: when every connection and action id of an
instance is used up, the model may stop where the program would not.

Fairness (`hub_liveness`). The event loop runs every continuation and every timer
that is due, queries are answered or rejected, and the grace period of `close` passes:
weak fairness on these steps. Reads may fail, those of `close` among them. Nothing is assumed about Agents, clients or operators,
so an Agent may be silent for ever. `ActionsEnd` is checked with the in-memory
store; with Postgres it fails, for the reason `hub_postgres_race` shows.

### What disagrees with the documentation or the comments

The four violation runs each show one behaviour (`findings` in `PROJECT.json`
quotes the sentences):

- A request whose INSERT is under way when shutdown takes its list of actions to
  interrupt leaves a PENDING row behind.
- With Postgres a timeout that loses to an *acceptance* is swallowed as if it had
  lost to a result, and the timer is gone: the action stays RUNNING.
- A hello suspended in its upsert does not notice that its connection was
  rejected, and installs it as the session.
- Two hellos that both replace one session leave two connections the Hub listens
  to; one of them is not the session.

The model shows more that no run is spent on. A read that fails while `close`
interrupts the pending actions (`machines.ts:746`, outside the `try`) rejects `close` before
it terminates a connection or clears a map (`CloseFails`), where REMOTE_AGENT.md:30-32 has
it terminate hung sockets; the timers of the actions it did not reach stay armed, which is
why `TimeoutAhead` and `ActionsEnd` hold all the same, with that read failing. Two upserts of a machine
row may be written in the other order than they were read; the Postgres store can
lose `startedAt`, as an overtaken timeout writes its own record whole after reading the
row once more (`actions.ts:79`; the model has no times); a restart leaves
active rows behind, which nothing interrupts; and after an INSERT whose answer
was lost, or after a restart, a machine may get a second active row. The last two
are why several theorems assume `NothingLost`.

### Theorems

For every set of machines, connections and actions, every bound, both stores and
any failing queries:

- `TypeCorrect`, `HubInvariant`. `HubInv` is inductive. It joins the types with
  `RequestsOK` (what the stage of a request says of its row and its entry),
  `JobsSound` (a write is only issued for a valid transition from the status
  read; what a job has read, written or seen fail stays so), balanced
  reservations, and `ClosedForgets`. That an ended row is never
  written needs what a job between read and write knows about it, so the
  properties alone are not inductive.
- `ReservationsAreBalanced`, `EndedRowsAreFinal`, `MemorySwallowsNothing` (for
  the in-memory store) and `ClosedHubIsQuiet` follow from it.
- `OnlyTheAddresseeReports`. A report is checked against the session when it
  arrives and written some awaits later. `ReportsOK`, inductive relative to
  `HubInv`, says that meanwhile the actions a report is about stay those that were
  sent to its connection, for its machine; and `JobsSound` says that only reports
  write RUNNING, SUCCEEDED, FAILED or DENIED.
- `EndedConnectionsAreNotHeard`: no heartbeat counts after the end of its
  connection.

With `AtomicStore` (the in-memory store), `TimeoutIsAhead`: a tracked active
action has its timer armed or the timeout at work. It is inductive relative to
`HubInv`, by which a timeout is through with an action only when the action has
ended; with Postgres it does not hold (`hub_postgres_race`).

Without failing reads (`"get" \notin StoreFaults`), `EndedConnectionsClose`. Its
invariant `EndsInv` adds `ConnectionsOK`: a socket not yet used has no state, a
session is that of a connection that said hello, and a connection whose hello is
being handled has no session, so that it does not replace itself. The assumption is needed: a read that
fails while a hello interrupts the actions of the session it replaces rejects the
hello, and leaves the replaced connection ended with its socket open.

Assuming `NothingLost` (no `lostCreate`, no restart):

- `ReservationInvariant`, `OneActive`, `ActiveTracked`. An action that is being
  created, is active or is pending *holds* its machine; a held machine is
  reserved and held once. This is inductive relative to `HubInv`, and "one active
  action" is not without it: the reservation is what excludes a second request
  during the INSERT of the first.
- `HubImplementsLifecycle`: `MachineHub` implements `ActionLifecycle`, whose
  state is the status of every row and the machine of every request.

Model-checked only: `ActionsEnd`, `ReservationsEnd` and `SilentConnectionsEnd`.

## RefreshCoordinator

The class is synchronous but for the handler, so each action is one callback with
every call it makes: `ScheduleRefresh`, `TimerFires` (with `dispatch`),
`HandlerStarts`, `HandlerSettles` (the `finally` block with the follow-up and
`processQueue`), `Stop`, `StopReturns`. `ProcessQueue` gives the whole effect of
the loop in one definition: `Taken` are the positions it reaches, and
`Start` puts all repositories it starts into slots. Time advances in ticks;
a timer keeps its remaining time and that of the maximal deadline (`queuedAt`
and `maxDebounceMs`), stays due until its callback runs, and callbacks of due
timers run in any order. Execution numbers are identifiers that are used again
once nothing holds them; the code only compares them. `unanswered` is a history
variable: the repositories with an event after which no handler has started.

A handler may succeed, fail, or never settle. Events may arrive at any moment
and without end. `stop()` is called twice, as `app.ts` and `server.ts` do.

Run `refresh` (7,641 distinct states): three repositories, one slot, a debounce
time of 2 and a maximal debounce of 3 ticks, one tick of grace. One slot makes
every repository queue; three of them make one wait behind another; two
execution identifiers let an old and a new owner of a repository differ. That
the limits hold for more slots and more repositories is proved.

Fairness: due timers fire, gated executions reach their handler, time passes,
and `stop` is resumed when its race is decided. `EventsAreAnswered` assumes
besides, in the property itself, that handlers settle: with hanging handlers in
every slot the queue cannot move, in the code as in the model. `StopEnds` does
not assume it.

Theorems, for every set of repositories, any concurrency and any times:
`CoordinatorIsConsistent`, `RefreshesAreExclusive`, `ConcurrencyIsBounded`,
`QueueMeansFull`, `EventsAreKept`, `StopIsFinal`. The inductive invariant is
`IInv`: the consistency of the maps, `NoIdleSlot`, `SlotsKept` and
`NothingForgotten`. `NoIdleSlot` carries the argument: as the queue is only
non-empty when all slots are taken, a completion frees exactly one slot and the
loop takes at most one repository (`TakenIsFirst`), which keeps both limits.
`ProcessQueueKeeps` is the lemma about the loop, used for a timer that fires and
for a completion. `Owned`, that executions and entries name each other, gives
exclusiveness and, by a surjection from the keys to the executions, the limit on
executions.

`RefreshRequests` is the coordinator seen from outside: the repositories asked
for, those being refreshed, and whether `stop()` was called. The refinement maps a
repository to "requested" while it debounces, waits, is dirty, or has an execution
that has not reached its handler. The run checks it as `ImplementsRequests`
(which implies the limit on running handlers), and `CoordinatorImplementsRequests`
proves it with `IInv`: each action is a request, a start, an end, the stop or a
stutter. `ProjectService` is built on `RefreshRequests` rather than on the
coordinator, which keeps its state space small and is what the theorem is for.

Model-checked only: `EventsAreAnswered` and `StopEnds`.

## ProjectService

The module has everything that competes for a project: the full refresh of the
interval, one targeted refresh per repository, and around them the webhook route
with its delivery rows, the project rows and snapshots, and the phases of
`server.ts`. The coordinator is that of `RefreshRequests`.

- `work[w]` is a refresh (`Full`, or one per repository): `list` (rate limit and
  projects), `lock` (in the promise chain of a project), `collect`, `save`, and
  `return` for one that begins after `stop()`. `Iterate` is the loop over the
  projects with its test of `stopped`.
- `lock[p]` is the chain of `withProjectLock`, its head the holder.
- GitHub's data is a version per repository; a collection reads the current one or
  falls back to that of the snapshot read under the lock. `shared` is
  `collectionCache`, keyed by attention labels.
- `phase` follows `server.ts`: listen, start, first refresh, up, then a failed start
  (whose `catch` leaves the server listening) or a shutdown. `End` is every end
  of the process; rows stay, memory does not.
- A query may fail, before or after it took effect. In the interval's refresh
  nothing catches the rejection, and Node ends the process.
- `due`, `lost` and `acts` are history: accepted deliveries no refresh has started
  after, those of them that a crash, a shutdown or a failed INSERT explains, and how
  many refreshes each row asked for.

Run `projects` (292 thousand distinct states): two projects with the same labels
share a repository, one delivery arrives any number of times, GitHub's version
grows once, and every kind of failure is on. A second project is what makes
sharing and lock queues matter; a second repository or delivery would add only
independent copies. `DeliveriesActOnce`, `SavesBuildOnLatest` (refreshes are
serialised: each save is built on the snapshot it replaces), `OnlySharingGoesBack`
(data shown goes back in one case only: a targeted refresh that saves the collection
it made for an earlier project), `StoppedTakesNoProject`, `ServiceInv` (nobody
waits for a lock whose holder is gone), and `CatchesUp`: polling alone makes the
snapshots current again and again, whatever webhooks write in between.

Fairness: continuations run, queries are answered or rejected, and the coordinator
starts what was asked for. `CatchesUp` assumes, in the property, that the process
stays up, the interval fires, and GitHub answers infinitely often within the rate
limit. Deadlock is not checked: a process that failed to start, or was stopped, may
stay so for ever.

A refresh keeps the projects it has left as their places in the list (`todo`): it
visits them in order, and nothing else of the list matters.

Theorems (`ProjectService_proofs`), for any projects, repositories, labels,
deliveries and number of requests at once (the run has one request at a time), from
`ConfigurationAssumption`: every project has a repository (`contracts/projects.ts`
demands one), and the model values for "none" and "full" are nothing else.
The invariant `IInv` joins four parts:

- `DeliveriesActOnceAlways`. `DeliveryInv`: a request that has recorded its delivery
  and not yet asked finds the row accepted and nobody else in its place
  (`OneOwes`); without the row a delivery is neither owed nor counted (`RowsDecide`).
- `SavesNeverCross`, `StoppedStaysAway`. `LockInv`: a queue names a
  worker once, and exactly while the worker is at that project; who collects or saves
  is at its head and has read the snapshot that is there (`HoldersAreUpToDate`).
  `WorkersAreCounted` says why a refresh that begins stands in no queue: the flag
  `refreshing`, and the coordinator's `running`, cover all that are under way, and
  neither the flag nor the interval is set before the start.

- `ServiceInvHolds` and `OnlySharingGoesBackAlways`. `BuildInv` says what a refresh has
  in hand: places of projects that have its repository (`Fits`), results at least as
  new as those of the snapshot it read, as long as it collected them for this project
  (`Sound`), and a cache that holds results of earlier projects with the same labels
  only (`SharedBefore`). With the locks, what was read is what is saved, so that only
  a result from the cache can be older than what it replaces; and such a result was
  collected for an earlier project, which is `SharesCollection`.
- `Declared` has the types of the other variables.

Model-checked only: `CatchesUp`.

## GitHubCollection

One repository, collected again and again, with or without credentials. `Collect`
begins with the metadata; then pull requests, issues and CI state are read side by
side, the pull requests looked up by `Concurrency` workers that take the next index
from a shared counter (`mapConcurrent`). Any request may be refused; `Classify` is
`classifyGitHubError`, `AggregateCiState` and `CommitCiStates` derive a commit's
state from its checks and statuses, and `Collected` mixes what was read with the
previous result. Of data the model keeps its *age*: new, old (kept from an earlier
collection) or none. `Attention`, `Freshness` and `Summary` are what `projects.ts`
makes of two such results, the second being any result a repository can have
(`Others`).

Run `github` (313 thousand distinct states): three pull requests, two workers,
four ways to be refused, six sets of checks and three of statuses; deadlock is
checked. Three and two let a worker take a second index while the other still holds
its first. `CollectionInv`: every answer is at the index its worker took, a result
admits its ages (fresh only if all is new, partial only with new metadata, stale
only with nothing new), and the summary is fresh only if both repositories are. It says
of each count what it rests on: pull requests and attention issues are summed exactly
when those of every repository were read, now or earlier; failing CI is counted as
soon as that of one repository was, so that its 0 says less: a
project with a repository that could never be read and one whose CI succeeded has 0 failing
CI, while the other two counts are null (`projects.test.ts:191` has a comment against "fake
zeroes", but for a project whose only repository is unavailable). `HealthFollows`: a
collection all of whose failures were serious (authentication, permission, rate limit)
shows in the health report, and one without such a failure makes it available or, if its
metadata failed, leaves it alone; of a mixture it says nothing, as the code lets the
last failure decide. `CollectionsEnd`, as GitHub answers or the request fails.

Theorems (`GitHubCollection_proofs`), for any number of pull requests and workers
and any refusals: `ResultsAdmitTheirAges` (`CollectionInv`) and
`HealthFollowsCollections` (`HealthFollows`). Admission is only asked of a finished collection, so
the invariant `IInv` says what holds on the way: `Workers` (by `Turns`, an index
below `next` is busy or done, none above is, and at most `Concurrency` workers are
busy; the list is new only when all are done), `Previous` (the previous result holds
nothing new, and no CI state that was not read), `Recorded` (an error is recorded exactly when a part has failed).

## AgentClient

The client with its generations and the executor of actions, against a Hub, a
network and an operator who may do anything at any time: messages in any order,
also on sockets that are closing, `connect()` and `stop()` at any moment.
A generation is a token that is used again when nothing refers to it
(`Referenced`), which the code's counter only compares for equality. `Prepared` and
`ConnectFails` are the two outcomes of the await in `connect()`; `Collected` is the
end of a telemetry collection, which may be of an older generation; `send()` is
`Carrier`. An action runs one or two processes (`Steps`) under one deadline;
`TimeoutFires` sends SIGTERM, then SIGKILL, and time (`Tick`) passes only while an
action runs.

`Request` answers each request the code denies (busy, seen before, refused by policy)
with a result on the connection accepted now, as `index.ts` does; the result of a run
goes out on the connection its acceptance went out on, if that one still stands. What
goes out in a step is `outcome`. A second request for an action that is running is answered
with a denial, which is terminal, and the result of the run follows: not the "exactly
one terminal result" of REMOTE_AGENT.md:91-93, if a Hub repeats a request, which the one of this
repository does not.

Run `agent` (267 thousand distinct states): two generations, an older and the
current; two actions, of one and of two processes, each requested any number of times; a
limit of 2, a grace of 1 and deadlines of up to 2 ticks, so that each of the two may
come first. `AgentInv`: one action at a time, no process started twice, a process
signalled by its deadline, and no open socket without an owner except the one of the
observation below. `Conversation`: heartbeats of a connection count 1, 2, 3 after its
acceptance, though collections outlive connections; the result of a run goes out once,
as it ends, on the connection that carried its acceptance, or not at all; a denial goes
out on the connection accepted now; and what was denied first is never started.
`Recovers`: the client gets accepted again, a connection that stays accepted carries
heartbeats, every action ends.

Fairness: timers fire, reads and collections end, a socket that was closed closes,
a process that got SIGKILL ends. A socket that an older `connect()` abandoned
closes some time, which the code does not bring about but the peer does: the tokens
of the instance would run out otherwise. `Recovers` assumes, in the property, that
the network and the Hub let a connection through infinitely often.

Theorems (`AgentClient_proofs`), for any generations, actions and times, from
`AgentAssumption`: `AgentIsSafe` (`AgentInv`) and `ConversationsAreKeptApart`
(`Conversation`). `ExecutorInv` adds to `OneAtATime` and `KilledInTime` that what is
busy was seen, and that a killed process waits for no timer. `ClientInv` has

- `NewSockets`: a generation whose socket is not made or not open yet is unheard of:
  not accepted, no heartbeat, no action of it. A comparison with the current
  generation after an await suffices because of it.
- `CurrentSocket`: while the client runs, it has a socket of an earlier generation
  only as long as a `connect()` is on its way.
- `Beats`: the last number counted is the last one the socket carried, and 0 before
  the acceptance.
- `Carriers`: an action of the standing connection was accepted on its socket.

`HeardCarrier` draws from the first two what `send()` relies on: a message of a
generation something is known of goes out on the socket of that generation.
`Recovers` is model-checked only.

## CapacityRefresh

The runtime of one provider, as the coordinator keeps nothing that two share:
start, timer, probe, collection, persistence, health, stop. A call of the adapter
lives in a slot of `Calls`; the coordinator awaits one, and a call that timed out
goes on beside the next ones, which is where the hazards are.

- `CodexSource`: the client the source holds, the initialization that calls share,
  the cleanup a new start waits for, the cached account, and each client's process
  from spawn to SIGKILL (`proc`). `client.ts` settles its promises from five
  places (`SpawnEvent`, `ClientFails`, `Exits`, `CloseStep`, answers).
- `GeminiSource`: version, quota and credits commands, the quota a probe leaves to
  its collection, termination of a command.
- `HttpSources`: OpenRouter and DeepSeek: the requests, then what a collection
  makes of their answers, and the pricing window with its search for the next
  change (`NextTransition`).

Run `capacity` (248 thousand distinct states): four initial providers with every set
of keys, two slots (a call and the one it outlives), three Codex clients (one in
use, one being ended, one to come), answers at every boundary, a week of four ticks
a day with tariffs whose windows touch, recur after days or contradict each other.
`CapacityInv` (health hides no failure; a quota serves the collection of its own
refresh), `ProcessesAreOwned` (one Codex server, others being ended, nobody asks a
closed one; after `close()` every process was told to end but one a refresh under
way then starts), `AnswersAreKept` (one resource for each thing asked, which the contract
accepts, one failure neither discards the others nor is hidden; the exception is an
account overspent within the tolerance), `PricesHold` (the price announced holds until
`changesAt` and changes there, compared with `PeakAt` tick by tick), `Recovers`.

Money is a number of units of a billionth of a dollar, and `Dollar` is how many make one:
`Tolerance` is the larger of one unit and a billionth of the limit, rounded down, which is the `1e-9` of
`normalizeRemaining` for amounts that are themselves whole units. The instance sets `Dollar` to 2, so
that limits on both sides of the larger term, and amounts within and beyond the
tolerance, are among a handful of answers (`SomeKeys`, `SomeCredits`).

Two properties except what the code does against its documentation:

- Usage above the credits by no more than the tolerance gives a resource with `used` above
  `limit` (`adapter.ts:238-240`), which the contract rejects
  (`contracts/src/capacity.ts:76-86`), and with it the whole collection, the good key budget
  included; AI_CAPACITY.md:136-140 has a failed credits request keep the key's.
  `AnswersAreKept` says that this alone, or nothing known at all, loses a collection that
  returned in time (`Overspent`).
- The collection of a refresh under way when `stop()` closes the Codex source
  (`capacity.ts:122`) starts a new server, which nothing closes, where AI_CAPACITY.md:262 has
  the API close the child during shutdown. `ClosedMeansEnded` excepts this one server.

Fairness: timers fire, promises settle, the store answers, a request or command
ends or is ended by its timer, a process that got SIGKILL exits. That snapshots are
saved again assumes that failures stop. Deadlock is not checked: a stopped runtime
does nothing more.

Theorems (`CapacityRefresh_proofs`), for any number of calls and clients:
`CapacityInvHolds` (`CapacityInv`) and `ProcessesAreOwnedHolds` (`ProcessesAreOwned`).
That one server runs is not inductive; the invariant `IInv` has

- `Processes`: only the source's client can be open, and a closed client whose process
  runs is being ended.
- `Asks`: requests are pending with the source's own client, which is open, and questions
  about the account with one that is ready.
- `OneInitializes`: until the source is closed, one call is on its way to start or
  initialize a client, the one that `initialization` names, so that a second server
  cannot start beside the first.
- `Cleanups`: of the calls that wait for an old client to close, one at most will start
  a process, and there is no client meanwhile.
- `AfterClose`, `Signals`: after `close()` only the collection of the refresh under way
  is still called, and commands that run were told to end.
- `Awaited`: only the call that the coordinator waits for is seen settled, and until
  then it is of the kind that was asked for.
- `HealthInv`, `QuotaInv`: what the health report and the quota must say in between the
  steps of a refresh.
- `HttpCalls`: a call by HTTP has asked every endpoint its keys allow.

`CapacityResources_proofs` proves `AnswersAreKeptHolds` (`AnswersAreKept`) and
`PricesHoldHolds` (`PricesHold`) for any tariffs, length of the day, instants and
amounts. `Assembled` (`AssembledHolds`) says that what a collection returned tells it all
until it is saved; each resource is settled by a lemma
of its own (`KeyIsRead`, `CreditIsRead`, `BalanceIsRead`, `PricingIsRead`). For the price,
`FirstChange` shows that the code's search finds the first change: where the price
changes a window starts or ends (`ChangeIsCandidate`), the price of any tariff that
compiles changes within eight days, which is how far the code looks, and the least
candidate at which it differs from now is that change. `PeakAgrees` is that the price
computed is that of the documentation.

Assumptions: `None` is no call, client or answer (`CallsAssumption`,
`ClientsAssumption`, `AnswerAssumption`), numbers of an answer are not negative, as
the adapters' schemas demand, and windows name weekdays and minutes of the day
(`TariffAssumption`), as `compileDeepSeekPricingConfig` does. Amounts are whole units.

## Observations

Behaviour met while modelling that the modules include and that no run is spent on:

- A result of the Agent's older `connect()` whose identity cannot be read ends the
  newer connection's generation and leaves its socket open (`orphans`); it also ends
  reconnection, where PRODUCT_REQUIREMENTS.md:186 asks for recovery.
- A Gemini probe that outlives its timeout leaves a quota that a later collection
  reports as its own (`QuotaIsTaken` excepts it).
- `partialError` of a GitHub collection keeps the last failure only: an
  authentication failure followed by a lesser one leaves the source available, of which
  `HealthFollows` says nothing.
- The tolerance of status 422 in `getCommitCiState` never applies, as
  `classifyGitHubError` drops the status (`Tolerated`, `Classify`).
- A targeted refresh may show older data than before, until the next poll.
- A rejected query in the interval's refresh ends the process.
- CI of a branch is read by name in several requests, which may see two commits;
  the model reads it at once.
- Code that nothing reaches: `collectRepository` never rejects, so the `catch` around it
  in both refreshes of `projects.ts` has nothing to catch; and of the three `start()`
  that `server.ts` awaits only that of the project service can reject, so `StartFails`
  is from there only.

## Not modelled

- The web dashboard: views over the API; its polling can show answers out of order
  for a moment, and keeps no state beyond the view.
- Routes of `app.ts` other than the webhook and the hooks: they parse, call one of
  the services above and format.
- The SQL of the stores beyond its effect on rows; migrations.
- Contracts, configuration and logging: shapes and conversions. Parsing of command
  output, of policy and project files, and of provider answers enters as good or bad.
- The orchestrator, a placeholder.
- Inside the modelled parts: audit events, texts, telemetry, links, labels, rate-limit
  headers, and the length of delays, but for the coordinator's and the executor's.

## Proved, checked, and what remains

Proved for every value of the constants: every invariant and every action property
that a passing run checks, some of `MachineHub`'s under the conditions named above
(`NothingLost`, the in-memory store, no failing reads), and both refinements
(`ActionLifecycle`, `RefreshRequests`).

Model-checked only: all liveness (`ActionsEnd` and the other two of `hub_liveness`,
`EventsAreAnswered`, `StopEnds`, `CatchesUp`, `CollectionsEnd`, both `Recovers`), which is
out of the prover's reach, as is what recursive definitions compute on arbitrary
data; and the counterexamples, which need no proof.

TLC finds the inductive invariants it can evaluate true on the instances of the runs.
The proofs of `ProjectService` and `CapacityRefresh` were also tried on broken models:
with a cache that outlives its refresh, a lock that is not released, or a search for
the next window boundary in place of the next change of price, they fail at the step
that needs what was broken.

Next: a composition of `AgentClient` with `MachineHub` over a channel: a result the Hub
records is one the Agent produced. Each side is checked against any messages of the
other, so that today it rests on the wire between them only.
