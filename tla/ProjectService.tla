--------------------------- MODULE ProjectService ---------------------------
(***************************************************************************)
(* ProjectService (apps/api/src/projects.ts) with the parts of the Hub it  *)
(* works with: the webhook route and its delivery rows (webhooks.ts,       *)
(* webhookDeliveryStore.ts), the project rows and snapshots                *)
(* (projectStore.ts), and the order in which the process starts and stops  *)
(* them (server.ts, the preClose hook of app.ts).  The refresh coordinator *)
(* is the one RefreshRequests specifies.                                   *)
(*                                                                         *)
(* Two kinds of refresh compete for a project's lock: the full one, which  *)
(* polling starts, and one targeted refresh per repository, which webhooks *)
(* ask for.  Each is split at its awaits; a query takes effect together    *)
(* with its continuation where the refresh holds the lock that protects    *)
(* what it reads and writes.  GitHub's data of a repository is a version   *)
(* that grows; the model follows one part of it (metadata, pull requests,  *)
(* issues or CI state), which a collection reads or fails to read.         *)
(***************************************************************************)
EXTENDS RefreshRequests, Sequences

CONSTANTS
    Listed,         \* the configured projects, in the order listProjects returns them
    RepositoriesOf, \* the repositories of each project, in the order they are collected
    Labels,         \* each project's key in the collection cache: its attention labels
    Deliveries,     \* webhook delivery ids
    Target,         \* the repository of each delivery; None: a ping, or an event without use
    Posts,          \* bound: webhook requests handled at once
    None,           \* no repository, delivery, snapshot or result
    Full,           \* the full refresh, as a holder of locks
    MaxVersion,     \* bound: the versions a repository goes through at GitHub
    Faults          \* what may fail: "part", "limit", "store", "process"

Elements(q) == {q[i] : i \in DOMAIN q}

Projects == Elements(Listed)

ASSUME ConfigurationAssumption ==
    /\ Listed \in Seq(Projects)
    /\ RepositoriesOf \in [Projects -> Seq(Repos) \ {<<>>}]
    /\ DOMAIN Labels = Projects
    /\ Target \in [Deliveries -> Repos \cup {None}]
    /\ None \notin Repos \cup Projects \cup {Full, "accepted", "ignored"} /\ Full \notin Repos
    /\ MaxVersion \in Nat \ {0}
    /\ \A p \in Projects : None \notin [Elements(RepositoriesOf[p]) -> 0 .. MaxVersion]

VARIABLES
    phase,      \* where server.ts is: "down", "starting", "initial", "up", "failing", "closing"
    poolOpen,   \* before machinePool.end()?
    stopped,    \* ProjectService.stopped
    polling,    \* is refreshTimer set?
    refreshing, \* ProjectService.refreshing
    lock,       \* projectLocks: who holds, and who awaits, each project's lock
    work,       \* each refresh: where it is suspended, and its locals
    reconciled, \* do the rows of projects describe the configuration?
    snapshot,   \* the latest row of project_github_snapshots for each project
    github,     \* the version of each repository
    row,        \* github_webhook_deliveries: the outcome of each delivery, or None
    post,       \* the webhook requests being handled
    acts,       \* history: the refreshes asked for since a delivery's row was written
    due,        \* history: accepted deliveries no targeted refresh has started after
    lost        \* history: accepted deliveries whose refresh was never asked for, or forgotten

serverVars == <<phase, poolOpen, stopped, polling>>
refreshVars == <<refreshing, lock, work>>
storeVars == <<reconciled, snapshot, github>>
deliveryVars == <<row, post, acts, due, lost>>
vars == <<serverVars, requestVars, refreshVars, storeVars, deliveryVars>>

Workers == Repos \cup {Full}
LabelSets == {Labels[p] : p \in Projects}
OwnRepos(p) == Elements(RepositoriesOf[p])

\* A worker's locals: the projects left, by their places in Listed (its loop is at the
\* first), the snapshot it read under the lock, the results it will save, the repositories
\* left to collect, and collectionCache.
IdleWork == [pc |-> "idle", mode |-> "collect", todo |-> {}, read |-> None, draft |-> None,
             left |-> <<>>, shared |-> [l \in LabelSets |-> None]]

IdlePost == [pc |-> "idle", delivery |-> None, accepted |-> FALSE]

Init ==
    /\ RequestsInit
    /\ phase = "down"
    /\ poolOpen = TRUE
    /\ stopped = FALSE
    /\ polling = FALSE
    /\ refreshing = FALSE
    /\ lock = [p \in Projects |-> <<>>]
    /\ work = [w \in Workers |-> IdleWork]
    /\ reconciled = FALSE
    /\ snapshot = [p \in Projects |-> None]
    /\ github = [r \in Repos |-> 1]
    /\ row = [d \in Deliveries |-> None]
    /\ post = [h \in Posts |-> IdlePost]
    /\ acts = [d \in Deliveries |-> 0]
    /\ due = {}
    /\ lost = {}

-----------------------------------------------------------------------------
(* Results: the version of the part, or 0 when nothing is known of it. *)

\* A snapshot's results of p's repositories, as a refresh starts from them.
Previous(s, p) == [r \in OwnRepos(p) |-> IF s = None THEN 0 ELSE s[r]]

-----------------------------------------------------------------------------
(* The process.  Its memory is gone when it ends; the rows stay. *)

Recorded(h) == post[h].pc = "recorded" /\ post[h].accepted
Owing == {post[h].delivery : h \in {x \in Posts : Recorded(x)}}

\* The process ends: its exit, a kill, or an unhandled rejection.
End ==
    /\ phase' = "down"
    /\ poolOpen' = TRUE
    /\ stopped' = FALSE
    /\ polling' = FALSE
    /\ requested' = {} /\ running' = {} /\ closed' = FALSE
    /\ refreshing' = FALSE
    /\ lock' = [p \in Projects |-> <<>>]
    /\ work' = [w \in Workers |-> IdleWork]
    /\ post' = [h \in Posts |-> IdlePost]
    /\ lost' = lost \cup due
    /\ UNCHANGED <<row, acts, due>>

\* The coordinator's stop(), and what it forgets.
CoordinatorStops ==
    /\ Stop
    /\ lost' = lost \cup {d \in due : Target[d] \in requested \ requested'}

\* The server listens before its services start.
Boot ==
    /\ phase = "down"
    /\ phase' = "starting"
    /\ UNCHANGED <<poolOpen, stopped, polling, requestVars, refreshVars, storeVars, deliveryVars>>

\* projects.start(): reconcile, probe, and the first refresh begins.
StartProjects ==
    /\ phase = "starting"
    /\ reconciled' = TRUE
    /\ phase' = "initial"
    /\ stopped' = FALSE
    /\ refreshing' = TRUE
    /\ work' = [work EXCEPT ![Full].pc = "list"]
    /\ UNCHANGED <<poolOpen, polling, requestVars, lock, snapshot, github, deliveryVars>>

\* The catch block of server.ts: the services stop, but the server goes on listening.  Of the
\* three start() only the projects' can reject: the capacity's catches what a provider or its
\* store throws, and the retention's what its DELETE throws.
StartFails ==
    /\ phase = "starting" /\ "store" \in Faults
    /\ phase' = "failing"
    /\ CoordinatorStops
    /\ UNCHANGED <<poolOpen, stopped, polling, refreshVars, storeVars, row, post, acts, due>>

\* start() resumes after the first refresh and sets the interval, and so does server.ts.
Started ==
    /\ phase = "initial" /\ ~refreshing
    /\ phase' = "up"
    /\ polling' = ~stopped
    /\ UNCHANGED <<poolOpen, stopped, requestVars, refreshVars, storeVars, deliveryVars>>

\* SIGINT, SIGTERM: app.close(), whose preClose hook stops the coordinator.
Shutdown ==
    /\ phase = "up"
    /\ phase' = "closing"
    /\ CoordinatorStops
    /\ UNCHANGED <<poolOpen, stopped, polling, refreshVars, storeVars, row, post, acts, due>>

\* projects.stop(), when the coordinator has stopped or its grace period is over.
StopServices ==
    /\ phase \in {"failing", "closing"} /\ ~stopped
    /\ stopped' = TRUE
    /\ polling' = FALSE
    /\ UNCHANGED <<phase, poolOpen, requestVars, refreshVars, storeVars, deliveryVars>>

\* machinePool.end(): later queries are rejected.
EndPool ==
    /\ stopped /\ poolOpen
    /\ poolOpen' = FALSE
    /\ UNCHANGED <<phase, stopped, polling, requestVars, refreshVars, storeVars, deliveryVars>>

\* The process exits after a shutdown, or is killed.
Exit ==
    /\ \/ phase = "closing" /\ ~poolOpen
       \/ phase # "down" /\ "process" \in Faults
    /\ End
    /\ UNCHANGED storeVars

QueryFails == "store" \in Faults \/ ~poolOpen

-----------------------------------------------------------------------------
(* Refreshes. *)

First(places) == CHOOSE i \in places : \A j \in places : i <= j

\* The project whose turn it is, and the places that come after it.
Turn(places) == Listed[First(places)]
Rest(places) == places \ {First(places)}

\* Variant: the lock is not waited for.
HoldsUnlocked(p, w) == w \in Elements(lock[p])

\* withProjectLock: each caller awaits the promise of the one before it.
Holds(p, w) == lock[p] # <<>> /\ Head(lock[p]) = w

Unlocked(w) == [p \in Projects |-> IF Holds(p, w) THEN Tail(lock[p]) ELSE lock[p]]

\* Variant: the collection cache outlives the call.
FinishKeepingCache(w) ==
    /\ work' = [work EXCEPT ![w] = [IdleWork EXCEPT !.shared = work[w].shared]]
    /\ IF w = Full
         THEN refreshing' = FALSE /\ UNCHANGED requestVars
         ELSE Settle(w) /\ UNCHANGED refreshing

\* The refresh of w returns, or rejects into a caller that catches: the finally block
\* of refresh(), or the coordinator.
Finish(w) ==
    /\ work' = [work EXCEPT ![w] = IdleWork]
    /\ IF w = Full
         THEN refreshing' = FALSE /\ UNCHANGED requestVars
         ELSE Settle(w) /\ UNCHANGED refreshing

\* Variant: a refresh that was stopped takes the next project all the same.
IterateUnchecked(w, rec, lk) ==
    IF rec.todo # {}
      THEN /\ work' = [work EXCEPT ![w] = [rec EXCEPT !.pc = "lock"]]
           /\ lock' = [lk EXCEPT ![Turn(rec.todo)] = Append(@, w)]
           /\ UNCHANGED <<refreshing, requestVars>>
      ELSE Finish(w) /\ lock' = lk

\* The loop over the projects: it ends when the service is stopped, and otherwise
\* queues for the lock of the next one.
Iterate(w, rec, lk) ==
    IF ~stopped /\ rec.todo # {}
      THEN /\ work' = [work EXCEPT ![w] = [rec EXCEPT !.pc = "lock"]]
           /\ lock' = [lk EXCEPT ![Turn(rec.todo)] = Append(@, w)]
           /\ UNCHANGED <<refreshing, requestVars>>
      ELSE Finish(w) /\ lock' = lk

\* Variant: a rejected refresh keeps its place in the lock's queue.
RejectKeepingLock(w) ==
    IF w = Full /\ phase # "initial"
      THEN End
      ELSE /\ work' = [work EXCEPT ![w] = IdleWork]
           /\ IF w = Full
                THEN /\ refreshing' = FALSE
                     /\ phase' = "failing"
                     /\ CoordinatorStops
                ELSE Settle(w) /\ UNCHANGED <<refreshing, phase, lost>>
           /\ UNCHANGED <<lock, poolOpen, stopped, polling, row, post, acts, due>>

\* A query of w's refresh is rejected.  The lock is released; the coordinator logs a
\* targeted refresh; the first full one makes start() fail, and a later one, which the
\* interval's callback does not await, ends the process.
Reject(w) ==
    IF w = Full /\ phase # "initial"
      THEN End
      ELSE /\ work' = [work EXCEPT ![w] = IdleWork]
           /\ lock' = Unlocked(w)
           /\ IF w = Full
                THEN /\ refreshing' = FALSE
                     /\ phase' = "failing"
                     /\ CoordinatorStops
                ELSE Settle(w) /\ UNCHANGED <<refreshing, phase, lost>>
           /\ UNCHANGED <<poolOpen, stopped, polling, row, post, acts, due>>

\* The interval fires: refresh() returns at once if one is under way.
Poll ==
    /\ polling /\ ~refreshing /\ ~stopped
    /\ refreshing' = TRUE
    /\ work' = [work EXCEPT ![Full].pc = "list"]
    /\ UNCHANGED <<serverVars, requestVars, lock, storeVars, deliveryVars>>

\* The coordinator calls refreshRepository(r).
RefreshRepository(r) ==
    /\ Begin(r)
    /\ work' = [work EXCEPT ![r].pc = IF stopped THEN "return" ELSE "list"]
    /\ due' = {d \in due : Target[d] # r}
    /\ lost' = lost \cap due'
    /\ UNCHANGED <<serverVars, refreshing, lock, storeVars, row, post, acts>>

Return(r) ==
    /\ work[r].pc = "return"
    /\ Finish(r)
    /\ UNCHANGED <<serverVars, lock, storeVars, deliveryVars>>

Configured == IF reconciled THEN Listed ELSE <<>>

\* The projects a refresh visits: all, or those with repository w.
Visited(w) == {i \in DOMAIN Configured : w = Full \/ w \in OwnRepos(Configured[i])}

\* Variant: refresh() returns without its finally block when it is rate limited.
ListKeepingFlag(w) ==
    /\ work[w].pc = "list"
    /\ \/ Iterate(w, [work[w] EXCEPT !.todo = Visited(w)], lock)
       \/ /\ "limit" \in Faults /\ w = Full
          /\ work' = [work EXCEPT ![w] = IdleWork]
          /\ UNCHANGED <<refreshing, requestVars, lock>>
       \/ /\ "limit" \in Faults /\ w # Full
          /\ Iterate(w, [work[w] EXCEPT !.mode = "mark", !.todo = Visited(w)], lock)
    /\ UNCHANGED <<serverVars, storeVars, deliveryVars>>

\* The refresh asks for the rate limit, after a probe in the full refresh, and lists the
\* projects.  When the limit is used up a full refresh ends and a targeted one marks.
List(w) ==
    /\ work[w].pc = "list"
    /\ \/ Iterate(w, [work[w] EXCEPT !.todo = Visited(w)], lock)
       \/ /\ "limit" \in Faults /\ w = Full
          /\ Finish(w) /\ UNCHANGED lock
       \/ /\ "limit" \in Faults /\ w # Full
          /\ Iterate(w, [work[w] EXCEPT !.mode = "mark", !.todo = Visited(w)], lock)
    /\ UNCHANGED <<serverVars, storeVars, deliveryVars>>

Current(w) == Turn(work[w].todo)

\* w's turn at the lock: it reads the latest snapshot.  To mark means to save it with
\* the repository stale; a repository collected before, for a project with the same
\* labels, is not collected again.
Read(w) ==
    LET p == Current(w)
        known == snapshot[p]
        cached == IF w = Full THEN None ELSE work[w].shared[Labels[p]]
        draft == Previous(known, p)
        rec == [work[w] EXCEPT !.read = known]
    IN  /\ work[w].pc = "lock" /\ Holds(p, w)
        /\ \/ /\ work[w].mode = "mark" /\ known = None
              /\ Iterate(w, [work[w] EXCEPT !.todo = Rest(@)], Unlocked(w))
           \/ /\ work[w].mode = "mark" /\ known # None
              /\ work' = [work EXCEPT ![w] = [rec EXCEPT !.pc = "save",
                              !.draft = draft]]
              /\ UNCHANGED <<refreshing, requestVars, lock>>
           \/ /\ work[w].mode = "collect" /\ cached # None
              /\ work' = [work EXCEPT ![w] = [rec EXCEPT !.pc = "save",
                              !.draft = [draft EXCEPT ![w] = cached]]]
              /\ UNCHANGED <<refreshing, requestVars, lock>>
           \/ /\ work[w].mode = "collect" /\ cached = None
              /\ work' = [work EXCEPT ![w] = [rec EXCEPT !.pc = "collect", !.draft = draft,
                              !.left = IF w = Full THEN RepositoriesOf[p] ELSE <<w>>]]
              /\ UNCHANGED <<refreshing, requestVars, lock>>
        /\ UNCHANGED <<serverVars, storeVars, deliveryVars>>

\* collectRepository answers, with what GitHub holds or, when the part cannot be read,
\* with the previous result; then the next repository is collected, or all is saved.  It never
\* rejects, whatever the source throws, so the callers' own catch has nothing to catch.
Collect(w) ==
    LET k == work[w]
        r == Head(k.left)
    IN  /\ k.pc = "collect"
        /\ \E result \in {github[r]} \cup (IF "part" \in Faults THEN {k.draft[r]} ELSE {}) :
             work' = [work EXCEPT
                ![w].pc = IF Len(k.left) = 1 THEN "save" ELSE "collect",
                ![w].left = Tail(k.left),
                ![w].draft = [k.draft EXCEPT ![r] = result],
                ![w].shared = IF w = Full THEN @ ELSE [@ EXCEPT ![Labels[Current(w)]] = result]]
        /\ UNCHANGED <<serverVars, requestVars, refreshing, lock, storeVars, deliveryVars>>

\* saveGitHubSnapshot; the lock is released and the loop goes on.
Save(w) ==
    /\ work[w].pc = "save" /\ poolOpen
    /\ snapshot' = [snapshot EXCEPT ![Current(w)] = work[w].draft]
    /\ Iterate(w, [work[w] EXCEPT !.todo = Rest(@), !.read = None, !.draft = None], Unlocked(w))
    /\ UNCHANGED <<serverVars, reconciled, github, deliveryVars>>

\* A query is rejected; an INSERT may have been committed.
RefreshQueryFails(w) ==
    /\ QueryFails
    /\ \/ work[w].pc = "list"
       \/ work[w].pc = "lock" /\ Holds(Current(w), w)
       \/ work[w].pc = "save"
    /\ Reject(w)
    /\ \/ UNCHANGED snapshot
       \/ /\ work[w].pc = "save" /\ poolOpen
          /\ snapshot' = [snapshot EXCEPT ![Current(w)] = work[w].draft]
    /\ UNCHANGED <<reconciled, github>>

RefreshStep(w) ==
    List(w) \/ Read(w) \/ Collect(w) \/ Save(w)

\* The repository changes at GitHub.
Change(r) ==
    /\ github[r] < MaxVersion
    /\ github' = [github EXCEPT ![r] = @ + 1]
    /\ UNCHANGED <<serverVars, requestVars, refreshVars, reconciled, snapshot, deliveryVars>>

-----------------------------------------------------------------------------
(* Webhook deliveries. *)

\* A signed, well-formed request for d arrives; requests the route turns away without
\* a query change nothing.  GitHub may deliver d any number of times, also at once.
Deliver(h, d) ==
    /\ phase \in {"starting", "initial", "up", "failing"}
    /\ post[h].pc = "idle"
    /\ post' = [post EXCEPT ![h] = [IdlePost EXCEPT !.pc = "record", !.delivery = d]]
    /\ UNCHANGED <<serverVars, requestVars, refreshVars, storeVars, row, acts, due, lost>>

\* isRepositoryConfigured, and what it makes of a relevant event.
Outcome(d) ==
    IF \E p \in Elements(Configured) : Target[d] \in OwnRepos(p) THEN "accepted" ELSE "ignored"

\* The row of h's delivery is written, if there is none.
Insert(h) ==
    LET d == post[h].delivery
    IN  /\ row' = IF row[d] = None THEN [row EXCEPT ![d] = Outcome(d)] ELSE row
        /\ due' = IF row[d] = None /\ Outcome(d) = "accepted" THEN due \cup {d} ELSE due

\* Variant: a row that was there before counts as new.
RecordUnchecked(h) ==
    /\ post[h].pc = "record" /\ poolOpen
    /\ Insert(h)
    /\ post' = [post EXCEPT ![h].pc = "recorded", ![h].accepted = Outcome(post[h].delivery) = "accepted"]
    /\ UNCHANGED <<serverVars, requestVars, refreshVars, storeVars, acts, lost>>

\* recordIfNew takes effect: INSERT ... ON CONFLICT DO NOTHING RETURNING.  The lookup of
\* the projects before it only reads, and is part of this step.
Record(h) ==
    /\ post[h].pc = "record" /\ poolOpen
    /\ Insert(h)
    /\ post' = [post EXCEPT ![h].pc = "recorded",
                    ![h].accepted = row[post[h].delivery] = None /\ row'[post[h].delivery] = "accepted"]
    /\ UNCHANGED <<serverVars, requestVars, refreshVars, storeVars, acts, lost>>

\* A query is rejected and the request answered with an error; an INSERT may have been
\* committed, and a redelivery is then a duplicate.
PostFails(h) ==
    /\ QueryFails
    /\ post[h].pc = "record"
    /\ post' = [post EXCEPT ![h] = IdlePost]
    /\ \/ UNCHANGED <<row, due, lost>>
       \/ /\ poolOpen /\ Insert(h)
          /\ lost' = lost \cup (due' \ due)
    /\ UNCHANGED <<serverVars, requestVars, refreshVars, storeVars, acts>>

\* The continuation: a new, accepted delivery asks for a refresh, which the
\* coordinator drops after its stop().
Schedule(h) ==
    LET d == post[h].delivery
    IN  /\ post[h].pc = "recorded"
        /\ post' = [post EXCEPT ![h] = IdlePost]
        /\ IF Recorded(h)
             THEN /\ acts' = [acts EXCEPT ![d] = @ + 1]
                  /\ IF closed
                       THEN lost' = lost \cup ({d} \cap due) /\ UNCHANGED requestVars
                       ELSE Request(Target[d]) /\ UNCHANGED lost
             ELSE UNCHANGED <<acts, lost, requestVars>>
        /\ UNCHANGED <<serverVars, refreshVars, storeVars, row, due>>

\* The retention manager deletes old rows: none that a request under way has just written.
Cleanup ==
    /\ phase = "up" /\ poolOpen
    /\ \E old \in SUBSET Deliveries \ {{}} :
         /\ \A d \in old : row[d] # None /\ \A h \in Posts : post[h].delivery # d
         /\ row' = [d \in Deliveries |-> IF d \in old THEN None ELSE row[d]]
         /\ acts' = [d \in Deliveries |-> IF d \in old THEN 0 ELSE acts[d]]
         /\ due' = due \ old
         /\ lost' = lost \ old
    /\ UNCHANGED <<serverVars, requestVars, refreshVars, storeVars, post>>

PostStep(h) == Record(h) \/ Schedule(h)

-----------------------------------------------------------------------------

Next ==
    \/ Boot \/ StartProjects \/ StartFails \/ Started
    \/ Shutdown \/ StopServices \/ EndPool \/ Exit
    \/ Poll \/ Cleanup
    \/ \E r \in Repos : RefreshRepository(r) \/ Return(r) \/ Change(r)
    \/ \E w \in Workers : RefreshStep(w) \/ RefreshQueryFails(w)
    \/ \E h \in Posts : (\E d \in Deliveries : Deliver(h, d)) \/ PostStep(h) \/ PostFails(h)

Spec == Init /\ [][Next]_vars

\* The event loop runs continuations, and GitHub and the database answer each query,
\* with a value or an error.  The coordinator starts what was asked for.
FairSpec ==
    /\ Spec
    /\ \A w \in Workers : WF_vars(RefreshStep(w) \/ RefreshQueryFails(w))
    /\ \A r \in Repos : WF_vars(RefreshRepository(r)) /\ WF_vars(Return(r))
    /\ \A h \in Posts : WF_vars(PostStep(h) \/ PostFails(h))

-----------------------------------------------------------------------------
(* Properties. *)

Snapshots(p) == [OwnRepos(p) -> 0 .. MaxVersion] \cup {None}

TypeOK ==
    /\ phase \in {"down", "starting", "initial", "up", "failing", "closing"}
    /\ {poolOpen, stopped, polling, refreshing, reconciled, closed} \subseteq BOOLEAN
    /\ requested \subseteq Repos /\ running \subseteq Repos
    /\ \A p \in Projects : lock[p] \in Seq(Workers) /\ snapshot[p] \in Snapshots(p)
    /\ \A w \in Workers :
         /\ work[w].pc \in {"idle", "return", "list", "lock", "collect", "save"}
         /\ work[w].pc \in {"collect", "save"} => work[w].draft \in Snapshots(Current(w)) \ {None}
    /\ github \in [Repos -> 1 .. MaxVersion]
    /\ row \in [Deliveries -> {None, "accepted", "ignored"}]
    /\ acts \in [Deliveries -> 0 .. 2]
    /\ lost \subseteq due /\ due \subseteq Deliveries

\* A full and a targeted refresh, failing ones among them, write a project one after the
\* other: whoever saves built its snapshot on the one that is saved, so that no refresh
\* undoes what another one wrote for other repositories.
SavesBuildOnLatest ==
    [][\A p \in Projects :
         snapshot'[p] # snapshot[p]
           => \E w \in Workers : /\ work[w].pc = "save" /\ Current(w) = p
                                 /\ work[w].read = snapshot[p]]_vars

\* p comes after a project with the same labels in w's loop.
SharesCollection(w, p) ==
    w # Full
      /\ \E i, j \in DOMAIN Listed :
            /\ i < j /\ Listed[j] = p /\ w \in OwnRepos(Listed[i])
            /\ Labels[Listed[i]] = Labels[p]

\* What a project shows of a repository never gets older than what it showed before,
\* except when a targeted refresh saves the collection it shares between projects.
OnlySharingGoesBack ==
    [][\A p \in Projects : \A r \in OwnRepos(p) :
         LET before == Previous(snapshot[p], p)[r]
             after == Previous(snapshot'[p], p)[r]
         IN  after < before
               => work[r].pc = "save" /\ Current(r) = p /\ SharesCollection(r, p)]_vars

\* However often and however concurrently GitHub delivers it, a delivery asks for one
\* refresh while its row exists; and an accepted delivery no refresh has started after
\* still has its request to come, unless the process, its shutdown or the answer to its
\* INSERT failed it.
DeliveriesActOnce ==
    /\ \A d \in Deliveries : acts[d] <= 1
    /\ \A d \in due \ lost : d \in Owing \/ Target[d] \in requested

\* A lock is held and awaited by refreshes that will release it.
LocksAreLive ==
    \A p \in Projects, w \in Workers :
        w \in Elements(lock[p])
          <=> work[w].pc \in {"lock", "collect", "save"} /\ Current(w) = p

ServiceInv == TypeOK /\ LocksAreLive

\* After stop() a refresh under way finishes its project and takes no other, and nothing
\* new begins.
StoppedTakesNoProject ==
    [][stopped /\ stopped' =>
         \A p \in Projects : Elements(lock'[p]) \subseteq Elements(lock[p])]_vars

\* The interval fires, and GitHub answers from time to time, within its rate limit.
Answered ==
    /\ WF_vars(Poll)
    /\ SF_vars(List(Full) /\ work'[Full].pc = "lock")
    /\ \A p \in Projects : \A r \in OwnRepos(p) :
         SF_vars(Collect(Full) /\ Current(Full) = p /\ work'[Full].draft[r] = github[r])

\* Polling alone makes the snapshots catch up with GitHub, whatever webhooks and their
\* shared collections write in between: no refresh hangs behind a lock, and no way out
\* of refresh() leaves its flag set.
CatchesUp ==
    <>[](phase = "up") /\ Answered
      => \A p \in Projects : []<>(snapshot[p] = [r \in OwnRepos(p) |-> github[r]])
=============================================================================
