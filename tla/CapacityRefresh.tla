--------------------------- MODULE CapacityRefresh ---------------------------
(***************************************************************************)
(* The capacity runtime of the API for one provider: start and stop        *)
(* (capacity.ts), the scheduler (CapacityRefreshScheduler), the service    *)
(* that saves a collection (CapacityService), the coordinator that probes  *)
(* and collects (CapacityCoordinator), composed with the provider's        *)
(* adapter.  The coordinator keeps nothing that two providers share, so a  *)
(* behaviour is about one provider: Codex, Gemini, OpenRouter or DeepSeek.  *)
(*                                                                         *)
(* The coordinator stops waiting for a call that takes too long, but the   *)
(* call goes on and may meet the next ones.                                *)
(***************************************************************************)
EXTENDS CodexSource, GeminiSource, HttpSources

VARIABLES
    provider,
    phase,      \* of the runtime: "new", "initial", "scheduled", "stopping", "closing", "closed"
    health      \* of the provider: failure of the last probe, of the last collection, and
                \* which of them lastError repeats

vars == <<call, refresh, codexVars, geminiVars, httpVars, provider, phase, health>>

Resting == [pc |-> "idle", call |-> None]

Init ==
    /\ call = [o \in Calls |-> Idle]
    /\ refresh = Resting
    /\ CodexInit /\ GeminiInit /\ HttpInit
    /\ provider \in {"codex", "gemini", "openrouter", "deepseek"}
    /\ provider # "openrouter" => keys \subseteq (IF provider = "deepseek" THEN {"api"} ELSE {})
    /\ phase = "new"
    /\ health = [probe |-> FALSE, collection |-> FALSE, last |-> "none"]

\* The continuations of settled promises run before anything else happens.
Quiet == Settled = {}

-----------------------------------------------------------------------------
(* Calls of the adapter. *)

Call(o, kind) ==
    \/ provider = "codex" /\ CodexCall(o, kind) /\ UNCHANGED <<geminiVars, httpVars>>
    \/ provider = "gemini" /\ GeminiCall(o, kind) /\ UNCHANGED <<codexVars, httpVars>>
    \/ provider = "openrouter" /\ OpenRouterCall(o, kind) /\ UNCHANGED <<codexVars, geminiVars>>
    \/ provider = "deepseek" /\ DeepSeekCall(o, kind) /\ UNCHANGED <<codexVars, geminiVars>>

Await(pc, o) == refresh' = [pc |-> pc, call |-> o]

\* A refresh begins with a probe.
BeginRefresh ==
    /\ refresh = Resting /\ Quiet /\ FreeSlots # {}
    /\ LET o == CHOOSE o \in FreeSlots : TRUE
       IN  Call(o, "probe") /\ Await("probe", o)
    /\ UNCHANGED <<provider, health>>

Start == phase = "new" /\ phase' = "initial" /\ BeginRefresh

\* The interval's callback does nothing while a refresh is under way.
TimerFires == phase = "scheduled" /\ UNCHANGED phase /\ BeginRefresh

-----------------------------------------------------------------------------
(* The coordinator. *)

\* The probe is over, well or not: health is recorded, and whatever it says a collection
\* is called in slot o.
Probed(ok, o) ==
    /\ health' = [health EXCEPT !.probe = ~ok, !.last = IF ok THEN "none" ELSE "probe"]
    /\ Call(o, "collect")
    /\ Await("collect", o)
    /\ UNCHANGED <<provider, phase>>

\* The refresh is over; the runtime's first one starts the scheduler.
Rested ==
    /\ refresh' = Resting
    /\ phase' = IF phase = "initial" THEN "scheduled" ELSE phase

\* Variant: a success clears the last error.
CollectedHiding(res) ==
    /\ health' = [health EXCEPT
         !.collection = res # "ok",
         !.last = CASE res = "ok" -> "none"
                    [] res = "partial" -> IF health.probe THEN "probe" ELSE "collection"
                    [] res = "failed" -> "collection"]
    /\ IF res = "failed" THEN Rested /\ collected' = None
       ELSE Await("persist", None) /\ UNCHANGED <<phase, collected>>
    /\ UNCHANGED <<provider, keys, codexVars, geminiVars>>

\* The collection is over: a failed probe stays visible behind a success.
Collected(res) ==
    /\ health' = [health EXCEPT
         !.collection = res # "ok",
         !.last = CASE res = "failed" -> "collection"
                    [] res # "failed" /\ health.probe -> "probe"
                    [] res = "partial" /\ ~health.probe -> "collection"
                    [] res = "ok" /\ ~health.probe -> "none"]
    /\ IF res = "failed" THEN Rested /\ collected' = None
       ELSE Await("persist", None) /\ UNCHANGED <<phase, collected>>
    /\ UNCHANGED <<provider, keys, codexVars, geminiVars>>

\* The contract's schema rejects a collection with a resource that makes no sense.
Parsed(res) ==
    IF collected # None /\ \E x \in collected : ~Valid(x.resource) THEN "failed" ELSE res

Settles ==
    LET o == refresh.call
    IN  /\ o \in Settled
        /\ \/ refresh.pc = "probe" /\ Probed(call[o].pc = "ok", o)
           \/ /\ refresh.pc = "collect" /\ Collected(Parsed(call[o].pc))
              /\ call' = [call EXCEPT ![o] = Idle]

\* withTimeout(): the coordinator goes on, and so does the call.
TimesOut ==
    /\ Quiet
    /\ \/ /\ refresh.pc = "probe" /\ FreeSlots # {}
          /\ LET o == CHOOSE o \in FreeSlots : TRUE IN Probed(FALSE, o)
       \/ refresh.pc = "collect" /\ Collected("failed") /\ UNCHANGED call

\* The snapshot is saved, or the error is logged: the refresh is over either way.
Persisted ==
    /\ refresh.pc = "persist"
    /\ Rested
    /\ collected' = None
    /\ UNCHANGED <<call, codexVars, geminiVars, keys, provider, health>>

-----------------------------------------------------------------------------
(* Stopping: no further refresh is begun, one under way goes on. *)

Stop ==
    /\ phase \in {"new", "scheduled"} /\ Quiet
    /\ phase' = "stopping"
    /\ CodexClose
    /\ UNCHANGED <<refresh, geminiVars, httpVars, provider, health>>

\* codex.close() has returned, gemini.close() is called.
CodexClosed ==
    /\ phase = "stopping" /\ Quiet
    /\ \A c \in Clients : proc[c].born = 0 => proc[c].stage \in {"open", "done"}
    /\ phase' = "closing"
    /\ GeminiClose
    /\ UNCHANGED <<refresh, codexVars, httpVars, provider, health>>

\* gemini.close() has returned: it waits for its processes, but not for long.
Closed ==
    /\ phase = "closing" /\ Quiet
    /\ phase' = "closed"
    /\ UNCHANGED <<call, refresh, codexVars, geminiVars, httpVars, provider, health>>

-----------------------------------------------------------------------------

Runtime == UNCHANGED <<refresh, provider, phase, health>>

CodexStep ==
    /\ provider = "codex" /\ Quiet /\ Runtime /\ UNCHANGED <<geminiVars, httpVars>>
    /\ \/ \E o \in Calls :
            \/ SpawnEvent(o) \/ CleanupDone(o) \/ Dropped(o)
            \/ \E good \in BOOLEAN : InitializeAnswered(o, good) \/ LimitsAnswered(o, good)
            \/ \E type \in {"chatgpt", "other", "none"} : AccountAnswered(o, type)
       \/ \E c \in Clients :
            \/ Exits(c) \/ CloseStep(c)
            \/ \E spawnError \in BOOLEAN : ClientFails(c, spawnError)

GeminiStep ==
    /\ provider = "gemini" /\ Quiet /\ Runtime /\ UNCHANGED <<codexVars, httpVars>>
    /\ \E o \in Calls : Answered(o) \/ Unanswered(o) \/ CutShort(o) \/ Escalate(o)

HttpStep ==
    /\ Quiet /\ Runtime /\ UNCHANGED <<codexVars, geminiVars>>
    /\ \E o \in Calls : \E e \in DOMAIN call[o].answers : \E good \in BOOLEAN : Responds(o, e, good)

Next ==
    \/ Start \/ TimerFires \/ Settles \/ TimesOut \/ Persisted
    \/ Stop \/ CodexClosed \/ Closed
    \/ CodexStep \/ GeminiStep \/ HttpStep

Spec == Init /\ [][Next]_vars

CodexCalls == Quiet /\ Runtime /\ UNCHANGED <<geminiVars, httpVars>> /\ \E o \in Calls : Asked(o)

\* Timers fire, promises are settled, the store answers, a request or a command ends or is
\* ended by its timer, and a process that got SIGKILL exits.
FairSpec ==
    /\ Spec
    /\ WF_vars(TimerFires)
    /\ WF_vars(Settles \/ Persisted)
    /\ WF_vars(Quiet /\ Runtime /\ UNCHANGED <<geminiVars, httpVars>> /\ \E o \in Calls : CleanupDone(o) \/ Dropped(o))
    /\ WF_vars(\/ CodexCalls
               \/ /\ Quiet /\ Runtime /\ UNCHANGED <<codexVars, httpVars>>
                  /\ \E o \in Calls : \/ Answered(o) \/ CutShort(o) \/ Escalate(o)
                                      \/ call[o].signal = "kill" /\ Unanswered(o)
               \/ HttpStep)
    /\ WF_vars(/\ Quiet /\ Runtime /\ UNCHANGED <<geminiVars, httpVars>>
               /\ \E c \in Clients : CloseStep(c) \/ (proc[c].stage \in {"kill", "done"} /\ Exits(c)))
    /\ WF_vars(CodexClosed \/ Closed)
-----------------------------------------------------------------------------
(* Properties. *)

Places ==
    {"free", "sharing", "cleanup", "spawning", "handshake", "account", "limits", "dropping",
     "version", "quota", "credits", "http"} \cup Results

AnswerSets == {{"key"}, {"key", "credits"}, {"balance"}}

CallRecord ==
    [pc : Places, kind : {"probe", "collect"}, client : Clients \cup {None}, owner : Calls \cup {None},
     life : 0 .. 1, signal : {"none", "term", "kill"}, cut : {"no", "flooded", "late"},
     quota : {"none", "read", "fresh", "left"},
     answers : {<<>>} \cup UNION {[s -> {"pending", "good", "bad"}] : s \in AnswerSets}]

ProcessRecord ==
    [alive : BOOLEAN, closed : BOOLEAN, stage : {"open", "end", "term", "kill", "done"}, born : 0 .. 1]

TypeOK ==
    /\ call \in [Calls -> CallRecord]
    /\ refresh \in [pc : {"idle", "probe", "collect", "persist"}, call : Calls \cup {None}]
    /\ {client, readyFor, cleaning, account.from} \subseteq Clients \cup {None}
    /\ initialization \in Calls \cup {None} /\ life \in 0 .. 1
    /\ account.type \in {"none", "chatgpt", "other"}
    /\ proc \in [Clients -> ProcessRecord]
    /\ version \in {"none", "old", "supported"} /\ probedQuota \in {"none", "fresh", "left"}
    /\ executorClosed \in BOOLEAN
    /\ keys \subseteq {"api", "management"}
    /\ collected # None => refresh.pc \in {"collect", "persist"}
    /\ phase \in {"new", "initial", "scheduled", "stopping", "closing", "closed"}
    /\ health \in [probe : BOOLEAN, collection : BOOLEAN, last : {"none", "probe", "collection"}]

\* The health report hides no failure: a failed probe stays visible whatever the collection
\* brings, and between refreshes there is no error to show only when both went well.
HealthTells ==
    /\ health.probe => health.last # "none"
    /\ health.last = "probe" => health.probe
    /\ refresh = Resting => (health.last = "none" <=> ~health.probe /\ ~health.collection)

\* The quota of a probe serves the collection of its own refresh.  What lingers, to be
\* reported by a later collection as its own, comes from a probe that had timed out, or whose
\* version an outlived call found too old.
QuotaIsTaken == Quiet => probedQuota # "fresh"

CapacityInv == TypeOK /\ HealthTells /\ QuotaIsTaken

\* There is one Codex server: the source's client.  Whatever fails, exits, times out or is
\* closed, any other process is being ended; a request is pending with the source's client
\* only, and the cached account is that client's.
OneServer ==
    /\ \A c \in Clients :
        /\ ~proc[c].closed => c = client
        /\ proc[c].alive /\ proc[c].closed => proc[c].stage # "open"
    /\ \A o \in Calls :
        call[o].pc \in {"spawning", "handshake", "account", "limits"} =>
            call[o].client = client /\ ~proc[client].closed
    /\ account.from \in {client, None}

\* After close() no process is left to itself: each has been told to end, but for a Codex
\* server that a refresh under way at the time starts afterwards, with nobody to close it.
ClosedMeansEnded ==
    /\ life = 1 => \A c \in Clients : proc[c].alive /\ proc[c].stage = "open" => proc[c].born = 1
    /\ executorClosed => \A o \in Running : call[o].signal # "none"

ProcessesAreOwned == OneServer /\ ClosedMeansEnded

\* What a collection reports is one resource for each thing asked, whatever became of the
\* others, and nothing is said to be there, or used up, that no answer told.  The contract
\* accepts each, but for the credits of an overspent account; only these, and nothing known at
\* all, lose a collection that returned in time.
AnswersAreKept ==
    collected # None =>
        /\ \A x \in collected :
             /\ Valid(x.resource) <=> ~Overspent(x)
             /\ x.data = None => x.resource.status = "unknown" /\ x.resource.freshness = "unknown"
        /\ \A x, y \in collected : x.resource.of = y.resource.of => x = y
        /\ Cardinality(collected) =
             IF provider = "openrouter" /\ "management" \notin keys THEN 1 ELSE 2
        /\ LET saved == /\ \E x \in collected : x.resource.freshness = "fresh"
                        /\ ~\E x \in collected : Overspent(x)
           IN  /\ refresh.pc = "persist" => saved
               /\ refresh.pc = "collect" => (Parsed(call[refresh.call].pc) # "failed" <=> saved)

\* The price holds from now until changesAt, as long as it is said to, and changes there.
PricesHold ==
    collected # None => \A x \in collected :
        x.resource.of = "pricing" /\ x.resource.freshness = "fresh" =>
            LET now == x.data.at
                c == x.resource.changesAt
                peak(t) == PeakAt(t, x.data.tariff)
            IN  /\ c > now /\ (peak(c) <=> ~peak(now))
                /\ \A t \in now .. c - 1 : peak(t) <=> peak(now)
                /\ peak(now) <=> x.resource.state = "PEAK"
                /\ peak(c) <=> x.resource.next = "PEAK"

\* From here on no request fails, no process exits, the coordinator's timeouts are met and
\* no account is overspent.
Trouble ==
    \/ TimesOut
    \/ provider = "codex" /\ call' # call /\ \E c \in Clients : ~proc[c].closed /\ proc'[c].closed
    \/ \E o \in Calls : call[o].pc \notin Results /\ call'[o].pc \in {"failed", "partial"}
    \/ \E o \in Calls : call[o].cut # call'[o].cut
    \/ collected' # None /\ \E x \in collected' : Overspent(x)

\* The refreshes go on: each comes to its end, in time or not, and when the trouble is over
\* they save snapshots again, whatever is left of earlier calls and clients.  Stopping ends.
Recovers ==
    /\ []<>(refresh = Resting)
    /\ <>[][~Trouble]_vars /\ <>[](phase = "scheduled") => []<>(refresh.pc = "persist")
    /\ phase = "stopping" ~> phase = "closed"
=============================================================================
