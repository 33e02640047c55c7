------------------------ MODULE CapacityRefresh_proofs ------------------------
(***************************************************************************)
(* Theorems about CapacityRefresh, for every number of calls that have     *)
(* been left behind, every supply of Codex clients and each provider.      *)
(*                                                                         *)
(* The inductive invariant says, of the Codex source: who may initialize,  *)
(* which client a request is pending with, and that after close() one call *)
(* at most enters it; of the coordinator: what it awaits, what of that has *)
(* settled, and what the health report owes to the refresh under way.      *)
(***************************************************************************)
EXTENDS CapacityRefresh, TLAPS

Kinds == {"probe", "collect"}
Spawning == {"spawning", "handshake"}
Questions == {"account", "limits"}
Requesting == Spawning \cup Questions
Entering == Spawning \cup {"cleanup", "dropping"}
CodexPlaces == Requesting \cup Entering
Commands == {"version", "quota", "credits"}

\* Call o waits for an old client to close, and will start a process unless the source is
\* closed meanwhile.
Current(o) == call[o].pc = "cleanup" /\ call[o].life = life

\* What a client's process and its close() say of each other.
Processes ==
    \A c \in Clients :
        /\ ~proc[c].closed => c = client
        /\ proc[c].alive /\ proc[c].closed => proc[c].stage # "open"
        /\ proc[c].stage # "open" => proc[c].closed
        /\ life = 1 /\ proc[c].alive /\ proc[c].stage = "open" => proc[c].born = 1

\* Requests are pending with the source's client; until it is ready, by the call that started
\* it, before any account is known.
Asks ==
    /\ \A o \in Calls : call[o].pc \in Requesting =>
          call[o].client = client /\ client \in Clients /\ ~proc[client].closed
    /\ \A o \in Calls : call[o].pc \in Spawning => readyFor # client /\ account.from = None
    /\ \A o \in Calls : call[o].pc \in Questions => readyFor = client
    /\ \A o, p \in Calls : call[o].pc \in Spawning /\ call[p].pc \in Spawning => o = p
    /\ account.from \in {client, None}
    /\ account.from = None => account.type = "none"

\* Until the source is closed one call initializes, and a client is ready or being initialized.
OneInitializes ==
    life = 0 =>
        /\ \A o \in Calls : call[o].pc \in Entering => initialization = o
        /\ \A o \in Calls : call[o].pc = "dropping" => call[o].client = client
        /\ client # None /\ ~proc[client].closed => initialization # None \/ readyFor = client

\* Whoever will start a process is alone, and there is no client.
Cleanups ==
    /\ \A o \in Calls : call[o].pc = "cleanup" => call[o].life <= life
    /\ \A o \in Calls : Current(o) => client = None
    /\ \A o, p \in Calls : Current(o) /\ Current(p) => o = p

\* The collection of the refresh that was under way is the only call made after close().
AfterClose ==
    life = 1 => /\ phase \in {"stopping", "closing", "closed"}
                /\ refresh.pc = "probe" => client = None /\ \A o \in Calls : ~Current(o)

SourceInv == Processes /\ Asks /\ OneInitializes /\ Cleanups /\ AfterClose

\* Commands that run after the executor was closed have been told to end.
Signals ==
    executorClosed => \A o \in Calls : call[o].pc \in Commands => call[o].signal # "none"

\* Only the awaited call is seen settled, and it answers what was asked.
Awaited ==
    /\ refresh.pc \in {"idle", "persist"} <=> refresh.call = None
    /\ refresh.pc \in Kinds => call[refresh.call].pc \in Results \/ call[refresh.call].kind = refresh.pc
    /\ \A o \in Calls : call[o].pc \in Results => o = refresh.call

HealthInv ==
    /\ health.probe => health.last # "none"
    /\ health.last = "probe" => health.probe
    /\ refresh.pc \in {"idle", "persist"} => (health.last = "none" <=> ~health.probe /\ ~health.collection)

\* A fresh quota is seen only before the coordinator has learnt of its probe.
QuotaInv ==
    probedQuota = "fresh" =>
        provider = "gemini" /\ refresh.pc = "probe" /\ refresh.call \in Calls /\ call[refresh.call].pc \in Results

\* What a collection asks for by HTTP.
Endpoints ==
    IF provider = "deepseek" THEN {"balance"}
    ELSE IF "management" \in keys THEN {"key", "credits"} ELSE {"key"}

\* If r is made by HTTP, it is a call of one of those providers and asks for what there is.
AsksAll(r) ==
    r.pc = "http" =>
        /\ provider \in {"openrouter", "deepseek"}
        /\ r.kind = "collect" => DOMAIN r.answers = Endpoints

HttpCalls == \A o \in Calls : AsksAll(call[o])

IInv == TypeOK /\ SourceInv /\ Signals /\ Awaited /\ HealthInv /\ QuotaInv /\ HttpCalls

-----------------------------------------------------------------------------
(* Calls. *)

\* r is a call that has just begun to wait in place p.
Waits(r, kind, p, c, l) ==
    /\ r \in CallRecord
    /\ r.kind = kind /\ r.pc = p /\ r.client = c /\ r.life = l /\ r.signal = "none"

\* r is what is left of call o when it ends.
Quits(o, r) ==
    /\ r \in CallRecord
    /\ IF o = refresh.call THEN r.pc \in Results ELSE r.pc = "free"

LEMMA PlacesDiffer ==
    /\ CodexPlaces \subseteq Places \ (Results \cup Commands \cup {"free", "http", "sharing"})
    /\ Commands \subseteq Places \ (Results \cup {"free", "http", "sharing"})
    /\ {"free", "http", "sharing"} \subseteq Places \ Results
    /\ Results \subseteq Places /\ {"ok", "partial", "failed"} \subseteq Results
BY DEF CodexPlaces, Requesting, Entering, Spawning, Questions, Places, Results, Commands

\* The fields of a call, by the names of their types.
MaybeClients == Clients \cup {None}
MaybeCalls == Calls \cup {None}
Lives == 0 .. 1
SignalNames == {"none", "term", "kill"}
Cuts == {"no", "flooded", "late"}
QuotaNames == {"none", "read", "fresh", "left"}
Answers == {<<>>} \cup UNION {[s -> {"pending", "good", "bad"}] : s \in AnswerSets}

Fields ==
    [pc : Places, kind : Kinds, client : MaybeClients, owner : MaybeCalls, life : Lives,
     signal : SignalNames, cut : Cuts, quota : QuotaNames, answers : Answers]

LEMMA CallsHaveFields == CallRecord = Fields
BY DEF CallRecord, Fields, Kinds, MaybeClients, MaybeCalls, Lives, SignalNames, Cuts, QuotaNames, Answers

LEMMA IdleCall ==
    /\ Idle \in Fields
    /\ Idle.pc = "free" /\ Idle.kind = "probe" /\ Idle.client = None /\ Idle.life = 0 /\ Idle.signal = "none"
<1>1. /\ "free" \in Places /\ "probe" \in Kinds /\ None \in MaybeClients /\ None \in MaybeCalls /\ 0 \in Lives
      /\ "none" \in SignalNames /\ "no" \in Cuts /\ "none" \in QuotaNames /\ <<>> \in Answers
  BY DEF Places, Kinds, MaybeClients, MaybeCalls, Lives, SignalNames, Cuts, QuotaNames, Answers
<1> QED BY <1>1 DEF Idle, Fields

LEMMA CallingWaits ==
    ASSUME NEW kind \in Kinds, NEW p \in Places
    PROVE  /\ Waits(Calling(kind, p), kind, p, None, 0)
           /\ \A c \in MaybeClients : Waits([Calling(kind, p) EXCEPT !.client = c], kind, p, c, 0)
           /\ \A c \in MaybeClients, l \in Lives :
                Waits([Calling(kind, p) EXCEPT !.client = c, !.life = l], kind, p, c, l)
           /\ \A o \in MaybeCalls : Waits([Calling(kind, p) EXCEPT !.owner = o], kind, p, None, 0)
           /\ \A q \in QuotaNames : Waits([Calling(kind, p) EXCEPT !.quota = q], kind, p, None, 0)
<1> DEFINE r == Calling(kind, p)
<1>1. /\ r \in Fields
      /\ r.kind = kind /\ r.pc = p /\ r.client = None /\ r.life = 0 /\ r.signal = "none"
  BY IdleCall DEF Calling, Fields
<1> HIDE DEF r
<1>2. Waits(r, kind, p, None, 0)
  BY <1>1, CallsHaveFields DEF Waits
<1>3. ASSUME NEW c \in MaybeClients PROVE Waits([r EXCEPT !.client = c], kind, p, c, 0)
  BY <1>1, CallsHaveFields DEF Waits, Fields
<1>4. ASSUME NEW c \in MaybeClients, NEW l \in Lives
      PROVE  Waits([r EXCEPT !.client = c, !.life = l], kind, p, c, l)
  BY <1>1, CallsHaveFields DEF Waits, Fields
<1>5. ASSUME NEW o \in MaybeCalls PROVE Waits([r EXCEPT !.owner = o], kind, p, None, 0)
  BY <1>1, CallsHaveFields DEF Waits, Fields
<1>6. ASSUME NEW q \in QuotaNames PROVE Waits([r EXCEPT !.quota = q], kind, p, None, 0)
  BY <1>1, CallsHaveFields DEF Waits, Fields
<1> QED BY <1>2, <1>3, <1>4, <1>5, <1>6 DEF r

LEMMA ResultEnds ==
    ASSUME NEW res \in Results
    PROVE  /\ Result(res) \in CallRecord /\ Result(res).pc = res /\ Idle \in CallRecord /\ Idle.pc = "free"
           /\ \A o : Quits(o, Ended(o, res))
<1>1. res \in Places
  BY PlacesDiffer
<1>2. Result(res) \in Fields /\ Result(res).pc = res
  BY <1>1, IdleCall DEF Result, Fields
<1> QED BY <1>2, IdleCall, CallsHaveFields DEF Quits, Ended

\* Changing the place of a call, or sending its process a signal.
Like(s, r) == s \in CallRecord /\ s.kind = r.kind /\ s.client = r.client /\ s.life = r.life

LEMMA CallMoves ==
    ASSUME NEW r \in CallRecord
    PROVE  /\ \A p \in Places : LET s == [r EXCEPT !.pc = p]
                                IN  Like(s, r) /\ s.pc = p /\ s.signal = r.signal
           /\ \A g \in SignalNames :
                LET s == [r EXCEPT !.signal = g] IN Like(s, r) /\ s.pc = r.pc /\ s.signal = g
           /\ \A why \in Cuts :
                LET s == [Signalled(r) EXCEPT !.cut = why]
                IN  Like(s, r) /\ s.pc = r.pc /\ s.signal # "none"
           /\ LET s == Signalled(r) IN Like(s, r) /\ s.pc = r.pc /\ s.signal # "none"
<1>1. r \in Fields
  BY CallsHaveFields
<1>2. PICK g \in SignalNames \ {"none"} : Signalled(r) = [r EXCEPT !.signal = g]
  BY <1>1 DEF Fields, SignalNames, Signalled
<1>3. ASSUME NEW p \in Places
      PROVE  LET s == [r EXCEPT !.pc = p] IN Like(s, r) /\ s.pc = p /\ s.signal = r.signal
  BY <1>1, CallsHaveFields DEF Fields, Like
<1>4. ASSUME NEW h \in SignalNames
      PROVE  LET s == [r EXCEPT !.signal = h] IN Like(s, r) /\ s.pc = r.pc /\ s.signal = h
  BY <1>1, CallsHaveFields DEF Fields, Like
<1>5. LET s == Signalled(r) IN Like(s, r) /\ s.pc = r.pc /\ s.signal # "none"
  BY <1>2, <1>4
<1>6. ASSUME NEW why \in Cuts
      PROVE  LET s == [Signalled(r) EXCEPT !.cut = why] IN Like(s, r) /\ s.pc = r.pc /\ s.signal # "none"
  <2> DEFINE t == Signalled(r)
  <2>1. t \in Fields /\ Like(t, r) /\ t.pc = r.pc /\ t.signal # "none"
    BY <1>5, CallsHaveFields DEF Like
  <2> HIDE DEF t
  <2>2. LET s == [t EXCEPT !.cut = why] IN Like(s, r) /\ s.pc = r.pc /\ s.signal # "none"
    BY <2>1, CallsHaveFields DEF Fields, Like
  <2> QED BY <2>2 DEF t
<1> QED BY <1>3, <1>4, <1>5, <1>6

LEMMA AskingWaits ==
    ASSUME NEW kind \in Kinds, NEW c \in Clients, NEW type
    PROVE  /\ Asking(kind, c, type) \in CallRecord
           /\ \/ Asking(kind, c, type).pc \in Results
              \/ \E p \in Questions : Waits(Asking(kind, c, type), kind, p, c, 0)
           /\ type \in {"none", "chatgpt"} => \E p \in Questions : Waits(Asking(kind, c, type), kind, p, c, 0)
<1> DEFINE In(p) == [Calling(kind, p) EXCEPT !.client = c]
<1>1. Waits(In("account"), kind, "account", c, 0) /\ Waits(In("limits"), kind, "limits", c, 0)
  BY CallingWaits DEF Places, MaybeClients
<1>2. Result("failed") \in CallRecord /\ Result("failed").pc \in Results
  BY ResultEnds DEF Results
<1>3. /\ Asking(kind, c, type) \in {In("account"), In("limits"), Result("failed")}
      /\ type \in {"none", "chatgpt"} => Asking(kind, c, type) \in {In("account"), In("limits")}
  BY DEF Asking
<1> HIDE DEF In
<1>4. "account" \in Questions /\ "limits" \in Questions
  BY DEF Questions
<1> QED BY <1>1, <1>2, <1>3, <1>4 DEF Waits

-----------------------------------------------------------------------------
(* Steps. *)

\* What a step does to a call that was not settled: it is seen settled only if it is awaited,
\* and goes on answering what was asked.
GoesOn(o) ==
    /\ call'[o] \in CallRecord
    /\ call'[o].pc \in Results => o = refresh.call
    /\ o = refresh.call => call'[o].pc \in Results \/ call'[o].kind = call[o].kind
    /\ call'[o].pc = "http" =>
         call[o].pc = "http" /\ call'[o].kind = call[o].kind /\ DOMAIN call'[o].answers = DOMAIN call[o].answers

\* No command is started for call o.
NoCommand(o) == call'[o].pc \in Commands => call'[o].pc = call[o].pc /\ call'[o].signal = call[o].signal

\* A call of the Codex source stays where it was, or leaves.
Stays(o) ==
    call'[o].pc \in CodexPlaces =>
        call'[o].pc = call[o].pc /\ call'[o].client = call[o].client /\ call'[o].life = call[o].life

CallsGoOn == call' \in [Calls -> CallRecord] /\ \A o \in Calls : GoesOn(o)

LEMMA KeptCall ==
    ASSUME TypeOK, NEW o \in Calls, call'[o] = call[o], Quiet
    PROVE  GoesOn(o) /\ NoCommand(o) /\ Stays(o)
BY DEF TypeOK, GoesOn, NoCommand, Stays, Quiet, Settled

LEMMA QuitCall ==
    ASSUME NEW o \in Calls, Quits(o, call'[o])
    PROVE  GoesOn(o) /\ NoCommand(o) /\ Stays(o)
BY PlacesDiffer DEF Quits, GoesOn, NoCommand, Stays

LEMMA WaitingCall ==
    ASSUME NEW o \in Calls, NEW p \in CodexPlaces, NEW c, NEW l,
           Waits(call'[o], call[o].kind, p, c, l)
    PROVE  GoesOn(o) /\ NoCommand(o)
BY PlacesDiffer DEF Waits, GoesOn, NoCommand

LEMMA MovedCall ==
    ASSUME NEW o \in Calls, NEW p \in CodexPlaces, Like(call'[o], call[o]), call'[o].pc = p
    PROVE  GoesOn(o) /\ NoCommand(o)
BY PlacesDiffer DEF Like, GoesOn, NoCommand

\* What becomes of call o when the requests of client c are rejected.
LEMMA RejectedCall ==
    ASSUME TypeOK, NEW o \in Calls, NEW c
    PROVE  \/ Rejected(c)[o] = call[o] /\ (call[o].client = c => call[o].pc \notin Requesting)
           \/ call[o].client = c /\ call[o].pc \in Questions /\ Quits(o, Rejected(c)[o])
           \/ /\ call[o].client = c /\ call[o].pc \in Spawning
              /\ Like(Rejected(c)[o], call[o]) /\ Rejected(c)[o].pc = "dropping"
<1>1. call[o] \in CallRecord /\ "dropping" \in Places
  BY DEF TypeOK, Places
<1>2. Rejected(c)[o] = IF call[o].client # c THEN call[o]
                       ELSE IF call[o].pc \in {"account", "limits"} THEN Ended(o, "failed")
                       ELSE IF o \in Owner(c) THEN [call[o] EXCEPT !.pc = "dropping"]
                       ELSE call[o]
  BY Zenon DEF Rejected
<1>3. o \in Owner(c) <=> call[o].client = c /\ call[o].pc \in {"spawning", "handshake"}
  BY DEF Owner
<1>4. Quits(o, Ended(o, "failed"))
  BY ResultEnds DEF Results
<1>5. Like([call[o] EXCEPT !.pc = "dropping"], call[o]) /\ [call[o] EXCEPT !.pc = "dropping"].pc = "dropping"
  BY <1>1, CallMoves
<1>6. CASE call[o].client # c
  BY <1>2, <1>6
<1>7. CASE call[o].client = c /\ call[o].pc \in {"account", "limits"}
  BY <1>2, <1>4, <1>7 DEF Questions
<1>8. CASE call[o].client = c /\ call[o].pc \in {"spawning", "handshake"}
  BY <1>2, <1>3, <1>5, <1>8 DEF Spawning
<1>9. CASE call[o].client = c /\ call[o].pc \notin {"account", "limits", "spawning", "handshake"}
  BY <1>2, <1>3, <1>9 DEF Requesting, Spawning, Questions
<1> QED BY <1>6, <1>7, <1>8, <1>9

LEMMA RejectedGoOn ==
    ASSUME TypeOK, Quiet, NEW c, call' = Rejected(c)
    PROVE  /\ CallsGoOn
           /\ \A o \in Calls : NoCommand(o)
           /\ \A o \in Calls : call'[o].pc \in Requesting => call'[o] = call[o] /\ call[o].client # c
           /\ \A o \in Calls : call'[o].pc = "dropping" =>
                call'[o].client = call[o].client /\ (call'[o] = call[o] \/ (call[o].client = c /\ call[o].pc \in Spawning))
           /\ \A o \in Calls : call'[o].pc = "cleanup" => call'[o] = call[o]
<1>1. call' = [o \in Calls |-> call'[o]]
  BY DEF Rejected
<1>2. ASSUME NEW o \in Calls
      PROVE  /\ GoesOn(o) /\ NoCommand(o)
             /\ call'[o].pc \in Requesting => call'[o] = call[o] /\ call[o].client # c
             /\ call'[o].pc = "dropping" =>
                  call'[o].client = call[o].client /\ (call'[o] = call[o] \/ (call[o].client = c /\ call[o].pc \in Spawning))
             /\ call'[o].pc = "cleanup" => call'[o] = call[o]
  <2>1. CASE call'[o] = call[o] /\ (call[o].client = c => call[o].pc \notin Requesting)
    BY <2>1, KeptCall
  <2>2. CASE Quits(o, call'[o])
    BY <2>2, QuitCall, PlacesDiffer DEF Quits, CodexPlaces, Requesting, Entering
  <2>3. CASE /\ call[o].client = c /\ call[o].pc \in Spawning
             /\ Like(call'[o], call[o]) /\ call'[o].pc = "dropping"
    BY <2>3, MovedCall DEF CodexPlaces, Entering, Requesting, Spawning, Questions, Like
  <2> QED BY <2>1, <2>2, <2>3, RejectedCall
<1>3. \A o \in Calls : call'[o] \in CallRecord
  BY <1>2 DEF GoesOn
<1>4. call' \in [Calls -> CallRecord]
  BY <1>1, <1>3
<1> QED BY <1>2, <1>4 DEF CallsGoOn

-----------------------------------------------------------------------------
(* The Codex source. *)

Core == Processes /\ Asks /\ OneInitializes /\ Cleanups

LEMMA ClosingProcess ==
    ASSUME NEW p \in ProcessRecord
    PROVE  /\ Closing(p) \in ProcessRecord /\ Closing(p).closed /\ Closing(p).stage # "open"
           /\ Closing(p).alive = p.alive /\ Closing(p).born = p.born
BY DEF Closing, ProcessRecord

LEMMA EndedProcess ==
    ASSUME NEW p \in ProcessRecord, NEW alive \in BOOLEAN
    PROVE  LET q == [Closing(p) EXCEPT !.alive = alive]
           IN  q \in ProcessRecord /\ q.closed /\ q.stage # "open" /\ q.alive = alive
<1> DEFINE r == Closing(p)
<1>1. r \in ProcessRecord /\ r.closed /\ r.stage # "open"
  BY ClosingProcess
<1> HIDE DEF r
<1>2. LET q == [r EXCEPT !.alive = alive]
      IN  q \in ProcessRecord /\ q.closed /\ q.stage # "open" /\ q.alive = alive
  BY <1>1 DEF ProcessRecord
<1> QED BY <1>2 DEF r

LEMMA ExitedProcess ==
    ASSUME NEW p \in ProcessRecord
    PROVE  LET q == [[p EXCEPT !.closed = TRUE] EXCEPT !.alive = FALSE]
           IN  q \in ProcessRecord /\ q.closed /\ ~q.alive
BY DEF ProcessRecord

\* A client that fails, exits or is closed loses its requests; the source stays as it is.
LEMMA RejectionKeepsCore ==
    ASSUME TypeOK, Core, Quiet, NEW c \in Clients, NEW q \in ProcessRecord,
           q.closed, q.alive => q.stage # "open",
           proc' = [proc EXCEPT ![c] = q], call' = Rejected(c), UNCHANGED sourceVars
    PROVE  Core'
<1>1. /\ \A o \in Calls : call'[o].pc \in Requesting => call'[o] = call[o] /\ call[o].client # c
      /\ \A o \in Calls : call'[o].pc = "dropping" =>
           call'[o].client = call[o].client /\ (call'[o] = call[o] \/ (call[o].client = c /\ call[o].pc \in Spawning))
      /\ \A o \in Calls : call'[o].pc = "cleanup" => call'[o] = call[o]
  BY RejectedGoOn
<1>2. /\ proc'[c] = q /\ \A d \in Clients \ {c} : proc'[d] = proc[d]
      /\ \A d \in Clients : ~proc'[d].closed => d # c
  BY DEF TypeOK
<1>3. Processes'
  BY <1>2 DEF Core, Processes, sourceVars
<1>4. Spawning \subseteq Requesting /\ Questions \subseteq Requesting
  BY DEF Requesting
<1>5. Asks'
  BY <1>1, <1>2, <1>4 DEF Core, Asks, sourceVars
<1>6. Cleanups'
  BY <1>1 DEF Core, Cleanups, Current, sourceVars
<1>7. OneInitializes'
  <2>1. SUFFICES ASSUME life = 0 PROVE OneInitializes'
    BY DEF OneInitializes, sourceVars
  <2>2. \A o \in Calls : call'[o].pc \in Entering => initialization = o
    <3> SUFFICES ASSUME NEW o \in Calls, call'[o].pc \in Entering PROVE initialization = o
      OBVIOUS
    <3>1. call[o].pc \in Entering
      BY <1>1, <1>4 DEF Entering
    <3> QED BY <2>1, <3>1 DEF Core, OneInitializes
  <2>3. \A o \in Calls : call'[o].pc = "dropping" => call'[o].client = client
    BY <1>1, <1>4, <2>1 DEF Core, OneInitializes, Asks
  <2>4. client # None /\ ~proc'[client].closed => initialization # None \/ readyFor = client
    BY <1>2, <2>1 DEF Core, OneInitializes, TypeOK
  <2> QED BY <2>2, <2>3, <2>4 DEF OneInitializes, sourceVars
<1> QED BY <1>3, <1>5, <1>6, <1>7 DEF Core

\* Calls leave the source, or are none of its calls.
LEMMA LeavingFreesCore ==
    ASSUME Core, UNCHANGED <<client, readyFor, life, account, proc>>,
           life = 0 => initialization' = initialization, \A o \in Calls : Stays(o)
    PROVE  Core'
<1>1. \A o \in Calls : call'[o].pc \in CodexPlaces =>
        call'[o].pc = call[o].pc /\ call'[o].client = call[o].client /\ call'[o].life = call[o].life
  BY DEF Stays
<1>2. /\ Requesting \subseteq CodexPlaces /\ Spawning \subseteq CodexPlaces /\ Questions \subseteq CodexPlaces
      /\ Entering \subseteq CodexPlaces /\ "dropping" \in CodexPlaces /\ "cleanup" \in CodexPlaces
  BY DEF CodexPlaces, Requesting, Entering
<1>3. Processes'
  BY DEF Core, Processes
<1>4. Asks'
  BY <1>1, <1>2 DEF Core, Asks
<1>5. OneInitializes'
  BY <1>1, <1>2 DEF Core, OneInitializes
<1>6. Cleanups'
  BY <1>1, <1>2 DEF Core, Cleanups, Current
<1> QED BY <1>3, <1>4, <1>5, <1>6 DEF Core

LEMMA LeavingKeepsCore ==
    ASSUME Core, UNCHANGED codexVars, \A o \in Calls : Stays(o)
    PROVE  Core'
BY LeavingFreesCore DEF codexVars, sourceVars

\* A call takes the next place on its way, with the same client; the source stays as it is.
LEMMA MovingKeepsCore ==
    ASSUME Core, UNCHANGED codexVars, NEW o \in Calls,
           \A p \in Calls \ {o} : Stays(p),
           \/ call[o].pc \in Spawning /\ call'[o].pc \in Spawning
           \/ call'[o].pc \in Questions /\ client \in Clients /\ ~proc[client].closed /\ readyFor = client,
           call'[o].client = client
    PROVE  Core'
<1>1. \A p \in Calls \ {o} : call'[p].pc \in CodexPlaces =>
        call'[p].pc = call[p].pc /\ call'[p].client = call[p].client /\ call'[p].life = call[p].life
  BY DEF Stays
<1>2. /\ Requesting \subseteq CodexPlaces /\ Spawning \subseteq CodexPlaces /\ Questions \subseteq CodexPlaces
      /\ Entering \subseteq CodexPlaces /\ "dropping" \in CodexPlaces /\ "cleanup" \in CodexPlaces
      /\ Spawning \subseteq Requesting /\ Questions \subseteq Requesting
  BY DEF CodexPlaces, Requesting, Entering
<1>3. /\ "dropping" \notin Spawning \cup Questions /\ "cleanup" \notin Spawning \cup Questions
      /\ Spawning \cap Questions = {} /\ Entering \cap Questions = {} /\ Spawning \subseteq Entering
  BY DEF Spawning, Questions, Entering
<1>4. Processes'
  BY DEF Core, Processes, codexVars, sourceVars
<1>5. Asks'
  <2>1. \A p \in Calls : call'[p].pc \in Requesting =>
          call'[p].client = client /\ client \in Clients /\ ~proc[client].closed
    BY <1>1, <1>2 DEF Core, Asks
  <2>2. \A p \in Calls : call'[p].pc \in Spawning => call[p].pc \in Spawning
    BY <1>1, <1>2, <1>3
  <2>3. \A p \in Calls : call'[p].pc \in Questions => readyFor = client
    BY <1>1, <1>2, <1>3 DEF Core, Asks
  <2> QED BY <2>1, <2>2, <2>3 DEF Core, Asks, codexVars, sourceVars
<1>6. OneInitializes'
  <2>1. \A p \in Calls : call'[p].pc \in Entering => call[p].pc \in Entering
    BY <1>1, <1>2, <1>3
  <2>2. \A p \in Calls : call'[p].pc = "dropping" => call[p].pc = "dropping" /\ call'[p].client = call[p].client
    BY <1>1, <1>2, <1>3
  <2> QED BY <2>1, <2>2 DEF Core, OneInitializes, codexVars, sourceVars
<1>7. Cleanups'
  <2>1. \A p \in Calls : call'[p].pc = "cleanup" => call[p].pc = "cleanup" /\ call'[p].life = call[p].life
    BY <1>1, <1>2, <1>3
  <2> QED BY <2>1 DEF Core, Cleanups, Current, codexVars, sourceVars
<1> QED BY <1>4, <1>5, <1>6, <1>7 DEF Core

SourceTypes ==
    /\ {client, readyFor, cleaning, account.from} \subseteq Clients \cup {None}
    /\ initialization \in Calls \cup {None} /\ life \in 0 .. 1
    /\ account.type \in {"none", "chatgpt", "other"}
    /\ proc \in [Clients -> ProcessRecord]

LEMMA SourceTyped == TypeOK => SourceTypes
BY DEF TypeOK, SourceTypes

\* A process is started while there is no client, by the only call that may.
LEMMA SpawningKeepsCore ==
    ASSUME TypeOK, Core, NEW o \in Calls, NEW kind \in Kinds, Spawned(o, kind),
           client = None, UNCHANGED <<readyFor, life, account>>,
           life = 0 => initialization' = o /\ \A p \in Calls \ {o} : call[p].pc \notin Entering,
           \A p \in Calls \ {o} : ~Current(p)
    PROVE  /\ Core'
           /\ client' \in Clients /\ proc' \in [Clients -> ProcessRecord]
           /\ \A p \in Calls \ {o} : call'[p] = call[p]
           /\ call' \in [Calls -> CallRecord] /\ call'[o].kind = kind /\ call'[o].pc = "spawning"
<1>1. PICK c \in Spare :
        /\ client' = c
        /\ proc' = [proc EXCEPT ![c] = [alive |-> TRUE, closed |-> FALSE, stage |-> "open", born |-> life]]
        /\ call' = [call EXCEPT ![o] = [Calling(kind, "spawning") EXCEPT !.client = c]]
  BY DEF Spawned
<1>2. c \in Clients /\ c # readyFor
  BY DEF Spare
<1>3. Waits([Calling(kind, "spawning") EXCEPT !.client = c], kind, "spawning", c, 0)
  BY <1>2, CallingWaits DEF Places, MaybeClients
<1>4. /\ Waits(call'[o], kind, "spawning", c, 0)
      /\ \A p \in Calls \ {o} : call'[p] = call[p]
      /\ call' \in [Calls -> CallRecord]
  BY <1>1, <1>3 DEF TypeOK, Waits
<1>5. /\ proc'[c].alive /\ ~proc'[c].closed /\ proc'[c].stage = "open" /\ proc'[c].born = life
      /\ \A d \in Clients \ {c} : proc'[d] = proc[d]
      /\ proc' \in [Clients -> ProcessRecord]
  BY <1>1, <1>2 DEF TypeOK, ProcessRecord
<1>6. \A d \in Clients : proc[d].closed
  BY ClientsAssumption DEF Core, Processes
<1>7. account.from = None
  BY DEF Core, Asks
<1>8. \A p \in Calls \ {o} : call'[p].pc \notin Requesting
  BY <1>4, ClientsAssumption DEF Core, Asks
<1>9. /\ call'[o].client = c /\ call'[o].pc = "spawning" /\ call'[o].life = 0
      /\ Spawning \subseteq Requesting /\ Questions \subseteq Requesting
      /\ "spawning" \notin Questions \cup {"dropping", "cleanup"}
  BY <1>4 DEF Waits, Requesting, Spawning, Questions
<1>10. Processes'
  BY <1>1, <1>2, <1>5, <1>6 DEF Core, Processes
<1>11. Asks'
  BY <1>1, <1>2, <1>5, <1>7, <1>8, <1>9 DEF Core, Asks
<1>12. OneInitializes'
  <2>1. SUFFICES ASSUME life = 0 PROVE OneInitializes'
    BY DEF OneInitializes
  <2>2. "dropping" \in Entering /\ initialization' # None
    BY <2>1, CallsAssumption DEF Entering
  <2> QED BY <1>4, <1>9, <2>1, <2>2 DEF OneInitializes
<1>13. Cleanups'
  BY <1>4, <1>9 DEF Core, Cleanups, Current
<1> QED BY <1>1, <1>2, <1>4, <1>5, <1>9, <1>10, <1>11, <1>12, <1>13 DEF Core, Waits

\* What holds when the coordinator calls: nobody waits in slot o, and after close() there
\* is no client and nobody who will start one.
MayCall(o) ==
    /\ call[o].pc \notin CodexPlaces
    /\ life = 1 => client = None /\ \A p \in Calls : ~Current(p)

\* What a call of the adapter does to the calls.
CallMadeIn(o, kind) ==
    /\ call' \in [Calls -> CallRecord]
    /\ \A p \in Calls \ {o} : call'[p] = call[p]
    /\ call'[o].pc \in Results \/ call'[o].kind = kind
    /\ AsksAll(call'[o])

LEMMA AsksNothing ==
    ASSUME NEW r, r.pc \in CodexPlaces \cup Results \cup Commands \cup {"free", "sharing"}
    PROVE  AsksAll(r)
BY PlacesDiffer DEF AsksAll

LEMMA OthersStay ==
    ASSUME NEW o \in Calls, \A p \in Calls \ {o} : call'[p] = call[p]
    PROVE  \A p \in Calls \ {o} : Stays(p) /\ NoCommand(p)
BY DEF Stays, NoCommand

LEMMA UseReadyKeepsCore ==
    ASSUME TypeOK, Core, NEW o \in Calls, NEW kind \in Kinds, MayCall(o), UseReady(o, kind)
    PROVE  Core' /\ CallMadeIn(o, kind) /\ NoCommand(o)
<1>1. /\ client \in Clients /\ ~proc[client].closed /\ readyFor = client
      /\ call' = [call EXCEPT ![o] = Asking(kind, client, account.type)]
      /\ UNCHANGED codexVars
  BY DEF UseReady, IsReady, TypeOK
<1>2. call'[o] = Asking(kind, client, account.type) /\ \A p \in Calls \ {o} : call'[p] = call[p]
  BY <1>1 DEF TypeOK
<1>3. call'[o] \in CallRecord
  BY <1>1, <1>2, AskingWaits
<1>4. call' \in [Calls -> CallRecord]
  BY <1>1, <1>3, <1>2 DEF TypeOK
<1>5. CASE call'[o].pc \in Results
  <2>1. Stays(o) /\ NoCommand(o)
    BY <1>5, PlacesDiffer DEF Stays, NoCommand
  <2>2. \A p \in Calls : Stays(p)
    BY <1>2, <2>1, OthersStay
  <2>3. AsksAll(call'[o])
    BY <1>5, AsksNothing
  <2> QED BY <1>1, <1>2, <1>4, <1>5, <2>1, <2>2, <2>3, LeavingKeepsCore DEF CallMadeIn
<1>6. CASE \E p \in Questions : Waits(call'[o], kind, p, client, 0)
  <2>1. call'[o].pc \in Questions /\ call'[o].client = client /\ call'[o].kind = kind
    BY <1>6 DEF Waits
  <2>2. Core'
    BY <1>1, <1>2, <2>1, OthersStay, MovingKeepsCore
  <2>3. NoCommand(o)
    BY <2>1, PlacesDiffer DEF NoCommand, CodexPlaces, Requesting
  <2>4. AsksAll(call'[o])
    BY <2>1, AsksNothing DEF CodexPlaces, Requesting
  <2> QED BY <1>2, <1>4, <2>1, <2>2, <2>3, <2>4 DEF CallMadeIn
<1> QED BY <1>1, <1>2, <1>5, <1>6, AskingWaits

LEMMA SharingKeepsCore ==
    ASSUME TypeOK, Core, NEW o \in Calls, NEW kind \in Kinds, MayCall(o), ShareInitialization(o, kind)
    PROVE  Core' /\ CallMadeIn(o, kind) /\ NoCommand(o)
<1>1. /\ initialization \in MaybeCalls /\ UNCHANGED codexVars
      /\ call' = [call EXCEPT ![o] = [Calling(kind, "sharing") EXCEPT !.owner = initialization]]
  BY DEF ShareInitialization, TypeOK, MaybeCalls
<1>2. Waits([Calling(kind, "sharing") EXCEPT !.owner = initialization], kind, "sharing", None, 0)
  BY <1>1, CallingWaits DEF Places
<1>3. /\ Waits(call'[o], kind, "sharing", None, 0)
      /\ \A p \in Calls \ {o} : call'[p] = call[p]
      /\ call' \in [Calls -> CallRecord]
  BY <1>1, <1>2 DEF TypeOK, Waits
<1>4. Stays(o) /\ NoCommand(o)
  BY <1>3, PlacesDiffer DEF Waits, Stays, NoCommand
<1>5. \A p \in Calls : Stays(p)
  BY <1>3, <1>4, OthersStay
<1>6. AsksAll(call'[o])
  BY <1>3, AsksNothing DEF Waits
<1> QED BY <1>1, <1>3, <1>4, <1>5, <1>6, LeavingKeepsCore DEF CallMadeIn, Waits

\* A call that waits for an old client to close.
LEMMA CleaningCall ==
    ASSUME TypeOK, NEW o \in Calls, NEW kind \in Kinds, NEW c \in MaybeClients,
           call' = [call EXCEPT ![o] = [Calling(kind, "cleanup") EXCEPT !.client = c, !.life = life]]
    PROVE  /\ Waits(call'[o], kind, "cleanup", c, life)
           /\ CallMadeIn(o, kind) /\ NoCommand(o)
<1>1. "cleanup" \in Places /\ life \in Lives
  BY DEF Places, TypeOK, Lives
<1>2. Waits([Calling(kind, "cleanup") EXCEPT !.client = c, !.life = life], kind, "cleanup", c, life)
  BY <1>1, CallingWaits
<1>3. /\ Waits(call'[o], kind, "cleanup", c, life)
      /\ \A p \in Calls \ {o} : call'[p] = call[p]
      /\ call' \in [Calls -> CallRecord]
  BY <1>2 DEF TypeOK, Waits
<1>4. AsksAll(call'[o])
  BY <1>3, AsksNothing DEF Waits, CodexPlaces, Entering
<1> QED BY <1>3, <1>4 DEF CallMadeIn, NoCommand, Waits, Commands

\* Call o waits for an old client, and no client is left.
LEMMA CleaningKeepsCore ==
    ASSUME TypeOK, Core, NEW o \in Calls, NEW c,
           client' = None, life' = life,
           client # None => proc[client].closed,
           Processes', account'.from = None, account'.type = "none",
           life = 0 => initialization' = o /\ \A p \in Calls \ {o} : call[p].pc \notin Entering,
           \A p \in Calls \ {o} : call'[p] = call[p] /\ ~Current(p),
           call'[o].pc = "cleanup", call'[o].client = c, call'[o].life = life
    PROVE  Core'
<1>1. /\ Spawning \subseteq Requesting /\ Questions \subseteq Requesting
      /\ "cleanup" \notin Requesting \cup {"dropping"} /\ "dropping" \in Entering
  BY DEF Requesting, Spawning, Questions, Entering
<1>2. \A p \in Calls : call'[p].pc \notin Requesting
  BY <1>1, ClientsAssumption DEF Core, Asks
<1>3. Asks'
  BY <1>1, <1>2 DEF Asks
<1>4. OneInitializes'
  BY <1>1 DEF OneInitializes
<1>5. life \in 0 .. 1
  BY DEF TypeOK
<1>6. Cleanups'
  BY <1>5 DEF Core, Cleanups, Current
<1> QED BY <1>3, <1>4, <1>6 DEF Core

LEMMA InitializeKeepsCore ==
    ASSUME TypeOK, Core, NEW o \in Calls, NEW kind \in Kinds, MayCall(o), Initialize(o, kind)
    PROVE  Core' /\ CallMadeIn(o, kind) /\ NoCommand(o) /\ SourceTypes'
<1>1. ~IsReady /\ initialization = None /\ initialization' = o /\ life' = life /\ life \in 0 .. 1
  BY DEF Initialize, TypeOK
<1>2. life = 0 => initialization' = o /\ \A p \in Calls : call[p].pc \notin Entering
  BY <1>1, CallsAssumption DEF Core, OneInitializes
<1>3. \A p \in Calls : ~Current(p)
  BY <1>1, <1>2 DEF MayCall, Current, Entering
<1>4. CASE client # None /\ proc[client].closed
  <2>1. /\ cleaning' = client /\ client' = None /\ readyFor' = None /\ account' = NoAccount
        /\ proc' = [proc EXCEPT ![client] = Closing(@)]
        /\ call' = [call EXCEPT ![o] = [Calling(kind, "cleanup") EXCEPT !.client = client, !.life = life]]
    BY <1>4 DEF Initialize
  <2>2. client \in Clients /\ client \in MaybeClients
    BY <1>4 DEF TypeOK, MaybeClients
  <2>3. Waits(call'[o], kind, "cleanup", client, life) /\ CallMadeIn(o, kind) /\ NoCommand(o)
    BY <2>1, <2>2, CleaningCall
  <2>4. /\ proc' \in [Clients -> ProcessRecord]
        /\ proc'[client].closed /\ proc'[client].stage # "open"
        /\ \A d \in Clients \ {client} : proc'[d] = proc[d]
    <3> DEFINE q == Closing(proc[client])
    <3>1. proc' = [proc EXCEPT ![client] = q]
      BY <2>1
    <3>2. q \in ProcessRecord /\ q.closed /\ q.stage # "open"
      BY <2>2, ClosingProcess DEF TypeOK
    <3> HIDE DEF q
    <3> QED BY <2>2, <3>1, <3>2 DEF TypeOK
  <2>5. Processes'
    BY <1>1, <1>4, <2>1, <2>2, <2>4 DEF Core, Processes
  <2>6. account'.from = None /\ account'.type = "none"
    BY <2>1 DEF NoAccount
  <2>7. Core'
    BY <1>1, <1>2, <1>3, <1>4, <2>1, <2>3, <2>5, <2>6, CleaningKeepsCore DEF CallMadeIn, Waits
  <2>8. SourceTypes'
    BY <1>1, <2>1, <2>2, <2>4, <2>6 DEF SourceTypes
  <2> QED BY <2>3, <2>7, <2>8
<1>5. CASE ~(client # None /\ proc[client].closed)
  <2>1. /\ UNCHANGED <<cleaning, readyFor, account>>
        /\ \/ cleaning = None /\ Spawned(o, kind)
           \/ /\ call' = [call EXCEPT ![o] = [Calling(kind, "cleanup") EXCEPT !.client = cleaning, !.life = life]]
              /\ UNCHANGED <<client, proc>>
    BY <1>5 DEF Initialize
  <2>2. client = None
    BY <1>1, <1>5 DEF MayCall, Core, OneInitializes, IsReady
  <2>3. account.from = None /\ account.type = "none"
    BY <2>2 DEF Core, Asks
  <2>4. CASE Spawned(o, kind)
    <3>1. /\ Core' /\ client' \in Clients /\ proc' \in [Clients -> ProcessRecord]
          /\ \A p \in Calls \ {o} : call'[p] = call[p]
          /\ call' \in [Calls -> CallRecord] /\ call'[o].kind = kind /\ call'[o].pc = "spawning"
      BY <1>1, <1>2, <1>3, <2>1, <2>2, <2>4, SpawningKeepsCore
    <3>2. AsksAll(call'[o])
      BY <3>1, AsksNothing DEF CodexPlaces, Entering, Spawning
    <3>3. CallMadeIn(o, kind) /\ NoCommand(o)
      BY <3>1, <3>2 DEF CallMadeIn, NoCommand, Commands
    <3>4. SourceTypes'
      BY <1>1, <2>1, <3>1 DEF SourceTypes, TypeOK
    <3> QED BY <3>1, <3>3, <3>4
  <2>5. CASE /\ call' = [call EXCEPT ![o] = [Calling(kind, "cleanup") EXCEPT !.client = cleaning, !.life = life]]
             /\ UNCHANGED <<client, proc>>
    <3>1. cleaning \in MaybeClients
      BY DEF TypeOK, MaybeClients
    <3>2. Waits(call'[o], kind, "cleanup", cleaning, life) /\ CallMadeIn(o, kind) /\ NoCommand(o)
      BY <2>5, <3>1, CleaningCall
    <3>3. Processes'
      BY <1>1, <2>5 DEF Core, Processes
    <3>4. Core'
      BY <1>1, <1>2, <1>3, <2>1, <2>2, <2>3, <2>5, <3>2, <3>3, CleaningKeepsCore DEF CallMadeIn, Waits
    <3>5. SourceTypes'
      BY <1>1, <2>1, <2>5 DEF SourceTypes, TypeOK
    <3> QED BY <3>2, <3>4, <3>5
  <2> QED BY <2>1, <2>4, <2>5
<1> QED BY <1>4, <1>5

LEMMA CodexCallKeepsCore ==
    ASSUME TypeOK, Core, NEW o \in Calls, NEW kind \in Kinds, MayCall(o), CodexCall(o, kind)
    PROVE  Core' /\ CallMadeIn(o, kind) /\ NoCommand(o) /\ SourceTypes' /\ life' = life
<1>1. CASE Initialize(o, kind)
  BY <1>1, InitializeKeepsCore DEF Initialize
<1>2. CASE UseReady(o, kind) \/ ShareInitialization(o, kind)
  <2>1. UNCHANGED codexVars
    BY <1>2 DEF UseReady, ShareInitialization
  <2>2. SourceTypes' /\ life' = life
    BY <2>1 DEF TypeOK, SourceTypes, codexVars, sourceVars
  <2> QED BY <1>2, <2>2, UseReadyKeepsCore, SharingKeepsCore
<1> QED BY <1>1, <1>2 DEF CodexCall

-----------------------------------------------------------------------------
(* The steps of the Codex source. *)

\* Once the source is closed, nobody starts a process who was not on the way to.
NoReturn ==
    life = 1 /\ client = None /\ (\A p \in Calls : ~Current(p)) =>
        client' = None /\ \A p \in Calls : ~(call'[p].pc = "cleanup" /\ call'[p].life = life')

SourceStep ==
    /\ Core' /\ SourceTypes' /\ CallsGoOn
    /\ \A o \in Calls : NoCommand(o)
    /\ life' = life /\ NoReturn

\* The initialization of a call fails, for it and for those that share it.
LEMMA InitializationFailsCalls ==
    ASSUME TypeOK, Quiet, NEW o \in Calls, InitializationFails(o)
    PROVE  /\ CallsGoOn
           /\ \A p \in Calls : NoCommand(p) /\ Stays(p)
           /\ \A p \in Calls : call'[p] = call[p] \/ Quits(p, call'[p])
           /\ Quits(o, call'[o])
<1>1. ASSUME NEW p \in Calls
      PROVE  call'[p] = IF p \in Followers(o) \cup {o} THEN Ended(p, "failed") ELSE call[p]
  BY DEF InitializationFails
<1>2. \A p \in Calls : Quits(p, Ended(p, "failed"))
  BY ResultEnds DEF Results
<1>3. \A p \in Calls : call'[p] = call[p] \/ Quits(p, call'[p])
  BY <1>1, <1>2
<1>4. Quits(o, call'[o])
  BY <1>1, <1>2
<1>5. \A p \in Calls : GoesOn(p) /\ NoCommand(p) /\ Stays(p)
  BY <1>3, KeptCall, QuitCall
<1>6. call' \in [Calls -> CallRecord]
  <2>1. call' = [p \in Calls |-> call'[p]]
    BY DEF InitializationFails
  <2> QED BY <1>5, <2>1 DEF GoesOn
<1> QED BY <1>3, <1>4, <1>5, <1>6 DEF CallsGoOn

LEMMA CleanupDoneStep ==
    ASSUME TypeOK, Core, Quiet, NEW o \in Calls, CleanupDone(o)
    PROVE  SourceStep
<1>1. /\ call[o].pc = "cleanup" /\ UNCHANGED <<readyFor, life, account>>
      /\ cleaning' \in {None, cleaning} /\ life \in 0 .. 1 /\ call[o] \in CallRecord
  BY DEF CleanupDone, TypeOK
<1>2. call[o].life <= life /\ call[o].life \in 0 .. 1
  BY <1>1 DEF Core, Cleanups, CallRecord
<1>3. CASE call[o].life # life
  <2>1. InitializationFails(o) /\ UNCHANGED <<client, proc>>
    BY <1>3 DEF CleanupDone
  <2>2. life # 0
    BY <1>1, <1>2, <1>3
  <2>3. Core'
    BY <1>1, <2>1, <2>2, InitializationFailsCalls, LeavingFreesCore
  <2>4. SourceTypes'
    BY <1>1, <2>1 DEF SourceTypes, TypeOK, InitializationFails
  <2>5. NoReturn
    BY <1>1, <2>1, InitializationFailsCalls DEF NoReturn, Current, Stays, CodexPlaces, Entering
  <2> QED BY <1>1, <2>1, <2>3, <2>4, <2>5, InitializationFailsCalls DEF SourceStep
<1>4. CASE call[o].life = life
  <2>1. Spawned(o, call[o].kind) /\ UNCHANGED initialization
    BY <1>4 DEF CleanupDone
  <2>2. Current(o) /\ client = None /\ \A p \in Calls \ {o} : ~Current(p)
    BY <1>1, <1>4 DEF Current, Core, Cleanups
  <2>3. life = 0 => initialization' = o /\ \A p \in Calls \ {o} : call[p].pc \notin Entering
    BY <1>1, <2>1 DEF Core, OneInitializes, Entering
  <2>4. call[o].kind \in Kinds
    BY <1>1 DEF CallRecord, Kinds
  <2>5. /\ Core' /\ client' \in Clients /\ proc' \in [Clients -> ProcessRecord]
        /\ \A p \in Calls \ {o} : call'[p] = call[p]
        /\ call' \in [Calls -> CallRecord] /\ call'[o].kind = call[o].kind /\ call'[o].pc = "spawning"
    BY <1>1, <2>1, <2>2, <2>3, <2>4, SpawningKeepsCore
  <2>6. "spawning" \notin Results \cup Commands
    BY DEF Results, Commands
  <2>7. GoesOn(o) /\ NoCommand(o)
    BY <2>5, <2>6 DEF GoesOn, NoCommand
  <2>8. CallsGoOn /\ \A p \in Calls : NoCommand(p)
    BY <2>5, <2>7, KeptCall DEF CallsGoOn
  <2>9. SourceTypes'
    BY <1>1, <2>1, <2>5 DEF SourceTypes, TypeOK
  <2> QED BY <1>1, <2>2, <2>5, <2>8, <2>9 DEF SourceStep, NoReturn
<1> QED BY <1>3, <1>4

LEMMA DroppedStep ==
    ASSUME TypeOK, Core, Quiet, NEW o \in Calls, Dropped(o)
    PROVE  SourceStep
<1>1. /\ call[o].pc = "dropping" /\ proc[call[o].client].stage = "done"
      /\ InitializationFails(o) /\ initialization' = None
      /\ UNCHANGED <<cleaning, life, proc>> /\ life \in 0 .. 1
  BY DEF Dropped, InitializationFails, TypeOK
<1>2. /\ \A p \in Calls : call'[p] = call[p] \/ Quits(p, call'[p])
      /\ Quits(o, call'[o]) /\ CallsGoOn /\ \A p \in Calls : NoCommand(p) /\ Stays(p)
  BY <1>1, InitializationFailsCalls
<1>3. \A p \in Calls : Quits(p, call'[p]) => call'[p].pc \notin Requesting \cup Entering
  BY PlacesDiffer DEF Quits, CodexPlaces
<1>4. "cleanup" \in Entering /\ "dropping" \in Entering /\ Spawning \subseteq Requesting /\ Questions \subseteq Requesting
  BY DEF Entering, Requesting
<1>5. NoReturn
  BY <1>1, <1>2, <1>3, <1>4 DEF NoReturn, Current, Dropped
<1>6. CASE client # call[o].client
  <2>1. UNCHANGED <<client, account, readyFor>>
    BY <1>6 DEF Dropped
  <2>2. life # 0
    BY <1>1, <1>6 DEF Core, OneInitializes
  <2>3. Core'
    BY <1>1, <1>2, <2>1, <2>2, LeavingFreesCore
  <2>4. SourceTypes'
    BY <1>1, <2>1 DEF SourceTypes, TypeOK
  <2> QED BY <1>1, <1>2, <1>5, <2>3, <2>4 DEF SourceStep
<1>7. CASE client = call[o].client
  <2>1. client' = None /\ account' = NoAccount /\ readyFor' = None
    BY <1>7 DEF Dropped
  <2>2. client \in Clients => proc[client].closed
    BY <1>1, <1>7 DEF Core, Processes
  <2>3. Processes'
    BY <1>1, <2>1, <2>2 DEF Core, Processes
  <2>4. \A p \in Calls : call'[p].pc \notin Requesting
    BY <1>2, <1>3, <2>2 DEF Core, Asks
  <2>5. Asks'
    BY <1>4, <2>1, <2>4 DEF Asks, NoAccount
  <2>6. OneInitializes'
    <3>1. SUFFICES ASSUME life = 0 PROVE OneInitializes'
      BY <1>1 DEF OneInitializes
    <3>2. \A p \in Calls : call'[p].pc \notin Entering
      BY <1>1, <1>2, <1>3, <1>4, <3>1 DEF Core, OneInitializes
    <3> QED BY <1>4, <2>1, <3>2 DEF OneInitializes
  <2>7. Cleanups'
    BY <1>1, <1>2, <1>3, <1>4, <2>1 DEF Core, Cleanups, Current
  <2>8. SourceTypes'
    BY <1>1, <2>1 DEF SourceTypes, TypeOK, NoAccount
  <2> QED BY <1>1, <1>2, <1>5, <2>3, <2>5, <2>6, <2>7, <2>8 DEF SourceStep, Core
<1> QED BY <1>6, <1>7

LEMMA SpawnEventStep ==
    ASSUME TypeOK, Core, Quiet, NEW o \in Calls, SpawnEvent(o)
    PROVE  SourceStep
<1>1. /\ call[o].pc = "spawning" /\ call[o] \in CallRecord /\ UNCHANGED codexVars
      /\ call' = [call EXCEPT ![o] = [call[o] EXCEPT !.pc = "handshake"]]
  BY DEF SpawnEvent, TypeOK
<1>2. Like([call[o] EXCEPT !.pc = "handshake"], call[o]) /\ [call[o] EXCEPT !.pc = "handshake"].pc = "handshake"
  <2>1. "handshake" \in Places
    BY DEF Places
  <2> QED BY <1>1, <2>1, CallMoves
<1>3. /\ Like(call'[o], call[o]) /\ call'[o].pc = "handshake"
      /\ \A p \in Calls \ {o} : call'[p] = call[p]
      /\ call' \in [Calls -> CallRecord]
  BY <1>1, <1>2 DEF TypeOK, Like
<1>4. {"spawning", "handshake"} \subseteq Spawning /\ Spawning \subseteq CodexPlaces /\ Spawning \subseteq Requesting
  BY DEF Spawning, CodexPlaces, Requesting
<1>5. call'[o].client = client
  BY <1>1, <1>3, <1>4 DEF Core, Asks, Like
<1>6. Core'
  BY <1>1, <1>3, <1>4, <1>5, OthersStay, MovingKeepsCore
<1>7. CallsGoOn /\ \A p \in Calls : NoCommand(p)
  BY <1>3, <1>4, KeptCall, MovedCall DEF CallsGoOn
<1>8. SourceTypes' /\ life' = life /\ NoReturn
  BY <1>1, <1>3 DEF codexVars, sourceVars, SourceTypes, TypeOK, NoReturn, Current
<1> QED BY <1>6, <1>7, <1>8 DEF SourceStep

\* An answer to a question: the call ends, or asks the next one.
LEMMA AnswerKeepsCore ==
    ASSUME TypeOK, Core, NEW o \in Calls, call[o].pc \in Questions,
           UNCHANGED <<client, readyFor, initialization, cleaning, life, proc>>,
           \/ account' = account
           \/ account'.from = client /\ account'.type \in {"chatgpt", "other"},
           \A p \in Calls \ {o} : call'[p] = call[p],
           call'[o].pc \in CodexPlaces => call'[o].pc \in Questions /\ call'[o].client = client
    PROVE  Core' /\ SourceTypes' /\ NoReturn
<1>1. client \in Clients /\ ~proc[client].closed /\ readyFor = client
  BY DEF Core, Asks, Requesting
<1>2. /\ Requesting \subseteq CodexPlaces /\ Entering \subseteq CodexPlaces
      /\ Spawning \subseteq Requesting /\ Questions \subseteq Requesting
      /\ "dropping" \in Entering /\ "cleanup" \in Entering
  BY DEF CodexPlaces, Requesting, Entering
<1>3. Questions \cap (Spawning \cup Entering) = {}
  BY DEF Questions, Spawning, Entering
<1>4. \A p \in Calls : /\ call'[p].pc \notin Spawning
                       /\ call'[p].pc \in Entering => call'[p] = call[p]
  BY <1>1, <1>2, <1>3 DEF Core, Asks
<1>5. Processes'
  BY DEF Core, Processes
<1>6. account'.from \in {client, None} /\ (account'.from = None => account'.type = "none")
  BY <1>1, ClientsAssumption DEF Core, Asks
<1>7. Asks'
  <2>1. \A p \in Calls : call'[p].pc \in Requesting =>
          call'[p].client = client /\ client \in Clients /\ ~proc[client].closed
    BY <1>1, <1>2 DEF Core, Asks
  <2> QED BY <1>1, <1>4, <1>6, <2>1 DEF Asks
<1>8. OneInitializes'
  BY <1>2, <1>4 DEF Core, OneInitializes
<1>9. Cleanups' /\ NoReturn
  BY <1>2, <1>4 DEF Core, Cleanups, Current, NoReturn
<1>10. SourceTypes'
  BY <1>6 DEF SourceTypes, TypeOK
<1> QED BY <1>5, <1>7, <1>8, <1>9, <1>10 DEF Core

LEMMA AccountAnsweredStep ==
    ASSUME TypeOK, Core, Quiet, NEW o \in Calls, NEW type \in {"chatgpt", "other", "none"}, AccountAnswered(o, type)
    PROVE  SourceStep
<1>1. /\ call[o].pc = "account" /\ call[o] \in CallRecord
      /\ UNCHANGED <<client, readyFor, initialization, cleaning, life, proc>>
  BY DEF AccountAnswered, TypeOK
<1>2. call[o].pc \in Questions /\ call[o].client = client /\ client \in Clients
  BY <1>1 DEF Questions, Core, Asks, Requesting
<1>3. \/ account' = account
      \/ account'.from = client /\ account'.type \in {"chatgpt", "other"}
  BY <1>2 DEF AccountAnswered
<1>4. \A res \in Results : Quits(o, Ended(o, res))
  BY ResultEnds
<1>5. /\ call' = [call EXCEPT ![o] = call'[o]]
      /\ \/ \E res \in Results : call'[o] = Ended(o, res)
         \/ /\ type = "chatgpt" /\ call[o].kind # "probe"
            /\ call'[o] = Asking("collect", client, type)
  BY <1>1, <1>2 DEF AccountAnswered, TypeOK, Results
<1>6. call[o].kind \in Kinds
  BY <1>1 DEF CallRecord, Kinds
<1>7. \/ Quits(o, call'[o])
      \/ \E p \in Questions : Waits(call'[o], call[o].kind, p, client, 0)
  <2>1. CASE \E res \in Results : call'[o] = Ended(o, res)
    BY <1>4, <2>1
  <2>2. CASE type = "chatgpt" /\ call[o].kind # "probe" /\ call'[o] = Asking("collect", client, type)
    <3>1. call[o].kind = "collect" /\ "collect" \in Kinds
      BY <1>6, <2>2 DEF Kinds
    <3> QED BY <1>2, <2>2, <3>1, AskingWaits
  <2> QED BY <1>5, <2>1, <2>2
<1>8. /\ GoesOn(o) /\ NoCommand(o)
      /\ call'[o].pc \in CodexPlaces => call'[o].pc \in Questions /\ call'[o].client = client
  <2>1. CASE Quits(o, call'[o])
    BY <2>1, QuitCall, PlacesDiffer DEF Quits
  <2>2. CASE \E p \in Questions : Waits(call'[o], call[o].kind, p, client, 0)
    BY <2>2, WaitingCall DEF Waits, CodexPlaces, Requesting
  <2> QED BY <1>7, <2>1, <2>2
<1>9. \A p \in Calls \ {o} : call'[p] = call[p]
  BY <1>5 DEF TypeOK
<1>10. CallsGoOn /\ \A p \in Calls : NoCommand(p)
  <2>1. \A p \in Calls : GoesOn(p) /\ NoCommand(p)
    BY <1>8, <1>9, KeptCall
  <2>2. call' \in [Calls -> CallRecord]
    BY <1>5, <2>1 DEF GoesOn, TypeOK
  <2> QED BY <2>1, <2>2 DEF CallsGoOn
<1>11. Core' /\ SourceTypes' /\ NoReturn
  BY <1>1, <1>2, <1>3, <1>8, <1>9, AnswerKeepsCore
<1> QED BY <1>1, <1>10, <1>11 DEF SourceStep

LEMMA LimitsAnsweredStep ==
    ASSUME TypeOK, Core, Quiet, NEW o \in Calls, NEW good \in BOOLEAN, LimitsAnswered(o, good)
    PROVE  SourceStep
<1>1. /\ call[o].pc = "limits" /\ UNCHANGED codexVars
      /\ call' = [call EXCEPT ![o] = Ended(o, IF good THEN "ok" ELSE "failed")]
  BY DEF LimitsAnswered
<1>2. Quits(o, Ended(o, IF good THEN "ok" ELSE "failed"))
  BY ResultEnds DEF Results
<1>3. /\ Quits(o, call'[o]) /\ \A p \in Calls \ {o} : call'[p] = call[p]
      /\ call' \in [Calls -> CallRecord]
  BY <1>1, <1>2 DEF TypeOK, Quits
<1>4. CallsGoOn /\ \A p \in Calls : NoCommand(p)
  BY <1>3, KeptCall, QuitCall DEF CallsGoOn
<1>5. call'[o].pc \notin CodexPlaces /\ call[o].pc \in Questions
  BY <1>1, <1>3, PlacesDiffer DEF Quits, Questions
<1>6. Core' /\ SourceTypes' /\ NoReturn
  BY <1>1, <1>3, <1>5, AnswerKeepsCore DEF codexVars, sourceVars
<1> QED BY <1>1, <1>4, <1>6 DEF SourceStep, codexVars, sourceVars

\* A client loses its requests: what a rejection means for the source.
LEMMA RejectionStep ==
    ASSUME TypeOK, Core, Quiet, NEW c \in Clients, NEW q \in ProcessRecord,
           q.closed, q.alive => q.stage # "open",
           proc' = [proc EXCEPT ![c] = q], call' = Rejected(c), UNCHANGED sourceVars
    PROVE  SourceStep
<1>1. Core'
  BY RejectionKeepsCore
<1>2. CallsGoOn /\ (\A o \in Calls : NoCommand(o)) /\ \A o \in Calls : call'[o].pc = "cleanup" => call'[o] = call[o]
  BY RejectedGoOn
<1>3. SourceTypes' /\ life' = life
  BY DEF SourceTypes, TypeOK, sourceVars
<1>4. NoReturn
  BY <1>2 DEF NoReturn, Current, sourceVars
<1> QED BY <1>1, <1>2, <1>3, <1>4 DEF SourceStep

LEMMA ClientFailsStep ==
    ASSUME TypeOK, Core, Quiet, NEW c \in Clients, NEW spawnError \in BOOLEAN, ClientFails(c, spawnError)
    PROVE  SourceStep
<1> DEFINE q == [Closing(proc[c]) EXCEPT !.alive = ~spawnError]
<1>1. proc' = [proc EXCEPT ![c] = q] /\ call' = Rejected(c) /\ UNCHANGED sourceVars
  BY DEF ClientFails
<1>2. q \in ProcessRecord /\ q.closed /\ q.stage # "open"
  BY EndedProcess DEF TypeOK
<1> HIDE DEF q
<1> QED BY <1>1, <1>2, RejectionStep

LEMMA ExitsStep ==
    ASSUME TypeOK, Core, Quiet, NEW c \in Clients, Exits(c)
    PROVE  SourceStep
<1>1. call' = Rejected(c) /\ UNCHANGED sourceVars /\ proc[c] \in ProcessRecord
  BY DEF Exits, TypeOK
<1>2. PICK q : /\ proc' = [proc EXCEPT ![c] = q]
               /\ \/ q = [Closing(proc[c]) EXCEPT !.alive = FALSE]
                  \/ q = [[proc[c] EXCEPT !.closed = TRUE] EXCEPT !.alive = FALSE]
  BY DEF Exits
<1>3. q \in ProcessRecord /\ q.closed /\ ~q.alive
  BY <1>1, <1>2, EndedProcess, ExitedProcess
<1> QED BY <1>1, <1>2, <1>3, RejectionStep

LEMMA CloseStepStep ==
    ASSUME TypeOK, Core, Quiet, NEW c \in Clients, CloseStep(c)
    PROVE  SourceStep
<1>1. PICK g \in {"term", "kill", "done"} : proc' = [proc EXCEPT ![c].stage = g]
  BY DEF CloseStep
<1>2. /\ proc[c].stage # "open" /\ UNCHANGED <<call, sourceVars>> /\ proc[c].closed
  BY DEF CloseStep, Core, Processes
<1>3. /\ proc' \in [Clients -> ProcessRecord]
      /\ proc'[c].stage # "open" /\ proc'[c].closed = proc[c].closed
      /\ proc'[c].alive = proc[c].alive /\ proc'[c].born = proc[c].born
      /\ \A d \in Clients \ {c} : proc'[d] = proc[d]
  BY <1>1 DEF TypeOK, ProcessRecord
<1>4. Processes'
  BY <1>2, <1>3 DEF Core, Processes, sourceVars
<1>5. client \in Clients => proc'[client].closed = proc[client].closed
  BY <1>3
<1>6. Asks' /\ OneInitializes' /\ Cleanups'
  <2>1. Asks'
    BY <1>2, <1>5 DEF Core, Asks, sourceVars
  <2>2. OneInitializes'
    BY <1>2, <1>5 DEF Core, OneInitializes, TypeOK, sourceVars
  <2>3. Cleanups'
    BY <1>2 DEF Core, Cleanups, Current, sourceVars
  <2> QED BY <2>1, <2>2, <2>3
<1>7. CallsGoOn /\ \A o \in Calls : NoCommand(o)
  BY <1>2, KeptCall DEF CallsGoOn, TypeOK
<1>8. SourceTypes' /\ life' = life /\ NoReturn
  BY <1>2, <1>3 DEF SourceTypes, TypeOK, sourceVars, NoReturn, Current
<1> QED BY <1>4, <1>6, <1>7, <1>8 DEF SourceStep, Core

\* The client is ready: its call and those that shared the initialization ask their questions.
LEMMA InitializedStep ==
    ASSUME TypeOK, Core, Quiet, NEW o \in Calls, InitializeAnswered(o, TRUE)
    PROVE  SourceStep
<1>1. /\ call[o].pc = "handshake" /\ readyFor' = call[o].client /\ initialization' = None
      /\ call' = [p \in Calls |-> IF p \in Followers(o) \cup {o}
                                    THEN Asking(call[p].kind, call[o].client, account.type) ELSE call[p]]
      /\ UNCHANGED <<proc, client, cleaning, life, account>>
  BY DEF InitializeAnswered
<1>2. "handshake" \in Spawning /\ Spawning \subseteq Requesting /\ Questions \subseteq Requesting
  BY DEF Spawning, Requesting
<1>3. /\ call[o].client = client /\ client \in Clients /\ ~proc[client].closed
      /\ account.from = None /\ account.type = "none"
      /\ \A p \in Calls : call[p].pc \in Spawning => p = o
  BY <1>1, <1>2 DEF Core, Asks
<1>4. ASSUME NEW p \in Calls, p \in Followers(o) \cup {o}
      PROVE  \E q \in Questions : Waits(call'[p], call[p].kind, q, client, 0)
  <2>1. call[p].kind \in Kinds
    BY DEF TypeOK, CallRecord, Kinds
  <2>2. call'[p] = Asking(call[p].kind, client, "none")
    BY <1>1, <1>3, <1>4
  <2> QED BY <1>3, <2>1, <2>2, AskingWaits
<1>5. \A p \in Calls : p \notin Followers(o) \cup {o} => call'[p] = call[p]
  BY <1>1
<1>6. Questions \subseteq CodexPlaces /\ Questions \cap (Spawning \cup Entering) = {}
      /\ "dropping" \in Entering /\ "cleanup" \in Entering /\ Spawning \subseteq Entering
  BY DEF CodexPlaces, Requesting, Questions, Spawning, Entering
<1>7. \A p \in Calls : /\ call'[p].pc \in Requesting => call'[p].client = client
                       /\ call'[p].pc \notin Spawning
                       /\ call'[p].pc \in Entering => call'[p] = call[p]
  <2> SUFFICES ASSUME NEW p \in Calls
               PROVE  /\ call'[p].pc \in Requesting => call'[p].client = client
                      /\ call'[p].pc \notin Spawning
                      /\ call'[p].pc \in Entering => call'[p] = call[p]
    OBVIOUS
  <2>1. CASE p \in Followers(o) \cup {o}
    BY <1>4, <1>6, <2>1 DEF Waits
  <2>2. CASE p \notin Followers(o) \cup {o}
    BY <1>3, <1>5, <2>2 DEF Core, Asks
  <2> QED BY <2>1, <2>2
<1>8. CallsGoOn /\ \A p \in Calls : NoCommand(p)
  <2>1. ASSUME NEW p \in Calls PROVE GoesOn(p) /\ NoCommand(p)
    <3>1. CASE p \in Followers(o) \cup {o}
      BY <1>4, <1>6, <3>1, WaitingCall
    <3>2. CASE p \notin Followers(o) \cup {o}
      BY <1>5, <3>2, KeptCall
    <3> QED BY <3>1, <3>2
  <2>2. call' = [p \in Calls |-> call'[p]]
    BY <1>1
  <2>3. call' \in [Calls -> CallRecord]
    BY <2>1, <2>2 DEF GoesOn
  <2> QED BY <2>1, <2>3 DEF CallsGoOn
<1>9. Processes'
  BY <1>1 DEF Core, Processes
<1>10. Asks'
  BY <1>1, <1>3, <1>7 DEF Core, Asks
<1>11. OneInitializes'
  <2>1. SUFFICES ASSUME life = 0 PROVE OneInitializes'
    BY <1>1 DEF OneInitializes
  <2>2. \A p \in Calls : call'[p].pc \notin Entering
    <3> SUFFICES ASSUME NEW p \in Calls, call'[p].pc \in Entering PROVE FALSE
      OBVIOUS
    <3>1. call[p].pc \in Entering /\ call[o].pc \in Entering
      BY <1>1, <1>2, <1>6, <1>7
    <3>2. p = o
      BY <2>1, <3>1 DEF Core, OneInitializes
    <3> QED BY <1>1, <1>2, <1>7, <3>2
  <2> QED BY <1>1, <1>3, <1>6, <2>2 DEF OneInitializes
<1>12. Cleanups' /\ NoReturn
  BY <1>1, <1>6, <1>7 DEF Core, Cleanups, Current, NoReturn
<1>13. SourceTypes'
  BY <1>1, <1>3 DEF SourceTypes, TypeOK
<1> QED BY <1>1, <1>8, <1>9, <1>10, <1>11, <1>12, <1>13 DEF SourceStep, Core

LEMMA InitializeAnsweredStep ==
    ASSUME TypeOK, Core, Quiet, NEW o \in Calls, NEW good \in BOOLEAN, InitializeAnswered(o, good)
    PROVE  SourceStep
<1>1. CASE good = TRUE
  BY <1>1, InitializedStep
<1>2. CASE good = FALSE
  <2> DEFINE q == Closing(proc[client])
  <2>1. call[o].pc = "handshake"
    BY DEF InitializeAnswered
  <2>2. call[o].client = client /\ client \in Clients
    BY <2>1 DEF Core, Asks, Requesting, Spawning
  <2>3. proc' = [proc EXCEPT ![client] = q] /\ call' = Rejected(client) /\ UNCHANGED sourceVars
    BY <1>2, <2>2 DEF InitializeAnswered, sourceVars
  <2>4. q \in ProcessRecord /\ q.closed /\ q.stage # "open"
    BY <2>2, ClosingProcess DEF TypeOK
  <2> HIDE DEF q
  <2> QED BY <2>2, <2>3, <2>4, RejectionStep
<1> QED BY <1>1, <1>2

LEMMA CodexSteps ==
    ASSUME TypeOK, Core, CodexStep
    PROVE  SourceStep
<1>1. /\ Quiet
      /\ \/ \E o \in Calls : SpawnEvent(o) \/ CleanupDone(o) \/ Dropped(o)
         \/ \E o \in Calls, good \in BOOLEAN : InitializeAnswered(o, good) \/ LimitsAnswered(o, good)
         \/ \E o \in Calls, type \in {"chatgpt", "other", "none"} : AccountAnswered(o, type)
         \/ \E c \in Clients : Exits(c) \/ CloseStep(c)
         \/ \E c \in Clients, spawnError \in BOOLEAN : ClientFails(c, spawnError)
  BY DEF CodexStep
<1>2. CASE \E o \in Calls : SpawnEvent(o) \/ CleanupDone(o) \/ Dropped(o)
  BY <1>1, <1>2, SpawnEventStep, CleanupDoneStep, DroppedStep
<1>3. CASE \E o \in Calls, good \in BOOLEAN : InitializeAnswered(o, good) \/ LimitsAnswered(o, good)
  BY <1>1, <1>3, InitializeAnsweredStep, LimitsAnsweredStep
<1>4. CASE \E o \in Calls, type \in {"chatgpt", "other", "none"} : AccountAnswered(o, type)
  BY <1>1, <1>4, AccountAnsweredStep
<1>5. CASE \E c \in Clients : Exits(c) \/ CloseStep(c)
  BY <1>1, <1>5, ExitsStep, CloseStepStep
<1>6. CASE \E c \in Clients, spawnError \in BOOLEAN : ClientFails(c, spawnError)
  BY <1>1, <1>6, ClientFailsStep
<1> QED BY <1>1, <1>2, <1>3, <1>4, <1>5, <1>6

\* close() of the source.
LEMMA CodexCloseKeepsCore ==
    ASSUME TypeOK, Core, Quiet, life = 0, CodexClose
    PROVE  /\ Core' /\ SourceTypes' /\ CallsGoOn /\ \A o \in Calls : NoCommand(o)
           /\ client' = None /\ \A o \in Calls : ~Current(o)'
<1>1. /\ life' = 1 /\ client' = None /\ account' = NoAccount /\ readyFor' = None
      /\ initialization' = None /\ UNCHANGED cleaning
  BY DEF CodexClose
<1>2. /\ CallsGoOn /\ \A o \in Calls : NoCommand(o)
      /\ \A o \in Calls : call'[o].pc \notin Requesting
      /\ \A o \in Calls : call'[o].pc = "cleanup" => call'[o] = call[o]
  <2>1. CASE client = None
    <3>1. UNCHANGED call
      BY <2>1 DEF CodexClose
    <3>2. \A o \in Calls : call[o].pc \notin Requesting
      BY <2>1, ClientsAssumption DEF Core, Asks
    <3> QED BY <3>1, <3>2, KeptCall DEF CallsGoOn, TypeOK
  <2>2. CASE client # None
    <3>1. call' = Rejected(client)
      BY <2>2 DEF CodexClose
    <3>2. \A o \in Calls : call[o].pc \in Requesting => call[o].client = client
      BY DEF Core, Asks
    <3> QED BY <3>1, <3>2, RejectedGoOn
  <2> QED BY <2>1, <2>2
<1>3. /\ proc' \in [Clients -> ProcessRecord]
      /\ \A c \in Clients \ {client} : proc'[c] = proc[c]
      /\ client \in Clients => proc'[client].closed /\ proc'[client].stage # "open"
  <2>1. CASE client = None
    BY <2>1, ClientsAssumption DEF CodexClose, TypeOK
  <2>2. CASE client # None
    <3> DEFINE q == Closing(proc[client])
    <3>1. proc' = [proc EXCEPT ![client] = q] /\ client \in Clients
      BY <2>2 DEF CodexClose, TypeOK
    <3>2. q \in ProcessRecord /\ q.closed /\ q.stage # "open"
      BY <3>1, ClosingProcess DEF TypeOK
    <3> HIDE DEF q
    <3> QED BY <3>1, <3>2 DEF TypeOK
  <2> QED BY <2>1, <2>2
<1>4. Processes'
  <2> SUFFICES ASSUME NEW c \in Clients
               PROVE  proc'[c].closed /\ (proc'[c].alive => proc'[c].stage # "open")
    BY <1>1 DEF Processes
  <2>1. CASE c = client
    BY <1>3, <2>1
  <2>2. CASE c # client
    BY <1>3, <2>2 DEF Core, Processes
  <2> QED BY <2>1, <2>2
<1>5. Asks'
  BY <1>1, <1>2 DEF Asks, NoAccount, Requesting
<1>6. OneInitializes'
  BY <1>1 DEF OneInitializes
<1>7. \A o \in Calls : call'[o].pc = "cleanup" => call'[o].life <= 0 /\ call'[o].life \in 0 .. 1
  BY <1>2 DEF Core, Cleanups, TypeOK, CallRecord
<1>8. Cleanups' /\ \A o \in Calls : ~Current(o)'
  BY <1>1, <1>7 DEF Cleanups, Current
<1>9. SourceTypes'
  BY <1>1, <1>3 DEF SourceTypes, TypeOK, NoAccount
<1> QED BY <1>1, <1>2, <1>4, <1>5, <1>6, <1>8, <1>9 DEF Core

-----------------------------------------------------------------------------
(* The Gemini source. *)

GeminiTypes ==
    /\ version \in {"none", "old", "supported"} /\ probedQuota \in {"none", "fresh", "left"}
    /\ executorClosed \in BOOLEAN

\* A call outside the Codex source: it has ended, or goes on to do what was asked.
Outside(r, kind) ==
    /\ r \in CallRecord
    /\ r.pc \notin CodexPlaces
    /\ r.pc \in Results \/ r.kind = kind

LEMMA CommandCall ==
    ASSUME NEW kind \in Kinds, NEW p \in Commands
    PROVE  Outside(Calling(kind, p), kind) /\ Calling(kind, p).pc = p
<1>1. p \in Places /\ p \notin CodexPlaces
  BY PlacesDiffer
<1>2. Waits(Calling(kind, p), kind, p, None, 0)
  BY <1>1, CallingWaits
<1> QED BY <1>1, <1>2 DEF Waits, Outside

LEMMA CreditsCall ==
    ASSUME NEW q \in QuotaNames
    PROVE  Outside(AskCredits(q), "collect") /\ AskCredits(q).pc = "credits"
<1>1. "credits" \in Places /\ "credits" \notin CodexPlaces /\ "collect" \in Kinds
  BY DEF Places, CodexPlaces, Requesting, Spawning, Questions, Entering, Kinds
<1>2. Waits([Calling("collect", "credits") EXCEPT !.quota = q], "collect", "credits", None, 0)
  BY <1>1, CallingWaits
<1> QED BY <1>1, <1>2 DEF Waits, Outside, AskCredits

LEMMA ResultCall ==
    ASSUME NEW res \in Results, NEW kind
    PROVE  Outside(Result(res), kind) /\ Result(res).pc = res
BY ResultEnds, PlacesDiffer DEF Outside

LEMMA CollectingCall ==
    ASSUME TypeOK
    PROVE  /\ Outside(Collecting, "collect")
           /\ IF executorClosed THEN Collecting.pc \in Results ELSE Collecting.pc \in Commands
<1>1. /\ "quota" \in Commands /\ "credits" \in Commands /\ "collect" \in Kinds /\ "partial" \in Results
      /\ probedQuota \in QuotaNames
  BY DEF Commands, Kinds, Results, QuotaNames, TypeOK
<1>2. CASE executorClosed
  <2>1. Collecting = Result("partial")
    BY <1>2 DEF Collecting
  <2> QED BY <1>1, <1>2, <2>1, ResultCall
<1>3. CASE ~executorClosed /\ probedQuota = "none"
  <2>1. Collecting = Calling("collect", "quota")
    BY <1>3 DEF Collecting
  <2> QED BY <1>1, <1>3, <2>1, CommandCall
<1>4. CASE ~executorClosed /\ probedQuota # "none"
  <2>1. Collecting = AskCredits(probedQuota)
    BY <1>4 DEF Collecting
  <2> QED BY <1>1, <1>4, <2>1, CreditsCall
<1> QED BY <1>2, <1>3, <1>4

LEMMA GeminiCallKeeps ==
    ASSUME TypeOK, Signals, NEW o \in Calls, NEW kind \in Kinds, GeminiCall(o, kind)
    PROVE  /\ CallMadeIn(o, kind) /\ call'[o].pc \notin CodexPlaces /\ Signals' /\ GeminiTypes'
           /\ IF kind = "collect" THEN probedQuota' # "fresh" ELSE probedQuota' = probedQuota
<1>1. UNCHANGED <<version, executorClosed>>
  BY DEF GeminiCall
<1>2. \/ kind = "collect" /\ call' = [call EXCEPT ![o] = Collecting]
      \/ call' = [call EXCEPT ![o] = Result("failed")]
      \/ ~executorClosed /\ call' = [call EXCEPT ![o] = Calling(kind, "version")]
  BY DEF GeminiCall
<1>3. \/ kind = "collect" /\ call'[o] = Collecting
      \/ call'[o] = Result("failed")
      \/ ~executorClosed /\ call'[o] = Calling(kind, "version")
  BY <1>2 DEF TypeOK
<1>4. /\ "version" \in Commands /\ "failed" \in Results /\ Commands \cap Results = {}
      /\ executorClosed \in BOOLEAN
  BY DEF Commands, Results, TypeOK
<1>5. /\ Outside(call'[o], kind) /\ (call'[o].pc \in Commands => ~executorClosed)
      /\ call'[o].pc \in Results \cup Commands
  <2>1. CASE kind = "collect" /\ call'[o] = Collecting
    BY <1>4, <2>1, CollectingCall
  <2>2. CASE call'[o] = Result("failed")
    BY <1>4, <2>2, ResultCall
  <2>3. CASE ~executorClosed /\ call'[o] = Calling(kind, "version")
    BY <1>4, <2>3, CommandCall
  <2> QED BY <1>3, <2>1, <2>2, <2>3
<1>6. call'[o] \in CallRecord
  BY <1>5 DEF Outside
<1>7. /\ \A p \in Calls \ {o} : call'[p] = call[p]
      /\ call' \in [Calls -> CallRecord]
  BY <1>2, <1>3, <1>6 DEF TypeOK
<1>8. Signals'
  BY <1>1, <1>5, <1>7 DEF Signals
<1>9. /\ probedQuota' \in {"none", "fresh", "left"}
      /\ IF kind = "collect" THEN probedQuota' # "fresh" ELSE probedQuota' = probedQuota
  BY DEF GeminiCall, TypeOK
<1>10. GeminiTypes'
  BY <1>1, <1>9 DEF GeminiTypes, TypeOK
<1>11. AsksAll(call'[o])
  BY <1>5, AsksNothing
<1> QED BY <1>5, <1>7, <1>8, <1>9, <1>10, <1>11 DEF CallMadeIn, Outside

\* One call ends, or goes on outside the Codex source.
LEMMA OneCallGoesOn ==
    ASSUME TypeOK, Quiet, Signals, NEW o \in Calls, NEW r,
           call' = [call EXCEPT ![o] = r],
           \/ Quits(o, r)
           \/ /\ Outside(r, call[o].kind) /\ r.pc \notin Results
              /\ r.pc \in Commands \/ (call[o].pc = "http" /\ DOMAIN r.answers = DOMAIN call[o].answers),
           executorClosed /\ r.pc \in Commands => r.signal # "none",
           executorClosed' = executorClosed
    PROVE  CallsGoOn /\ (\A p \in Calls : Stays(p)) /\ Signals'
<1>1. call'[o] = r /\ \A p \in Calls \ {o} : call'[p] = call[p]
  BY DEF TypeOK
<1>2. GoesOn(o) /\ Stays(o)
  <2>1. CASE Quits(o, r)
    BY <1>1, <2>1, QuitCall
  <2>2. CASE /\ Outside(r, call[o].kind) /\ r.pc \notin Results
             /\ r.pc \in Commands \/ (call[o].pc = "http" /\ DOMAIN r.answers = DOMAIN call[o].answers)
    BY <1>1, <2>2, PlacesDiffer DEF Outside, GoesOn, Stays
  <2> QED BY <2>1, <2>2
<1>3. \A p \in Calls : GoesOn(p) /\ Stays(p)
  BY <1>1, <1>2, KeptCall
<1>4. call' \in [Calls -> CallRecord]
  BY <1>1, <1>2 DEF TypeOK, GoesOn
<1>5. Signals'
  BY <1>1 DEF Signals
<1> QED BY <1>3, <1>4, <1>5 DEF CallsGoOn

GeminiStepKeeps ==
    CallsGoOn /\ (\A p \in Calls : Stays(p)) /\ Signals' /\ GeminiTypes'

LEMMA VersionEndsStep ==
    ASSUME TypeOK, Quiet, Signals, NEW o \in Calls, NEW answer \in {"none", "old", "supported"},
           VersionEnds(o, answer)
    PROVE  GeminiStepKeeps /\ probedQuota' \in {probedQuota, "none"}
<1>1. /\ version' \in {"none", "old", "supported"} /\ executorClosed' = executorClosed
      /\ probedQuota' \in {probedQuota, "none"}
      /\ call[o].kind \in Kinds /\ executorClosed \in BOOLEAN
  BY DEF VersionEnds, TypeOK, CallRecord, Kinds
<1>2. /\ "quota" \in Commands /\ "probe" \in Kinds /\ {"failed", "partial"} \subseteq Results
      /\ Commands \cap Results = {}
  BY DEF Commands, Kinds, Results
<1>3. \/ \E res \in {"failed", "partial"} : call' = [call EXCEPT ![o] = Ended(o, res)]
      \/ ~executorClosed /\ call[o].kind = "collect" /\ call' = [call EXCEPT ![o] = Collecting]
      \/ ~executorClosed /\ call[o].kind = "probe" /\ call' = [call EXCEPT ![o] = Calling("probe", "quota")]
  BY <1>1 DEF VersionEnds, Kinds
<1>4. CASE \E res \in {"failed", "partial"} : call' = [call EXCEPT ![o] = Ended(o, res)]
  <2>1. PICK res \in Results : call' = [call EXCEPT ![o] = Ended(o, res)]
    BY <1>2, <1>4
  <2>2. Quits(o, Ended(o, res)) /\ Ended(o, res).pc \notin Commands
    BY ResultEnds, PlacesDiffer DEF Quits
  <2>3. CallsGoOn /\ (\A p \in Calls : Stays(p)) /\ Signals'
    BY <1>1, <2>1, <2>2, OneCallGoesOn
  <2> QED BY <1>1, <2>3 DEF GeminiStepKeeps, GeminiTypes, TypeOK
<1>5. CASE ~executorClosed /\ call[o].kind = "collect" /\ call' = [call EXCEPT ![o] = Collecting]
  <2>1. Outside(Collecting, call[o].kind) /\ Collecting.pc \notin Results /\ Collecting.pc \in Commands
    BY <1>2, <1>5, CollectingCall
  <2>2. CallsGoOn /\ (\A p \in Calls : Stays(p)) /\ Signals'
    BY <1>1, <1>5, <2>1, OneCallGoesOn
  <2> QED BY <1>1, <2>2 DEF GeminiStepKeeps, GeminiTypes, TypeOK
<1>6. CASE ~executorClosed /\ call[o].kind = "probe" /\ call' = [call EXCEPT ![o] = Calling("probe", "quota")]
  <2>1. /\ Outside(Calling("probe", "quota"), call[o].kind) /\ Calling("probe", "quota").pc \notin Results
        /\ Calling("probe", "quota").pc \in Commands
    BY <1>2, <1>6, CommandCall
  <2>2. CallsGoOn /\ (\A p \in Calls : Stays(p)) /\ Signals'
    BY <1>1, <1>6, <2>1, OneCallGoesOn
  <2> QED BY <1>1, <2>2 DEF GeminiStepKeeps, GeminiTypes, TypeOK
<1> QED BY <1>1, <1>3, <1>4, <1>5, <1>6

\* A fresh quota is read by the probe the coordinator awaits, which ends with it.
LEMMA QuotaEndsStep ==
    ASSUME TypeOK, Quiet, Signals, Awaited, NEW o \in Calls, NEW good \in BOOLEAN, QuotaEnds(o, good)
    PROVE  /\ GeminiStepKeeps
           /\ \/ probedQuota' \in {probedQuota, "left"}
              \/ refresh.pc = "probe" /\ refresh.call = o /\ call'[o].pc \in Results
<1>1. /\ UNCHANGED <<version, executorClosed>> /\ call[o].pc = "quota"
      /\ call[o].kind \in Kinds /\ executorClosed \in BOOLEAN
  BY DEF QuotaEnds, TypeOK, CallRecord, Kinds
<1>2. probedQuota' \in {"none", "fresh", "left"}
  BY DEF QuotaEnds, TypeOK
<1>3. /\ "credits" \in Commands /\ {"ok", "failed", "partial"} \subseteq Results
      /\ Commands \cap Results = {} /\ "quota" \notin Results /\ {"read", "none"} \subseteq QuotaNames
  BY DEF Commands, Results, QuotaNames
<1>4. \/ \E res \in {"ok", "failed", "partial"} : call' = [call EXCEPT ![o] = Ended(o, res)]
      \/ \E q \in {"read", "none"} : ~executorClosed /\ call[o].kind = "collect" /\ call' = [call EXCEPT ![o] = AskCredits(q)]
  BY <1>1 DEF QuotaEnds, Kinds
<1>5. CallsGoOn /\ (\A p \in Calls : Stays(p)) /\ Signals'
  <2>1. CASE \E res \in {"ok", "failed", "partial"} : call' = [call EXCEPT ![o] = Ended(o, res)]
    <3>1. PICK res \in Results : call' = [call EXCEPT ![o] = Ended(o, res)]
      BY <1>3, <2>1
    <3>2. Quits(o, Ended(o, res)) /\ Ended(o, res).pc \notin Commands
      BY ResultEnds, PlacesDiffer DEF Quits
    <3> QED BY <1>1, <3>1, <3>2, OneCallGoesOn
  <2>2. CASE \E q \in {"read", "none"} :
               ~executorClosed /\ call[o].kind = "collect" /\ call' = [call EXCEPT ![o] = AskCredits(q)]
    <3>1. PICK q \in QuotaNames :
            ~executorClosed /\ call[o].kind = "collect" /\ call' = [call EXCEPT ![o] = AskCredits(q)]
      BY <1>3, <2>2
    <3>2. Outside(AskCredits(q), call[o].kind) /\ AskCredits(q).pc \notin Results /\ AskCredits(q).pc \in Commands
      BY <1>3, <3>1, CreditsCall
    <3> QED BY <1>1, <3>1, <3>2, OneCallGoesOn
  <2> QED BY <1>4, <2>1, <2>2
<1>6. \/ probedQuota' \in {probedQuota, "left"}
      \/ refresh.pc = "probe" /\ refresh.call = o /\ call'[o].pc \in Results
  <2>1. CASE call[o].kind = "probe" /\ good /\ o = refresh.call
    <3>1. call' = [call EXCEPT ![o] = Ended(o, "ok")]
      BY <2>1 DEF QuotaEnds
    <3>2. call'[o] = Ended(o, "ok")
      BY <3>1 DEF TypeOK
    <3>3. call'[o].pc \in Results
      BY <1>3, <2>1, <3>2, ResultEnds DEF Quits
    <3>4. refresh.pc \in {"idle", "probe", "collect", "persist"}
      BY DEF TypeOK
    <3>5. refresh.pc \in Kinds
      BY <2>1, <3>4, CallsAssumption DEF Awaited, Kinds
    <3>6. call[refresh.call].kind = refresh.pc
      BY <1>1, <1>3, <2>1, <3>5 DEF Awaited
    <3> QED BY <2>1, <3>3, <3>6
  <2>2. CASE ~(call[o].kind = "probe" /\ good /\ o = refresh.call)
    BY <2>2 DEF QuotaEnds
  <2> QED BY <2>1, <2>2
<1> QED BY <1>1, <1>2, <1>5, <1>6 DEF GeminiStepKeeps, GeminiTypes, TypeOK

LEMMA CreditsEndStep ==
    ASSUME TypeOK, Quiet, Signals, NEW o \in Calls, NEW good \in BOOLEAN, NEW valid \in BOOLEAN,
           CreditsEnd(o, good, valid)
    PROVE  GeminiStepKeeps /\ probedQuota' = probedQuota
<1>1. UNCHANGED <<version, probedQuota, executorClosed>>
  BY DEF CreditsEnd, geminiVars
<1>2. PICK res : res = (IF valid THEN Collection(call[o].quota, good) ELSE "failed")
  OBVIOUS
<1>3. call' = [call EXCEPT ![o] = Ended(o, res)]
  BY <1>2 DEF CreditsEnd, TypeOK
<1>4. res \in Results
  BY <1>2 DEF Collection, Results
<1>5. Quits(o, Ended(o, res)) /\ Ended(o, res).pc \notin Commands
  BY <1>4, ResultEnds, PlacesDiffer DEF Quits
<1>6. CallsGoOn /\ (\A p \in Calls : Stays(p)) /\ Signals'
  BY <1>1, <1>3, <1>5, OneCallGoesOn
<1> QED BY <1>1, <1>6 DEF GeminiStepKeeps, GeminiTypes, TypeOK

\* A process is sent a signal.
LEMMA SignalStep ==
    ASSUME TypeOK, Quiet, Signals, NEW o \in Calls, CutShort(o) \/ Escalate(o)
    PROVE  GeminiStepKeeps /\ probedQuota' = probedQuota
<1>1. UNCHANGED <<version, probedQuota, executorClosed>> /\ call[o] \in CallRecord /\ call[o].pc \in Commands
  BY DEF CutShort, Escalate, Running, geminiVars, TypeOK, Commands
<1>2. PICK r : /\ call' = [call EXCEPT ![o] = r]
               /\ Like(r, call[o]) /\ r.pc = call[o].pc /\ r.signal # "none"
  <2>1. CASE CutShort(o)
    <3>0. PICK why \in Cuts : call' = [call EXCEPT ![o] = [Signalled(@) EXCEPT !.cut = why]]
      BY <2>1 DEF CutShort, Cuts
    <3> DEFINE r == [Signalled(call[o]) EXCEPT !.cut = why]
    <3>1. call' = [call EXCEPT ![o] = r]
      BY <3>0 DEF TypeOK
    <3>2. Like(r, call[o]) /\ r.pc = call[o].pc /\ r.signal # "none"
      BY <1>1, CallMoves
    <3> QED BY <3>1, <3>2
  <2>2. CASE Escalate(o)
    <3> DEFINE r == [call[o] EXCEPT !.signal = "kill"]
    <3>1. call' = [call EXCEPT ![o] = r]
      BY <2>2 DEF Escalate, TypeOK
    <3>2. "kill" \in SignalNames
      BY DEF SignalNames
    <3>3. Like(r, call[o]) /\ r.pc = call[o].pc /\ r.signal = "kill"
      BY <1>1, <3>2, CallMoves
    <3> QED BY <3>1, <3>3
  <2> QED BY <2>1, <2>2
<1>3. Outside(r, call[o].kind) /\ r.pc \notin Results /\ r.pc \in Commands
  BY <1>1, <1>2, PlacesDiffer DEF Outside, Like
<1>4. CallsGoOn /\ (\A p \in Calls : Stays(p)) /\ Signals'
  BY <1>1, <1>2, <1>3, OneCallGoesOn
<1> QED BY <1>1, <1>4 DEF GeminiStepKeeps, GeminiTypes, TypeOK

LEMMA GeminiSteps ==
    ASSUME TypeOK, Signals, Awaited, QuotaInv, GeminiStep
    PROVE  GeminiStepKeeps /\ QuotaInv'
<1>1. Quiet /\ provider = "gemini" /\ UNCHANGED <<refresh, provider>>
  BY DEF GeminiStep, Runtime
<1>2. PICK o \in Calls : Answered(o) \/ Unanswered(o) \/ CutShort(o) \/ Escalate(o)
  BY DEF GeminiStep
<1>3. probedQuota # "fresh"
  BY <1>1 DEF Quiet, Settled, QuotaInv
<1>4. /\ \/ \E answer \in {"none", "old", "supported"} : VersionEnds(o, answer)
         \/ \E good \in BOOLEAN : QuotaEnds(o, good)
         \/ \E good, valid \in BOOLEAN : CreditsEnd(o, good, valid)
         \/ CutShort(o) \/ Escalate(o)
  BY <1>2 DEF Answered, Unanswered
<1>5. /\ GeminiStepKeeps
      /\ \/ probedQuota' \in {probedQuota, "none", "left"}
         \/ refresh.pc = "probe" /\ refresh.call = o /\ call'[o].pc \in Results
  <2>1. CASE \E answer \in {"none", "old", "supported"} : VersionEnds(o, answer)
    BY <1>1, <2>1, VersionEndsStep
  <2>2. CASE \E good \in BOOLEAN : QuotaEnds(o, good)
    BY <1>1, <2>2, QuotaEndsStep
  <2>3. CASE \E good, valid \in BOOLEAN : CreditsEnd(o, good, valid)
    BY <1>1, <2>3, CreditsEndStep
  <2>4. CASE CutShort(o) \/ Escalate(o)
    BY <1>1, <2>4, SignalStep
  <2> QED BY <1>4, <2>1, <2>2, <2>3, <2>4
<1> QED BY <1>1, <1>3, <1>5 DEF QuotaInv

LEMMA GeminiCloseKeeps ==
    ASSUME TypeOK, Quiet, GeminiClose
    PROVE  GeminiStepKeeps /\ probedQuota' = "none"
<1>1. /\ UNCHANGED version /\ executorClosed' = TRUE /\ probedQuota' = "none"
      /\ call' = [o \in Calls |-> IF o \in Running THEN Signalled(call[o]) ELSE call[o]]
  BY DEF GeminiClose
<1>2. ASSUME NEW o \in Calls
      PROVE  GoesOn(o) /\ Stays(o) /\ (call'[o].pc \in Commands => call'[o].signal # "none")
  <2>1. CASE o \in Running
    <3>1. call[o] \in CallRecord /\ call[o].pc \in Commands
      BY <2>1 DEF Running, Commands, TypeOK
    <3>2. Like(Signalled(call[o]), call[o]) /\ Signalled(call[o]).pc = call[o].pc /\ Signalled(call[o]).signal # "none"
      BY <3>1, CallMoves
    <3>3. call'[o] = Signalled(call[o])
      BY <1>1, <2>1
    <3> QED BY <3>1, <3>2, <3>3, PlacesDiffer DEF GoesOn, Stays, Like
  <2>2. CASE o \notin Running
    <3>1. call'[o] = call[o] /\ call[o].pc \notin Commands
      BY <1>1, <2>2 DEF Running, Commands
    <3> QED BY <3>1, KeptCall
  <2> QED BY <2>1, <2>2
<1>3. call' \in [Calls -> CallRecord]
  <2>1. call' = [o \in Calls |-> call'[o]]
    BY <1>1
  <2> QED BY <1>2, <2>1 DEF GoesOn
<1> QED BY <1>1, <1>2, <1>3 DEF GeminiStepKeeps, CallsGoOn, Signals, GeminiTypes, TypeOK

-----------------------------------------------------------------------------
(* The providers reached by HTTP. *)

LEMMA AnsweringCall ==
    ASSUME NEW r \in CallRecord, r.pc = "http", NEW a \in Answers
    PROVE  LET s == [r EXCEPT !.answers = a]
           IN  Outside(s, r.kind) /\ s.pc = "http" /\ s.kind = r.kind /\ s.answers = a
<1> DEFINE s == [r EXCEPT !.answers = a]
<1>1. r \in Fields
  BY CallsHaveFields
<1>2. s \in Fields /\ s.pc = "http" /\ s.kind = r.kind /\ s.answers = a
  BY <1>1 DEF Fields
<1> HIDE DEF s
<1>3. Outside(s, r.kind) /\ s.pc = "http" /\ s.kind = r.kind /\ s.answers = a
  BY <1>2, CallsHaveFields, PlacesDiffer DEF Outside
<1> QED BY <1>3 DEF s

LEMMA RequestsCall ==
    ASSUME NEW kind \in Kinds, NEW s \in AnswerSets
    PROVE  /\ Outside(Requests(kind, s), kind) /\ Requests(kind, s).pc = "http"
           /\ Requests(kind, s).kind = kind /\ DOMAIN Requests(kind, s).answers = s
<1>1. [e \in s |-> "pending"] \in Answers
  BY DEF Answers
<1>2. Waits(Calling(kind, "http"), kind, "http", None, 0)
  BY CallingWaits, PlacesDiffer
<1> QED BY <1>1, <1>2, AnsweringCall DEF Requests, Waits

LEMMA AssemblesReturns ==
    ASSUME NEW o, NEW answers, Assembles(o, answers)
    PROVE  \E res \in {"ok", "failed"} : call' = [call EXCEPT ![o] = Result(res)]
<1>1. PICK reads : Returns(o, reads)
  BY DEF Assembles
<1>2. Outcome(reads) \in {"ok", "failed"}
  BY DEF Outcome
<1> QED BY <1>1, <1>2 DEF Returns

\* What a call does that is made by HTTP.
HttpCallKeeps(o, kind) ==
    /\ CallMadeIn(o, kind) /\ call'[o].pc \notin CodexPlaces \cup Commands
    /\ keys' = keys
    /\ kind = "probe" => collected' = collected

HttpCall(r, kind) == Outside(r, kind) /\ r.pc \in Results \cup {"http"} /\ AsksAll(r)

LEMMA EndedHttpCall ==
    ASSUME NEW res \in Results, NEW kind
    PROVE  HttpCall(Result(res), kind)
BY ResultCall, AsksNothing DEF HttpCall

LEMMA RequestingHttpCall ==
    ASSUME NEW kind \in Kinds, NEW s \in AnswerSets, provider \in {"openrouter", "deepseek"},
           kind = "collect" => s = Endpoints
    PROVE  HttpCall(Requests(kind, s), kind)
<1> DEFINE r == Requests(kind, s)
<1>1. Outside(r, kind) /\ r.pc = "http" /\ r.kind = kind /\ DOMAIN r.answers = s
  BY RequestsCall
<1> HIDE DEF r
<1>2. AsksAll(r)
  BY <1>1 DEF AsksAll
<1>3. HttpCall(r, kind)
  BY <1>1, <1>2 DEF HttpCall
<1> QED BY <1>3 DEF r

LEMMA OneHttpCall ==
    ASSUME TypeOK, NEW o \in Calls, NEW kind \in Kinds, NEW r, call' = [call EXCEPT ![o] = r], HttpCall(r, kind)
    PROVE  CallMadeIn(o, kind) /\ call'[o].pc \notin CodexPlaces \cup Commands
<1>1. Outside(r, kind) /\ r.pc \in Results \cup {"http"} /\ AsksAll(r) /\ r \in CallRecord
  BY DEF HttpCall, Outside
<1>2. r.pc \notin Commands
  BY <1>1, PlacesDiffer
<1>3. call'[o] = r /\ \A p \in Calls \ {o} : call'[p] = call[p]
  BY DEF TypeOK
<1>4. call' \in [Calls -> CallRecord]
  BY <1>1 DEF TypeOK
<1> QED BY <1>1, <1>2, <1>3, <1>4 DEF CallMadeIn, Outside

LEMMA OpenRouterCallKeeps ==
    ASSUME TypeOK, NEW o \in Calls, NEW kind \in Kinds, provider = "openrouter", OpenRouterCall(o, kind)
    PROVE  HttpCallKeeps(o, kind)
<1>1. UNCHANGED <<keys, collected>>
  BY DEF OpenRouterCall, httpVars
<1>2. PICK r : call' = [call EXCEPT ![o] = r] /\ HttpCall(r, kind)
  <2>1. CASE "api" \notin keys
    <3>1. call' = [call EXCEPT ![o] = Result("failed")]
      BY <2>1 DEF OpenRouterCall
    <3> QED BY <3>1, EndedHttpCall DEF Results
  <2>2. CASE "api" \in keys
    <3> DEFINE s == {"key"} \cup (IF kind = "collect" /\ "management" \in keys THEN {"credits"} ELSE {})
    <3>1. call' = [call EXCEPT ![o] = Requests(kind, s)]
      BY <2>2 DEF OpenRouterCall
    <3>2. s \in AnswerSets /\ (kind = "collect" => s = Endpoints)
      <4>1. CASE kind = "collect" /\ "management" \in keys
        <5>1. s = {"key", "credits"}
          BY <4>1
        <5> QED BY <4>1, <5>1 DEF AnswerSets, Endpoints
      <4>2. CASE ~(kind = "collect" /\ "management" \in keys)
        <5>1. s = {"key"}
          BY <4>2
        <5> QED BY <4>2, <5>1 DEF AnswerSets, Endpoints
      <4> QED BY <4>1, <4>2
    <3> HIDE DEF s
    <3> QED BY <3>1, <3>2, RequestingHttpCall
  <2> QED BY <2>1, <2>2
<1>3. CallMadeIn(o, kind) /\ call'[o].pc \notin CodexPlaces \cup Commands
  BY <1>2, OneHttpCall
<1> QED BY <1>1, <1>3 DEF HttpCallKeeps

LEMMA DeepSeekCallKeeps ==
    ASSUME TypeOK, NEW o \in Calls, NEW kind \in Kinds, provider = "deepseek", DeepSeekCall(o, kind)
    PROVE  HttpCallKeeps(o, kind)
<1>1. keys' = keys /\ (kind = "probe" => collected' = collected)
  BY DEF DeepSeekCall
<1>2. PICK r : call' = [call EXCEPT ![o] = r] /\ HttpCall(r, kind)
  <2>1. CASE \E answers : Assembles(o, answers)
    BY <2>1, AssemblesReturns, EndedHttpCall DEF Results
  <2>2. CASE call' = [call EXCEPT ![o] = Requests(kind, {"balance"})]
    <3>1. {"balance"} \in AnswerSets /\ {"balance"} = Endpoints
      BY DEF AnswerSets, Endpoints
    <3> QED BY <2>2, <3>1, RequestingHttpCall
  <2>3. CASE call' = [call EXCEPT ![o] = Result("failed")]
    BY <2>3, EndedHttpCall DEF Results
  <2> QED BY <2>1, <2>2, <2>3 DEF DeepSeekCall
<1>3. CallMadeIn(o, kind) /\ call'[o].pc \notin CodexPlaces \cup Commands
  BY <1>2, OneHttpCall
<1> QED BY <1>1, <1>3 DEF HttpCallKeeps

LEMMA HttpSteps ==
    ASSUME TypeOK, Signals, Awaited, HttpStep
    PROVE  /\ CallsGoOn /\ (\A p \in Calls : Stays(p)) /\ Signals'
           /\ keys' = keys
           /\ collected' = collected \/ refresh.pc = "collect"
<1>1. Quiet /\ executorClosed' = executorClosed
  BY DEF HttpStep, geminiVars
<1>2. PICK o \in Calls : \E e \in DOMAIN call[o].answers : \E good \in BOOLEAN : Responds(o, e, good)
  BY DEF HttpStep
<1>3. PICK e \in DOMAIN call[o].answers, good \in BOOLEAN : Responds(o, e, good)
  BY <1>2
<1> DEFINE a == [call[o].answers EXCEPT ![e] = IF good THEN "good" ELSE "bad"]
<1>4. /\ call[o].pc = "http" /\ keys' = keys
      /\ call[o] \in CallRecord /\ call[o].answers \in Answers /\ call[o].kind \in Kinds
  <2>1. call[o] \in Fields
    BY CallsHaveFields DEF TypeOK
  <2> QED BY <1>3, <2>1, CallsHaveFields DEF Responds, Fields
<1>5. a \in Answers
  <2>1. CASE call[o].answers = <<>>
    BY <1>4, <2>1
  <2>2. CASE \E s \in AnswerSets : call[o].answers \in [s -> {"pending", "good", "bad"}]
    <3>1. PICK s \in AnswerSets : call[o].answers \in [s -> {"pending", "good", "bad"}]
      BY <2>2
    <3>2. a \in [s -> {"pending", "good", "bad"}]
      BY <3>1
    <3> QED BY <3>2 DEF Answers
  <2> QED BY <1>4, <2>1, <2>2 DEF Answers
<1>6. \/ call' = [call EXCEPT ![o] = [@ EXCEPT !.answers = a]] /\ UNCHANGED collected
      \/ /\ \E res \in {"ok", "failed"} : call' = [call EXCEPT ![o] = Ended(o, res)]
         /\ UNCHANGED collected
      \/ /\ call[o].kind # "probe" /\ o = refresh.call
         /\ Assembles(o, a)
  BY <1>3 DEF Responds
<1>7. DOMAIN a = DOMAIN call[o].answers
  OBVIOUS
<1> HIDE DEF a
<1>8. Results \cap (Commands \cup {"http"}) = {} /\ "http" \notin Commands /\ {"ok", "failed"} \subseteq Results
  BY PlacesDiffer
<1>9. CASE call' = [call EXCEPT ![o] = [@ EXCEPT !.answers = a]] /\ UNCHANGED collected
  <2> DEFINE r == [call[o] EXCEPT !.answers = a]
  <2>1. Outside(r, call[o].kind) /\ r.pc = "http" /\ DOMAIN r.answers = DOMAIN call[o].answers
    BY <1>4, <1>5, <1>7, AnsweringCall
  <2>2. call' = [call EXCEPT ![o] = r]
    BY <1>9 DEF TypeOK
  <2> HIDE DEF r
  <2>3. CallsGoOn /\ (\A p \in Calls : Stays(p)) /\ Signals'
    BY <1>1, <1>4, <1>8, <2>1, <2>2, OneCallGoesOn
  <2> QED BY <1>4, <1>9, <2>3
<1>10. CASE /\ \E res \in {"ok", "failed"} : call' = [call EXCEPT ![o] = Ended(o, res)]
           /\ UNCHANGED collected
  <2>1. PICK res \in Results : call' = [call EXCEPT ![o] = Ended(o, res)]
    BY <1>8, <1>10
  <2>2. Quits(o, Ended(o, res)) /\ Ended(o, res).pc \notin Commands
    BY ResultEnds, PlacesDiffer DEF Quits
  <2>3. CallsGoOn /\ (\A p \in Calls : Stays(p)) /\ Signals'
    BY <1>1, <2>1, <2>2, OneCallGoesOn
  <2> QED BY <1>4, <1>10, <2>3
<1>11. CASE call[o].kind # "probe" /\ o = refresh.call /\ Assembles(o, a)
  <2>1. PICK res \in Results : call' = [call EXCEPT ![o] = Result(res)]
    BY <1>8, <1>11, AssemblesReturns
  <2>2. Quits(o, Result(res)) /\ Result(res).pc \notin Commands
    BY <1>8, <1>11, ResultEnds DEF Quits
  <2>3. CallsGoOn /\ (\A p \in Calls : Stays(p)) /\ Signals'
    BY <1>1, <2>1, <2>2, OneCallGoesOn
  <2>4. refresh.pc \in {"idle", "probe", "collect", "persist"}
    BY DEF TypeOK
  <2>5. refresh.pc \in Kinds
    BY <1>11, <2>4, CallsAssumption DEF Awaited, Kinds
  <2>6. call[o].kind = refresh.pc
    BY <1>4, <1>8, <1>11, <2>5 DEF Awaited
  <2> QED BY <1>4, <1>11, <2>3, <2>5, <2>6 DEF Kinds
<1> QED BY <1>6, <1>9, <1>10, <1>11

-----------------------------------------------------------------------------
(* The coordinator. *)

RuntimeTypes ==
    /\ refresh \in [pc : {"idle", "probe", "collect", "persist"}, call : MaybeCalls]
    /\ keys \subseteq {"api", "management"}
    /\ collected # None => refresh.pc \in {"collect", "persist"}
    /\ phase \in {"new", "initial", "scheduled", "stopping", "closing", "closed"}
    /\ health \in [probe : BOOLEAN, collection : BOOLEAN, last : {"none", "probe", "collection"}]

LEMMA TypesSplit ==
    ASSUME TypeOK
    PROVE  SourceTypes /\ GeminiTypes /\ RuntimeTypes
BY DEF TypeOK, SourceTypes, GeminiTypes, RuntimeTypes, MaybeCalls

LEMMA TypesKept ==
    ASSUME call' \in [Calls -> CallRecord], SourceTypes', GeminiTypes', RuntimeTypes'
    PROVE  TypeOK'
BY DEF TypeOK, SourceTypes, GeminiTypes, RuntimeTypes, MaybeCalls

LEMMA MadeCallAsks ==
    ASSUME HttpCalls, NEW o \in Calls, NEW kind, CallMadeIn(o, kind), UNCHANGED <<provider, keys>>
    PROVE  HttpCalls'
BY DEF HttpCalls, CallMadeIn, AsksAll, Endpoints

LEMMA KeptCallsAsk ==
    ASSUME HttpCalls, UNCHANGED <<provider, keys>>,
           \A o \in Calls : call'[o].pc = "http" =>
             call[o].pc = "http" /\ call'[o].kind = call[o].kind /\ DOMAIN call'[o].answers = DOMAIN call[o].answers
    PROVE  HttpCalls'
BY DEF HttpCalls, AsksAll, Endpoints

LEMMA AwaitedCall ==
    ASSUME TypeOK, Awaited
    PROVE  /\ refresh.pc \in Kinds => refresh.call \in Calls
           /\ refresh.pc \in {"idle", "probe", "collect", "persist"}
BY DEF TypeOK, Awaited, Kinds

\* A call of the adapter, made in slot o.
AdapterCalled(o, kind) ==
    /\ Core' /\ SourceTypes' /\ life' = life
    /\ CallMadeIn(o, kind)
    /\ Signals' /\ GeminiTypes'
    /\ keys' = keys
    /\ kind = "probe" => collected' = collected /\ probedQuota' = probedQuota
    /\ kind = "collect" => probedQuota' # "fresh"

LEMMA CallKeeps ==
    ASSUME TypeOK, Core, Signals, QuotaInv, NEW o \in Calls, NEW kind \in Kinds, MayCall(o), Call(o, kind)
    PROVE  AdapterCalled(o, kind)
<1>1. kind \in {"probe", "collect"} /\ SourceTypes /\ GeminiTypes /\ keys \subseteq {"api", "management"}
  BY TypesSplit DEF Kinds, RuntimeTypes
<1>2. CASE provider = "codex" /\ CodexCall(o, kind) /\ UNCHANGED <<geminiVars, httpVars>>
  <2>1. Core' /\ CallMadeIn(o, kind) /\ NoCommand(o) /\ SourceTypes' /\ life' = life
    BY <1>2, CodexCallKeepsCore
  <2>2. \A p \in Calls : NoCommand(p)
    BY <2>1, OthersStay DEF CallMadeIn
  <2>3. UNCHANGED <<version, probedQuota, executorClosed, keys, collected>> /\ probedQuota # "fresh"
    BY <1>2 DEF geminiVars, httpVars, QuotaInv
  <2>4. Signals'
    BY <2>2, <2>3 DEF Signals, NoCommand
  <2>5. GeminiTypes'
    BY <1>1, <2>3 DEF GeminiTypes
  <2> QED BY <1>1, <2>1, <2>3, <2>4, <2>5 DEF AdapterCalled
<1>3. ASSUME UNCHANGED codexVars, CallMadeIn(o, kind), call'[o].pc \notin CodexPlaces
      PROVE  Core' /\ SourceTypes' /\ life' = life
  <2>1. \A p \in Calls : Stays(p)
    BY <1>3, OthersStay DEF CallMadeIn, Stays
  <2>2. Core'
    BY <1>3, <2>1, LeavingKeepsCore
  <2> QED BY <1>1, <1>3, <2>2 DEF SourceTypes, codexVars, sourceVars
<1>4. CASE provider = "gemini" /\ GeminiCall(o, kind) /\ UNCHANGED <<codexVars, httpVars>>
  <2>1. /\ CallMadeIn(o, kind) /\ call'[o].pc \notin CodexPlaces /\ Signals' /\ GeminiTypes'
        /\ IF kind = "collect" THEN probedQuota' # "fresh" ELSE probedQuota' = probedQuota
    BY <1>4, GeminiCallKeeps
  <2>2. UNCHANGED <<keys, collected>>
    BY <1>4 DEF httpVars
  <2> QED BY <1>1, <1>3, <1>4, <2>1, <2>2 DEF AdapterCalled
<1>5. CASE /\ provider # "gemini" /\ HttpCallKeeps(o, kind)
           /\ UNCHANGED <<codexVars, geminiVars>>
  <2>1. /\ CallMadeIn(o, kind) /\ call'[o].pc \notin CodexPlaces /\ call'[o].pc \notin Commands
        /\ keys' = keys /\ (kind = "probe" => collected' = collected)
        /\ UNCHANGED <<version, probedQuota, executorClosed>> /\ probedQuota # "fresh"
    BY <1>5 DEF HttpCallKeeps, geminiVars, QuotaInv
  <2>2. Signals'
    BY <2>1 DEF Signals, CallMadeIn
  <2>3. GeminiTypes'
    BY <1>1, <2>1 DEF GeminiTypes
  <2> QED BY <1>1, <1>3, <1>5, <2>1, <2>2, <2>3 DEF AdapterCalled
<1> QED BY <1>2, <1>4, <1>5, OpenRouterCallKeeps, DeepSeekCallKeeps DEF Call

LEMMA BeginRefreshKeeps ==
    ASSUME IInv, BeginRefresh, phase \in {"new", "scheduled"}, phase' \in {"initial", "scheduled"}
    PROVE  IInv'
<1>1. /\ TypeOK /\ Core /\ Signals /\ QuotaInv /\ Awaited /\ HealthInv /\ AfterClose
      /\ refresh.pc = "idle" /\ Quiet /\ UNCHANGED <<provider, health>>
  BY DEF IInv, SourceInv, Core, BeginRefresh, Resting
<1>2. PICK o \in FreeSlots : Call(o, "probe") /\ Await("probe", o)
  BY DEF BeginRefresh
<1>3. o \in Calls /\ call[o].pc = "free" /\ refresh' = [pc |-> "probe", call |-> o]
  BY <1>2 DEF FreeSlots, Await
<1>4. life = 0
  BY <1>1 DEF AfterClose, TypeOK
<1>5. MayCall(o)
  BY <1>3, <1>4, PlacesDiffer DEF MayCall
<1>6. AdapterCalled(o, "probe")
  BY <1>1, <1>2, <1>3, <1>5, CallKeeps DEF Kinds
<1>7. RuntimeTypes'
  <2>1. RuntimeTypes
    BY <1>1, TypesSplit
  <2> QED BY <1>1, <1>3, <1>6, <2>1 DEF RuntimeTypes, MaybeCalls, AdapterCalled
<1>8. TypeOK'
  BY <1>6, <1>7, TypesKept DEF AdapterCalled, CallMadeIn
<1>9. AfterClose'
  BY <1>4, <1>6 DEF AfterClose, AdapterCalled
<1>10. Awaited'
  <2>1. \A p \in Calls : call[p].pc \notin Results
    BY <1>1 DEF Quiet, Settled
  <2>2. o # None
    BY <1>3, CallsAssumption
  <2> QED BY <1>3, <1>6, <2>1, <2>2 DEF Awaited, AdapterCalled, CallMadeIn
<1>11. HealthInv'
  BY <1>1, <1>3 DEF HealthInv
<1>12. QuotaInv'
  BY <1>1, <1>6 DEF QuotaInv, AdapterCalled
<1>13. HttpCalls'
  BY <1>1, <1>3, <1>6, MadeCallAsks DEF AdapterCalled, IInv
<1> QED BY <1>6, <1>8, <1>9, <1>10, <1>11, <1>12, <1>13 DEF IInv, SourceInv, Core, AdapterCalled

\* The collection is called in a slot where nobody waits, and no other call is seen settled.
LEMMA ProbedKeeps ==
    ASSUME IInv, refresh.pc = "probe", NEW ok \in BOOLEAN, NEW o \in Calls, Probed(ok, o),
           call[o].pc \in Results \cup {"free"}, \A p \in Calls \ {o} : call[p].pc \notin Results
    PROVE  IInv'
<1>1. /\ TypeOK /\ Core /\ Signals /\ QuotaInv /\ Awaited /\ HealthInv /\ AfterClose
      /\ Call(o, "collect") /\ UNCHANGED <<provider, phase>>
      /\ refresh' = [pc |-> "collect", call |-> o]
      /\ health' = [health EXCEPT !.probe = ~ok, !.last = IF ok THEN "none" ELSE "probe"]
  BY DEF IInv, SourceInv, Core, Probed, Await
<1>2. MayCall(o)
  BY <1>1, PlacesDiffer DEF AfterClose, MayCall
<1>3. AdapterCalled(o, "collect")
  BY <1>1, <1>2, CallKeeps DEF Kinds
<1>4. /\ health' \in [probe : BOOLEAN, collection : BOOLEAN, last : {"none", "probe", "collection"}]
      /\ health'.probe = ~ok /\ health'.last = IF ok THEN "none" ELSE "probe"
  BY <1>1 DEF TypeOK
<1>5. RuntimeTypes'
  <2>1. RuntimeTypes
    BY <1>1, TypesSplit
  <2> QED BY <1>1, <1>3, <1>4, <2>1 DEF RuntimeTypes, MaybeCalls, AdapterCalled
<1>6. TypeOK'
  BY <1>3, <1>5, TypesKept DEF AdapterCalled, CallMadeIn
<1>7. AfterClose'
  BY <1>1, <1>3 DEF AfterClose, AdapterCalled
<1>8. Awaited'
  <2>1. o # None
    BY CallsAssumption
  <2> QED BY <1>1, <1>3, <2>1 DEF Awaited, AdapterCalled, CallMadeIn
<1>9. HealthInv'
  BY <1>1, <1>4 DEF HealthInv
<1>10. QuotaInv'
  BY <1>3 DEF QuotaInv, AdapterCalled
<1>11. HttpCalls'
  BY <1>1, <1>3, MadeCallAsks DEF AdapterCalled, IInv
<1> QED BY <1>3, <1>6, <1>7, <1>8, <1>9, <1>10, <1>11 DEF IInv, SourceInv, Core, AdapterCalled

\* What the coordinator, or the runtime, leaves to the source.
LEMMA SourceRests ==
    ASSUME IInv, call' \in [Calls -> CallRecord], \A p \in Calls : Stays(p) /\ NoCommand(p),
           UNCHANGED <<codexVars, geminiVars>>
    PROVE  Core' /\ Signals' /\ SourceTypes' /\ GeminiTypes'
<1>1. Core /\ Signals /\ SourceTypes /\ GeminiTypes
  BY TypesSplit DEF IInv, SourceInv, Core
<1>2. Core'
  BY <1>1, LeavingKeepsCore
<1>3. Signals'
  BY <1>1 DEF Signals, NoCommand, geminiVars
<1> QED BY <1>1, <1>2, <1>3 DEF SourceTypes, GeminiTypes, codexVars, sourceVars, geminiVars

LEMMA CollectedKeeps ==
    ASSUME IInv, refresh.pc = "collect", NEW res \in Results, Collected(res),
           call' \in [Calls -> CallRecord],
           \A p \in Calls : Stays(p) /\ NoCommand(p) /\ call'[p].pc \notin Results,
           \A p \in Calls : call'[p].pc = "free" \/ call'[p] = call[p]
    PROVE  IInv'
<1>1. /\ TypeOK /\ QuotaInv /\ Awaited /\ HealthInv /\ AfterClose /\ RuntimeTypes
      /\ UNCHANGED <<provider, keys, codexVars, geminiVars>>
  BY TypesSplit DEF IInv, SourceInv, Collected
<1>2. \/ /\ res = "failed" /\ refresh' = [pc |-> "idle", call |-> None] /\ collected' = None
         /\ phase' = IF phase = "initial" THEN "scheduled" ELSE phase
      \/ /\ res # "failed" /\ refresh' = [pc |-> "persist", call |-> None]
         /\ UNCHANGED <<phase, collected>>
  BY DEF Collected, Rested, Resting, Await
<1>3. refresh'.pc \in {"idle", "persist"} /\ refresh'.call = None
  BY <1>2
<1>4. res \in {"ok", "partial", "failed"}
  BY DEF Results
<1>5. /\ health' \in [probe : BOOLEAN, collection : BOOLEAN, last : {"none", "probe", "collection"}]
      /\ health'.probe = health.probe /\ health'.collection = (res # "ok")
      /\ res = "failed" => health'.last = "collection"
      /\ res # "failed" /\ health.probe => health'.last = "probe"
      /\ res = "partial" /\ ~health.probe => health'.last = "collection"
      /\ res = "ok" /\ ~health.probe => health'.last = "none"
  <2>1. PICK l : /\ health' = [health EXCEPT !.collection = res # "ok", !.last = l]
                 /\ res = "failed" => l = "collection"
                 /\ res # "failed" /\ health.probe => l = "probe"
                 /\ res = "partial" /\ ~health.probe => l = "collection"
                 /\ res = "ok" /\ ~health.probe => l = "none"
    <3>1. CASE res = "failed"
      BY <3>1 DEF Collected
    <3>2. CASE res = "partial" /\ health.probe
      BY <3>2 DEF Collected
    <3>3. CASE res = "partial" /\ ~health.probe
      BY <3>3 DEF Collected
    <3>4. CASE res = "ok" /\ health.probe
      BY <3>4 DEF Collected
    <3>5. CASE res = "ok" /\ ~health.probe
      BY <3>5 DEF Collected
    <3> QED BY <1>4, <3>1, <3>2, <3>3, <3>4, <3>5
  <2>2. l \in {"none", "probe", "collection"}
    BY <1>4, <2>1
  <2> QED BY <1>1, <2>1, <2>2 DEF RuntimeTypes
<1>6. RuntimeTypes'
  BY <1>1, <1>2, <1>5 DEF RuntimeTypes, MaybeCalls
<1>7. Core' /\ Signals' /\ SourceTypes' /\ GeminiTypes'
  BY <1>1, SourceRests
<1>8. TypeOK'
  BY <1>6, <1>7, TypesKept
<1>9. AfterClose'
  BY <1>1, <1>2, <1>3 DEF AfterClose, codexVars, sourceVars
<1>10. Awaited'
  BY <1>3 DEF Awaited, Kinds
<1>11. HealthInv'
  BY <1>1, <1>4, <1>5 DEF HealthInv, RuntimeTypes
<1>12. QuotaInv'
  BY <1>1 DEF QuotaInv, geminiVars
<1>13. HttpCalls'
  BY <1>1, KeptCallsAsk DEF IInv
<1> QED BY <1>7, <1>8, <1>9, <1>10, <1>11, <1>12, <1>13 DEF IInv, SourceInv, Core

LEMMA SettlesKeeps ==
    ASSUME IInv, Settles
    PROVE  IInv'
<1> DEFINE o == refresh.call
<1>1. o \in Calls /\ call[o].pc \in Results
  BY DEF Settles, Settled
<1>2. TypeOK /\ \A p \in Calls \ {o} : call[p].pc \notin Results
  BY DEF IInv, Awaited
<1>3. CASE refresh.pc = "probe" /\ Probed(call[o].pc = "ok", o)
  BY <1>1, <1>2, <1>3, ProbedKeeps
<1>4. CASE /\ refresh.pc = "collect" /\ Collected(Parsed(call[o].pc))
           /\ call' = [call EXCEPT ![o] = Idle]
  <2>1. Parsed(call[o].pc) \in Results
    BY <1>1, PlacesDiffer DEF Parsed
  <2>2. Idle \in CallRecord /\ Idle.pc = "free"
    BY IdleCall, CallsHaveFields
  <2>3. /\ call' \in [Calls -> CallRecord] /\ call'[o].pc = "free"
        /\ \A p \in Calls \ {o} : call'[p] = call[p]
    BY <1>1, <1>2, <1>4, <2>2 DEF TypeOK
  <2>4. \A p \in Calls : Stays(p) /\ NoCommand(p) /\ call'[p].pc \notin Results
    BY <1>2, <2>3, PlacesDiffer DEF Stays, NoCommand
  <2> QED BY <1>4, <2>1, <2>3, <2>4, CollectedKeeps
<1> QED BY <1>3, <1>4 DEF Settles

LEMMA TimesOutKeeps ==
    ASSUME IInv, TimesOut
    PROVE  IInv'
<1>1. TypeOK /\ \A p \in Calls : call[p].pc \notin Results
  BY DEF IInv, TimesOut, Quiet, Settled
<1>2. CASE refresh.pc = "probe" /\ \E o \in FreeSlots : Probed(FALSE, o)
  BY <1>1, <1>2, ProbedKeeps DEF FreeSlots
<1>3. CASE refresh.pc = "collect" /\ Collected("failed") /\ UNCHANGED call
  <2>1. \A p \in Calls : Stays(p) /\ NoCommand(p)
    BY <1>3 DEF Stays, NoCommand
  <2> QED BY <1>1, <1>3, <2>1, CollectedKeeps DEF TypeOK, Results
<1> QED BY <1>2, <1>3 DEF TimesOut

LEMMA PersistedKeeps ==
    ASSUME IInv, Persisted
    PROVE  IInv'
<1>1. /\ TypeOK /\ QuotaInv /\ Awaited /\ HealthInv /\ AfterClose /\ RuntimeTypes
      /\ UNCHANGED <<call, codexVars, geminiVars, keys, provider, health>>
      /\ refresh.pc = "persist" /\ refresh' = [pc |-> "idle", call |-> None]
      /\ phase' = (IF phase = "initial" THEN "scheduled" ELSE phase) /\ collected' = None
  BY TypesSplit DEF IInv, SourceInv, Persisted, Rested, Resting
<1>2. call' \in [Calls -> CallRecord] /\ \A p \in Calls : Stays(p) /\ NoCommand(p)
  BY <1>1 DEF TypeOK, Stays, NoCommand
<1>3. Core' /\ Signals' /\ SourceTypes' /\ GeminiTypes'
  BY <1>1, <1>2, SourceRests
<1>4. RuntimeTypes'
  BY <1>1 DEF RuntimeTypes, MaybeCalls
<1>5. TypeOK'
  BY <1>2, <1>3, <1>4, TypesKept
<1>6. AfterClose'
  BY <1>1 DEF AfterClose, codexVars, sourceVars
<1>7. Awaited'
  BY <1>1 DEF Awaited, Kinds
<1>8. HealthInv'
  BY <1>1 DEF HealthInv
<1>9. QuotaInv'
  BY <1>1 DEF QuotaInv, geminiVars
<1>10. HttpCalls'
  BY <1>1, KeptCallsAsk DEF IInv
<1> QED BY <1>3, <1>5, <1>6, <1>7, <1>8, <1>9, <1>10 DEF IInv, SourceInv, Core

-----------------------------------------------------------------------------
(* Steps while nothing is settled and the refresh waits. *)

LEMMA AwaitedGoesOn ==
    ASSUME TypeOK, Awaited, Quiet, CallsGoOn, UNCHANGED refresh
    PROVE  Awaited'
<1>1. \A o \in Calls : call[o].pc \notin Results
  BY DEF Quiet, Settled
<1>2. refresh.pc \in Kinds => refresh.call \in Calls /\ call[refresh.call].kind = refresh.pc
  BY <1>1, AwaitedCall DEF Awaited
<1>3. \A o \in Calls : GoesOn(o)
  BY DEF CallsGoOn
<1>4. refresh.pc \in Kinds => call'[refresh.call].pc \in Results \/ call'[refresh.call].kind = refresh.pc
  BY <1>2, <1>3 DEF GoesOn
<1> QED BY <1>3, <1>4 DEF Awaited, GoesOn

\* What is left to show of such a step.
LEMMA WaitingStep ==
    ASSUME IInv, Quiet, UNCHANGED <<refresh, provider, health>>, CallsGoOn,
           Core', Signals', SourceTypes', GeminiTypes', keys' = keys,
           collected' = collected \/ refresh.pc = "collect",
           phase' \in {"new", "initial", "scheduled", "stopping", "closing", "closed"},
           AfterClose', QuotaInv'
    PROVE  IInv'
<1>1. TypeOK /\ Awaited /\ HealthInv /\ RuntimeTypes /\ HttpCalls
  BY TypesSplit DEF IInv
<1>2. RuntimeTypes'
  BY <1>1 DEF RuntimeTypes
<1>3. TypeOK'
  BY <1>2, TypesKept DEF CallsGoOn
<1>4. Awaited'
  BY <1>1, AwaitedGoesOn
<1>5. HealthInv'
  BY <1>1 DEF HealthInv
<1>6. HttpCalls'
  BY <1>1, KeptCallsAsk DEF CallsGoOn, GoesOn
<1> QED BY <1>3, <1>4, <1>5, <1>6 DEF IInv, SourceInv, Core

\* No quota is fresh then.
LEMMA QuietQuota ==
    ASSUME IInv, Quiet
    PROVE  probedQuota # "fresh"
BY DEF IInv, QuotaInv, Quiet, Settled

LEMMA StopKeeps ==
    ASSUME IInv, Stop
    PROVE  IInv'
<1>1. /\ TypeOK /\ Core /\ Signals /\ AfterClose /\ SourceTypes /\ GeminiTypes /\ RuntimeTypes
      /\ phase \in {"new", "scheduled"} /\ Quiet /\ phase' = "stopping" /\ CodexClose
      /\ UNCHANGED <<refresh, version, probedQuota, executorClosed, keys, collected, provider, health>>
  BY TypesSplit DEF IInv, SourceInv, Core, Stop, geminiVars, httpVars
<1>2. life = 0
  BY <1>1 DEF AfterClose, TypeOK
<1>3. /\ Core' /\ SourceTypes' /\ CallsGoOn /\ \A o \in Calls : NoCommand(o)
      /\ client' = None /\ \A o \in Calls : ~Current(o)'
  BY <1>1, <1>2, CodexCloseKeepsCore
<1>4. Signals' /\ GeminiTypes'
  BY <1>1, <1>3 DEF Signals, NoCommand, GeminiTypes
<1>5. AfterClose'
  BY <1>1, <1>3 DEF AfterClose
<1>6. QuotaInv'
  BY <1>1, QuietQuota DEF QuotaInv
<1>7. keys' \subseteq {"api", "management"}
  BY <1>1 DEF RuntimeTypes
<1> QED BY <1>1, <1>3, <1>4, <1>5, <1>6, <1>7, WaitingStep

LEMMA CodexClosedKeeps ==
    ASSUME IInv, CodexClosed
    PROVE  IInv'
<1>1. /\ TypeOK /\ Core /\ AfterClose /\ SourceTypes /\ RuntimeTypes
      /\ Quiet /\ phase = "stopping" /\ phase' = "closing" /\ GeminiClose
      /\ UNCHANGED <<refresh, codexVars, keys, collected, provider, health>>
  BY TypesSplit DEF IInv, SourceInv, Core, CodexClosed, httpVars
<1>2. GeminiStepKeeps /\ probedQuota' = "none"
  BY <1>1, GeminiCloseKeeps
<1>3. Core'
  BY <1>1, <1>2, LeavingKeepsCore DEF GeminiStepKeeps
<1>4. SourceTypes' /\ keys' \subseteq {"api", "management"}
  BY <1>1 DEF SourceTypes, RuntimeTypes, codexVars, sourceVars
<1>5. AfterClose'
  <2>1. \A o \in Calls : Current(o)' => Current(o)
    BY <1>1, <1>2 DEF GeminiStepKeeps, Stays, Current, codexVars, sourceVars, CodexPlaces, Entering
  <2> QED BY <1>1, <2>1 DEF AfterClose, codexVars, sourceVars
<1>6. QuotaInv'
  BY <1>2 DEF QuotaInv
<1> QED BY <1>1, <1>2, <1>3, <1>4, <1>5, <1>6, WaitingStep DEF GeminiStepKeeps

LEMMA ClosedKeeps ==
    ASSUME IInv, Closed
    PROVE  IInv'
<1>1. /\ TypeOK /\ Core /\ AfterClose /\ RuntimeTypes
      /\ Quiet /\ phase = "closing" /\ phase' = "closed"
      /\ UNCHANGED <<call, refresh, codexVars, geminiVars, keys, collected, provider, health>>
  BY TypesSplit DEF IInv, SourceInv, Core, Closed, httpVars
<1>2. CallsGoOn /\ \A o \in Calls : Stays(o) /\ NoCommand(o)
  BY <1>1, KeptCall DEF CallsGoOn, TypeOK
<1>3. Core' /\ Signals' /\ SourceTypes' /\ GeminiTypes'
  BY <1>1, <1>2, SourceRests DEF CallsGoOn
<1>4. AfterClose'
  BY <1>1 DEF AfterClose, Current, codexVars, sourceVars
<1>5. QuotaInv' /\ keys' \subseteq {"api", "management"}
  BY <1>1, QuietQuota DEF QuotaInv, RuntimeTypes, geminiVars
<1> QED BY <1>1, <1>2, <1>3, <1>4, <1>5, WaitingStep

LEMMA CodexStepKeeps ==
    ASSUME IInv, CodexStep
    PROVE  IInv'
<1>1. /\ TypeOK /\ Core /\ Signals /\ AfterClose /\ GeminiTypes /\ RuntimeTypes
      /\ Quiet /\ UNCHANGED <<refresh, provider, phase, health>>
      /\ UNCHANGED <<version, probedQuota, executorClosed, keys, collected>>
  BY TypesSplit DEF IInv, SourceInv, Core, CodexStep, Runtime, geminiVars, httpVars
<1>2. /\ Core' /\ SourceTypes' /\ CallsGoOn /\ life' = life /\ NoReturn
      /\ \A o \in Calls : NoCommand(o)
  BY <1>1, CodexSteps DEF SourceStep
<1>3. Signals' /\ GeminiTypes'
  BY <1>1, <1>2 DEF Signals, NoCommand, GeminiTypes
<1>4. AfterClose'
  BY <1>1, <1>2 DEF AfterClose, NoReturn, Current
<1>5. QuotaInv' /\ keys' \subseteq {"api", "management"}
  BY <1>1, QuietQuota DEF QuotaInv, RuntimeTypes
<1>6. phase' \in {"new", "initial", "scheduled", "stopping", "closing", "closed"}
  BY <1>1 DEF RuntimeTypes
<1> QED BY <1>1, <1>2, <1>3, <1>4, <1>5, <1>6, WaitingStep

\* The steps of the other providers leave the Codex source alone.
LEMMA OtherStep ==
    ASSUME IInv, Quiet, Runtime, UNCHANGED codexVars, CallsGoOn, \A p \in Calls : Stays(p),
           Signals', GeminiTypes', keys' = keys, collected' = collected \/ refresh.pc = "collect",
           QuotaInv'
    PROVE  IInv'
<1>1. TypeOK /\ Core /\ AfterClose /\ SourceTypes /\ RuntimeTypes
  BY TypesSplit DEF IInv, SourceInv, Core
<1>2. UNCHANGED <<refresh, provider, phase, health>>
  BY DEF Runtime
<1>3. Core'
  BY <1>1, LeavingKeepsCore
<1>4. SourceTypes'
  BY <1>1 DEF SourceTypes, codexVars, sourceVars
<1>5. AfterClose'
  <2>1. \A o \in Calls : Current(o)' => Current(o)
    BY DEF Stays, Current, codexVars, sourceVars, CodexPlaces, Entering
  <2> QED BY <1>1, <1>2, <2>1 DEF AfterClose, codexVars, sourceVars
<1>6. /\ keys' \subseteq {"api", "management"}
      /\ phase' \in {"new", "initial", "scheduled", "stopping", "closing", "closed"}
  BY <1>1, <1>2 DEF RuntimeTypes
<1> QED BY <1>2, <1>3, <1>4, <1>5, <1>6, WaitingStep

LEMMA GeminiStepKeepsInv ==
    ASSUME IInv, GeminiStep
    PROVE  IInv'
<1>1. TypeOK /\ Signals /\ Awaited /\ QuotaInv
  BY DEF IInv
<1>2. GeminiStepKeeps /\ QuotaInv'
  BY <1>1, GeminiSteps
<1>3. Quiet /\ Runtime /\ UNCHANGED <<codexVars, keys, collected>>
  BY DEF GeminiStep, httpVars
<1> QED BY <1>2, <1>3, OtherStep DEF GeminiStepKeeps

LEMMA HttpStepKeepsInv ==
    ASSUME IInv, HttpStep
    PROVE  IInv'
<1>1. TypeOK /\ Signals /\ Awaited /\ GeminiTypes
  BY TypesSplit DEF IInv
<1>2. /\ CallsGoOn /\ (\A p \in Calls : Stays(p)) /\ Signals'
      /\ keys' = keys
      /\ collected' = collected \/ refresh.pc = "collect"
  BY <1>1, HttpSteps
<1>3. Quiet /\ Runtime /\ UNCHANGED <<codexVars, version, probedQuota, executorClosed>>
  BY DEF HttpStep, geminiVars
<1>4. GeminiTypes' /\ QuotaInv'
  BY <1>1, <1>3, QuietQuota DEF GeminiTypes, QuotaInv
<1> QED BY <1>2, <1>3, <1>4, OtherStep

-----------------------------------------------------------------------------
(* The theorems. *)

LEMMA InitIInv == Init => IInv
<1> SUFFICES ASSUME Init PROVE IInv
  OBVIOUS
<1>1. /\ \A o \in Calls : call[o] = Idle
      /\ call \in [Calls -> CallRecord]
      /\ Idle.pc = "free"
  BY IdleCall, CallsHaveFields DEF Init
<1>2. "free" \notin CodexPlaces \cup Results \cup Commands
  BY PlacesDiffer
<1>3. /\ client = None /\ readyFor = None /\ initialization = None /\ cleaning = None /\ life = 0
      /\ account.type = "none" /\ account.from = None
      /\ proc \in [Clients -> ProcessRecord]
      /\ \A c \in Clients : ~proc[c].alive /\ proc[c].closed /\ proc[c].stage = "open" /\ proc[c].born = 0
  BY DEF Init, CodexInit, NoAccount, Unused, ProcessRecord
<1>4. SourceTypes /\ GeminiTypes /\ RuntimeTypes
  <2>1. SourceTypes
    BY <1>3 DEF SourceTypes
  <2>2. GeminiTypes
    BY DEF GeminiTypes, Init, GeminiInit
  <2>3. keys \subseteq {"api", "management"} /\ collected = None
    BY DEF Init, HttpInit
  <2>4. RuntimeTypes
    BY <2>3 DEF RuntimeTypes, Init, Resting, MaybeCalls
  <2> QED BY <2>1, <2>2, <2>4
<1>5. TypeOK
  BY <1>1, <1>4 DEF TypeOK, SourceTypes, GeminiTypes, RuntimeTypes, MaybeCalls
<1>6. SourceInv
  <2>1. \A o \in Calls : call[o].pc \notin CodexPlaces
    BY <1>1, <1>2
  <2>2. /\ Requesting \subseteq CodexPlaces /\ Spawning \subseteq CodexPlaces /\ Questions \subseteq CodexPlaces
        /\ Entering \subseteq CodexPlaces /\ "dropping" \in CodexPlaces /\ "cleanup" \in CodexPlaces
    BY DEF CodexPlaces, Requesting, Entering
  <2>3. Processes /\ AfterClose
    BY <1>3 DEF Processes, AfterClose
  <2>4. Asks
    BY <1>3, <2>1, <2>2 DEF Asks
  <2>5. OneInitializes /\ Cleanups
    BY <1>3, <2>1, <2>2 DEF OneInitializes, Cleanups, Current
  <2> QED BY <2>3, <2>4, <2>5 DEF SourceInv
<1>7. Signals
  BY <1>1, <1>2 DEF Signals
<1>8. Awaited
  BY <1>1, <1>2 DEF Awaited, Init, Resting, Kinds
<1>9. HealthInv /\ QuotaInv
  BY DEF HealthInv, QuotaInv, Init, GeminiInit
<1>10. HttpCalls
  BY <1>1 DEF HttpCalls, AsksAll
<1> QED BY <1>5, <1>6, <1>7, <1>8, <1>9, <1>10 DEF IInv

LEMMA NextKeepsIInv == IInv /\ [Next]_vars => IInv'
<1> SUFFICES ASSUME IInv, [Next]_vars PROVE IInv'
  OBVIOUS
<1>1. CASE Start \/ TimerFires
  BY <1>1, BeginRefreshKeeps DEF Start, TimerFires
<1>2. CASE Settles
  BY <1>2, SettlesKeeps
<1>3. CASE TimesOut
  BY <1>3, TimesOutKeeps
<1>4. CASE Persisted
  BY <1>4, PersistedKeeps
<1>5. CASE Stop
  BY <1>5, StopKeeps
<1>6. CASE CodexClosed
  BY <1>6, CodexClosedKeeps
<1>7. CASE Closed
  BY <1>7, ClosedKeeps
<1>8. CASE CodexStep
  BY <1>8, CodexStepKeeps
<1>9. CASE GeminiStep
  BY <1>9, GeminiStepKeepsInv
<1>10. CASE HttpStep
  BY <1>10, HttpStepKeepsInv
<1>11. CASE UNCHANGED vars
  <2>1. UNCHANGED <<call, refresh, client, readyFor, initialization, cleaning, life, account, proc,
                    version, probedQuota, executorClosed, keys, collected, provider, phase, health>>
    BY <1>11 DEF vars, codexVars, sourceVars, geminiVars, httpVars
  <2>2. TypeOK' /\ Core' /\ AfterClose'
    BY <2>1 DEF IInv, SourceInv, Core, TypeOK, Processes, Asks, OneInitializes, Cleanups, Current, AfterClose
  <2>3. Signals' /\ Awaited' /\ HealthInv' /\ QuotaInv' /\ HttpCalls'
    BY <2>1 DEF IInv, Signals, Awaited, HealthInv, QuotaInv, HttpCalls, AsksAll, Endpoints
  <2> QED BY <2>2, <2>3 DEF IInv, SourceInv, Core
<1> QED BY <1>1, <1>2, <1>3, <1>4, <1>5, <1>6, <1>7, <1>8, <1>9, <1>10, <1>11 DEF Next

\* The inductive invariant holds in every state.
THEOREM IInvHolds == Spec => []IInv
BY InitIInv, NextKeepsIInv, PTL DEF Spec

\* Whatever times out, fails or is closed, the state keeps its types, the health report hides
\* no failure, and a quota read by a probe serves the collection of its own refresh.
THEOREM CapacityInvHolds == Spec => []CapacityInv
<1>1. IInv => CapacityInv
  <2> SUFFICES ASSUME IInv PROVE CapacityInv
    OBVIOUS
  <2>1. TypeOK /\ HealthInv /\ Awaited
    BY DEF IInv
  <2>2. HealthTells
    BY <2>1 DEF HealthTells, HealthInv, Resting
  <2>3. QuotaIsTaken
    BY QuietQuota DEF QuotaIsTaken
  <2> QED BY <2>1, <2>2, <2>3 DEF CapacityInv
<1> QED BY <1>1, IInvHolds, PTL

\* There is one Codex server, with which every request is pending and whose account is cached;
\* any other process is being ended, and after close() each one that runs has been told to end,
\* but for a server that was started after it.
THEOREM ProcessesAreOwnedHolds == Spec => []ProcessesAreOwned
<1>1. IInv => ProcessesAreOwned
  <2> SUFFICES ASSUME IInv PROVE ProcessesAreOwned
    OBVIOUS
  <2>1. Processes /\ Asks /\ Signals
    BY DEF IInv, SourceInv
  <2>2. OneServer
    BY <2>1 DEF OneServer, Processes, Asks, Requesting, Spawning, Questions
  <2>3. ClosedMeansEnded
    BY <2>1 DEF ClosedMeansEnded, Processes, Signals, Running, Commands
  <2> QED BY <2>2, <2>3 DEF ProcessesAreOwned
<1> QED BY <1>1, IInvHolds, PTL
=============================================================================
