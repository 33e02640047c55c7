----------------------------- MODULE CodexSource -----------------------------
(***************************************************************************)
(* The Codex provider: CodexAppServerSource (source.ts), which keeps one   *)
(* ready `codex app-server` process, and CodexAppServerClient (client.ts), *)
(* which speaks to one such process and ends it.  A client is made for     *)
(* every start of a process; the model takes a token of Clients that       *)
(* nothing refers to any more.                                             *)
(*                                                                         *)
(* A call waits in one of the places where the code awaits: for another    *)
(* call's initialization ("sharing"), for an old client to close           *)
(* ("cleanup"), for the process to spawn ("spawning"), for the answers to  *)
(* its requests ("handshake", "account", "limits"), or for its own failed  *)
(* client to close ("dropping").                                           *)
(***************************************************************************)
EXTENDS CapacityCalls

CONSTANT Clients

ASSUME ClientsAssumption == None \notin Clients

VARIABLES
    client,             \* the source's client
    readyFor,           \* readyRecord: the client that completed the handshake
    initialization,     \* the call whose initialization others share
    cleaning,           \* cleanup: the client whose close() is awaited before the next start
    life,               \* lifecycle: 1 once the source was closed
    account,            \* the cached account: its type, and history: whose answer it was
    proc                \* each client: its process and its close()

sourceVars == <<client, readyFor, initialization, cleaning, life, account>>
codexVars == <<sourceVars, proc>>

NoAccount == [type |-> "none", from |-> None]

\* stage is where closeInternal() is, "open" before it; born is history: was the process
\* started after the source was closed?
Unused == [alive |-> FALSE, closed |-> TRUE, stage |-> "open", born |-> 0]

CodexInit ==
    /\ client = None /\ readyFor = None /\ initialization = None /\ cleaning = None
    /\ life = 0
    /\ account = NoAccount
    /\ proc = [c \in Clients |-> Unused]

Spare ==
    {c \in Clients \ ({client, readyFor, cleaning} \cup {call[o].client : o \in Calls}) :
        ~proc[c].alive /\ proc[c].stage \in {"open", "done"}}

\* close() begins, or has begun before.
Closing(p) == [p EXCEPT !.closed = TRUE, !.stage = IF @ = "open" THEN "end" ELSE @]

Owner(c) == {o \in Calls : call[o].client = c /\ call[o].pc \in {"spawning", "handshake"}}
Followers(o) == {p \in Calls : call[p].pc = "sharing" /\ call[p].owner = o}

\* The source is ready with client c: the next request of a call.
Asking(kind, c, type) ==
    IF kind = "probe" \/ type = "none" THEN [Calling(kind, "account") EXCEPT !.client = c]
    ELSE IF type = "chatgpt" THEN [Calling(kind, "limits") EXCEPT !.client = c]
    ELSE Result("failed")

\* The pending requests of client c are rejected.
Rejected(c) ==
    [o \in Calls |-> IF call[o].client # c THEN call[o]
                     ELSE IF call[o].pc \in {"account", "limits"} THEN Ended(o, "failed")
                     ELSE IF o \in Owner(c) THEN [call[o] EXCEPT !.pc = "dropping"]
                     ELSE call[o]]

\* A client is made and its process spawned, for the call o that has to initialize.
Spawned(o, kind) ==
    /\ Spare # {}
    /\ LET c == CHOOSE c \in Spare : TRUE
       IN  /\ client' = c
           /\ proc' = [proc EXCEPT ![c] = [alive |-> TRUE, closed |-> FALSE, stage |-> "open", born |-> life]]
           /\ call' = [call EXCEPT ![o] = [Calling(kind, "spawning") EXCEPT !.client = c]]

-----------------------------------------------------------------------------
(* Entering the source: ready(). *)

IsReady == client # None /\ ~proc[client].closed /\ initialization = None /\ readyFor = client

UseReady(o, kind) ==
    /\ IsReady
    /\ call' = [call EXCEPT ![o] = Asking(kind, client, account.type)]
    /\ UNCHANGED codexVars

ShareInitialization(o, kind) ==
    /\ initialization # None
    /\ call' = [call EXCEPT ![o] = [Calling(kind, "sharing") EXCEPT !.owner = initialization]]
    /\ UNCHANGED codexVars

\* A closed client is retired first: what belonged to it is forgotten, and its close() awaited.
Initialize(o, kind) ==
    /\ ~IsReady /\ initialization = None
    /\ initialization' = o
    /\ IF client # None /\ proc[client].closed
         THEN /\ cleaning' = client /\ client' = None /\ readyFor' = None /\ account' = NoAccount
              /\ proc' = [proc EXCEPT ![client] = Closing(@)]
              /\ call' = [call EXCEPT ![o] =
                            [Calling(kind, "cleanup") EXCEPT !.client = client, !.life = life]]
         ELSE /\ IF cleaning = None THEN Spawned(o, kind)
                 ELSE /\ call' = [call EXCEPT ![o] =
                                    [Calling(kind, "cleanup") EXCEPT !.client = cleaning, !.life = life]]
                      /\ UNCHANGED <<client, proc>>
              /\ UNCHANGED <<cleaning, readyFor, account>>
    /\ UNCHANGED life

\* Variant: no call looks for an initialization under way.
CodexCallUnshared(o, kind) ==
    \/ UseReady(o, kind)
    \/ /\ ~IsReady
       /\ initialization' = o
       /\ Spawned(o, kind)
       /\ UNCHANGED <<cleaning, readyFor, account, life>>

CodexCall(o, kind) == UseReady(o, kind) \/ ShareInitialization(o, kind) \/ Initialize(o, kind)

-----------------------------------------------------------------------------
(* Initialization. *)

\* Variant: the failed initialization is kept.
InitializationFailsKept(o) ==
    /\ UNCHANGED initialization
    /\ call' = [p \in Calls |-> IF p \in Followers(o) \cup {o} THEN Ended(p, "failed") ELSE call[p]]

\* The initialization of call o fails, for all that share it.
InitializationFails(o) ==
    /\ initialization' = None
    /\ call' = [p \in Calls |-> IF p \in Followers(o) \cup {o} THEN Ended(p, "failed") ELSE call[p]]

\* The old client is closed: a new one is started, unless the source was closed meanwhile.
CleanupDone(o) ==
    /\ call[o].pc = "cleanup" /\ proc[call[o].client].stage = "done"
    /\ cleaning' = IF cleaning = call[o].client THEN None ELSE cleaning
    /\ IF call[o].life # life
         THEN InitializationFails(o) /\ UNCHANGED <<client, proc>>
         ELSE Spawned(o, call[o].kind) /\ UNCHANGED initialization
    /\ UNCHANGED <<readyFor, life, account>>

\* The failed client is closed.
Dropped(o) ==
    /\ call[o].pc = "dropping" /\ proc[call[o].client].stage = "done"
    /\ InitializationFails(o)
    /\ IF client = call[o].client
         THEN client' = None /\ account' = NoAccount /\ readyFor' = None
         ELSE UNCHANGED <<client, account, readyFor>>
    /\ UNCHANGED <<cleaning, life, proc>>

SpawnEvent(o) ==
    /\ call[o].pc = "spawning"
    /\ call' = [call EXCEPT ![o].pc = "handshake"]
    /\ UNCHANGED codexVars

\* The answer to `initialize`, after which `initialized` is sent.
InitializeAnswered(o, good) ==
    LET c == call[o].client
    IN  /\ call[o].pc = "handshake"
        /\ IF good
             THEN /\ readyFor' = c
                  /\ initialization' = None
                  /\ call' = [p \in Calls |-> IF p \in Followers(o) \cup {o}
                                                THEN Asking(call[p].kind, c, account.type) ELSE call[p]]
                  /\ UNCHANGED proc
             ELSE /\ proc' = [proc EXCEPT ![c] = Closing(@)]
                  /\ call' = Rejected(c)
                  /\ UNCHANGED <<readyFor, initialization>>
        /\ UNCHANGED <<client, cleaning, life, account>>

-----------------------------------------------------------------------------
(* Requests. *)

\* The answer to `account/read`: an account of some type, or an error ("none").
AccountAnswered(o, type) ==
    LET c == call[o].client
    IN  /\ call[o].pc = "account"
        /\ account' = IF type = "none" THEN account ELSE [type |-> type, from |-> c]
        /\ call' = [call EXCEPT ![o] =
                      IF type # "chatgpt" THEN Ended(o, "failed")
                      ELSE IF @.kind = "probe" THEN Ended(o, "ok")
                      ELSE Asking("collect", c, type)]
        /\ UNCHANGED <<client, readyFor, initialization, cleaning, life, proc>>

LimitsAnswered(o, good) ==
    /\ call[o].pc = "limits"
    /\ call' = [call EXCEPT ![o] = Ended(o, IF good THEN "ok" ELSE "failed")]
    /\ UNCHANGED codexVars

\* fail(): a request or the start times out, a message is malformed or answers nothing, stdout
\* breaks, the process cannot be spawned.  Nothing listens to errors of stdin: a write that
\* finds it broken ends the API's process, which is not modelled.
ClientFails(c, spawnError) ==
    /\ ~proc[c].closed
    /\ spawnError => \E o \in Owner(c) : call[o].pc = "spawning"
    /\ proc' = [proc EXCEPT ![c] = [Closing(@) EXCEPT !.alive = ~spawnError]]
    /\ call' = Rejected(c)
    /\ UNCHANGED sourceVars

\* The process exits.  Whoever started it closes the client; otherwise it stays to be retired.
Exits(c) ==
    /\ proc[c].alive
    /\ proc' = [proc EXCEPT ![c] =
                  [(IF Owner(c) # {} THEN Closing(@) ELSE [@ EXCEPT !.closed = TRUE]) EXCEPT !.alive = FALSE]]
    /\ call' = Rejected(c)
    /\ UNCHANGED sourceVars

\* Bound: one process that got SIGKILL and was given up still has to exit.
Zombies == {c \in Clients : proc[c].alive /\ proc[c].stage = "done"}

\* closeInternal() goes on: the process has exited, or did not in time and is sent SIGTERM,
\* then SIGKILL.
CloseStep(c) ==
    LET p == proc[c]
    IN  /\ p.stage \in {"end", "term", "kill"}
        /\ p.stage = "kill" /\ p.alive => Zombies = {}
        /\ proc' = [proc EXCEPT ![c].stage =
                      CASE ~p.alive \/ p.stage = "kill" -> "done"
                        [] p.alive /\ p.stage = "end" -> "term"
                        [] p.alive /\ p.stage = "term" -> "kill"]
        /\ UNCHANGED <<call, sourceVars>>

\* close() of the source.
CodexClose ==
    /\ life' = 1
    /\ client' = None /\ account' = NoAccount /\ readyFor' = None /\ initialization' = None
    /\ IF client = None THEN UNCHANGED <<proc, call>>
       ELSE /\ proc' = [proc EXCEPT ![client] = Closing(@)]
            /\ call' = Rejected(client)
    /\ UNCHANGED cleaning

\* A request is pending until it is answered or its timer fails the client.
Asked(o) ==
    \/ SpawnEvent(o) \/ InitializeAnswered(o, TRUE) \/ AccountAnswered(o, "chatgpt")
    \/ LimitsAnswered(o, TRUE)
    \/ call[o].pc \in {"spawning", "handshake", "account", "limits"} /\ ClientFails(call[o].client, FALSE)
=============================================================================
