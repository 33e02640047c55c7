--------------------------- MODULE RefreshRequests ---------------------------
(***************************************************************************)
(* What the refresh coordinator promises its two neighbours, the webhook   *)
(* route that asks for refreshes and the project service that carries them *)
(* out: a request is kept until a refresh of its repository starts, a      *)
(* repository is never refreshed twice at once, and after stop() nothing   *)
(* new is asked for.  RefreshCoordinator implements this; ProjectService   *)
(* is built on it.                                                         *)
(***************************************************************************)
EXTENDS Naturals, FiniteSets

CONSTANTS Repos, Concurrency

VARIABLES
    requested,  \* repositories a refresh is still to start for
    running,    \* repositories whose refresh handler is running
    closed      \* has stop() been called?

requestVars == <<requested, running, closed>>

RequestsInit ==
    /\ requested = {}
    /\ running = {}
    /\ closed = FALSE

Request(r) ==
    /\ ~closed
    /\ requested' = requested \cup {r}
    /\ UNCHANGED <<running, closed>>

\* A refresh starts, also one that passed its gate after stop().  An event that came
\* between its dispatch and its start is answered, and may be followed up all the same.
Begin(r) ==
    /\ r \in requested \ running
    /\ Cardinality(running) < Concurrency
    /\ requested' \in {requested \ {r}, requested}
    /\ running' = running \cup {r}
    /\ UNCHANGED closed

Settle(r) ==
    /\ r \in running
    /\ running' = running \ {r}
    /\ UNCHANGED <<requested, closed>>

\* stop() forgets the requests that have no execution yet.
Stop ==
    /\ closed' = TRUE
    /\ requested' \in SUBSET requested
    /\ UNCHANGED running

RequestsNext ==
    \/ \E r \in Repos : Request(r) \/ Begin(r) \/ Settle(r)
    \/ Stop

RequestsSpec == RequestsInit /\ [][RequestsNext]_requestVars
=============================================================================
