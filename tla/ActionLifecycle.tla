--------------------------- MODULE ActionLifecycle ---------------------------
(***************************************************************************)
(* What the Hub promises about the rows of machine_actions, whatever its   *)
(* sessions, timers and store queries are doing: an action is created      *)
(* PENDING, and only while its machine has no other active action; it then *)
(* moves along the documented lifecycle and never leaves a terminal        *)
(* status.  MachineHub is shown to implement this specification.           *)
(***************************************************************************)
EXTENDS ActionStatus

CONSTANTS
    Machines,   \* machine ids
    Actions,    \* action ids; each is used for at most one action
    None        \* not a machine

VARIABLES
    status,     \* status of each action's row, "ABSENT" when it has none
    target      \* machine an action was requested for, None before the request

lifecycleVars == <<status, target>>

ActiveOn(m) == {a \in Actions : target[a] = m /\ status[a] \in ActiveStatuses}

LifecycleInit ==
    /\ status = [a \in Actions |-> "ABSENT"]
    /\ target = [a \in Actions |-> None]

\* The request passed the Hub's checks and is bound to a machine.
Request(a, m) ==
    /\ target[a] = None
    /\ target' = [target EXCEPT ![a] = m]
    /\ UNCHANGED status

\* The row appears.  No other action of that machine is PENDING or RUNNING.
Create(a) ==
    /\ status[a] = "ABSENT"
    /\ target[a] \in Machines
    /\ ActiveOn(target[a]) = {}
    /\ status' = [status EXCEPT ![a] = "PENDING"]
    /\ UNCHANGED target

Advance(a, to) ==
    /\ ValidTransition(status[a], to)
    /\ status' = [status EXCEPT ![a] = to]
    /\ UNCHANGED target

LifecycleNext ==
    \E a \in Actions :
        \/ \E m \in Machines : Request(a, m)
        \/ Create(a)
        \/ \E to \in Statuses : Advance(a, to)

LifecycleSpec == LifecycleInit /\ [][LifecycleNext]_lifecycleVars
=============================================================================
