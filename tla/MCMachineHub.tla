---------------------------- MODULE MCMachineHub ----------------------------
(* Bounded instances of MachineHub for TLC. *)
EXTENDS MachineHub, TLC

CONSTANT MaxInFlight    \* bound: handlers, requests and loops suspended at once

InFlight ==
    Cardinality({s \in Sockets : task[s].pc # "idle"})
        + Cardinality({a \in Actions : request[a].pc \in {"creating", "created"}})
        + Cardinality({j \in Jobs : job[j].pc # "idle" /\ ~Reporting(j)})

BoundedConcurrency == InFlight <= MaxInFlight

\* For the runs about an instance that is not shut down.
WhileRunning == BoundedConcurrency /\ phase = "running"

HubSymmetry == Permutations(Machines) \cup Permutations(Sockets) \cup Permutations(Actions)
=============================================================================
