---------------------------- MODULE CapacityCalls ----------------------------
(***************************************************************************)
(* The calls the capacity coordinator makes to a provider's adapter        *)
(* (probe() and collect(), packages/ai-capacity).  A call occupies a slot  *)
(* of Calls until its promise is settled; the coordinator waits for at     *)
(* most one of them, and a call it no longer waits for, because it timed   *)
(* out, goes on in its slot.                                               *)
(***************************************************************************)
EXTENDS Integers, FiniteSets

CONSTANTS
    Calls,      \* bound: slots for calls that have not settled
    None

ASSUME CallsAssumption == None \notin Calls

VARIABLES
    call,       \* each slot: the call in it
    refresh     \* the refresh under way: [pc, call], where call is the slot it awaits

\* client, owner and life belong to a call of the Codex source; signal, cut and quota to
\* one of the Gemini source; answers, the state of its requests, to one made by HTTP.
Idle == [pc |-> "free", kind |-> "probe", client |-> None, owner |-> None, life |-> 0,
         signal |-> "none", cut |-> "no", quota |-> "none", answers |-> <<>>]

Results == {"ok", "partial", "failed"}

FreeSlots == {o \in Calls : call[o].pc = "free"}
Settled == {o \in Calls : call[o].pc \in Results}

Result(res) == [Idle EXCEPT !.pc = res]

\* What is left of call o when its promise settles: nothing, if nobody awaits it.
Ended(o, res) == IF o = refresh.call THEN Result(res) ELSE Idle

Calling(kind, pc) == [Idle EXCEPT !.kind = kind, !.pc = pc]
=============================================================================
