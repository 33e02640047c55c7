---------------------------- MODULE ActionStatus ----------------------------
(***************************************************************************)
(* The statuses of a remote machine action and the transitions the Hub's   *)
(* action store accepts (apps/api/src/actions.ts, and the status helpers   *)
(* of apps/api/src/machines.ts).  "ABSENT" stands for an action that has   *)
(* no row in machine_actions.                                              *)
(*                                                                         *)
(* In every module, a definition marked "Variant:" is the next one with a  *)
(* mistake in it, kept to show which property notices the mistake.         *)
(***************************************************************************)

ActiveStatuses == {"PENDING", "RUNNING"}

TerminalStatuses == {"SUCCEEDED", "DENIED", "FAILED", "TIMED_OUT", "INTERRUPTED"}

Statuses == ActiveStatuses \cup TerminalStatuses

\* Variant: a RUNNING action cannot be interrupted.
ValidTransitionStrict(from, to) ==
    \/ from = "PENDING" /\ to \in {"RUNNING", "DENIED", "TIMED_OUT", "INTERRUPTED"}
    \/ from = "RUNNING" /\ to \in {"SUCCEEDED", "FAILED", "TIMED_OUT"}

\* A record can be created, but only in PENDING; nothing leaves a terminal status.
ValidTransition(from, to) ==
    \/ from = "PENDING" /\ to \in {"RUNNING", "DENIED", "TIMED_OUT", "INTERRUPTED"}
    \/ from = "RUNNING" /\ to \in {"SUCCEEDED", "FAILED", "TIMED_OUT", "INTERRUPTED"}

\* The statuses an Agent's accepted or result message may move a record to:
\* PENDING only by acceptance or denial, RUNNING only by a result that is not
\* a denial.  In particular an Agent cannot time out an action it never accepted.
ValidReport(from, to) ==
    \/ from = "PENDING" /\ to \in {"RUNNING", "DENIED"}
    \/ from = "RUNNING" /\ to \in {"SUCCEEDED", "FAILED", "TIMED_OUT"}
=============================================================================
