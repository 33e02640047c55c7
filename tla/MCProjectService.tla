-------------------------- MODULE MCProjectService --------------------------
(* A bounded instance of ProjectService for TLC: two projects share a repository. *)
EXTENDS ProjectService

CONSTANTS p1, p2, r1, d1

TwoProjects == <<p1, p2>>
SharedRepository == [p \in {p1, p2} |-> <<r1>>]
SameLabels == [p \in {p1, p2} |-> "labels"]
Targets == [d \in Deliveries |-> IF d = d1 THEN r1 ELSE None]
=============================================================================
