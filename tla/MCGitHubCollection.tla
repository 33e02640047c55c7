------------------------- MODULE MCGitHubCollection -------------------------
(* A bounded instance of GitHubCollection for TLC. *)
EXTENDS GitHubCollection

Refusal(status, limit) == [status |-> status, limit |-> limit]
SomeRefusals ==
    {Refusal(403, TRUE), Refusal(403, FALSE), Refusal(404, FALSE), Refusal(422, FALSE)}

SomeChecks ==
    {{}, {"success"}, {"neutral"}, {"success", "failure"}, {"pending", "neutral"}, {"success", "odd"}}
SomeStatuses == {{}, {"success"}, {"failure"}}

\* The other repository was read, was not, or was read in part.
SomeOthers ==
    {Unread,
     [meta |-> "new", pulls |-> "new", issues |-> "new", ci |-> "new", state |-> "failure",
      freshness |-> "fresh", error |-> None],
     [meta |-> "new", pulls |-> "old", issues |-> "none", ci |-> "new", state |-> "success",
      freshness |-> "partial", error |-> "network"],
     [meta |-> "old", pulls |-> "old", issues |-> "old", ci |-> "old", state |-> "unknown",
      freshness |-> "stale", error |-> "network"]}
=============================================================================
