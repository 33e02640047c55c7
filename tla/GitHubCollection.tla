--------------------------- MODULE GitHubCollection ---------------------------
(***************************************************************************)
(* What the Hub reads from GitHub (packages/github): GitHubAppProjectSource *)
(* asks for a repository's metadata, pull requests, issues and CI state,   *)
(* GitHubAdapter.collectRepository makes one result of what was answered,  *)
(* with the previous result where something was not, and ProjectService    *)
(* makes a snapshot and a project summary of the results (projects.ts).    *)
(*                                                                         *)
(* The collections of one repository follow one another, the next one      *)
(* starting from the result of the one before.  Its three parts are read   *)
(* at the same time.  Requests that only matter together, the checks and   *)
(* statuses of a commit, are one step.  What is read is represented by its *)
(* age: "new" in the collection that read it, "old" in the next.           *)
(***************************************************************************)
EXTENDS Integers, FiniteSets

CONSTANTS
    Refusals,       \* how GitHub may refuse a request: [status, limit], where limit says
                    \* whether the message tells of a rate limit, and status 0 is no answer
    CheckSets,      \* the kinds of check runs a commit may have
    StatusSets,     \* the kinds of commit statuses it may have
    MaxPulls,       \* bound: pull requests whose CI state is looked up (10 in the code)
    Concurrency,    \* lookups at the same time (3 in the code)
    Others,         \* results of the project's other repository
    None

ASSUME CollectionAssumption == MaxPulls \in Nat /\ Concurrency \in Nat \ {0}
ASSUME RefusalAssumption == Refusals \subseteq [status : Nat, limit : BOOLEAN]

VARIABLES
    configured, \* are there GitHub credentials?
    pc,         \* the collection: "idle", "metadata", "parts"
    pulls,      \* listOpenPullRequests: [at, next, busy, got]
    issues,     \* listAttentionIssues: "asked", "new" or "failed"
    ci,         \* getLatestCiState: "asked", "failed" or the state
    failures,   \* (history) the codes of the parts that failed
    error,      \* partialError
    saved,      \* the result of the latest collection
    other,      \* in the same snapshot, the result of the project's other repository
    health      \* GitHubAdapter.lastHealth

vars == <<configured, pc, pulls, issues, ci, failures, error, saved, other, health>>

Unasked == [at |-> "list", next |-> 1, busy |-> {}, got |-> [i \in {} |-> "none"]]

Unread == [meta |-> "none", pulls |-> "none", issues |-> "none", ci |-> "none", state |-> "unknown",
           freshness |-> "unavailable", error |-> None]

Init ==
    /\ configured \in BOOLEAN
    /\ pc = "idle"
    /\ pulls = Unasked /\ issues = "asked" /\ ci = "asked"
    /\ failures = {} /\ error = None
    /\ saved = Unread /\ other \in Others
    /\ health = [configured |-> TRUE, available |-> TRUE, error |-> None]

-----------------------------------------------------------------------------
(* Errors. *)

Codes ==
    {"authentication", "permission", "rate_limited", "not_found", "network", "unavailable", "unconfigured"}

ASSUME NoneAssumption == None \notin Codes \cup {"sum"} \cup Nat

Failure(code, status) == [code |-> code, status |-> status]

\* classifyGitHubError.  Only the statuses it knows are kept.
Classify(e) ==
    CASE e.status = 401 -> Failure("authentication", 401)
      [] e.status = 403 -> Failure(IF e.limit THEN "rate_limited" ELSE "permission", 403)
      [] e.status = 404 -> Failure("not_found", 404)
      [] e.status = 429 -> Failure("rate_limited", 429)
      [] e.status >= 500 -> Failure("unavailable", e.status)
      [] e.status = 0 -> Failure("network", None)
      [] OTHER -> Failure("unavailable", None)

GitHubErrors == {Classify(e) : e \in Refusals}

\* UnconfiguredGitHubProjectSource: its requests fail before they are made.
Errors == IF configured THEN GitHubErrors ELSE {Failure("unconfigured", None)}

\* These say that no other request will fare better.
Serious == {"authentication", "rate_limited", "permission"}

\* A commit without checks, or without statuses.
Tolerated(e) == e.code = "not_found" \/ e.status = 422

-----------------------------------------------------------------------------
(* The CI state of a commit.  A check run is failed, pending, successful or neutral, or *)
(* "odd": it ended in another way, or has neither a conclusion nor a known status.      *)

AggregateCiState(checks, statuses) ==
    CASE checks \cup statuses = {} -> "unknown"
      [] "failure" \in checks \cup statuses -> "failure"
      [] "failure" \notin checks \cup statuses /\ "pending" \in checks \cup statuses -> "pending"
      [] {"failure", "pending"} \cap (checks \cup statuses) = {} /\ checks \cup statuses # {} ->
           IF "odd" \in checks THEN "unknown"
           ELSE IF "success" \in checks \cup statuses THEN "success" ELSE "neutral"

\* getCommitCiState, for what the checks and the statuses are answered with.
CommitCiState(checks, statuses) ==
    IF checks.error # None /\ ~Tolerated(checks.error) THEN [state |-> None, error |-> checks.error]
    ELSE IF statuses.error # None /\ ~Tolerated(statuses.error)
      THEN [state |-> None, error |-> statuses.error]
      ELSE [state |-> AggregateCiState(checks.seen, statuses.seen), error |-> None]

Answers(sets) ==
    {[seen |-> s, error |-> None] : s \in sets} \cup {[seen |-> {}, error |-> e] : e \in GitHubErrors}

CommitCiStates == {CommitCiState(c, s) : c \in Answers(CheckSets), s \in Answers(StatusSets)}

-----------------------------------------------------------------------------
(* collectRepository. *)

\* The result of the last collection is an earlier one now; nobody asks for its freshness.
Aged(result) ==
    LET aged(age) == IF age = "new" THEN "old" ELSE age
    IN  [Unread EXCEPT !.meta = aged(result.meta), !.pulls = aged(result.pulls),
                       !.issues = aged(result.issues), !.ci = aged(result.ci), !.state = result.state]

Collect ==
    /\ pc = "idle"
    /\ pc' = "metadata"
    /\ saved' = Aged(saved) /\ other' = Unread /\ failures' = {}
    /\ UNCHANGED <<configured, pulls, issues, ci, error, health>>

\* The collection is over, and its result is saved with those of the other repositories.
Save(result) ==
    /\ pc' = "idle"
    /\ saved' = result
    /\ other' \in Others
    /\ failures' = {} /\ pulls' = Unasked /\ issues' = "asked" /\ ci' = "asked" /\ error' = None

Unavailable(code) == [configured |-> TRUE, available |-> FALSE, error |-> code]

\* Variant: a result without metadata is not reported.
MetadataFailsUnreported ==
    /\ pc = "metadata"
    /\ \E e \in Errors :
         Save([saved EXCEPT !.freshness = IF saved.meta = "none" THEN "unavailable" ELSE "stale",
                            !.error = e.code])
    /\ UNCHANGED <<configured, health>>

\* Without its metadata a repository keeps its previous result, or has none.
MetadataFails ==
    /\ pc = "metadata"
    /\ \E e \in Errors :
         /\ health' = IF e.code \in Serious THEN Unavailable(e.code) ELSE health
         /\ Save([saved EXCEPT !.freshness = IF saved.meta = "none" THEN "unavailable" ELSE "stale",
                               !.error = e.code])
    /\ UNCHANGED configured

MetadataRead ==
    /\ pc = "metadata" /\ configured
    /\ pc' = "parts"
    /\ UNCHANGED <<configured, pulls, issues, ci, failures, error, saved, other, health>>

\* A part fails: the others go on.
Fails(code) == error' = code /\ failures' = failures \cup {code}

IssuesEnd ==
    /\ pc = "parts" /\ issues = "asked"
    /\ \/ issues' = "new" /\ UNCHANGED <<error, failures>>
       \/ issues' = "failed" /\ \E e \in GitHubErrors : Fails(e.code)
    /\ UNCHANGED <<configured, pc, pulls, ci, saved, other, health>>

\* getLatestCiState: the branch's checks and statuses, then its latest workflow run, which
\* only a serious error makes a failure.
CiEnds ==
    /\ pc = "parts" /\ ci = "asked"
    /\ \/ \E c \in CommitCiStates :
            IF c.error = None THEN ci' = c.state /\ UNCHANGED <<error, failures>>
                              ELSE ci' = "failed" /\ Fails(c.error.code)
       \/ \E e \in GitHubErrors : e.code \in Serious /\ ci' = "failed" /\ Fails(e.code)
    /\ UNCHANGED <<configured, pc, pulls, issues, saved, other, health>>

Smaller(m, n) == IF m < n THEN m ELSE n

\* The pull requests are listed, and mapConcurrent starts its workers: each looks up one
\* commit after the other.  With n pull requests to look up the first are busy.
PullsListed ==
    /\ pc = "parts" /\ pulls.at = "list"
    /\ \/ /\ \E n \in 0 .. MaxPulls :
               pulls' = [at |-> IF n = 0 THEN "new" ELSE "lookup",
                         next |-> Smaller(Concurrency, n) + 1,
                         busy |-> 1 .. Smaller(Concurrency, n),
                         got |-> [i \in 1 .. n |-> "none"]]
          /\ UNCHANGED <<error, failures>>
       \/ /\ pulls' = [pulls EXCEPT !.at = "failed"]
          /\ \E e \in GitHubErrors : Fails(e.code)
    /\ UNCHANGED <<configured, pc, issues, ci, saved, other, health>>

\* Variant: the answer is stored at the index the workers share by then.
StoredAtShared(i, state) ==
    LET left == DOMAIN pulls.got \cap {pulls.next}
        got == [pulls.got EXCEPT ![pulls.next - 1] = state]
        busy == (pulls.busy \ {i}) \cup left
    IN  [at |-> IF busy = {} THEN "new" ELSE "lookup", next |-> pulls.next + Cardinality(left),
         busy |-> busy, got |-> got]

\* Variant: the worker of the last pull request ends the list, and only if it is the last.
StoredUnnoticed(i, state) ==
    LET left == DOMAIN pulls.got \cap {pulls.next}
        busy == (pulls.busy \ {i}) \cup left
        last == i = Cardinality(DOMAIN pulls.got)
    IN  [at |-> IF busy = {} /\ last THEN "new" ELSE "lookup", next |-> pulls.next + Cardinality(left),
         busy |-> busy, got |-> [pulls.got EXCEPT ![i] = state]]

\* The worker of pull request i stores its state and takes the next one, if any is left;
\* the list is complete when all workers are done.
Stored(i, state) ==
    LET left == DOMAIN pulls.got \cap {pulls.next}
        busy == (pulls.busy \ {i}) \cup left
    IN  [at |-> IF busy = {} THEN "new" ELSE "lookup", next |-> pulls.next + Cardinality(left),
         busy |-> busy, got |-> [pulls.got EXCEPT ![i] = state]]

\* A serious error fails the list; the workers that are left work on for nobody.
LookedUp(i) ==
    /\ pc = "parts" /\ pulls.at = "lookup" /\ i \in pulls.busy
    /\ \E c \in CommitCiStates :
         IF c.error # None /\ c.error.code \in Serious
           THEN pulls' = [Unasked EXCEPT !.at = "failed"] /\ Fails(c.error.code)
           ELSE /\ pulls' = Stored(i, IF c.error = None THEN "looked up" ELSE "unknown")
                /\ UNCHANGED <<error, failures>>
    /\ UNCHANGED <<configured, pc, issues, ci, saved, other, health>>

\* The result: what could not be read is what the previous result has.
Collected ==
    [saved EXCEPT !.meta = "new",
        !.pulls = IF pulls.at = "new" THEN "new" ELSE @,
        !.issues = IF issues = "new" THEN "new" ELSE @,
        !.ci = IF ci # "failed" THEN "new" ELSE @, !.state = IF ci # "failed" THEN ci ELSE @,
        !.freshness = IF error # None THEN "partial" ELSE "fresh", !.error = error]

PartsRead ==
    /\ pc = "parts"
    /\ pulls.at \in {"new", "failed"} /\ issues # "asked" /\ ci # "asked"
    /\ Save(Collected)
    /\ health' = IF error \in Serious THEN Unavailable(error)
                 ELSE [configured |-> TRUE, available |-> TRUE, error |-> None]
    /\ UNCHANGED configured

\* probe(), at the start of a full refresh.
Probe ==
    /\ \/ configured /\ health' = [configured |-> TRUE, available |-> TRUE, error |-> None]
       \/ configured /\ \E e \in GitHubErrors : health' = Unavailable(e.code)
       \/ ~configured /\ health' = [configured |-> FALSE, available |-> FALSE, error |-> None]
    /\ UNCHANGED <<configured, pc, pulls, issues, ci, failures, error, saved, other>>

Step ==
    \/ MetadataRead \/ MetadataFails \/ IssuesEnd \/ CiEnds \/ PullsListed \/ PartsRead
    \/ \E i \in 1 .. MaxPulls : LookedUp(i)

Next == Collect \/ Step \/ Probe

\* GitHub answers, or the request fails.
Spec == Init /\ [][Next]_vars /\ WF_vars(Step)

-----------------------------------------------------------------------------
(* The project, whose snapshot has the two results. *)

\* computeAttention: null, as None, when something it counts is not known.
Attention(results) ==
    LET failing == Cardinality({i \in DOMAIN results : results[i].state = "failure"})
    IN  [failingCi |-> IF failing = 0 /\ \A i \in DOMAIN results : results[i].state = "unknown"
                         THEN None ELSE failing,
         openPullRequests |-> IF \E i \in DOMAIN results : results[i].pulls = "none" THEN None ELSE "sum",
         attentionIssues |-> IF \E i \in DOMAIN results : results[i].issues = "none" THEN None ELSE "sum"]

\* computeFreshness: one repository of several that is unavailable makes it partial.
Freshness(results) ==
    LET found == {results[i].freshness : i \in DOMAIN results}
    IN  CASE found = {"unavailable"} -> "unavailable"
          [] "unavailable" \in found /\ found # {"unavailable"} -> "partial"
          [] "unavailable" \notin found /\ "stale" \in found -> "stale"
          [] {"unavailable", "stale"} \cap found = {} /\ "partial" \in found -> "partial"
          [] found = {"fresh"} -> "fresh"

\* buildProjectSummary, for the repositories the configuration has now: one that the
\* snapshot does not know is unavailable.
Summary(repositories) ==
    LET results == <<saved, other>>
    IN  [repositories |-> [i \in repositories |->
            IF health.configured /\ i \in DOMAIN results THEN results[i].freshness ELSE "unavailable"],
         attention |-> Attention(results),
         freshness |-> IF health.configured THEN Freshness(results) ELSE "unavailable"]

-----------------------------------------------------------------------------
(* Properties. *)

TypeOK ==
    /\ pc \in {"idle", "metadata", "parts"}
    /\ pulls.at \in {"list", "lookup", "new", "failed"} /\ Cardinality(pulls.busy) <= Concurrency
    /\ issues \in {"asked", "new", "failed"}
    /\ ci \in {"asked", "failed", "unknown", "failure", "pending", "success", "neutral"}
    /\ (error = None) <=> (pc # "parts" \/ failures = {})
    /\ health.available => health.error = None

\* When the list of pull requests is complete every one of them was looked up once, and has
\* the answer in its own place, however the workers took turns.
LookupsComplete ==
    /\ pulls.busy \subseteq {i \in DOMAIN pulls.got : pulls.got[i] = "none"}
    /\ pulls.at = "new" => \A i \in DOMAIN pulls.got : pulls.got[i] # "none"

Ages(result) == {result.meta, result.pulls, result.issues, result.ci}

\* What a result mixes it admits: only one whose every part was read now is fresh; a partial
\* one has new metadata and lacks something new; a stale one holds nothing new; and an
\* unavailable one nothing at all.  A CI state other than "unknown" was read once.
Admits(result) ==
    /\ result.freshness = "fresh" <=> Ages(result) = {"new"} /\ result.error = None
    /\ result.freshness = "partial" =>
         result.meta = "new" /\ Ages(result) # {"new"} /\ result.error # None
    /\ result.freshness = "stale" => result.meta = "old" /\ "new" \notin Ages(result)
    /\ result.freshness = "unavailable" <=> Ages(result) = {"none"}
    /\ result.ci = "none" => result.state = "unknown"

\* Whatever parts of however many collections failed, the saved result admits its ages.
ResultAdmits == pc = "idle" => Admits(saved)

Results ==
    LET ages == {"new", "old", "none"}
    IN  [meta : ages, pulls : ages, issues : ages, ci : ages,
         state : {"unknown", "failure", "pending", "success", "neutral"},
         freshness : {"fresh", "partial", "stale", "unavailable"}, error : Codes \cup {None}]

ASSUME OthersAssumption == \A result \in Others : result \in Results /\ Admits(result)

\* The project's summary claims no more than its repositories: it is fresh only if all of
\* them are.  Pull requests and attention issues are counted only when each repository's were
\* read, now or earlier, so that zero means none.  Failing CI is counted as soon as one
\* repository's state is known: zero says only that no known state is a failure, although
\* another repository could never be read, and it is not counted when nothing was read.
SummaryAdmits ==
    pc = "idle" =>
        LET summary == Summary({1, 2})
        IN  /\ summary.freshness = "fresh" => Ages(saved) \cup Ages(other) = {"new"}
            /\ summary.freshness = "unavailable" <=>
                 \A i \in {1, 2} : summary.repositories[i] = "unavailable"
            /\ summary.attention.openPullRequests = None <=> "none" \in {saved.pulls, other.pulls}
            /\ summary.attention.attentionIssues = None <=> "none" \in {saved.issues, other.issues}
            /\ summary.attention.failingCi = 0 => "failure" \notin {saved.state, other.state}
            /\ summary.attention.failingCi # None => {saved.ci, other.ci} # {"none"}

\* When a collection ends whose failures were all such as no other request could escape, the
\* health report shows it; when none was, it is available again, or as it was if the metadata
\* failed.  Of a mixture nothing is said: there the failure that arrives last decides.
HealthFollows ==
    [][pc # "idle" /\ pc' = "idle" =>
         LET codes == failures \cup (IF pc = "metadata" THEN {saved'.error} ELSE {})
         IN  /\ codes # {} /\ codes \subseteq Serious => ~health'.available /\ health'.error \in codes
             /\ codes \cap Serious = {} => IF pc = "parts" THEN health'.available ELSE health' = health]_vars

CollectionInv == TypeOK /\ LookupsComplete /\ ResultAdmits /\ SummaryAdmits

\* Every collection ends, whichever of its requests fail.
CollectionsEnd == pc # "idle" ~> pc = "idle"
=============================================================================
