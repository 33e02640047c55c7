----------------------- MODULE GitHubCollection_proofs -----------------------
(***************************************************************************)
(* Theorems about GitHubCollection, for any number of pull requests and    *)
(* workers and any refusals.  The inductive invariant says of a collection *)
(* under way what CollectionInv says of a finished one: where the workers  *)
(* are among the pull requests, that the previous result holds nothing     *)
(* new, and that an error is recorded exactly when a part has failed.      *)
(***************************************************************************)
EXTENDS GitHubCollection, FiniteSetTheorems, TLAPS

CiStates == {"unknown", "failure", "pending", "success", "neutral"}
AgeSet == {"new", "old", "none"}

PullsShape(p) == p = [at |-> p.at, next |-> p.next, busy |-> p.busy, got |-> p.got]

Known == {"looked up", "unknown"}
Answered(n) == [1 .. n -> {"none"} \cup Known]

\* Those of n pull requests whose state is known.
Done(n, got) == {k \in 1 .. n : got[k] # "none"}

\* The workers of n pull requests: what was taken, all before next, is busy or done.
Turns(n, next, busy, got) ==
    /\ next \in 1 .. (n + 1) /\ busy \subseteq 1 .. (next - 1)
    /\ got \in Answered(n)
    /\ Done(n, got) = (1 .. (next - 1)) \ busy
    /\ IsFiniteSet(busy) /\ Cardinality(busy) <= Concurrency

Working(p, n) ==
    /\ p.at \in {"list", "lookup", "new", "failed"}
    /\ Turns(n, p.next, p.busy, p.got)
    /\ p.at = "new" => p.next = n + 1 /\ p.busy = {}

Workers(p) == PullsShape(p) /\ \E n \in Nat : Working(p, n)

\* The previous result, while a collection is under way.
Previous(result) ==
    /\ result.freshness = "unavailable" /\ result.error = None
    /\ "new" \notin Ages(result)
    /\ result.meta = "none" => Ages(result) = {"none"}
    /\ result.ci = "none" => result.state = "unknown"

Recorded ==
    /\ error \in failures \cup {None} /\ failures \subseteq Codes
    /\ error = None <=> failures = {}
    /\ failures = {} <=> (pulls.at # "failed" /\ issues # "failed" /\ ci # "failed")

Health ==
    /\ health \in [configured : BOOLEAN, available : BOOLEAN, error : Codes \cup {None}]
    /\ health.available => health.error = None

Shape ==
    /\ configured \in BOOLEAN
    /\ pc \in {"idle", "metadata", "parts"}
    /\ issues \in {"asked", "new", "failed"}
    /\ ci \in {"asked", "failed"} \cup CiStates
    /\ saved \in Results
    /\ other \in Results

IInv ==
    /\ Shape /\ Workers(pulls) /\ Health /\ Recorded
    /\ pc # "parts" => failures = {}
    /\ pc = "idle" => Admits(saved) /\ Admits(other)
    /\ pc # "idle" => Previous(saved)

-----------------------------------------------------------------------------
(* The source's errors and answers. *)

LEMMA ClassifyTells ==
    ASSUME NEW e \in Refusals
    PROVE  Classify(e).code \in Codes
<1>1. e.status \in Nat
  BY RefusalAssumption
<1> QED BY <1>1 DEF Classify, Failure, Codes

LEMMA ErrorsHaveCodes ==
    /\ \A e \in GitHubErrors : e.code \in Codes
    /\ \A e \in Errors : e.code \in Codes
<1>1. \A e \in GitHubErrors : e.code \in Codes
  BY ClassifyTells DEF GitHubErrors
<1>2. Failure("unconfigured", None).code \in Codes
  BY DEF Failure, Codes
<1> QED BY <1>1, <1>2 DEF Errors

\* Every mixture of check runs and statuses has a state.
LEMMA AggregateTells ==
    ASSUME NEW checks, NEW statuses
    PROVE  AggregateCiState(checks, statuses) \in CiStates
BY DEF AggregateCiState, CiStates

\* The state of a commit is known, or an error says why it is not.
LEMMA CommitStateOrError ==
    ASSUME NEW c \in CommitCiStates
    PROVE  /\ c.error = None => c.state \in CiStates
           /\ c.error # None => c.error.code \in Codes
<1>1. PICK x \in Answers(CheckSets), y \in Answers(StatusSets) : c = CommitCiState(x, y)
  BY DEF CommitCiStates
<1>2. /\ x.error # None => x.error \in GitHubErrors
      /\ y.error # None => y.error \in GitHubErrors
  BY DEF Answers
<1>3. CASE x.error # None /\ ~Tolerated(x.error)
  <2>1. c.error = x.error
    BY <1>1, <1>3 DEF CommitCiState
  <2> QED BY <1>2, <1>3, <2>1, ErrorsHaveCodes
<1>4. CASE ~(x.error # None /\ ~Tolerated(x.error)) /\ y.error # None /\ ~Tolerated(y.error)
  <2>1. c.error = y.error
    BY <1>1, <1>4 DEF CommitCiState
  <2> QED BY <1>2, <1>4, <2>1, ErrorsHaveCodes
<1>5. CASE ~(x.error # None /\ ~Tolerated(x.error)) /\ ~(y.error # None /\ ~Tolerated(y.error))
  <2>1. c.error = None /\ c.state = AggregateCiState(x.seen, y.seen)
    BY <1>1, <1>5 DEF CommitCiState
  <2> QED BY <2>1, AggregateTells
<1> QED BY <1>3, <1>4, <1>5

-----------------------------------------------------------------------------
(* The lookups of the pull requests. *)

LEMMA UnaskedWorks ==
    /\ Workers(Unasked) /\ Workers([Unasked EXCEPT !.at = "failed"])
    /\ Unasked.at = "list" /\ [Unasked EXCEPT !.at = "failed"].at = "failed"
<1> DEFINE failed == [Unasked EXCEPT !.at = "failed"]
<1>1. Unasked = [at |-> "list", next |-> 1, busy |-> {}, got |-> [i \in {} |-> "none"]]
  BY DEF Unasked
<1>2. failed = [at |-> "failed", next |-> 1, busy |-> {}, got |-> [i \in {} |-> "none"]]
  <2>1. ASSUME NEW g
        PROVE  [[at |-> "list", next |-> 1, busy |-> {}, got |-> g] EXCEPT !.at = "failed"]
                 = [at |-> "failed", next |-> 1, busy |-> {}, got |-> g]
    OBVIOUS
  <2> QED BY <1>1, <2>1
<1>3. [i \in {} |-> "none"] \in Answered(0)
  BY DEF Answered
<1>4. IsFiniteSet({}) /\ Cardinality({}) = 0 /\ 0 <= Concurrency
  BY FS_EmptySet, CollectionAssumption
<1> HIDE DEF failed
<1>5. PullsShape(Unasked) /\ Working(Unasked, 0)
  BY <1>1, <1>3, <1>4 DEF PullsShape, Working, Turns, Done
<1>6. PullsShape(failed) /\ Working(failed, 0)
  BY <1>2, <1>3, <1>4 DEF PullsShape, Working, Turns, Done
<1> QED BY <1>1, <1>2, <1>5, <1>6 DEF Workers, failed

\* The list of n pull requests, with the first of them busy.
LEMMA ListedWorks ==
    ASSUME NEW n \in Nat
    PROVE  Workers([at |-> IF n = 0 THEN "new" ELSE "lookup", next |-> Smaller(Concurrency, n) + 1,
                    busy |-> 1 .. Smaller(Concurrency, n), got |-> [i \in 1 .. n |-> "none"]])
<1> DEFINE m == Smaller(Concurrency, n)
<1> DEFINE p == [at |-> IF n = 0 THEN "new" ELSE "lookup", next |-> m + 1, busy |-> 1 .. m,
                 got |-> [i \in 1 .. n |-> "none"]]
<1>1. m \in Nat /\ m <= n /\ m <= Concurrency /\ (n = 0 => m = 0)
  BY CollectionAssumption DEF Smaller
<1>2. IsFiniteSet(1 .. m) /\ Cardinality(1 .. m) = m
  <2> HIDE DEF m
  <2>1. 1 \in Int /\ m \in Int
    BY <1>1
  <2>2. IsFiniteSet(1 .. m) /\ Cardinality(1 .. m) = IF 1 > m THEN 0 ELSE m - 1 + 1
    BY <2>1, FS_Interval
  <2> QED BY <1>1, <2>2
<1> HIDE DEF m
<1>3. PullsShape(p)
  BY DEF PullsShape
<1>4. Working(p, n)
  BY <1>1, <1>2 DEF Working, Turns, Done, Answered, Known
<1> QED BY <1>3, <1>4 DEF Workers, m

Replaced(got, i, state) == [got EXCEPT ![i] = state]

LEMMA AnswerIsDone ==
    ASSUME NEW n \in Nat, NEW got \in Answered(n), NEW i \in 1 .. n,
           NEW state \in Known
    PROVE  /\ Replaced(got, i, state) \in Answered(n)
           /\ Done(n, Replaced(got, i, state)) = Done(n, got) \cup {i}
<1> DEFINE indices == 1 .. n
<1> DEFINE got2 == Replaced(got, i, state)
<1>1. got \in [indices -> {"none"} \cup Known] /\ i \in indices
  BY DEF Answered
<1>2. Done(n, got) = {k \in indices : got[k] # "none"}
  BY DEF Done
<1>3. Done(n, got2) = {k \in indices : got2[k] # "none"}
  BY DEF Done
<1> HIDE DEF indices
<1>4. got2 \in [indices -> {"none"} \cup Known]
  BY <1>1 DEF Replaced
<1>5. Done(n, got2) = Done(n, got) \cup {i}
  BY <1>1, <1>2, <1>3 DEF Known, Replaced
<1> QED BY <1>4, <1>5 DEF indices, Answered

\* One worker's turn, with the parts of pulls by themselves.
LEMMA WorkerTurn ==
    ASSUME NEW n \in Nat, NEW next \in Int, NEW busy \in SUBSET Int, NEW got, Turns(n, next, busy, got),
           NEW i \in busy, NEW state \in Known
    PROVE  LET left == DOMAIN got \cap {next}
               rest == (busy \ {i}) \cup left
           IN  /\ Turns(n, next + Cardinality(left), rest, [got EXCEPT ![i] = state])
               /\ rest = {} => next + Cardinality(left) = n + 1
<1> DEFINE left == DOMAIN got \cap {next}
<1> DEFINE rest == (busy \ {i}) \cup left
<1> DEFINE next2 == next + Cardinality(left)
<1> DEFINE got2 == [got EXCEPT ![i] = state]
<1>1. next \in 1 .. (n + 1) /\ busy \subseteq 1 .. (next - 1)
  BY DEF Turns
<1>0. i \in 1 .. n
  BY <1>1
<1>2. Done(n, got) = (1 .. (next - 1)) \ busy
  BY DEF Turns
<1>3. IsFiniteSet(busy) /\ Cardinality(busy) <= Concurrency /\ Cardinality(busy) \in Nat
  BY FS_CardinalityType DEF Turns
<1>4. got \in Answered(n)
  BY DEF Turns
<1>5. /\ got2 \in Answered(n)
      /\ Done(n, got2) = ((1 .. (next - 1)) \ busy) \cup {i}
  <2>1. got2 = Replaced(got, i, state)
    BY DEF Replaced
  <2> HIDE DEF got2
  <2>2. Replaced(got, i, state) \in Answered(n)
    BY <1>0, <1>4, AnswerIsDone
  <2>3. Done(n, Replaced(got, i, state)) = Done(n, got) \cup {i}
    BY <1>0, <1>4, AnswerIsDone
  <2> QED BY <1>2, <2>1, <2>2, <2>3
<1>6. IsFiniteSet(busy \ {i}) /\ Cardinality(busy \ {i}) = Cardinality(busy) - 1
  BY <1>3, FS_RemoveElement
<1>7. left = {next} \cap 1 .. n
  BY <1>4 DEF Answered
<1> HIDE DEF left, got2
<1>8. CASE next <= n
  <2>1. left = {next} /\ next \notin busy
    BY <1>1, <1>7, <1>8
  <2>2. next2 = next + 1
    BY <1>1, <2>1, FS_Singleton
  <2>3. rest = (busy \ {i}) \cup {next} /\ next \notin busy \ {i}
    BY <2>1
  <2>4. IsFiniteSet(rest) /\ Cardinality(rest) <= Concurrency
    <3>1. IsFiniteSet(rest) /\ Cardinality(rest) = Cardinality(busy \ {i}) + 1
      BY <1>6, <2>3, FS_AddElement
    <3> QED BY <1>3, <1>6, <3>1, CollectionAssumption
  <2> HIDE DEF rest, next2
  <2>5. Done(n, got2) = (1 .. (next2 - 1)) \ rest
    BY <1>0, <1>1, <1>5, <2>2, <2>3
  <2>6. next2 \in 1 .. (n + 1) /\ rest \subseteq 1 .. (next2 - 1) /\ rest # {}
    BY <1>1, <1>8, <2>2, <2>3
  <2>7. Turns(n, next2, rest, got2)
    BY <1>5, <2>4, <2>5, <2>6 DEF Turns
  <2> QED BY <2>6, <2>7 DEF rest, next2, got2, left
<1>9. CASE ~(next <= n)
  <2>1. left = {} /\ next = n + 1
    BY <1>1, <1>7, <1>9
  <2>2. next2 = next
    BY <1>1, <2>1, FS_EmptySet
  <2>3. rest = busy \ {i}
    BY <2>1
  <2>4. IsFiniteSet(rest) /\ Cardinality(rest) <= Concurrency
    BY <1>3, <1>6, <2>3, CollectionAssumption
  <2> HIDE DEF rest, next2
  <2>5. Done(n, got2) = (1 .. (next2 - 1)) \ rest
    BY <1>0, <1>1, <1>5, <2>2, <2>3
  <2>6. next2 = n + 1 /\ next2 \in 1 .. (n + 1) /\ rest \subseteq 1 .. (next2 - 1)
    BY <1>1, <2>1, <2>2, <2>3
  <2>7. Turns(n, next2, rest, got2)
    BY <1>5, <2>4, <2>5, <2>6 DEF Turns
  <2> QED BY <2>6, <2>7 DEF rest, next2, got2, left
<1> QED BY <1>1, <1>8, <1>9

\* A worker stores its answer and takes the next pull request, if there is one.
LEMMA StoredWorks ==
    ASSUME Workers(pulls), NEW i \in pulls.busy, NEW state \in Known
    PROVE  Workers(Stored(i, state)) /\ Stored(i, state).at \in {"new", "lookup"}
<1> DEFINE left == DOMAIN pulls.got \cap {pulls.next}
<1> DEFINE rest == (pulls.busy \ {i}) \cup left
<1> DEFINE next2 == pulls.next + Cardinality(left)
<1> DEFINE got2 == [pulls.got EXCEPT ![i] = state]
<1> DEFINE q == [at |-> IF rest = {} THEN "new" ELSE "lookup", next |-> next2, busy |-> rest, got |-> got2]
<1>1. PICK n \in Nat : Turns(n, pulls.next, pulls.busy, pulls.got)
  BY DEF Workers, Working
<1>2. Turns(n, next2, rest, got2) /\ (rest = {} => next2 = n + 1)
  <2>1. pulls.next \in Int
    BY <1>1 DEF Turns
  <2>2. pulls.busy \in SUBSET Int
    BY <1>1, <2>1 DEF Turns
  <2> QED BY <1>1, <2>1, <2>2, WorkerTurn
<1>3. Stored(i, state) = q
  BY DEF Stored
<1> HIDE DEF left, rest, next2, got2
<1>4. /\ q.at \in {"new", "lookup"} /\ (q.at = "new" => rest = {})
      /\ q.next = next2 /\ q.busy = rest /\ q.got = got2
  OBVIOUS
<1>5. PullsShape(q)
  BY DEF PullsShape
<1> HIDE DEF q
<1>6. Working(q, n)
  BY <1>2, <1>4 DEF Working
<1> QED BY <1>3, <1>4, <1>5, <1>6 DEF Workers

\* A list that fails is not looked at any more.
LEMMA FailedWorks ==
    ASSUME NEW p, Workers(p)
    PROVE  /\ [p EXCEPT !.at = "failed"].at = "failed"
           /\ Workers([p EXCEPT !.at = "failed"])
<1> DEFINE q == [p EXCEPT !.at = "failed"]
<1>1. PICK n \in Nat : Working(p, n) /\ PullsShape(p)
  BY DEF Workers
<1>2. /\ q.at = "failed" /\ q.next = p.next /\ q.busy = p.busy /\ q.got = p.got
      /\ PullsShape(q)
  BY <1>1 DEF PullsShape
<1> HIDE DEF q
<1>3. Working(q, n)
  BY <1>1, <1>2 DEF Working
<1> QED BY <1>2, <1>3 DEF Workers, q

-----------------------------------------------------------------------------
(* Results. *)

LEMMA NoneIsNoCode ==
    None \notin Codes /\ None \notin Serious /\ Serious \subseteq Codes /\ None # "sum"
BY NoneAssumption DEF Codes, Serious

LEMMA UnreadIsResult ==
    Unread \in Results /\ Admits(Unread) /\ Previous(Unread)
BY NoneIsNoCode DEF Unread, Results, Admits, Previous, Ages

Holding(x, m, p, i, c, s) ==
    [x EXCEPT !.meta = m, !.pulls = p, !.issues = i, !.ci = c, !.state = s]

LEMMA HoldingIsResult ==
    ASSUME NEW x \in Results, NEW m \in AgeSet, NEW p \in AgeSet, NEW i \in AgeSet,
           NEW c \in AgeSet, NEW s \in CiStates
    PROVE  Holding(x, m, p, i, c, s) \in Results
BY DEF Holding, Results, AgeSet, CiStates

\* A finished result is a previous one for the next collection.
LEMMA AgedIsPrevious ==
    ASSUME NEW r \in Results, Admits(r)
    PROVE  Aged(r) \in Results /\ Previous(Aged(r))
<1> DEFINE aged(age) == IF age = "new" THEN "old" ELSE age
<1>1. /\ Aged(r).meta = aged(r.meta) /\ Aged(r).pulls = aged(r.pulls)
      /\ Aged(r).issues = aged(r.issues) /\ Aged(r).ci = aged(r.ci)
      /\ Aged(r).freshness = "unavailable" /\ Aged(r).error = None /\ Aged(r).state = r.state
  BY DEF Aged, Unread
<1>2. Aged(r) \in Results
  <2>1. /\ aged(r.meta) \in AgeSet /\ aged(r.pulls) \in AgeSet
        /\ aged(r.issues) \in AgeSet /\ aged(r.ci) \in AgeSet /\ r.state \in CiStates
    BY DEF Results, AgeSet, CiStates
  <2>2. Aged(r) = Holding(Unread, aged(r.meta), aged(r.pulls), aged(r.issues), aged(r.ci), r.state)
    BY DEF Aged, Holding
  <2> HIDE DEF aged
  <2> QED BY <2>1, <2>2, UnreadIsResult, HoldingIsResult
<1>3. /\ r.meta \in AgeSet /\ r.pulls \in AgeSet /\ r.issues \in AgeSet /\ r.ci \in AgeSet
      /\ r.freshness \in {"fresh", "partial", "stale", "unavailable"}
  BY DEF Results, AgeSet
<1>4. (r.meta = "none" => Ages(r) = {"none"}) /\ (r.ci = "none" => r.state = "unknown")
  BY <1>3 DEF Admits, Ages
<1>5. Previous(Aged(r))
  BY <1>1, <1>3, <1>4 DEF Previous, Ages, AgeSet
<1> QED BY <1>2, <1>5

\* Without metadata the previous result is kept, or there is none.
LEMMA KeptAdmits ==
    ASSUME NEW r \in Results, Previous(r), NEW code \in Codes
    PROVE  LET kept == [r EXCEPT !.freshness = IF r.meta = "none" THEN "unavailable" ELSE "stale",
                                 !.error = code]
           IN  kept \in Results /\ Admits(kept) /\ kept.error = code
<1> DEFINE fresh == IF r.meta = "none" THEN "unavailable" ELSE "stale"
<1> DEFINE kept == [r EXCEPT !.freshness = fresh, !.error = code]
<1>1. /\ kept.meta = r.meta /\ kept.pulls = r.pulls /\ kept.issues = r.issues /\ kept.ci = r.ci
      /\ kept.freshness = fresh /\ kept.error = code /\ kept.state = r.state
  BY DEF Results
<1>2. kept \in Results
  BY DEF Results
<1>3. r.meta \in AgeSet
  BY DEF Results, AgeSet
<1> HIDE DEF kept
<1>4. Admits(kept)
  BY <1>1, <1>3, NoneIsNoCode DEF Admits, Previous, Ages, AgeSet
<1> QED BY <1>1, <1>2, <1>4 DEF kept

-----------------------------------------------------------------------------
(* The summary of the project. *)

LEMMA Pair ==
    ASSUME NEW a, NEW b
    PROVE  DOMAIN <<a, b>> = {1, 2} /\ <<a, b>>[1] = a /\ <<a, b>>[2] = b
OBVIOUS

LEMMA FreshnessClaims ==
    ASSUME NEW a \in Results, NEW b \in Results
    PROVE  /\ Freshness(<<a, b>>) = "fresh" => a.freshness = "fresh" /\ b.freshness = "fresh"
           /\ Freshness(<<a, b>>) = "unavailable" <=>
                a.freshness = "unavailable" /\ b.freshness = "unavailable"
<1> DEFINE found == {<<a, b>>[i].freshness : i \in DOMAIN <<a, b>>}
<1>1. found = {a.freshness, b.freshness}
  BY Pair
<1>2. /\ a.freshness \in {"fresh", "partial", "stale", "unavailable"}
      /\ b.freshness \in {"fresh", "partial", "stale", "unavailable"}
  BY DEF Results
<1>3. Freshness(<<a, b>>) =
        CASE found = {"unavailable"} -> "unavailable"
          [] "unavailable" \in found /\ found # {"unavailable"} -> "partial"
          [] "unavailable" \notin found /\ "stale" \in found -> "stale"
          [] {"unavailable", "stale"} \cap found = {} /\ "partial" \in found -> "partial"
          [] found = {"fresh"} -> "fresh"
  BY DEF Freshness
<1> HIDE DEF found
<1> QED BY <1>1, <1>2, <1>3

LEMMA AttentionCounts ==
    ASSUME NEW a \in Results, NEW b \in Results
    PROVE  LET attention == Attention(<<a, b>>)
           IN  /\ attention.openPullRequests = None <=> "none" \in {a.pulls, b.pulls}
               /\ attention.attentionIssues = None <=> "none" \in {a.issues, b.issues}
               /\ attention.failingCi = 0 => "failure" \notin {a.state, b.state}
               /\ attention.failingCi = None <=> {a.state, b.state} = {"unknown"}
<1> DEFINE results == <<a, b>>
<1> DEFINE failed == {i \in DOMAIN results : results[i].state = "failure"}
<1> DEFINE attention == Attention(results)
<1>1. DOMAIN results = {1, 2} /\ results[1] = a /\ results[2] = b
  BY Pair
<1>2. /\ attention.failingCi = IF Cardinality(failed) = 0 /\ \A i \in DOMAIN results : results[i].state = "unknown"
                                 THEN None ELSE Cardinality(failed)
      /\ attention.openPullRequests = IF \E i \in DOMAIN results : results[i].pulls = "none" THEN None ELSE "sum"
      /\ attention.attentionIssues = IF \E i \in DOMAIN results : results[i].issues = "none" THEN None ELSE "sum"
  BY DEF Attention
<1> HIDE DEF results
<1>3. IsFiniteSet(failed)
  <2>1. IsFiniteSet({1, 2})
    <3>1. {1, 2} = {1} \cup {2}
      OBVIOUS
    <3>2. IsFiniteSet({1}) /\ IsFiniteSet({2})
      BY FS_Singleton
    <3> QED BY <3>1, <3>2, FS_Union
  <2> QED BY <1>1, <2>1, FS_Subset
<1>4. Cardinality(failed) \in Nat /\ (Cardinality(failed) = 0 <=> failed = {})
  BY <1>3, FS_CardinalityType, FS_EmptySet
<1>5. Cardinality(failed) # None
  BY <1>4, NoneAssumption
<1>6. failed = {} <=> a.state # "failure" /\ b.state # "failure"
  BY <1>1
<1>7. (\A i \in DOMAIN results : results[i].state = "unknown") <=> {a.state, b.state} = {"unknown"}
  BY <1>1
<1>8. /\ attention.openPullRequests = None <=> "none" \in {a.pulls, b.pulls}
      /\ attention.attentionIssues = None <=> "none" \in {a.issues, b.issues}
  BY <1>1, <1>2, NoneIsNoCode
<1> HIDE DEF failed, attention
<1>9. attention.failingCi = 0 => "failure" \notin {a.state, b.state}
  <2>1. CASE {a.state, b.state} = {"unknown"}
    BY <2>1
  <2>2. CASE {a.state, b.state} # {"unknown"}
    BY <1>2, <1>4, <1>6, <1>7, <2>2
  <2> QED BY <2>1, <2>2
<1>10. attention.failingCi = None <=> {a.state, b.state} = {"unknown"}
  <2>1. {a.state, b.state} = {"unknown"} => failed = {}
    BY <1>6
  <2> QED BY <1>2, <1>4, <1>5, <1>7, <2>1
<1> QED BY <1>8, <1>9, <1>10 DEF attention, results

LEMMA SummaryIsAdmitted ==
    ASSUME saved \in Results, other \in Results, Admits(saved), Admits(other)
    PROVE  SummaryAdmits
<1> DEFINE results == <<saved, other>>
<1> DEFINE summary == Summary({1, 2})
<1>1. /\ summary.repositories = [i \in {1, 2} |->
            IF health.configured /\ i \in DOMAIN results THEN results[i].freshness ELSE "unavailable"]
      /\ summary.attention = Attention(results)
      /\ summary.freshness = IF health.configured THEN Freshness(results) ELSE "unavailable"
  BY DEF Summary
<1>2. DOMAIN results = {1, 2} /\ results[1] = saved /\ results[2] = other
  BY Pair
<1>3. /\ Freshness(results) = "fresh" => saved.freshness = "fresh" /\ other.freshness = "fresh"
      /\ Freshness(results) = "unavailable" <=>
           saved.freshness = "unavailable" /\ other.freshness = "unavailable"
  BY FreshnessClaims
<1>4. /\ Attention(results).openPullRequests = None <=> "none" \in {saved.pulls, other.pulls}
      /\ Attention(results).attentionIssues = None <=> "none" \in {saved.issues, other.issues}
      /\ Attention(results).failingCi = 0 => "failure" \notin {saved.state, other.state}
      /\ Attention(results).failingCi = None <=> {saved.state, other.state} = {"unknown"}
  BY AttentionCounts
<1> HIDE DEF results, summary
<1>5. /\ summary.repositories[1] = IF health.configured THEN saved.freshness ELSE "unavailable"
      /\ summary.repositories[2] = IF health.configured THEN other.freshness ELSE "unavailable"
  BY <1>1, <1>2
<1>6. summary.freshness = "fresh" => Ages(saved) \cup Ages(other) = {"new"}
  BY <1>1, <1>3 DEF Admits
<1>7. summary.freshness = "unavailable" <=> \A i \in {1, 2} : summary.repositories[i] = "unavailable"
  BY <1>1, <1>3, <1>5
<1>8. /\ summary.attention.openPullRequests = None <=> "none" \in {saved.pulls, other.pulls}
      /\ summary.attention.attentionIssues = None <=> "none" \in {saved.issues, other.issues}
      /\ summary.attention.failingCi = 0 => "failure" \notin {saved.state, other.state}
      /\ summary.attention.failingCi = None <=> {saved.state, other.state} = {"unknown"}
  BY <1>1, <1>4
<1>9. summary.attention.failingCi # None => {saved.ci, other.ci} # {"none"}
  BY <1>8 DEF Admits
<1> QED BY <1>6, <1>7, <1>8, <1>9 DEF SummaryAdmits, summary

-----------------------------------------------------------------------------
(* The invariant. *)

LEMMA InitIsConsistent == Init => IInv
<1> SUFFICES ASSUME Init PROVE IInv
  OBVIOUS
<1>1. Workers(pulls) /\ pulls.at = "list"
  BY UnaskedWorks DEF Init
<1>2. Shape
  BY UnreadIsResult, OthersAssumption DEF Init, Shape
<1>3. Health
  BY DEF Init, Health
<1>4. Recorded
  BY <1>1 DEF Init, Recorded
<1>5. (pc # "parts" => failures = {}) /\ pc = "idle" /\ Admits(saved) /\ Admits(other)
  BY UnreadIsResult, OthersAssumption DEF Init
<1> QED BY <1>1, <1>2, <1>3, <1>4, <1>5 DEF IInv

\* The result that a collection ends with is saved.
LEMMA SaveIsConsistent ==
    ASSUME IInv, NEW r \in Results, Admits(r), Save(r), configured' = configured, Health'
    PROVE  IInv'
<1>1. Workers(pulls') /\ pulls'.at = "list"
  BY UnaskedWorks DEF Save
<1>2. Shape'
  BY OthersAssumption DEF Save, IInv, Shape
<1>3. Recorded'
  BY <1>1 DEF Save, Recorded
<1>4. pc' = "idle" /\ failures' = {} /\ Admits(saved') /\ Admits(other')
  BY OthersAssumption DEF Save
<1> QED BY <1>1, <1>2, <1>3, <1>4 DEF IInv

LEMMA CollectPreserves == IInv /\ Collect => IInv'
<1> SUFFICES ASSUME IInv, Collect PROVE IInv'
  OBVIOUS
<1>1. saved' \in Results /\ Previous(saved')
  BY AgedIsPrevious DEF IInv, Shape, Collect
<1>2. Shape'
  BY <1>1, UnreadIsResult DEF IInv, Shape, Collect
<1>3. Health' /\ Workers(pulls')
  BY DEF IInv, Health, Collect
<1>4. Recorded'
  BY DEF IInv, Recorded, Collect
<1> QED BY <1>1, <1>2, <1>3, <1>4 DEF IInv, Collect

LEMMA MetadataFailsPreserves == IInv /\ MetadataFails => IInv'
<1> SUFFICES ASSUME IInv, MetadataFails PROVE IInv'
  OBVIOUS
<1> DEFINE kept(code) == [saved EXCEPT !.freshness = IF saved.meta = "none" THEN "unavailable" ELSE "stale",
                                       !.error = code]
<1>1. PICK e \in Errors :
        /\ health' = IF e.code \in Serious THEN Unavailable(e.code) ELSE health
        /\ Save(kept(e.code))
  BY DEF MetadataFails
<1>2. e.code \in Codes
  BY ErrorsHaveCodes
<1>3. saved \in Results /\ Previous(saved) /\ configured' = configured
  BY DEF IInv, Shape, MetadataFails
<1>4. kept(e.code) \in Results /\ Admits(kept(e.code))
  BY <1>2, <1>3, KeptAdmits
<1>5. Health'
  BY <1>1, <1>2 DEF IInv, Health, Unavailable
<1> HIDE DEF kept
<1> QED BY <1>1, <1>3, <1>4, <1>5, SaveIsConsistent

LEMMA MetadataReadPreserves == IInv /\ MetadataRead => IInv'
<1> SUFFICES ASSUME IInv, MetadataRead PROVE IInv'
  OBVIOUS
<1>1. Shape' /\ Health' /\ Workers(pulls')
  BY DEF IInv, Shape, Health, MetadataRead
<1>2. Recorded'
  BY DEF IInv, Recorded, MetadataRead
<1> QED BY <1>1, <1>2 DEF IInv, MetadataRead

\* A part that fails is recorded, and so is its code.
LEMMA FailsIsRecorded ==
    ASSUME Recorded, NEW code \in Codes, Fails(code),
           pulls'.at = "failed" \/ issues' = "failed" \/ ci' = "failed"
    PROVE  Recorded'
BY NoneIsNoCode DEF Recorded, Fails

LEMMA IssuesEndPreserves == IInv /\ IssuesEnd => IInv'
<1> SUFFICES ASSUME IInv, IssuesEnd PROVE IInv'
  OBVIOUS
<1>1. Shape' /\ Health' /\ Workers(pulls')
  BY DEF IInv, Shape, Health, IssuesEnd
<1>2. Recorded'
  <2>1. CASE issues' = "new" /\ UNCHANGED <<error, failures>>
    BY <2>1 DEF IInv, Recorded, IssuesEnd
  <2>2. CASE issues' = "failed" /\ \E e \in GitHubErrors : Fails(e.code)
    BY <2>2, FailsIsRecorded, ErrorsHaveCodes DEF IInv
  <2> QED BY <2>1, <2>2 DEF IssuesEnd
<1> QED BY <1>1, <1>2 DEF IInv, IssuesEnd

LEMMA CiEndsPreserves == IInv /\ CiEnds => IInv'
<1> SUFFICES ASSUME IInv, CiEnds PROVE IInv'
  OBVIOUS
<1>1. Health' /\ Workers(pulls')
  BY DEF IInv, Health, CiEnds
<1>2. Shape' /\ Recorded'
  <2>1. ASSUME NEW code \in Codes, ci' = "failed", Fails(code)
        PROVE  Shape' /\ Recorded'
    BY <2>1, FailsIsRecorded DEF IInv, Shape, CiEnds
  <2>2. ASSUME NEW c \in CommitCiStates, c.error = None, ci' = c.state, UNCHANGED <<error, failures>>
        PROVE  Shape' /\ Recorded'
    <3>1. ci' \in CiStates
      BY <2>2, CommitStateOrError
    <3> QED BY <2>2, <3>1 DEF IInv, Shape, Recorded, CiEnds, CiStates
  <2> QED BY <2>1, <2>2, CommitStateOrError, ErrorsHaveCodes DEF CiEnds
<1> QED BY <1>1, <1>2 DEF IInv, CiEnds

LEMMA PullsListedPreserves == IInv /\ PullsListed => IInv'
<1> SUFFICES ASSUME IInv, PullsListed PROVE IInv'
  OBVIOUS
<1>1. Shape' /\ Health'
  BY DEF IInv, Shape, Health, PullsListed
<1>2. Workers(pulls') /\ Recorded'
  <2>1. ASSUME NEW n \in 0 .. MaxPulls,
               pulls' = [at |-> IF n = 0 THEN "new" ELSE "lookup", next |-> Smaller(Concurrency, n) + 1,
                         busy |-> 1 .. Smaller(Concurrency, n), got |-> [i \in 1 .. n |-> "none"]],
               UNCHANGED <<error, failures>>
        PROVE  Workers(pulls') /\ Recorded'
    <3>1. Workers(pulls')
      BY <2>1, ListedWorks
    <3>2. pulls'.at # "failed"
      BY <2>1
    <3>3. pulls.at # "failed"
      BY DEF PullsListed
    <3> QED BY <2>1, <3>1, <3>2, <3>3 DEF IInv, Recorded, PullsListed
  <2>2. ASSUME NEW e \in GitHubErrors, pulls' = [pulls EXCEPT !.at = "failed"], Fails(e.code)
        PROVE  Workers(pulls') /\ Recorded'
    <3>1. pulls'.at = "failed" /\ Workers(pulls')
      BY <2>2, FailedWorks DEF IInv
    <3> QED BY <2>2, <3>1, FailsIsRecorded, ErrorsHaveCodes DEF IInv
  <2> QED BY <2>1, <2>2 DEF PullsListed
<1> QED BY <1>1, <1>2 DEF IInv, PullsListed

LEMMA LookedUpPreserves == ASSUME IInv, NEW i, LookedUp(i) PROVE IInv'
<1>1. Shape' /\ Health'
  BY DEF IInv, Shape, Health, LookedUp
<1>2. Workers(pulls') /\ Recorded'
  <2>1. ASSUME NEW code \in Codes, pulls' = [Unasked EXCEPT !.at = "failed"], Fails(code)
        PROVE  Workers(pulls') /\ Recorded'
    <3>1. Workers(pulls') /\ pulls'.at = "failed"
      BY <2>1, UnaskedWorks
    <3> QED BY <2>1, <3>1, FailsIsRecorded DEF IInv
  <2>2. ASSUME NEW state \in Known, pulls' = Stored(i, state), UNCHANGED <<error, failures>>
        PROVE  Workers(pulls') /\ Recorded'
    <3>1. Workers(pulls') /\ pulls'.at \in {"new", "lookup"}
      BY <2>2, StoredWorks DEF IInv, LookedUp
    <3> QED BY <2>2, <3>1 DEF IInv, Recorded, LookedUp
  <2>3. PICK c \in CommitCiStates :
          IF c.error # None /\ c.error.code \in Serious
            THEN pulls' = [Unasked EXCEPT !.at = "failed"] /\ Fails(c.error.code)
            ELSE /\ pulls' = Stored(i, IF c.error = None THEN "looked up" ELSE "unknown")
                 /\ UNCHANGED <<error, failures>>
    BY DEF LookedUp
  <2>4. CASE c.error # None /\ c.error.code \in Serious
    BY <2>1, <2>3, <2>4, CommitStateOrError
  <2>5. CASE ~(c.error # None /\ c.error.code \in Serious)
    <3>1. (IF c.error = None THEN "looked up" ELSE "unknown") \in Known
      BY DEF Known
    <3> QED BY <2>2, <2>3, <2>5, <3>1
  <2> QED BY <2>4, <2>5
<1> QED BY <1>1, <1>2 DEF IInv, LookedUp

\* What was read now is new, and what was not is from the previous result.
LEMMA CollectedAdmits ==
    ASSUME IInv, pc = "parts", pulls.at \in {"new", "failed"}, issues # "asked", ci # "asked"
    PROVE  Collected \in Results /\ Admits(Collected) /\ Collected.error = error
<1>1. saved \in Results /\ Previous(saved) /\ Recorded /\ error \in Codes \cup {None}
  BY DEF IInv, Shape, Recorded
<1>2. /\ Collected.meta = "new" /\ Collected.error = error
      /\ Collected.pulls = IF pulls.at = "new" THEN "new" ELSE saved.pulls
      /\ Collected.issues = IF issues = "new" THEN "new" ELSE saved.issues
      /\ Collected.ci = IF ci # "failed" THEN "new" ELSE saved.ci
      /\ Collected.state = IF ci # "failed" THEN ci ELSE saved.state
      /\ Collected.freshness = IF error # None THEN "partial" ELSE "fresh"
  BY <1>1 DEF Collected, Results
<1>3. ci = "failed" \/ ci \in CiStates
  BY DEF IInv, Shape
<1>4. Collected \in Results
  BY <1>1, <1>3 DEF Collected, Results, CiStates
<1>5. error = None <=> pulls.at # "failed" /\ issues # "failed" /\ ci # "failed"
  BY <1>1 DEF Recorded
<1>6. issues \in {"new", "failed"}
  BY DEF IInv, Shape
<1>7. Admits(Collected)
  BY <1>1, <1>2, <1>5, <1>6 DEF Admits, Previous, Ages
<1> QED BY <1>2, <1>4, <1>7

LEMMA PartsReadPreserves == IInv /\ PartsRead => IInv'
<1> SUFFICES ASSUME IInv, PartsRead PROVE IInv'
  OBVIOUS
<1>1. Collected \in Results /\ Admits(Collected) /\ error \in Codes \cup {None}
  BY CollectedAdmits DEF PartsRead, IInv, Recorded
<1>2. Health'
  BY <1>1, NoneIsNoCode DEF IInv, Health, PartsRead, Unavailable
<1>3. Save(Collected) /\ configured' = configured
  BY DEF PartsRead
<1> QED BY <1>1, <1>2, <1>3, SaveIsConsistent

LEMMA ProbePreserves == IInv /\ Probe => IInv'
<1> SUFFICES ASSUME IInv, Probe PROVE IInv'
  OBVIOUS
<1>1. Health'
  <2>1. CASE \E on \in BOOLEAN : health' = [configured |-> on, available |-> on, error |-> None]
    BY <2>1 DEF Health
  <2>2. CASE \E e \in GitHubErrors : health' = Unavailable(e.code)
    BY <2>2, ErrorsHaveCodes DEF Health, Unavailable
  <2> QED BY <2>1, <2>2 DEF Probe
<1>2. Shape' /\ Recorded'
  BY DEF IInv, Shape, Recorded, Probe
<1> QED BY <1>1, <1>2 DEF IInv, Probe

LEMMA StepIsConsistent == IInv /\ [Next]_vars => IInv'
<1> SUFFICES ASSUME IInv, [Next]_vars PROVE IInv'
  OBVIOUS
<1>1. CASE UNCHANGED vars
  <2>1. Shape' /\ Health' /\ Recorded'
    BY <1>1 DEF IInv, Shape, Health, Recorded, vars
  <2> QED BY <1>1, <2>1 DEF IInv, vars
<1>2. CASE Collect
  BY <1>2, CollectPreserves
<1>3. CASE MetadataRead
  BY <1>3, MetadataReadPreserves
<1>4. CASE MetadataFails
  BY <1>4, MetadataFailsPreserves
<1>5. CASE IssuesEnd
  BY <1>5, IssuesEndPreserves
<1>6. CASE CiEnds
  BY <1>6, CiEndsPreserves
<1>7. CASE PullsListed
  BY <1>7, PullsListedPreserves
<1>8. CASE PartsRead
  BY <1>8, PartsReadPreserves
<1>9. ASSUME NEW i \in 1 .. MaxPulls, LookedUp(i) PROVE IInv'
  BY <1>9, LookedUpPreserves
<1>10. CASE Probe
  BY <1>10, ProbePreserves
<1> QED BY <1>1, <1>2, <1>3, <1>4, <1>5, <1>6, <1>7, <1>8, <1>9, <1>10 DEF Next, Step

LEMMA AlwaysConsistent == Spec => []IInv
BY InitIsConsistent, StepIsConsistent, PTL DEF Spec

-----------------------------------------------------------------------------
(* The theorems. *)

LEMMA WorkersComplete ==
    ASSUME Workers(pulls)
    PROVE  /\ pulls.at \in {"list", "lookup", "new", "failed"}
           /\ Cardinality(pulls.busy) <= Concurrency /\ LookupsComplete
<1>1. PICK n \in Nat : Working(pulls, n)
  BY DEF Workers
<1>2. /\ pulls.at \in {"list", "lookup", "new", "failed"} /\ Cardinality(pulls.busy) <= Concurrency
      /\ pulls.at = "new" => pulls.next = n + 1 /\ pulls.busy = {}
  BY <1>1 DEF Working, Turns
<1>3. DOMAIN pulls.got = 1 .. n
  BY <1>1 DEF Working, Turns, Answered
<1>4. /\ pulls.next \in 1 .. (n + 1) /\ pulls.busy \subseteq 1 .. (pulls.next - 1)
      /\ Done(n, pulls.got) = (1 .. (pulls.next - 1)) \ pulls.busy
  BY <1>1 DEF Working, Turns
<1>5. \A k \in 1 .. n : k \notin Done(n, pulls.got) <=> pulls.got[k] = "none"
  BY DEF Done
<1>6. pulls.busy \subseteq 1 .. n
  BY <1>4
<1>7. \A k \in pulls.busy : k \notin Done(n, pulls.got)
  BY <1>4
<1>8. pulls.at = "new" => \A k \in 1 .. n : k \in Done(n, pulls.got)
  BY <1>2, <1>4
<1>9. LookupsComplete
  BY <1>3, <1>5, <1>6, <1>7, <1>8 DEF LookupsComplete
<1> QED BY <1>2, <1>9

\* Every saved result admits how old its parts are; the summary of the project is fresh only
\* if its repositories are, sums pull requests and issues only if each repository's were read,
\* and counts failing CI only if some repository's was; and a list of pull requests is complete
\* when it is returned, each with its own answer: for any number of pull requests and workers,
\* and however GitHub refuses.
THEOREM ResultsAdmitTheirAges == Spec => []CollectionInv
<1>1. IInv => CollectionInv
  <2> SUFFICES ASSUME IInv PROVE CollectionInv
    OBVIOUS
  <2>1. /\ pulls.at \in {"list", "lookup", "new", "failed"}
        /\ Cardinality(pulls.busy) <= Concurrency /\ LookupsComplete
    BY WorkersComplete DEF IInv
  <2>2. error = None <=> pc # "parts" \/ failures = {}
    BY DEF IInv, Recorded
  <2>3. TypeOK
    BY <2>1, <2>2 DEF IInv, Shape, Health, CiStates, TypeOK
  <2>4. ResultAdmits
    BY DEF IInv, ResultAdmits
  <2>5. SummaryAdmits
    <3>1. CASE pc = "idle"
      BY <3>1, SummaryIsAdmitted DEF IInv, Shape
    <3>2. CASE pc # "idle"
      BY <3>2 DEF SummaryAdmits
    <3> QED BY <3>1, <3>2
  <2> QED BY <2>1, <2>3, <2>4, <2>5 DEF CollectionInv
<1> QED BY <1>1, AlwaysConsistent, PTL

\* The step that ends a collection whose failures are all such as every other request would
\* meet too makes the health report name one of them; if none is, the report is
\* available again, or left as it was if the metadata failed.  For a mixture of failures the theorem says nothing.
THEOREM HealthFollowsCollections == Spec => HealthFollows
<1> DEFINE Follows ==
      pc # "idle" /\ pc' = "idle" =>
         LET codes == failures \cup (IF pc = "metadata" THEN {saved'.error} ELSE {})
         IN  /\ codes # {} /\ codes \subseteq Serious => ~health'.available /\ health'.error \in codes
             /\ codes \cap Serious = {} => IF pc = "parts" THEN health'.available ELSE health' = health
<1>1. IInv /\ [Next]_vars => [Follows]_vars
  <2> SUFFICES ASSUME IInv, [Next]_vars, pc # "idle", pc' = "idle" PROVE Follows
    OBVIOUS
  <2>1. CASE MetadataFails
    <3> DEFINE kept(code) == [saved EXCEPT !.freshness = IF saved.meta = "none" THEN "unavailable" ELSE "stale",
                                           !.error = code]
    <3>1. PICK e \in Errors :
            /\ health' = IF e.code \in Serious THEN Unavailable(e.code) ELSE health
            /\ saved' = kept(e.code)
      BY <2>1 DEF MetadataFails, Save
    <3>2. saved'.error = e.code
      BY <3>1, ErrorsHaveCodes, KeptAdmits DEF IInv, Shape
    <3>3. pc = "metadata" /\ failures = {}
      BY <2>1 DEF MetadataFails, IInv
    <3> QED BY <3>1, <3>2, <3>3 DEF Unavailable
  <2>2. CASE PartsRead
    <3>1. pc = "parts" /\ (failures # {} => error \in failures)
      BY <2>2, NoneIsNoCode DEF PartsRead, IInv, Recorded
    <3>2. failures \cap Serious = {} => error \notin Serious
      BY NoneIsNoCode DEF IInv, Recorded
    <3> QED BY <2>2, <3>1, <3>2 DEF PartsRead, Unavailable
  <2>3. MetadataFails \/ PartsRead
    BY DEF Next, Step, vars, Collect, MetadataRead, IssuesEnd, CiEnds, PullsListed, LookedUp, Probe
  <2> QED BY <2>1, <2>2, <2>3
<1>2. Spec => [][Follows]_vars
  BY <1>1, AlwaysConsistent, PTL DEF Spec
<1> QED BY <1>2 DEF HealthFollows
=============================================================================
