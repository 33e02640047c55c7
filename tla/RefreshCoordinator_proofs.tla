---------------------- MODULE RefreshCoordinator_proofs ----------------------
(***************************************************************************)
(* Theorems about RefreshCoordinator.  The inductive invariant is          *)
(* CoordinatorInv with the limits NoIdleSlot and SlotsKept: because the    *)
(* queue is empty while a slot is free, a completion frees the only slot   *)
(* and the loop of processQueue takes one repository, if any.              *)
(***************************************************************************)
EXTENDS RefreshCoordinator, FiniteSetTheorems, SequenceTheorems, TLAPS

SlotsKept == Cardinality(Keys(inFlight)) <= Concurrency

IInv == CoordinatorInv /\ NoIdleSlot /\ SlotsKept /\ NothingForgotten

\* The initial state: nothing is in flight, nothing waits.
LEMMA InitIsConsistent == Init => IInv
<1> SUFFICES ASSUME Init PROVE IInv
  OBVIOUS
<1>1. Off \in Timers /\ Free \in ExecutionStates
  BY TimeAssumption DEF Off, Timers, Free, ExecutionStates
<1>2. TypeOK
  <2>1. timer \in [Repos -> Timers] /\ execution \in [Executions -> ExecutionStates]
    BY <1>1 DEF Init
  <2>2. inFlight \in [Repos -> Executions \cup {None}] /\ waitQueue \in Seq(Repos)
    BY DEF Init
  <2>3. stops \in 0 .. 2 /\ grace \in 0 .. Grace
    BY TimeAssumption DEF Init
  <2> QED BY <2>1, <2>2, <2>3 DEF Init, TypeOK
<1>3. Keys(inFlight) = {} /\ Elements(waitQueue) = {} /\ Len(waitQueue) = 0
  BY DEF Init, Keys, Elements
<1>4. EntriesAreOwned /\ OnePlace
  BY <1>3 DEF Init, EntriesAreOwned, Owned, OnePlace, Placed, Off, Free
<1>5. DirtyInFlight /\ WithinMaxDebounce /\ StoppedIsEmpty /\ NoIdleSlot /\ NothingForgotten
  BY DEF Init, DirtyInFlight, WithinMaxDebounce, StoppedIsEmpty, NoIdleSlot, NothingForgotten, Off
<1>6. SlotsKept
  BY <1>3, FS_EmptySet, LimitAssumption DEF SlotsKept
<1> QED BY <1>2, <1>4, <1>5, <1>6 DEF IInv, CoordinatorInv

\* A set of repositories is finite, and adding one to it adds one to its size.
LEMMA KeysAreFinite ==
    ASSUME NEW f
    PROVE  IsFiniteSet(Keys(f)) /\ Cardinality(Keys(f)) \in Nat
BY FiniteAssumption, FS_Subset, FS_CardinalityType DEF Keys

LEMMA OneMore ==
    ASSUME NEW K \in SUBSET Repos, NEW r \in Repos, r \notin K
    PROVE  Cardinality(K \cup {r}) = Cardinality(K) + 1
BY FiniteAssumption, FS_Subset, FS_AddElement

LEMMA OneLess ==
    ASSUME NEW K \in SUBSET Repos, NEW r \in K
    PROVE  Cardinality(K \ {r}) = Cardinality(K) - 1
BY FiniteAssumption, FS_Subset, FS_RemoveElement

\* What executeRefresh does: g and y are inFlight and the executions after it has started
\* the repositories of S, f and x those before.
Started(S, f, x, g, y) ==
    /\ g \in [Repos -> Executions \cup {None}]
    /\ y \in [Executions -> ExecutionStates]
    /\ \A r \in S : /\ g[r] \in Executions
                    /\ x[g[r]] = Free
                    /\ \A k \in Repos : f[k] # g[r]
                    /\ y[g[r]] = [pc |-> "gated", repo |-> r]
    /\ \A r \in Repos \ S : g[r] = f[r]
    /\ \A e \in Executions : (\A r \in S : g[r] # e) => y[e] = x[e]

\* executeRefresh, for every repository of S.
LEMMA StartStarts ==
    ASSUME NEW S \in SUBSET Repos,
           NEW f \in [Repos -> Executions \cup {None}],
           NEW x \in [Executions -> ExecutionStates],
           Start(S, f, x)
    PROVE  Started(S, f, x, inFlight', execution')
<1>1. PICK id \in [S -> {e \in Executions : x[e] = Free /\ \A r \in Repos : f[r] # e}] :
          /\ \A r1, r2 \in S : id[r1] = id[r2] => r1 = r2
          /\ inFlight' = [r \in Repos |-> IF r \in S THEN id[r] ELSE f[r]]
          /\ execution' = [e \in Executions |->
                              IF \E r \in S : id[r] = e
                                THEN [pc |-> "gated", repo |-> CHOOSE r \in S : id[r] = e]
                                ELSE x[e]]
  BY DEF Start
<1>2. \A r \in S : /\ id[r] \in Executions /\ x[id[r]] = Free
                   /\ \A k \in Repos : f[k] # id[r]
  BY <1>1
<1>3. ASSUME NEW r \in S PROVE execution'[id[r]] = [pc |-> "gated", repo |-> r]
  <2>1. (CHOOSE k \in S : id[k] = id[r]) = r
    BY <1>1
  <2> QED BY <1>1, <1>2, <2>1
<1>4. \A e \in Executions : (\A r \in S : id[r] # e) => execution'[e] = x[e]
  BY <1>1
<1>5. inFlight' \in [Repos -> Executions \cup {None}]
  BY <1>1, <1>2
<1>6. ASSUME NEW e \in Executions PROVE execution'[e] \in ExecutionStates
  <2>1. ASSUME NEW r \in S, id[r] = e PROVE execution'[e] \in ExecutionStates
    <3>1. r \in Repos /\ execution'[e] = [pc |-> "gated", repo |-> r]
      BY <1>3, <2>1
    <3> QED BY <3>1 DEF ExecutionStates
  <2> QED BY <1>4, <2>1
<1>7. execution' \in [Executions -> ExecutionStates]
  BY <1>1, <1>6
<1>8. \A r \in S : r \in Repos /\ inFlight'[r] = id[r]
  BY <1>1
<1>9. \A r \in Repos \ S : inFlight'[r] = f[r]
  BY <1>1
<1> QED BY <1>2, <1>3, <1>4, <1>5, <1>7, <1>8, <1>9 DEF Started

\* Then the in-flight map and the executions are as they should be.
Consistent(S, f, x, g, y) ==
    /\ Owned(g, y)
    /\ Keys(g) = Keys(f) \cup S
    /\ \A r \in S : \E e \in Executions : y[e] = [pc |-> "gated", repo |-> r]
    /\ \A e \in Executions : x[e].pc # "free" => y[e] = x[e]

\* The executions it starts own their entries, and those under way keep theirs.
LEMMA StartedKeeps ==
    ASSUME NEW S \in SUBSET Repos,
           NEW f \in [Repos -> Executions \cup {None}],
           NEW x \in [Executions -> ExecutionStates],
           NEW g, NEW y,
           Owned(f, x), S \cap Keys(f) = {}, Started(S, f, x, g, y)
    PROVE  Consistent(S, f, x, g, y)
<1>0. /\ g \in [Repos -> Executions \cup {None}]
      /\ y \in [Executions -> ExecutionStates]
  BY DEF Started
<1>s. ASSUME NEW r \in S
      PROVE  /\ r \in Repos /\ r \notin Keys(f)
             /\ g[r] \in Executions /\ g[r] # None
             /\ x[g[r]].pc = "free"
             /\ y[g[r]].pc = "gated" /\ y[g[r]].repo = r
             /\ y[g[r]] = [pc |-> "gated", repo |-> r]
  <2>1. /\ g[r] \in Executions
        /\ x[g[r]] = Free
        /\ y[g[r]] = [pc |-> "gated", repo |-> r]
    BY DEF Started
  <2>2. r \in Repos /\ r \notin Keys(f)
    OBVIOUS
  <2> QED BY <2>1, <2>2, NoExecutionAssumption DEF Free
<1>t. \A r \in Repos \ S : g[r] = f[r]
  BY DEF Started
<1>u. \A e \in Executions : (\A r \in S : g[r] # e) => y[e] = x[e]
  BY DEF Started
<1>1. Keys(g) = Keys(f) \cup S
  <2>1. \A r \in Repos : r \in Keys(g) <=> r \in Keys(f) \cup S
    BY <1>s, <1>t DEF Keys
  <2> QED BY <2>1 DEF Keys
<1>2. ASSUME NEW e \in Executions, x[e].pc # "free"
      PROVE  y[e] = x[e]
  <2>1. ASSUME NEW r \in S PROVE g[r] # e
    <3>1. x[g[r]].pc = "free"
      BY <1>s
    <3> QED BY <1>2, <3>1
  <2> QED BY <1>u, <2>1
<1>3. ASSUME NEW e \in Executions, y[e].pc # "free"
      PROVE  y[e].repo \in Repos /\ g[y[e].repo] = e
  <2>1. CASE \E r \in S : g[r] = e
    <3>1. PICK r \in S : g[r] = e
      BY <2>1
    <3>2. r \in Repos /\ y[g[r]].repo = r
      BY <1>s
    <3> QED BY <3>1, <3>2
  <2>2. CASE \A r \in S : g[r] # e
    <3>1. y[e] = x[e]
      BY <1>u, <2>2
    <3>2. x[e].repo \in Repos /\ f[x[e].repo] = e
      BY <1>3, <3>1 DEF Owned
    <3>3. x[e].repo \notin S
      BY <1>s, <3>2, NoExecutionAssumption DEF Keys
    <3> QED BY <1>t, <3>1, <3>2, <3>3
  <2> QED BY <2>1, <2>2
<1>4. ASSUME NEW r \in Keys(g)
      PROVE  g[r] \in Executions /\ y[g[r]].pc # "free" /\ y[g[r]].repo = r
  <2>1. CASE r \in S
    BY <1>s, <2>1
  <2>2. CASE r \notin S
    <3>1. r \in Keys(f) /\ r \in Repos
      BY <1>1, <2>2 DEF Keys
    <3>2. g[r] = f[r]
      BY <1>t, <2>2, <3>1
    <3>3. f[r] \in Executions /\ x[f[r]].pc # "free" /\ x[f[r]].repo = r
      BY <3>1 DEF Owned
    <3> QED BY <1>2, <3>2, <3>3
  <2> QED BY <2>1, <2>2
<1>5. Owned(g, y)
  BY <1>3, <1>4 DEF Owned
<1>6. \A r \in S : \E e \in Executions : y[e] = [pc |-> "gated", repo |-> r]
  BY <1>s
<1> QED BY <1>1, <1>2, <1>5, <1>6 DEF Consistent

\* In a queue without duplicates and without repositories in flight, when the first
\* completion leaves at most one slot, the loop of processQueue takes one repository or none.
LEMMA TakenIsFirst ==
    ASSUME NEW q \in Seq(Repos),
           NEW f \in [Repos -> Executions \cup {None}],
           Elements(q) \cap Keys(f) = {},
           Len(q) > 0 => Cardinality(Keys(f)) + 1 >= Concurrency
    PROVE  Taken(q, f) = IF Len(q) > 0 /\ Cardinality(Keys(f)) < Concurrency THEN {1} ELSE {}
<1> DEFINE before(i) == {q[j] : j \in 1 .. (i - 1)} \ Keys(f)
<1>1. Cardinality(Keys(f)) \in Nat /\ Concurrency \in Nat
  BY KeysAreFinite, LimitAssumption
<1>2. Cardinality(before(1)) = 0
  <2>1. before(1) = {}
    OBVIOUS
  <2> QED BY <2>1, FS_EmptySet
<1>3. ASSUME NEW i \in 2 .. Len(q)
      PROVE  Cardinality(before(i)) \in Nat /\ Cardinality(before(i)) >= 1
  <2>1. before(i) \in SUBSET Repos
    OBVIOUS
  <2>2. IsFiniteSet(before(i))
    BY <2>1, FiniteAssumption, FS_Subset
  <2>3. q[1] \in before(i)
    BY DEF Elements
  <2>4. Cardinality(before(i)) # 0
    BY <2>2, <2>3, FS_EmptySet
  <2>5. Cardinality(before(i)) \in Nat
    BY <2>2, FS_CardinalityType
  <2> HIDE DEF before
  <2> QED BY <2>4, <2>5
<1>4. Taken(q, f) = {i \in 1 .. Len(q) : Cardinality(Keys(f)) + Cardinality(before(i)) < Concurrency}
  BY DEF Taken
<1> HIDE DEF before
<1>5. \A i \in Taken(q, f) : i = 1
  <2> SUFFICES ASSUME NEW i \in Taken(q, f), i # 1 PROVE FALSE
    OBVIOUS
  <2>1. i \in 2 .. Len(q) /\ Len(q) > 0
    BY <1>4
  <2> QED BY <1>1, <1>3, <1>4, <2>1
<1>6. 1 \in Taken(q, f) <=> Len(q) > 0 /\ Cardinality(Keys(f)) < Concurrency
  BY <1>1, <1>2, <1>4
<1> QED BY <1>5, <1>6

\* What it comes to when processQueue has been called with the keys ks, the timers t, the
\* in-flight map f and the executions x.
QueueServed(ks, t, f, x) ==
    /\ timer' \in [Repos -> Timers]
    /\ inFlight' \in [Repos -> Executions \cup {None}]
    /\ execution' \in [Executions -> ExecutionStates]
    /\ waitQueue' \in Seq(Repos)
    /\ queuedKeys' \in SUBSET Repos
    /\ Owned(inFlight', execution')
    /\ Placed(timer', inFlight', waitQueue', queuedKeys')
    /\ \A r \in Repos : timer'[r].on => timer'[r].due <= timer'[r].left
    /\ waitQueue' # <<>> => Cardinality(Keys(inFlight')) >= Concurrency
    /\ Cardinality(Keys(inFlight')) <= Concurrency
    /\ Keys(f) \subseteq Keys(inFlight')
    /\ \A r \in Repos :
          t[r].on \/ r \in ks =>
            timer'[r].on \/ r \in queuedKeys'
              \/ \E e \in Executions : execution'[e] = [pc |-> "gated", repo |-> r]
    /\ \A e \in Executions : x[e].pc # "free" => execution'[e] = x[e]

\* processQueue under the same conditions: the maps stay consistent, the limits are
\* kept, and no repository that waits is forgotten.
LEMMA ProcessQueueKeeps ==
    ASSUME NEW q \in Seq(Repos),
           NEW ks \in SUBSET Repos,
           NEW t \in [Repos -> Timers],
           NEW f \in [Repos -> Executions \cup {None}],
           NEW x \in [Executions -> ExecutionStates],
           Owned(f, x), Placed(t, f, q, ks),
           \A r \in Repos : t[r].on => t[r].due <= t[r].left,
           Len(q) > 0 => Cardinality(Keys(f)) + 1 >= Concurrency,
           Cardinality(Keys(f)) <= Concurrency,
           ProcessQueue(q, ks, t, f, x)
    PROVE  QueueServed(ks, t, f, x)
<1> DEFINE started == TakenRepos(q, f) \ Keys(f)
<1> DEFINE go == Len(q) > 0 /\ Cardinality(Keys(f)) < Concurrency
<1>1. Cardinality(Keys(f)) \in Nat /\ Concurrency \in Nat
  BY KeysAreFinite, LimitAssumption
<1>2. Taken(q, f) = IF go THEN {1} ELSE {}
  BY TakenIsFirst DEF Placed
<1>3. TakenRepos(q, f) = IF go THEN {q[1]} ELSE {}
  BY <1>2 DEF TakenRepos
<1>4. Cardinality(Taken(q, f)) = IF go THEN 1 ELSE 0
  BY <1>2, FS_EmptySet, FS_Singleton
<1>5. started = TakenRepos(q, f) /\ started \in SUBSET Repos /\ started \cap Keys(f) = {}
  BY <1>3 DEF Placed, Elements
<1>6. /\ waitQueue' = SubSeq(q, Cardinality(Taken(q, f)) + 1, Len(q))
      /\ queuedKeys' = ks \ TakenRepos(q, f)
      /\ timer' = Cleared(t, started)
      /\ Start(started, f, x)
  BY DEF ProcessQueue
<1> HIDE DEF started
<1>7. Started(started, f, x, inFlight', execution')
  <2>1. started \in SUBSET Repos /\ Start(started, f, x)
    BY <1>5, <1>6
  <2> QED BY <2>1, StartStarts
<1>17. /\ inFlight' \in [Repos -> Executions \cup {None}]
       /\ execution' \in [Executions -> ExecutionStates]
       /\ Owned(inFlight', execution')
       /\ Keys(inFlight') = Keys(f) \cup started
       /\ \A r \in started : \E e \in Executions : execution'[e] = [pc |-> "gated", repo |-> r]
       /\ \A e \in Executions : x[e].pc # "free" => execution'[e] = x[e]
  <2>1. inFlight' \in [Repos -> Executions \cup {None}] /\ execution' \in [Executions -> ExecutionStates]
    BY <1>7 DEF Started
  <2>2. started \in SUBSET Repos /\ started \cap Keys(f) = {}
    BY <1>5
  <2>3. Consistent(started, f, x, inFlight', execution')
    BY <1>7, <2>2, StartedKeeps
  <2> QED BY <2>1, <2>3 DEF Consistent
<1>8. /\ \A r \in started : timer'[r] = Off
      /\ \A r \in Repos \ started : timer'[r] = t[r]
      /\ timer' \in [Repos -> Timers]
  <2>1. Off \in Timers
    BY TimeAssumption DEF Off, Timers
  <2> QED BY <1>5, <1>6, <2>1 DEF Cleared
<1>9. waitQueue' = IF go THEN SubSeq(q, 2, Len(q)) ELSE q
  <2>1. CASE go
    BY <1>4, <1>6, <2>1
  <2>2. CASE ~go
    <3>1. SubSeq(q, 1, Len(q)) = q
      OBVIOUS
    <3> QED BY <1>4, <1>6, <2>2, <3>1
  <2> QED BY <2>1, <2>2
<1>10. waitQueue' \in Seq(Repos)
  BY <1>9
<1>11. Placed(timer', inFlight', waitQueue', queuedKeys')
  <2>1. CASE go
    <3>1. started = {q[1]} /\ Len(q) >= 1
      BY <1>3, <1>5, <2>1
    <3>2. /\ Len(waitQueue') = Len(q) - 1
          /\ \A i \in 1 .. Len(waitQueue') : waitQueue'[i] = q[i + 1]
      <4>1. waitQueue' = SubSeq(q, 2, Len(q)) /\ q # <<>>
        BY <1>9, <2>1
      <4>2. waitQueue' = Tail(q)
        BY <4>1, TailIsSubSeq
      <4> QED BY <4>1, <4>2, HeadTailProperties
    <3>3. Elements(waitQueue') = Elements(q) \ {q[1]}
      <4>1. \A r \in Elements(waitQueue') : r \in Elements(q) /\ r # q[1]
        BY <3>1, <3>2 DEF Elements, Placed
      <4>2. ASSUME NEW r \in Elements(q), r # q[1] PROVE r \in Elements(waitQueue')
        <5>1. PICK i \in 1 .. Len(q) : r = q[i]
          BY DEF Elements
        <5>2. i - 1 \in 1 .. Len(waitQueue') /\ waitQueue'[i - 1] = r
          BY <3>2, <4>2, <5>1
        <5> QED BY <5>2 DEF Elements
      <4> QED BY <4>1, <4>2
    <3>4. \A i, j \in 1 .. Len(waitQueue') : waitQueue'[i] = waitQueue'[j] => i = j
      <4> SUFFICES ASSUME NEW i \in 1 .. Len(waitQueue'), NEW j \in 1 .. Len(waitQueue'),
                          waitQueue'[i] = waitQueue'[j]
                   PROVE  i = j
        OBVIOUS
      <4>1. i + 1 \in 1 .. Len(q) /\ j + 1 \in 1 .. Len(q) /\ q[i + 1] = q[j + 1]
        BY <3>2
      <4>2. i + 1 = j + 1
        BY <4>1 DEF Placed
      <4> QED BY <4>2
    <3>5. queuedKeys' = ks \ {q[1]}
      BY <1>3, <1>6, <2>1
    <3>6. \A r \in Repos : timer'[r].on => r \notin queuedKeys' \cup Keys(inFlight')
      BY <1>17, <1>8, <3>1, <3>5 DEF Placed, Off
    <3> QED BY <1>17, <3>1, <3>3, <3>4, <3>5, <3>6 DEF Placed
  <2>2. CASE ~go
    <3>1. started = {} /\ waitQueue' = q /\ queuedKeys' = ks
      BY <1>3, <1>5, <1>6, <1>9, <2>2
    <3> QED BY <1>17, <1>8, <3>1 DEF Placed
  <2> QED BY <2>1, <2>2
<1>12. queuedKeys' \in SUBSET Repos
  BY <1>6
<1>13. \A r \in Repos : timer'[r].on => timer'[r].due <= timer'[r].left
  BY <1>5, <1>8 DEF Off
<1>14. /\ waitQueue' # <<>> => Cardinality(Keys(inFlight')) >= Concurrency
       /\ Cardinality(Keys(inFlight')) <= Concurrency
  <2>1. CASE go
    <3>1. Keys(inFlight') = Keys(f) \cup {q[1]} /\ q[1] \in Repos /\ q[1] \notin Keys(f)
      BY <1>3, <1>5, <1>17, <2>1
    <3>2. Cardinality(Keys(inFlight')) = Cardinality(Keys(f)) + 1
      BY <3>1, OneMore DEF Keys
    <3> QED BY <1>1, <2>1, <3>2
  <2>2. CASE ~go
    <3>1. Keys(inFlight') = Keys(f)
      BY <1>3, <1>5, <1>17, <2>2
    <3>2. waitQueue' = q
      BY <1>9, <2>2
    <3>3. q # <<>> => Len(q) > 0
      OBVIOUS
    <3> QED BY <1>1, <2>2, <3>1, <3>2, <3>3
  <2> QED BY <2>1, <2>2
<1>15. ASSUME NEW r \in Repos, t[r].on \/ r \in ks
       PROVE  timer'[r].on \/ r \in queuedKeys'
                \/ \E e \in Executions : execution'[e] = [pc |-> "gated", repo |-> r]
  BY <1>5, <1>6, <1>17, <1>8, <1>15
<1> QED BY <1>17, <1>8, <1>10, <1>11, <1>12, <1>13, <1>14, <1>15 DEF QueueServed
\* A repository that waits in r's place in the queue: appending r keeps the queue's order.
LEMMA AppendKeepsPlaces ==
    ASSUME NEW q \in Seq(Repos), NEW r \in Repos, r \notin Elements(q),
           \A i, j \in 1 .. Len(q) : q[i] = q[j] => i = j
    PROVE  /\ Append(q, r) \in Seq(Repos) /\ Len(Append(q, r)) > 0
           /\ Elements(Append(q, r)) = Elements(q) \cup {r}
           /\ \A i, j \in 1 .. Len(Append(q, r)) : Append(q, r)[i] = Append(q, r)[j] => i = j
<1> DEFINE p == Append(q, r)
<1>1. p \in Seq(Repos) /\ Len(p) = Len(q) + 1 /\ p[Len(q) + 1] = r
  OBVIOUS
<1>2. \A i \in 1 .. Len(q) : p[i] = q[i] /\ p[i] # r
  BY DEF Elements
<1>3. Len(q) \in Nat
  OBVIOUS
<1> HIDE DEF p
<1>4. \A i \in 1 .. Len(p) : i \in 1 .. Len(q) \/ i = Len(q) + 1
  BY <1>1, <1>3
<1>5. ASSUME NEW i \in 1 .. Len(p), NEW j \in 1 .. Len(p), p[i] = p[j]
      PROVE  i = j
  <2>1. CASE i \in 1 .. Len(q) /\ j \in 1 .. Len(q)
    BY <1>2, <1>5, <2>1
  <2>2. CASE i = Len(q) + 1 \/ j = Len(q) + 1
    BY <1>1, <1>2, <1>4, <1>5, <2>2
  <2> QED BY <1>4, <2>1, <2>2
<1>6. Elements(p) = Elements(q) \cup {r}
  <2>1. \A i \in 1 .. Len(q) : i \in 1 .. Len(p)
    BY <1>1, <1>3
  <2>2. Len(q) + 1 \in 1 .. Len(p)
    BY <1>1, <1>3
  <2>3. Elements(q) \cup {r} \subseteq Elements(p)
    BY <1>1, <1>2, <2>1, <2>2 DEF Elements
  <2>4. Elements(p) \subseteq Elements(q) \cup {r}
    BY <1>1, <1>2, <1>4 DEF Elements
  <2> QED BY <2>3, <2>4
<1>7. Len(p) > 0
  BY <1>1, <1>3
<1> QED BY <1>1, <1>5, <1>6, <1>7 DEF p

\* A timer that is set again keeps to the debounce time and to the maximal deadline.
LEMMA RearmedIsDue ==
    ASSUME NEW t \in Timers
    PROVE  /\ Rearmed(t) \in Timers
           /\ Rearmed(t).on
           /\ Rearmed(t).due <= Rearmed(t).left
<1> DEFINE left == IF t.on THEN t.left ELSE MaxDebounce
<1> DEFINE due == Least(Debounce, left)
<1>1. left \in 0 .. MaxDebounce
  BY TimeAssumption DEF Timers
<1>2. Rearmed(t) = [on |-> TRUE, due |-> due, left |-> left]
  BY DEF Rearmed
<1> HIDE DEF left
<1>3. due \in 0 .. Debounce /\ due <= left
  BY <1>1, TimeAssumption DEF Least
<1> HIDE DEF due
<1>4. [on |-> TRUE, due |-> due, left |-> left] \in Timers
  BY <1>1, <1>3 DEF Timers
<1>5. Rearmed(t).on /\ Rearmed(t).due = due /\ Rearmed(t).left = left
  BY <1>2
<1> QED BY <1>2, <1>3, <1>4, <1>5

\* What the invariant says of one repository that an event has not been answered for.
Pending(r) ==
    \/ timer[r].on \/ r \in queuedKeys \/ r \in dirty
    \/ \E e \in Executions : execution[e] = [pc |-> "gated", repo |-> r]

AllPending == \A r \in unanswered : Pending(r)

LEMMA PendingIsPending == TypeOK => (NothingForgotten <=> AllPending)
<1> SUFFICES ASSUME TypeOK PROVE NothingForgotten <=> AllPending
  OBVIOUS
<1>1. \A e \in Executions, r \in Repos :
         execution[e] = [pc |-> "gated", repo |-> r]
           <=> e \in Live /\ execution[e].repo = r /\ execution[e].pc = "gated"
  BY DEF TypeOK, ExecutionStates, Live
<1>2. unanswered \subseteq Repos /\ Live \subseteq Executions
  BY DEF TypeOK, Live
<1>3. ASSUME NEW r \in Repos
      PROVE  (\E e \in Executions : execution[e] = [pc |-> "gated", repo |-> r])
               <=> (\E e \in Live : execution[e].repo = r /\ execution[e].pc = "gated")
  BY <1>1, <1>2
<1> QED BY <1>2, <1>3 DEF NothingForgotten, AllPending, Pending

\* An event of a repository in flight marks it dirty; of a queued one, changes nothing;
\* of another, sets its timer.
LEMMA ScheduleRefreshKeeps ==
    ASSUME IInv, NEW r \in Repos, ScheduleRefresh(r)
    PROVE  IInv'
<1>1. /\ TypeOK /\ EntriesAreOwned /\ OnePlace /\ DirtyInFlight /\ WithinMaxDebounce
      /\ StoppedIsEmpty /\ NoIdleSlot /\ SlotsKept /\ NothingForgotten
  BY DEF IInv, CoordinatorInv
<1>2. /\ ~Stopped
      /\ timer' = TimerAfter(r, inFlight)
      /\ dirty' = DirtyAfter(r, inFlight, dirty)
      /\ unanswered' = unanswered \cup {r}
      /\ UNCHANGED <<inFlight, waitQueue, queuedKeys, execution, stops, awaited, grace, draining>>
  BY DEF ScheduleRefresh
<1>3. /\ timer[r] \in Timers
      /\ Rearmed(timer[r]) \in Timers /\ Rearmed(timer[r]).on
      /\ Rearmed(timer[r]).due <= Rearmed(timer[r]).left
  BY <1>1, RearmedIsDue DEF TypeOK
<1>4. /\ timer' \in [Repos -> Timers]
      /\ \A k \in Repos \ {r} : timer'[k] = timer[k]
      /\ r \in Keys(inFlight) \cup queuedKeys => timer' = timer
      /\ r \notin Keys(inFlight) \cup queuedKeys => timer'[r] = Rearmed(timer[r])
  BY <1>1, <1>2, <1>3 DEF TypeOK, TimerAfter
<1> HIDE DEF Rearmed
<1>5. dirty \subseteq dirty' /\ dirty' \subseteq Keys(inFlight) /\ (r \in Keys(inFlight) => r \in dirty')
  BY <1>1, <1>2 DEF DirtyAfter, DirtyInFlight
<1>6. Keys(inFlight)' = Keys(inFlight) /\ Keys(inFlight) \subseteq Repos
  BY <1>2 DEF Keys
<1>7. TypeOK'
  BY <1>1, <1>2, <1>4, <1>5, <1>6 DEF TypeOK
<1>8. EntriesAreOwned' /\ NoIdleSlot' /\ SlotsKept' /\ DirtyInFlight'
  BY <1>1, <1>2, <1>5, <1>6 DEF EntriesAreOwned, Owned, NoIdleSlot, SlotsKept, DirtyInFlight
<1>9. OnePlace'
  <2>1. \A k \in Repos : timer'[k].on => k \notin queuedKeys \cup Keys(inFlight)
    BY <1>1, <1>4 DEF OnePlace, Placed
  <2> QED BY <1>1, <1>2, <1>6, <2>1 DEF OnePlace, Placed, Elements
<1>10. WithinMaxDebounce'
  BY <1>1, <1>3, <1>4 DEF WithinMaxDebounce
<1>11. StoppedIsEmpty'
  BY <1>2 DEF StoppedIsEmpty, Stopped
<1>12. NothingForgotten'
  <2>1. \A k \in unanswered : Pending(k)
    BY <1>1, PendingIsPending DEF AllPending
  <2>2. Pending(r)'
    BY <1>2, <1>3, <1>4, <1>5 DEF Pending
  <2>3. ASSUME NEW k \in unanswered, k # r PROVE Pending(k)'
    <3>1. k \in Repos /\ timer'[k] = timer[k]
      BY <1>1, <1>4, <2>3 DEF TypeOK
    <3> QED BY <1>2, <1>5, <2>1, <3>1 DEF Pending
  <2>4. AllPending'
    BY <1>2, <2>2, <2>3 DEF AllPending
  <2> QED BY <1>7, <2>4, PendingIsPending, PTL
<1> QED BY <1>7, <1>8, <1>9, <1>10, <1>11, <1>12 DEF IInv, CoordinatorInv

\* A timer fires: its repository neither waits nor is in flight, and it goes into a free
\* slot or through the queue.
LEMMA TimerFiresKeeps ==
    ASSUME IInv, NEW r \in Repos, TimerFires(r)
    PROVE  IInv'
<1> DEFINE t == [timer EXCEPT ![r] = Off]
<1> DEFINE q == Append(waitQueue, r)
<1>1. /\ TypeOK /\ EntriesAreOwned /\ OnePlace /\ DirtyInFlight /\ WithinMaxDebounce
      /\ StoppedIsEmpty /\ NoIdleSlot /\ SlotsKept /\ NothingForgotten
  BY DEF IInv, CoordinatorInv
<1>2. /\ timer[r].on
      /\ UNCHANGED <<dirty, stops, awaited, grace, draining, unanswered>>
  BY DEF TimerFires
<1>3. ~Stopped /\ r \notin queuedKeys \cup Keys(inFlight)
  BY <1>1, <1>2 DEF StoppedIsEmpty, OnePlace, Placed
<1>4. /\ t \in [Repos -> Timers] /\ t[r] = Off
      /\ \A k \in Repos \ {r} : t[k] = timer[k]
  BY <1>1, TimeAssumption DEF TypeOK, Timers, Off
<1>5. /\ inFlight \in [Repos -> Executions \cup {None}]
      /\ execution \in [Executions -> ExecutionStates]
      /\ waitQueue \in Seq(Repos) /\ queuedKeys \in SUBSET Repos
      /\ Owned(inFlight, execution)
      /\ Cardinality(Keys(inFlight)) \in Nat /\ Concurrency \in Nat
  BY <1>1, KeysAreFinite, LimitAssumption DEF TypeOK, EntriesAreOwned
<1>6. /\ \A k \in unanswered : Pending(k)
      /\ unanswered \subseteq Repos
  BY <1>1, PendingIsPending DEF AllPending, TypeOK
<1>7. \/ /\ Cardinality(Keys(inFlight)) < Concurrency /\ waitQueue = <<>>
         /\ timer' = Cleared(t, {r})
         /\ Start({r}, inFlight, execution)
         /\ UNCHANGED <<waitQueue, queuedKeys>>
      \/ /\ ~(Cardinality(Keys(inFlight)) < Concurrency /\ waitQueue = <<>>)
         /\ ProcessQueue(q, queuedKeys \cup {r}, t, inFlight, execution)
  BY <1>3 DEF TimerFires
<1> HIDE DEF t, q
<1>8. CASE /\ Cardinality(Keys(inFlight)) < Concurrency /\ waitQueue = <<>>
           /\ timer' = Cleared(t, {r})
           /\ Start({r}, inFlight, execution)
           /\ UNCHANGED <<waitQueue, queuedKeys>>
  <2>1. {r} \in SUBSET Repos /\ {r} \cap Keys(inFlight) = {}
    BY <1>3
  <2>2. Started({r}, inFlight, execution, inFlight', execution')
    BY <1>5, <1>8, <2>1, StartStarts
  <2>3. Consistent({r}, inFlight, execution, inFlight', execution')
    BY <1>5, <2>1, <2>2, StartedKeeps
  <2>4. /\ inFlight' \in [Repos -> Executions \cup {None}]
        /\ execution' \in [Executions -> ExecutionStates]
    BY <2>2 DEF Started
  <2>5. /\ timer' \in [Repos -> Timers] /\ timer'[r] = Off
        /\ \A k \in Repos \ {r} : timer'[k] = timer[k]
    BY <1>4, <1>8, TimeAssumption DEF Cleared, Off, Timers
  <2>6. /\ Owned(inFlight', execution')
        /\ Keys(inFlight') = Keys(inFlight) \cup {r}
        /\ \E e \in Executions : execution'[e] = [pc |-> "gated", repo |-> r]
        /\ \A e \in Executions : execution[e].pc # "free" => execution'[e] = execution[e]
    BY <2>3 DEF Consistent
  <2>7. TypeOK'
    BY <1>1, <1>2, <1>8, <2>4, <2>5 DEF TypeOK
  <2>8. EntriesAreOwned' /\ DirtyInFlight' /\ NoIdleSlot'
    BY <1>1, <1>2, <1>8, <2>6 DEF EntriesAreOwned, DirtyInFlight, NoIdleSlot, Keys
  <2>9. OnePlace'
    <3>1. queuedKeys = {} /\ Elements(waitQueue) = {}
      BY <1>1, <1>8 DEF OnePlace, Placed, Elements
    <3>2. \A k \in Repos : timer'[k].on => k \notin Keys(inFlight')
      BY <1>1, <2>5, <2>6 DEF OnePlace, Placed, Off
    <3>3. queuedKeys' = {} /\ Len(waitQueue') = 0 /\ Elements(waitQueue') = {}
      BY <1>8, <3>1 DEF Elements
    <3> QED BY <3>2, <3>3 DEF OnePlace, Placed
  <2>10. WithinMaxDebounce'
    BY <1>1, <2>5 DEF WithinMaxDebounce, Off
  <2>11. StoppedIsEmpty'
    BY <1>2, <1>3 DEF StoppedIsEmpty, Stopped
  <2>12. SlotsKept'
    <3>1. Cardinality(Keys(inFlight')) = Cardinality(Keys(inFlight)) + 1
      BY <1>3, <2>6, OneMore DEF Keys
    <3> QED BY <1>5, <1>8, <3>1 DEF SlotsKept
  <2>13. AllPending'
    <3>1. ASSUME NEW k \in unanswered PROVE Pending(k)'
      <4>1. CASE k = r
        BY <2>6, <4>1 DEF Pending
      <4>2. CASE k # r
        <5>1. timer'[k] = timer[k] /\ k \in Repos
          BY <1>6, <2>5, <4>2
        <5>2. CASE \E e \in Executions : execution[e] = [pc |-> "gated", repo |-> k]
          <6>1. PICK e \in Executions : execution[e] = [pc |-> "gated", repo |-> k]
            BY <5>2
          <6>2. execution'[e] = execution[e]
            BY <2>6, <6>1
          <6> QED BY <6>1, <6>2 DEF Pending
        <5>3. CASE timer[k].on \/ k \in queuedKeys \/ k \in dirty
          BY <1>2, <1>8, <5>1, <5>3 DEF Pending
        <5> QED BY <1>6, <5>2, <5>3 DEF Pending
      <4> QED BY <4>1, <4>2
    <3> QED BY <1>2, <3>1 DEF AllPending
  <2>14. NothingForgotten'
    BY <2>7, <2>13, PendingIsPending, PTL
  <2> QED BY <2>7, <2>8, <2>9, <2>10, <2>11, <2>12, <2>14 DEF IInv, CoordinatorInv
<1>9. CASE /\ ~(Cardinality(Keys(inFlight)) < Concurrency /\ waitQueue = <<>>)
           /\ ProcessQueue(q, queuedKeys \cup {r}, t, inFlight, execution)
  <2> DEFINE ks == queuedKeys \cup {r}
  <2>1. /\ q \in Seq(Repos) /\ Len(q) > 0
        /\ Elements(q) = Elements(waitQueue) \cup {r}
        /\ \A i, j \in 1 .. Len(q) : q[i] = q[j] => i = j
    BY <1>1, <1>3, <1>5, AppendKeepsPlaces DEF OnePlace, Placed, q
  <2>2. ks \in SUBSET Repos
    BY <1>5
  <2>3. Placed(t, inFlight, q, ks)
    BY <1>1, <1>3, <1>4, <2>1 DEF OnePlace, Placed, Off
  <2>4. \A k \in Repos : t[k].on => t[k].due <= t[k].left
    BY <1>1, <1>4 DEF WithinMaxDebounce, Off
  <2>5. Cardinality(Keys(inFlight)) + 1 >= Concurrency
    BY <1>1, <1>5, <1>9 DEF NoIdleSlot
  <2>6. Cardinality(Keys(inFlight)) <= Concurrency
    BY <1>1 DEF SlotsKept
  <2>7. ProcessQueue(q, ks, t, inFlight, execution)
    BY <1>9
  <2> HIDE DEF ks
  <2>8. QueueServed(ks, t, inFlight, execution)
    BY <1>4, <1>5, <2>1, <2>2, <2>3, <2>4, <2>5, <2>6, <2>7, ProcessQueueKeeps
  <2>9. /\ TypeOK' /\ EntriesAreOwned' /\ OnePlace' /\ WithinMaxDebounce' /\ NoIdleSlot' /\ SlotsKept'
    BY <1>1, <1>2, <2>8
    DEF QueueServed, TypeOK, EntriesAreOwned, OnePlace, WithinMaxDebounce, NoIdleSlot, SlotsKept
  <2>10. DirtyInFlight' /\ StoppedIsEmpty'
    BY <1>1, <1>2, <1>3, <2>8 DEF QueueServed, DirtyInFlight, StoppedIsEmpty, Stopped
  <2>11. AllPending'
    <3>1. ASSUME NEW k \in unanswered PROVE Pending(k)'
      <4>1. CASE k \in dirty
        BY <1>2, <4>1 DEF Pending
      <4>2. CASE \E e \in Executions : execution[e] = [pc |-> "gated", repo |-> k]
        <5>1. PICK e \in Executions : execution[e] = [pc |-> "gated", repo |-> k]
          BY <4>2
        <5>2. execution'[e] = execution[e]
          BY <2>8, <5>1 DEF QueueServed
        <5> QED BY <5>1, <5>2 DEF Pending
      <4>3. CASE timer[k].on \/ k \in queuedKeys
        <5>1. k \in Repos /\ (t[k].on \/ k \in ks)
          BY <1>4, <1>6, <4>3 DEF ks
        <5> QED BY <2>8, <5>1 DEF QueueServed, Pending
      <4> QED BY <1>6, <4>1, <4>2, <4>3 DEF Pending
    <3> QED BY <1>2, <3>1 DEF AllPending
  <2>12. NothingForgotten'
    BY <2>9, <2>11, PendingIsPending, PTL
  <2> QED BY <2>9, <2>10, <2>12 DEF IInv, CoordinatorInv
<1> QED BY <1>7, <1>8, <1>9

\* A handler starts: it answers the events of its repository, and owns it as before.
LEMMA HandlerStartsKeeps ==
    ASSUME IInv, NEW e \in Executions, HandlerStarts(e)
    PROVE  IInv'
<1> DEFINE r == execution[e].repo
<1>1. /\ TypeOK /\ EntriesAreOwned /\ OnePlace /\ DirtyInFlight /\ WithinMaxDebounce
      /\ StoppedIsEmpty /\ NoIdleSlot /\ SlotsKept /\ NothingForgotten
  BY DEF IInv, CoordinatorInv
<1>2. /\ execution[e].pc = "gated"
      /\ execution' = [execution EXCEPT ![e].pc = "running"]
      /\ unanswered' = unanswered \ {r}
      /\ UNCHANGED <<timer, inFlight, dirty, waitQueue, queuedKeys, stops, awaited, grace, draining>>
  BY DEF HandlerStarts
<1>3. /\ execution' \in [Executions -> ExecutionStates]
      /\ execution'[e].pc = "running" /\ execution'[e].repo = r
      /\ \A d \in Executions \ {e} : execution'[d] = execution[d]
  BY <1>1, <1>2 DEF TypeOK, ExecutionStates
<1>4. TypeOK'
  BY <1>1, <1>2, <1>3 DEF TypeOK
<1>5. EntriesAreOwned'
  <2>1. \A d \in Executions : /\ execution'[d].pc # "free" <=> execution[d].pc # "free"
                              /\ execution'[d].repo = execution[d].repo
    BY <1>2, <1>3
  <2>2. Keys(inFlight') = Keys(inFlight)
    BY <1>2
  <2>3. Owned(inFlight, execution)
    BY <1>1 DEF EntriesAreOwned
  <2> QED BY <1>2, <2>1, <2>2, <2>3 DEF EntriesAreOwned, Owned
<1>6. /\ OnePlace' /\ DirtyInFlight' /\ WithinMaxDebounce' /\ StoppedIsEmpty' /\ NoIdleSlot' /\ SlotsKept'
  BY <1>1, <1>2
  DEF OnePlace, Placed, Elements, DirtyInFlight, WithinMaxDebounce, StoppedIsEmpty, Stopped,
      NoIdleSlot, SlotsKept, Keys
<1>7. AllPending'
  <2>1. ASSUME NEW k \in unanswered, k # r PROVE Pending(k)'
    <3>1. Pending(k)
      BY <1>1, PendingIsPending DEF AllPending
    <3>2. CASE \E d \in Executions : execution[d] = [pc |-> "gated", repo |-> k]
      <4>1. PICK d \in Executions : execution[d] = [pc |-> "gated", repo |-> k]
        BY <3>2
      <4>2. d # e
        BY <2>1, <4>1
      <4>3. execution'[d] = execution[d]
        BY <1>3, <4>2
      <4> QED BY <4>1, <4>3 DEF Pending
    <3>3. CASE timer[k].on \/ k \in queuedKeys \/ k \in dirty
      BY <1>2, <3>3 DEF Pending
    <3> QED BY <3>1, <3>2, <3>3 DEF Pending
  <2> QED BY <1>2, <2>1 DEF AllPending
<1>8. NothingForgotten'
  BY <1>4, <1>7, PendingIsPending, PTL
<1> QED BY <1>4, <1>5, <1>6, <1>8 DEF IInv, CoordinatorInv

\* A handler settles: it frees its slot, which a waiting repository takes, and a dirty
\* repository goes back to debouncing.
LEMMA HandlerSettlesKeeps ==
    ASSUME IInv, NEW e \in Executions, HandlerSettles(e)
    PROVE  IInv'
<1> DEFINE r == execution[e].repo
<1> DEFINE f == Released(e)
<1> DEFINE x == [execution EXCEPT ![e] = Free]
<1> DEFINE follow == ~Stopped /\ r \in dirty
<1> DEFINE t == IF follow THEN TimerAfter(r, f) ELSE timer
<1>1. /\ TypeOK /\ EntriesAreOwned /\ OnePlace /\ DirtyInFlight /\ WithinMaxDebounce
      /\ StoppedIsEmpty /\ NoIdleSlot /\ SlotsKept /\ NothingForgotten
  BY DEF IInv, CoordinatorInv
<1>2. /\ execution[e].pc = "running"
      /\ dirty' = IF follow THEN DirtyAfter(r, f, dirty \ {r}) ELSE dirty
      /\ Stopped => inFlight' = f /\ execution' = x /\ UNCHANGED <<timer, waitQueue, queuedKeys>>
      /\ ~Stopped => ProcessQueue(waitQueue, queuedKeys, t, f, x)
      /\ UNCHANGED <<stops, awaited, grace, draining, unanswered>>
  BY DEF HandlerSettles
<1>3. r \in Repos /\ inFlight[r] = e /\ r \in Keys(inFlight)
  BY <1>1, <1>2, NoExecutionAssumption DEF EntriesAreOwned, Owned, Keys
<1>4. f = [inFlight EXCEPT ![r] = None]
  BY <1>3 DEF Released
<1>5. /\ f \in [Repos -> Executions \cup {None}] /\ f[r] = None
      /\ \A k \in Repos \ {r} : f[k] = inFlight[k]
  BY <1>1, <1>3, <1>4 DEF TypeOK
<1>6. Keys(f) = Keys(inFlight) \ {r}
  BY <1>5 DEF Keys
<1>7. Cardinality(Keys(f)) = Cardinality(Keys(inFlight)) - 1
  BY <1>3, <1>6, OneLess DEF Keys
<1>8. /\ x \in [Executions -> ExecutionStates] /\ x[e] = Free
      /\ \A d \in Executions \ {e} : x[d] = execution[d]
  BY <1>1 DEF TypeOK, ExecutionStates, Free
<1>9. /\ Cardinality(Keys(inFlight)) \in Nat /\ Concurrency \in Nat
      /\ Cardinality(Keys(inFlight)) <= Concurrency
  BY <1>1, KeysAreFinite, LimitAssumption DEF SlotsKept
<1> HIDE DEF f, x
<1>10. Owned(f, x)
  <2>1. ASSUME NEW d \in Executions, x[d].pc # "free"
        PROVE  x[d].repo \in Repos /\ f[x[d].repo] = d
    <3>1. d # e /\ x[d] = execution[d]
      BY <1>8, <2>1 DEF Free
    <3>2. execution[d].repo \in Repos /\ inFlight[execution[d].repo] = d
      BY <1>1, <2>1, <3>1 DEF EntriesAreOwned, Owned
    <3>3. execution[d].repo # r
      BY <1>3, <3>1, <3>2
    <3> QED BY <1>5, <3>1, <3>2, <3>3
  <2>2. ASSUME NEW k \in Keys(f)
        PROVE  f[k] \in Executions /\ x[f[k]].pc # "free" /\ x[f[k]].repo = k
    <3>1. k \in Keys(inFlight) /\ k # r /\ k \in Repos
      BY <1>6 DEF Keys
    <3>2. f[k] = inFlight[k]
      BY <1>5, <3>1
    <3>3. inFlight[k] \in Executions /\ execution[inFlight[k]].pc # "free" /\ execution[inFlight[k]].repo = k
      BY <1>1, <3>1 DEF EntriesAreOwned, Owned
    <3>4. inFlight[k] # e
      BY <3>1, <3>3
    <3> QED BY <1>8, <3>2, <3>3, <3>4
  <2> QED BY <2>1, <2>2 DEF Owned
<1>11. r \notin queuedKeys \cup Keys(f)
  BY <1>1, <1>3, <1>6 DEF OnePlace, Placed
<1>12. /\ t \in [Repos -> Timers]
       /\ \A k \in Repos \ {r} : t[k] = timer[k]
       /\ r \in dirty /\ ~Stopped => t[r].on
       /\ \A k \in Repos : t[k].on => t[k].due <= t[k].left
  <2>1. timer[r] \in Timers
    BY <1>1, <1>3 DEF TypeOK
  <2>2. /\ Rearmed(timer[r]) \in Timers /\ Rearmed(timer[r]).on
        /\ Rearmed(timer[r]).due <= Rearmed(timer[r]).left
    BY <2>1, RearmedIsDue
  <2>3. CASE follow
    <3>1. t = [timer EXCEPT ![r] = Rearmed(timer[r])]
      BY <1>11, <2>3 DEF TimerAfter
    <3> QED BY <1>1, <1>3, <2>2, <2>3, <3>1 DEF TypeOK, WithinMaxDebounce
  <2>4. CASE ~follow
    BY <1>1, <2>4 DEF TypeOK, WithinMaxDebounce
  <2> QED BY <2>3, <2>4
<1> HIDE DEF t
<1>13. Placed(t, f, waitQueue, queuedKeys)
  BY <1>1, <1>6, <1>11, <1>12 DEF OnePlace, Placed
<1>14. /\ dirty' \subseteq Keys(f)
       /\ \A k \in dirty \ {r} : k \in dirty'
  <2>1. dirty \subseteq Keys(inFlight)
    BY <1>1 DEF DirtyInFlight
  <2>2. Stopped => dirty = {}
    BY <1>1 DEF StoppedIsEmpty
  <2>3. follow => dirty' = dirty \ {r}
    BY <1>2, <1>11 DEF DirtyAfter
  <2>4. ~follow => dirty' = dirty /\ r \notin dirty
    BY <1>2, <2>2
  <2> HIDE DEF follow, r
  <2> QED BY <1>6, <2>1, <2>3, <2>4
<1>15. unanswered \subseteq Repos /\ \A k \in unanswered : Pending(k)
  BY <1>1, PendingIsPending DEF AllPending, TypeOK
<1>16. ASSUME NEW d \in Executions, NEW k, execution[d] = [pc |-> "gated", repo |-> k]
       PROVE  d # e /\ x[d] = execution[d] /\ x[d].pc # "free"
  <2>1. execution[d].pc = "gated"
    BY <1>16
  <2> QED BY <1>2, <1>8, <2>1
<1>17. CASE Stopped
  <2>1. inFlight' = f /\ execution' = x /\ UNCHANGED <<timer, waitQueue, queuedKeys>>
    BY <1>2, <1>17
  <2>2. t = timer
    BY <1>17 DEF t
  <2>3. /\ waitQueue = <<>> /\ dirty = {} /\ \A k \in Repos : ~timer[k].on
    BY <1>1, <1>17 DEF StoppedIsEmpty
  <2>4. TypeOK'
    BY <1>1, <1>2, <1>5, <1>8, <1>14, <1>6, <2>1 DEF TypeOK, Keys
  <2>5. EntriesAreOwned' /\ OnePlace' /\ DirtyInFlight' /\ WithinMaxDebounce' /\ NoIdleSlot'
    BY <1>1, <1>10, <1>13, <1>14, <2>1, <2>2, <2>3
    DEF EntriesAreOwned, OnePlace, DirtyInFlight, WithinMaxDebounce, NoIdleSlot
  <2>6. StoppedIsEmpty'
    BY <1>2, <1>17, <2>1, <2>3 DEF StoppedIsEmpty, Stopped
  <2>7. SlotsKept'
    BY <1>7, <1>9, <2>1 DEF SlotsKept
  <2>8. AllPending'
    <3>1. ASSUME NEW k \in unanswered PROVE Pending(k)'
      <4>1. CASE k \in queuedKeys \/ timer[k].on \/ k \in dirty
        BY <2>1, <2>3, <4>1, <1>15 DEF Pending
      <4>2. CASE \E d \in Executions : execution[d] = [pc |-> "gated", repo |-> k]
        <5>1. PICK d \in Executions : execution[d] = [pc |-> "gated", repo |-> k]
          BY <4>2
        <5>2. execution'[d] = execution[d]
          BY <1>16, <2>1, <5>1
        <5> QED BY <5>1, <5>2 DEF Pending
      <4> QED BY <1>15, <4>1, <4>2 DEF Pending
    <3> QED BY <1>2, <3>1 DEF AllPending
  <2>9. NothingForgotten'
    BY <2>4, <2>8, PendingIsPending, PTL
  <2> QED BY <2>4, <2>5, <2>6, <2>7, <2>9 DEF IInv, CoordinatorInv
<1>18. CASE ~Stopped
  <2>1. ProcessQueue(waitQueue, queuedKeys, t, f, x)
    BY <1>2, <1>18
  <2>2. waitQueue \in Seq(Repos) /\ queuedKeys \in SUBSET Repos
    BY <1>1 DEF TypeOK
  <2>3. Len(waitQueue) > 0 => Cardinality(Keys(f)) + 1 >= Concurrency
    BY <1>1, <1>7, <1>9, <2>2 DEF NoIdleSlot
  <2>4. Cardinality(Keys(f)) <= Concurrency
    BY <1>7, <1>9
  <2>5. \A k \in Repos : t[k].on => t[k].due <= t[k].left
    BY <1>12
  <2>6. QueueServed(queuedKeys, t, f, x)
    BY <1>5, <1>8, <1>10, <1>12, <1>13, <2>1, <2>2, <2>3, <2>4, <2>5, ProcessQueueKeeps
  <2>7. dirty' \subseteq Repos /\ dirty' \subseteq Keys(inFlight')
    BY <1>14, <2>6 DEF QueueServed, Keys
  <2>8. TypeOK'
    BY <1>1, <1>2, <2>6, <2>7 DEF QueueServed, TypeOK
  <2>9. EntriesAreOwned' /\ OnePlace' /\ DirtyInFlight' /\ WithinMaxDebounce' /\ NoIdleSlot' /\ SlotsKept'
    BY <2>6, <2>7
    DEF QueueServed, EntriesAreOwned, OnePlace, DirtyInFlight, WithinMaxDebounce, NoIdleSlot, SlotsKept
  <2>10. StoppedIsEmpty'
    BY <1>2, <1>18 DEF StoppedIsEmpty, Stopped
  <2>11. AllPending'
    <3>1. ASSUME NEW k \in unanswered PROVE Pending(k)'
      <4>1. CASE k \in dirty \ {r}
        BY <1>14, <4>1 DEF Pending
      <4>2. CASE k \in queuedKeys \/ timer[k].on \/ (k = r /\ k \in dirty)
        <5>1. k \in Repos /\ (t[k].on \/ k \in queuedKeys)
          <6>1. k = r => ~timer[k].on
            BY <1>1, <1>3 DEF OnePlace, Placed
          <6> QED BY <1>12, <1>15, <1>18, <4>2, <6>1
        <5> QED BY <2>6, <5>1 DEF QueueServed, Pending
      <4>3. CASE \E d \in Executions : execution[d] = [pc |-> "gated", repo |-> k]
        <5>1. PICK d \in Executions : execution[d] = [pc |-> "gated", repo |-> k]
          BY <4>3
        <5>2. execution'[d] = execution[d]
          BY <1>16, <2>6, <5>1 DEF QueueServed
        <5> QED BY <5>1, <5>2 DEF Pending
      <4>4. Pending(k)
        BY <1>15
      <4>5. \/ timer[k].on \/ k \in queuedKeys \/ k \in dirty
            \/ \E d \in Executions : execution[d] = [pc |-> "gated", repo |-> k]
        BY <4>4 DEF Pending
      <4> HIDE DEF r
      <4> QED BY <4>1, <4>2, <4>3, <4>5
    <3> QED BY <1>2, <3>1 DEF AllPending
  <2>12. NothingForgotten'
    BY <2>8, <2>11, PendingIsPending, PTL
  <2> QED BY <2>8, <2>9, <2>10, <2>12 DEF IInv, CoordinatorInv
<1> QED BY <1>17, <1>18

\* stop() forgets all that waits and leaves what is in flight.
LEMMA StopKeeps ==
    ASSUME IInv, Stop
    PROVE  IInv'
<1>1. /\ TypeOK /\ EntriesAreOwned /\ SlotsKept
  BY DEF IInv, CoordinatorInv
<1>2. /\ stops < 2 /\ stops' = stops + 1
      /\ timer' = [r \in Repos |-> Off]
      /\ dirty' = {} /\ waitQueue' = <<>> /\ queuedKeys' = {} /\ unanswered' = {}
      /\ awaited' = {inFlight[r] : r \in Keys(inFlight)}
      /\ draining' = (Keys(inFlight) # {})
      /\ grace' = IF Keys(inFlight) # {} THEN Grace ELSE 0
      /\ UNCHANGED <<inFlight, execution>>
  BY DEF Stop
<1>3. Off \in Timers /\ grace' \in 0 .. Grace /\ stops' \in 0 .. 2
  BY <1>1, <1>2, TimeAssumption DEF Off, Timers, TypeOK
<1>4. awaited' \subseteq Executions
  BY <1>1, <1>2 DEF EntriesAreOwned, Owned
<1>5. timer' \in [Repos -> Timers] /\ \A r \in Repos : ~timer'[r].on
  BY <1>2, <1>3 DEF Off
<1>6. TypeOK'
  BY <1>1, <1>2, <1>3, <1>4, <1>5 DEF TypeOK
<1>7. EntriesAreOwned' /\ SlotsKept'
  BY <1>1, <1>2 DEF EntriesAreOwned, Owned, SlotsKept, Keys
<1>8. Elements(waitQueue') = {} /\ Len(waitQueue') = 0
  BY <1>2 DEF Elements
<1>9. OnePlace'
  BY <1>2, <1>5, <1>8 DEF OnePlace, Placed
<1>10. DirtyInFlight' /\ WithinMaxDebounce' /\ StoppedIsEmpty' /\ NoIdleSlot' /\ NothingForgotten'
  BY <1>2, <1>5 DEF DirtyInFlight, WithinMaxDebounce, StoppedIsEmpty, NoIdleSlot, NothingForgotten
<1> QED BY <1>6, <1>7, <1>9, <1>10 DEF IInv, CoordinatorInv

\* Time passes: a timer and its maximal deadline come nearer together.
LEMMA TickKeeps ==
    ASSUME IInv, Tick
    PROVE  IInv'
<1>1. /\ TypeOK /\ EntriesAreOwned /\ OnePlace /\ DirtyInFlight /\ WithinMaxDebounce
      /\ StoppedIsEmpty /\ NoIdleSlot /\ SlotsKept /\ NothingForgotten
  BY DEF IInv, CoordinatorInv
<1>2. /\ timer' = [r \in Repos |-> [timer[r] EXCEPT !.due = Less(@), !.left = Less(@)]]
      /\ grace' = Less(grace)
      /\ UNCHANGED <<inFlight, dirty, waitQueue, queuedKeys, execution, stops, awaited, draining, unanswered>>
  BY DEF Tick
<1>3. ASSUME NEW r \in Repos
      PROVE  /\ timer'[r] \in Timers
             /\ timer'[r].on = timer[r].on
             /\ timer[r].due <= timer[r].left => timer'[r].due <= timer'[r].left
  <2>1. timer[r] \in Timers
    BY <1>1 DEF TypeOK
  <2>2. timer'[r] = [on |-> timer[r].on, due |-> Less(timer[r].due), left |-> Less(timer[r].left)]
    BY <1>2, <2>1 DEF Timers
  <2>3. /\ Less(timer[r].due) \in 0 .. Debounce /\ Less(timer[r].left) \in 0 .. MaxDebounce
        /\ timer[r].due <= timer[r].left => Less(timer[r].due) <= Less(timer[r].left)
    BY <2>1, TimeAssumption DEF Timers, Less
  <2>4. timer[r].on \in BOOLEAN
    BY <2>1 DEF Timers
  <2>5. /\ timer'[r].on = timer[r].on
        /\ timer'[r].due = Less(timer[r].due) /\ timer'[r].left = Less(timer[r].left)
    BY <2>2
  <2>6. timer'[r] \in Timers
    BY <2>2, <2>3, <2>4 DEF Timers
  <2> QED BY <2>3, <2>5, <2>6
<1>4. grace' \in 0 .. Grace
  <2>1. grace \in 0 .. Grace
    BY <1>1 DEF TypeOK
  <2>2. grace' = Less(grace)
    BY <1>2
  <2> QED BY <2>1, <2>2, TimeAssumption DEF Less
<1>5. timer' \in [Repos -> Timers]
  BY <1>2, <1>3
<1>6. TypeOK'
  BY <1>1, <1>2, <1>4, <1>5 DEF TypeOK
<1>7. /\ EntriesAreOwned' /\ DirtyInFlight' /\ NoIdleSlot' /\ SlotsKept'
  BY <1>1, <1>2 DEF EntriesAreOwned, Owned, DirtyInFlight, NoIdleSlot, SlotsKept, Keys
<1>8. OnePlace' /\ StoppedIsEmpty' /\ WithinMaxDebounce'
  BY <1>1, <1>2, <1>3
  DEF OnePlace, Placed, Elements, Keys, StoppedIsEmpty, Stopped, WithinMaxDebounce
<1>9. AllPending'
  <2>1. ASSUME NEW r \in unanswered PROVE Pending(r)'
    <3>1. r \in Repos /\ Pending(r)
      BY <1>1, PendingIsPending DEF AllPending, TypeOK
    <3> QED BY <1>2, <1>3, <3>1 DEF Pending
  <2> QED BY <1>2, <2>1 DEF AllPending
<1>10. NothingForgotten'
  BY <1>6, <1>9, PendingIsPending, PTL
<1> QED BY <1>6, <1>7, <1>8, <1>10 DEF IInv, CoordinatorInv

LEMMA StepIsConsistent == IInv /\ [Next]_vars => IInv'
<1> SUFFICES ASSUME IInv, [Next]_vars PROVE IInv'
  OBVIOUS
<1>1. ASSUME NEW r \in Repos, ScheduleRefresh(r) PROVE IInv'
  BY <1>1, ScheduleRefreshKeeps
<1>2. ASSUME NEW r \in Repos, TimerFires(r) PROVE IInv'
  BY <1>2, TimerFiresKeeps
<1>3. ASSUME NEW e \in Executions, HandlerStarts(e) PROVE IInv'
  BY <1>3, HandlerStartsKeeps
<1>4. ASSUME NEW e \in Executions, HandlerSettles(e) PROVE IInv'
  BY <1>4, HandlerSettlesKeeps
<1>5. CASE Stop
  BY <1>5, StopKeeps
<1>6. CASE StopReturns
  <2>1. /\ draining' = FALSE /\ awaited' = {} /\ grace' = 0
        /\ UNCHANGED <<timer, inFlight, dirty, waitQueue, queuedKeys, execution, stops, unanswered>>
    BY <1>6 DEF StopReturns
  <2>2. grace' \in 0 .. Grace
    BY <2>1, TimeAssumption
  <2>3. TypeOK'
    BY <2>1, <2>2 DEF IInv, CoordinatorInv, TypeOK
  <2>4. EntriesAreOwned' /\ OnePlace' /\ DirtyInFlight'
    BY <2>1 DEF IInv, CoordinatorInv, EntriesAreOwned, Owned, OnePlace, Placed, Elements, DirtyInFlight, Keys
  <2>5. WithinMaxDebounce' /\ StoppedIsEmpty' /\ NoIdleSlot' /\ SlotsKept' /\ NothingForgotten'
    BY <2>1 DEF IInv, CoordinatorInv, WithinMaxDebounce, StoppedIsEmpty, Stopped, NoIdleSlot, SlotsKept,
                NothingForgotten, Keys, Live
  <2> QED BY <2>3, <2>4, <2>5 DEF IInv, CoordinatorInv
<1>7. CASE Tick
  BY <1>7, TickKeeps
<1>8. CASE UNCHANGED vars
  <2>1. CoordinatorInv'
    BY <1>8 DEF vars, IInv, CoordinatorInv, TypeOK, EntriesAreOwned, Owned, OnePlace, Placed, Elements,
                DirtyInFlight, WithinMaxDebounce, StoppedIsEmpty, Stopped, Keys
  <2>2. NoIdleSlot' /\ SlotsKept' /\ NothingForgotten'
    BY <1>8 DEF vars, IInv, NoIdleSlot, SlotsKept, NothingForgotten, Keys, Live
  <2> QED BY <2>1, <2>2 DEF IInv
<1> QED BY <1>1, <1>2, <1>3, <1>4, <1>5, <1>6, <1>7, <1>8 DEF Next

-----------------------------------------------------------------------------
\* The inductive invariant.
THEOREM Consistency == Spec => []IInv
BY InitIsConsistent, StepIsConsistent, PTL DEF Spec

\* The maps of the coordinator stay consistent: a repository is in one place, in flight
\* exactly while an execution owns it, dirty only in flight, and nowhere after stop().
THEOREM CoordinatorIsConsistent == Spec => []CoordinatorInv
<1>1. IInv => CoordinatorInv
  BY DEF IInv
<1> QED BY <1>1, Consistency, PTL

\* A repository is never refreshed twice at once.
THEOREM RefreshesAreExclusive == Spec => []OnePerRepository
<1>1. IInv => OnePerRepository
  BY DEF IInv, CoordinatorInv, EntriesAreOwned, Owned, OnePerRepository, Live
<1> QED BY <1>1, Consistency, PTL

\* No more refreshes run than the limit: the executions are those the in-flight map names.
THEOREM ConcurrencyIsBounded == Spec => []WithinConcurrency
<1>1. IInv => WithinConcurrency
  <2> SUFFICES ASSUME IInv PROVE Cardinality(Live) <= Concurrency
    BY DEF WithinConcurrency
  <2> DEFINE owner == [r \in Keys(inFlight) |-> inFlight[r]]
  <2>1. Owned(inFlight, execution) /\ Cardinality(Keys(inFlight)) <= Concurrency
    BY DEF IInv, CoordinatorInv, EntriesAreOwned, SlotsKept
  <2>2. owner \in [Keys(inFlight) -> Live]
    BY <2>1 DEF Owned, Live
  <2>3. \A e \in Live : \E r \in Keys(inFlight) : owner[r] = e
    BY <2>1, NoExecutionAssumption DEF Owned, Live, Keys
  <2>4. owner \in Surjection(Keys(inFlight), Live)
    BY <2>2, <2>3 DEF Surjection
  <2>5. IsFiniteSet(Keys(inFlight)) /\ Cardinality(Keys(inFlight)) \in Nat
    BY KeysAreFinite
  <2>6. IsFiniteSet(Live) /\ Cardinality(Live) <= Cardinality(Keys(inFlight))
    BY <2>4, <2>5, FS_Surjection
  <2>7. Cardinality(Live) \in Nat
    BY <2>6, FS_CardinalityType
  <2> QED BY <2>1, <2>5, <2>6, <2>7, LimitAssumption
<1> QED BY <1>1, Consistency, PTL

\* A repository waits in the queue only while every slot is taken.
THEOREM QueueMeansFull == Spec => []NoIdleSlot
<1>1. IInv => NoIdleSlot
  BY DEF IInv
<1> QED BY <1>1, Consistency, PTL

\* Until stop(), every event has been answered, or its refresh is still to come.
THEOREM EventsAreKept == Spec => []NothingForgotten
<1>1. IInv => NothingForgotten
  BY DEF IInv
<1> QED BY <1>1, Consistency, PTL

\* stop() is the end: no step after it starts a refresh.
THEOREM StopIsFinal == Spec => StopStartsNothing
<1> DEFINE Quiet == stops > 0 => {e \in Executions : execution'[e].pc # "free"} \subseteq Live
<1>1. ASSUME IInv, [Next]_vars PROVE [Quiet]_vars
  <2> SUFFICES ASSUME Next, Stopped
               PROVE  \A e \in Executions : execution'[e].pc # "free" => execution[e].pc # "free"
    BY <1>1 DEF Live, Stopped
  <2>1. TypeOK /\ \A r \in Repos : ~timer[r].on
    BY <1>1 DEF IInv, CoordinatorInv, StoppedIsEmpty
  <2>2. ASSUME NEW r \in Repos, ScheduleRefresh(r) PROVE FALSE
    BY <2>2 DEF ScheduleRefresh
  <2>3. ASSUME NEW r \in Repos, TimerFires(r) PROVE FALSE
    BY <2>1, <2>3 DEF TimerFires
  <2>4. ASSUME NEW d \in Executions, HandlerStarts(d)
        PROVE  \A e \in Executions : execution'[e].pc # "free" => execution[e].pc # "free"
    BY <2>1, <2>4 DEF HandlerStarts, TypeOK
  <2>5. ASSUME NEW d \in Executions, HandlerSettles(d)
        PROVE  \A e \in Executions : execution'[e].pc # "free" => execution[e].pc # "free"
    BY <2>1, <2>5 DEF HandlerSettles, TypeOK, Free
  <2>6. CASE Stop \/ StopReturns \/ Tick
    BY <2>6 DEF Stop, StopReturns, Tick
  <2> QED BY <2>2, <2>3, <2>4, <2>5, <2>6 DEF Next
<1> QED BY <1>1, Consistency, PTL DEF Spec, StopStartsNothing

-----------------------------------------------------------------------------
(***************************************************************************)
(* RefreshCoordinator implements RefreshRequests.  What awaits a refresh   *)
(* moves from a timer to the queue and from there behind the gate, and     *)
(* none of these moves adds or loses a repository; only an event adds one, *)
(* the start of a handler takes one away, and stop() forgets some.         *)
(***************************************************************************)

GatedIn(x) == {x[e].repo : e \in {d \in Executions : x[d].pc = "gated"}}
RunningIn(x) == {x[e].repo : e \in {d \in Executions : x[d].pc = "running"}}
AwaitingIn(t, ks, d, x) == {r \in Repos : t[r].on} \cup ks \cup d \cup GatedIn(x)

LEMMA GatedMember ==
    ASSUME NEW x, NEW r
    PROVE  r \in GatedIn(x) <=> \E e \in Executions : x[e].pc = "gated" /\ x[e].repo = r
BY Zenon DEF GatedIn

LEMMA RunningMember ==
    ASSUME NEW x, NEW r
    PROVE  r \in RunningIn(x) <=> \E e \in Executions : x[e].pc = "running" /\ x[e].repo = r
BY Zenon DEF RunningIn

LEMMA SameCardinality == ASSUME NEW S PROVE Requests!Cardinality(S) = Cardinality(S)
BY DEF Requests!Cardinality, Cardinality

LEMMA MappingUnfolds ==
    /\ Awaiting = AwaitingIn(timer, queuedKeys, dirty, execution)
    /\ Running = RunningIn(execution)
BY DEF Awaiting, Gated, Running, AwaitingIn, GatedIn, RunningIn

LEMMA MappingUnfoldsNext ==
    /\ Awaiting' = AwaitingIn(timer', queuedKeys', dirty', execution')
    /\ Running' = RunningIn(execution')
BY DEF Awaiting, Gated, Running, AwaitingIn, GatedIn, RunningIn

\* executeRefresh puts the repositories it starts behind the gate, and touches no other.
LEMMA StartGates ==
    ASSUME NEW S \in SUBSET Repos, NEW f, NEW g, NEW x, NEW y, Started(S, f, x, g, y)
    PROVE  GatedIn(y) = GatedIn(x) \cup S /\ RunningIn(y) = RunningIn(x)
<1>0. ASSUME NEW r \in S
      PROVE  /\ g[r] \in Executions /\ x[g[r]].pc = "free"
             /\ y[g[r]].pc = "gated" /\ y[g[r]].repo = r
  <2>1. g[r] \in Executions /\ x[g[r]] = Free /\ y[g[r]] = [pc |-> "gated", repo |-> r]
    BY DEF Started
  <2> QED BY <2>1 DEF Free
<1>1. /\ \A r \in S : /\ g[r] \in Executions /\ x[g[r]].pc = "free"
                    /\ y[g[r]].pc = "gated" /\ y[g[r]].repo = r
      /\ \A e \in Executions : (\A r \in S : g[r] # e) => y[e] = x[e]
  BY <1>0 DEF Started
<1>2. ASSUME NEW r \in S PROVE r \in GatedIn(y)
  <2>1. g[r] \in Executions /\ y[g[r]].pc = "gated" /\ y[g[r]].repo = r
    BY <1>1
  <2> QED BY <2>1, GatedMember
<1>3. ASSUME NEW e \in Executions, x[e].pc # "free" PROVE y[e] = x[e]
  BY <1>1, <1>3
<1>4. ASSUME NEW e \in Executions, y[e] # x[e]
      PROVE  y[e].pc = "gated" /\ y[e].repo \in S
  <2>1. PICK r \in S : g[r] = e
    BY <1>1, <1>4
  <2> QED BY <1>1, <2>1
<1>5. GatedIn(x) \subseteq GatedIn(y)
  BY <1>3, GatedMember
<1>6. GatedIn(y) \subseteq GatedIn(x) \cup S
  BY <1>4, GatedMember
<1>7. RunningIn(x) \subseteq RunningIn(y) /\ RunningIn(y) \subseteq RunningIn(x)
  BY <1>3, <1>4, RunningMember
<1> QED BY <1>2, <1>5, <1>6, <1>7

\* The loop of processQueue moves repositories from the queue behind the gate.
LEMMA ServingKeepsAwaiting ==
    ASSUME NEW q \in Seq(Repos), NEW ks \in SUBSET Repos, NEW t,
           NEW f \in [Repos -> Executions \cup {None}],
           NEW x \in [Executions -> ExecutionStates],
           Placed(t, f, q, ks), ProcessQueue(q, ks, t, f, x)
    PROVE  /\ AwaitingIn(timer', queuedKeys', {}, execution') = AwaitingIn(t, ks, {}, x)
           /\ RunningIn(execution') = RunningIn(x)
<1> DEFINE S == TakenRepos(q, f)
<1>1. S \subseteq ks /\ S \cap Keys(f) = {}
  <2>1. ks = {q[i] : i \in 1 .. Len(q)} /\ ks \cap Keys(f) = {}
    BY DEF Placed, Elements
  <2>2. Taken(q, f) \subseteq 1 .. Len(q)
    BY DEF Taken
  <2>3. S \subseteq ks
    BY <2>1, <2>2 DEF TakenRepos
  <2> QED BY <2>1, <2>3
<1>2. S \ Keys(f) = S /\ S \in SUBSET Repos
  BY <1>1
<1>3. queuedKeys' = ks \ S /\ timer' = Cleared(t, S) /\ Start(S, f, x)
  BY <1>2 DEF ProcessQueue
<1> HIDE DEF S
<1>4. Started(S, f, x, inFlight', execution')
  BY <1>2, <1>3, StartStarts
<1>5. GatedIn(execution') = GatedIn(x) \cup S /\ RunningIn(execution') = RunningIn(x)
  BY <1>2, <1>4, StartGates
<1>6. {r \in Repos : timer'[r].on} = {r \in Repos : t[r].on} \ S
  BY <1>3 DEF Cleared, Off
<1> QED BY <1>1, <1>3, <1>5, <1>6 DEF AwaitingIn
\* What awaits a refresh, and what is being refreshed, after a step of the coordinator.
LEMMA FiringKeepsAwaiting ==
    ASSUME IInv, NEW r \in Repos, TimerFires(r)
    PROVE  Awaiting' = Awaiting /\ Running' = Running
<1> DEFINE t == [timer EXCEPT ![r] = Off]
<1> DEFINE q == Append(waitQueue, r)
<1> DEFINE ks == queuedKeys \cup {r}
<1>1. /\ TypeOK /\ OnePlace /\ StoppedIsEmpty
      /\ inFlight \in [Repos -> Executions \cup {None}]
      /\ execution \in [Executions -> ExecutionStates]
      /\ timer \in [Repos -> Timers] /\ waitQueue \in Seq(Repos) /\ queuedKeys \in SUBSET Repos
  BY DEF IInv, CoordinatorInv, TypeOK
<1>2. timer[r].on /\ UNCHANGED <<dirty, stops>>
  BY DEF TimerFires
<1>3. ~Stopped /\ r \notin queuedKeys \cup Keys(inFlight)
  BY <1>1, <1>2 DEF StoppedIsEmpty, OnePlace, Placed
<1>4. /\ t[r] = Off /\ \A k \in Repos \ {r} : t[k] = timer[k]
  BY <1>1
<1>5. {k \in Repos : timer[k].on} = {k \in Repos : t[k].on} \cup {r}
  BY <1>2, <1>4 DEF Off
<1>6. \/ /\ timer' = Cleared(t, {r})
         /\ Start({r}, inFlight, execution)
         /\ UNCHANGED queuedKeys
      \/ ProcessQueue(q, ks, t, inFlight, execution)
  BY <1>3 DEF TimerFires
<1>7. \A k \in Repos : t[k].on => k # r
  BY <1>4 DEF Off
<1> HIDE DEF t, ks
<1>8. CASE timer' = Cleared(t, {r}) /\ Start({r}, inFlight, execution) /\ UNCHANGED queuedKeys
  <2>1. {r} \in SUBSET Repos
    OBVIOUS
  <2>2. Started({r}, inFlight, execution, inFlight', execution')
    BY <1>1, <1>8, <2>1, StartStarts
  <2>3. GatedIn(execution') = GatedIn(execution) \cup {r} /\ RunningIn(execution') = RunningIn(execution)
    BY <2>1, <2>2, StartGates
  <2>4. {k \in Repos : timer'[k].on} = {k \in Repos : t[k].on}
    BY <1>7, <1>8 DEF Cleared, Off
  <2> QED BY <1>2, <1>5, <1>8, <2>3, <2>4, MappingUnfolds, MappingUnfoldsNext DEF AwaitingIn
<1>9. CASE ProcessQueue(q, ks, t, inFlight, execution)
  <2>1. /\ q \in Seq(Repos) /\ Len(q) > 0
        /\ Elements(q) = Elements(waitQueue) \cup {r}
        /\ \A i, j \in 1 .. Len(q) : q[i] = q[j] => i = j
    BY <1>1, <1>3, AppendKeepsPlaces DEF OnePlace, Placed
  <2>2. ks \in SUBSET Repos
    BY <1>1 DEF ks
  <2>3. Placed(t, inFlight, q, ks)
    BY <1>1, <1>3, <1>4, <2>1 DEF OnePlace, Placed, Off, ks
  <2> HIDE DEF q
  <2>4. /\ AwaitingIn(timer', queuedKeys', {}, execution') = AwaitingIn(t, ks, {}, execution)
        /\ RunningIn(execution') = RunningIn(execution)
    <3>1. /\ inFlight \in [Repos -> Executions \cup {None}]
          /\ execution \in [Executions -> ExecutionStates]
          /\ q \in Seq(Repos)
      BY <1>1, <2>1
    <3> QED BY <1>9, <2>2, <2>3, <3>1, ServingKeepsAwaiting
  <2>5. AwaitingIn(t, ks, {}, execution) = AwaitingIn(timer, queuedKeys, {}, execution)
    BY <1>5 DEF AwaitingIn, ks
  <2>6. /\ Awaiting = AwaitingIn(timer, queuedKeys, {}, execution) \cup dirty
        /\ Running = RunningIn(execution)
    BY MappingUnfolds DEF AwaitingIn
  <2>7. /\ Awaiting' = AwaitingIn(timer', queuedKeys', {}, execution') \cup dirty'
        /\ Running' = RunningIn(execution')
    BY MappingUnfoldsNext DEF AwaitingIn
  <2> QED BY <1>2, <2>4, <2>5, <2>6, <2>7
<1> QED BY <1>6, <1>8, <1>9

\* An event makes its repository await a refresh, wherever the repository is.
LEMMA SchedulingRequests ==
    ASSUME IInv, NEW r \in Repos, ScheduleRefresh(r)
    PROVE  Requests!Request(r)
<1>1. timer \in [Repos -> Timers] /\ dirty \subseteq Repos
  BY DEF IInv, CoordinatorInv, TypeOK
<1>2. /\ ~Stopped
      /\ timer' = TimerAfter(r, inFlight) /\ dirty' = DirtyAfter(r, inFlight, dirty)
      /\ UNCHANGED <<queuedKeys, execution, stops>>
  BY DEF ScheduleRefresh
<1>3. Rearmed(timer[r]).on
  BY <1>1, RearmedIsDue
<1>4. CASE r \in Keys(inFlight)
  <2>1. timer' = timer /\ dirty' = dirty \cup {r}
    BY <1>2, <1>4 DEF TimerAfter, DirtyAfter
  <2>2. Awaiting' = Awaiting \cup {r} /\ Running' = Running
    BY <1>2, <2>1, MappingUnfolds, MappingUnfoldsNext DEF AwaitingIn
  <2> QED BY <1>2, <2>2 DEF Requests!Request, Stopped
<1>5. CASE r \in queuedKeys /\ r \notin Keys(inFlight)
  <2>1. timer' = timer /\ dirty' = dirty
    BY <1>2, <1>5 DEF TimerAfter, DirtyAfter
  <2>2. Awaiting' = Awaiting \cup {r} /\ Running' = Running
    BY <1>2, <1>5, <2>1, MappingUnfolds, MappingUnfoldsNext DEF AwaitingIn
  <2> QED BY <1>2, <2>2 DEF Requests!Request, Stopped
<1>6. CASE r \notin queuedKeys \cup Keys(inFlight)
  <2>1. timer' = [timer EXCEPT ![r] = Rearmed(timer[r])] /\ dirty' = dirty
    BY <1>2, <1>6 DEF TimerAfter, DirtyAfter
  <2>2. {k \in Repos : timer'[k].on} = {k \in Repos : timer[k].on} \cup {r}
    <3>1. timer'[r].on /\ \A k \in Repos \ {r} : timer'[k] = timer[k]
      BY <1>1, <1>3, <2>1
    <3> QED BY <3>1
  <2>3. Awaiting' = Awaiting \cup {r} /\ Running' = Running
    BY <1>2, <2>1, <2>2, MappingUnfolds, MappingUnfoldsNext DEF AwaitingIn
  <2> QED BY <1>2, <2>3 DEF Requests!Request, Stopped
<1> QED BY <1>4, <1>5, <1>6

\* The repositories being refreshed are in flight, and none of them is behind the gate.
LEMMA RunningInFlight ==
    ASSUME IInv, NEW e \in Executions, execution[e].pc = "gated"
    PROVE  /\ execution[e].repo \in Keys(inFlight) \ Running
           /\ Running \subseteq Keys(inFlight)
<1>1. Owned(inFlight, execution)
  BY DEF IInv, CoordinatorInv, EntriesAreOwned
<1>2. ASSUME NEW d \in Executions, execution[d].pc # "free"
      PROVE  execution[d].repo \in Keys(inFlight) /\ inFlight[execution[d].repo] = d
  BY <1>1, <1>2, NoExecutionAssumption DEF Owned, Keys
<1>3. ASSUME NEW r \in Running
      PROVE  \E d \in Executions : execution[d].pc = "running" /\ execution[d].repo = r
  BY MappingUnfolds, RunningMember
<1>4. execution[e].repo \in Keys(inFlight) /\ inFlight[execution[e].repo] = e
  BY <1>2
<1>5. Running \subseteq Keys(inFlight)
  BY <1>2, <1>3
<1>6. execution[e].repo \notin Running
  <2> SUFFICES ASSUME execution[e].repo \in Running PROVE FALSE
    OBVIOUS
  <2>1. PICK d \in Executions : execution[d].pc = "running" /\ execution[d].repo = execution[e].repo
    BY <1>3
  <2>2. d = e
    BY <1>2, <1>4, <2>1
  <2> QED BY <2>1, <2>2
<1> QED BY <1>4, <1>5, <1>6

\* The start of a handler takes its repository from those that await one, unless an event
\* came in the meantime.
LEMMA HandlerBegins ==
    ASSUME IInv, NEW e \in Executions, HandlerStarts(e)
    PROVE  Requests!Begin(execution[e].repo)
<1> DEFINE r == execution[e].repo
<1>1. /\ execution[e].pc = "gated"
      /\ execution' = [execution EXCEPT ![e].pc = "running"]
      /\ UNCHANGED <<timer, inFlight, dirty, queuedKeys, stops>>
  BY DEF HandlerStarts
<1>2. r \in Keys(inFlight) \ Running /\ Running \subseteq Keys(inFlight)
  BY <1>1, RunningInFlight
<1>3. /\ execution'[e].pc = "running" /\ execution'[e].repo = r
      /\ \A d \in Executions \ {e} : execution'[d] = execution[d]
  BY <1>1 DEF IInv, CoordinatorInv, TypeOK, ExecutionStates
<1>4. \A d \in Executions \ {e} : execution[d].pc # "free" => execution[d].repo # r
  BY <1>1 DEF IInv, CoordinatorInv, EntriesAreOwned, Owned
<1> HIDE DEF r
<1>5. RunningIn(execution') = RunningIn(execution) \cup {r}
  <2>1. ASSUME NEW k \in RunningIn(execution') PROVE k \in RunningIn(execution) \cup {r}
    <3>1. PICK d \in Executions : execution'[d].pc = "running" /\ execution'[d].repo = k
      BY <2>1, RunningMember
    <3> QED BY <1>3, <3>1, RunningMember
  <2>2. ASSUME NEW k \in RunningIn(execution) PROVE k \in RunningIn(execution')
    <3>1. PICK d \in Executions : execution[d].pc = "running" /\ execution[d].repo = k
      BY <2>2, RunningMember
    <3>2. d # e
      BY <1>1, <3>1
    <3> QED BY <1>3, <3>1, <3>2, RunningMember
  <2>3. r \in RunningIn(execution')
    BY <1>3, RunningMember
  <2> QED BY <2>1, <2>2, <2>3
<1>6. GatedIn(execution') = GatedIn(execution) \ {r}
  <2>1. ASSUME NEW k \in GatedIn(execution') PROVE k \in GatedIn(execution) \ {r}
    <3>1. PICK d \in Executions : execution'[d].pc = "gated" /\ execution'[d].repo = k
      BY <2>1, GatedMember
    <3>2. d # e /\ execution[d].pc = "gated" /\ execution[d].repo = k
      BY <1>3, <3>1
    <3> QED BY <1>4, <3>2, GatedMember
  <2>2. ASSUME NEW k \in GatedIn(execution) \ {r} PROVE k \in GatedIn(execution')
    <3>1. PICK d \in Executions : execution[d].pc = "gated" /\ execution[d].repo = k
      BY <2>2, GatedMember
    <3>2. d # e
      BY <2>2, <3>1 DEF r
    <3> QED BY <1>3, <3>1, <3>2, GatedMember
  <2> QED BY <2>1, <2>2
<1>7. r \in GatedIn(execution)
  BY <1>1, GatedMember DEF r
<1>8. Awaiting' \in {Awaiting \ {r}, Awaiting}
  BY <1>1, <1>6, <1>7, MappingUnfolds, MappingUnfoldsNext DEF AwaitingIn
<1>9. Cardinality(Running) < Concurrency
  <2>1. IsFiniteSet(Keys(inFlight)) /\ Cardinality(Keys(inFlight)) \in Nat
    BY KeysAreFinite
  <2>2. Running \subseteq Keys(inFlight) \ {r}
    BY <1>2
  <2>3. IsFiniteSet(Keys(inFlight) \ {r}) /\ Cardinality(Keys(inFlight) \ {r}) = Cardinality(Keys(inFlight)) - 1
    BY <1>2, <2>1, FS_RemoveElement
  <2>4. IsFiniteSet(Running) /\ Cardinality(Running) <= Cardinality(Keys(inFlight) \ {r})
    BY <2>2, <2>3, FS_Subset
  <2>5. Cardinality(Running) \in Nat
    BY <2>4, FS_CardinalityType
  <2>6. Cardinality(Keys(inFlight)) <= Concurrency
    BY DEF IInv, SlotsKept
  <2> QED BY <2>1, <2>3, <2>4, <2>5, <2>6, LimitAssumption
<1>10. r \in Awaiting \ Running
  BY <1>2, <1>7, MappingUnfolds DEF AwaitingIn
<1>11. Running' = Running \cup {r} /\ UNCHANGED Stopped
  BY <1>1, <1>5, MappingUnfolds, MappingUnfoldsNext DEF Stopped
<1> QED BY <1>8, <1>9, <1>10, <1>11, SameCardinality DEF Requests!Begin, r

\* When a handler settles its repository is not refreshed any more; if it is dirty it
\* debounces again, and others leave the queue for the gate.
LEMMA HandlerEnds ==
    ASSUME IInv, NEW e \in Executions, HandlerSettles(e)
    PROVE  Requests!Settle(execution[e].repo)
<1> DEFINE r == execution[e].repo
<1> DEFINE f == Released(e)
<1> DEFINE x == [execution EXCEPT ![e] = Free]
<1> DEFINE follow == ~Stopped /\ r \in dirty
<1> DEFINE t == IF follow THEN TimerAfter(r, f) ELSE timer
<1>1. /\ inFlight \in [Repos -> Executions \cup {None}]
      /\ execution \in [Executions -> ExecutionStates]
      /\ timer \in [Repos -> Timers] /\ waitQueue \in Seq(Repos) /\ queuedKeys \in SUBSET Repos
      /\ EntriesAreOwned /\ OnePlace /\ DirtyInFlight /\ StoppedIsEmpty
  BY DEF IInv, CoordinatorInv, TypeOK
<1>2. /\ execution[e].pc = "running"
      /\ dirty' = IF follow THEN DirtyAfter(r, f, dirty \ {r}) ELSE dirty
      /\ Stopped => execution' = x /\ UNCHANGED <<timer, queuedKeys>>
      /\ ~Stopped => ProcessQueue(waitQueue, queuedKeys, t, f, x)
      /\ UNCHANGED stops
  BY DEF HandlerSettles
<1>3. r \in Repos /\ inFlight[r] = e /\ r \in Keys(inFlight)
  BY <1>1, <1>2, NoExecutionAssumption DEF EntriesAreOwned, Owned, Keys
<1>4. f = [inFlight EXCEPT ![r] = None]
  BY <1>3 DEF Released
<1>5. f \in [Repos -> Executions \cup {None}] /\ Keys(f) = Keys(inFlight) \ {r}
  BY <1>1, <1>3, <1>4 DEF Keys
<1>6. /\ x \in [Executions -> ExecutionStates] /\ x[e].pc = "free"
      /\ \A d \in Executions \ {e} : x[d] = execution[d]
  BY <1>1 DEF ExecutionStates, Free
<1>7. \A d \in Executions \ {e} : execution[d].pc # "free" => execution[d].repo # r
  BY <1>1, <1>3 DEF EntriesAreOwned, Owned
<1>8. r \notin queuedKeys \cup Keys(f) /\ ~timer[r].on
  BY <1>1, <1>3, <1>5 DEF OnePlace, Placed
<1>9. GatedIn(x) = GatedIn(execution) /\ r \notin GatedIn(execution)
  <2>1. ASSUME NEW k \in GatedIn(execution) PROVE k \in GatedIn(x) /\ k # r
    <3>1. PICK d \in Executions : execution[d].pc = "gated" /\ execution[d].repo = k
      BY <2>1, GatedMember
    <3>2. d # e
      BY <1>2, <3>1
    <3> QED BY <1>6, <1>7, <3>1, <3>2, GatedMember
  <2>2. ASSUME NEW k \in GatedIn(x) PROVE k \in GatedIn(execution)
    <3>1. PICK d \in Executions : x[d].pc = "gated" /\ x[d].repo = k
      BY <2>2, GatedMember
    <3>2. d # e
      BY <1>6, <3>1
    <3> QED BY <1>6, <3>1, <3>2, GatedMember
  <2> QED BY <2>1, <2>2
<1>10. RunningIn(x) = RunningIn(execution) \ {r} /\ r \in RunningIn(execution)
  <2>1. ASSUME NEW k \in RunningIn(execution) \ {r} PROVE k \in RunningIn(x)
    <3>1. PICK d \in Executions : execution[d].pc = "running" /\ execution[d].repo = k
      BY <2>1, RunningMember
    <3>2. d # e
      BY <2>1, <3>1
    <3> QED BY <1>6, <3>1, <3>2, RunningMember
  <2>2. ASSUME NEW k \in RunningIn(x) PROVE k \in RunningIn(execution) /\ k # r
    <3>1. PICK d \in Executions : x[d].pc = "running" /\ x[d].repo = k
      BY <2>2, RunningMember
    <3>2. d # e
      BY <1>6, <3>1
    <3> QED BY <1>6, <1>7, <3>1, <3>2, RunningMember
  <2>3. r \in RunningIn(execution)
    BY <1>2, RunningMember
  <2> QED BY <2>1, <2>2, <2>3
<1> HIDE DEF f, x
<1>11. follow => /\ dirty' = dirty \ {r}
                 /\ \A k \in Repos \ {r} : t[k] = timer[k]
                 /\ t[r].on
  <2> SUFFICES ASSUME follow
               PROVE  /\ dirty' = dirty \ {r}
                      /\ \A k \in Repos \ {r} : t[k] = timer[k]
                      /\ t[r].on
    OBVIOUS
  <2>1. dirty' = dirty \ {r} /\ t = [timer EXCEPT ![r] = Rearmed(timer[r])]
    BY <1>2, <1>8 DEF DirtyAfter, TimerAfter
  <2>2. Rearmed(timer[r]).on
    BY <1>1, <1>3, RearmedIsDue
  <2> HIDE DEF t, r
  <2> QED BY <1>1, <1>3, <2>1, <2>2 DEF r
<1>12. ~follow => t = timer /\ dirty' = dirty
  BY <1>2
<1> HIDE DEF t
<1>13. AwaitingIn(t, queuedKeys, dirty', x) = AwaitingIn(timer, queuedKeys, dirty, execution)
  <2>1. CASE follow
    <3>1. {k \in Repos : t[k].on} = {k \in Repos : timer[k].on} \cup {r}
      BY <1>3, <1>11, <2>1
    <3> QED BY <1>9, <1>11, <2>1, <3>1 DEF AwaitingIn
  <2>2. CASE ~follow
    BY <1>9, <1>12, <2>2 DEF AwaitingIn
  <2> QED BY <2>1, <2>2
<1>14. /\ AwaitingIn(timer', queuedKeys', {}, execution') = AwaitingIn(t, queuedKeys, {}, x)
       /\ RunningIn(execution') = RunningIn(x)
  <2>1. CASE Stopped
    BY <1>2, <1>12, <2>1
  <2>2. CASE ~Stopped
    <3>1. Placed(t, f, waitQueue, queuedKeys)
      <4>1. \A k \in Repos \ {r} : t[k].on => timer[k].on
        BY <1>11, <1>12
      <4> HIDE DEF follow, r
      <4> QED BY <1>1, <1>5, <1>8, <4>1 DEF OnePlace, Placed
    <3>2. ProcessQueue(waitQueue, queuedKeys, t, f, x)
      BY <1>2, <2>2
    <3> QED BY <1>1, <1>5, <1>6, <3>1, <3>2, ServingKeepsAwaiting
  <2> QED BY <2>1, <2>2
<1>15. Awaiting' = Awaiting /\ Running' = Running \ {r}
  <2>1. Awaiting' = AwaitingIn(timer', queuedKeys', {}, execution') \cup dirty'
    BY MappingUnfoldsNext DEF AwaitingIn
  <2>2. AwaitingIn(t, queuedKeys, dirty', x) = AwaitingIn(t, queuedKeys, {}, x) \cup dirty'
    BY DEF AwaitingIn
  <2> QED BY <1>10, <1>13, <1>14, <2>1, <2>2, MappingUnfolds, MappingUnfoldsNext
<1>16. r \in Running /\ UNCHANGED Stopped
  BY <1>2, <1>10, MappingUnfolds DEF Stopped
<1> QED BY <1>15, <1>16 DEF Requests!Settle

\* stop() leaves only what is behind the gate.
LEMMA StoppingForgets ==
    ASSUME IInv, Stop
    PROVE  Requests!Stop
<1>1. /\ stops' = stops + 1 /\ stops \in 0 .. 2
      /\ timer' = [r \in Repos |-> Off] /\ dirty' = {} /\ queuedKeys' = {}
      /\ UNCHANGED execution
  BY DEF IInv, CoordinatorInv, TypeOK, Stop
<1>2. Awaiting' = GatedIn(execution) /\ Running' = Running
  BY <1>1, MappingUnfolds, MappingUnfoldsNext DEF AwaitingIn, Off
<1>3. Awaiting' \in SUBSET Awaiting
  BY <1>2, MappingUnfolds DEF AwaitingIn
<1> QED BY <1>1, <1>2, <1>3 DEF Requests!Stop, Stopped

LEMMA InitIsRequestsInit == Init => Requests!RequestsInit
<1> SUFFICES ASSUME Init PROVE Requests!RequestsInit
  OBVIOUS
<1>1. GatedIn(execution) = {} /\ RunningIn(execution) = {}
  BY GatedMember, RunningMember DEF Init, Free
<1>2. Awaiting = {} /\ Running = {}
  BY <1>1, MappingUnfolds DEF Init, AwaitingIn, Off
<1> QED BY <1>2 DEF Requests!RequestsInit, Init, Stopped

LEMMA StepIsRequestsStep ==
    IInv /\ [Next]_vars => [Requests!RequestsNext]_<<Awaiting, Running, Stopped>>
<1> SUFFICES ASSUME IInv, [Next]_vars
             PROVE  Requests!RequestsNext \/ UNCHANGED <<Awaiting, Running, Stopped>>
  OBVIOUS
<1>1. ASSUME NEW r \in Repos, ScheduleRefresh(r) PROVE Requests!RequestsNext
  BY <1>1, SchedulingRequests DEF Requests!RequestsNext
<1>2. ASSUME NEW r \in Repos, TimerFires(r) PROVE UNCHANGED <<Awaiting, Running, Stopped>>
  <2>1. UNCHANGED Stopped
    BY <1>2 DEF TimerFires, Stopped
  <2> QED BY <1>2, <2>1, FiringKeepsAwaiting
<1>3. ASSUME NEW e \in Executions, HandlerStarts(e) PROVE Requests!RequestsNext
  <2>1. execution[e].repo \in Repos
    BY <1>3, RunningInFlight DEF HandlerStarts, Keys
  <2> QED BY <1>3, <2>1, HandlerBegins DEF Requests!RequestsNext
<1>4. ASSUME NEW e \in Executions, HandlerSettles(e) PROVE Requests!RequestsNext
  <2>1. execution[e].repo \in Repos
    BY <1>4 DEF HandlerSettles, IInv, CoordinatorInv, EntriesAreOwned, Owned
  <2> QED BY <1>4, <2>1, HandlerEnds DEF Requests!RequestsNext
<1>5. CASE Stop
  BY <1>5, StoppingForgets DEF Requests!RequestsNext
<1>6. CASE StopReturns \/ UNCHANGED vars
  BY <1>6 DEF StopReturns, vars, Awaiting, Gated, Running, Stopped
<1>7. CASE Tick
  <2>1. timer \in [Repos -> Timers]
    BY DEF IInv, CoordinatorInv, TypeOK
  <2>2. \A r \in Repos : timer'[r].on = timer[r].on
    BY <1>7, <2>1 DEF Tick, Timers
  <2> QED BY <1>7, <2>2 DEF Tick, Awaiting, Gated, Running, Stopped
<1> QED BY <1>1, <1>2, <1>3, <1>4, <1>5, <1>6, <1>7 DEF Next

\* The coordinator implements what ProjectService is built on: no refresh starts without an
\* event, twice at once or beyond the limit, and none is forgotten before stop().
THEOREM CoordinatorImplementsRequests == Spec => ImplementsRequests
BY InitIsRequestsInit, StepIsRequestsStep, Consistency, PTL
DEF Spec, ImplementsRequests, Requests!RequestsSpec, Requests!requestVars
=============================================================================
