------------------------ MODULE ProjectService_proofs ------------------------
(***************************************************************************)
(* Theorems about ProjectService, for any projects, repositories,          *)
(* deliveries and numbers of concurrent requests.  Two invariants that do  *)
(* not need each other: one of webhook deliveries, whose rows decide who   *)
(* may ask for a refresh, and one of the projects' locks, whose holder     *)
(* builds on the snapshot it read.                                         *)
(***************************************************************************)
EXTENDS ProjectService, TLAPS, WellFoundedInduction

-----------------------------------------------------------------------------
(* Deliveries. *)

PostType ==
    \A h \in Posts : /\ {"pc", "delivery", "accepted"} \subseteq DOMAIN post[h]
                     /\ post[h].pc # "idle" => post[h].delivery \in Deliveries

\* A delivery was asked for, or is owed, only while its row says it was accepted.
RowsDecide ==
    \A d \in Deliveries : acts[d] <= 1 /\ acts[d] \in Nat /\ (row[d] # "accepted" => acts[d] = 0 /\ d \notin due)

\* One request answers for a delivery, and has not asked yet.
OneOwes ==
    \A h \in Posts : Recorded(h) =>
        /\ row[post[h].delivery] = "accepted" /\ acts[post[h].delivery] = 0
        /\ \A i \in Posts : Recorded(i) /\ post[i].delivery = post[h].delivery => i = h

NothingDropped ==
    /\ lost \subseteq due /\ due \subseteq Deliveries
    /\ \A d \in due \ lost : d \in Owing \/ Target[d] \in requested

DeliveryInv ==
    /\ DOMAIN post = Posts /\ DOMAIN row = Deliveries /\ DOMAIN acts = Deliveries
    /\ PostType /\ RowsDecide /\ OneOwes /\ NothingDropped

\* Steps that do not touch the deliveries, or forget requests together with the coordinator.
LEMMA DeliveriesUntouched ==
    ASSUME DeliveryInv, UNCHANGED <<row, post, acts, due>>, lost' \subseteq due,
           \A d \in due \ lost' : d \notin lost /\ (Target[d] \in requested => Target[d] \in requested')
    PROVE  DeliveryInv'
<1>1. Owing' = Owing
  BY DEF Owing, Recorded
<1>2. NothingDropped'
  BY <1>1 DEF DeliveryInv, NothingDropped
<1> QED BY <1>2 DEF DeliveryInv, PostType, RowsDecide, OneOwes, Recorded

LEMMA RequestsUntouched ==
    ASSUME DeliveryInv, UNCHANGED <<requested, deliveryVars>>
    PROVE  DeliveryInv'
BY DeliveriesUntouched DEF deliveryVars, DeliveryInv, NothingDropped

LEMMA CoordinatorStopsKeepsDeliveries ==
    ASSUME DeliveryInv, CoordinatorStops, UNCHANGED <<row, post, acts, due>>
    PROVE  DeliveryInv'
BY DeliveriesUntouched DEF CoordinatorStops, Stop, DeliveryInv, NothingDropped

LEMMA EndKeepsDeliveries ==
    ASSUME DeliveryInv, End
    PROVE  DeliveryInv'
<1>1. /\ post' = [h \in Posts |-> IdlePost] /\ lost' = lost \cup due /\ UNCHANGED <<row, acts, due>>
  BY DEF End
<1>2. \A h \in Posts : post'[h].pc = "idle" /\ {"pc", "delivery", "accepted"} \subseteq DOMAIN post'[h]
  BY <1>1 DEF IdlePost
<1>3. \A h \in Posts : ~Recorded(h)'
  BY <1>2 DEF Recorded
<1>4. PostType' /\ OneOwes'
  BY <1>2, <1>3 DEF PostType, OneOwes
<1> QED BY <1>1, <1>4 DEF DeliveryInv, RowsDecide, NothingDropped

LEMMA RefreshRepositoryKeepsDeliveries ==
    ASSUME DeliveryInv, NEW r \in Repos, RefreshRepository(r)
    PROVE  DeliveryInv'
<1>1. /\ requested' \in {requested \ {r}, requested} /\ due' = {d \in due : Target[d] # r}
      /\ lost' = lost \cap due' /\ UNCHANGED <<row, post, acts>>
  BY DEF RefreshRepository, Begin
<1>2. Owing' = Owing
  BY <1>1 DEF Owing, Recorded
<1>3. NothingDropped'
  BY <1>1, <1>2 DEF DeliveryInv, NothingDropped
<1> QED BY <1>1, <1>3 DEF DeliveryInv, PostType, RowsDecide, OneOwes, Recorded

\* A step of one request that leaves it without a duty.
LEMMA PostWithoutDuty ==
    ASSUME DeliveryInv, NEW h \in Posts, NEW p, post' = [post EXCEPT ![h] = p], ~Recorded(h),
           ~(p.pc = "recorded" /\ p.accepted), {"pc", "delivery", "accepted"} \subseteq DOMAIN p,
           p.pc # "idle" => p.delivery \in Deliveries
    PROVE  /\ PostType' /\ DOMAIN post' = Posts /\ Owing' = Owing
           /\ \A i \in Posts : (Recorded(i)' <=> Recorded(i)) /\ (Recorded(i) => post'[i] = post[i])
<1>1. DOMAIN post' = Posts /\ post'[h] = p /\ \A i \in Posts : i # h => post'[i] = post[i]
  BY DEF DeliveryInv
<1>2. \A i \in Posts : (Recorded(i)' <=> Recorded(i)) /\ (Recorded(i) => post'[i] = post[i])
  BY <1>1 DEF Recorded
<1>3. PostType'
  BY <1>1 DEF DeliveryInv, PostType
<1>4. Owing' = Owing
  BY <1>2 DEF Owing
<1> QED BY <1>1, <1>2, <1>3, <1>4

LEMMA DeliverKeepsDeliveries ==
    ASSUME DeliveryInv, NEW h \in Posts, NEW d \in Deliveries, Deliver(h, d)
    PROVE  DeliveryInv'
<1> DEFINE p == [IdlePost EXCEPT !.pc = "record", !.delivery = d]
<1>1. /\ post' = [post EXCEPT ![h] = p] /\ post[h].pc = "idle"
      /\ UNCHANGED <<requested, row, acts, due, lost>>
  BY DEF Deliver, requestVars
<1>2. p.pc = "record" /\ p.delivery = d /\ {"pc", "delivery", "accepted"} \subseteq DOMAIN p
  BY DEF IdlePost
<1>3. ~Recorded(h)
  BY <1>1 DEF Recorded
<1> HIDE DEF p
<1>4. /\ PostType' /\ DOMAIN post' = Posts /\ Owing' = Owing
      /\ \A i \in Posts : (Recorded(i)' <=> Recorded(i)) /\ (Recorded(i) => post'[i] = post[i])
  BY <1>1, <1>2, <1>3, PostWithoutDuty
<1>5. OneOwes'
  BY <1>1, <1>4 DEF DeliveryInv, OneOwes
<1> QED BY <1>1, <1>4, <1>5 DEF DeliveryInv, RowsDecide, NothingDropped

\* What Insert(h) does to the rows.
LEMMA Inserted ==
    ASSUME DeliveryInv, NEW h \in Posts, NEW d \in Deliveries, d = post[h].delivery, Insert(h)
    PROVE  /\ DOMAIN row' = Deliveries /\ \A e \in Deliveries \ {d} : row'[e] = row[e]
           /\ row[d] # None => row'[d] = row[d] /\ due' = due
           /\ row[d] = None => \/ row'[d] = "accepted" /\ due' = due \cup {d}
                               \/ row'[d] = "ignored" /\ due' = due
BY DEF DeliveryInv, Insert, Outcome

LEMMA RecordKeepsDeliveries ==
    ASSUME DeliveryInv, NEW h \in Posts, Record(h)
    PROVE  DeliveryInv'
<1> DEFINE d == post[h].delivery
<1>1. /\ post[h].pc = "record" /\ Insert(h) /\ UNCHANGED <<requested, acts, lost>>
      /\ post' = [post EXCEPT ![h].pc = "recorded", ![h].accepted = row[d] = None /\ row'[d] = "accepted"]
  BY DEF Record, requestVars
<1>2. d \in Deliveries /\ ~Recorded(h)
  BY <1>1 DEF DeliveryInv, PostType, Recorded
<1>3. /\ DOMAIN post' = Posts /\ \A i \in Posts : i # h => post'[i] = post[i]
      /\ post'[h].pc = "recorded" /\ post'[h].delivery = d
      /\ post'[h].accepted <=> row[d] = None /\ row'[d] = "accepted"
      /\ {"pc", "delivery", "accepted"} \subseteq DOMAIN post'[h]
  BY <1>1 DEF DeliveryInv, PostType
<1>4. /\ DOMAIN row' = Deliveries /\ \A e \in Deliveries \ {d} : row'[e] = row[e]
      /\ row[d] # None => row'[d] = row[d] /\ due' = due
      /\ row[d] = None => \/ row'[d] = "accepted" /\ due' = due \cup {d}
                          \/ row'[d] = "ignored" /\ due' = due
  BY <1>1, <1>2, Inserted
<1>5. \A i \in Posts : i # h => (Recorded(i)' <=> Recorded(i))
  BY <1>3 DEF Recorded
<1>6. Recorded(h)' <=> row[d] = None /\ row'[d] = "accepted"
  BY <1>3 DEF Recorded
<1> HIDE DEF d
<1>7. None # "accepted" /\ None # "ignored"
  BY ConfigurationAssumption
<1>8. PostType'
  BY <1>2, <1>3 DEF DeliveryInv, PostType
<1>9. RowsDecide'
  BY <1>1, <1>2, <1>4, <1>7 DEF DeliveryInv, RowsDecide
<1>10. OneOwes'
  <2>1. ASSUME NEW i \in Posts, i # h, Recorded(i)'
        PROVE  /\ Recorded(i) /\ post'[i] = post[i] /\ post[i].delivery \in Deliveries
               /\ row[post[i].delivery] = "accepted" /\ row'[post[i].delivery] = "accepted"
               /\ acts'[post[i].delivery] = 0
    <3>1. Recorded(i) /\ post'[i] = post[i]
      BY <1>3, <1>5, <2>1
    <3>2. post[i].delivery \in Deliveries
      BY <3>1 DEF DeliveryInv, PostType, Recorded
    <3>3. row[post[i].delivery] = "accepted" /\ acts[post[i].delivery] = 0
      BY <3>1 DEF DeliveryInv, OneOwes
    <3>4. row'[post[i].delivery] = row[post[i].delivery]
      BY <1>4, <1>7, <3>2, <3>3
    <3> QED BY <1>1, <3>1, <3>2, <3>3, <3>4
  <2>2. Recorded(h)' => row[d] = None /\ row'[d] = "accepted" /\ acts'[d] = 0
    BY <1>1, <1>2, <1>6, <1>7 DEF DeliveryInv, RowsDecide
  <2>3. ASSUME NEW i \in Posts, Recorded(i)'
        PROVE  /\ row'[post'[i].delivery] = "accepted" /\ acts'[post'[i].delivery] = 0
               /\ \A k \in Posts : Recorded(k)' /\ post'[k].delivery = post'[i].delivery => k = i
    <3>1. CASE i = h
      BY <1>3, <1>7, <2>1, <2>2, <2>3, <3>1
    <3>2. CASE i # h
      <4>1. \A k \in Posts \ {h} : Recorded(k)' /\ post'[k].delivery = post'[i].delivery => k = i
        BY <2>1, <2>3, <3>2 DEF DeliveryInv, OneOwes
      <4>2. Recorded(h)' => post'[h].delivery # post'[i].delivery
        BY <1>3, <1>7, <2>1, <2>2, <2>3, <3>2
      <4> QED BY <2>1, <2>3, <3>2, <4>1, <4>2
    <3> QED BY <3>1, <3>2
  <2> QED BY <2>3 DEF OneOwes
<1>11. NothingDropped'
  <2>1. Owing \subseteq Owing'
    BY <1>2, <1>3, <1>5 DEF Owing
  <2>2. Recorded(h)' => d \in Owing'
    BY <1>3 DEF Owing
  <2> QED BY <1>1, <1>2, <1>4, <1>6, <2>1, <2>2 DEF DeliveryInv, NothingDropped
<1> QED BY <1>1, <1>3, <1>4, <1>8, <1>9, <1>10, <1>11 DEF DeliveryInv

LEMMA PostFailsKeepsDeliveries ==
    ASSUME DeliveryInv, NEW h \in Posts, PostFails(h)
    PROVE  DeliveryInv'
<1> DEFINE d == post[h].delivery
<1>1. /\ post[h].pc = "record" /\ post' = [post EXCEPT ![h] = IdlePost] /\ UNCHANGED <<requested, acts>>
      /\ \/ UNCHANGED <<row, due, lost>>
         \/ Insert(h) /\ lost' = lost \cup (due' \ due)
  BY DEF PostFails, requestVars
<1>2. d \in Deliveries /\ ~Recorded(h)
  BY <1>1 DEF DeliveryInv, PostType, Recorded
<1>3. IdlePost.pc = "idle" /\ {"pc", "delivery", "accepted"} \subseteq DOMAIN IdlePost
  BY DEF IdlePost
<1>4. /\ PostType' /\ DOMAIN post' = Posts /\ Owing' = Owing
      /\ \A i \in Posts : (Recorded(i)' <=> Recorded(i)) /\ (Recorded(i) => post'[i] = post[i])
  BY <1>1, <1>2, <1>3, PostWithoutDuty
<1>5. CASE UNCHANGED <<row, due, lost>>
  BY <1>1, <1>4, <1>5 DEF DeliveryInv, RowsDecide, OneOwes, NothingDropped
<1>6. CASE Insert(h) /\ lost' = lost \cup (due' \ due)
  <2>1. /\ DOMAIN row' = Deliveries /\ \A e \in Deliveries \ {d} : row'[e] = row[e]
        /\ row[d] # None => row'[d] = row[d] /\ due' = due
        /\ row[d] = None => \/ row'[d] = "accepted" /\ due' = due \cup {d}
                            \/ row'[d] = "ignored" /\ due' = due
    BY <1>2, <1>6, Inserted
  <2> HIDE DEF d
  <2>2. None # "accepted" /\ None # "ignored"
    BY ConfigurationAssumption
  <2>3. RowsDecide'
    BY <1>1, <1>2, <2>1, <2>2 DEF DeliveryInv, RowsDecide
  <2>4. OneOwes'
    BY <1>1, <1>2, <1>4, <2>1, <2>2 DEF DeliveryInv, OneOwes, PostType, Recorded
  <2>5. NothingDropped'
    BY <1>1, <1>2, <1>4, <1>6, <2>1 DEF DeliveryInv, NothingDropped
  <2> QED BY <1>1, <1>4, <2>1, <2>3, <2>4, <2>5 DEF DeliveryInv
<1> QED BY <1>1, <1>5, <1>6

LEMMA ScheduleKeepsDeliveries ==
    ASSUME DeliveryInv, NEW h \in Posts, Schedule(h)
    PROVE  DeliveryInv'
<1> DEFINE d == post[h].delivery
<1>1. /\ post[h].pc = "recorded" /\ post' = [post EXCEPT ![h] = IdlePost] /\ UNCHANGED <<row, due>>
      /\ IF Recorded(h)
           THEN /\ acts' = [acts EXCEPT ![d] = @ + 1]
                /\ \/ lost' = lost \cup ({d} \cap due) /\ UNCHANGED requested
                   \/ requested' = requested \cup {Target[d]} /\ UNCHANGED lost
           ELSE UNCHANGED <<acts, lost, requested>>
  BY DEF Schedule, Request, requestVars
<1>2. d \in Deliveries
  BY <1>1 DEF DeliveryInv, PostType
<1>3. IdlePost.pc = "idle" /\ {"pc", "delivery", "accepted"} \subseteq DOMAIN IdlePost
  BY DEF IdlePost
<1>4. CASE ~Recorded(h)
  <2>1. /\ PostType' /\ DOMAIN post' = Posts /\ Owing' = Owing
        /\ \A i \in Posts : (Recorded(i)' <=> Recorded(i)) /\ (Recorded(i) => post'[i] = post[i])
    BY <1>1, <1>3, <1>4, PostWithoutDuty
  <2> QED BY <1>1, <1>4, <2>1 DEF DeliveryInv, RowsDecide, OneOwes, NothingDropped
<1>5. CASE Recorded(h)
  <2>1. /\ DOMAIN post' = Posts /\ post'[h] = IdlePost /\ \A i \in Posts : i # h => post'[i] = post[i]
    BY <1>1 DEF DeliveryInv
  <2>2. ~Recorded(h)' /\ \A i \in Posts : i # h => (Recorded(i)' <=> Recorded(i))
    BY <1>3, <2>1 DEF Recorded
  <2>3. row[d] = "accepted" /\ acts[d] = 0 /\ \A i \in Posts : Recorded(i) /\ post[i].delivery = d => i = h
    BY <1>5 DEF DeliveryInv, OneOwes
  <2>4. DOMAIN acts' = Deliveries /\ acts'[d] = 1 /\ \A e \in Deliveries : e # d => acts'[e] = acts[e]
    BY <1>1, <1>2, <1>5, <2>3 DEF DeliveryInv
  <2>5. \A e \in Owing : e = d \/ e \in Owing'
    BY <2>1, <2>2 DEF Owing
  <2> HIDE DEF d
  <2>6. PostType'
    BY <1>3, <2>1 DEF DeliveryInv, PostType
  <2>7. RowsDecide'
    BY <1>1, <1>2, <2>3, <2>4 DEF DeliveryInv, RowsDecide
  <2>8. OneOwes'
    <3>1. \A i \in Posts : Recorded(i)' => i # h /\ Recorded(i) /\ post'[i] = post[i] /\ post[i].delivery # d
      BY <2>1, <2>2, <2>3
    <3>2. \A i \in Posts : Recorded(i) => post[i].delivery \in Deliveries
      BY DEF DeliveryInv, PostType, Recorded
    <3> QED BY <1>1, <2>4, <3>1, <3>2 DEF DeliveryInv, OneOwes
  <2>9. NothingDropped'
    BY <1>1, <1>5, <2>5 DEF DeliveryInv, NothingDropped
  <2> QED BY <1>1, <2>1, <2>4, <2>6, <2>7, <2>8, <2>9 DEF DeliveryInv
<1> QED BY <1>4, <1>5

LEMMA CleanupKeepsDeliveries ==
    ASSUME DeliveryInv, Cleanup
    PROVE  DeliveryInv'
<1>1. PICK old \in SUBSET Deliveries \ {{}} :
         /\ \A d \in old : row[d] # None /\ \A h \in Posts : post[h].delivery # d
         /\ row' = [d \in Deliveries |-> IF d \in old THEN None ELSE row[d]]
         /\ acts' = [d \in Deliveries |-> IF d \in old THEN 0 ELSE acts[d]]
         /\ due' = due \ old
         /\ lost' = lost \ old
  BY DEF Cleanup
<1>2. UNCHANGED <<requested, post>>
  BY DEF Cleanup, requestVars
<1>3. Owing' = Owing /\ \A h \in Posts : Recorded(h)' <=> Recorded(h)
  BY <1>2 DEF Owing, Recorded
<1>4. RowsDecide'
  BY <1>1 DEF DeliveryInv, RowsDecide
<1>5. OneOwes'
  <2>1. \A h \in Posts : Recorded(h) => post[h].delivery \in Deliveries \ old
    BY <1>1 DEF DeliveryInv, PostType, Recorded
  <2> QED BY <1>1, <1>2, <1>3, <2>1 DEF DeliveryInv, OneOwes
<1>6. NothingDropped'
  BY <1>1, <1>2, <1>3 DEF DeliveryInv, NothingDropped
<1> QED BY <1>1, <1>2, <1>4, <1>5, <1>6 DEF DeliveryInv, PostType

LEMMA InitDeliveries == Init => DeliveryInv
BY DEF Init, IdlePost, DeliveryInv, PostType, RowsDecide, OneOwes, NothingDropped, Recorded

\* How the steps of a refresh treat the deliveries.
LEMMA RefreshesKeepDeliveries ==
    ASSUME DeliveryInv, NEW w \in Workers, RefreshStep(w) \/ RefreshQueryFails(w)
    PROVE  DeliveryInv'
<1>1. CASE RefreshStep(w)
  <2>1. UNCHANGED <<requested, deliveryVars>>
    BY <1>1 DEF RefreshStep, List, Read, Collect, Save, Iterate, Finish, Settle, requestVars
  <2> QED BY <2>1, RequestsUntouched
<1>2. CASE Reject(w)
  <2>1. CASE End
    BY <2>1, EndKeepsDeliveries
  <2>2. CASE CoordinatorStops /\ UNCHANGED <<row, post, acts, due>>
    BY <2>2, CoordinatorStopsKeepsDeliveries
  <2>3. CASE Settle(w) /\ UNCHANGED <<lost, row, post, acts, due>>
    BY <2>3, RequestsUntouched DEF Settle, deliveryVars
  <2> QED BY <1>2, <2>1, <2>2, <2>3 DEF Reject
<1> QED BY <1>1, <1>2 DEF RefreshQueryFails

LEMMA DeliveriesInductive == DeliveryInv /\ [Next]_vars => DeliveryInv'
<1> SUFFICES ASSUME DeliveryInv, [Next]_vars PROVE DeliveryInv'
  OBVIOUS
<1>1. CASE Boot \/ StartProjects \/ Started \/ StopServices \/ EndPool \/ Poll
  BY <1>1, RequestsUntouched DEF Boot, StartProjects, Started, StopServices, EndPool, Poll, requestVars
<1>2. CASE StartFails \/ Shutdown
  BY <1>2, CoordinatorStopsKeepsDeliveries DEF StartFails, Shutdown
<1>3. CASE Exit
  BY <1>3, EndKeepsDeliveries DEF Exit
<1>4. CASE Cleanup
  BY <1>4, CleanupKeepsDeliveries
<1>5. ASSUME NEW r \in Repos, RefreshRepository(r) \/ Return(r) \/ Change(r)
      PROVE  DeliveryInv'
  <2>1. CASE RefreshRepository(r)
    BY <2>1, RefreshRepositoryKeepsDeliveries
  <2>2. CASE Return(r) \/ Change(r)
    BY <2>2, RequestsUntouched DEF Return, Change, Finish, Settle, requestVars
  <2> QED BY <1>5, <2>1, <2>2
<1>6. ASSUME NEW w \in Workers, RefreshStep(w) \/ RefreshQueryFails(w)
      PROVE  DeliveryInv'
  BY <1>6, RefreshesKeepDeliveries
<1>7. ASSUME NEW h \in Posts, (\E d \in Deliveries : Deliver(h, d)) \/ PostStep(h) \/ PostFails(h)
      PROVE  DeliveryInv'
  BY <1>7, DeliverKeepsDeliveries, RecordKeepsDeliveries, ScheduleKeepsDeliveries, PostFailsKeepsDeliveries DEF PostStep
<1>8. CASE UNCHANGED vars
  BY <1>8, RequestsUntouched DEF vars, requestVars
<1> QED BY <1>1, <1>2, <1>3, <1>4, <1>5, <1>6, <1>7, <1>8 DEF Next

\* A webhook delivery that GitHub sends any number of times, also at once, asks for at
\* most one refresh while its row exists, and an accepted one keeps its request until a
\* refresh starts, but for the losses that are named.
THEOREM DeliveriesActOnceAlways == Spec => []DeliveriesActOnce
<1>1. DeliveryInv => DeliveriesActOnce
  BY DEF DeliveryInv, RowsDecide, NothingDropped, DeliveriesActOnce
<1> QED BY <1>1, InitDeliveries, DeliveriesInductive, PTL DEF Spec

-----------------------------------------------------------------------------
(* Queues of workers that stand in them once. *)

Distinct(s) == \A i, j \in DOMAIN s : s[i] = s[j] => i = j

Queues == {s \in Seq(Workers) : Distinct(s)}

LEMMA EmptyQueue == <<>> \in Queues /\ Elements(<<>>) = {}
BY DEF Queues, Distinct, Elements

LEMMA Joined ==
    ASSUME NEW q \in Queues, NEW w \in Workers, w \notin Elements(q)
    PROVE  /\ Append(q, w) \in Queues /\ Elements(Append(q, w)) = Elements(q) \cup {w}
           /\ q # <<>> => Head(Append(q, w)) = Head(q)
<1> DEFINE a == Append(q, w)
<1>1. q \in Seq(Workers) /\ Len(q) \in Nat /\ DOMAIN q = 1 .. Len(q) /\ Distinct(q)
  BY DEF Queues
<1>2. /\ a \in Seq(Workers) /\ Len(a) = Len(q) + 1 /\ DOMAIN a = 1 .. Len(q) + 1
      /\ a[Len(q) + 1] = w /\ \A i \in 1 .. Len(q) : a[i] = q[i]
  BY <1>1
<1> HIDE DEF a
<1>3. \A i \in 1 .. Len(q) : a[i] # w /\ a[i] \in Elements(q)
  BY <1>1, <1>2 DEF Elements
<1>4. \A i \in DOMAIN a : i \in 1 .. Len(q) \/ i = Len(q) + 1
  BY <1>1, <1>2
<1>5. Distinct(a)
  BY <1>1, <1>2, <1>3, <1>4 DEF Distinct
<1>6. Elements(a) = Elements(q) \cup {w}
  <2>1. ASSUME NEW x \in Elements(a)
        PROVE  x \in Elements(q) \cup {w}
    <3>1. PICK i \in DOMAIN a : x = a[i]
      BY DEF Elements
    <3> QED BY <1>2, <1>3, <1>4, <3>1
  <2>2. ASSUME NEW x \in Elements(q)
        PROVE  x \in Elements(a)
    <3>1. PICK i \in DOMAIN q : x = q[i]
      BY DEF Elements
    <3>2. i \in DOMAIN a /\ a[i] = x
      BY <1>1, <1>2, <3>1
    <3> QED BY <3>2 DEF Elements
  <2>3. Len(q) + 1 \in DOMAIN a
    BY <1>1, <1>2
  <2>4. w \in Elements(a)
    BY <1>2, <2>3 DEF Elements
  <2> QED BY <2>1, <2>2, <2>4
<1>7. q # <<>> => Head(a) = Head(q)
  BY <1>1 DEF a
<1> QED BY <1>2, <1>5, <1>6, <1>7 DEF a, Queues

LEMMA Served ==
    ASSUME NEW q \in Queues, q # <<>>
    PROVE  /\ Tail(q) \in Queues /\ Elements(Tail(q)) = Elements(q) \ {Head(q)} /\ Head(q) \in Elements(q)
<1> DEFINE t == Tail(q)
<1>1. q \in Seq(Workers) /\ Len(q) \in Nat \ {0} /\ DOMAIN q = 1 .. Len(q) /\ Distinct(q) /\ Head(q) = q[1]
  BY DEF Queues
<1>2. /\ t \in Seq(Workers) /\ DOMAIN t = 1 .. Len(q) - 1 /\ \A i \in 1 .. Len(q) - 1 : t[i] = q[i + 1]
  BY <1>1
<1> HIDE DEF t
<1>3. \A i \in DOMAIN t : i + 1 \in DOMAIN q /\ i + 1 # 1 /\ t[i] = q[i + 1]
  BY <1>1, <1>2
<1>4. Distinct(t)
  <2> SUFFICES ASSUME NEW i \in DOMAIN t, NEW j \in DOMAIN t, t[i] = t[j]
               PROVE  i = j
    BY DEF Distinct
  <2>1. i + 1 = j + 1
    BY <1>1, <1>3 DEF Distinct
  <2>2. i \in Nat /\ j \in Nat
    BY <1>2
  <2> QED BY <2>1, <2>2
<1>5. \A i \in DOMAIN q : i = 1 \/ (i - 1 \in DOMAIN t /\ t[i - 1] = q[i])
  <2> SUFFICES ASSUME NEW i \in DOMAIN q, i # 1
               PROVE  i - 1 \in DOMAIN t /\ t[i - 1] = q[i]
    OBVIOUS
  <2>1. i - 1 \in 1 .. Len(q) - 1 /\ (i - 1) + 1 = i
    BY <1>1
  <2> QED BY <1>2, <2>1
<1>6. 1 \in DOMAIN q
  BY <1>1
<1>7. Elements(t) = Elements(q) \ {Head(q)}
  <2>1. ASSUME NEW x \in Elements(t)
        PROVE  x \in Elements(q) /\ x # Head(q)
    <3>1. PICK i \in DOMAIN t : x = t[i]
      BY DEF Elements
    <3> QED BY <1>1, <1>3, <1>6, <3>1 DEF Elements, Distinct
  <2>2. ASSUME NEW x \in Elements(q), x # Head(q)
        PROVE  x \in Elements(t)
    <3>1. PICK i \in DOMAIN q : x = q[i]
      BY DEF Elements
    <3> QED BY <1>1, <1>5, <2>2, <3>1 DEF Elements
  <2> QED BY <2>1, <2>2
<1> QED BY <1>1, <1>2, <1>4, <1>6, <1>7 DEF t, Queues, Elements

-----------------------------------------------------------------------------
(* Locks. *)

Fields == {"pc", "mode", "todo", "read", "draft", "left", "shared"}
Queued == {"lock", "collect", "save"}
Owning == {"collect", "save"}

\* A worker is busy only while the flag or the coordinator says so.
WorkersAreCounted ==
    /\ \A r \in Repos : work[r].pc # "idle" => r \in running
    /\ work[Full].pc # "idle" => refreshing
    /\ phase \in {"down", "starting"} => ~polling /\ ~refreshing

\* Who builds a snapshot holds the lock, and has read the snapshot that is there.
HoldersAreUpToDate ==
    \A p \in Projects, w \in Workers :
        work[w].pc \in Owning /\ Current(w) = p => Holds(p, w) /\ work[w].read = snapshot[p]

LockInv ==
    /\ DOMAIN work = Workers /\ DOMAIN snapshot = Projects /\ \A w \in Workers : Fields \subseteq DOMAIN work[w]
    /\ lock \in [Projects -> Queues]
    /\ LocksAreLive
    /\ HoldersAreUpToDate

\* The queues lk are those of lock without w.
Released(w, lk) ==
    /\ lk \in [Projects -> Queues]
    /\ \A p \in Projects :
         /\ Elements(lk[p]) = Elements(lock[p]) \ {w}
         /\ \A v \in Workers \ {w} : Holds(p, v) => lk[p] # <<>> /\ Head(lk[p]) = v

\* Nobody but w sees its project's snapshot change.
SnapshotKept(w) ==
    /\ DOMAIN snapshot' = Projects
    /\ \A p \in Projects, v \in Workers \ {w} : Holds(p, v) => snapshot'[p] = snapshot[p]

LEMMA NotQueued ==
    ASSUME LockInv, NEW w \in Workers, work[w].pc \notin Queued
    PROVE  Released(w, lock)
BY DEF LockInv, LocksAreLive, Released, Holds, Queued

LEMMA UnlockedReleases ==
    ASSUME LockInv, NEW w \in Workers,
           work[w].pc \in Queued /\ Current(w) \in Projects => Holds(Current(w), w)
    PROVE  Released(w, Unlocked(w))
<1> SUFFICES ASSUME NEW p \in Projects
             PROVE  /\ Unlocked(w)[p] \in Queues /\ Elements(Unlocked(w)[p]) = Elements(lock[p]) \ {w}
                    /\ \A v \in Workers \ {w} : Holds(p, v) => Unlocked(w)[p] # <<>> /\ Head(Unlocked(w)[p]) = v
  BY DEF Released, Unlocked
<1>1. lock[p] \in Queues
  BY DEF LockInv
<1>2. CASE Holds(p, w)
  BY <1>1, <1>2, Served DEF Unlocked, Holds
<1>3. CASE ~Holds(p, w)
  <2>1. w \notin Elements(lock[p])
    BY <1>3 DEF LockInv, LocksAreLive, Queued
  <2> QED BY <1>1, <1>3, <2>1 DEF Unlocked, Holds
<1> QED BY <1>2, <1>3

LEMMA Moved ==
    ASSUME LockInv, NEW w \in Workers, NEW k, work' = [work EXCEPT ![w] = k], Fields \subseteq DOMAIN k,
           lock' \in [Projects -> Queues], SnapshotKept(w),
           \A p \in Projects :
             /\ Elements(lock'[p]) \ {w} = Elements(lock[p]) \ {w}
             /\ w \in Elements(lock'[p]) <=> k.pc \in Queued /\ Turn(k.todo) = p
             /\ \A v \in Workers \ {w} : Holds(p, v) => lock'[p] # <<>> /\ Head(lock'[p]) = v
             /\ k.pc \in Owning /\ Turn(k.todo) = p => lock'[p] # <<>> /\ Head(lock'[p]) = w /\ k.read = snapshot'[p]
    PROVE  LockInv'
<1>1. DOMAIN work' = Workers /\ work'[w] = k /\ \A v \in Workers \ {w} : work'[v] = work[v]
  BY DEF LockInv
<1>2. LocksAreLive'
  <2> SUFFICES ASSUME NEW p \in Projects, NEW v \in Workers
               PROVE  v \in Elements(lock'[p]) <=> work'[v].pc \in Queued /\ Turn(work'[v].todo) = p
    BY DEF LocksAreLive, Queued, Current
  <2>1. CASE v = w
    BY <1>1, <2>1
  <2>2. CASE v # w
    BY <1>1, <2>2 DEF LockInv, LocksAreLive, Queued, Current
  <2> QED BY <2>1, <2>2
<1>3. HoldersAreUpToDate'
  <2> SUFFICES ASSUME NEW p \in Projects, NEW v \in Workers, work'[v].pc \in Owning, Turn(work'[v].todo) = p
               PROVE  lock'[p] # <<>> /\ Head(lock'[p]) = v /\ work'[v].read = snapshot'[p]
    BY DEF HoldersAreUpToDate, Holds, Current
  <2>1. CASE v = w
    BY <1>1, <2>1
  <2>2. CASE v # w
    <3>1. Holds(p, v) /\ work[v].read = snapshot[p]
      BY <1>1, <2>2 DEF LockInv, HoldersAreUpToDate, Current
    <3> QED BY <1>1, <2>2, <3>1 DEF SnapshotKept
  <2> QED BY <2>1, <2>2
<1>4. \A v \in Workers : Fields \subseteq DOMAIN work'[v]
  BY <1>1 DEF LockInv
<1> QED BY <1>1, <1>2, <1>3, <1>4 DEF LockInv, SnapshotKept

LEMMA IdleFields == Fields \subseteq DOMAIN IdleWork /\ IdleWork.pc = "idle"
BY DEF Fields, IdleWork

\* The refresh of w is over, and it stands in no queue.
LEMMA EndedKeepsLocks ==
    ASSUME LockInv, NEW w \in Workers, NEW lk, Released(w, lk), SnapshotKept(w),
           work' = [work EXCEPT ![w] = IdleWork], lock' = lk
    PROVE  LockInv'
<1>1. "idle" \notin Queued /\ "idle" \notin Owning
  BY DEF Queued, Owning
<1> QED BY <1>1, IdleFields, Moved DEF Released

LEMMA IterateKeepsLocks ==
    ASSUME LockInv, NEW w \in Workers, NEW rec, NEW lk, Released(w, lk), SnapshotKept(w),
           Fields \subseteq DOMAIN rec, Iterate(w, rec, lk)
    PROVE  LockInv'
<1>1. CASE work' = [work EXCEPT ![w] = IdleWork] /\ lock' = lk
  BY <1>1, EndedKeepsLocks
<1> DEFINE k == [rec EXCEPT !.pc = "lock"]
<1>2. CASE work' = [work EXCEPT ![w] = k] /\ lock' = [lk EXCEPT ![Turn(rec.todo)] = Append(@, w)]
  <2>1. Fields \subseteq DOMAIN k /\ k.pc = "lock" /\ k.todo = rec.todo
    BY DEF Fields
  <2> HIDE DEF k
  <2>2. lk \in [Projects -> Queues] /\ \A p \in Projects : w \notin Elements(lk[p])
    BY DEF Released
  <2>3. ASSUME NEW p \in Projects
        PROVE  /\ lock'[p] \in Queues
               /\ Elements(lock'[p]) = IF p = Turn(rec.todo) THEN Elements(lk[p]) \cup {w} ELSE Elements(lk[p])
               /\ lk[p] # <<>> => lock'[p] # <<>> /\ Head(lock'[p]) = Head(lk[p])
    <3>1. lock'[p] = IF p = Turn(rec.todo) THEN Append(lk[p], w) ELSE lk[p]
      BY <1>2, <2>2
    <3>2. Append(lk[p], w) # <<>>
      BY <2>2 DEF Queues
    <3>3. CASE p = Turn(rec.todo)
      BY <2>2, <3>1, <3>2, <3>3, Joined
    <3>4. CASE p # Turn(rec.todo)
      BY <2>2, <3>1, <3>4
    <3> QED BY <3>3, <3>4
  <2>4. lock' \in [Projects -> Queues]
    <3>1. DOMAIN lock' = Projects /\ lock' = [p \in Projects |-> lock'[p]]
      BY <1>2, <2>2
    <3> QED BY <2>3, <3>1
  <2>5. \A p \in Projects :
             /\ Elements(lock'[p]) \ {w} = Elements(lock[p]) \ {w}
             /\ w \in Elements(lock'[p]) <=> k.pc \in Queued /\ Turn(k.todo) = p
             /\ \A v \in Workers \ {w} : Holds(p, v) => lock'[p] # <<>> /\ Head(lock'[p]) = v
    BY <2>1, <2>2, <2>3 DEF Released, Queued
  <2>6. k.pc \notin Owning
    BY <2>1 DEF Owning
  <2> QED BY <1>2, <2>1, <2>4, <2>5, <2>6, Moved
<1> QED BY <1>1, <1>2 DEF Iterate, Finish

\* w goes on where it is, with the snapshot it has read.
LEMMA StaysKeepsLocks ==
    ASSUME LockInv, NEW w \in Workers, NEW k, work' = [work EXCEPT ![w] = k], Fields \subseteq DOMAIN k,
           UNCHANGED <<lock, snapshot>>, work[w].pc \in Queued, k.pc \in Queued, k.todo = work[w].todo,
           Current(w) \in Projects => Holds(Current(w), w) /\ k.read = snapshot[Current(w)]
    PROVE  LockInv'
<1>1. SnapshotKept(w)
  BY DEF LockInv, SnapshotKept
<1>2. \A p \in Projects : w \in Elements(lock[p]) <=> Turn(k.todo) = p
  BY DEF LockInv, LocksAreLive, Queued, Current
<1>3. \A p \in Projects :
             /\ Elements(lock'[p]) \ {w} = Elements(lock[p]) \ {w}
             /\ w \in Elements(lock'[p]) <=> k.pc \in Queued /\ Turn(k.todo) = p
             /\ \A v \in Workers \ {w} : Holds(p, v) => lock'[p] # <<>> /\ Head(lock'[p]) = v
             /\ k.pc \in Owning /\ Turn(k.todo) = p => lock'[p] # <<>> /\ Head(lock'[p]) = w /\ k.read = snapshot'[p]
  BY <1>2 DEF Holds, Current
<1> QED BY <1>1, <1>3, Moved DEF LockInv

\* Steps of the environment that leave locks, work and snapshots alone, or forget them all.
LEMMA LocksUntouched ==
    ASSUME LockInv, UNCHANGED <<lock, work, snapshot>>
    PROVE  LockInv'
BY DEF LockInv, LocksAreLive, HoldersAreUpToDate, Current, Holds

LEMMA ForgottenLocks ==
    ASSUME LockInv, lock' = [p \in Projects |-> <<>>], work' = [w \in Workers |-> IdleWork],
           DOMAIN snapshot' = Projects
    PROVE  LockInv'
<1>1. lock' \in [Projects -> Queues] /\ \A p \in Projects : Elements(lock'[p]) = {}
  BY EmptyQueue
<1>2. \A w \in Workers : work'[w].pc = "idle" /\ Fields \subseteq DOMAIN work'[w]
  BY IdleFields
<1>3. LocksAreLive' /\ HoldersAreUpToDate'
  BY <1>1, <1>2 DEF LocksAreLive, HoldersAreUpToDate, Owning
<1> QED BY <1>1, <1>2, <1>3 DEF LockInv

\* A refresh that begins stands in no queue yet.
LEMMA BegunKeepsLocks ==
    ASSUME LockInv, NEW w \in Workers, work[w].pc = "idle", NEW pc \in {"list", "return"},
           work' = [work EXCEPT ![w].pc = pc], UNCHANGED <<lock, snapshot>>
    PROVE  LockInv'
<1> DEFINE k == [work[w] EXCEPT !.pc = pc]
<1>1. k.pc = pc /\ Fields \subseteq DOMAIN k /\ work' = [work EXCEPT ![w] = k]
  BY DEF LockInv, Fields
<1> HIDE DEF k
<1>2. pc \notin Queued /\ pc \notin Owning /\ "idle" \notin Queued
  BY DEF Queued, Owning
<1>3. Released(w, lock)
  BY <1>2, NotQueued
<1>4. SnapshotKept(w)
  BY DEF LockInv, SnapshotKept
<1> QED BY <1>1, <1>2, <1>3, <1>4, Moved DEF Released

LEMMA ListKeepsLocks ==
    ASSUME LockInv, NEW w \in Workers, List(w)
    PROVE  LockInv'
<1>1. work[w].pc = "list" /\ UNCHANGED snapshot
  BY DEF List, storeVars
<1>2. Released(w, lock)
  BY <1>1, NotQueued DEF Queued
<1>3. SnapshotKept(w)
  BY <1>1 DEF LockInv, SnapshotKept
<1>4. Fields \subseteq DOMAIN work[w]
  BY DEF LockInv
<1>5. CASE \E rec : Fields \subseteq DOMAIN rec /\ Iterate(w, rec, lock)
  BY <1>2, <1>3, <1>5, IterateKeepsLocks
<1>6. CASE Finish(w) /\ UNCHANGED lock
  BY <1>2, <1>3, <1>6, EndedKeepsLocks DEF Finish
<1>7. /\ Fields \subseteq DOMAIN [work[w] EXCEPT !.todo = Visited(w)]
      /\ Fields \subseteq DOMAIN [work[w] EXCEPT !.mode = "mark", !.todo = Visited(w)]
  BY <1>4
<1> QED BY <1>5, <1>6, <1>7 DEF List

LEMMA ReadKeepsLocks ==
    ASSUME LockInv, NEW w \in Workers, Read(w)
    PROVE  LockInv'
<1> DEFINE p == Current(w)
           known == snapshot[p]
           cached == IF w = Full THEN None ELSE work[w].shared[Labels[p]]
           draft == Previous(known, p)
           rec == [work[w] EXCEPT !.read = known]
<1>1. work[w].pc = "lock" /\ Holds(p, w) /\ UNCHANGED snapshot
  BY DEF Read, storeVars
<1>2. Fields \subseteq DOMAIN work[w] /\ work[w].pc \in Queued
  BY <1>1 DEF LockInv, Queued
<1>3. SnapshotKept(w)
  BY <1>1 DEF LockInv, SnapshotKept
<1>4. CASE Iterate(w, [work[w] EXCEPT !.todo = Rest(@)], Unlocked(w))
  <2>1. Released(w, Unlocked(w))
    BY <1>1, UnlockedReleases
  <2>2. Fields \subseteq DOMAIN [work[w] EXCEPT !.todo = Rest(work[w].todo)]
    BY <1>2
  <2> QED BY <1>3, <1>4, <2>1, <2>2, IterateKeepsLocks
<1>5. ASSUME NEW k, work' = [work EXCEPT ![w] = k], UNCHANGED lock, Fields \subseteq DOMAIN k,
             k.pc \in Queued, k.todo = work[w].todo, k.read = known
      PROVE  LockInv'
  BY <1>1, <1>2, <1>5, StaysKeepsLocks
<1>6. Fields \subseteq DOMAIN rec /\ rec.todo = work[w].todo /\ rec.read = known
  BY <1>2 DEF Fields
<1> HIDE DEF rec, known, draft, cached, p
<1>7. ASSUME NEW d
      PROVE  LET k == [rec EXCEPT !.pc = "save", !.draft = d]
             IN  Fields \subseteq DOMAIN k /\ k.pc \in Queued /\ k.todo = rec.todo /\ k.read = rec.read
  BY <1>6 DEF Fields, Queued
<1>8. ASSUME NEW d, NEW l
      PROVE  LET k == [rec EXCEPT !.pc = "collect", !.draft = d, !.left = l]
             IN  Fields \subseteq DOMAIN k /\ k.pc \in Queued /\ k.todo = rec.todo /\ k.read = rec.read
  BY <1>6 DEF Fields, Queued
<1>9. \/ Iterate(w, [work[w] EXCEPT !.todo = Rest(@)], Unlocked(w))
      \/ \E d : work' = [work EXCEPT ![w] = [rec EXCEPT !.pc = "save", !.draft = d]] /\ UNCHANGED lock
      \/ \E d, l : work' = [work EXCEPT ![w] = [rec EXCEPT !.pc = "collect", !.draft = d, !.left = l]] /\ UNCHANGED lock
  BY DEF Read, rec, known, draft, cached, p
<1>10. ASSUME NEW d, work' = [work EXCEPT ![w] = [rec EXCEPT !.pc = "save", !.draft = d]], UNCHANGED lock
       PROVE  LockInv'
  <2> DEFINE k == [rec EXCEPT !.pc = "save", !.draft = d]
  <2>1. Fields \subseteq DOMAIN k /\ k.pc \in Queued /\ k.todo = rec.todo /\ k.read = rec.read /\ work' = [work EXCEPT ![w] = k]
    BY <1>7, <1>10
  <2> HIDE DEF k
  <2> QED BY <1>5, <1>6, <1>10, <2>1
<1>11. ASSUME NEW d, NEW l, work' = [work EXCEPT ![w] = [rec EXCEPT !.pc = "collect", !.draft = d, !.left = l]], UNCHANGED lock
       PROVE  LockInv'
  <2> DEFINE k == [rec EXCEPT !.pc = "collect", !.draft = d, !.left = l]
  <2>1. Fields \subseteq DOMAIN k /\ k.pc \in Queued /\ k.todo = rec.todo /\ k.read = rec.read /\ work' = [work EXCEPT ![w] = k]
    BY <1>8, <1>11
  <2> HIDE DEF k
  <2> QED BY <1>5, <1>6, <1>11, <2>1
<1> QED BY <1>4, <1>9, <1>10, <1>11

\* Collecting changes neither a worker's place nor what it read.
LEMMA Collecting ==
    ASSUME LockInv, NEW w \in Workers, Collect(w)
    PROVE  \E k : /\ work' = [work EXCEPT ![w] = k] /\ Fields \subseteq DOMAIN k /\ k.pc \in Owning
                  /\ k.todo = work[w].todo /\ k.read = work[w].read
<1>1. PICK result :
        work' = [work EXCEPT
           ![w].pc = IF Len(work[w].left) = 1 THEN "save" ELSE "collect",
           ![w].left = Tail(work[w].left),
           ![w].draft = [work[w].draft EXCEPT ![Head(work[w].left)] = result],
           ![w].shared = IF w = Full THEN @ ELSE [@ EXCEPT ![Labels[Current(w)]] = result]]
  BY DEF Collect
<1> DEFINE pc == IF Len(work[w].left) = 1 THEN "save" ELSE "collect"
           draft == [work[w].draft EXCEPT ![Head(work[w].left)] = result]
           left == Tail(work[w].left)
           shared == IF w = Full THEN work[w].shared ELSE [work[w].shared EXCEPT ![Labels[Current(w)]] = result]
           k == [work[w] EXCEPT !.pc = pc, !.left = left, !.draft = draft, !.shared = shared]
<1>2. DOMAIN work = Workers /\ Fields \subseteq DOMAIN work[w]
  BY DEF LockInv
<1>3. work' = [work EXCEPT ![w] = k]
  BY <1>1, <1>2
<1>4. pc \in Owning
  BY DEF Owning
<1> HIDE DEF pc, left, draft, shared
<1>5. Fields \subseteq DOMAIN k /\ k.pc = pc /\ k.todo = work[w].todo /\ k.read = work[w].read
  BY <1>2 DEF Fields
<1> QED BY <1>3, <1>4, <1>5

LEMMA CollectKeepsLocks ==
    ASSUME LockInv, NEW w \in Workers, Collect(w)
    PROVE  LockInv'
<1>1. work[w].pc = "collect" /\ UNCHANGED <<lock, snapshot>>
  BY DEF Collect, storeVars
<1>2. work[w].pc \in Queued /\ work[w].pc \in Owning /\ Owning \subseteq Queued
  BY <1>1 DEF Queued, Owning
<1>3. PICK k : /\ work' = [work EXCEPT ![w] = k] /\ Fields \subseteq DOMAIN k /\ k.pc \in Owning
               /\ k.todo = work[w].todo /\ k.read = work[w].read
  BY Collecting
<1>4. Current(w) \in Projects => Holds(Current(w), w) /\ k.read = snapshot[Current(w)]
  BY <1>2, <1>3 DEF LockInv, HoldersAreUpToDate
<1> QED BY <1>1, <1>2, <1>3, <1>4, StaysKeepsLocks

\* Only the holder of a project's lock writes its snapshot.
LEMMA WritingKeepsOthers ==
    ASSUME LockInv, NEW w \in Workers, Current(w) \in Projects => Holds(Current(w), w),
           snapshot' = [snapshot EXCEPT ![Current(w)] = work[w].draft]
    PROVE  SnapshotKept(w)
BY DEF LockInv, SnapshotKept, Holds

LEMMA SaveKeepsLocks ==
    ASSUME LockInv, NEW w \in Workers, Save(w)
    PROVE  LockInv'
<1>1. /\ work[w].pc = "save" /\ snapshot' = [snapshot EXCEPT ![Current(w)] = work[w].draft]
      /\ Iterate(w, [work[w] EXCEPT !.todo = Rest(@), !.read = None, !.draft = None], Unlocked(w))
  BY DEF Save
<1>2. work[w].pc \in Owning /\ Current(w) \in Projects => Holds(Current(w), w)
  BY <1>1 DEF LockInv, HoldersAreUpToDate, Owning
<1>3. Current(w) \in Projects => Holds(Current(w), w)
  BY <1>1, <1>2 DEF Owning
<1>4. SnapshotKept(w) /\ Released(w, Unlocked(w))
  BY <1>1, <1>3, WritingKeepsOthers, UnlockedReleases
<1>5. Fields \subseteq DOMAIN [work[w] EXCEPT !.todo = Rest(work[w].todo), !.read = None, !.draft = None]
  BY DEF LockInv
<1> QED BY <1>1, <1>4, <1>5, IterateKeepsLocks

LEMMA QueryFailsKeepsLocks ==
    ASSUME LockInv, NEW w \in Workers, RefreshQueryFails(w)
    PROVE  LockInv'
<1>1. /\ Reject(w)
      /\ snapshot' \in {snapshot, [snapshot EXCEPT ![Current(w)] = work[w].draft]}
      /\ snapshot' # snapshot => work[w].pc = "save"
      /\ \/ work[w].pc = "list"
         \/ work[w].pc = "lock" /\ Holds(Current(w), w)
         \/ work[w].pc = "save"
  BY DEF RefreshQueryFails
<1>2. work[w].pc \in Queued /\ Current(w) \in Projects => Holds(Current(w), w)
  BY <1>1 DEF LockInv, HoldersAreUpToDate, Queued, Owning
<1>3. SnapshotKept(w) /\ DOMAIN snapshot' = Projects
  <2>1. CASE snapshot' = snapshot
    BY <2>1 DEF LockInv, SnapshotKept
  <2>2. CASE snapshot' # snapshot
    BY <1>1, <1>2, <2>2, WritingKeepsOthers DEF Queued, SnapshotKept
  <2> QED BY <2>1, <2>2
<1>4. CASE End
  BY <1>3, <1>4, ForgottenLocks DEF End
<1>5. CASE work' = [work EXCEPT ![w] = IdleWork] /\ lock' = Unlocked(w)
  BY <1>2, <1>3, <1>5, UnlockedReleases, EndedKeepsLocks
<1> QED BY <1>1, <1>4, <1>5 DEF Reject

-----------------------------------------------------------------------------
(* Who is busy. *)

LEMMA FullIsNoRepo == Full \notin Repos /\ Full \in Workers /\ Workers = Repos \cup {Full}
BY ConfigurationAssumption DEF Workers

\* The refresh of w is over.
LEMMA FinishedIsCounted ==
    ASSUME LockInv, WorkersAreCounted, NEW w \in Workers, work' = [work EXCEPT ![w] = IdleWork],
           IF w = Full THEN refreshing' = FALSE /\ running' = running ELSE Settle(w) /\ UNCHANGED refreshing,
           polling' = polling, phase' \in {"down", "starting"} => phase' = phase
    PROVE  WorkersAreCounted'
<1>1. work'[w].pc = "idle" /\ \A v \in Workers \ {w} : work'[v] = work[v]
  BY IdleFields DEF LockInv
<1>2. running \ {w} \subseteq running'
  BY DEF Settle
<1>3. phase' \in {"down", "starting"} => ~polling' /\ ~refreshing'
  BY DEF WorkersAreCounted
<1> QED BY <1>1, <1>2, <1>3, FullIsNoRepo DEF WorkersAreCounted

\* The refresh of w goes on.
LEMMA OngoingIsCounted ==
    ASSUME LockInv, WorkersAreCounted, NEW w \in Workers, NEW k, work' = [work EXCEPT ![w] = k], work[w].pc # "idle",
           UNCHANGED <<refreshing, running, polling, phase>>
    PROVE  WorkersAreCounted'
<1>1. \A v \in Workers : work'[v].pc # "idle" => work[v].pc # "idle"
  BY DEF LockInv
<1> QED BY <1>1, FullIsNoRepo DEF WorkersAreCounted

LEMMA IterateIsCounted ==
    ASSUME LockInv, WorkersAreCounted, NEW w \in Workers, NEW rec, NEW lk, Iterate(w, rec, lk),
           work[w].pc # "idle", UNCHANGED <<polling, phase>>
    PROVE  WorkersAreCounted'
<1>1. CASE Finish(w)
  BY <1>1, FinishedIsCounted DEF Finish, requestVars
<1>2. CASE \E k : work' = [work EXCEPT ![w] = k] /\ UNCHANGED <<refreshing, running>>
  BY <1>2, OngoingIsCounted
<1> QED BY <1>1, <1>2 DEF Iterate, requestVars

LEMMA RefreshIsCounted ==
    ASSUME LockInv, WorkersAreCounted, NEW w \in Workers, RefreshStep(w) \/ RefreshQueryFails(w)
    PROVE  WorkersAreCounted'
<1>1. CASE List(w)
  <2>1. work[w].pc # "idle" /\ UNCHANGED <<polling, phase>>
    BY <1>1 DEF List, serverVars
  <2>2. Finish(w) \/ \E rec : Iterate(w, rec, lock)
    BY <1>1 DEF List
  <2>3. CASE Finish(w)
    BY <2>1, <2>3, FinishedIsCounted DEF Finish, requestVars
  <2> QED BY <2>1, <2>2, <2>3, IterateIsCounted
<1>2. CASE Read(w)
  <2>1. work[w].pc # "idle" /\ UNCHANGED <<polling, phase>>
    BY <1>2 DEF Read, serverVars
  <2>2. \/ \E rec, lk : Iterate(w, rec, lk)
        \/ \E k : work' = [work EXCEPT ![w] = k] /\ UNCHANGED <<refreshing, running>>
    BY <1>2 DEF Read, requestVars
  <2> QED BY <2>1, <2>2, IterateIsCounted, OngoingIsCounted
<1>3. CASE Collect(w)
  <2>1. work[w].pc # "idle" /\ UNCHANGED <<refreshing, running, polling, phase>>
    BY <1>3 DEF Collect, serverVars, requestVars
  <2> QED BY <1>3, <2>1, Collecting, OngoingIsCounted
<1>4. CASE Save(w)
  BY <1>4, IterateIsCounted DEF Save, serverVars
<1>5. CASE RefreshQueryFails(w)
  <2>1. CASE End
    <3>1. work' = [v \in Workers |-> IdleWork] /\ polling' = FALSE /\ refreshing' = FALSE
      BY <2>1 DEF End
    <3>2. \A v \in Workers : work'[v].pc = "idle"
      BY <3>1, IdleFields
    <3> QED BY <3>1, <3>2, FullIsNoRepo DEF WorkersAreCounted
  <2>2. CASE ~End
    <3>1. /\ work' = [work EXCEPT ![w] = IdleWork] /\ polling' = polling
          /\ IF w = Full THEN refreshing' = FALSE /\ phase' = "failing" /\ running' = running
                         ELSE Settle(w) /\ UNCHANGED <<refreshing, phase>>
      BY <1>5, <2>2 DEF RefreshQueryFails, Reject, CoordinatorStops, Stop
    <3> QED BY <3>1, FinishedIsCounted
  <2> QED BY <2>1, <2>2
<1> QED BY <1>1, <1>2, <1>3, <1>4, <1>5 DEF RefreshStep

\* A refresh that begins is counted by whoever begins it.
LEMMA BegunIsCounted ==
    ASSUME LockInv, WorkersAreCounted, NEW w \in Workers, NEW pc \in {"list", "return"},
           work' = [work EXCEPT ![w].pc = pc],
           IF w = Full THEN refreshing' = TRUE /\ running' = running
                       ELSE running' = running \cup {w} /\ refreshing' = refreshing,
           phase' \in {"down", "starting"} => ~polling' /\ ~refreshing'
    PROVE  WorkersAreCounted'
<1>1. \A v \in Workers \ {w} : work'[v] = work[v]
  BY DEF LockInv
<1> QED BY <1>1, FullIsNoRepo DEF WorkersAreCounted

-----------------------------------------------------------------------------
(* Both together. *)

LocksInv == LockInv /\ WorkersAreCounted

LEMMA InitLocks == Init => LocksInv
<1> SUFFICES ASSUME Init PROVE LocksInv
  OBVIOUS
<1>1. lock = [p \in Projects |-> <<>>] /\ work = [w \in Workers |-> IdleWork] /\ DOMAIN snapshot = Projects
      /\ refreshing = FALSE /\ polling = FALSE
  BY DEF Init
<1>2. lock \in [Projects -> Queues] /\ \A p \in Projects : Elements(lock[p]) = {}
  BY <1>1, EmptyQueue
<1>3. \A w \in Workers : work[w].pc = "idle" /\ Fields \subseteq DOMAIN work[w]
  BY <1>1, IdleFields
<1>4. LocksAreLive /\ HoldersAreUpToDate
  BY <1>2, <1>3 DEF LocksAreLive, HoldersAreUpToDate, Owning
<1>5. WorkersAreCounted
  BY <1>1, <1>3, FullIsNoRepo DEF WorkersAreCounted
<1> QED BY <1>1, <1>2, <1>3, <1>4, <1>5 DEF LocksInv, LockInv

LEMMA NextLocks == LocksInv /\ [Next]_vars => LocksInv'
<1> SUFFICES ASSUME LockInv, WorkersAreCounted, [Next]_vars PROVE LocksInv'
  BY DEF LocksInv
<1>1. CASE UNCHANGED <<lock, work, snapshot, refreshing, running>> /\ (phase' \in {"down", "starting"} => ~polling' /\ ~refreshing')
  BY <1>1, LocksUntouched DEF LocksInv, WorkersAreCounted
<1>2. CASE Boot \/ StartFails \/ Started \/ Shutdown \/ StopServices \/ EndPool \/ Cleanup \/ UNCHANGED vars
  <2>1. UNCHANGED <<lock, work, snapshot, refreshing, running>>
    BY <1>2 DEF Boot, StartFails, Started, Shutdown, StopServices, EndPool, Cleanup, CoordinatorStops, Stop,
       vars, serverVars, requestVars, refreshVars, storeVars
  <2>2. phase' \in {"down", "starting"} => phase \in {"down", "starting"} /\ (polling' = polling \/ polling' = FALSE)
    BY <1>2 DEF Boot, StartFails, Started, Shutdown, StopServices, EndPool, Cleanup, vars, serverVars
  <2> QED BY <1>1, <2>1, <2>2 DEF WorkersAreCounted
<1>3. CASE StartProjects
  <2>1. /\ work' = [work EXCEPT ![Full].pc = "list"] /\ UNCHANGED <<lock, snapshot, running>> /\ refreshing' = TRUE
        /\ phase' = "initial" /\ phase = "starting"
    BY <1>3 DEF StartProjects, requestVars
  <2>2. work[Full].pc = "idle"
    BY <2>1 DEF WorkersAreCounted
  <2> QED BY <2>1, <2>2, FullIsNoRepo, BegunKeepsLocks, BegunIsCounted DEF LocksInv
<1>4. CASE Poll
  <2>1. /\ work' = [work EXCEPT ![Full].pc = "list"] /\ UNCHANGED <<lock, snapshot, running, phase, polling>>
        /\ refreshing' = TRUE /\ ~refreshing /\ polling
    BY <1>4 DEF Poll, requestVars, serverVars, storeVars
  <2>2. work[Full].pc = "idle" /\ phase \notin {"down", "starting"}
    BY <2>1 DEF WorkersAreCounted
  <2> QED BY <2>1, <2>2, FullIsNoRepo, BegunKeepsLocks, BegunIsCounted DEF LocksInv
<1>5. CASE Exit
  <2>1. /\ lock' = [p \in Projects |-> <<>>] /\ work' = [w \in Workers |-> IdleWork] /\ UNCHANGED snapshot
        /\ polling' = FALSE /\ refreshing' = FALSE
    BY <1>5 DEF Exit, End, storeVars
  <2>2. \A w \in Workers : work'[w].pc = "idle"
    BY <2>1, IdleFields
  <2>3. WorkersAreCounted'
    BY <2>1, <2>2, FullIsNoRepo DEF WorkersAreCounted
  <2>4. DOMAIN snapshot' = Projects
    BY <2>1 DEF LockInv
  <2> QED BY <2>1, <2>3, <2>4, ForgottenLocks DEF LocksInv
<1>6. ASSUME NEW r \in Repos, RefreshRepository(r)
      PROVE  LocksInv'
  <2>1. /\ r \notin running /\ running' = running \cup {r} /\ UNCHANGED <<phase, polling, refreshing, lock, snapshot>>
        /\ work' = [work EXCEPT ![r].pc = IF stopped THEN "return" ELSE "list"]
    BY <1>6 DEF RefreshRepository, Begin, serverVars, storeVars
  <2>2. work[r].pc = "idle" /\ r \in Workers /\ r # Full
    BY <2>1, FullIsNoRepo DEF WorkersAreCounted
  <2> DEFINE pc == IF stopped THEN "return" ELSE "list"
  <2>3. pc \in {"list", "return"} /\ work' = [work EXCEPT ![r].pc = pc]
    BY <2>1
  <2> HIDE DEF pc
  <2>4. LockInv'
    BY <2>1, <2>2, <2>3, BegunKeepsLocks
  <2>5. WorkersAreCounted'
    <3>1. phase' \in {"down", "starting"} => ~polling' /\ ~refreshing'
      BY <2>1 DEF WorkersAreCounted
    <3> QED BY <2>1, <2>2, <2>3, <3>1, BegunIsCounted
  <2> QED BY <2>4, <2>5 DEF LocksInv
<1>7. ASSUME NEW r \in Repos, Return(r)
      PROVE  LocksInv'
  <2>1. work[r].pc = "return" /\ Finish(r) /\ UNCHANGED <<phase, polling, lock, snapshot>> /\ r \in Workers /\ r # Full
    BY <1>7, FullIsNoRepo DEF Return, serverVars, storeVars
  <2>2. Released(r, lock) /\ SnapshotKept(r)
    BY <2>1, NotQueued DEF Queued, LockInv, SnapshotKept
  <2>3. LockInv'
    BY <2>1, <2>2, EndedKeepsLocks DEF Finish
  <2>4. WorkersAreCounted'
    BY <2>1, FinishedIsCounted DEF Finish
  <2> QED BY <2>3, <2>4 DEF LocksInv
<1>8. ASSUME NEW r \in Repos, Change(r)
      PROVE  LocksInv'
  BY <1>1, <1>8 DEF Change, serverVars, requestVars, refreshVars, WorkersAreCounted
<1>9. ASSUME NEW w \in Workers, RefreshStep(w) \/ RefreshQueryFails(w)
      PROVE  LocksInv'
  BY <1>9, RefreshIsCounted, ListKeepsLocks, ReadKeepsLocks, CollectKeepsLocks, SaveKeepsLocks, QueryFailsKeepsLocks
     DEF RefreshStep, LocksInv
<1>10. ASSUME NEW h \in Posts, (\E d \in Deliveries : Deliver(h, d)) \/ PostStep(h) \/ PostFails(h)
       PROVE  LocksInv'
  <2>1. UNCHANGED <<serverVars, running, refreshVars, snapshot>>
    BY <1>10 DEF Deliver, PostStep, Record, Schedule, PostFails, Request, requestVars, storeVars
  <2> QED BY <1>1, <2>1 DEF serverVars, refreshVars, WorkersAreCounted
<1> QED BY <1>2, <1>3, <1>4, <1>5, <1>6, <1>7, <1>8, <1>9, <1>10 DEF Next

LEMMA LocksAlways == Spec => []LocksInv
BY InitLocks, NextLocks, PTL DEF Spec

\* Whoever stands in the queue of a project's lock is a refresh of this project that is
\* under way: no failure, shutdown or return leaves a lock behind that nobody will release.
THEOREM LocksAreReleased == Spec => []LocksAreLive
<1>1. LocksInv => LocksAreLive
  BY DEF LocksInv, LockInv
<1> QED BY <1>1, LocksAlways, PTL

LEMMA SavingStep ==
    ASSUME LockInv, [Next]_vars, NEW p \in Projects, snapshot'[p] # snapshot[p]
    PROVE  \E w \in Workers : /\ work[w].pc = "save" /\ Current(w) = p /\ work[w].read = snapshot[p]
                              /\ snapshot' = [snapshot EXCEPT ![p] = work[w].draft]
<1>1. PICK w \in Workers : work[w].pc = "save" /\ snapshot' = [snapshot EXCEPT ![Current(w)] = work[w].draft]
  <2>1. UNCHANGED snapshot \/ \E w \in Workers : Save(w) \/ RefreshQueryFails(w)
    BY DEF Next, Boot, StartProjects, StartFails, Started, Shutdown, StopServices, EndPool, Exit, Poll, Cleanup,
       RefreshRepository, Return, Change, RefreshStep, List, Read, Collect, Deliver, PostStep, Record, Schedule, PostFails,
       vars, storeVars
  <2>2. ASSUME NEW w \in Workers, Save(w) \/ RefreshQueryFails(w)
        PROVE  UNCHANGED snapshot \/ (work[w].pc = "save" /\ snapshot' = [snapshot EXCEPT ![Current(w)] = work[w].draft])
    BY <2>2 DEF Save, RefreshQueryFails
  <2> QED BY <2>1, <2>2
<1>2. Current(w) = p
  BY <1>1 DEF LockInv
<1>3. work[w].pc \in Owning
  BY <1>1 DEF Owning
<1> QED BY <1>1, <1>2, <1>3 DEF LockInv, HoldersAreUpToDate

\* A project's snapshot is only ever replaced by one that was built on it: two refreshes,
\* also when one of them fails or the process ends, never undo each other's results.
THEOREM SavesNeverCross == Spec => SavesBuildOnLatest
<1>1. LocksInv /\ [Next]_vars
        => [\A p \in Projects :
              snapshot'[p] # snapshot[p]
                => \E w \in Workers : /\ work[w].pc = "save" /\ Current(w) = p
                                      /\ work[w].read = snapshot[p]]_vars
  BY SavingStep DEF LocksInv
<1> QED BY <1>1, LocksAlways, PTL DEF Spec, SavesBuildOnLatest

LEMMA StoppedStep ==
    ASSUME LockInv, [Next]_vars, stopped, NEW p \in Projects
    PROVE  Elements(lock'[p]) \subseteq Elements(lock[p])
<1>1. CASE UNCHANGED lock
  BY <1>1
<1>2. CASE lock' = [q \in Projects |-> <<>>]
  BY <1>2, EmptyQueue
<1>3. ASSUME NEW w \in Workers, lock' = Unlocked(w)
      PROVE  Elements(lock'[p]) \subseteq Elements(lock[p])
  <2>1. lock[p] \in Queues /\ lock'[p] = IF Holds(p, w) THEN Tail(lock[p]) ELSE lock[p]
    BY <1>3 DEF LockInv, Unlocked
  <2> QED BY <2>1, Served DEF Holds
<1>4. UNCHANGED lock \/ lock' = [q \in Projects |-> <<>>] \/ \E w \in Workers : RefreshStep(w) \/ RefreshQueryFails(w)
  BY DEF Next, Boot, StartProjects, StartFails, Started, Shutdown, StopServices, EndPool, Exit, End, Poll, Cleanup,
     RefreshRepository, Return, Change, Deliver, PostStep, Record, Schedule, PostFails, vars, refreshVars
<1>5. ASSUME NEW w \in Workers, RefreshStep(w) \/ RefreshQueryFails(w)
      PROVE  UNCHANGED lock \/ lock' = [q \in Projects |-> <<>>] \/ lock' = Unlocked(w)
  <2>1. \A rec, lk : Iterate(w, rec, lk) => lock' = lk
    BY DEF Iterate
  <2> QED BY <1>5, <2>1 DEF RefreshStep, List, Read, Collect, Save, RefreshQueryFails, Reject, End
<1> QED BY <1>1, <1>2, <1>3, <1>4, <1>5

\* Once projects.stop() has run, no refresh takes or awaits another project.
THEOREM StoppedStaysAway == Spec => StoppedTakesNoProject
<1>1. LocksInv /\ [Next]_vars
        => [stopped /\ stopped' =>
              \A p \in Projects : Elements(lock'[p]) \subseteq Elements(lock[p])]_vars
  BY StoppedStep DEF LocksInv
<1> QED BY <1>1, LocksAlways, PTL DEF Spec, StoppedTakesNoProject

-----------------------------------------------------------------------------
(* What a refresh builds. *)

Versions == 0 .. MaxVersion
GitHubStates == [Repos -> 1 .. MaxVersion]

LEMMA ListedProjects ==
    /\ DOMAIN Listed \subseteq Nat /\ \A i \in DOMAIN Listed : Listed[i] \in Projects
    /\ \A p \in Projects : OwnRepos(p) \subseteq Repos /\ Labels[p] \in LabelSets
<1>1. DOMAIN Listed \subseteq Nat /\ \A i \in DOMAIN Listed : Listed[i] \in Projects
  <2>1. Listed \in Seq(Projects)
    BY ConfigurationAssumption
  <2> QED BY <2>1
<1>2. ASSUME NEW p \in Projects
      PROVE  OwnRepos(p) \subseteq Repos
  <2>1. RepositoriesOf[p] \in Seq(Repos)
    BY ConfigurationAssumption
  <2> QED BY <2>1 DEF OwnRepos, Elements
<1> QED BY <1>1, <1>2 DEF LabelSets

LEMMA FirstPlace ==
    ASSUME NEW places, places \subseteq Nat, places # {}
    PROVE  /\ First(places) \in places /\ Rest(places) \subseteq places
           /\ \A j \in Rest(places) : First(places) < j
<1> DEFINE R == OpToRel(<, Nat)
<1>1. IsWellFoundedOn(R, Nat)
  BY NatLessThanWellFounded
<1>2. \A i, j \in Nat : j < i => <<j, i>> \in R
  BY DEF OpToRel
<1> HIDE DEF R
<1>3. PICK i \in places : \A j \in places : <<j, i>> \notin R
  BY <1>1, WFMin
<1>4. \A j \in places : i \in Nat /\ j \in Nat /\ ~(j < i)
  BY <1>2, <1>3, Zenon
<1>5. \A j \in places : i <= j
  BY <1>4
<1>6. First(places) \in places /\ \A j \in places : First(places) <= j
  BY <1>5 DEF First
<1>7. PICK f : f = First(places)
  OBVIOUS
<1>8. \A j \in places \ {f} : f \in Nat /\ j \in Nat /\ f <= j /\ j # f
  BY <1>6, <1>7
<1>9. \A j \in places \ {f} : f < j
  BY <1>8
<1> QED BY <1>6, <1>7, <1>9 DEF Rest

\* Drafts of p that w may save: not ahead of GitHub, and behind what was read only where w
\* collected for an earlier project.
Sound(w, p, read, draft, g) ==
    /\ draft \in [OwnRepos(p) -> Versions]
    /\ \A r \in OwnRepos(p) :
         /\ draft[r] <= g[r]
         /\ draft[r] >= Previous(read, p)[r] \/ (r = w /\ SharesCollection(w, p))

\* A shared result was collected for a project that comes before those that are left, or
\* is about to be saved.
SharedBefore(w, k, g) ==
    /\ DOMAIN k.shared = LabelSets
    /\ \A l \in LabelSets : k.shared[l] # None =>
         /\ k.pc \in Queued
         /\ k.shared[l] \in Versions /\ k.shared[l] <= g[w]
         /\ \E i \in DOMAIN Listed :
              /\ Labels[Listed[i]] = l /\ w \in OwnRepos(Listed[i])
              /\ \A j \in k.todo : i < j \/ (i = j /\ k.pc = "save")

\* k are locals that w may have while GitHub is at g.
Fits(w, k, g) ==
    /\ Fields \subseteq DOMAIN k
    /\ k.pc \in {"idle", "return", "list"} \cup Queued
    /\ k.todo \subseteq DOMAIN Listed
    /\ k.pc \in Queued => k.todo # {}
    /\ w # Full => (\A i \in k.todo : w \in OwnRepos(Listed[i])) /\ SharedBefore(w, k, g)
    /\ k.pc \in Owning => Sound(w, Turn(k.todo), k.read, k.draft, g)
    /\ k.pc = "collect" => /\ k.left \in Seq(OwnRepos(Turn(k.todo))) \ {<<>>}
                           /\ w # Full => k.left = <<w>>

StoreInv ==
    /\ github \in GitHubStates
    /\ DOMAIN snapshot = Projects
    /\ \A p \in Projects :
         /\ snapshot[p] \in Snapshots(p)
         /\ snapshot[p] # None => \A r \in OwnRepos(p) : snapshot[p][r] <= github[r]

WorkInv == DOMAIN work = Workers /\ \A w \in Workers : Fits(w, work[w], github)

BuildInv == StoreInv /\ WorkInv

\* GitHub only moves on.
LEMMA FitsStill ==
    ASSUME NEW w \in Workers, NEW k, NEW g \in GitHubStates, NEW h \in GitHubStates,
           \A r \in Repos : g[r] <= h[r], Fits(w, k, g)
    PROVE  Fits(w, k, h)
<1>1. \A r \in Repos : g[r] \in Nat /\ h[r] \in Nat
  BY DEF GitHubStates
<1>2. k.pc \in Owning => Sound(w, Turn(k.todo), k.read, k.draft, h)
  <2> SUFFICES ASSUME k.pc \in Owning PROVE Sound(w, Turn(k.todo), k.read, k.draft, h)
    OBVIOUS
  <2> DEFINE p == Turn(k.todo)
  <2>1. k.todo # {} /\ k.todo \subseteq DOMAIN Listed /\ Sound(w, p, k.read, k.draft, g)
    BY DEF Fits, Owning, Queued
  <2>2. p \in Projects /\ OwnRepos(p) \subseteq Repos
    BY <2>1, ListedProjects, FirstPlace DEF Turn
  <2> HIDE DEF p
  <2>3. \A r \in OwnRepos(p) : k.draft[r] \in Nat /\ k.draft[r] <= h[r]
    BY <1>1, <2>1, <2>2 DEF Sound, Versions
  <2> QED BY <2>1, <2>3 DEF Sound, p
<1>3. w # Full => SharedBefore(w, k, h)
  <2> SUFFICES ASSUME w # Full PROVE SharedBefore(w, k, h)
    OBVIOUS
  <2>1. w \in Repos /\ SharedBefore(w, k, g)
    BY FullIsNoRepo DEF Fits
  <2>2. \A l \in LabelSets : k.shared[l] # None => k.shared[l] \in Nat /\ k.shared[l] <= h[w]
    BY <1>1, <2>1 DEF SharedBefore, Versions
  <2> QED BY <2>1, <2>2 DEF SharedBefore
<1> QED BY <1>2, <1>3 DEF Fits

LEMMA IdleFits ==
    ASSUME NEW w \in Workers, NEW g
    PROVE  Fits(w, IdleWork, g)
<1>1. /\ IdleWork.pc = "idle" /\ IdleWork.todo = {} /\ IdleWork.shared = [l \in LabelSets |-> None]
      /\ Fields \subseteq DOMAIN IdleWork
  BY DEF IdleWork, Fields
<1>2. SharedBefore(w, IdleWork, g)
  BY <1>1 DEF SharedBefore
<1> QED BY <1>1, <1>2 DEF Fits, Queued, Owning

\* w has other locals, or everything is forgotten.
LEMMA BuildKept ==
    ASSUME BuildInv, StoreInv', github' = github, DOMAIN work' = Workers,
           \A v \in Workers : work'[v] = work[v] \/ Fits(v, work'[v], github)
    PROVE  BuildInv'
BY DEF BuildInv, WorkInv

LEMMA BuildForgotten ==
    ASSUME BuildInv, StoreInv', github' = github, work' = [v \in Workers |-> IdleWork]
    PROVE  BuildInv'
BY IdleFits, BuildKept

LEMMA BuildMoved ==
    ASSUME BuildInv, StoreInv', github' = github, NEW w \in Workers, NEW k, work' = [work EXCEPT ![w] = k],
           Fits(w, k, github)
    PROVE  BuildInv'
BY BuildKept DEF BuildInv, WorkInv

LEMMA StoreKept ==
    ASSUME StoreInv, UNCHANGED <<snapshot, github>>
    PROVE  StoreInv'
BY DEF StoreInv

\* Locals with which w may go on to the places in rec.todo.
GoesOn(w, rec) ==
    /\ Fields \subseteq DOMAIN rec
    /\ rec.todo \subseteq DOMAIN Listed
    /\ w # Full =>
         /\ \A i \in rec.todo : w \in OwnRepos(Listed[i])
         /\ DOMAIN rec.shared = LabelSets
         /\ \A l \in LabelSets : rec.shared[l] # None =>
              /\ rec.shared[l] \in Versions /\ rec.shared[l] <= github[w]
              /\ \E i \in DOMAIN Listed :
                   Labels[Listed[i]] = l /\ w \in OwnRepos(Listed[i]) /\ \A j \in rec.todo : i < j

LEMMA IterateFits ==
    ASSUME BuildInv, StoreInv', github' = github, NEW w \in Workers, NEW rec, NEW lk,
           GoesOn(w, rec), Iterate(w, rec, lk)
    PROVE  BuildInv'
<1>1. CASE work' = [work EXCEPT ![w] = IdleWork]
  BY <1>1, IdleFits, BuildMoved
<1>2. CASE rec.todo # {} /\ work' = [work EXCEPT ![w] = [rec EXCEPT !.pc = "lock"]]
  <2> DEFINE k == [rec EXCEPT !.pc = "lock"]
  <2>1. /\ k.pc = "lock" /\ k.todo = rec.todo /\ k.shared = rec.shared /\ Fields \subseteq DOMAIN k
        /\ work' = [work EXCEPT ![w] = k]
    BY <1>2 DEF GoesOn, Fields
  <2> HIDE DEF k
  <2>2. w # Full => SharedBefore(w, k, github)
    BY <2>1 DEF GoesOn, SharedBefore, Queued
  <2>3. Fits(w, k, github)
    BY <1>2, <2>1, <2>2 DEF Fits, GoesOn, Queued, Owning
  <2> QED BY <2>1, <2>3, BuildMoved
<1> QED BY <1>1, <1>2 DEF Iterate, Finish

\* The next project's turn.
LEMMA TurnFits ==
    ASSUME NEW w \in Workers, NEW k, NEW g, Fits(w, k, g), k.pc \in Queued
    PROVE  /\ k.todo \subseteq Nat /\ k.todo # {} /\ First(k.todo) \in k.todo /\ k.todo \subseteq DOMAIN Listed
           /\ Turn(k.todo) \in Projects /\ Turn(k.todo) = Listed[First(k.todo)]
           /\ OwnRepos(Turn(k.todo)) \subseteq Repos /\ Labels[Turn(k.todo)] \in LabelSets
           /\ w # Full => w \in Repos /\ w \in OwnRepos(Turn(k.todo))
<1>1. k.todo \subseteq Nat /\ k.todo # {} /\ k.todo \subseteq DOMAIN Listed
  BY ListedProjects DEF Fits
<1>2. First(k.todo) \in k.todo
  BY <1>1, FirstPlace
<1> QED BY <1>1, <1>2, ListedProjects, FullIsNoRepo DEF Turn, Fits

LEMMA RestGoesOn ==
    ASSUME NEW w \in Workers, NEW k, Fits(w, k, github), k.pc \in Queued,
           NEW rec, Fields \subseteq DOMAIN rec, rec.todo = Rest(k.todo), rec.shared = k.shared
    PROVE  GoesOn(w, rec)
<1>1. k.todo \subseteq Nat /\ First(k.todo) \in k.todo /\ rec.todo \subseteq k.todo
      /\ \A j \in rec.todo : First(k.todo) < j
  BY TurnFits, FirstPlace
<1>2. rec.todo \subseteq DOMAIN Listed
  BY <1>1, TurnFits
<1>3. CASE w = Full
  BY <1>2, <1>3 DEF GoesOn
<1>4. CASE w # Full
  <2>1. SharedBefore(w, k, github) /\ \A i \in rec.todo : w \in OwnRepos(Listed[i])
    BY <1>1, <1>4 DEF Fits
  <2>2. ASSUME NEW l \in LabelSets, rec.shared[l] # None
        PROVE  /\ rec.shared[l] \in Versions /\ rec.shared[l] <= github[w]
               /\ \E i \in DOMAIN Listed :
                    Labels[Listed[i]] = l /\ w \in OwnRepos(Listed[i]) /\ \A j \in rec.todo : i < j
    <3>1. PICK i \in DOMAIN Listed :
            /\ Labels[Listed[i]] = l /\ w \in OwnRepos(Listed[i])
            /\ \A j \in k.todo : i < j \/ (i = j /\ k.pc = "save")
      BY <2>1, <2>2 DEF SharedBefore
    <3>2. \A j \in rec.todo : i < j
      <4> SUFFICES ASSUME NEW j \in rec.todo PROVE i < j
        OBVIOUS
      <4>1. PICK f : f = First(k.todo)
        OBVIOUS
      <4>2. f \in Nat /\ j \in Nat /\ i \in Nat /\ f < j /\ (i < f \/ i = f)
        BY <1>1, <3>1, <4>1, ListedProjects
      <4> QED BY <4>2
    <3> QED BY <2>1, <2>2, <3>1, <3>2 DEF SharedBefore
  <2>3. DOMAIN rec.shared = LabelSets
    BY <2>1 DEF SharedBefore
  <2> QED BY <1>2, <1>4, <2>1, <2>2, <2>3 DEF GoesOn
<1> QED BY <1>3, <1>4

\* What is saved of p is never ahead of GitHub.
LEMMA PreviousVersions ==
    ASSUME StoreInv, NEW p \in Projects
    PROVE  /\ Previous(snapshot[p], p) \in [OwnRepos(p) -> Versions]
           /\ \A r \in OwnRepos(p) : Previous(snapshot[p], p)[r] <= github[r] /\ github[r] \in Versions \ {0}
<1>1. \A r \in OwnRepos(p) : github[r] \in 1 .. MaxVersion /\ MaxVersion \in Nat
  BY ListedProjects, ConfigurationAssumption DEF StoreInv, GitHubStates
<1>2. CASE snapshot[p] = None
  <2>1. Previous(snapshot[p], p) = [r \in OwnRepos(p) |-> 0]
    BY <1>2 DEF Previous
  <2> QED BY <1>1, <2>1 DEF Versions
<1>3. CASE snapshot[p] # None
  <2>1. snapshot[p] \in [OwnRepos(p) -> Versions] /\ \A r \in OwnRepos(p) : snapshot[p][r] <= github[r]
    BY <1>3 DEF StoreInv, Snapshots, Versions
  <2>2. Previous(snapshot[p], p) = [r \in OwnRepos(p) |-> snapshot[p][r]]
    BY <1>3 DEF Previous
  <2> QED BY <1>1, <2>1, <2>2 DEF Versions
<1> QED BY <1>2, <1>3

LEMMA PreviousIsSound ==
    ASSUME StoreInv, NEW p \in Projects, NEW w
    PROVE  Sound(w, p, snapshot[p], Previous(snapshot[p], p), github)
<1> DEFINE d == Previous(snapshot[p], p)
<1>1. d \in [OwnRepos(p) -> Versions] /\ \A r \in OwnRepos(p) : d[r] <= github[r]
  BY PreviousVersions
<1>2. \A r \in OwnRepos(p) : d[r] >= d[r]
  BY <1>1 DEF Versions
<1> QED BY <1>1, <1>2 DEF Sound

\* One more result in a draft.
LEMMA ResultIsSound ==
    ASSUME NEW w, NEW p, NEW read, NEW draft, Sound(w, p, read, draft, github), NEW r \in OwnRepos(p),
           NEW result \in Versions, result <= github[r],
           result >= Previous(read, p)[r] \/ (r = w /\ SharesCollection(w, p))
    PROVE  Sound(w, p, read, [draft EXCEPT ![r] = result], github)
BY DEF Sound

\* w has read the snapshot, and builds on it.
LEMMA BuildsOn ==
    ASSUME NEW w \in Workers, NEW k, Fits(w, k, github), k.pc = "lock",
           NEW m, m.pc \in Owning, m.todo = k.todo, m.shared = k.shared, Fields \subseteq DOMAIN m,
           Sound(w, Turn(k.todo), m.read, m.draft, github),
           m.pc = "collect" => m.left \in Seq(OwnRepos(Turn(k.todo))) \ {<<>>} /\ (w # Full => m.left = <<w>>)
    PROVE  Fits(w, m, github)
<1>1. k.pc \in Queued /\ m.pc \in Queued /\ k.pc # "save"
  BY DEF Queued, Owning
<1>2. w # Full => SharedBefore(w, m, github)
  BY <1>1 DEF Fits, SharedBefore
<1> QED BY <1>1, <1>2 DEF Fits

LEMMA ListFits ==
    ASSUME BuildInv, NEW w \in Workers, List(w)
    PROVE  BuildInv'
<1>1. work[w].pc = "list" /\ UNCHANGED <<snapshot, github>> /\ StoreInv'
  BY StoreKept DEF List, storeVars, BuildInv
<1>2. Fits(w, work[w], github)
  BY DEF BuildInv, WorkInv
<1>3. /\ Visited(w) \subseteq DOMAIN Listed
      /\ w # Full => \A i \in Visited(w) : w \in OwnRepos(Listed[i])
  BY DEF Visited, Configured
<1>4. ASSUME NEW rec, Fields \subseteq DOMAIN rec, rec.todo = Visited(w), rec.shared = work[w].shared
      PROVE  GoesOn(w, rec)
  <2>1. w # Full => DOMAIN rec.shared = LabelSets /\ \A l \in LabelSets : rec.shared[l] = None
    BY <1>1, <1>2, <1>4 DEF Fits, SharedBefore, Queued
  <2> QED BY <1>3, <1>4, <2>1 DEF GoesOn
<1>5. CASE Iterate(w, [work[w] EXCEPT !.todo = Visited(w)], lock)
  <2> DEFINE rec == [work[w] EXCEPT !.todo = Visited(w)]
  <2>1. Fields \subseteq DOMAIN rec /\ rec.todo = Visited(w) /\ rec.shared = work[w].shared
    BY <1>2 DEF Fits, Fields
  <2>2. Iterate(w, rec, lock)
    BY <1>5
  <2> HIDE DEF rec
  <2> QED BY <1>1, <1>4, <2>1, <2>2, IterateFits
<1>6. CASE Iterate(w, [work[w] EXCEPT !.mode = "mark", !.todo = Visited(w)], lock)
  <2> DEFINE rec == [work[w] EXCEPT !.mode = "mark", !.todo = Visited(w)]
  <2>1. Fields \subseteq DOMAIN rec /\ rec.todo = Visited(w) /\ rec.shared = work[w].shared
    BY <1>2 DEF Fits, Fields
  <2>2. Iterate(w, rec, lock)
    BY <1>6
  <2> HIDE DEF rec
  <2> QED BY <1>1, <1>4, <2>1, <2>2, IterateFits
<1>7. CASE Finish(w)
  BY <1>1, <1>7, IdleFits, BuildMoved DEF Finish
<1> QED BY <1>5, <1>6, <1>7 DEF List

LEMMA ReadFits ==
    ASSUME BuildInv, NEW w \in Workers, Read(w)
    PROVE  BuildInv'
<1> DEFINE p == Current(w)
           k == work[w]
           known == snapshot[p]
           draft == Previous(known, p)
<1>1. /\ k.pc = "lock" /\ UNCHANGED <<snapshot, github>> /\ StoreInv /\ StoreInv'
      /\ Fits(w, k, github) /\ k.pc \in Queued
  BY StoreKept DEF Read, storeVars, BuildInv, WorkInv, Queued
<1>2. /\ p = Turn(k.todo) /\ p \in Projects /\ Labels[p] \in LabelSets
      /\ w # Full => w \in Repos /\ w \in OwnRepos(p)
  BY <1>1, TurnFits DEF Current
<1>3. Sound(w, p, known, draft, github)
  BY <1>1, <1>2, PreviousIsSound
<1>4. Fields \subseteq DOMAIN k
  BY <1>1 DEF Fits
<1> DEFINE rec == [k EXCEPT !.read = known]
           cached == IF w = Full THEN None ELSE k.shared[Labels[p]]
<1>5. Fields \subseteq DOMAIN rec /\ rec.todo = k.todo /\ rec.shared = k.shared /\ rec.read = known
  BY <1>4 DEF Fields
<1>6. \/ Iterate(w, [k EXCEPT !.todo = Rest(@)], Unlocked(w))
      \/ work' = [work EXCEPT ![w] = [rec EXCEPT !.pc = "save", !.draft = draft]]
      \/ cached # None /\ work' = [work EXCEPT ![w] = [rec EXCEPT !.pc = "save", !.draft = [draft EXCEPT ![w] = cached]]]
      \/ work' = [work EXCEPT ![w] = [rec EXCEPT !.pc = "collect", !.draft = draft,
                                          !.left = IF w = Full THEN RepositoriesOf[p] ELSE <<w>>]]
  BY DEF Read
<1>7. CASE Iterate(w, [k EXCEPT !.todo = Rest(@)], Unlocked(w))
  <2> DEFINE m == [k EXCEPT !.todo = Rest(@)]
  <2>1. Fields \subseteq DOMAIN m /\ m.todo = Rest(k.todo) /\ m.shared = k.shared
    BY <1>4 DEF Fields
  <2>2. Iterate(w, m, Unlocked(w))
    BY <1>7
  <2> HIDE DEF m, k
  <2>3. GoesOn(w, m)
    BY <1>1, <2>1, RestGoesOn
  <2> QED BY <1>1, <2>2, <2>3, IterateFits
<1> HIDE DEF rec
<1>8. ASSUME NEW d, Sound(w, p, known, d, github),
             work' = [work EXCEPT ![w] = [rec EXCEPT !.pc = "save", !.draft = d]]
      PROVE  BuildInv'
  <2> DEFINE m == [rec EXCEPT !.pc = "save", !.draft = d]
  <2>1. Fields \subseteq DOMAIN m /\ m.pc = "save" /\ m.todo = k.todo /\ m.shared = k.shared /\ m.read = known /\ m.draft = d
    BY <1>5 DEF Fields
  <2>2. work' = [work EXCEPT ![w] = m]
    BY <1>8
  <2> HIDE DEF m, k, known, p
  <2>3. m.pc \in Owning /\ m.pc # "collect"
    BY <2>1 DEF Owning
  <2>4. Fits(w, m, github)
    BY <1>1, <1>2, <1>8, <2>1, <2>3, BuildsOn
  <2> QED BY <1>1, <2>2, <2>4, BuildMoved
<1>9. CASE cached # None /\ work' = [work EXCEPT ![w] = [rec EXCEPT !.pc = "save", !.draft = [draft EXCEPT ![w] = cached]]]
  <2>1. w # Full /\ cached = k.shared[Labels[p]]
    BY <1>9
  <2>2. SharedBefore(w, k, github)
    BY <1>1, <2>1 DEF Fits
  <2>3. cached \in Versions /\ cached <= github[w]
    BY <1>2, <1>9, <2>1, <2>2 DEF SharedBefore
  <2>4. SharesCollection(w, p)
    <3>1. PICK i \in DOMAIN Listed :
            /\ Labels[Listed[i]] = Labels[p] /\ w \in OwnRepos(Listed[i])
            /\ \A j \in k.todo : i < j \/ (i = j /\ k.pc = "save")
      BY <1>2, <1>9, <2>1, <2>2 DEF SharedBefore
    <3>2. First(k.todo) \in k.todo /\ First(k.todo) \in DOMAIN Listed /\ p = Listed[First(k.todo)]
      BY <1>1, <1>2, TurnFits
    <3>3. i < First(k.todo)
      BY <1>1, <3>1, <3>2
    <3> HIDE DEF k, p
    <3> QED BY <2>1, <3>1, <3>2, <3>3 DEF SharesCollection
  <2> HIDE DEF k, p, known, cached, draft
  <2>5. Sound(w, p, known, [draft EXCEPT ![w] = cached], github)
    BY <1>2, <1>3, <2>1, <2>3, <2>4, ResultIsSound
  <2> QED BY <1>8, <1>9, <2>5
<1>10. CASE work' = [work EXCEPT ![w] = [rec EXCEPT !.pc = "collect", !.draft = draft,
                                             !.left = IF w = Full THEN RepositoriesOf[p] ELSE <<w>>]]
  <2> DEFINE left == IF w = Full THEN RepositoriesOf[p] ELSE <<w>>
             m == [rec EXCEPT !.pc = "collect", !.draft = draft, !.left = left]
  <2>1. left \in Seq(OwnRepos(p)) \ {<<>>} /\ (w # Full => left = <<w>>)
    <3>1. CASE w = Full
      <4>1. RepositoriesOf[p] \in Seq(Repos) \ {<<>>}
        BY <1>2, ConfigurationAssumption
      <4>2. RepositoriesOf[p] \in Seq(OwnRepos(p))
        BY <4>1 DEF OwnRepos, Elements
      <4> QED BY <3>1, <4>1, <4>2
    <3>2. CASE w # Full
      BY <1>2, <3>2
    <3> QED BY <3>1, <3>2
  <2> HIDE DEF left
  <2>2. /\ Fields \subseteq DOMAIN m /\ m.pc = "collect" /\ m.todo = k.todo /\ m.shared = k.shared
        /\ m.read = known /\ m.draft = draft /\ m.left = left
    BY <1>5 DEF Fields
  <2>3. work' = [work EXCEPT ![w] = m]
    BY <1>10 DEF left
  <2> HIDE DEF m, k, known, draft, p
  <2>4. m.pc \in Owning
    BY <2>2 DEF Owning
  <2>5. Fits(w, m, github)
    BY <1>1, <1>2, <1>3, <2>1, <2>2, <2>4, BuildsOn
  <2> QED BY <1>1, <2>3, <2>5, BuildMoved
<1> QED BY <1>3, <1>6, <1>7, <1>8, <1>9, <1>10

LEMMA CollectFits ==
    ASSUME BuildInv, LockInv, NEW w \in Workers, Collect(w)
    PROVE  BuildInv'
<1> DEFINE p == Current(w)
           k == work[w]
           r == Head(k.left)
<1>1. /\ k.pc = "collect" /\ UNCHANGED <<snapshot, github>> /\ StoreInv /\ StoreInv'
      /\ Fits(w, k, github) /\ k.pc \in Queued /\ k.pc \in Owning /\ k.pc # "save"
  BY StoreKept DEF Collect, storeVars, BuildInv, WorkInv, Queued, Owning
<1>2. /\ p = Turn(k.todo) /\ p \in Projects /\ Labels[p] \in LabelSets /\ OwnRepos(p) \subseteq Repos
      /\ w # Full => w \in Repos /\ w \in OwnRepos(p)
      /\ First(k.todo) \in k.todo /\ First(k.todo) \in DOMAIN Listed /\ p = Listed[First(k.todo)]
  BY <1>1, TurnFits DEF Current
<1>3. /\ Sound(w, p, k.read, k.draft, github)
      /\ k.left \in Seq(OwnRepos(p)) \ {<<>>} /\ (w # Full => k.left = <<w>>)
      /\ Fields \subseteq DOMAIN k
  BY <1>1, <1>2 DEF Fits
<1>4. r \in OwnRepos(p) /\ Tail(k.left) \in Seq(OwnRepos(p)) /\ (w # Full => r = w /\ Len(k.left) = 1)
      /\ (Len(k.left) # 1 => Tail(k.left) # <<>>)
  <2>1. PICK q : q = k.left
    OBVIOUS
  <2>2. PICK S : S = OwnRepos(p)
    OBVIOUS
  <2>3. q \in Seq(S) /\ q # <<>> /\ (w # Full => q = <<w>>)
    BY <1>3, <2>1, <2>2
  <2>4. Head(q) \in S /\ Tail(q) \in Seq(S) /\ (Len(q) # 1 => Tail(q) # <<>>)
    <3>1. q \in Seq(S) /\ Len(q) \in Nat \ {0}
      BY <2>3
    <3>2. Head(q) \in S /\ Tail(q) \in Seq(S) /\ Len(Tail(q)) = Len(q) - 1
      BY <3>1
    <3>3. Len(q) # 1 => Len(Tail(q)) # 0
      BY <3>1, <3>2
    <3> QED BY <3>2, <3>3
  <2>5. w # Full => Head(q) = w /\ Len(q) = 1
    BY <2>3
  <2> QED BY <2>1, <2>2, <2>4, <2>5
<1> DEFINE shared(result) == IF w = Full THEN k.shared ELSE [k.shared EXCEPT ![Labels[p]] = result]
           pc == IF Len(k.left) = 1 THEN "save" ELSE "collect"
           m(result) == [k EXCEPT !.pc = pc, !.left = Tail(k.left),
                                  !.draft = [k.draft EXCEPT ![r] = result], !.shared = shared(result)]
<1>5. PICK result \in {github[r], k.draft[r]} : work' = [work EXCEPT ![w] = m(result)]
  <2>1. PICK result \in {github[r]} \cup (IF "part" \in Faults THEN {k.draft[r]} ELSE {}) :
          work' = [work EXCEPT
             ![w].pc = IF Len(k.left) = 1 THEN "save" ELSE "collect",
             ![w].left = Tail(k.left),
             ![w].draft = [k.draft EXCEPT ![r] = result],
             ![w].shared = IF w = Full THEN @ ELSE [@ EXCEPT ![Labels[Current(w)]] = result]]
    BY DEF Collect
  <2>2. DOMAIN work = Workers
    BY DEF BuildInv, WorkInv
  <2>3. work' = [work EXCEPT ![w] = m(result)]
    BY <1>3, <2>1, <2>2
  <2> QED BY <2>1, <2>3
<1>6. /\ result \in Versions /\ result <= github[r]
      /\ result >= Previous(k.read, p)[r] \/ (r = w /\ SharesCollection(w, p))
  <2>1. k.read = snapshot[p]
    BY <1>1, <1>2 DEF LockInv, HoldersAreUpToDate
  <2>2. /\ Previous(k.read, p)[r] \in Nat /\ k.draft[r] \in Versions /\ k.draft[r] <= github[r]
        /\ k.draft[r] >= Previous(k.read, p)[r] \/ (r = w /\ SharesCollection(w, p))
        /\ github[r] \in Versions
    <3> HIDE DEF k, p, r
    <3>1. Previous(snapshot[p], p) \in [OwnRepos(p) -> Versions] /\ github[r] \in Versions
      BY <1>1, <1>2, <1>4, PreviousVersions
    <3>2. Previous(k.read, p)[r] \in Nat
      BY <1>4, <2>1, <3>1 DEF Versions
    <3> QED BY <1>3, <1>4, <3>1, <3>2 DEF Sound
  <2> HIDE DEF k, p, r
  <2>3. github[r] \in Nat /\ k.draft[r] \in Nat
    BY <2>2 DEF Versions
  <2> QED BY <1>5, <2>2, <2>3
<1> DEFINE d == [k.draft EXCEPT ![r] = result]
<1>7. Sound(w, p, k.read, d, github)
  <2> HIDE DEF k, p, r
  <2> QED BY <1>3, <1>4, <1>6, ResultIsSound
<1>8. /\ Fields \subseteq DOMAIN m(result) /\ m(result).pc = pc /\ m(result).todo = k.todo
      /\ m(result).read = k.read /\ m(result).draft = d
      /\ m(result).left = Tail(k.left) /\ m(result).shared = shared(result)
  <2> HIDE DEF d, pc, shared
  <2>1. Fields \subseteq DOMAIN k
    BY <1>3
  <2> QED BY <2>1 DEF Fields, d
<1>9. PICK n : n = m(result)
  OBVIOUS
<1> HIDE DEF m, d
<1>10. w # Full => SharedBefore(w, n, github)
  <2> SUFFICES ASSUME w # Full PROVE SharedBefore(w, n, github)
    OBVIOUS
  <2>1. SharedBefore(w, k, github) /\ r = w /\ n.pc = "save" /\ n.todo = k.todo
    BY <1>1, <1>4, <1>8, <1>9 DEF Fits
  <2>2. n.shared = [k.shared EXCEPT ![Labels[p]] = result]
    BY <1>8, <1>9
  <2>3. DOMAIN n.shared = LabelSets
    BY <2>1, <2>2 DEF SharedBefore
  <2>4. ASSUME NEW l \in LabelSets, n.shared[l] # None
        PROVE  /\ n.shared[l] \in Versions /\ n.shared[l] <= github[w]
               /\ \E i \in DOMAIN Listed :
                    /\ Labels[Listed[i]] = l /\ w \in OwnRepos(Listed[i])
                    /\ \A j \in k.todo : i < j \/ i = j
    <3>1. CASE l = Labels[p]
      <4>1. n.shared[l] = result
        BY <2>1, <2>2, <3>1 DEF SharedBefore
      <4>2. PICK i : i = First(k.todo)
        OBVIOUS
      <4>3. i \in DOMAIN Listed /\ p = Listed[i] /\ w \in OwnRepos(p)
        BY <1>2, <4>2
      <4>4. \A j \in k.todo : i < j \/ i = j
        <5>1. k.todo \subseteq Nat /\ k.todo # {}
          BY <1>1, TurnFits
        <5>2. \A j \in k.todo : j = i \/ j \in Rest(k.todo)
          BY <4>2 DEF Rest
        <5> QED BY <4>2, <5>1, <5>2, FirstPlace
      <4> QED BY <1>6, <2>1, <3>1, <4>1, <4>3, <4>4
    <3>2. CASE l # Labels[p]
      <4>1. n.shared[l] = k.shared[l]
        BY <2>2, <2>1, <3>2 DEF SharedBefore
      <4> QED BY <2>1, <2>4, <4>1 DEF SharedBefore
    <3> QED BY <3>1, <3>2
  <2> QED BY <2>1, <2>3, <2>4 DEF SharedBefore, Queued
<1>11. Fits(w, n, github)
  <2>1. n.pc \in Owning /\ n.pc \in Queued /\ n.todo = k.todo /\ Fields \subseteq DOMAIN n
    BY <1>8, <1>9 DEF Owning, Queued
  <2>2. Sound(w, Turn(n.todo), n.read, n.draft, github)
    BY <1>2, <1>7, <1>8, <1>9
  <2>3. n.pc = "collect" => w = Full /\ n.left \in Seq(OwnRepos(Turn(n.todo))) \ {<<>>}
    BY <1>2, <1>4, <1>8, <1>9
  <2> QED BY <1>1, <1>10, <2>1, <2>2, <2>3 DEF Fits
<1> QED BY <1>1, <1>5, <1>9, <1>11, BuildMoved

LEMMA SavedIsKept ==
    ASSUME StoreInv, NEW w, NEW p \in Projects, NEW read, NEW draft, Sound(w, p, read, draft, github),
           snapshot' = [snapshot EXCEPT ![p] = draft], github' = github
    PROVE  StoreInv'
<1>1. draft \in Snapshots(p) /\ \A r \in OwnRepos(p) : draft[r] <= github[r]
  BY DEF Sound, Snapshots, Versions
<1>2. ASSUME NEW q \in Projects
      PROVE  snapshot'[q] \in Snapshots(q) /\ (snapshot'[q] # None => \A r \in OwnRepos(q) : snapshot'[q][r] <= github[r])
  <2>1. CASE q = p
    BY <1>1, <2>1 DEF StoreInv
  <2>2. CASE q # p
    BY <2>2 DEF StoreInv
  <2> QED BY <2>1, <2>2
<1> QED BY <1>2 DEF StoreInv

LEMMA SaveFits ==
    ASSUME BuildInv, NEW w \in Workers, Save(w)
    PROVE  BuildInv'
<1> DEFINE k == work[w]
           m == [k EXCEPT !.todo = Rest(@), !.read = None, !.draft = None]
<1>1. /\ k.pc = "save" /\ snapshot' = [snapshot EXCEPT ![Current(w)] = k.draft] /\ github' = github
      /\ Iterate(w, m, Unlocked(w))
  BY DEF Save
<1>2. k.pc \in Queued /\ k.pc \in Owning /\ Fits(w, k, github) /\ StoreInv
  BY <1>1 DEF Queued, Owning, BuildInv, WorkInv
<1>3. Fields \subseteq DOMAIN m /\ m.todo = Rest(k.todo) /\ m.shared = k.shared
  BY <1>2 DEF Fits, Fields
<1> HIDE DEF m
<1>4. Current(w) \in Projects /\ Sound(w, Current(w), k.read, k.draft, github)
  BY <1>2, TurnFits DEF Current, Fits
<1> HIDE DEF k
<1>5. StoreInv'
  BY <1>1, <1>2, <1>4, SavedIsKept
<1>6. GoesOn(w, m)
  BY <1>2, <1>3, RestGoesOn
<1> QED BY <1>1, <1>5, <1>6, IterateFits

LEMMA QueryFailsFits ==
    ASSUME BuildInv, NEW w \in Workers, RefreshQueryFails(w)
    PROVE  BuildInv'
<1>1. /\ Reject(w) /\ github' = github
      /\ \/ UNCHANGED snapshot
         \/ work[w].pc = "save" /\ snapshot' = [snapshot EXCEPT ![Current(w)] = work[w].draft]
  BY DEF RefreshQueryFails
<1>2. StoreInv /\ Fits(w, work[w], github)
  BY DEF BuildInv, WorkInv
<1>3. StoreInv'
  <2>1. CASE UNCHANGED snapshot
    BY <1>1, <1>2, <2>1, StoreKept
  <2>2. CASE work[w].pc = "save" /\ snapshot' = [snapshot EXCEPT ![Current(w)] = work[w].draft]
    <3>1. work[w].pc \in Queued /\ work[w].pc \in Owning
      BY <2>2 DEF Queued, Owning
    <3>2. Current(w) \in Projects /\ Sound(w, Current(w), work[w].read, work[w].draft, github)
      BY <1>2, <3>1, TurnFits DEF Current, Fits
    <3> QED BY <1>1, <1>2, <2>2, <3>2, SavedIsKept
  <2> QED BY <1>1, <2>1, <2>2
<1>4. work' = [v \in Workers |-> IdleWork] \/ work' = [work EXCEPT ![w] = IdleWork]
  BY <1>1 DEF Reject, End
<1>5. CASE work' = [v \in Workers |-> IdleWork]
  BY <1>1, <1>3, <1>5, BuildForgotten
<1>6. CASE work' = [work EXCEPT ![w] = IdleWork]
  BY <1>1, <1>3, <1>6, IdleFits, BuildMoved
<1> QED BY <1>4, <1>5, <1>6

LEMMA ChangeFits ==
    ASSUME BuildInv, NEW r \in Repos, Change(r)
    PROVE  BuildInv'
<1>1. github[r] < MaxVersion /\ github' = [github EXCEPT ![r] = @ + 1] /\ UNCHANGED <<work, snapshot>>
  BY DEF Change, refreshVars
<1>2. github \in GitHubStates /\ github' \in GitHubStates /\ \A s \in Repos : github[s] <= github'[s]
  <2>1. github \in GitHubStates /\ MaxVersion \in Nat
    BY ConfigurationAssumption DEF BuildInv, StoreInv
  <2>2. \A s \in Repos : github[s] \in 1 .. MaxVersion
    BY <2>1 DEF GitHubStates
  <2> QED BY <1>1, <2>1, <2>2 DEF GitHubStates
<1>3. ASSUME NEW p \in Projects, snapshot[p] # None, NEW s \in OwnRepos(p)
      PROVE  snapshot[p][s] <= github'[s]
  <2>1. snapshot[p] \in [OwnRepos(p) -> Versions] /\ snapshot[p][s] <= github[s] /\ s \in Repos
    BY <1>3, ListedProjects DEF BuildInv, StoreInv, Snapshots, Versions
  <2>2. snapshot[p][s] \in Nat /\ github[s] \in Nat /\ github'[s] \in Nat
    BY <1>2, <2>1 DEF Versions, GitHubStates
  <2> QED BY <1>2, <2>1, <2>2
<1>4. StoreInv'
  BY <1>1, <1>2, <1>3 DEF BuildInv, StoreInv
<1>5. \A w \in Workers : Fits(w, work[w], github')
  BY <1>2, FitsStill DEF BuildInv, WorkInv
<1> QED BY <1>1, <1>4, <1>5 DEF BuildInv, WorkInv

\* A refresh that begins has shared nothing yet.
LEMMA BegunFits ==
    ASSUME BuildInv, NEW w \in Workers, work[w].pc = "idle", NEW pc \in {"list", "return"},
           work' = [work EXCEPT ![w].pc = pc], UNCHANGED <<snapshot, github>>
    PROVE  BuildInv'
<1> DEFINE m == [work[w] EXCEPT !.pc = pc]
<1>1. Fits(w, work[w], github) /\ StoreInv' /\ DOMAIN work = Workers
  BY StoreKept DEF BuildInv, WorkInv
<1>2. /\ work' = [work EXCEPT ![w] = m]
      /\ Fields \subseteq DOMAIN m /\ m.pc = pc /\ m.todo = work[w].todo /\ m.shared = work[w].shared
  BY <1>1 DEF Fits, Fields
<1> HIDE DEF m
<1>3. w # Full => SharedBefore(w, m, github)
  BY <1>1, <1>2 DEF Fits, SharedBefore, Queued
<1>4. Fits(w, m, github)
  BY <1>1, <1>2, <1>3 DEF Fits, Queued, Owning
<1> QED BY <1>1, <1>2, <1>4, BuildMoved

LEMMA InitBuild == Init => BuildInv
<1> SUFFICES ASSUME Init PROVE BuildInv
  OBVIOUS
<1>1. StoreInv
  <2>1. MaxVersion \in Nat \ {0}
    BY ConfigurationAssumption
  <2> QED BY <2>1 DEF Init, StoreInv, GitHubStates, Snapshots
<1>2. WorkInv
  BY IdleFits DEF Init, WorkInv
<1> QED BY <1>1, <1>2 DEF BuildInv

LEMMA NextBuild == LocksInv /\ BuildInv /\ [Next]_vars => BuildInv'
<1> SUFFICES ASSUME LockInv, WorkersAreCounted, BuildInv, [Next]_vars PROVE BuildInv'
  BY DEF LocksInv
<1>1. CASE UNCHANGED <<work, snapshot, github>>
  BY <1>1 DEF BuildInv, StoreInv, WorkInv
<1>2. CASE Boot \/ StartFails \/ Started \/ Shutdown \/ StopServices \/ EndPool \/ Cleanup \/ UNCHANGED vars
  BY <1>1, <1>2 DEF Boot, StartFails, Started, Shutdown, StopServices, EndPool, Cleanup, vars, refreshVars, storeVars
<1>3. CASE StartProjects \/ Poll
  <2>1. work' = [work EXCEPT ![Full].pc = "list"] /\ UNCHANGED <<snapshot, github>>
    BY <1>3 DEF StartProjects, Poll, storeVars
  <2>2. work[Full].pc = "idle"
    BY <1>3 DEF StartProjects, Poll, WorkersAreCounted
  <2> QED BY <2>1, <2>2, FullIsNoRepo, BegunFits
<1>4. CASE Exit
  <2>1. work' = [v \in Workers |-> IdleWork] /\ UNCHANGED <<snapshot, github>>
    BY <1>4 DEF Exit, End, storeVars
  <2> QED BY <2>1, StoreKept, BuildForgotten DEF BuildInv
<1>5. ASSUME NEW r \in Repos, RefreshRepository(r)
      PROVE  BuildInv'
  <2>1. r \notin running /\ UNCHANGED <<snapshot, github>>
        /\ work' = [work EXCEPT ![r].pc = IF stopped THEN "return" ELSE "list"]
    BY <1>5 DEF RefreshRepository, Begin, storeVars
  <2>2. work[r].pc = "idle" /\ r \in Workers
    BY <2>1, FullIsNoRepo DEF WorkersAreCounted
  <2> DEFINE pc == IF stopped THEN "return" ELSE "list"
  <2>3. pc \in {"list", "return"} /\ work' = [work EXCEPT ![r].pc = pc]
    BY <2>1
  <2> HIDE DEF pc
  <2> QED BY <2>1, <2>2, <2>3, BegunFits
<1>6. ASSUME NEW r \in Repos, Return(r)
      PROVE  BuildInv'
  <2>1. work' = [work EXCEPT ![r] = IdleWork] /\ UNCHANGED <<snapshot, github>> /\ r \in Workers
    BY <1>6, FullIsNoRepo DEF Return, Finish, storeVars
  <2> QED BY <2>1, IdleFits, StoreKept, BuildMoved DEF BuildInv
<1>7. ASSUME NEW w \in Workers, RefreshStep(w) \/ RefreshQueryFails(w)
      PROVE  BuildInv'
  BY <1>7, ListFits, ReadFits, CollectFits, SaveFits, QueryFailsFits DEF RefreshStep
<1>8. ASSUME NEW h \in Posts, (\E d \in Deliveries : Deliver(h, d)) \/ PostStep(h) \/ PostFails(h)
      PROVE  BuildInv'
  BY <1>1, <1>8 DEF Deliver, PostStep, Record, Schedule, PostFails, refreshVars, storeVars
<1> QED BY <1>2, <1>3, <1>4, <1>5, <1>6, <1>7, <1>8, ChangeFits DEF Next

-----------------------------------------------------------------------------
(* What goes back. *)

LEMMA GoingBack ==
    ASSUME LockInv, BuildInv, [Next]_vars, NEW p \in Projects, NEW r \in OwnRepos(p),
           Previous(snapshot'[p], p)[r] < Previous(snapshot[p], p)[r]
    PROVE  work[r].pc = "save" /\ Current(r) = p /\ SharesCollection(r, p)
<1>1. snapshot'[p] # snapshot[p]
  <2> SUFFICES ASSUME snapshot'[p] = snapshot[p] PROVE FALSE
    OBVIOUS
  <2>1. Previous(snapshot[p], p)[r] \in Nat
    BY PreviousVersions DEF BuildInv, Versions
  <2> QED BY <2>1
<1>2. PICK w \in Workers : /\ work[w].pc = "save" /\ Current(w) = p /\ work[w].read = snapshot[p]
                           /\ snapshot' = [snapshot EXCEPT ![p] = work[w].draft]
  BY <1>1, SavingStep
<1> DEFINE d == work[w].draft
<1>3. Sound(w, p, snapshot[p], d, github)
  <2>1. work[w].pc \in Owning
    BY <1>2 DEF Owning
  <2> QED BY <1>2, <2>1 DEF BuildInv, WorkInv, Fits, Current
<1> HIDE DEF d
<1>4. Previous(snapshot'[p], p)[r] = d[r] \/ d = None
  <2>1. snapshot'[p] = d
    BY <1>2 DEF BuildInv, StoreInv, d
  <2>2. d # None => Previous(d, p) = [s \in OwnRepos(p) |-> d[s]]
    BY DEF Previous
  <2> QED BY <2>1, <2>2
<1>5. d # None
  <2>1. d \in [Elements(RepositoriesOf[p]) -> 0 .. MaxVersion]
    BY <1>3 DEF Sound, OwnRepos, Versions
  <2> QED BY <2>1, ConfigurationAssumption
<1>6. d[r] \in Nat /\ Previous(snapshot[p], p)[r] \in Nat
  BY <1>3, PreviousVersions DEF Sound, BuildInv, Versions
<1>7. r = w /\ SharesCollection(w, p)
  BY <1>3, <1>4, <1>5, <1>6 DEF Sound
<1> QED BY <1>2, <1>7

-----------------------------------------------------------------------------
(* The other variables. *)

Phases == {"down", "starting", "initial", "up", "failing", "closing"}
Outcomes == {None, "accepted", "ignored"}

Declared ==
    /\ phase \in Phases
    /\ poolOpen \in BOOLEAN /\ stopped \in BOOLEAN /\ polling \in BOOLEAN
    /\ refreshing \in BOOLEAN /\ reconciled \in BOOLEAN /\ closed \in BOOLEAN
    /\ requested \subseteq Repos /\ running \subseteq Repos
    /\ row \in [Deliveries -> Outcomes]
    /\ \A d \in Deliveries : row[d] = "accepted" => Target[d] \in Repos
    /\ acts \in [Deliveries -> Nat]

\* A refresh that ends, or goes on.
LEMMA RefreshDeclared ==
    ASSUME Declared, NEW w \in Workers, RefreshStep(w) \/ RefreshQueryFails(w)
    PROVE  Declared'
<1>1. ASSUME Finish(w)
      PROVE  refreshing' \in BOOLEAN /\ closed' = closed /\ requested' = requested /\ running' \subseteq running
  BY <1>1 DEF Finish, Settle, requestVars, Declared
<1>2. ASSUME NEW rec, NEW lk, Iterate(w, rec, lk)
      PROVE  refreshing' \in BOOLEAN /\ closed' = closed /\ requested' = requested /\ running' \subseteq running
  BY <1>1, <1>2 DEF Iterate, requestVars, Declared
<1>3. CASE RefreshStep(w)
  <2>1. refreshing' \in BOOLEAN /\ closed' = closed /\ requested' = requested /\ running' \subseteq running
    BY <1>1, <1>2, <1>3 DEF RefreshStep, List, Read, Collect, Save, requestVars, Declared
  <2>2. UNCHANGED <<phase, poolOpen, stopped, polling, reconciled, row, acts>>
    BY <1>3 DEF RefreshStep, List, Read, Collect, Save, serverVars, storeVars, deliveryVars
  <2> QED BY <2>1, <2>2 DEF Declared
<1>4. CASE RefreshQueryFails(w)
  <2>1. /\ phase' \in Phases /\ poolOpen' \in BOOLEAN /\ stopped' \in BOOLEAN /\ polling' \in BOOLEAN
        /\ refreshing' \in BOOLEAN /\ closed' \in BOOLEAN /\ requested' \subseteq Repos /\ running' \subseteq Repos
    <3>1. CASE End
      BY <3>1 DEF End, Phases
    <3>2. CASE ~End
      <4>1. /\ poolOpen' = poolOpen /\ stopped' = stopped /\ polling' = polling
            /\ IF w = Full THEN refreshing' = FALSE /\ phase' = "failing" /\ Stop
                           ELSE Settle(w) /\ UNCHANGED <<refreshing, phase>>
        BY <1>4, <3>2 DEF RefreshQueryFails, Reject, CoordinatorStops
      <4>2. CASE w = Full
        BY <4>1, <4>2 DEF Stop, Phases, Declared
      <4>3. CASE w # Full
        BY <4>1, <4>3 DEF Settle, Declared
      <4> QED BY <4>2, <4>3
    <3> QED BY <3>1, <3>2
  <2>2. UNCHANGED <<reconciled, row, acts>>
    BY <1>4 DEF RefreshQueryFails, Reject, End
  <2> QED BY <2>1, <2>2 DEF Declared
<1> QED BY <1>3, <1>4

\* A row is accepted only for a configured repository.
LEMMA InsertDeclared ==
    ASSUME Declared, NEW h, post[h].delivery \in Deliveries, Insert(h)
    PROVE  row' \in [Deliveries -> Outcomes] /\ \A d \in Deliveries : row'[d] = "accepted" => Target[d] \in Repos
<1> DEFINE d == post[h].delivery
<1>1. row' = (IF row[d] = None THEN [row EXCEPT ![d] = Outcome(d)] ELSE row)
  BY DEF Insert
<1>2. Outcome(d) \in Outcomes
  BY DEF Outcome, Outcomes
<1>3. Outcome(d) = "accepted" => Target[d] \in Repos
  <2> SUFFICES ASSUME Outcome(d) = "accepted" PROVE Target[d] \in Repos
    OBVIOUS
  <2>1. PICK p \in Elements(Configured) : Target[d] \in OwnRepos(p)
    BY DEF Outcome
  <2>2. p \in Projects
    BY <2>1, ListedProjects DEF Configured, Elements, Projects
  <2> QED BY <2>1, <2>2, ListedProjects
<1> QED BY <1>1, <1>2, <1>3 DEF Declared

LEMMA PostDeclared ==
    ASSUME Declared, DeliveryInv, NEW h \in Posts,
           (\E d \in Deliveries : Deliver(h, d)) \/ PostStep(h) \/ PostFails(h)
    PROVE  Declared'
<1>1. UNCHANGED <<phase, poolOpen, stopped, polling, refreshing, reconciled>>
  BY DEF Deliver, PostStep, Record, Schedule, PostFails, serverVars, refreshVars, storeVars
<1>2. CASE UNCHANGED <<requested, running, closed, row, acts>>
  BY <1>1, <1>2 DEF Declared
<1>3. CASE Record(h) \/ (PostFails(h) /\ Insert(h))
  <2>1. post[h].pc = "record" /\ Insert(h) /\ UNCHANGED <<requested, running, closed, acts>>
    BY <1>3 DEF Record, PostFails, requestVars
  <2>2. post[h].delivery \in Deliveries
    BY <2>1 DEF DeliveryInv, PostType
  <2> QED BY <1>1, <2>1, <2>2, InsertDeclared DEF Declared
<1>4. CASE Schedule(h)
  <2> DEFINE d == post[h].delivery
  <2>1. UNCHANGED row /\ post[h].pc = "recorded"
    BY <1>4 DEF Schedule
  <2>2. CASE Recorded(h)
    <3>1. d \in Deliveries /\ Target[d] \in Repos
      BY <2>1, <2>2 DEF DeliveryInv, PostType, OneOwes, Declared
    <3>2. acts' = [acts EXCEPT ![d] = @ + 1] /\ acts' \in [Deliveries -> Nat]
      BY <1>4, <2>2, <3>1 DEF Schedule, Declared
    <3>3. UNCHANGED requestVars \/ Request(Target[d])
      BY <1>4, <2>2 DEF Schedule
    <3>4. requested' \subseteq Repos /\ UNCHANGED <<running, closed>>
      BY <3>1, <3>3 DEF Request, requestVars, Declared
    <3> QED BY <1>1, <2>1, <3>2, <3>4 DEF Declared
  <2>3. CASE ~Recorded(h)
    BY <1>2, <1>4, <2>1, <2>3 DEF Schedule, requestVars
  <2> QED BY <2>2, <2>3
<1>5. CASE (\E d \in Deliveries : Deliver(h, d)) \/ (PostFails(h) /\ UNCHANGED row)
  BY <1>2, <1>5 DEF Deliver, PostFails, requestVars
<1> QED BY <1>3, <1>4, <1>5 DEF PostStep, PostFails

LEMMA NextDeclared == Declared /\ DeliveryInv /\ [Next]_vars => Declared'
<1> SUFFICES ASSUME Declared, DeliveryInv, [Next]_vars PROVE Declared'
  OBVIOUS
<1>1. CASE Boot \/ Started \/ StopServices \/ EndPool \/ UNCHANGED vars
  BY <1>1 DEF Boot, Started, StopServices, EndPool, vars, serverVars, requestVars, refreshVars, storeVars, deliveryVars,
     Declared, Phases
<1>2. CASE StartFails \/ Shutdown
  <2>1. /\ phase' \in {"failing", "closing"} /\ Stop
        /\ UNCHANGED <<poolOpen, stopped, polling, refreshing, reconciled, row, acts>>
    BY <1>2 DEF StartFails, Shutdown, CoordinatorStops, refreshVars, storeVars
  <2> QED BY <2>1 DEF Stop, Declared, Phases
<1>3. CASE StartProjects \/ Poll
  BY <1>3 DEF StartProjects, Poll, serverVars, requestVars, storeVars, deliveryVars, Declared, Phases
<1>4. CASE Exit
  BY <1>4 DEF Exit, End, storeVars, Declared, Phases
<1>5. CASE Cleanup
  <2>1. PICK old \in SUBSET Deliveries :
          /\ row' = [d \in Deliveries |-> IF d \in old THEN None ELSE row[d]]
          /\ acts' = [d \in Deliveries |-> IF d \in old THEN 0 ELSE acts[d]]
    BY <1>5 DEF Cleanup
  <2>2. row' \in [Deliveries -> Outcomes] /\ acts' \in [Deliveries -> Nat]
    BY <2>1 DEF Declared, Outcomes
  <2>3. \A d \in Deliveries : row'[d] = "accepted" => row[d] = "accepted"
    BY <2>1, ConfigurationAssumption
  <2>4. UNCHANGED <<serverVars, requestVars, refreshVars, storeVars>>
    BY <1>5 DEF Cleanup
  <2> QED BY <2>2, <2>3, <2>4 DEF Declared, serverVars, requestVars, refreshVars, storeVars
<1>6. ASSUME NEW r \in Repos, RefreshRepository(r) \/ Return(r) \/ Change(r)
      PROVE  Declared'
  <2>1. UNCHANGED <<serverVars, refreshing, reconciled, row, acts>>
    BY <1>6, FullIsNoRepo DEF RefreshRepository, Return, Change, Finish, refreshVars, storeVars, deliveryVars
  <2>2. requested' \subseteq Repos /\ running' \subseteq Repos /\ closed' = closed
    BY <1>6, FullIsNoRepo DEF RefreshRepository, Begin, Return, Finish, Settle, Change, requestVars, Declared
  <2> QED BY <2>1, <2>2 DEF Declared, serverVars
<1>7. ASSUME NEW w \in Workers, RefreshStep(w) \/ RefreshQueryFails(w)
      PROVE  Declared'
  BY <1>7, RefreshDeclared
<1>8. ASSUME NEW h \in Posts, (\E d \in Deliveries : Deliver(h, d)) \/ PostStep(h) \/ PostFails(h)
      PROVE  Declared'
  BY <1>8, PostDeclared
<1> QED BY <1>1, <1>2, <1>3, <1>4, <1>5, <1>6, <1>7, <1>8 DEF Next

-----------------------------------------------------------------------------
(* All together. *)

IInv == DeliveryInv /\ LocksInv /\ BuildInv /\ Declared

LEMMA IInvHolds == Spec => []IInv
<1>1. Init => IInv
  <2>1. Init => Declared
    <3> SUFFICES ASSUME Init PROVE Declared
      OBVIOUS
    <3>1. row \in [Deliveries -> Outcomes] /\ acts \in [Deliveries -> Nat]
      BY DEF Init, Outcomes
    <3>2. \A d \in Deliveries : row[d] # "accepted"
      BY ConfigurationAssumption DEF Init
    <3> QED BY <3>1, <3>2 DEF Init, RequestsInit, Declared, Phases
  <2> QED BY <2>1, InitDeliveries, InitLocks, InitBuild DEF IInv
<1>2. IInv /\ [Next]_vars => IInv'
  BY DeliveriesInductive, NextLocks, NextBuild, NextDeclared DEF IInv
<1> QED BY <1>1, <1>2, PTL DEF Spec

\* The rows, the locks and the locals of refreshes stay what the code declares them to be,
\* whatever fails in between: no refresh comes to a save without results for every
\* repository of the project it holds, and no lock is left to nobody.
THEOREM ServiceInvHolds == Spec => []ServiceInv
<1>1. IInv => ServiceInv
  <2> SUFFICES ASSUME IInv PROVE ServiceInv
    OBVIOUS
  <2>1. LocksAreLive /\ \A p \in Projects : lock[p] \in Seq(Workers)
    BY DEF IInv, LocksInv, LockInv, Queues
  <2>2. \A p \in Projects : snapshot[p] \in Snapshots(p)
    BY DEF IInv, BuildInv, StoreInv
  <2>3. ASSUME NEW w \in Workers
        PROVE  /\ work[w].pc \in {"idle", "return", "list", "lock", "collect", "save"}
               /\ work[w].pc \in {"collect", "save"} => work[w].draft \in Snapshots(Current(w)) \ {None}
    <3>1. Fits(w, work[w], github)
      BY DEF IInv, BuildInv, WorkInv
    <3>2. ASSUME work[w].pc \in {"collect", "save"}
          PROVE  work[w].draft \in Snapshots(Current(w)) \ {None}
      <4>1. work[w].pc \in Queued /\ work[w].pc \in Owning
        BY <3>2 DEF Queued, Owning
      <4>2. Current(w) \in Projects /\ work[w].draft \in [OwnRepos(Current(w)) -> 0 .. MaxVersion]
        BY <3>1, <4>1, TurnFits DEF Current, Fits, Sound, Versions
      <4>3. None \notin [OwnRepos(Current(w)) -> 0 .. MaxVersion]
        BY <4>2, ConfigurationAssumption DEF OwnRepos
      <4> QED BY <4>2, <4>3 DEF Snapshots
    <3> QED BY <3>1, <3>2 DEF Fits, Queued
  <2>4. acts \in [Deliveries -> 0 .. 2]
    <3>1. \A d \in Deliveries : acts[d] <= 1
      BY DEF IInv, DeliveryInv, RowsDecide
    <3> QED BY <3>1 DEF IInv, Declared
  <2>5. lost \subseteq due /\ due \subseteq Deliveries
    BY DEF IInv, DeliveryInv, NothingDropped
  <2>6. TypeOK
    BY <2>1, <2>2, <2>3, <2>4, <2>5 DEF TypeOK, IInv, Declared, Phases, Outcomes, BuildInv, StoreInv, GitHubStates
  <2> QED BY <2>1, <2>6 DEF ServiceInv
<1> QED BY <1>1, IInvHolds, PTL

\* What a project shows of a repository goes back to an older state only when a targeted
\* refresh saves, for a later project with the same labels, what it collected for an earlier one.
THEOREM OnlySharingGoesBackAlways == Spec => OnlySharingGoesBack
<1>1. IInv /\ [Next]_vars
        => [\A p \in Projects : \A r \in OwnRepos(p) :
              LET before == Previous(snapshot[p], p)[r]
                  after == Previous(snapshot'[p], p)[r]
              IN  after < before
                    => work[r].pc = "save" /\ Current(r) = p /\ SharesCollection(r, p)]_vars
  BY GoingBack DEF IInv, LocksInv
<1> QED BY <1>1, IInvHolds, PTL DEF Spec, OnlySharingGoesBack
=============================================================================
