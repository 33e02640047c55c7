----------------------- MODULE CapacityResources_proofs -----------------------
(***************************************************************************)
(* What a collection made by HTTP tells, for all answers of the providers, *)
(* all pricing configurations and any length of the day: AnswersAreKept    *)
(* and PricesHold of CapacityRefresh.                                      *)
(***************************************************************************)
EXTENDS CapacityRefresh_proofs, FiniteSetTheorems, WellFoundedInduction

-----------------------------------------------------------------------------
(* Days and the time of day. *)

LEMMA LeastNatural ==
    ASSUME NEW S, S \subseteq Nat, S # {}
    PROVE  \E m \in S : \A n \in S : m <= n
<1> DEFINE R == OpToRel(<, Nat)
<1>1. IsWellFoundedOn(R, Nat)
  BY NatLessThanWellFounded
<1>2. \A x, y \in Nat : y < x => <<y, x>> \in R
  BY DEF OpToRel
<1> HIDE DEF R
<1>3. PICK m \in S : \A n \in S : <<n, m>> \notin R
  BY <1>1, WFMin
<1>4. m \in Nat /\ \A n \in S : n \in Nat /\ ~(n < m)
  BY <1>2, <1>3, Zenon
<1> QED BY <1>4

LEMMA Divided ==
    ASSUME NEW d \in Nat \ {0}, NEW t \in Nat
    PROVE  t = (t \div d) * d + (t % d) /\ t % d \in 0 .. d - 1 /\ t \div d \in Nat
OBVIOUS

LEMMA Composed ==
    ASSUME NEW d \in Nat \ {0}, NEW n \in Nat, NEW r \in 0 .. d - 1, NEW t \in Nat, t = n * d + r
    PROVE  t % d = r /\ t \div d = n
OBVIOUS

LEMMA Monotone ==
    ASSUME NEW d \in Nat \ {0}, NEW a \in Nat, NEW b \in Nat, a <= b
    PROVE  a \div d <= b \div d
OBVIOUS

LEMMA SomeDay ==
    ASSUME NEW n \in Nat, NEW k \in 0 .. 6
    PROVE  \E j \in 1 .. 7 : (n + j) % 7 = k
OBVIOUS

\* The price at time r of day n.
LEMMA PeakOfDay ==
    ASSUME NEW tariff \in Tariffs, NEW n \in Nat, NEW r \in 0 .. Day - 1, NEW t \in Nat, t = n * Day + r
    PROVE  IsPeakAt(t, tariff) <=> \E w \in tariff : n % 7 \in w.weekdays /\ r >= w.start /\ r < w.end
<1>1. t % Day = r /\ t \div Day = n
  BY Composed, TariffAssumption
<1> QED BY <1>1 DEF IsPeakAt, Weekday

\* Where the price changes a window starts or ends.
LEMMA ChangeIsCandidate ==
    ASSUME NEW tariff \in Tariffs, NEW now \in Nat, NEW t \in Nat, now < t,
           t \div Day <= now \div Day + 8,
           ~(IsPeakAt(t - 1, tariff) <=> IsPeakAt(t, tariff))
    PROVE  t \in TransitionCandidates(now, tariff)
<1> DEFINE n == t \div Day
           r == t % Day
           m == now \div Day
<1>1. Day \in Nat \ {0} /\ \A w \in tariff : w.start \in 0 .. Day - 1 /\ w.end \in 0 .. Day - 1
  BY TariffAssumption
<1>2. t = n * Day + r /\ r \in 0 .. Day - 1 /\ n \in Nat
  BY <1>1, Divided
<1>3. now = m * Day + (now % Day) /\ now % Day \in 0 .. Day - 1 /\ m \in Nat
  BY <1>1, Divided
<1>4. n <= m + 8
  OBVIOUS
<1>5. m <= n
  BY <1>1, Monotone
<1> HIDE DEF n, r, m
<1>6. PICK w \in tariff : n % 7 \in w.weekdays /\ (r = w.start \/ r = w.end)
  <2>1. IsPeakAt(t, tariff) <=> \E w \in tariff : n % 7 \in w.weekdays /\ r >= w.start /\ r < w.end
    BY <1>2, PeakOfDay
  <2>2. CASE r > 0
    <3>1. t - 1 \in Nat /\ t - 1 = n * Day + (r - 1) /\ r - 1 \in 0 .. Day - 1
      BY <1>1, <1>2, <2>2
    <3>2. IsPeakAt(t - 1, tariff) <=> \E w \in tariff : n % 7 \in w.weekdays /\ r - 1 >= w.start /\ r - 1 < w.end
      BY <1>2, <3>1, PeakOfDay
    <3> QED BY <1>1, <1>2, <2>1, <3>2
  <2>3. CASE r = 0
    <3>1. n >= 1
      BY <1>1, <1>2, <2>3
    <3>2. (n - 1) * Day = n * Day - Day
      BY <1>1, <1>2
    <3>3. t - 1 \in Nat /\ n - 1 \in Nat /\ t - 1 = (n - 1) * Day + (Day - 1) /\ Day - 1 \in 0 .. Day - 1
      BY <1>1, <1>2, <2>3, <3>1, <3>2
    <3>4. IsPeakAt(t - 1, tariff) <=>
            \E w \in tariff : (n - 1) % 7 \in w.weekdays /\ Day - 1 >= w.start /\ Day - 1 < w.end
      BY <3>3, PeakOfDay
    <3>5. IsPeakAt(t, tariff)
      BY <1>1, <3>4
    <3> QED BY <1>1, <2>1, <2>3, <3>5
  <2> QED BY <1>2, <2>2, <2>3
<1> DEFINE offset == n - m
<1>7. offset \in 0 .. 8
  BY <1>2, <1>3, <1>4, <1>5
<1>8. StartOfDay(now) + offset * Day = n * Day
  <2>1. StartOfDay(now) = m * Day
    BY <1>1, <1>3 DEF StartOfDay
  <2>2. (n - m) * Day = n * Day - m * Day
    BY <1>1, <1>2, <1>3
  <2> QED BY <1>1, <1>2, <1>3, <2>1, <2>2
<1>9. Weekday(n * Day) = n % 7
  <2>1. n * Day \in Nat /\ n * Day = n * Day + 0 /\ 0 \in 0 .. Day - 1
    BY <1>1, <1>2
  <2>2. (n * Day) \div Day = n
    BY <1>1, <1>2, <2>1, Composed
  <2> QED BY <2>2 DEF Weekday
<1>10. t \in {n * Day + w.start, n * Day + w.end}
  BY <1>2, <1>6
<1> HIDE DEF offset
<1> QED BY <1>6, <1>7, <1>8, <1>9, <1>10 DEF TransitionCandidates

LEMMA CandidatesFollow ==
    ASSUME NEW tariff \in Tariffs, NEW now \in Nat, NEW x \in TransitionCandidates(now, tariff)
    PROVE  x \in Int /\ x > now
<1>1. x > now /\ \E offset \in 0 .. 8 : \E w \in tariff :
        LET day == StartOfDay(now) + offset * Day IN x \in {day + w.start, day + w.end}
  BY DEF TransitionCandidates
<1>2. PICK offset \in 0 .. 8, w \in tariff :
        LET day == StartOfDay(now) + offset * Day IN x \in {day + w.start, day + w.end}
  BY <1>1
<1>3. Day \in Nat \ {0} /\ w.start \in Int /\ w.end \in Int
  BY TariffAssumption
<1>4. now % Day \in Int
  BY <1>3
<1>5. StartOfDay(now) + offset * Day \in Int
  <2>1. offset * Day \in Int
    BY <1>3
  <2> QED BY <1>4, <2>1 DEF StartOfDay
<1> QED BY <1>1, <1>2, <1>3, <1>5

\* Within eight days the price changes, and it does so first where NextTransition says.
LEMMA FirstChange ==
    ASSUME NEW tariff \in Tariffs, Compiles(tariff), NEW now \in Nat
    PROVE  /\ NextTransition(now, tariff) \in Nat /\ NextTransition(now, tariff) > now
           /\ ~(IsPeakAt(NextTransition(now, tariff), tariff) <=> IsPeakAt(now, tariff))
           /\ \A t \in now .. NextTransition(now, tariff) - 1 : IsPeakAt(t, tariff) <=> IsPeakAt(now, tariff)
<1> DEFINE m == now \div Day
           Peak(t) == IsPeakAt(t, tariff)
           Other == {t \in Nat : now < t /\ ~(Peak(t) <=> Peak(now))}
<1>1. Day \in Nat \ {0} /\ \A w \in tariff :
        w.start \in 0 .. Day - 1 /\ w.end \in 0 .. Day - 1 /\ w.weekdays \subseteq 0 .. 6
  BY TariffAssumption
<1>2. now = m * Day + (now % Day) /\ now % Day \in 0 .. Day - 1 /\ m \in Nat
  BY <1>1, Divided
<1> HIDE DEF m
<1>3. PICK w \in tariff : w.weekdays # {} /\ w.start < w.end
  BY DEF Compiles
<1>4. PICK k \in 0 .. 6 : k \in w.weekdays
  BY <1>1, <1>3
<1>5. PICK j \in 1 .. 7 : (m + j) % 7 = k
  BY <1>2, SomeDay
<1>6. PICK n : n = m + j
  OBVIOUS
<1>7. n \in Nat /\ n % 7 = k /\ m + 1 <= n /\ n <= m + 7
  BY <1>2, <1>5, <1>6
\* On day n there is a peak, and its last minute is none.
<1>8. PICK s : s = n * Day + w.start
  OBVIOUS
<1>9. PICK e : e = n * Day + (Day - 1)
  OBVIOUS
<1>10. s \in Nat /\ e \in Nat /\ now < s /\ now < e /\ w.start \in 0 .. Day - 1 /\ Day - 1 \in 0 .. Day - 1
  <2>1. (m + 1) * Day <= n * Day
    BY <1>1, <1>2, <1>7
  <2>2. (m + 1) * Day = m * Day + Day
    BY <1>1, <1>2
  <2>3. n * Day \in Nat /\ m * Day \in Nat
    BY <1>1, <1>2, <1>7
  <2> QED BY <1>1, <1>2, <1>8, <1>9, <2>1, <2>2, <2>3
<1>11. Peak(s)
  <2>1. IsPeakAt(s, tariff) <=> \E v \in tariff : n % 7 \in v.weekdays /\ w.start >= v.start /\ w.start < v.end
    BY <1>7, <1>8, <1>10, PeakOfDay
  <2> QED BY <1>1, <1>3, <1>4, <1>7, <2>1
<1>12. ~Peak(e)
  <2>1. IsPeakAt(e, tariff) <=> \E v \in tariff : n % 7 \in v.weekdays /\ Day - 1 >= v.start /\ Day - 1 < v.end
    BY <1>7, <1>9, <1>10, PeakOfDay
  <2> QED BY <1>1, <2>1
<1> HIDE DEF Peak
<1>13. PICK c \in Other : \A x \in Other : c <= x
  <2>1. s \in Other \/ e \in Other
    BY <1>10, <1>11, <1>12
  <2> HIDE DEF Other
  <2>2. Other # {}
    BY <2>1
  <2>3. Other \subseteq Nat
    BY DEF Other
  <2> QED BY <2>2, <2>3, LeastNatural
<1>14. c \in Nat /\ now < c /\ ~(Peak(c) <=> Peak(now)) /\ c <= n * Day + (Day - 1)
  <2>1. c <= s \/ c <= e
    BY <1>10, <1>11, <1>12, <1>13
  <2>2. c \in Nat /\ now < c /\ ~(Peak(c) <=> Peak(now))
    BY <1>13
  <2> QED BY <1>1, <1>7, <1>8, <1>9, <1>10, <2>1, <2>2
<1>15. \A t \in now .. c - 1 : Peak(t) <=> Peak(now)
  <2> SUFFICES ASSUME NEW t \in now .. c - 1, t # now PROVE Peak(t) <=> Peak(now)
    OBVIOUS
  <2>1. t \in Nat /\ now < t /\ ~(c <= t)
    BY <1>14
  <2>2. t \notin Other
    BY <1>13, <2>1
  <2> QED BY <2>1, <2>2
<1> HIDE DEF Other
<1> DEFINE Changes == {x \in TransitionCandidates(now, tariff) : IsPeakAt(x - 1, tariff) # IsPeakAt(x, tariff)}
<1>16. c \in Changes
  <2>1. ~(Peak(c - 1) <=> Peak(c))
    <3>1. c - 1 \in now .. c - 1
      BY <1>14
    <3> QED BY <1>14, <1>15, <3>1
  <2>2. c \div Day <= m + 8
    <3>1. c \div Day <= e \div Day
      BY <1>1, <1>9, <1>10, <1>14, Monotone
    <3>2. e \div Day = n
      BY <1>1, <1>7, <1>9, <1>10, Composed
    <3> QED BY <1>1, <1>2, <1>7, <1>14, <3>1, <3>2
  <2>3. c \in TransitionCandidates(now, tariff)
    BY <1>14, <2>1, <2>2, ChangeIsCandidate DEF Peak, m
  <2>4. IsPeakAt(c - 1, tariff) # IsPeakAt(c, tariff)
    BY <2>1 DEF Peak
  <2> QED BY <2>3, <2>4
<1>17. \A x \in Changes : c <= x
  <2> SUFFICES ASSUME NEW x \in Changes, ~(c <= x) PROVE FALSE
    OBVIOUS
  <2>1. x > now /\ x \in Int
    BY CandidatesFollow
  <2>2. x \in now .. c - 1 /\ x - 1 \in now .. c - 1
    BY <1>14, <2>1
  <2>3. Peak(x) <=> Peak(x - 1)
    BY <1>15, <2>2
  <2>4. IsPeakAt(x - 1, tariff) # IsPeakAt(x, tariff)
    OBVIOUS
  <2>5. ~(Peak(x - 1) <=> Peak(x))
    BY <2>4 DEF Peak, IsPeakAt
  <2> QED BY <2>3, <2>5
<1>18. NextTransition(now, tariff) = c
  <2>1. NextTransition(now, tariff) = Least(Changes)
    BY DEF NextTransition
  <2>2. \A x \in Changes : (\A y \in Changes : x <= y) => x = c
    <3> SUFFICES ASSUME NEW x \in Changes, \A y \in Changes : x <= y PROVE x = c
      OBVIOUS
    <3>1. x <= c /\ c <= x /\ c \in Int
      BY <1>14, <1>16, <1>17
    <3>2. x \in Int
      BY CandidatesFollow
    <3> QED BY <3>1, <3>2
  <2> HIDE DEF Changes
  <2> QED BY <1>16, <1>17, <2>1, <2>2 DEF Least
<1> QED BY <1>14, <1>15, <1>18 DEF Peak

\* The price as the documentation has it is the one that is computed.
LEMMA PeakAgrees ==
    ASSUME NEW tariff \in Tariffs, NEW t \in Nat
    PROVE  PeakAt(t, tariff) <=> IsPeakAt(t, tariff)
<1>1. t % Day \in Nat /\ \A w \in tariff : w.start \in Nat /\ w.end \in Nat
  BY TariffAssumption
<1>2. \A w \in tariff : t % Day \in w.start .. w.end - 1 <=> t % Day >= w.start /\ t % Day < w.end
  BY <1>1
<1> QED BY <1>2 DEF PeakAt, IsPeakAt

-----------------------------------------------------------------------------
(* One read. *)

\* The contract accepts the resource, but for an overspent account's, and without an answer it
\* says nothing.
Kept(x) ==
    /\ Valid(x.resource) <=> ~Overspent(x)
    /\ x.data = None => x.resource.status = "unknown" /\ x.resource.freshness = "unknown"

\* A price that is known holds as long as it is said to.
PriceHolds(x) ==
    x.resource.of = "pricing" /\ x.resource.freshness = "fresh" =>
        LET now == x.data.at
            c == x.resource.changesAt
            peak(t) == PeakAt(t, x.data.tariff)
        IN  /\ c > now /\ (peak(c) <=> ~peak(now))
            /\ \A t \in now .. c - 1 : peak(t) <=> peak(now)
            /\ peak(now) <=> x.resource.state = "PEAK"
            /\ peak(c) <=> x.resource.next = "PEAK"

\* x is a good read of the thing asked.
Good(x, of) == Kept(x) /\ PriceHolds(x) /\ x.resource.of = of

LEMMA ToleranceIsPositive ==
    ASSUME NEW limit \in Nat
    PROVE  Tolerance(limit) \in Nat /\ Tolerance(limit) >= 1
<1>1. Dollar \in Nat \ {0}
  BY AnswerAssumption
<1>2. CASE limit < Dollar
  BY <1>2 DEF Tolerance
<1>3. CASE ~(limit < Dollar)
  <2>1. limit \div Dollar \in Nat /\ limit \div Dollar >= Dollar \div Dollar
    BY <1>1, <1>3, Monotone
  <2>2. Dollar \div Dollar = 1
    BY <1>1
  <2> QED BY <1>3, <2>1, <2>2 DEF Tolerance
<1> QED BY <1>2, <1>3

\* Numbers that fit together, of what is no overspent account.
LEMMA GoodNumbers ==
    ASSUME NEW of, of # "pricing", NEW numbers, NEW status, NEW d, d # None,
           ~Overspent(Read(d, Resource(of, numbers, status))),
           LET given == {x \in {numbers.limit, numbers.used, numbers.remaining} : x # None}
           IN  /\ \A x \in given : x >= 0 /\ (numbers.limit # None => x <= numbers.limit)
               /\ None \notin {numbers.limit, numbers.used, numbers.remaining} =>
                    /\ numbers.limit \in Nat /\ numbers.used \in Nat /\ numbers.remaining \in Nat
                    /\ numbers.used + numbers.remaining = numbers.limit
    PROVE  Good(Read(d, Resource(of, numbers, status)), of)
<1> DEFINE x == Read(d, Resource(of, numbers, status))
<1>1. x.data = d /\ x.resource.of = of /\ x.resource.numbers = numbers /\ ~Overspent(x)
  BY DEF Read, Resource
<1> HIDE DEF x
<1>2. None \notin {numbers.limit, numbers.used, numbers.remaining} =>
        numbers.used + numbers.remaining - numbers.limit \in -Tolerance(numbers.limit) .. Tolerance(numbers.limit)
  BY ToleranceIsPositive
<1>3. Valid(x.resource)
  BY <1>1, <1>2 DEF Valid
<1>4. Good(x, of)
  BY <1>1, <1>3 DEF Good, Kept, PriceHolds
<1> QED BY <1>4 DEF x

LEMMA GoodUnknown ==
    ASSUME NEW of, of # "pricing", NEW d, ~Overspent(Read(d, UnknownResource(of)))
    PROVE  Good(Read(d, UnknownResource(of)), of)
<1> DEFINE x == Read(d, UnknownResource(of))
<1>1. /\ x.data = d /\ x.resource.of = of /\ x.resource.numbers = Numbers(None, None, None)
      /\ x.resource.status = "unknown" /\ x.resource.freshness = "unknown" /\ ~Overspent(x)
  BY DEF Read, UnknownResource, Resource
<1> HIDE DEF x
<1>2. Valid(x.resource)
  BY <1>1 DEF Valid, Numbers
<1>3. Good(x, of)
  BY <1>1, <1>2 DEF Good, Kept, PriceHolds
<1> QED BY <1>3 DEF x

\* Only credits can be overspent, and only when they were answered.
LEMMA OnlyCredits ==
    ASSUME NEW d, NEW of, of # "credits" \/ d = None
    PROVE  /\ \A numbers, status : ~Overspent(Read(d, Resource(of, numbers, status)))
           /\ ~Overspent(Read(d, UnknownResource(of)))
BY DEF Overspent, Read, Resource, UnknownResource

LEMMA GoodSilence ==
    ASSUME NEW of, of \notin {"pricing", "credits"}, NEW d, d # None, NEW status
    PROVE  Good(Read(d, Resource(of, Numbers(None, None, None), status)), of)
<1>1. ~Overspent(Read(d, Resource(of, Numbers(None, None, None), status)))
  BY OnlyCredits
<1> DEFINE n == Numbers(None, None, None)
<1>2. n.limit = None /\ n.used = None /\ n.remaining = None
  BY DEF Numbers
<1> HIDE DEF n
<1> QED BY <1>1, <1>2, GoodNumbers DEF n

LEMMA GoodBudget ==
    ASSUME NEW of, of # "pricing", NEW d, d # None, NEW limit \in Nat, NEW remaining \in 0 .. limit,
           ~Overspent(Read(d, Budget(of, limit, limit - remaining, remaining)))
    PROVE  Good(Read(d, Budget(of, limit, limit - remaining, remaining)), of)
<1> DEFINE n == Numbers(limit, limit - remaining, remaining)
<1>1. n.limit = limit /\ n.used = limit - remaining /\ n.remaining = remaining
  BY DEF Numbers
<1> HIDE DEF n
<1>2. \A x \in {n.limit, n.used, n.remaining} : x >= 0 /\ x <= n.limit
  BY <1>1
<1>3. n.used + n.remaining = n.limit /\ n.limit \in Nat /\ n.used \in Nat /\ n.remaining \in Nat
  BY <1>1
<1>4. \A status : ~Overspent(Read(d, Resource(of, n, status))) => Good(Read(d, Resource(of, n, status)), of)
  BY <1>2, <1>3, GoodNumbers
<1> QED BY <1>4 DEF Budget, n

LEMMA NormalizedRemains ==
    ASSUME NEW remaining \in Int
    PROVE  Normalized(remaining) \in Nat
BY DEF Normalized

LEMMA KeyIsRead ==
    ASSUME NEW answer, NEW x \in KeyReads(answer)
    PROVE  Good(x, "key")
<1>1. CASE answer # "good"
  <2>1. x = Read(None, UnknownResource("key"))
    BY <1>1 DEF KeyReads, Unread
  <2> QED BY <2>1, GoodUnknown, OnlyCredits
<1>2. CASE answer = "good"
  <2>1. PICK d \in KeyAnswers : x = Read(d, KeyBudget(d))
    BY <1>2 DEF KeyReads
  <2>2. /\ d # None /\ d.usage \in Nat
        /\ d.limit # None => d.limit \in Nat
        /\ d.limit_remaining # None => d.limit_remaining \in Nat
    BY AnswerAssumption
  <2>3. CASE d.limit = None
    BY <2>1, <2>2, <2>3, GoodSilence DEF KeyBudget
  <2>4. CASE d.limit # None
    <3> DEFINE reported == IF d.limit_remaining = None THEN d.limit - d.usage ELSE d.limit_remaining
               remaining == Normalized(reported)
    <3>1. reported \in Int
      BY <2>2, <2>4
    <3>2. \/ KeyBudget(d) = UnknownResource("key")
          \/ remaining <= d.limit /\ KeyBudget(d) = Budget("key", d.limit, d.limit - remaining, remaining)
      <4>1. remaining \in Nat
        BY <3>1, NormalizedRemains
      <4> QED BY <2>2, <2>4, <4>1 DEF KeyBudget
    <3>3. remaining \in Nat
      BY <3>1, NormalizedRemains
    <3> HIDE DEF reported, remaining
    <3>4. CASE KeyBudget(d) = UnknownResource("key")
      BY <2>1, <3>4, GoodUnknown, OnlyCredits
    <3>5. CASE remaining <= d.limit /\ KeyBudget(d) = Budget("key", d.limit, d.limit - remaining, remaining)
      <4>1. remaining \in 0 .. d.limit
        BY <2>2, <2>4, <3>3, <3>5
      <4>2. ~Overspent(Read(d, Budget("key", d.limit, d.limit - remaining, remaining)))
        BY OnlyCredits DEF Budget
      <4> QED BY <2>1, <2>2, <2>4, <3>5, <4>1, <4>2, GoodBudget
    <3> QED BY <3>2, <3>4, <3>5
  <2> QED BY <2>3, <2>4
<1> QED BY <1>1, <1>2

LEMMA CreditIsRead ==
    ASSUME NEW answer, NEW x \in CreditReads(answer)
    PROVE  Good(x, "credits")
<1>1. CASE answer # "good"
  <2>1. x = Read(None, UnknownResource("credits"))
    BY <1>1 DEF CreditReads, Unread
  <2> QED BY <2>1, GoodUnknown, OnlyCredits
<1>2. CASE answer = "good"
  <2>1. PICK d \in CreditAnswers : x = Read(d, AccountCredits(d))
    BY <1>2 DEF CreditReads
  <2>2. PICK limit \in Nat \ {None}, used \in Nat \ {None} : limit = d.total_credits /\ used = d.total_usage
    BY AnswerAssumption
  <2>3. d # None /\ x.data = d
    BY <2>1, AnswerAssumption DEF Read
  <2>4. PICK tolerance \in Nat : tolerance = Tolerance(limit)
    BY ToleranceIsPositive
  <2>5. Overspent(x) <=> x.resource.of = "credits" /\ used - limit \in 1 .. tolerance
    BY <2>2, <2>3, <2>4 DEF Overspent
  <2>6. CASE limit - used < 0 /\ -(limit - used) > tolerance
    <3>1. AccountCredits(d) = UnknownResource("credits")
      BY <2>2, <2>4, <2>6 DEF AccountCredits, Impossible
    <3>2. ~Overspent(x)
      BY <2>5, <2>6
    <3> QED BY <2>1, <3>1, <3>2, GoodUnknown
  <2>7. CASE limit - used >= 0
    <3> DEFINE remaining == limit - used
    <3>1. AccountCredits(d) = Budget("credits", limit, used, remaining)
      BY <2>2, <2>7 DEF AccountCredits, Impossible, Normalized
    <3>2. remaining \in 0 .. limit /\ used = limit - remaining
      BY <2>7
    <3> HIDE DEF remaining
    <3>3. ~Overspent(x)
      BY <2>5, <2>7
    <3> QED BY <2>1, <2>3, <3>1, <3>2, <3>3, GoodBudget
  <2>8. CASE limit - used < 0 /\ ~(-(limit - used) > tolerance)
    <3>1. AccountCredits(d) = Budget("credits", limit, used, 0)
      BY <2>2, <2>4, <2>8 DEF AccountCredits, Impossible, Normalized
    <3> DEFINE n == Numbers(limit, used, 0)
    <3>2. PICK status : x = Read(d, Resource("credits", n, status))
      BY <2>1, <3>1 DEF Budget
    <3>3. x.resource.of = "credits" /\ x.resource.numbers = n
      BY <3>2 DEF Read, Resource
    <3>4. n.limit = limit /\ n.used = used
      BY DEF Numbers
    <3> HIDE DEF n
    <3>5. Overspent(x)
      BY <2>5, <2>8, <3>3
    <3>6. ~Valid(x.resource)
      <4>1. ~(used <= limit)
        BY <2>8
      <4>2. limit # None /\ used # None
        OBVIOUS
      <4> QED BY <3>3, <3>4, <4>1, <4>2 DEF Valid
    <3> QED BY <2>3, <3>3, <3>5, <3>6 DEF Good, Kept, PriceHolds
  <2> QED BY <2>6, <2>7, <2>8
<1> QED BY <1>1, <1>2

LEMMA BalanceIsRead ==
    ASSUME NEW answer, NEW x \in BalanceReads(answer)
    PROVE  Good(x, "balance")
<1>1. CASE answer # "good"
  <2>1. x = Read(None, UnknownResource("balance"))
    BY <1>1 DEF BalanceReads, Unread
  <2> QED BY <2>1, GoodUnknown, OnlyCredits
<1>2. CASE answer = "good"
  <2>1. PICK d \in BalanceAnswers : x = Read(d, Wallet(d))
    BY <1>2 DEF BalanceReads
  <2>2. d # None /\ \A b \in d.usd : b.total \in Nat
    BY AnswerAssumption
  <2> DEFINE totals == {b.total : b \in d.usd}
             total == CHOOSE t \in totals : TRUE
             worth == Resource("balance", Numbers(None, None, total),
                               IF total = 0 THEN "exhausted" ELSE IF d.is_available THEN "available" ELSE "unknown")
  <2>3. CASE d.usd = {}
    <3>1. Cardinality(d.usd) = 0
      BY <2>3, FS_EmptySet
    <3>2. Wallet(d) = Resource("balance", Numbers(None, None, None), "unknown")
      BY <2>3, <3>1 DEF Wallet
    <3> QED BY <2>1, <2>2, <3>2, GoodSilence
  <2>4. CASE d.usd # {}
    <3>1. totals # {} /\ totals \subseteq Nat
      BY <2>2, <2>4
    <3>2. total \in Nat
      <4> HIDE DEF totals
      <4> QED BY <3>1
    <3>3. Wallet(d) = UnknownResource("balance") \/ Wallet(d) = worth
      BY <2>4 DEF Wallet
    <3>4. CASE Wallet(d) = worth
      <4> DEFINE n == Numbers(None, None, total)
      <4> HIDE DEF total
      <4>1. n.limit = None /\ n.used = None /\ n.remaining = total
        BY DEF Numbers
      <4> HIDE DEF n
      <4>2. \A status : Good(Read(d, Resource("balance", n, status)), "balance")
        <5>1. \A status : ~Overspent(Read(d, Resource("balance", n, status)))
          BY OnlyCredits
        <5> QED BY <2>2, <3>2, <4>1, <5>1, GoodNumbers
      <4> QED BY <2>1, <3>4, <4>2 DEF n
    <3> QED BY <2>1, <3>3, <3>4, GoodUnknown, OnlyCredits
  <2> QED BY <2>3, <2>4
<1> QED BY <1>1, <1>2

LEMMA PricingIsRead ==
    ASSUME NEW x \in PricingReads
    PROVE  Good(x, "pricing")
<1>1. PICK now \in 0 .. 7 * Day - 1, tariff \in Tariffs :
        x = Read([at |-> now, tariff |-> tariff], Pricing(now, tariff))
  BY DEF PricingReads
<1>2. now \in Nat
  BY TariffAssumption
<1>3. x.data # None /\ x.data.at = now /\ x.data.tariff = tariff /\ x.resource = Pricing(now, tariff)
  <2>1. x.data = [at |-> now, tariff |-> tariff] /\ x.resource = Pricing(now, tariff)
    BY <1>1 DEF Read
  <2> QED BY <2>1, AnswerAssumption
<1>4. x.resource.of = "pricing"
  BY <1>3 DEF Pricing
<1>5. Kept(x)
  BY <1>3, <1>4 DEF Kept, Valid, Overspent
<1>6. CASE ~Compiles(tariff)
  <2>1. x.resource.freshness = "unknown"
    BY <1>3, <1>6 DEF Pricing
  <2> QED BY <1>4, <1>5, <2>1 DEF Good, PriceHolds
<1>7. CASE Compiles(tariff)
  <2> DEFINE c == NextTransition(now, tariff)
  <2>1. /\ x.resource.changesAt = c
        /\ x.resource.state = Price(now, tariff) /\ x.resource.next = Price(c, tariff)
    BY <1>3, <1>7 DEF Pricing
  <2>2. /\ c \in Nat /\ c > now /\ ~(IsPeakAt(c, tariff) <=> IsPeakAt(now, tariff))
        /\ \A t \in now .. c - 1 : IsPeakAt(t, tariff) <=> IsPeakAt(now, tariff)
    BY <1>2, <1>7, FirstChange
  <2> HIDE DEF c
  <2>3. \A t \in now .. c : PeakAt(t, tariff) <=> IsPeakAt(t, tariff)
    BY <1>2, <2>2, PeakAgrees
  <2>4. now \in now .. c /\ c \in now .. c /\ now .. c - 1 \subseteq now .. c
    BY <1>2, <2>2
  <2>5. \A t \in {now, c} : PeakAt(t, tariff) <=> Price(t, tariff) = "PEAK"
    BY <2>3, <2>4 DEF Price
  <2>6. PeakAt(c, tariff) <=> ~PeakAt(now, tariff)
    BY <2>2, <2>3, <2>4
  <2>7. \A t \in now .. c - 1 : PeakAt(t, tariff) <=> PeakAt(now, tariff)
    BY <2>2, <2>3, <2>4
  <2>8. PriceHolds(x)
    BY <1>3, <2>1, <2>2, <2>5, <2>6, <2>7 DEF PriceHolds
  <2> QED BY <1>4, <1>5, <2>8 DEF Good
<1> QED BY <1>6, <1>7

-----------------------------------------------------------------------------
(* A collection. *)

\* How many things a collection asks for.
Things == IF provider = "openrouter" /\ "management" \notin keys THEN 1 ELSE 2

\* reads tell what a collection may tell.
Tells(reads) ==
    /\ \A x \in reads : Kept(x) /\ PriceHolds(x)
    /\ \A x, y \in reads : x.resource.of = y.resource.of => x = y

IsFresh(reads) == \E x \in reads : x.resource.freshness = "fresh"

LEMMA OneRead ==
    ASSUME NEW of, NEW x, Good(x, of)
    PROVE  Tells({x}) /\ Cardinality({x}) = 1
<1>1. Cardinality({x}) = 1
  BY FS_Singleton
<1> QED BY <1>1 DEF Tells, Good

LEMMA TwoReads ==
    ASSUME NEW of, NEW other, of # other, NEW x, NEW y, Good(x, of), Good(y, other)
    PROVE  Tells({x, y}) /\ Cardinality({x, y}) = 2
<1>1. x # y
  BY DEF Good
<1>2. Cardinality({x, y}) = 2
  <2>1. IsFiniteSet({x}) /\ Cardinality({x}) = 1
    BY FS_Singleton
  <2>2. {x, y} = {x} \cup {y}
    OBVIOUS
  <2> QED BY <1>1, <2>1, <2>2, FS_AddElement
<1> QED BY <1>2 DEF Tells, Good

LEMMA AssembledReads ==
    ASSUME NEW o, NEW answers, Assembles(o, answers), DOMAIN answers = Endpoints,
           provider \in {"openrouter", "deepseek"}
    PROVE  \E reads : Returns(o, reads) /\ Tells(reads) /\ Cardinality(reads) = Things
<1>1. CASE provider = "deepseek"
  <2>1. Endpoints = {"balance"} /\ Things = 2
    BY <1>1 DEF Endpoints, Things
  <2>2. PICK b \in BalanceReads(answers["balance"]), p \in PricingReads : Returns(o, {b, p})
    BY <2>1 DEF Assembles
  <2> QED BY <2>1, <2>2, BalanceIsRead, PricingIsRead, TwoReads
<1>2. CASE provider = "openrouter" /\ "management" \notin keys
  <2>1. Endpoints = {"key"} /\ Things = 1
    BY <1>2 DEF Endpoints, Things
  <2>2. PICK k \in KeyReads(answers["key"]) : Returns(o, {k})
    BY <2>1 DEF Assembles
  <2> QED BY <2>1, <2>2, KeyIsRead, OneRead
<1>3. CASE provider = "openrouter" /\ "management" \in keys
  <2>1. Endpoints = {"key", "credits"} /\ Things = 2
    BY <1>3 DEF Endpoints, Things
  <2>2. PICK k \in KeyReads(answers["key"]), c \in CreditReads(answers["credits"]) : Returns(o, {k, c})
    BY <2>1 DEF Assembles
  <2>3. Good(k, "key") /\ Good(c, "credits")
    BY KeyIsRead, CreditIsRead
  <2>4. Tells({k, c}) /\ Cardinality({k, c}) = 2
    BY <2>3, TwoReads
  <2> QED BY <2>1, <2>2, <2>4
<1> QED BY <1>1, <1>2, <1>3

-----------------------------------------------------------------------------
(* The invariant. *)

\* What a collection returned tells it all until it is saved, and its call has ended as the
\* reads demand: the coordinator saves it only if something is known.
Assembled ==
    collected # None =>
        /\ Tells(collected) /\ Cardinality(collected) = Things
        /\ refresh.pc = "collect" => call[refresh.call].pc = Outcome(collected)
        /\ refresh.pc = "persist" => IsFresh(collected) /\ ~\E x \in collected : Overspent(x)

LEMMA NothingCollected ==
    ASSUME collected' = None
    PROVE  Assembled'
BY DEF Assembled

\* The awaited call returns a collection.
LEMMA CollectionReturns ==
    ASSUME TypeOK, NEW o \in Calls, NEW answers, Assembles(o, answers), DOMAIN answers = Endpoints,
           provider \in {"openrouter", "deepseek"}, UNCHANGED <<keys, provider>>,
           refresh'.pc = "collect", refresh'.call = o
    PROVE  Assembled'
<1>1. PICK reads : Returns(o, reads) /\ Tells(reads) /\ Cardinality(reads) = Things
  BY AssembledReads
<1>2. collected' = reads /\ call'[o] = Result(Outcome(reads))
  BY <1>1 DEF Returns, TypeOK
<1>3. Result(Outcome(reads)).pc = Outcome(reads)
  BY DEF Result, Idle
<1>4. Things' = Things
  BY DEF Things
<1> QED BY <1>1, <1>2, <1>3, <1>4 DEF Assembled

\* While nothing is settled the coordinator has learnt of what it is to save, or there is nothing.
LEMMA CollectionWaits ==
    ASSUME IInv, Assembled, Quiet, UNCHANGED <<refresh, keys, provider, collected>>
    PROVE  Assembled'
<1> SUFFICES ASSUME collected # None PROVE Assembled'
  BY NothingCollected
<1>1. TypeOK /\ Awaited
  BY DEF IInv
<1>2. refresh.pc = "persist"
  <2> SUFFICES ASSUME refresh.pc = "collect" PROVE FALSE
    BY <1>1 DEF TypeOK
  <2>1. refresh.call \in Calls
    BY <1>1, AwaitedCall DEF Kinds
  <2>2. call[refresh.call].pc \in Results
    BY DEF Assembled, Outcome, Results
  <2> QED BY <2>1, <2>2 DEF Quiet, Settled
<1>3. Things' = Things
  BY DEF Things
<1> QED BY <1>2, <1>3 DEF Assembled

LEMMA BeginRefreshAssembles ==
    ASSUME IInv', BeginRefresh
    PROVE  Assembled'
<1>1. refresh'.pc = "probe"
  BY DEF BeginRefresh, Await
<1> QED BY <1>1, NothingCollected DEF IInv, TypeOK

\* A call that needs no request returns at once.
LEMMA ProbedAssembles ==
    ASSUME IInv, refresh.pc = "probe", NEW ok, NEW o \in Calls, Probed(ok, o)
    PROVE  Assembled'
<1>1. /\ TypeOK /\ collected = None
      /\ Call(o, "collect") /\ UNCHANGED provider /\ refresh'.pc = "collect" /\ refresh'.call = o
  BY DEF IInv, TypeOK, Probed, Await
<1>2. CASE collected' = collected
  BY <1>1, <1>2, NothingCollected
<1>3. CASE provider = "deepseek" /\ DeepSeekCall(o, "collect") /\ collected' # collected
  <2> DEFINE bad == [e \in {"balance"} |-> "bad"]
  <2>1. Assembles(o, bad) /\ keys' = keys
    BY <1>3 DEF DeepSeekCall
  <2>2. DOMAIN bad = Endpoints
    BY <1>3 DEF Endpoints
  <2> HIDE DEF bad
  <2> QED BY <1>1, <1>3, <2>1, <2>2, CollectionReturns
<1> QED BY <1>1, <1>2, <1>3 DEF Call, OpenRouterCall, httpVars

\* The coordinator has learnt of the collection: it saves what tells something.
LEMMA SettlesAssembles ==
    ASSUME IInv, Assembled, Settles
    PROVE  Assembled'
<1> DEFINE o == refresh.call
           res == Parsed(call[o].pc)
<1>1. o \in Calls
  BY DEF Settles, Settled
<1>2. CASE refresh.pc = "probe" /\ Probed(call[o].pc = "ok", o)
  BY <1>1, <1>2, ProbedAssembles
<1>3. CASE refresh.pc = "collect" /\ Collected(res)
  <2>1. CASE res = "failed" \/ collected = None
    <3>1. collected' = None
      BY <1>3, <2>1 DEF Collected
    <3> QED BY <3>1, NothingCollected
  <2>2. CASE res # "failed" /\ collected # None
    <3>1. refresh'.pc = "persist" /\ UNCHANGED <<collected, provider, keys>>
      BY <1>3, <2>2 DEF Collected, Await
    <3>2. res = Outcome(collected) /\ \A x \in collected : Valid(x.resource) /\ Kept(x)
      BY <1>3, <2>2 DEF Parsed, Assembled, Tells
    <3>3. IsFresh(collected) /\ ~\E x \in collected : Overspent(x)
      BY <2>2, <3>2 DEF Outcome, IsFresh, Kept
    <3>4. Things' = Things
      BY <3>1 DEF Things
    <3> QED BY <2>2, <3>1, <3>3, <3>4 DEF Assembled
  <2> QED BY <2>1, <2>2
<1> QED BY <1>2, <1>3 DEF Settles

LEMMA TimesOutAssembles ==
    ASSUME IInv, TimesOut
    PROVE  Assembled'
<1>1. CASE refresh.pc = "probe" /\ \E o \in FreeSlots : Probed(FALSE, o)
  BY <1>1, ProbedAssembles DEF FreeSlots
<1>2. CASE Collected("failed")
  <2>1. collected' = None
    BY <1>2 DEF Collected
  <2> QED BY <2>1, NothingCollected
<1> QED BY <1>1, <1>2 DEF TimesOut

\* The last answer makes the collection.
LEMMA HttpStepAssembles ==
    ASSUME IInv, Assembled, HttpStep
    PROVE  Assembled'
<1>1. Quiet /\ UNCHANGED <<refresh, provider>>
  BY DEF HttpStep, Runtime
<1>2. PICK o \in Calls : \E e \in DOMAIN call[o].answers : \E good \in BOOLEAN : Responds(o, e, good)
  BY DEF HttpStep
<1>3. PICK e \in DOMAIN call[o].answers, good \in BOOLEAN : Responds(o, e, good)
  BY <1>2
<1> DEFINE a == [call[o].answers EXCEPT ![e] = IF good THEN "good" ELSE "bad"]
<1>4. DOMAIN a = DOMAIN call[o].answers
  OBVIOUS
<1>5. /\ call[o].pc = "http" /\ keys' = keys
      /\ \/ UNCHANGED collected
         \/ call[o].kind # "probe" /\ o = refresh.call /\ Assembles(o, a)
  BY <1>3 DEF Responds
<1> HIDE DEF a
<1>6. CASE UNCHANGED collected
  BY <1>1, <1>5, <1>6, CollectionWaits
<1>7. CASE call[o].kind # "probe" /\ o = refresh.call /\ Assembles(o, a)
  <2>1. TypeOK /\ Awaited /\ AsksAll(call[o])
    BY DEF IInv, HttpCalls
  <2>2. call[o].kind = "collect"
    <3>1. call[o] \in Fields
      BY <2>1, CallsHaveFields DEF TypeOK
    <3> QED BY <1>7, <3>1 DEF Fields, Kinds
  <2>3. refresh.pc = "collect"
    <3>1. refresh.pc \in Kinds
      BY <1>7, <2>1, AwaitedCall, CallsAssumption DEF Awaited, Kinds
    <3> QED BY <1>5, <1>7, <2>1, <2>2, <3>1, PlacesDiffer DEF Awaited
  <2>4. provider \in {"openrouter", "deepseek"} /\ DOMAIN a = Endpoints
    BY <1>4, <1>5, <2>1, <2>2 DEF AsksAll
  <2> QED BY <1>1, <1>5, <1>7, <2>1, <2>3, <2>4, CollectionReturns
<1> QED BY <1>5, <1>6, <1>7

LEMMA NextKeepsAssembled == IInv /\ IInv' /\ Assembled /\ [Next]_vars => Assembled'
<1> SUFFICES ASSUME IInv, IInv', Assembled, [Next]_vars PROVE Assembled'
  OBVIOUS
<1>1. CASE Start \/ TimerFires
  BY <1>1, BeginRefreshAssembles DEF Start, TimerFires
<1>2. CASE Settles
  BY <1>2, SettlesAssembles
<1>3. CASE TimesOut
  BY <1>3, TimesOutAssembles
<1>4. CASE Persisted
  BY <1>4, NothingCollected DEF Persisted
<1>5. CASE Stop \/ CodexClosed \/ Closed \/ CodexStep \/ GeminiStep
  <2>1. Quiet /\ UNCHANGED <<refresh, keys, provider, collected>>
    BY <1>5 DEF Stop, CodexClosed, Closed, CodexStep, GeminiStep, Runtime, httpVars
  <2> QED BY <2>1, CollectionWaits
<1>6. CASE HttpStep
  BY <1>6, HttpStepAssembles
<1>7. CASE UNCHANGED vars
  <2>1. UNCHANGED <<call, refresh, keys, provider, collected>>
    BY <1>7 DEF vars, httpVars
  <2>2. Things' = Things
    BY <2>1 DEF Things
  <2> QED BY <2>1, <2>2 DEF Assembled
<1> QED BY <1>1, <1>2, <1>3, <1>4, <1>5, <1>6, <1>7 DEF Next

-----------------------------------------------------------------------------
(* The theorem. *)

\* Assembled holds whatever the providers do.
THEOREM AssembledHolds == Spec => []Assembled
<1>1. Init => Assembled
  BY DEF Init, HttpInit, Assembled
<1> QED BY <1>1, IInvHolds, NextKeepsAssembled, PTL DEF Spec

\* Whatever the providers answer, in whichever order their answers, errors and timeouts come
\* in: a collection reports one resource for each thing asked and says nothing that no answer
\* told.  The contract accepts every resource but an overspent account's, and a collection that
\* returned in time is saved if and only if something is known and no account is overspent.
THEOREM AnswersAreKeptHolds == Spec => []AnswersAreKept
<1>1. IInv /\ Assembled => AnswersAreKept
  <2> SUFFICES ASSUME IInv, Assembled, collected # None PROVE AnswersAreKept
    BY DEF AnswersAreKept
  <2> DEFINE saved == IsFresh(collected) /\ ~\E x \in collected : Overspent(x)
  <2>1. /\ \A x \in collected : Kept(x) /\ PriceHolds(x)
        /\ \A x, y \in collected : x.resource.of = y.resource.of => x = y
        /\ Cardinality(collected) = Things
    BY DEF Assembled, Tells
  <2>2. refresh.pc = "persist" => saved
    BY DEF Assembled
  <2>3. refresh.pc = "collect" => (Parsed(call[refresh.call].pc) # "failed" <=> saved)
    <3> SUFFICES ASSUME refresh.pc = "collect"
                 PROVE  Parsed(call[refresh.call].pc) # "failed" <=> saved
      OBVIOUS
    <3>1. call[refresh.call].pc = IF IsFresh(collected) THEN "ok" ELSE "failed"
      BY DEF Assembled, Outcome, IsFresh
    <3>2. (\E x \in collected : ~Valid(x.resource)) <=> \E x \in collected : Overspent(x)
      BY <2>1 DEF Kept
    <3> QED BY <3>1, <3>2 DEF Parsed
  <2> QED BY <2>1, <2>2, <2>3 DEF AnswersAreKept, Kept, Things, IsFresh
<1> QED BY <1>1, IInvHolds, AssembledHolds, PTL

\* A price that is known holds from now until changesAt, and changes there.
THEOREM PricesHoldHolds == Spec => []PricesHold
<1>1. Assembled => PricesHold
  BY DEF Assembled, PricesHold, Tells, PriceHolds
<1> QED BY <1>1, AssembledHolds, PTL
=============================================================================
