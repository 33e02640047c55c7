------------------------------ MODULE HttpSources ------------------------------
(***************************************************************************)
(* The providers reached by HTTP: OpenRouterCapacityAdapter and            *)
(* DeepSeekCapacityAdapter.  A call sends its requests together and waits  *)
(* for all of them; each has a timer of its own that aborts it, so that it *)
(* ends before the coordinator gives up, or after.  The answers are turned *)
(* into resources when the last one is there.                              *)
(*                                                                         *)
(* Money is counted in 1e-9 of a dollar, what roundMetric and roundMoney   *)
(* round it to; the noise of floating point below that is left out.        *)
(* Time is counted in ticks, Day of them a day, from a Sunday: a tick is   *)
(* what a minute is to the pricing windows.                                *)
(***************************************************************************)
EXTENDS CapacityCalls

CONSTANTS
    KeyAnswers,     \* what /key may answer: [limit, limit_remaining, usage]
    CreditAnswers,  \* what /credits may answer: [total_credits, total_usage]
    BalanceAnswers, \* what /user/balance may answer: [usd, is_available], where usd
                    \* is the set of its entries in dollars: [entry, total]
    Dollar,         \* how many units of money it has, 10^9 in the code
    Tariffs,        \* pricing configurations: sets of windows [weekdays, start, end]
    Day

ASSUME TariffAssumption ==
    /\ Day \in Nat \ {0}
    /\ \A tariff \in Tariffs : \A w \in tariff :
         w.weekdays \subseteq 0 .. 6 /\ w.start \in 0 .. Day - 1 /\ w.end \in 0 .. Day - 1

\* The schemas of the answers: a number is not negative, and may be missing in a key's limits.
ASSUME AnswerAssumption ==
    /\ Dollar \in Nat \ {0}
    /\ \A d \in KeyAnswers :
         {x \in {d.limit, d.limit_remaining} : x # None} \subseteq Nat /\ d.usage \in Nat
    /\ \A d \in CreditAnswers : {d.total_credits, d.total_usage} \subseteq Nat \ {None}
    /\ \A d \in BalanceAnswers : \A b \in d.usd : b.total \in Nat
    /\ None \notin KeyAnswers \cup CreditAnswers \cup BalanceAnswers
    /\ \A t \in 0 .. 7 * Day - 1 : \A tariff \in Tariffs : None # [at |-> t, tariff |-> tariff]

VARIABLES
    keys,       \* the configured credentials: "api", "management"
    collected   \* what the awaited collection returned, until it is saved: the resources
                \* and (history) the usable part of each answer; None: nothing

httpVars == <<keys, collected>>

HttpInit == keys \in SUBSET {"api", "management"} /\ collected = None

-----------------------------------------------------------------------------
(* Resources. *)

Numbers(limit, used, remaining) == [limit |-> limit, used |-> used, remaining |-> remaining]

Resource(of, numbers, status) == [of |-> of, numbers |-> numbers, status |-> status, freshness |-> "fresh"]

\* A resource whose answer failed, or says nothing that can be used.
UnknownResource(of) ==
    [Resource(of, Numbers(None, None, None), "unknown") EXCEPT !.freshness = "unknown"]

Budget(of, limit, used, remaining) ==
    Resource(of, Numbers(limit, used, remaining), IF remaining = 0 THEN "exhausted" ELSE "available")

\* A billionth of the limit, and no less than a unit: what is missing to it is no debt.
Tolerance(limit) == IF limit < Dollar THEN 1 ELSE limit \div Dollar

\* normalizeRemaining throws, or returns what remains.
Impossible(remaining, limit) == remaining < 0 /\ -remaining > Tolerance(limit)
Normalized(remaining) == IF remaining < 0 THEN 0 ELSE remaining

\* The remaining value is the provider's if it gives one; an impossible one is an error.
KeyBudget(data) ==
    LET reported == IF data.limit_remaining = None THEN data.limit - data.usage
                                                   ELSE data.limit_remaining
        remaining == Normalized(reported)
    IN  IF data.limit = None THEN Resource("key", Numbers(None, None, None), "unknown")
        ELSE IF Impossible(reported, data.limit) \/ remaining > data.limit THEN UnknownResource("key")
        ELSE Budget("key", data.limit, data.limit - remaining, remaining)

\* Variant: any debt counts as nothing left.
AccountCreditsClamped(data) ==
    Budget("credits", data.total_credits, data.total_usage, Normalized(data.total_credits - data.total_usage))

\* What is used is the provider's, even where no more than the tolerance is missing.
AccountCredits(data) ==
    LET balance == data.total_credits - data.total_usage
    IN  IF Impossible(balance, data.total_credits) THEN UnknownResource("credits")
        ELSE Budget("credits", data.total_credits, data.total_usage, Normalized(balance))

\* The wallet is in dollars: two entries are an error, and none leaves it unknown.
Wallet(data) ==
    LET totals == {b.total : b \in data.usd}
    IN  CASE Cardinality(data.usd) > 1 -> UnknownResource("balance")
          [] data.usd = {} -> Resource("balance", Numbers(None, None, None), "unknown")
          [] OTHER ->
               LET total == CHOOSE t \in totals : TRUE
               IN  Resource("balance", Numbers(None, None, total),
                            IF total = 0 THEN "exhausted"
                            ELSE IF data.is_available THEN "available" ELSE "unknown")

-----------------------------------------------------------------------------
(* The pricing window of DeepSeek, derived from its configuration. *)

Weekday(t) == (t \div Day) % 7
StartOfDay(t) == t - (t % Day)

\* compileDeepSeekPricingConfig accepts it.
Compiles(tariff) ==
    /\ tariff # {}
    /\ \A w \in tariff : w.weekdays # {} /\ w.start < w.end
    /\ \A v, w \in tariff :
         v # w /\ v.weekdays \cap w.weekdays # {} => v.end <= w.start \/ w.end <= v.start

IsPeakAt(t, tariff) ==
    \E w \in tariff : Weekday(t) \in w.weekdays /\ t % Day >= w.start /\ t % Day < w.end

\* The starts and ends of windows after now, today and on the next eight days.
TransitionCandidates(now, tariff) ==
    {c \in UNION {LET day == StartOfDay(now) + offset * Day
                  IN  UNION {{day + w.start, day + w.end} : w \in {w \in tariff : Weekday(day) \in w.weekdays}}
                  : offset \in 0 .. 8} : c > now}

Least(S) == CHOOSE x \in S : \A y \in S : x <= y

\* Variant: the next boundary of a window counts, whether the price changes there or not.
NextBoundary(now, tariff) == Least(TransitionCandidates(now, tariff))

\* The first candidate at which the price changes: a window may begin where another ends.
NextTransition(now, tariff) ==
    Least({c \in TransitionCandidates(now, tariff) : IsPeakAt(c - 1, tariff) # IsPeakAt(c, tariff)})

Price(t, tariff) == IF IsPeakAt(t, tariff) THEN "PEAK" ELSE "OFF_PEAK"

Pricing(now, tariff) ==
    IF Compiles(tariff)
      THEN [of |-> "pricing", freshness |-> "fresh", status |-> "available",
            state |-> Price(now, tariff), changesAt |-> NextTransition(now, tariff),
            next |-> Price(NextTransition(now, tariff), tariff)]
      ELSE [of |-> "pricing", freshness |-> "unknown", status |-> "unknown",
            state |-> None, changesAt |-> None, next |-> None]

-----------------------------------------------------------------------------
(* What a collection makes of the answers. *)

\* With history: which data the answer held, or None when there was no good answer.
Read(data, resource) == [data |-> data, resource |-> resource]

Unread(of) == Read(None, UnknownResource(of))

KeyReads(answer) ==
    IF answer = "good" THEN {Read(d, KeyBudget(d)) : d \in KeyAnswers} ELSE {Unread("key")}
CreditReads(answer) ==
    IF answer = "good" THEN {Read(d, AccountCredits(d)) : d \in CreditAnswers} ELSE {Unread("credits")}
BalanceReads(answer) ==
    IF answer = "good" THEN {Read(d, Wallet(d)) : d \in BalanceAnswers} ELSE {Unread("balance")}

PricingReads ==
    {Read([at |-> t, tariff |-> tariff], Pricing(t, tariff)) : t \in 0 .. 7 * Day - 1, tariff \in Tariffs}

\* What is known is returned, with unknown resources for the rest; only when nothing is
\* known the collection fails.
Outcome(reads) == IF \E x \in reads : x.resource.freshness = "fresh" THEN "ok" ELSE "failed"

Returns(o, reads) ==
    /\ call' = [call EXCEPT ![o] = Result(Outcome(reads))]
    /\ collected' = reads

\* One read for each thing asked, whatever the good answers held.
Assembles(o, answers) ==
    \/ /\ DOMAIN answers = {"key"}
       /\ \E k \in KeyReads(answers["key"]) : Returns(o, {k})
    \/ /\ DOMAIN answers = {"key", "credits"}
       /\ \E k \in KeyReads(answers["key"]), c \in CreditReads(answers["credits"]) : Returns(o, {k, c})
    \/ /\ DOMAIN answers = {"balance"}
       /\ \E b \in BalanceReads(answers["balance"]), p \in PricingReads : Returns(o, {b, p})

Requests(kind, endpoints) ==
    [Calling(kind, "http") EXCEPT !.answers = [e \in endpoints |-> "pending"]]

OpenRouterCall(o, kind) ==
    /\ call' = [call EXCEPT ![o] =
         IF "api" \notin keys THEN Result("failed")
         ELSE Requests(kind, {"key"} \cup (IF kind = "collect" /\ "management" \in keys
                                             THEN {"credits"} ELSE {}))]
    /\ UNCHANGED httpVars

\* Without a key there is no request, but prices are known all the same.
DeepSeekCall(o, kind) ==
    /\ UNCHANGED keys
    /\ \/ /\ "api" \in keys \/ kind = "probe"
          /\ call' = [call EXCEPT ![o] = IF "api" \in keys THEN Requests(kind, {"balance"}) ELSE Result("failed")]
          /\ UNCHANGED collected
       \/ /\ "api" \notin keys /\ kind = "collect"
          /\ Assembles(o, [e \in {"balance"} |-> "bad"])

\* A request ends: with a well-formed answer, or with a status, a body or an abort that
\* is an error.  After the last one the call has its result, which is
\* of no interest when nobody awaits it.
Responds(o, e, good) ==
    LET answers == [call[o].answers EXCEPT ![e] = IF good THEN "good" ELSE "bad"]
    IN  /\ call[o].pc = "http" /\ e \in DOMAIN call[o].answers /\ call[o].answers[e] = "pending"
        /\ UNCHANGED keys
        /\ \/ /\ \E x \in DOMAIN answers : answers[x] = "pending"
              /\ call' = [call EXCEPT ![o].answers = answers]
              /\ UNCHANGED collected
           \/ /\ \A x \in DOMAIN answers : answers[x] # "pending"
              /\ IF call[o].kind = "probe" \/ o # refresh.call
                   THEN /\ call' = [call EXCEPT ![o] = Ended(o, IF good THEN "ok" ELSE "failed")]
                        /\ UNCHANGED collected
                   ELSE Assembles(o, answers)

-----------------------------------------------------------------------------

\* What the contract demands of a resource: no number is negative or above the limit, what
\* is used and what remains make up the limit but for the tolerance, and a price has no numbers.
Valid(resource) ==
    resource.of # "pricing" =>
        LET n == resource.numbers
            given == {x \in {n.limit, n.used, n.remaining} : x # None}
        IN  /\ \A x \in given : x >= 0 /\ (n.limit # None => x <= n.limit)
            /\ None \notin {n.limit, n.used, n.remaining} =>
                 n.used + n.remaining - n.limit \in -Tolerance(n.limit) .. Tolerance(n.limit)

\* The account has used up more than it had, by so little that it is no error.
Overspent(x) ==
    /\ x.resource.of = "credits" /\ x.data # None
    /\ x.data.total_usage - x.data.total_credits \in 1 .. Tolerance(x.data.total_credits)

\* The price of DeepSeek at t, as the documentation has it.
PeakAt(t, tariff) == \E w \in tariff : Weekday(t) \in w.weekdays /\ t % Day \in w.start .. w.end - 1
=============================================================================
