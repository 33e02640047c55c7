-------------------------- MODULE MCCapacityRefresh --------------------------
(* A bounded instance of CapacityRefresh for TLC: the answers and tariffs of HttpSources. *)
EXTENDS CapacityRefresh

Key(limit, remaining, usage) == [limit |-> limit, limit_remaining |-> remaining, usage |-> usage]
SomeKeys == {Key(None, None, 1), Key(2, None, 1), Key(2, None, 3), Key(2, None, 4), Key(2, 1, 3), Key(2, 3, 0), Key(0, 0, 0)}

\* With two units a dollar, the tolerance is one of them up to a limit of three, and two for four.
SomeCredits == {[total_credits |-> t[1], total_usage |-> t[2]] :
                   t \in {<<0, 0>>, <<2, 0>>, <<0, 1>>, <<0, 2>>, <<4, 5>>, <<4, 6>>, <<4, 7>>}}

Dollars(totals) == {[entry |-> i, total |-> totals[i]] : i \in DOMAIN totals}
SomeBalances ==
    {[usd |-> Dollars(usd), is_available |-> available] :
        usd \in {<<>>, <<3>>, <<0>>, <<3, 3>>}, available \in {TRUE}}
    \cup {[usd |-> Dollars(<<3>>), is_available |-> FALSE]}

\* With four ticks a day: two windows on weekdays, windows that touch, one window a week,
\* and windows that overlap.
Window(weekdays, start, end) == [weekdays |-> weekdays, start |-> start, end |-> end]
SomeTariffs ==
    {{Window(1 .. 5, 0, 1), Window(1 .. 5, 2, 3)},
     {Window({0, 3}, 1, 2), Window({3, 6}, 2, 3)},
     {Window({2}, 1, 2)},
     {Window({1}, 0, 2), Window({1, 2}, 1, 3)}}
=============================================================================
