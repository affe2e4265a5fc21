--------------------------- MODULE DeleverageDay ---------------------------
(***************************************************************************)
(* The venues with a history of what deleverage withdrew under a limit:    *)
(* what the daily window of the group is for.                              *)
(***************************************************************************)
EXTENDS Venues

ASSUME LimitsAssumption == IsFiniteSet(Limits) /\ Limits # {}

VARIABLE spent   \* dollars deleverage withdrew under a limit at each time

Times == 0 .. MaxNow

hvars == <<venue, market, position, bank, balances, tokens, mode, window, now, spent>>

\* What this step withdrew in deleverage under a limit.  Every withdrawal counts for
\* whole dollars (update_withdrawn_equity), so a unit counts for the whole dollars of
\* its value.
Deleveraged ==
    IF window.limit # 0 /\ \E u \in Users :
           mode[u] = "deleverage" /\ balances'[u].shares < balances[u].shares
    THEN Min({position.units - position'.units, bank.shares - bank'.shares}) * Dollars(1)
    ELSE 0

Remember == spent' = [spent EXCEPT ![now] = @ + Deleveraged]

HInit == Init /\ spent = [t \in Times |-> 0]
HNext == Next /\ Remember
HSpec == HInit /\ [][HNext]_hvars

-----------------------------------------------------------------------------
(* Properties *)

Withdrawn(S) == SumFunctionOnSet(spent, S)
DayFrom(t) == {s \in Times : t <= s /\ s < t + Day}
DayBefore(t) == {s \in Times : s < t /\ t < s + Day}
Since(t) == {s \in Times : s >= t}

\* Deleverage withdraws no more in any day, wherever the day begins, than two of the
\* largest limits, however the admin sets limits and the window starts over.
RollingWithdrawalCap ==
    \A t \in Times : Withdrawn(DayFrom(t)) <= 2 * Max(Limits)

\* The window counts from a time z: what was withdrawn since is in it and fits in a
\* limit, and so does what the day before z saw.
CountsFrom(z) ==
    /\ z <= window.since
    /\ Withdrawn(Since(z)) <= window.withdrawn
    /\ Withdrawn(Since(z)) <= Max(Limits)
    /\ Withdrawn(DayBefore(z)) <= Max(Limits)

\* Why the cap holds: a window, once started over, does not start over for a day, as a
\* change of the limit only prolongs it, and takes in nothing after its day.
WindowInv ==
    /\ now \in Times
    /\ window.since <= now
    /\ spent \in [Times -> Nat]
    /\ \A s \in Times : spent[s] > 0 => s <= now /\ s < window.since + Day
    /\ \E z \in 0 .. now : CountsFrom(z)
    /\ RollingWithdrawalCap
=============================================================================
