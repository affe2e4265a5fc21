---------------------------- MODULE MCPanicPause ----------------------------
(***************************************************************************)
(* PanicPause for TLC, with a history of the pauses of the last day.       *)
(***************************************************************************)
EXTENDS PanicPause, Functions

VARIABLE pausedAt   \* how many pauses were accepted at each recent second

hvars == <<now, panic, groups, cache, pausedAt>>

Times == Genesis..MaxTime

HInit == Init /\ pausedAt = [t \in Times |-> 0]

HTick ==
    /\ Tick
    /\ pausedAt' = [t \in Times |->
          IF t + DAILY_RESET_INTERVAL <= now + 1 THEN 0 ELSE pausedAt[t]]

HPause == PanicPause /\ pausedAt' = [pausedAt EXCEPT ![now] = @ + 1]

HOther ==
    /\ \/ PanicUnpause
       \/ PanicUnpausePermissionless
       \/ \E g \in Groups : InitializeGroup(g) \/ PropagateFee(g)
    /\ UNCHANGED pausedAt

HNext == HTick \/ HPause \/ HOther

\* The chain's clock advances; nobody is obliged to send an instruction.
HSpec == HInit /\ [][HNext]_hvars /\ WF_hvars(HTick)

\* The pauses of the last day that were accepted at one of these seconds
PausesAt(S) == SumFunctionOnSet(pausedAt, S)

\* The day counter resets on the first pause after a day, so a day that straddles
\* a reset sees up to two days' allowance, and never more, whatever the admin
\* pauses, extends and unpauses.
RollingDayCap == PausesAt(Times) <= 2 * MAX_DAILY

SinceReset == {t \in Times : t >= panic.lastReset}
BeforeReset == Times \ SinceReset

\* Why: the counter of the FeeState covers the pauses since its last reset, one
\* allowance covers those before it that a day has not swallowed yet, and no pause
\* was accepted a day or more after the reset it was counted under.
DayInv ==
    /\ now \in Times
    /\ pausedAt \in [Times -> Nat]
    /\ panic.lastReset <= now
    /\ panic.daily <= MAX_DAILY
    /\ \A t \in Times : pausedAt[t] > 0 =>
        /\ t <= now
        /\ now < t + DAILY_RESET_INTERVAL
        /\ t < panic.lastReset + DAILY_RESET_INTERVAL
    /\ PausesAt(SinceReset) <= panic.daily
    /\ PausesAt(BeforeReset) <= MAX_DAILY
=============================================================================
