----------------------------- MODULE PanicPause -----------------------------
(***************************************************************************)
(* The protocol-wide emergency pause of the marginfi program.              *)
(*                                                                         *)
(* One FeeState account holds the PanicState; every group holds a copy of  *)
(* it (PanicStateCache) that only propagate_fee refreshes.  All financial  *)
(* instructions consult the group's copy, never the FeeState, so a pause   *)
(* and its end reach a group only when somebody propagates.                *)
(***************************************************************************)
EXTENDS Naturals

CONSTANTS
    Groups,                \* marginfi groups that may be created
    PAUSE_DURATION,        \* PanicState::PAUSE_DURATION_SECONDS
    DAILY_RESET_INTERVAL,  \* constants::DAILY_RESET_INTERVAL
    MAX_CONSECUTIVE,       \* PanicState::MAX_CONSECUTIVE_PAUSES
    MAX_DAILY,             \* PanicState::MAX_DAILY_PAUSES
    Genesis,               \* clock when the FeeState is created
    MaxTime                \* bound: the clock stops here

ASSUME ClockAssumption ==
    /\ Genesis \in Nat
    /\ MaxTime \in Nat
    /\ Genesis <= MaxTime
ASSUME DurationAssumption ==
    /\ PAUSE_DURATION \in Nat \ {0}
    /\ DAILY_RESET_INTERVAL \in Nat \ {0}
\* The bound on a pause below is about at most one extension, as in the code.
ASSUME LimitAssumption ==
    /\ MAX_CONSECUTIVE = 2
    /\ MAX_DAILY \in Nat

VARIABLES
    now,      \* Clock::unix_timestamp
    panic,    \* FeeState.panic_state
    groups,   \* initialised groups
    cache     \* MarginfiGroup.panic_state_cache

vars == <<now, panic, groups, cache>>

PanicState == [paused : BOOLEAN, daily : Nat, consecutive : Nat,
               start : Nat, lastReset : Nat]
PanicStateCache == [paused : BOOLEAN, start : Nat, lastUpdate : Nat]

ZeroPanic == [paused |-> FALSE, daily |-> 0, consecutive |-> 0,
              start |-> 0, lastReset |-> 0]
ZeroCache == [paused |-> FALSE, start |-> 0, lastUpdate |-> 0]

-----------------------------------------------------------------------------
(* The methods of PanicState and PanicStateCache *)

\* Wrong variants: a pause that starts in the future counts as over, as it would if
\* the difference were unsigned; a pause is over only when its flag is cleared.
IsExpiredAhead(p, t) ==
    ~p.paused \/ t < p.start \/ t - p.start >= PAUSE_DURATION
IsExpiredByFlag(p, t) == ~p.paused

\* is_expired, the same text for both structs.
IsExpired(p, t) ==
    \/ ~p.paused
    \/ t >= p.start /\ t - p.start >= PAUSE_DURATION

\* A pause is in force: the flag is set and its time has not run out.
InForce(p, t) == p.paused /\ ~IsExpired(p, t)

DayElapsed(p, t) == t >= p.lastReset + DAILY_RESET_INTERVAL

\* Wrong variant, for checking that the properties notice: no limit on
\* consecutive pauses.
CanPauseAnyConsecutive(p, t) == DayElapsed(p, t) \/ p.daily < MAX_DAILY

CanPause(p, t) ==
    /\ p.consecutive < MAX_CONSECUTIVE
    /\ DayElapsed(p, t) \/ p.daily < MAX_DAILY

Unpause(p) == [p EXCEPT !.paused = FALSE, !.start = 0, !.consecutive = 0]

UnpauseIfExpired(p, t) ==
    IF p.paused /\ IsExpired(p, t) THEN Unpause(p) ELSE p

\* Wrong variant: the day's count is cleared and the day never restarted.
ResetDailyCountOnly(p, t) ==
    IF DayElapsed(p, t) THEN [p EXCEPT !.daily = 0] ELSE p

ResetDaily(p, t) ==
    IF DayElapsed(p, t) THEN [p EXCEPT !.daily = 0, !.lastReset = t] ELSE p

\* A pause in force is extended by one duration, otherwise a new one starts.
NextStart(p, t) ==
    IF InForce(p, t) THEN p.start + PAUSE_DURATION ELSE t

\* pause() on a state p that has already been cleared and reset.
Paused(p, t) ==
    [p EXCEPT !.paused = TRUE,
              !.start = NextStart(p, t),
              !.daily = @ + 1,
              !.consecutive = @ + 1]

-----------------------------------------------------------------------------
(* Instructions *)

Init ==
    /\ now = Genesis
    /\ panic = ZeroPanic
    /\ groups = {}
    /\ cache = [g \in Groups |-> ZeroCache]

Tick ==
    /\ now < MaxTime
    /\ now' = now + 1
    /\ UNCHANGED <<panic, groups, cache>>

\* initialize_group: the new group caches the fees, not the panic state.
InitializeGroup(g) ==
    /\ g \notin groups
    /\ groups' = groups \union {g}
    /\ cache' = [cache EXCEPT ![g] = ZeroCache]
    /\ UNCHANGED <<now, panic>>

PanicPause ==
    LET p == ResetDaily(UnpauseIfExpired(panic, now), now)
    IN  /\ CanPause(p, now)
        /\ panic' = Paused(p, now)
        /\ UNCHANGED <<now, groups, cache>>

\* Whether the pause has expired or not, the fee admin's unpause clears it.
PanicUnpause ==
    /\ panic.paused
    /\ panic' = Unpause(panic)
    /\ UNCHANGED <<now, groups, cache>>

PanicUnpausePermissionless ==
    /\ panic.paused
    /\ IsExpired(panic, now)
    /\ panic' = Unpause(panic)
    /\ UNCHANGED <<now, groups, cache>>

\* Wrong variants: the copy starts the pause when it is taken; the copy keeps
\* the flag but starts the pause one duration later (its end, not its start).
UpdateStartsNow(p, t) == [paused |-> p.paused, start |-> t, lastUpdate |-> t]
UpdateStoresEnd(p, t) ==
    [paused |-> p.paused, start |-> p.start + PAUSE_DURATION, lastUpdate |-> t]

UpdateFromPanicState(p, t) ==
    [paused |-> p.paused, start |-> p.start, lastUpdate |-> t]

PropagateFee(g) ==
    /\ g \in groups
    /\ cache' = [cache EXCEPT ![g] = UpdateFromPanicState(panic, now)]
    /\ UNCHANGED <<now, panic, groups>>

Next ==
    \/ Tick
    \/ PanicPause
    \/ PanicUnpause
    \/ PanicUnpausePermissionless
    \/ \E g \in Groups : InitializeGroup(g) \/ PropagateFee(g)

Spec == Init /\ [][Next]_vars

-----------------------------------------------------------------------------
(* Properties *)

\* Type correctness of the clock, the FeeState's panic state, the set of groups
\* and their caches.
TypeOK ==
    /\ now \in Nat
    /\ panic \in PanicState
    /\ groups \subseteq Groups
    /\ cache \in [Groups -> PanicStateCache]

\* is_protocol_paused for group g: what every financial instruction checks.
ProtocolPaused(g) == InForce(cache[g], now)

\* However often the admin pauses and extends (pause() moves the start of a
\* pause in force into the future), the pause the FeeState records ends within
\* two durations of the present.
PauseHorizon ==
    panic.paused => panic.start <= now + PAUSE_DURATION

\* The same bound for what a group enforces, however stale its copy is and
\* whatever has happened to the FeeState since it was taken.
GroupPauseHorizon ==
    \A g \in Groups :
        ProtocolPaused(g) => cache[g].start <= now + PAUSE_DURATION

\* Why the horizon holds: a first pause started in the past, and only a second,
\* the extension, lies ahead by at most one duration.
IInv ==
    /\ TypeOK
    /\ panic.paused =>
        \/ panic.consecutive = 1 /\ panic.start <= now
        \/ panic.consecutive = 2 /\ panic.start <= now + PAUSE_DURATION
    /\ ~panic.paused => panic.consecutive = 0
    /\ \A g \in Groups :
        cache[g].paused => cache[g].start <= now + PAUSE_DURATION

\* An operating group is suspended only by a pause that is in force in the
\* FeeState at that very moment: propagating a pause that has run out, or that
\* an unpause cleared, suspends nobody.
NoSpuriousPause ==
    [][\A g \in Groups :
        ~ProtocolPaused(g) /\ ProtocolPaused(g)' => InForce(panic, now)]_vars

\* panic_pause sent during a pause never brings its end nearer.
PauseNeverShortens ==
    [][panic.paused /\ now < panic.start + PAUSE_DURATION /\ panic'.paused
        => panic'.start >= panic.start]_vars

\* Two days suffice for any run of pauses to exhaust its allowance: a suspended
\* group operates again, though no one propagates and the admin pauses at will.
GroupRecovers ==
    \A g \in Groups :
        (ProtocolPaused(g) /\ now + 2 * DAILY_RESET_INTERVAL <= MaxTime)
            ~> ~ProtocolPaused(g)

=============================================================================
