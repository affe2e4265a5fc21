-------------------------- MODULE PanicPauseProofs --------------------------
(***************************************************************************)
(* Proofs about the panic pause: how long a pause can hold a group, and    *)
(* how many are accepted in any day, for every set of groups, duration and *)
(* daily allowance.                                                        *)
(***************************************************************************)
EXTENDS MCPanicPause, SumsAndQuotients

\* What the methods of PanicState return, whatever state they start from: they
\* keep the fields typed, and no method sets consecutive without the flag.
LEMMA UnpauseType ==
    ASSUME NEW p \in PanicState
    PROVE  /\ Unpause(p) \in PanicState
           /\ ~Unpause(p).paused
           /\ Unpause(p).consecutive = 0
  BY DEF Unpause, PanicState

\* The state pause() works on: cleared of an expired pause and of a past day.
LEMMA ResetType ==
    ASSUME NEW p \in PanicState, NEW t \in Nat
    PROVE  /\ ResetDaily(p, t) \in PanicState
           /\ ResetDaily(p, t).paused = p.paused
           /\ ResetDaily(p, t).start = p.start
           /\ ResetDaily(p, t).consecutive = p.consecutive
  BY DEF ResetDaily, PanicState

\* A panic state that is cleared is one.
LEMMA ClearType ==
    ASSUME NEW p \in PanicState, NEW t \in Nat
    PROVE  UnpauseIfExpired(p, t) \in PanicState
  BY UnpauseType DEF UnpauseIfExpired

\* So is one that is paused once more.
LEMMA PausedType ==
    ASSUME NEW p \in PanicState, NEW t \in Nat
    PROVE  Paused(p, t) \in PanicState
  <1>1. NextStart(p, t) \in Nat
    BY DurationAssumption DEF NextStart, PanicState
  <1>2. p.daily + 1 \in Nat /\ p.consecutive + 1 \in Nat
    BY DEF PanicState
  <1>3. ASSUME NEW s \in Nat, NEW d \in Nat, NEW e \in Nat
        PROVE  [p EXCEPT !.paused = TRUE, !.start = s,
                         !.daily = d, !.consecutive = e] \in PanicState
    BY DEF PanicState
  <1> QED
    BY <1>1, <1>2, <1>3 DEF Paused

\* The type invariant holds of every reachable state.
THEOREM TypeCorrect == Spec => []TypeOK
  <1>1. Init => TypeOK
    BY ClockAssumption
    DEF Init, TypeOK, ZeroPanic, ZeroCache, PanicState, PanicStateCache
  <1>2. TypeOK /\ [Next]_vars => TypeOK'
    <2> SUFFICES ASSUME TypeOK, [Next]_vars PROVE TypeOK'
      OBVIOUS
    <2> USE DEF TypeOK
    <2>1. CASE Tick
      BY <2>1 DEF Tick
    <2>2. CASE PanicPause
      BY <2>2, ResetType, ClearType, PausedType DEF PanicPause
    <2>3. CASE PanicUnpause \/ PanicUnpausePermissionless
      BY <2>3, UnpauseType DEF PanicUnpause, PanicUnpausePermissionless
    <2>4. ASSUME NEW g \in Groups, InitializeGroup(g) PROVE TypeOK'
      BY <2>4 DEF InitializeGroup, ZeroCache, PanicStateCache
    <2>5. ASSUME NEW g \in Groups, PropagateFee(g) PROVE TypeOK'
      BY <2>5 DEF PropagateFee, UpdateFromPanicState, PanicState, PanicStateCache
    <2>6. CASE UNCHANGED vars
      BY <2>6 DEF vars
    <2> QED
      BY <2>1, <2>2, <2>3, <2>4, <2>5, <2>6 DEF Next
  <1> QED
    BY <1>1, <1>2, PTL DEF Spec

\* The inductive invariant: an accepted pause either starts now, being the first,
\* or extends the first, which started no later than now.
THEOREM HorizonInvariant == Spec => []IInv
  <1>1. Init => IInv
    <2> SUFFICES ASSUME Init PROVE IInv
      OBVIOUS
    <2>1. TypeOK
      BY ClockAssumption
      DEF Init, TypeOK, ZeroPanic, ZeroCache, PanicState, PanicStateCache
    <2> QED
      BY <2>1 DEF Init, IInv, ZeroPanic, ZeroCache
  <1>2. TypeOK' /\ IInv /\ [Next]_vars => IInv'
    <2> SUFFICES ASSUME TypeOK', IInv, [Next]_vars PROVE IInv'
      OBVIOUS
    <2> USE DEF TypeOK, IInv
    <2>1. CASE Tick
      BY <2>1, DurationAssumption DEF Tick, PanicState, PanicStateCache
    <2>2. CASE PanicPause
      <3> DEFINE c == UnpauseIfExpired(panic, now)
                 p == ResetDaily(c, now)
      <3>1. /\ c \in PanicState
            /\ c.paused => c = panic /\ ~IsExpired(c, now)
            /\ ~c.paused => c.consecutive = 0
        BY UnpauseType, ClearType DEF UnpauseIfExpired
      <3>2. /\ p \in PanicState
            /\ p.paused = c.paused
            /\ p.start = c.start
            /\ p.consecutive = c.consecutive
        BY <3>1, ResetType
      <3>3. p.consecutive < 2 /\ panic' = Paused(p, now)
        BY <2>2, LimitAssumption DEF PanicPause, CanPause
      <3> HIDE DEF c, p
      <3>4. /\ panic'.paused
            /\ panic'.consecutive = p.consecutive + 1
            /\ panic'.start = NextStart(p, now)
        BY <3>2, <3>3 DEF Paused, PanicState
      <3>5. CASE c.paused
        <4>1. p.consecutive = 1 /\ p.start <= now /\ InForce(p, now)
          BY <3>1, <3>2, <3>3, <3>5 DEF InForce, IsExpired, PanicState
        <4> QED
          BY <2>2, <3>2, <3>4, <4>1, DurationAssumption
          DEF NextStart, PanicPause, PanicState
      <3>6. CASE ~c.paused
        <4>1. p.consecutive = 0 /\ ~InForce(p, now)
          BY <3>1, <3>2, <3>6 DEF InForce
        <4> QED
          BY <2>2, <3>2, <3>4, <4>1 DEF NextStart, PanicPause
      <3> QED
        BY <3>5, <3>6
    <2>3. CASE PanicUnpause \/ PanicUnpausePermissionless
      BY <2>3, UnpauseType DEF PanicUnpause, PanicUnpausePermissionless
    <2>4. ASSUME NEW g \in Groups, InitializeGroup(g) PROVE IInv'
      BY <2>4 DEF InitializeGroup, ZeroCache
    <2>5. ASSUME NEW g \in Groups, PropagateFee(g) PROVE IInv'
      BY <2>5, DurationAssumption DEF PropagateFee, UpdateFromPanicState, PanicState
    <2>6. CASE UNCHANGED vars
      BY <2>6 DEF vars
    <2> QED
      BY <2>1, <2>2, <2>3, <2>4, <2>5, <2>6 DEF Next
  <1> QED
    BY <1>1, <1>2, TypeCorrect, PTL DEF Spec

\* A recorded pause, extended or not, ends within two durations of the present.
THEOREM PauseBounded == Spec => []PauseHorizon
  <1>1. IInv => PauseHorizon
    BY DurationAssumption DEF IInv, TypeOK, PanicState, PauseHorizon
  <1> QED
    BY <1>1, HorizonInvariant, PTL

\* And so does the pause a group enforces from its copy, however old the copy.
THEOREM GroupPauseBounded == Spec => []GroupPauseHorizon
  <1>1. IInv => GroupPauseHorizon
    BY DEF IInv, GroupPauseHorizon, ProtocolPaused, InForce
  <1> QED
    BY <1>1, HorizonInvariant, PTL

\* Propagating never suspends an operating group except for a pause in force.
THEOREM NeverSpuriouslyPaused == Spec => NoSpuriousPause
  <1>1. TypeOK /\ [Next]_vars =>
          [\A g \in Groups :
             ~ProtocolPaused(g) /\ ProtocolPaused(g)' => InForce(panic, now)]_vars
    <2> SUFFICES ASSUME TypeOK, Next, NEW g \in Groups,
                        ~ProtocolPaused(g), ProtocolPaused(g)'
                 PROVE  InForce(panic, now)
      BY DEF vars
    <2> USE DEF TypeOK, ProtocolPaused, InForce, IsExpired
    <2>1. CASE Tick
      BY <2>1, DurationAssumption DEF Tick, PanicStateCache
    <2>2. CASE PanicPause \/ PanicUnpause \/ PanicUnpausePermissionless
      BY <2>2 DEF PanicPause, PanicUnpause, PanicUnpausePermissionless
    <2>3. ASSUME NEW h \in Groups, InitializeGroup(h) PROVE InForce(panic, now)
      BY <2>3 DEF InitializeGroup, ZeroCache
    <2>4. ASSUME NEW h \in Groups, PropagateFee(h) PROVE InForce(panic, now)
      BY <2>4 DEF PropagateFee, UpdateFromPanicState
    <2> QED
      BY <2>1, <2>2, <2>3, <2>4 DEF Next
  <1> QED
    BY <1>1, TypeCorrect, PTL DEF Spec, NoSpuriousPause

\* Sending panic_pause during a pause never brings the end of the pause nearer.
THEOREM ExtensionNeverShortens == Spec => PauseNeverShortens
  <1>1. TypeOK /\ [Next]_vars =>
          [panic.paused /\ now < panic.start + PAUSE_DURATION /\ panic'.paused
             => panic'.start >= panic.start]_vars
    <2> SUFFICES ASSUME TypeOK, Next, panic'.paused, panic.paused,
                        now < panic.start + PAUSE_DURATION
                 PROVE  panic'.start >= panic.start
      BY DEF vars
    <2>0. InForce(panic, now)
      BY DurationAssumption DEF InForce, IsExpired, TypeOK, PanicState
    <2> USE DEF TypeOK
    <2>1. CASE PanicPause
      <3> DEFINE p == ResetDaily(panic, now)
      <3>1. UnpauseIfExpired(panic, now) = panic
        BY <2>0 DEF UnpauseIfExpired, InForce
      <3>2. /\ p \in PanicState
            /\ p.start = panic.start
            /\ InForce(p, now)
        BY <2>0, ResetType DEF InForce, IsExpired
      <3>3. panic' = Paused(p, now)
        BY <2>1, <3>1 DEF PanicPause
      <3> HIDE DEF p
      <3>4. panic'.start = p.start + PAUSE_DURATION
        BY <3>2, <3>3 DEF Paused, NextStart, PanicState
      <3> QED
        BY <3>2, <3>4, DurationAssumption DEF PanicState
    <2>2. CASE PanicUnpause \/ PanicUnpausePermissionless
      BY <2>2, UnpauseType DEF PanicUnpause, PanicUnpausePermissionless
    <2>3. CASE Tick \/ \E g \in Groups : InitializeGroup(g) \/ PropagateFee(g)
      BY <2>3 DEF Tick, InitializeGroup, PropagateFee, PanicState
    <2> QED
      BY <2>1, <2>2, <2>3 DEF Next
  <1> QED
    BY <1>1, TypeCorrect, PTL DEF Spec, PauseNeverShortens
-----------------------------------------------------------------------------
(* The rolling day *)

\* With the history of the last day, the clock that is fair to it and all else, the
\* pause is the one above.
LEMMA HistoryIsSpec == HSpec => Spec
  <1>1. HInit => Init
    BY DEF HInit
  <1>2. [HNext]_hvars => [Next]_vars
    BY DEF HNext, HTick, HPause, HOther, hvars, vars, Next
  <1> QED
    BY <1>1, <1>2, PTL DEF HSpec, Spec

\* The seconds a run may reach are finitely many, and either since the reset or before.
LEMMA TimesFinite ==
    /\ Times \subseteq Nat
    /\ IsFiniteSet(Times)
    /\ IsFiniteSet(SinceReset) /\ SinceReset \subseteq Times
    /\ IsFiniteSet(BeforeReset) /\ BeforeReset \subseteq Times
  <1>1. Times \subseteq Nat /\ IsFiniteSet(Times)
    BY ClockAssumption, FS_Interval DEF Times
  <1> QED
    BY <1>1, FS_Subset DEF SinceReset, BeforeReset

\* A tick forgets the pauses that are a day old, so no sum of them grows.
LEMMA TickForgets ==
    ASSUME TypeOK, DayInv, HTick
    PROVE  DayInv'
  <1> USE DEF TypeOK, DayInv, PanicState
  <1>1. /\ now' = now + 1
        /\ now' \in Times
        /\ panic' = panic
        /\ SinceReset' = SinceReset /\ BeforeReset' = BeforeReset
    BY ClockAssumption DEF HTick, Tick, Times, SinceReset, BeforeReset
  <1>2. /\ pausedAt' \in [Times -> Nat]
        /\ \A t \in Times : pausedAt'[t] <= pausedAt[t]
        /\ \A t \in Times : pausedAt'[t] > 0 =>
              pausedAt[t] > 0 /\ now' < t + DAILY_RESET_INTERVAL
    BY <1>1, TimesFinite, DurationAssumption DEF HTick
  <1>3. ASSUME NEW S \in SUBSET Times, IsFiniteSet(S)
        PROVE  /\ SumFunctionOnSet(pausedAt', S) <= SumFunctionOnSet(pausedAt, S)
               /\ SumFunctionOnSet(pausedAt', S) \in Int
               /\ SumFunctionOnSet(pausedAt, S) \in Int
    <2>1. \A t \in S : pausedAt[t] \in Int /\ pausedAt'[t] \in Int
      BY <1>2
    <2>2. \A t \in S : pausedAt'[t] <= pausedAt[t]
      BY <1>2
    <2> QED
      BY <1>3, <2>1, <2>2, SumMonotonic, SumRemove
  <1>4. /\ PausesAt(SinceReset)' <= panic'.daily
        /\ PausesAt(BeforeReset)' <= MAX_DAILY
    BY <1>1, <1>3, TimesFinite, LimitAssumption DEF PausesAt
  <1>5. \A t \in Times : pausedAt'[t] > 0 =>
            /\ t <= now'
            /\ now' < t + DAILY_RESET_INTERVAL
            /\ t < panic'.lastReset + DAILY_RESET_INTERVAL
    BY <1>1, <1>2, TimesFinite
  <1> QED
    BY <1>1, <1>2, <1>4, <1>5, TimesFinite

\* What pause() leaves of the counter and of its day: either the day is young and its
\* count below the allowance goes up, or a new day begins with this pause.
LEMMA PauseCounts ==
    ASSUME NEW p \in PanicState, NEW t \in Nat
    PROVE  LET q == ResetDaily(UnpauseIfExpired(p, t), t)
           IN  CanPause(q, t) =>
                 /\ 0 < MAX_DAILY
                 /\ \/ /\ ~DayElapsed(p, t)
                       /\ p.daily < MAX_DAILY
                       /\ Paused(q, t).daily = p.daily + 1
                       /\ Paused(q, t).lastReset = p.lastReset
                    \/ /\ DayElapsed(p, t)
                       /\ Paused(q, t).daily = 1
                       /\ Paused(q, t).lastReset = t
  <1> DEFINE c == UnpauseIfExpired(p, t)
             q == ResetDaily(c, t)
  <1>1. c \in PanicState /\ c.daily = p.daily /\ c.lastReset = p.lastReset
    BY ClearType DEF UnpauseIfExpired, Unpause, PanicState
  <1>2. q \in PanicState
    BY <1>1, ResetType
  <1>3. DayElapsed(c, t) <=> DayElapsed(p, t)
    BY <1>1 DEF DayElapsed
  <1>4. CASE DayElapsed(p, t)
    <2>1. q.daily = 0 /\ q.lastReset = t
      BY <1>1, <1>3, <1>4 DEF ResetDaily, PanicState
    <2>2. ~DayElapsed(q, t)
      BY <2>1, DurationAssumption DEF DayElapsed
    <2> HIDE DEF q
    <2>3. Paused(q, t).daily = 1 /\ Paused(q, t).lastReset = t
      BY <1>2, <2>1 DEF Paused, PanicState
    <2> QED
      BY <1>4, <2>1, <2>2, <2>3 DEF CanPause, q
  <1>5. CASE ~DayElapsed(p, t)
    <2>1. q = c
      BY <1>3, <1>5 DEF ResetDaily
    <2> HIDE DEF q, c
    <2>2. Paused(c, t).daily = p.daily + 1 /\ Paused(c, t).lastReset = p.lastReset
      BY <1>1 DEF Paused, PanicState
    <2>3. CanPause(c, t) => p.daily < MAX_DAILY
      BY <1>1, <1>3, <1>5 DEF CanPause
    <2>4. p.daily < MAX_DAILY => 0 < MAX_DAILY
      BY LimitAssumption DEF PanicState
    <2>5. CanPause(q, t) =>
                 /\ 0 < MAX_DAILY
                 /\ ~DayElapsed(p, t)
                 /\ p.daily < MAX_DAILY
                 /\ Paused(q, t).daily = p.daily + 1
                 /\ Paused(q, t).lastReset = p.lastReset
      BY <1>5, <2>1, <2>2, <2>3, <2>4
    <2> QED
      BY <2>5 DEF q, c
  <1> QED
    BY <1>4, <1>5

\* A pause counts itself, on the day it belongs to; when a day begins with it, those of
\* the day before fit into one allowance, and none was accepted in this second.
LEMMA PauseIsCounted ==
    ASSUME TypeOK, DayInv, HPause
    PROVE  DayInv'
  <1> USE DEF TypeOK, DayInv
  <1>1. /\ now' = now /\ now \in Times /\ now \in Nat
        /\ panic'.lastReset \in Nat /\ panic.lastReset \in Nat
        /\ panic.daily \in Nat
        /\ pausedAt' = [pausedAt EXCEPT ![now] = @ + 1]
        /\ pausedAt' \in [Times -> Nat]
        /\ pausedAt'[now] = pausedAt[now] + 1
        /\ \A t \in Times \ {now} : pausedAt'[t] = pausedAt[t]
    <2>1. panic' \in PanicState
      BY ResetType, ClearType, PausedType DEF HPause, PanicPause
    <2> QED
      BY <2>1, TimesFinite DEF HPause, PanicPause, PanicState
  <1>2. /\ 0 < MAX_DAILY
        /\ \/ /\ ~DayElapsed(panic, now)
              /\ panic.daily < MAX_DAILY
              /\ panic'.daily = panic.daily + 1
              /\ panic'.lastReset = panic.lastReset
           \/ /\ DayElapsed(panic, now)
              /\ panic'.daily = 1
              /\ panic'.lastReset = now
    BY PauseCounts DEF HPause, PanicPause
  <1>3. ASSUME NEW S \in SUBSET Times, IsFiniteSet(S)
        PROVE  /\ SumFunctionOnSet(pausedAt, S) \in Int
               /\ now \in S => SumFunctionOnSet(pausedAt', S)
                                  = SumFunctionOnSet(pausedAt, S) + 1
               /\ now \notin S => SumFunctionOnSet(pausedAt', S)
                                     = SumFunctionOnSet(pausedAt, S)
    <2>1. \A t \in S : pausedAt[t] \in Int /\ pausedAt'[t] \in Int
      BY <1>1
    <2>2. SumFunctionOnSet(pausedAt, S) \in Int
      BY <1>3, <2>1, SumRemove
    <2>3. CASE now \in S
      <3>0. \A t \in S \ {now} : pausedAt'[t] = pausedAt[t]
        BY <1>1
      <3>1. SumFunctionOnSet(pausedAt', S)
               = SumFunctionOnSet(pausedAt, S) - pausedAt[now] + pausedAt'[now]
        <4> HIDE DEF TypeOK, DayInv
        <4> QED
          BY <1>3, <2>1, <2>3, <3>0, SumUpdate
      <3>2. pausedAt[now] \in Int
        BY <1>1
      <3> QED
        BY <1>1, <2>2, <2>3, <3>1, <3>2
    <2>4. CASE now \notin S
      <3>1. \A t \in S : pausedAt[t] \in Int /\ pausedAt'[t] = pausedAt[t]
        BY <1>1, <2>4
      <3>2. SumFunctionOnSet(pausedAt, S) = SumFunctionOnSet(pausedAt', S)
        <4> HIDE DEF TypeOK, DayInv
        <4> QED
          BY <1>3, <3>1, SumCongruent
      <3> QED
        BY <2>2, <2>4, <3>2
    <2> QED
      BY <2>3, <2>4
  <1>4. CASE ~DayElapsed(panic, now)
    <2>1. /\ panic.daily < MAX_DAILY
          /\ panic'.daily = panic.daily + 1
          /\ panic'.lastReset = panic.lastReset
          /\ now < panic.lastReset + DAILY_RESET_INTERVAL
      BY <1>1, <1>2, <1>4, DurationAssumption DEF DayElapsed
    <2>2. /\ SinceReset' = SinceReset /\ BeforeReset' = BeforeReset
          /\ now \in SinceReset /\ now \notin BeforeReset
      BY <1>1, <2>1 DEF SinceReset, BeforeReset
    <2>3. PausesAt(SinceReset)' = PausesAt(SinceReset) + 1
      BY <1>3, <2>2, TimesFinite DEF PausesAt
    <2>4. PausesAt(BeforeReset)' = PausesAt(BeforeReset)
      BY <1>3, <2>2, TimesFinite DEF PausesAt
    <2>5. PausesAt(SinceReset) \in Int
      BY <1>3, TimesFinite DEF PausesAt
    <2>6. /\ PausesAt(SinceReset)' <= panic'.daily
          /\ panic'.daily <= MAX_DAILY
      BY <1>1, <2>1, <2>3, <2>5, LimitAssumption
    <2>7. \A t \in Times : pausedAt'[t] > 0 =>
              /\ t <= now'
              /\ now' < t + DAILY_RESET_INTERVAL
              /\ t < panic'.lastReset + DAILY_RESET_INTERVAL
      BY <1>1, <2>1, DurationAssumption
    <2> QED
      BY <1>1, <2>1, <2>4, <2>6, <2>7
  <1>5. CASE DayElapsed(panic, now)
    <2>1. /\ panic'.daily = 1
          /\ panic'.lastReset = now
          /\ now >= panic.lastReset + DAILY_RESET_INTERVAL
      BY <1>1, <1>2, <1>5 DEF DayElapsed
    <2>2. /\ \A t \in SinceReset' : pausedAt[t] = 0
          /\ \A t \in BeforeReset' \ SinceReset : pausedAt[t] = 0
          /\ now \in SinceReset' /\ now \notin BeforeReset'
          /\ SinceReset' \subseteq Times /\ BeforeReset' \subseteq Times
      BY <1>1, <2>1, TimesFinite, DurationAssumption DEF SinceReset, BeforeReset
    <2>3. IsFiniteSet(SinceReset') /\ IsFiniteSet(BeforeReset')
      BY <2>2, TimesFinite, FS_Subset
    <2>4. SumFunctionOnSet(pausedAt, SinceReset') = 0
      BY <2>2, <2>3, SumZero
    <2>5. PausesAt(SinceReset)' = 1
      BY <1>3, <2>2, <2>3, <2>4 DEF PausesAt
    <2>6. PausesAt(BeforeReset)' = SumFunctionOnSet(pausedAt, BeforeReset')
      BY <1>3, <2>2, <2>3 DEF PausesAt
    <2>7. SumFunctionOnSet(pausedAt, BeforeReset') <= PausesAt(SinceReset)
      <3> DEFINE young == BeforeReset' \intersect SinceReset
      <3>1. /\ IsFiniteSet(young) /\ IsFiniteSet(SinceReset \ young)
            /\ IsFiniteSet(BeforeReset' \ young)
        BY <2>3, TimesFinite, FS_Subset
      <3>2. /\ \A t \in Times : pausedAt[t] \in Int /\ pausedAt[t] \in Nat
            /\ \A t \in SinceReset : pausedAt[t] \in Int
            /\ \A t \in SinceReset \ young : pausedAt[t] \in Nat
            /\ \A t \in BeforeReset' : pausedAt[t] \in Int
            /\ \A t \in BeforeReset' \ young : pausedAt[t] = 0
        BY <2>2, TimesFinite
      <3>3. young \in SUBSET SinceReset /\ young \in SUBSET BeforeReset'
        OBVIOUS
      <3> HIDE DEF young
      <3>4. SumFunctionOnSet(pausedAt, BeforeReset')
               = SumFunctionOnSet(pausedAt, young)
                 + SumFunctionOnSet(pausedAt, BeforeReset' \ young)
        BY <2>3, <3>2, <3>3, SumSplit
      <3>5. SumFunctionOnSet(pausedAt, BeforeReset' \ young) = 0
        BY <3>1, <3>2, SumZero
      <3>6. SumFunctionOnSet(pausedAt, SinceReset)
               = SumFunctionOnSet(pausedAt, young)
                 + SumFunctionOnSet(pausedAt, SinceReset \ young)
        <4>1. IsFiniteSet(SinceReset)
          BY TimesFinite
        <4>2. \A t \in SinceReset : pausedAt[t] \in Int
          BY <3>2
        <4> HIDE DEF TypeOK, DayInv
        <4> QED
          BY <4>1, <4>2, <3>3, SumSplit
      <3>7. SumFunctionOnSet(pausedAt, SinceReset \ young) \in Nat
        BY <3>1, <3>2, SumNat
      <3>8. SumFunctionOnSet(pausedAt, young) \in Int
        BY <1>3, <3>1, <3>3, TimesFinite
      <3> QED
        BY <3>4, <3>5, <3>6, <3>7, <3>8 DEF PausesAt
    <2>8. PausesAt(BeforeReset)' <= MAX_DAILY
      <3>1. PausesAt(SinceReset) \in Int /\ PausesAt(BeforeReset)' \in Int
        BY <1>3, <2>2, <2>3, <2>6, TimesFinite DEF PausesAt
      <3> QED
        BY <1>1, <2>6, <2>7, <3>1, LimitAssumption
    <2>9. \A t \in Times : pausedAt'[t] > 0 =>
              /\ t <= now'
              /\ now' < t + DAILY_RESET_INTERVAL
              /\ t < panic'.lastReset + DAILY_RESET_INTERVAL
      BY <1>1, <2>1, TimesFinite, DurationAssumption
    <2> QED
      BY <1>1, <1>2, <2>1, <2>5, <2>8, <2>9, LimitAssumption
  <1> QED
    BY <1>4, <1>5

\* The counter of the day and its allowance account for every pause of the last day.
THEOREM DayInvariant == HSpec => []DayInv
  <1>1. HInit => DayInv
    <2> SUFFICES ASSUME HInit PROVE DayInv
      OBVIOUS
    <2>1. /\ now = Genesis /\ now \in Times
          /\ panic.daily = 0 /\ panic.lastReset = 0
          /\ pausedAt \in [Times -> Nat]
          /\ \A t \in Times : pausedAt[t] = 0
      BY ClockAssumption DEF HInit, Init, ZeroPanic, Times
    <2>2. PausesAt(SinceReset) = 0 /\ PausesAt(BeforeReset) = 0
      BY <2>1, TimesFinite, SumZero DEF PausesAt
    <2> QED
      BY <2>1, <2>2, TimesFinite, LimitAssumption, ClockAssumption DEF DayInv
  <1>2. TypeOK /\ DayInv /\ [HNext]_hvars => DayInv'
    <2> SUFFICES ASSUME TypeOK, DayInv, [HNext]_hvars PROVE DayInv'
      OBVIOUS
    <2>1. CASE HTick
      BY <2>1, TickForgets
    <2>2. CASE HPause
      BY <2>2, PauseIsCounted
    <2>3. CASE HOther
      <3>1. /\ now' = now /\ pausedAt' = pausedAt
            /\ panic'.daily = panic.daily /\ panic'.lastReset = panic.lastReset
        BY <2>3 DEF HOther, PanicUnpause, PanicUnpausePermissionless, Unpause,
                    InitializeGroup, PropagateFee, TypeOK, PanicState
      <3> QED
        BY <3>1 DEF DayInv, PausesAt, SinceReset, BeforeReset
    <2>4. CASE UNCHANGED hvars
      BY <2>4 DEF hvars, DayInv, PausesAt, SinceReset, BeforeReset
    <2> QED
      BY <2>1, <2>2, <2>3, <2>4 DEF HNext
  <1> QED
    BY <1>1, <1>2, HistoryIsSpec, TypeCorrect, PTL DEF HSpec

\* In any stretch of a day the admin gets at most two allowances of pauses accepted.
THEOREM DayIsCapped == HSpec => []RollingDayCap
  <1>1. TypeOK /\ DayInv => RollingDayCap
    <2> SUFFICES ASSUME TypeOK, DayInv PROVE RollingDayCap
      OBVIOUS
    <2>0. /\ \A t \in Times : pausedAt[t] \in Int
          /\ \A t \in SinceReset : pausedAt[t] \in Int
          /\ \A t \in BeforeReset : pausedAt[t] \in Int
      BY TimesFinite DEF DayInv
    <2>1. PausesAt(Times) = PausesAt(SinceReset) + PausesAt(BeforeReset)
      <3>1. SinceReset \in SUBSET Times /\ IsFiniteSet(Times)
        BY TimesFinite
      <3>2. SumFunctionOnSet(pausedAt, Times)
               = SumFunctionOnSet(pausedAt, SinceReset)
                 + SumFunctionOnSet(pausedAt, Times \ SinceReset)
        BY <2>0, <3>1, SumSplit
      <3> QED
        BY <3>2 DEF PausesAt, BeforeReset
    <2>2. PausesAt(SinceReset) \in Int /\ PausesAt(BeforeReset) \in Int
      BY <2>0, TimesFinite, SumRemove DEF PausesAt
    <2> QED
      BY <2>1, <2>2, LimitAssumption DEF DayInv, RollingDayCap, TypeOK, PanicState
  <1> QED
    BY <1>1, DayInvariant, HistoryIsSpec, TypeCorrect, PTL

=============================================================================
