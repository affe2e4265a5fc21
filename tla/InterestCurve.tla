---------------------------- MODULE InterestCurve ----------------------------
(***************************************************************************)
(* The base rate of a bank as a function of its utilization: the legacy    *)
(* curve of three points and the curve of up to seven.                     *)
(*                                                                         *)
(* The record of a curve has the fields of both, of which the type selects *)
(* one: optimal, plateau and max are the legacy curve's; zero and hundred, *)
(* the rates at the ends, and points, those in use, are the other's.       *)
(*                                                                         *)
(* Utilizations and rates are steps of a scale, as the u32 fractions of    *)
(* the code are; rates between two points are exact as long as Fine is a   *)
(* multiple of their distance.                                             *)
(***************************************************************************)
EXTENDS Integers, Sequences

CONSTANTS
    FullUtil,  \* 100% of utilization
    FullRate,  \* 1000%, the largest rate a u32 stands for
    Fine       \* interpolated rates are counted in 1/Fine of a step

ASSUME CurveAssumption ==
    FullUtil \in Nat \ {0} /\ FullRate \in Nat \ {0} /\ Fine \in Nat \ {0}

\* The fields of f over those of g
f ++ g == [x \in DOMAIN f \cup DOMAIN g |-> IF x \in DOMAIN f THEN f[x] ELSE g[x]]

Points == Seq([util : 0 .. FullUtil, rate : Nat])
Curves ==
    [type : {"legacy", "seven"}, optimal : Int, plateau : Int, max : Int,
     zero : Nat, hundred : Nat, points : Points]

\* Whether these are rates of an update
AreRates(rates) ==
    /\ DOMAIN rates \subseteq {"zero", "hundred", "points"}
    /\ \A f \in DOMAIN rates : rates[f] \in IF f = "points" THEN Points ELSE Nat

\* validate_legacy
ValidLegacy(c) ==
    /\ 0 < c.optimal /\ c.optimal < FullUtil
    /\ 0 < c.plateau /\ c.plateau < c.max

\* Wrong variant: the points need not lie between the rates at the ends.
ValidOrdered(c) ==
    /\ \A i \in DOMAIN c.points : c.points[i].util > 0
    /\ \A i \in 1 .. Len(c.points) - 1 :
           /\ c.points[i].util < c.points[i + 1].util
           /\ c.points[i].rate <= c.points[i + 1].rate
    /\ c.zero <= c.hundred

\* validate_seven_point. The points are those before the padding, so one at zero is a hole.
ValidSevenPoint(c) ==
    /\ \A i \in DOMAIN c.points : c.points[i].util > 0
    /\ \A i \in 1 .. Len(c.points) - 1 :
           /\ c.points[i].util < c.points[i + 1].util
           /\ c.points[i].rate <= c.points[i + 1].rate
    /\ c.zero <= c.hundred
    /\ \A i \in DOMAIN c.points : c.zero <= c.points[i].rate /\ c.points[i].rate <= c.hundred

\* InterestRateConfig::validate
ValidCurve(c) == IF c.type = "legacy" THEN ValidLegacy(c) ELSE ValidSevenPoint(c)

\* No rate: the accrual of interest fails.
NoRate == -1

\* interest_rate_curve
LegacyRate(c, ur) ==
    IF ur <= c.optimal
    THEN (ur * c.plateau * Fine) \div c.optimal
    ELSE c.plateau * Fine
         + ((ur - c.optimal) * (c.max - c.plateau) * Fine) \div (FullUtil - c.optimal)

\* lerp
Lerp(from, to, x) ==
    CASE to.util <= from.util -> from.rate * Fine
      [] to.util > from.util /\ (x < from.util \/ x > to.util \/ to.rate < from.rate) -> NoRate
      [] OTHER -> from.rate * Fine
                  + ((to.rate - from.rate) * (x - from.util) * Fine) \div (to.util - from.util)

\* interest_rate_multipoint_curve: between the last point below and the first point at
\* or above the utilization.
SevenPointRate(c, ur) ==
    LET all == <<[util |-> 0, rate |-> c.zero]>> \o c.points
                   \o <<[util |-> FullUtil, rate |-> c.hundred]>>
        i == CHOOSE k \in 2 .. Len(all) :
                 /\ k = Len(all) \/ ur <= all[k].util
                 /\ \A j \in 2 .. k - 1 : ur > all[j].util
    IN Lerp(all[i - 1], all[i], ur)

\* The base rate of calc_interest_rate
BaseRate(c, ur) == IF c.type = "legacy" THEN LegacyRate(c, ur) ELSE SevenPointRate(c, ur)

\* milli_to_u32: rates above 1000% become 1000%.
ClampRate(rate) == IF rate > FullRate THEN FullRate ELSE rate

\* InterestRateConfig::update: the rates and points of an update replace the curve's, and the
\* curve becomes one of seven points whether the update has any or not.
UpdatedCurve(c, rates) == [(rates ++ c) EXCEPT !.type = "seven"]

\* Wrong variant: no point where the legacy curve bends.
MigratedStraight(c) ==
    IF c.type = "seven" THEN c
    ELSE [type |-> "seven", optimal |-> 0, plateau |-> 0, max |-> 0,
          zero |-> 0, hundred |-> ClampRate(c.max), points |-> <<>>]

\* What migrate_curve makes of a curve: a point where the legacy curve bends.
Migrated(c) ==
    IF c.type = "seven" THEN c
    ELSE [type |-> "seven", optimal |-> 0, plateau |-> 0, max |-> 0,
          zero |-> 0, hundred |-> ClampRate(c.max),
          points |-> <<[util |-> c.optimal, rate |-> ClampRate(c.plateau)]>>]
=============================================================================
