----------------------------- MODULE ConfigProofs -----------------------------
(***************************************************************************)
(* Proofs about the settings of banks, their curves and their emissions,   *)
(* for every number of banks and holders and every configuration sent.     *)
(***************************************************************************)
EXTENDS Emissions, SumsAndQuotients

(* Curves *)

\* A quotient grows with its numerator...
LEMMA QuotientMonotonic ==
    ASSUME NEW m \in Nat, NEW n \in Nat, NEW d \in Nat \ {0}, m <= n
    PROVE  m \div d \in Nat /\ n \div d \in Nat /\ m \div d <= n \div d
  <1>1. /\ m \div d \in Nat /\ n \div d \in Nat
        /\ (m \div d) * d <= m
    BY Quotient
  <1>2. (m \div d) * d <= n
    <2>1. (m \div d) * d \in Int
      BY <1>1
    <2> QED
      BY <1>1, <2>1
  <1> QED
    BY <1>1, <1>2, QuotientAtLeast

\* ... and that of a multiple is exact.
LEMMA QuotientExact ==
    ASSUME NEW q \in Nat, NEW d \in Nat \ {0}
    PROVE  (q * d) \div d = q
  <1>1. q * d \in Nat
    OBVIOUS
  <1>2. q <= (q * d) \div d
    BY <1>1, QuotientAtLeast
  <1>3. (q * d) \div d <= q
    <2>1. q * d < q * d + d
      BY <1>1
    <2> QED
      BY <1>1, <2>1, QuotientAtMost
  <1>4. (q * d) \div d \in Nat
    BY <1>1, Quotient
  <1> QED
    BY <1>2, <1>3, <1>4

\* The part of the rise between two points that lies below x
LEMMA Rise ==
    ASSUME NEW rise \in Nat, NEW x \in Nat, NEW width \in Nat \ {0}
    PROVE  /\ rise * x * Fine \in Nat
           /\ (rise * x * Fine) \div width \in Nat
           /\ \A y \in Nat : x <= y =>
                  (rise * x * Fine) \div width <= (rise * y * Fine) \div width
           /\ x = 0 => (rise * x * Fine) \div width = 0
           /\ x = width => (rise * x * Fine) \div width = rise * Fine
  <1> USE CurveAssumption
  <1>0. Fine \in Nat /\ rise * Fine \in Nat
    OBVIOUS
  <1>1. \A y \in Nat : rise * y * Fine = y * (rise * Fine) /\ y * (rise * Fine) \in Nat
    OBVIOUS
  <1> DEFINE k == rise * Fine
  <1> HIDE DEF k
  <1>2. k \in Nat /\ \A y \in Nat : rise * y * Fine = y * k /\ y * k \in Nat
    BY <1>0, <1>1 DEF k
  <1>3. x * k \in Nat /\ (x * k) \div width \in Nat
    BY <1>2, Quotient
  <1>4. ASSUME NEW y \in Nat, x <= y
        PROVE  (x * k) \div width <= (y * k) \div width
    <2>1. x * k <= y * k
      BY <1>2, <1>4, ProductMonotonic
    <2> QED
      BY <1>2, <2>1, QuotientMonotonic
  <1>5. ASSUME x = 0 PROVE (x * k) \div width = 0
    <2>1. x * k = 0
      BY <1>2, <1>5
    <2>2. 0 \div width = 0
      OBVIOUS
    <2> QED
      BY <2>1, <2>2
  <1>6. ASSUME x = width PROVE (x * k) \div width = k
    <2>1. x * k = k * width
      BY <1>2, <1>6
    <2> QED
      BY <1>2, <2>1, QuotientExact
  <1> QED
    BY <1>2, <1>3, <1>4, <1>5, <1>6 DEF k

\* Between two points the rate rises from that of the one to that of the other.
LEMMA LerpBetween ==
    ASSUME NEW from \in [util : Nat, rate : Nat], NEW to \in [util : Nat, rate : Nat],
           from.util < to.util, from.rate <= to.rate,
           NEW x \in from.util .. to.util
    PROVE  /\ Lerp(from, to, x) =
                  from.rate * Fine
                  + ((to.rate - from.rate) * (x - from.util) * Fine) \div (to.util - from.util)
           /\ Lerp(from, to, x) \in Nat
           /\ from.rate * Fine <= Lerp(from, to, x) /\ Lerp(from, to, x) <= to.rate * Fine
           /\ from.rate * Fine \in Nat /\ to.rate * Fine \in Nat
           /\ \A y \in x .. to.util : Lerp(from, to, x) <= Lerp(from, to, y)
           /\ x = from.util => Lerp(from, to, x) = from.rate * Fine
           /\ x = to.util => Lerp(from, to, x) = to.rate * Fine
  <1> DEFINE rise == to.rate - from.rate
             width == to.util - from.util
             part(y) == (rise * (y - from.util) * Fine) \div width
  <1>1. /\ rise \in Nat /\ width \in Nat \ {0}
        /\ from.rate \in Nat /\ to.rate \in Nat /\ from.util \in Nat /\ to.util \in Nat
    OBVIOUS
  <1>2. \A y \in from.util .. to.util :
            y - from.util \in Nat /\ Lerp(from, to, y) = from.rate * Fine + part(y)
    BY <1>1 DEF Lerp
  <1>3. \A y \in from.util .. to.util :
            /\ part(y) \in Nat
            /\ \A z \in y .. to.util : part(y) <= part(z)
            /\ y = from.util => part(y) = 0
            /\ y = to.util => part(y) = rise * Fine
    <2> TAKE y \in from.util .. to.util
    <2> DEFINE at == y - from.util
    <2> HIDE DEF rise, width, at
    <2>1. at \in Nat
      BY <1>2 DEF at
    <2>6. /\ (rise * at * Fine) \div width \in Nat
          /\ \A z \in Nat : at <= z =>
                 (rise * at * Fine) \div width <= (rise * z * Fine) \div width
          /\ at = 0 => (rise * at * Fine) \div width = 0
          /\ at = width => (rise * at * Fine) \div width = rise * Fine
      <3>1. rise \in Nat
        BY <1>1
      <3>2. width \in Nat \ {0}
        BY <1>1
      <3> QED
        BY ONLY <2>1, <3>1, <3>2, Rise
    <2>2. /\ part(y) \in Nat
          /\ \A z \in Nat : at <= z => part(y) <= (rise * z * Fine) \div width
          /\ at = 0 => part(y) = 0
          /\ at = width => part(y) = rise * Fine
      BY <2>6 DEF at
    <2>3. \A z \in y .. to.util : z - from.util \in Nat /\ at <= z - from.util
      BY <1>1 DEF at
    <2> HIDE DEF part
    <2>4. \A z \in y .. to.util : part(y) <= part(z)
      BY <2>2, <2>3 DEF part
    <2>5. (y = from.util => at = 0) /\ (y = to.util => at = width)
      BY <1>1 DEF width, at
    <2> QED
      BY <2>2, <2>4, <2>5
  <1> HIDE DEF part
  <1>4. /\ Fine \in Nat /\ from.rate * Fine \in Nat /\ to.rate * Fine \in Nat
        /\ rise * Fine \in Nat
        /\ from.rate * Fine + rise * Fine = to.rate * Fine
    BY <1>1, CurveAssumption
  <1> DEFINE low == from.rate * Fine
             high == to.rate * Fine
             full == rise * Fine
  <1> HIDE DEF low, high, full, rise, width
  <1>5. /\ low \in Nat /\ high \in Nat /\ full \in Nat /\ low + full = high
    BY <1>4 DEF low, high, full
  <1>6. part(x) <= full
    BY <1>1, <1>3 DEF full
  <1>7. /\ Lerp(from, to, x) = low + part(x) /\ part(x) \in Nat
        /\ \A y \in x .. to.util : Lerp(from, to, y) = low + part(y) /\ part(y) \in Nat
    BY <1>1, <1>2, <1>3 DEF low
  <1>8. /\ Lerp(from, to, x) \in Nat
        /\ low <= Lerp(from, to, x) /\ Lerp(from, to, x) <= high
    BY <1>5, <1>6, <1>7
  <1>9. \A y \in x .. to.util : Lerp(from, to, x) <= Lerp(from, to, y)
    BY <1>3, <1>5, <1>7
  <1>10. /\ x = from.util => Lerp(from, to, x) = low
         /\ x = to.util => Lerp(from, to, x) = high
    BY <1>3, <1>5, <1>7 DEF full
  <1>11. Lerp(from, to, x) = from.rate * Fine
             + ((to.rate - from.rate) * (x - from.util) * Fine) \div (to.util - from.util)
    BY <1>2 DEF part, rise, width
  <1> QED
    BY <1>5, <1>8, <1>9, <1>10, <1>11 DEF low, high

\* A sequence with an element put before it and one after it
LEMMA Enclosed ==
    ASSUME NEW P, NEW s \in Seq(P), NEW f \in P, NEW l \in P
    PROVE  LET t == <<f>> \o s \o <<l>>
           IN /\ Len(t) = Len(s) + 2
              /\ t[1] = f /\ t[Len(s) + 2] = l
              /\ \A i \in 1 .. Len(s) : t[i + 1] = s[i]
  <1> DEFINE u == <<f>> \o s
  <1>1. /\ Len(s) \in Nat /\ Len(<<f>>) = 1 /\ <<f>> \in Seq(P) /\ <<f>>[1] = f
        /\ Len(<<l>>) = 1 /\ <<l>> \in Seq(P) /\ <<l>>[1] = l
    OBVIOUS
  <1>2. /\ u \in Seq(P) /\ Len(u) = Len(s) + 1
        /\ u[1] = f
        /\ \A i \in 1 .. Len(s) : u[i + 1] = s[i]
    BY <1>1
  <1> HIDE DEF u
  <1>3. /\ Len(u \o <<l>>) = Len(s) + 2
        /\ (u \o <<l>>)[Len(s) + 2] = l
        /\ \A i \in 1 .. Len(s) + 1 : (u \o <<l>>)[i] = u[i]
    BY <1>1, <1>2
  <1>4. \A i \in 1 .. Len(s) : i + 1 \in 1 .. Len(s) + 1
    BY <1>1
  <1>5. 1 \in 1 .. Len(s) + 1
    BY <1>1
  <1> QED
    BY <1>2, <1>3, <1>4, <1>5 DEF u

\* The points of a curve and its ends, as SevenPointRate puts them together
Knots(c) ==
    <<[util |-> 0, rate |-> c.zero]>> \o c.points \o <<[util |-> FullUtil, rate |-> c.hundred]>>

\* The points of a curve are in order, with its ends.
LEMMA KnotsOrdered ==
    ASSUME NEW c \in Curves, ValidSevenPoint(c)
    PROVE  LET n == Len(c.points) + 2
               all == Knots(c)
           IN /\ n \in Nat /\ n >= 2 /\ Len(all) = n
              /\ all[1] = [util |-> 0, rate |-> c.zero]
              /\ all[n] = [util |-> FullUtil, rate |-> c.hundred]
              /\ n > 2 => all[n - 1] = c.points[Len(c.points)]
              /\ \A i \in 1 .. n : all[i] \in [util : 0 .. FullUtil, rate : Nat]
              /\ \A i \in 1 .. n - 2 : all[i].util < all[i + 1].util
              /\ \A i \in 1 .. n - 1 : all[i].rate <= all[i + 1].rate
  <1> DEFINE n == Len(c.points) + 2
             all == Knots(c)
             first == [util |-> 0, rate |-> c.zero]
             last == [util |-> FullUtil, rate |-> c.hundred]
             P == [util : 0 .. FullUtil, rate : Nat]
  <1>1. /\ c.points \in Seq(P) /\ c.zero \in Nat /\ c.hundred \in Nat
        /\ FullUtil \in Nat \ {0}
    BY CurveAssumption DEF Curves, Points
  <1>2. first \in P /\ last \in P
    BY <1>1
  <1> HIDE DEF first, last, P
  <1>3. /\ Len(c.points) \in Nat
        /\ \A i \in 1 .. Len(c.points) : c.points[i] \in P
        /\ DOMAIN c.points = 1 .. Len(c.points)
    BY <1>1
  <1>4. /\ Len(all) = n
        /\ all[1] = first /\ all[n] = last
        /\ \A i \in 1 .. Len(c.points) : all[i + 1] = c.points[i]
    <2>1. /\ Len(<<first>> \o c.points \o <<last>>) = n
          /\ (<<first>> \o c.points \o <<last>>)[1] = first
          /\ (<<first>> \o c.points \o <<last>>)[n] = last
          /\ \A i \in 1 .. Len(c.points) :
                 (<<first>> \o c.points \o <<last>>)[i + 1] = c.points[i]
      BY <1>1, <1>2, Enclosed
    <2> QED
      BY <2>1 DEF Knots, first, last
  <1>5. \A i \in 2 .. n - 1 : all[i] = c.points[i - 1] /\ i - 1 \in 1 .. Len(c.points)
    BY <1>3, <1>4
  <1> HIDE DEF all
  <1>6. \A i \in 1 .. n : all[i] \in P
    <2> SUFFICES ASSUME NEW i \in 1 .. n PROVE all[i] \in P
      OBVIOUS
    <2>1. i = 1 \/ i = n \/ i \in 2 .. n - 1
      BY <1>3
    <2> QED
      BY <1>2, <1>3, <1>4, <1>5, <2>1
  <1>7. /\ first.util = 0 /\ first.rate = c.zero /\ last.util = FullUtil /\ last.rate = c.hundred
        /\ \A p \in P : p.util \in Nat /\ p.rate \in Nat /\ p.util <= FullUtil
    BY <1>1 DEF first, last, P
  <1>8. \A i \in 1 .. n - 2 : all[i].util < all[i + 1].util
    <2> SUFFICES ASSUME NEW i \in 1 .. n - 2 PROVE all[i].util < all[i + 1].util
      OBVIOUS
    <2>1. CASE i = 1
      <3>1. all[2] = c.points[1] /\ 1 \in DOMAIN c.points
        BY <1>3, <1>5, <2>1
      <3> QED
        BY <1>4, <1>7, <2>1, <3>1 DEF ValidSevenPoint
    <2>2. CASE i # 1
      <3>1. i \in 2 .. n - 1 /\ i + 1 \in 2 .. n - 1 /\ i + 1 - 1 = i - 1 + 1
        BY <1>3, <2>2
      <3>2. all[i] = c.points[i - 1] /\ all[i + 1] = c.points[i - 1 + 1]
        BY <1>5, <3>1
      <3>3. i - 1 \in 1 .. Len(c.points) - 1
        BY <1>3, <2>2
      <3> QED
        BY <3>2, <3>3 DEF ValidSevenPoint
    <2> QED
      BY <2>1, <2>2
  <1>9. \A i \in 1 .. n - 1 : all[i].rate <= all[i + 1].rate
    <2> SUFFICES ASSUME NEW i \in 1 .. n - 1 PROVE all[i].rate <= all[i + 1].rate
      OBVIOUS
    <2>1. CASE n = 2
      BY <1>3, <1>4, <1>7, <2>1 DEF ValidSevenPoint
    <2>2. CASE n > 2 /\ i = 1
      <3>1. all[2] = c.points[1] /\ 1 \in DOMAIN c.points
        BY <1>3, <1>5, <2>2
      <3> QED
        BY <1>4, <1>7, <2>2, <3>1 DEF ValidSevenPoint
    <2>3. CASE n > 2 /\ i = n - 1
      <3>1. /\ all[i] = c.points[Len(c.points)] /\ Len(c.points) \in DOMAIN c.points
            /\ all[i + 1] = last
        BY <1>3, <1>4, <1>5, <2>3
      <3> QED
        BY <1>7, <3>1 DEF ValidSevenPoint
    <2>4. CASE i # 1 /\ i # n - 1
      <3>1. i \in 2 .. n - 1 /\ i + 1 \in 2 .. n - 1 /\ i + 1 - 1 = i - 1 + 1
        BY <1>3, <2>4
      <3>2. all[i] = c.points[i - 1] /\ all[i + 1] = c.points[i - 1 + 1]
        BY <1>5, <3>1
      <3>3. i - 1 \in 1 .. Len(c.points) - 1
        BY <1>3, <2>4
      <3> QED
        BY <3>2, <3>3 DEF ValidSevenPoint
    <2> QED
      BY <1>3, <2>1, <2>2, <2>3, <2>4
  <1>10. n > 2 => all[n - 1] = c.points[Len(c.points)]
    BY <1>3, <1>5
  <1> QED
    BY <1>3, <1>4, <1>6, <1>8, <1>9, <1>10 DEF first, last, P, all

\* The point above the utilization that SevenPointRate picks
Above(all, ur) ==
    CHOOSE k \in 2 .. Len(all) :
        /\ k = Len(all) \/ ur <= all[k].util
        /\ \A j \in 2 .. k - 1 : ur > all[j].util

\* Above chooses a point that qualifies, if there is one.
LEMMA AboveChosen ==
    ASSUME NEW all, NEW ur, NEW m \in 2 .. Len(all),
           m = Len(all) \/ ur <= all[m].util,
           \A j \in 2 .. m - 1 : ur > all[j].util
    PROVE  /\ Above(all, ur) \in 2 .. Len(all)
           /\ Above(all, ur) = Len(all) \/ ur <= all[Above(all, ur)].util
           /\ \A j \in 2 .. Above(all, ur) - 1 : ur > all[j].util
  BY DEF Above

\* There is one, and the utilization lies between it and the point below.
LEMMA SegmentFound ==
    ASSUME NEW c \in Curves, ValidSevenPoint(c), NEW ur \in 0 .. FullUtil
    PROVE  LET all == Knots(c)
               k == Above(all, ur)
           IN /\ k \in 2 .. Len(all)
              /\ \A j \in 2 .. k - 1 : ur > all[j].util
              /\ all[k - 1] \in [util : Nat, rate : Nat] /\ all[k] \in [util : Nat, rate : Nat]
              /\ all[k - 1].util < all[k].util
              /\ all[k - 1].rate <= all[k].rate
              /\ ur \in all[k - 1].util .. all[k].util
              /\ k = 2 \/ all[k - 1].util < ur
              /\ SevenPointRate(c, ur) = Lerp(all[k - 1], all[k], ur)
  <1> DEFINE all == Knots(c)
             n == Len(c.points) + 2
             k == Above(all, ur)
             low == {i \in 1 .. n - 1 : \A j \in 2 .. i : ur > all[j].util}
  <1>1. /\ n \in Nat /\ n >= 2 /\ Len(all) = n
        /\ all[1] = [util |-> 0, rate |-> c.zero]
        /\ all[n] = [util |-> FullUtil, rate |-> c.hundred]
        /\ \A i \in 1 .. n : all[i] \in [util : 0 .. FullUtil, rate : Nat]
        /\ \A i \in 1 .. n - 2 : all[i].util < all[i + 1].util
        /\ \A i \in 1 .. n - 1 : all[i].rate <= all[i + 1].rate
    BY KnotsOrdered
  <1>2. SevenPointRate(c, ur) = Lerp(all[k - 1], all[k], ur)
    BY DEF SevenPointRate, Above, Knots
  <1>3. FullUtil \in Nat \ {0} /\ ur \in Nat /\ ur <= FullUtil
    BY CurveAssumption
  <1> HIDE DEF all, n
  <1>4. PICK m \in low : \A i \in low : i <= m
    <2>1. 1 \in low
      <3>1. n \in Nat /\ n >= 2
        BY <1>1
      <3>2. 1 \in 1 .. n - 1
        BY <3>1
      <3>3. \A j \in 2 .. 1 : ur > all[j].util
        OBVIOUS
      <3> QED
        BY <3>2, <3>3
    <2>2. low \in SUBSET Int /\ low # {}
      <3>1. n \in Nat
        BY <1>1
      <3>2. 1 .. n - 1 \subseteq Int /\ low \subseteq 1 .. n - 1
        BY <3>1
      <3> QED
        BY <2>1, <3>2
    <2>3. IsFiniteSet(low)
      <3>1. low \subseteq 1 .. n - 1
        OBVIOUS
      <3>2. IsFiniteSet(1 .. n - 1)
        BY <1>1, FS_Interval
      <3> HIDE DEF low
      <3> QED
        BY <3>1, <3>2, FS_Subset
    <2> HIDE DEF low
    <2> QED
      BY <2>2, <2>3, MaxExists
  <1>5. /\ m + 1 \in 2 .. n
        /\ m + 1 = n \/ ur <= all[m + 1].util
        /\ m \in Nat
        /\ \A j \in 2 .. m : ur > all[j].util
    <2>1. m \in 1 .. n - 1 /\ \A j \in 2 .. m : ur > all[j].util
      BY <1>4
    <2>2. ASSUME m + 1 # n, ~(ur <= all[m + 1].util) PROVE FALSE
      <3>1. m + 1 \in 1 .. n - 1
        BY <1>1, <2>1, <2>2
      <3>2. all[m + 1].util \in Nat
        BY <1>1, <1>3, <3>1
      <3>3. \A j \in 2 .. m + 1 : j \in 2 .. m \/ j = m + 1
        BY <2>1
      <3>4. ur > all[m + 1].util
        BY <1>3, <2>2, <3>2
      <3>5. m + 1 \in low
        BY <2>1, <3>1, <3>3, <3>4
      <3> QED
        BY <1>4, <2>1, <3>5
    <2>3. m + 1 \in 2 .. n /\ m + 1 - 1 = m
      BY <1>1, <2>1
    <2> QED
      BY <2>1, <2>2, <2>3
  <1>6. /\ k \in 2 .. n
        /\ k = n \/ ur <= all[k].util
        /\ \A j \in 2 .. k - 1 : ur > all[j].util
    <2> HIDE DEF k, low
    <2> DEFINE q == m + 1
    <2>1. /\ q \in 2 .. Len(all)
          /\ q = Len(all) \/ ur <= all[q].util
      BY <1>1, <1>5
    <2>3. \A j \in 2 .. q - 1 : ur > all[j].util
      <3>1. q - 1 = m
        BY <1>5
      <3> QED
        BY <1>5, <3>1
    <2> HIDE DEF q
    <2>4. /\ Above(all, ur) \in 2 .. Len(all)
          /\ Above(all, ur) = Len(all) \/ ur <= all[Above(all, ur)].util
          /\ \A j \in 2 .. Above(all, ur) - 1 : ur > all[j].util
      BY ONLY <2>1, <2>3, AboveChosen
    <2>2. /\ k \in 2 .. Len(all)
          /\ k = Len(all) \/ ur <= all[k].util
          /\ \A j \in 2 .. k - 1 : ur > all[j].util
      BY <2>4 DEF k
    <2> QED
      BY <1>1, <2>2
  <1> HIDE DEF k, low
  <1>7. /\ k \in 1 .. n /\ k - 1 \in 1 .. n /\ k - 1 \in 1 .. n - 1 /\ k - 1 + 1 = k
        /\ k = 2 \/ k - 1 \in 2 .. k - 1
    BY <1>1, <1>6
  <1>8. /\ all[k - 1] \in [util : Nat, rate : Nat] /\ all[k] \in [util : Nat, rate : Nat]
        /\ all[k - 1].rate <= all[k].rate
    BY <1>1, <1>3, <1>7
  <1>9. all[k - 1].util <= ur /\ (k = 2 \/ all[k - 1].util < ur)
    <2>1. CASE k = 2
      BY <1>1, <1>3, <2>1
    <2>2. CASE k # 2
      BY <1>3, <1>6, <1>7, <1>8, <2>2
    <2> QED
      BY <2>1, <2>2
  <1>10. ur <= all[k].util
    <2>1. CASE k = n
      BY <1>1, <1>3, <2>1
    <2> QED
      BY <1>6, <2>1
  <1>11. all[k - 1].util < all[k].util
    <2>1. CASE k = 2 /\ k = n
      BY <1>1, <1>3, <2>1
    <2>2. CASE k # n
      <3>1. k - 1 \in 1 .. n - 2
        <4>1. n \in Nat /\ k \in 2 .. n
          BY <1>1, <1>6
        <4> QED
          BY <2>2, <4>1
      <3> QED
        BY <1>1, <1>7, <3>1
    <2>3. CASE k # 2
      BY <1>3, <1>8, <1>9, <1>10, <2>3
    <2> QED
      BY <2>1, <2>2, <2>3
  <1>12. ur \in all[k - 1].util .. all[k].util
    BY <1>3, <1>8, <1>9, <1>10
  <1> QED
    BY <1>1, <1>2, <1>6, <1>8, <1>9, <1>11, <1>12 DEF all, k

\* At every utilization the curve of seven points has a rate, no lower than at the one before.
LEMMA SevenPointDefined ==
    ASSUME NEW c \in Curves, ValidSevenPoint(c)
    PROVE  /\ \A u \in 0 .. FullUtil : SevenPointRate(c, u) \in Nat
           /\ \A u \in 1 .. FullUtil : SevenPointRate(c, u - 1) <= SevenPointRate(c, u)
  <1> DEFINE all == Knots(c)
             n == Len(c.points) + 2
             P == [util : Nat, rate : Nat]
             k(u) == Above(all, u)
             rate(u) == SevenPointRate(c, u)
  <1>1. \A u \in 0 .. FullUtil :
           /\ k(u) \in 2 .. n
           /\ \A j \in 2 .. k(u) - 1 : u > all[j].util
           /\ all[k(u) - 1] \in P /\ all[k(u)] \in P
           /\ all[k(u) - 1].util < all[k(u)].util
           /\ all[k(u) - 1].rate <= all[k(u)].rate
           /\ u \in all[k(u) - 1].util .. all[k(u)].util
           /\ rate(u) = Lerp(all[k(u) - 1], all[k(u)], u)
    BY KnotsOrdered, SegmentFound
  <1>2. /\ n \in Nat /\ n >= 2
        /\ \A i \in 1 .. n - 2 : all[i].util < all[i + 1].util
    BY KnotsOrdered
  <1>3. FullUtil \in Nat \ {0}
    BY CurveAssumption
  <1> HIDE DEF all, n, k, rate, P
  <1>4. \A u \in 0 .. FullUtil :
           /\ rate(u) \in Nat
           /\ all[k(u) - 1].rate * Fine <= rate(u) /\ rate(u) <= all[k(u)].rate * Fine
           /\ all[k(u) - 1].rate * Fine \in Nat /\ all[k(u)].rate * Fine \in Nat
           /\ \A y \in u .. all[k(u)].util :
                 rate(u) <= Lerp(all[k(u) - 1], all[k(u)], y)
    <2> TAKE u \in 0 .. FullUtil
    <2>1. /\ all[k(u) - 1] \in [util : Nat, rate : Nat]
          /\ all[k(u)] \in [util : Nat, rate : Nat]
          /\ all[k(u) - 1].util < all[k(u)].util
          /\ all[k(u) - 1].rate <= all[k(u)].rate
          /\ u \in all[k(u) - 1].util .. all[k(u)].util
      BY <1>1 DEF P
    <2> DEFINE from == all[k(u) - 1]
               to == all[k(u)]
    <2> HIDE DEF from, to
    <2>2. /\ from \in [util : Nat, rate : Nat] /\ to \in [util : Nat, rate : Nat]
          /\ from.util < to.util /\ from.rate <= to.rate
          /\ u \in from.util .. to.util
      BY <2>1 DEF from, to
    <2>3. /\ Lerp(from, to, u) \in Nat
          /\ from.rate * Fine <= Lerp(from, to, u) /\ Lerp(from, to, u) <= to.rate * Fine
          /\ from.rate * Fine \in Nat /\ to.rate * Fine \in Nat
          /\ \A y \in u .. to.util : Lerp(from, to, u) <= Lerp(from, to, y)
      BY <2>2, LerpBetween
    <2>4. rate(u) = Lerp(from, to, u)
      BY <1>1 DEF from, to
    <2> QED
      BY <2>3, <2>4 DEF from, to
  <1>5. ASSUME NEW u \in 1 .. FullUtil
        PROVE  rate(u - 1) <= rate(u)
    <2>0. u \in 0 .. FullUtil /\ u - 1 \in 0 .. FullUtil
      BY <1>3
    <2> DEFINE i == k(u - 1)
               j == k(u)
    <2>1. /\ i \in 2 .. n /\ j \in 2 .. n
          /\ all[i] \in P /\ all[j] \in P /\ all[i - 1] \in P /\ all[j - 1] \in P
          /\ u - 1 <= all[i].util /\ u <= all[j].util
          /\ \A l \in 2 .. i - 1 : u - 1 > all[l].util
          /\ \A l \in 2 .. j - 1 : u > all[l].util
      BY <1>1, <2>0 DEF P
    <2>3. /\ rate(u - 1) = Lerp(all[i - 1], all[i], u - 1)
          /\ rate(u) = Lerp(all[j - 1], all[j], u)
      BY <1>1, <2>0
    <2>4. /\ rate(u - 1) \in Nat /\ rate(u) \in Nat
          /\ all[i].rate * Fine \in Nat
          /\ rate(u - 1) <= all[i].rate * Fine
          /\ all[j - 1].rate * Fine <= rate(u)
          /\ \A y \in u - 1 .. all[i].util : rate(u - 1) <= Lerp(all[i - 1], all[i], y)
      BY <1>4, <2>0
    <2> HIDE DEF i, j
    <2>5. CASE i = j
      <3>1. u \in u - 1 .. all[i].util
        BY <2>1, <2>5 DEF P
      <3> QED
        BY <2>3, <2>4, <2>5, <3>1
    <2>6. CASE j < i
      <3>1. j \in 2 .. i - 1
        BY <2>1, <2>6
      <3>2. u - 1 > all[j].util /\ u <= all[j].util /\ all[j].util \in Nat
        BY <2>1, <3>1 DEF P
      <3> QED
        BY <3>2
    <2>7. CASE i < j
      <3>1. j = i + 1
        <4> SUFFICES ASSUME j # i + 1 PROVE FALSE
          OBVIOUS
        <4>1. i + 1 \in 2 .. j - 1 /\ i + 1 \in 2 .. n - 1 /\ i \in 1 .. n - 2
          BY <1>2, <2>1, <2>7
        <4>2. u > all[i + 1].util
          BY <2>1, <4>1
        <4>3. all[i].util < all[i + 1].util
          BY <1>2, <4>1
        <4>4. all[i + 1].util \in Nat /\ all[i].util \in Nat
          <5>1. i + 1 \in 1 .. n
            BY <1>2, <4>1
          <5>2. all[i + 1].util \in 0 .. FullUtil
            BY <5>1, KnotsOrdered DEF all, n
          <5> QED
            BY <1>3, <2>1, <5>2 DEF P
        <4> QED
          BY <2>1, <4>2, <4>3, <4>4
      <3>2. j - 1 = i
        BY <2>1, <3>1
      <3> DEFINE mid == all[i].rate * Fine
      <3> HIDE DEF mid
      <3>3. mid \in Nat /\ rate(u - 1) <= mid /\ mid <= rate(u)
        BY <2>4, <3>2 DEF mid
      <3> QED
        BY <2>4, <3>3
    <2> QED
      BY <2>1, <2>5, <2>6, <2>7
  <1> QED
    BY <1>4, <1>5 DEF rate

\* A curve of seven points starts at the rate of its one end and finishes at that of the other.
LEMMA SevenPointEnds ==
    ASSUME NEW c \in Curves, ValidSevenPoint(c)
    PROVE  /\ SevenPointRate(c, 0) = c.zero * Fine
           /\ c.points = <<>> \/ c.points[Len(c.points)].util < FullUtil
                  => SevenPointRate(c, FullUtil) = c.hundred * Fine
  <1> DEFINE all == Knots(c)
             n == Len(c.points) + 2
             i == Above(all, 0)
             k == Above(all, FullUtil)
             P == [util : Nat, rate : Nat]
  <1>1. /\ n \in Nat /\ n >= 2 /\ Len(all) = n
        /\ all[1] = [util |-> 0, rate |-> c.zero]
        /\ all[n] = [util |-> FullUtil, rate |-> c.hundred]
        /\ n > 2 => all[n - 1] = c.points[Len(c.points)]
        /\ \A j \in 1 .. n : all[j] \in [util : 0 .. FullUtil, rate : Nat]
        /\ \A j \in 1 .. n - 2 : all[j].util < all[j + 1].util
    BY KnotsOrdered
  <1>2. FullUtil \in Nat \ {0} /\ 0 \in 0 .. FullUtil /\ FullUtil \in 0 .. FullUtil
    BY CurveAssumption
  <1>3. SevenPointRate(c, 0) = c.zero * Fine
    <2>1. /\ i \in 2 .. n
          /\ all[i - 1] \in P /\ all[i] \in P
          /\ all[i - 1].util < all[i].util
          /\ all[i - 1].rate <= all[i].rate
          /\ 0 \in all[i - 1].util .. all[i].util
          /\ i = 2 \/ all[i - 1].util < 0
          /\ SevenPointRate(c, 0) = Lerp(all[i - 1], all[i], 0)
      BY <1>1, <1>2, SegmentFound
    <2> HIDE DEF all, n, i
    <2>2. i - 1 = 1
      BY <2>1 DEF P
    <2>3. all[1].util = 0 /\ all[1].rate = c.zero
      BY <1>1
    <2>4. Lerp(all[1], all[i], 0) = all[1].rate * Fine
      <3>1. /\ all[1] \in P /\ all[i] \in P /\ all[1].util < all[i].util
            /\ all[1].rate <= all[i].rate /\ 0 \in all[1].util .. all[i].util
        BY <2>1, <2>2
      <3> DEFINE from == all[1]
                 to == all[i]
      <3> HIDE DEF from, to
      <3>2. /\ from \in [util : Nat, rate : Nat] /\ to \in [util : Nat, rate : Nat]
            /\ from.util < to.util /\ from.rate <= to.rate /\ 0 \in from.util .. to.util
            /\ from.util = 0
        BY <2>3, <3>1 DEF from, to, P
      <3>3. 0 = from.util => Lerp(from, to, 0) = from.rate * Fine
        BY <3>2, LerpBetween
      <3> QED
        BY <3>2, <3>3 DEF from, to
    <2> QED
      BY <2>1, <2>2, <2>3, <2>4
  <1>4. ASSUME c.points = <<>> \/ c.points[Len(c.points)].util < FullUtil
        PROVE  SevenPointRate(c, FullUtil) = c.hundred * Fine
    <2>1. /\ k \in 2 .. n
          /\ \A j \in 2 .. k - 1 : FullUtil > all[j].util
          /\ all[k - 1] \in P /\ all[k] \in P
          /\ all[k - 1].util < all[k].util
          /\ all[k - 1].rate <= all[k].rate
          /\ FullUtil \in all[k - 1].util .. all[k].util
          /\ SevenPointRate(c, FullUtil) = Lerp(all[k - 1], all[k], FullUtil)
      BY <1>1, <1>2, SegmentFound
    <2>2. n > 2 => all[n - 1].util < FullUtil
      <3>1. n > 2 => c.points # <<>>
        BY DEF Curves, Points
      <3> QED
        BY <1>1, <1>4, <3>1
    <2> HIDE DEF all, n, k
    <2>3. k = n
      <3> SUFFICES ASSUME k # n PROVE FALSE
        OBVIOUS
      <3>1. n > 2 /\ k \in 1 .. n - 1
        BY <1>1, <2>1
      <3>2. all[k].util = FullUtil
        <4>1. all[k].util \in 0 .. FullUtil
          BY <1>1, <3>1
        <4> QED
          BY <1>2, <2>1, <4>1 DEF P
      <3>3. k # n - 1
        BY <1>2, <2>2, <3>1, <3>2
      <3>4. k \in 1 .. n - 2 /\ k + 1 \in 1 .. n
        BY <1>1, <3>1, <3>3
      <3>5. all[k].util < all[k + 1].util /\ all[k + 1].util \in 0 .. FullUtil
        BY <1>1, <3>4
      <3> QED
        BY <1>2, <3>2, <3>5
    <2>4. all[n].util = FullUtil /\ all[n].rate = c.hundred
      BY <1>1
    <2> DEFINE from == all[n - 1]
               to == all[n]
    <2> HIDE DEF from, to
    <2>5. /\ from \in [util : Nat, rate : Nat] /\ to \in [util : Nat, rate : Nat]
          /\ from.util < to.util /\ from.rate <= to.rate
          /\ FullUtil \in from.util .. to.util
          /\ to.util = FullUtil /\ to.rate = c.hundred
      BY <2>1, <2>3, <2>4 DEF from, to, P
    <2>6. FullUtil = to.util => Lerp(from, to, FullUtil) = to.rate * Fine
      BY <2>5, LerpBetween
    <2> QED
      BY <2>1, <2>3, <2>5, <2>6 DEF from, to
  <1> QED
    BY <1>3, <1>4

\* So has the legacy curve.
LEMMA LegacyDefined ==
    ASSUME NEW c \in Curves, ValidLegacy(c)
    PROVE  /\ \A u \in 0 .. FullUtil : LegacyRate(c, u) \in Nat
           /\ \A u \in 1 .. FullUtil : LegacyRate(c, u - 1) <= LegacyRate(c, u)
  <1> DEFINE o == c.optimal
             p == c.plateau
             rise == c.max - c.plateau
             width == FullUtil - c.optimal
             low(u) == (p * u * Fine) \div o
             high(u) == (rise * (u - o) * Fine) \div width
  <1>1. /\ o \in Nat \ {0} /\ p \in Nat /\ rise \in Nat /\ width \in Nat \ {0}
        /\ FullUtil \in Nat \ {0} /\ o < FullUtil
    BY CurveAssumption DEF Curves, ValidLegacy
  <1>2. Fine \in Nat /\ p * Fine \in Nat
    BY <1>1, CurveAssumption
  <1>3. \A u \in 0 .. FullUtil :
           LegacyRate(c, u) = IF u <= o THEN low(u) ELSE p * Fine + high(u)
    <2> TAKE u \in 0 .. FullUtil
    <2>1. u * c.plateau = c.plateau * u
      BY <1>1
    <2>2. (u - c.optimal) * (c.max - c.plateau) = (c.max - c.plateau) * (u - c.optimal)
      BY <1>1 DEF Curves
    <2> QED
      BY <2>1, <2>2 DEF LegacyRate
  <1> HIDE DEF o, p, rise, width
  <1>4. \A u \in 0 .. FullUtil : u <= o =>
           /\ low(u) \in Nat
           /\ \A v \in Nat : u <= v => low(u) <= low(v)
           /\ u = o => low(u) = p * Fine
    <2> TAKE u \in 0 .. FullUtil
    <2>1. u \in Nat
      BY <1>1
    <2>2. o \in Nat \ {0} /\ p \in Nat
      BY <1>1
    <2> QED
      BY ONLY <2>1, <2>2, Rise
  <1>5. \A u \in 0 .. FullUtil : u >= o =>
           /\ high(u) \in Nat
           /\ \A v \in 0 .. FullUtil : u <= v => high(u) <= high(v)
           /\ u = o => high(u) = 0
    <2> TAKE u \in 0 .. FullUtil
    <2> HAVE u >= o
    <2> DEFINE at == u - o
    <2> HIDE DEF at
    <2>1. at \in Nat
      BY <1>1 DEF at
    <2>2. rise \in Nat /\ width \in Nat \ {0}
      BY <1>1
    <2>3. /\ (rise * at * Fine) \div width \in Nat
          /\ \A y \in Nat : at <= y =>
                 (rise * at * Fine) \div width <= (rise * y * Fine) \div width
          /\ at = 0 => (rise * at * Fine) \div width = 0
      BY ONLY <2>1, <2>2, Rise
    <2>4. /\ high(u) \in Nat
          /\ \A y \in Nat : at <= y => high(u) <= (rise * y * Fine) \div width
          /\ at = 0 => high(u) = 0
      BY <2>3 DEF at
    <2>5. \A v \in 0 .. FullUtil : u <= v => v - o \in Nat /\ at <= v - o
      BY <1>1 DEF at
    <2>6. u = o => at = 0
      BY <1>1 DEF at
    <2> HIDE DEF high
    <2>7. \A v \in 0 .. FullUtil : u <= v => high(u) <= high(v)
      BY <2>4, <2>5 DEF high
    <2> QED
      BY <2>4, <2>6, <2>7
  <1> HIDE DEF low, high
  <1> DEFINE mid == p * Fine
  <1>6. mid \in Nat
    BY <1>2
  <1>7. \A u \in 0 .. FullUtil : LegacyRate(c, u) = IF u <= o THEN low(u) ELSE mid + high(u)
    BY <1>3
  <1>8. /\ \A u \in 0 .. FullUtil : u <= o =>
               low(u) \in Nat /\ (\A v \in Nat : u <= v => low(u) <= low(v))
               /\ (u = o => low(u) = mid)
    BY <1>4
  <1> HIDE DEF mid
  <1>9. \A u \in 0 .. FullUtil : LegacyRate(c, u) \in Nat
    BY <1>1, <1>5, <1>6, <1>7, <1>8
  <1>10. ASSUME NEW u \in 1 .. FullUtil
         PROVE  LegacyRate(c, u - 1) <= LegacyRate(c, u)
    <2>1. u \in 0 .. FullUtil /\ u - 1 \in 0 .. FullUtil /\ u - 1 <= u
      BY <1>1
    <2>2. CASE u <= o
      <3>1. u - 1 <= o
        BY <1>1, <2>1, <2>2
      <3>2. low(u - 1) <= low(u)
        BY <1>8, <2>1, <3>1
      <3> QED
        BY <1>7, <2>1, <2>2, <3>1, <3>2
    <2>3. CASE u - 1 >= o
      <3>1. high(u - 1) <= high(u) /\ high(u - 1) \in Nat /\ high(u) \in Nat
        BY <1>1, <1>5, <2>1, <2>3
      <3>2. ~(u <= o)
        BY <1>1, <2>1, <2>3
      <3>3. LegacyRate(c, u) = mid + high(u)
        BY <1>7, <2>1, <3>2
      <3>4. CASE u - 1 = o
        <4>1. LegacyRate(c, u - 1) = mid
          BY <1>1, <1>7, <1>8, <2>1, <3>4
        <4> QED
          BY <1>6, <3>1, <3>3, <4>1
      <3>5. CASE u - 1 # o
        <4>1. ~(u - 1 <= o)
          BY <1>1, <2>1, <2>3, <3>5
        <4>2. LegacyRate(c, u - 1) = mid + high(u - 1)
          BY <1>7, <2>1, <4>1
        <4> QED
          BY <1>6, <3>1, <3>3, <4>2
      <3> QED
        BY <3>4, <3>5
    <2>4. u <= o \/ u - 1 >= o
      BY <1>1, <2>1
    <2> QED
      BY <2>2, <2>3, <2>4
  <1> QED
    BY <1>9, <1>10

\* What a validated curve is: one that has a rate wherever the utilization is.
LEMMA ValidIsDefined ==
    ASSUME NEW c \in Curves, ValidCurve(c)
    PROVE  Defined(c)
  <1>1. CASE c.type = "legacy"
    <2>1. ValidLegacy(c)
      BY <1>1 DEF ValidCurve
    <2>2. /\ \A u \in 0 .. FullUtil : BaseRate(c, u) \in Nat
          /\ \A u \in 1 .. FullUtil : BaseRate(c, u - 1) <= BaseRate(c, u)
      BY <1>1, <2>1, LegacyDefined DEF BaseRate
    <2>3. \A r \in Nat : r # NoRate
      BY DEF NoRate
    <2> QED
      BY <1>1, <2>2, <2>3 DEF Defined
  <1>2. CASE c.type # "legacy"
    <2>1. ValidSevenPoint(c)
      BY <1>2 DEF ValidCurve
    <2>2. /\ \A u \in 0 .. FullUtil : BaseRate(c, u) \in Nat
          /\ \A u \in 1 .. FullUtil : BaseRate(c, u - 1) <= BaseRate(c, u)
          /\ BaseRate(c, 0) = c.zero * Fine
          /\ c.points = <<>> \/ c.points[Len(c.points)].util < FullUtil
                 => BaseRate(c, FullUtil) = c.hundred * Fine
      BY <1>2, <2>1, SevenPointDefined, SevenPointEnds DEF BaseRate
    <2>3. \A r \in Nat : r # NoRate
      BY DEF NoRate
    <2> QED
      BY <2>2, <2>3 DEF Defined
  <1> QED
    BY <1>1, <1>2

\* A quotient grows with the rise it is a part of.
LEMMA SteeperRise ==
    ASSUME NEW rise \in Nat, NEW more \in Nat, rise <= more, NEW x \in Nat,
           NEW width \in Nat \ {0}
    PROVE  /\ (rise * x * Fine) \div width \in Nat
           /\ (more * x * Fine) \div width \in Nat
           /\ (rise * x * Fine) \div width <= (more * x * Fine) \div width
  <1> USE CurveAssumption
  <1>1. \A r \in Nat : r * x * Fine = r * (x * Fine) /\ r * x * Fine \in Nat
    OBVIOUS
  <1>2. x * Fine \in Nat
    OBVIOUS
  <1> DEFINE k == x * Fine
  <1> HIDE DEF k
  <1>3. rise * k <= more * k
    BY <1>2, ProductMonotonic DEF k
  <1>4. /\ rise * x * Fine = rise * k /\ rise * k \in Nat
        /\ more * x * Fine = more * k /\ more * k \in Nat
    BY <1>1 DEF k
  <1> QED
    BY <1>3, <1>4, QuotientMonotonic

\* The migrated curve has the legacy curve's rates, or lower ones where those are above 1000%.
LEMMA MigratedKeepsRates ==
    ASSUME NEW c \in Curves, ValidCurve(c)
    PROVE  KeepsRates(c, Migrated(c))
  <1> DEFINE d == Migrated(c)
  <1>1. CASE c.type = "seven"
    <2>1. d = c
      BY <1>1 DEF Migrated
    <2>2. \A u \in 0 .. FullUtil : BaseRate(c, u) \in Nat
      <3>1. ValidSevenPoint(c)
        BY <1>1 DEF ValidCurve
      <3> QED
        BY <1>1, <3>1, SevenPointDefined DEF BaseRate
    <2> QED
      BY <2>1, <2>2 DEF KeepsRates
  <1>2. CASE c.type # "seven"
    <2> DEFINE o == c.optimal
               p == c.plateau
               m == c.max
               cp == ClampRate(p)
               cm == ClampRate(m)
               first == [util |-> 0, rate |-> 0]
               bend == [util |-> o, rate |-> cp]
               last == [util |-> FullUtil, rate |-> cm]
               P == [util : Nat, rate : Nat]
    <2>1. c.type = "legacy" /\ ValidLegacy(c)
      BY <1>2 DEF ValidCurve, Curves
    <2>2. /\ o \in Nat \ {0} /\ o < FullUtil /\ FullUtil \in Nat
          /\ p \in Nat /\ m \in Nat /\ p < m
      BY <2>1, CurveAssumption DEF ValidLegacy, Curves
    <2>3. /\ cp \in Nat /\ cm \in Nat /\ cp <= cm /\ cp <= p
          /\ cm - cp \in Nat /\ m - p \in Nat /\ cm - cp <= m - p
          /\ m <= FullRate => cp = p /\ cm = m
      BY <2>2, CurveAssumption DEF ClampRate
    <2>4. /\ d.type = "seven" /\ d.zero = 0 /\ d.hundred = cm /\ d.points = <<bend>>
      BY <1>2 DEF Migrated
    <2> HIDE DEF d, o, p, m, cp, cm
    <2>5. /\ d \in Curves /\ ValidSevenPoint(d)
      <3>1. first \in P /\ bend \in [util : 0 .. FullUtil, rate : Nat] /\ last \in P
        BY <2>2, <2>3
      <3>2. d \in Curves
        <4>1. d.points \in Points
          BY <2>4, <3>1 DEF Points
        <4>2. d = [type |-> "seven", optimal |-> 0, plateau |-> 0, max |-> 0,
                   zero |-> 0, hundred |-> d.hundred, points |-> d.points]
          BY <1>2 DEF d, Migrated
        <4> QED
          BY <2>3, <2>4, <4>1, <4>2 DEF Curves
      <3>3. Len(d.points) = 1 /\ d.points[1] = bend /\ DOMAIN d.points = {1}
        BY <2>4
      <3> QED
        BY <2>2, <2>3, <2>4, <3>2, <3>3 DEF ValidSevenPoint
    <2>6. /\ Len(Knots(d)) = 3
          /\ Knots(d)[1] = first /\ Knots(d)[2] = bend /\ Knots(d)[3] = last
      <3>1. Len(d.points) = 1 /\ d.points[1] = bend
        BY <2>4
      <3>2. /\ Len(Knots(d)) = 3
            /\ Knots(d)[1] = [util |-> 0, rate |-> d.zero]
            /\ Knots(d)[3] = [util |-> FullUtil, rate |-> d.hundred]
            /\ Knots(d)[2] = d.points[1]
        <4> DEFINE n == Len(d.points) + 2
        <4>1. /\ Len(Knots(d)) = n
              /\ Knots(d)[1] = [util |-> 0, rate |-> d.zero]
              /\ Knots(d)[n] = [util |-> FullUtil, rate |-> d.hundred]
              /\ n > 2 => Knots(d)[n - 1] = d.points[Len(d.points)]
          BY <2>5, KnotsOrdered
        <4>2. n = 3
          BY <3>1
        <4> HIDE DEF n
        <4>3. n > 2 /\ n - 1 = 2
          BY <4>2
        <4> QED
          BY <3>1, <4>1, <4>2, <4>3
      <3> QED
        BY <2>4, <3>1, <3>2
    <2>7. ASSUME NEW u \in 0 .. FullUtil
          PROVE  /\ BaseRate(d, u) <= BaseRate(c, u)
                 /\ m <= FullRate => BaseRate(d, u) = BaseRate(c, u)
      <3> DEFINE k == Above(Knots(d), u)
      <3>1. /\ k \in 2 .. 3
            /\ \A j \in 2 .. k - 1 : u > Knots(d)[j].util
            /\ Knots(d)[k - 1].util < Knots(d)[k].util
            /\ Knots(d)[k - 1].rate <= Knots(d)[k].rate
            /\ Knots(d)[k - 1] \in P /\ Knots(d)[k] \in P
            /\ u \in Knots(d)[k - 1].util .. Knots(d)[k].util
            /\ SevenPointRate(d, u) = Lerp(Knots(d)[k - 1], Knots(d)[k], u)
        BY <2>5, <2>6, SegmentFound
      <3> HIDE DEF k
      <3>2. CASE k = 2
        <4>1. /\ first \in P /\ bend \in P /\ first.util < bend.util
              /\ first.rate <= bend.rate /\ u \in first.util .. bend.util
              /\ SevenPointRate(d, u) = Lerp(first, bend, u)
          BY <2>6, <3>1, <3>2
        <4>2. Lerp(first, bend, u) = first.rate * Fine
                  + ((bend.rate - first.rate) * (u - first.util) * Fine)
                        \div (bend.util - first.util)
          <5> DEFINE f == first
                     b == bend
          <5> HIDE DEF f, b
          <5>1. /\ f \in [util : Nat, rate : Nat] /\ b \in [util : Nat, rate : Nat]
                /\ f.util < b.util /\ f.rate <= b.rate /\ u \in f.util .. b.util
            BY <4>1 DEF f, b
          <5>2. Lerp(f, b, u) = f.rate * Fine
                  + ((b.rate - f.rate) * (u - f.util) * Fine) \div (b.util - f.util)
            BY ONLY <5>1, LerpBetween
          <5> QED
            BY <5>2 DEF f, b
        <4>3. /\ first.rate * Fine = 0 /\ bend.rate - first.rate = cp
              /\ u - first.util = u /\ bend.util - first.util = o
          BY <2>2, <2>3, CurveAssumption
        <4>4. Lerp(first, bend, u) = (cp * u * Fine) \div o
          <5>1. u \in Nat /\ o \in Nat \ {0} /\ cp \in Nat
            BY <2>2, <2>3
          <5>2. (cp * u * Fine) \div o \in Nat
            BY ONLY <5>1, Rise
          <5>3. Lerp(first, bend, u) = 0 + (cp * u * Fine) \div o
            BY <4>2, <4>3
          <5> QED
            BY <5>2, <5>3
        <4>5. LegacyRate(c, u) = (p * u * Fine) \div o
          <5>1. u <= o
            BY <4>1
          <5>2. u * p = p * u
            BY <2>2
          <5> QED
            BY <5>1, <5>2 DEF LegacyRate, o, p
        <4>6. (cp * u * Fine) \div o <= (p * u * Fine) \div o
          <5>1. /\ cp \in Nat /\ p \in Nat /\ cp <= p /\ u \in Nat /\ o \in Nat \ {0}
            BY <2>2, <2>3
          <5> QED
            BY ONLY <5>1, SteeperRise
        <4> QED
          BY <2>1, <2>3, <2>4, <4>1, <4>4, <4>5, <4>6 DEF BaseRate
      <3>3. CASE k = 3
        <4>1. /\ bend \in P /\ last \in P /\ bend.util < last.util
              /\ bend.rate <= last.rate /\ u \in bend.util .. last.util
              /\ SevenPointRate(d, u) = Lerp(bend, last, u)
          BY <2>6, <3>1, <3>3
        <4>2. u > o
          BY <2>6, <3>1, <3>3
        <4>3. Lerp(bend, last, u) = bend.rate * Fine
                  + ((last.rate - bend.rate) * (u - bend.util) * Fine)
                        \div (last.util - bend.util)
          <5> DEFINE f == bend
                     b == last
          <5> HIDE DEF f, b
          <5>1. /\ f \in [util : Nat, rate : Nat] /\ b \in [util : Nat, rate : Nat]
                /\ f.util < b.util /\ f.rate <= b.rate /\ u \in f.util .. b.util
            BY <4>1 DEF f, b
          <5>2. Lerp(f, b, u) = f.rate * Fine
                  + ((b.rate - f.rate) * (u - f.util) * Fine) \div (b.util - f.util)
            BY ONLY <5>1, LerpBetween
          <5> QED
            BY <5>2 DEF f, b
        <4> DEFINE x == u - o
                   width == FullUtil - o
                   part(rise) == (rise * x * Fine) \div width
        <4>4. Lerp(bend, last, u) = cp * Fine + part(cm - cp)
          BY <4>3
        <4>5. LegacyRate(c, u) = p * Fine + part(m - p)
          <5>1. ~(u <= o)
            BY <2>2, <4>2
          <5>2. (u - o) * (m - p) = (m - p) * (u - o)
            BY <2>2
          <5> QED
            BY <5>1, <5>2 DEF LegacyRate, o, p, m
        <4>6. x \in Nat /\ width \in Nat \ {0}
          BY <2>2, <4>2
        <4> HIDE DEF x, width
        <4>7. /\ part(cm - cp) \in Nat /\ part(m - p) \in Nat
              /\ part(cm - cp) <= part(m - p)
          <5> DEFINE rise == cm - cp
                     more == m - p
          <5> HIDE DEF rise, more
          <5>1. rise \in Nat /\ more \in Nat /\ rise <= more
            BY <2>3 DEF rise, more
          <5>2. /\ (rise * x * Fine) \div width \in Nat
                /\ (more * x * Fine) \div width \in Nat
                /\ (rise * x * Fine) \div width <= (more * x * Fine) \div width
            BY ONLY <4>6, <5>1, SteeperRise
          <5> QED
            BY <5>2 DEF rise, more
        <4> HIDE DEF part
        <4>8. cp * Fine <= p * Fine /\ cp * Fine \in Nat /\ p * Fine \in Nat
          <5>1. Fine \in Nat
            BY CurveAssumption
          <5> QED
            BY <2>2, <2>3, <5>1, ProductMonotonic
        <4>9. /\ BaseRate(d, u) = cp * Fine + part(cm - cp)
              /\ BaseRate(c, u) = p * Fine + part(m - p)
          BY <2>1, <2>4, <4>1, <4>4, <4>5 DEF BaseRate
        <4>10. cp * Fine + part(cm - cp) <= p * Fine + part(m - p)
          BY <4>7, <4>8
        <4>11. m <= FullRate => BaseRate(d, u) = BaseRate(c, u)
          BY <2>3, <4>9
        <4> QED
          BY <4>9, <4>10, <4>11
      <3> QED
        BY <3>1, <3>2, <3>3
    <2> QED
      BY <2>7 DEF KeepsRates, d, m
  <1> QED
    BY <1>1, <1>2

-----------------------------------------------------------------------------
(* Settings *)

\* What is validated, and what was good of the rest, is good.
LEMMA ValidIsGood ==
    ASSUME NEW b, DOMAIN b = BankFields, Numeric(b), b.curve \in Curves, Valid(b), Agrees(b),
           \A e \in b.entries : e.init <= e.maint
    PROVE  GoodBank(b)
  <1>1. /\ b.ai \in Int /\ b.am \in Int /\ b.li \in Int /\ b.lm \in Int /\ b.age \in Int
    BY DEF Numeric, BankFields, ConfigFields
  <1>2. ValidWeights(b) /\ ValidCurve(b.curve) /\ b.age >= MinAge
    BY DEF Valid
  <1>3. /\ b.ai <= b.am /\ b.lm <= b.li /\ b.ai <= b.lm
        /\ b.tier = "isolated" => b.am = 0
    BY <1>1, <1>2 DEF ValidWeights, One
  <1> QED
    BY <1>2, <1>3 DEF GoodBank, Sound

\* Numbers over numbers are numbers.
LEMMA NumericOver ==
    ASSUME NEW f, NEW g, Numeric(f), Numeric(g)
    PROVE  Numeric(f ++ g)
  BY DEF Numeric, ++

\* A bank with fields replaced has all of its fields.
LEMMA FieldsOver ==
    ASSUME NEW f, NEW b, DOMAIN b = BankFields, DOMAIN f \subseteq BankFields
    PROVE  /\ DOMAIN (f ++ b) = BankFields
           /\ \A x \in BankFields \ DOMAIN f : (f ++ b)[x] = b[x]
           /\ \A x \in DOMAIN f : (f ++ b)[x] = f[x]
  BY DEF ++

\* What the steps do to the banks
LEMMA InsertKeeps ==
    ASSUME ConfigInv, NEW b, NEW bank, Valid(bank) => GoodBank(bank), Insert(b, bank)
    PROVE  ConfigInv'
  <1>1. GoodBank(bank) /\ GoodSettings(settings')
    BY DEF Insert, ConfigInv
  <1>2. /\ DOMAIN banks' = {b} \cup DOMAIN banks
        /\ \A x \in DOMAIN banks' : banks'[x] = IF x = b THEN bank ELSE banks[x]
    BY DEF Insert, ++
  <1>3. \A x \in DOMAIN banks' : GoodBank(banks'[x])
    BY <1>1, <1>2 DEF ConfigInv
  <1> QED
    BY <1>1, <1>3 DEF ConfigInv

\* Replacing a bank by a good one keeps the banks good.
LEMMA ReplaceKeeps ==
    ASSUME ConfigInv, NEW b, NEW bank, GoodBank(bank), Replace(b, bank)
    PROVE  ConfigInv'
  <1>1. /\ DOMAIN banks' = DOMAIN banks
        /\ \A x \in DOMAIN banks : banks'[x] = IF x = b THEN bank ELSE banks[x]
        /\ GoodSettings(settings')
    BY DEF Replace, ConfigInv
  <1>2. \A x \in DOMAIN banks' : GoodBank(banks'[x])
    BY <1>1 DEF ConfigInv
  <1> QED
    BY <1>1, <1>2 DEF ConfigInv

\* A bank added by the admin was validated.
LEMMA AddBankKeeps ==
    ASSUME ConfigInv, NEW b, NEW config \in NewConfigs, AddBank(b, config)
    PROVE  ConfigInv'
  <1> DEFINE bank == NewBank(config)
  <1>1. DOMAIN config = ConfigFields /\ Numeric(config) /\ config.curve \in Curves
    BY OptionsAssumption
  <1>2. /\ DOMAIN bank = BankFields
        /\ bank.curve = config.curve
        /\ bank.setup = "none" /\ bank.entries = {}
    BY <1>1 DEF NewBank, BankFields, ConfigFields, ++
  <1>3. Numeric(bank)
    BY <1>1 DEF NewBank, Numeric, BankFields, ConfigFields, ++
  <1>4. Agrees(bank)
    BY <1>2 DEF Agrees
  <1>5. Insert(b, bank)
    BY DEF AddBank
  <1> HIDE DEF bank
  <1>6. Valid(bank) => GoodBank(bank)
    BY <1>1, <1>2, <1>3, <1>4, ValidIsGood
  <1> QED
    BY <1>5, <1>6, InsertKeeps

\* The curve of a bank whose tokens are never lent
LEMMA NeverLentCurve ==
    /\ NeverLent.curve \in Curves
    /\ DOMAIN NeverLent = {"li", "lm", "borrowLimit", "curve"}
    /\ Numeric(NeverLent)
  <1>1. [util |-> 1, rate |-> 0] \in [util : 0 .. FullUtil, rate : Nat]
    BY CurveAssumption
  <1>2. <<[util |-> 1, rate |-> 0]>> \in Points
    BY <1>1 DEF Points
  <1>3. NeverLent.curve \in Curves
    BY <1>2 DEF NeverLent, Curves
  <1> QED
    BY <1>3 DEF NeverLent, Numeric

\* One added by anyone has the settings of the group, which were.
LEMMA AddStakedBankKeeps ==
    ASSUME ConfigInv, NEW b, AddStakedBank(b)
    PROVE  ConfigInv'
  <1> DEFINE kind == [setup |-> "staked_pyth", tag |-> "staked"]
             given == kind ++ settings ++ NeverLent
             bank == given ++ NewBank(given)
  <1>1. DOMAIN settings = StakedFields /\ Numeric(settings)
    BY DEF AddStakedBank, ConfigInv, GoodSettings
  <1>2. /\ DOMAIN given = StakedFields \cup {"setup", "tag", "li", "lm", "borrowLimit", "curve"}
        /\ given.setup = "staked_pyth" /\ given.curve = NeverLent.curve
        /\ given.feed = settings.feed
    BY <1>1, NeverLentCurve DEF ++, StakedFields
  <1>3. Numeric(kind)
    BY DEF Numeric
  <1>4. Numeric(given)
    <2> HIDE DEF kind
    <2> QED
      BY <1>1, <1>3, NeverLentCurve, NumericOver
  <1>5. OracleFits(given) /\ Insert(b, bank)
    BY DEF AddStakedBank
  <1> HIDE DEF given
  <1>6. /\ DOMAIN bank = BankFields
        /\ bank.setup = given.setup /\ bank.feed = given.feed
        /\ bank.curve = given.curve /\ bank.entries = {}
    BY <1>2 DEF NewBank, BankFields, ConfigFields, StakedFields, ++
  <1>7. Numeric(bank)
    BY <1>2, <1>4 DEF NewBank, Numeric, BankFields, ConfigFields, StakedFields, ++
  <1>8. Agrees(bank)
    BY <1>5, <1>6 DEF Agrees, OracleFits
  <1> HIDE DEF bank
  <1>9. Valid(bank) => GoodBank(bank)
    BY <1>2, <1>6, <1>7, <1>8, NeverLentCurve, ValidIsGood
  <1> QED
    BY <1>5, <1>9, InsertKeeps

\* So was one added for a venue.
LEMMA AddVenueBankKeeps ==
    ASSUME ConfigInv, NEW b, NEW config \in VenueConfigs, AddVenueBank(b, config)
    PROVE  ConfigInv'
  <1> DEFINE given == config ++ NeverLent
             bank == given ++ NewBank(config)
  <1>1. DOMAIN config = VenueFields /\ Numeric(config)
    BY OptionsAssumption
  <1>2. /\ DOMAIN given = VenueFields \cup {"li", "lm", "borrowLimit", "curve"}
        /\ given.setup = config.setup /\ given.curve = NeverLent.curve
        /\ given.feed = config.feed
    BY <1>1, NeverLentCurve DEF ++, StakedFields, VenueFields
  <1>3. Numeric(given)
    BY <1>1, NeverLentCurve, NumericOver
  <1>4. OracleFits(config) /\ Insert(b, bank)
    BY DEF AddVenueBank
  <1> HIDE DEF given
  <1>5. /\ DOMAIN bank = BankFields
        /\ bank.setup = given.setup /\ bank.feed = given.feed
        /\ bank.curve = given.curve /\ bank.entries = {}
    BY <1>1, <1>2 DEF NewBank, BankFields, ConfigFields, StakedFields, VenueFields, ++
  <1>6. Numeric(bank)
    BY <1>1, <1>2, <1>3
       DEF NewBank, Numeric, BankFields, ConfigFields, StakedFields, VenueFields, ++
  <1>7. Agrees(bank)
    BY <1>2, <1>4, <1>5 DEF Agrees, OracleFits
  <1> HIDE DEF bank
  <1>8. Valid(bank) => GoodBank(bank)
    BY <1>2, <1>5, <1>6, <1>7, NeverLentCurve, ValidIsGood
  <1> QED
    BY <1>4, <1>8, InsertKeeps

\* A function on the fields of a curve is a record of them.
LEMMA CurveRecord ==
    ASSUME NEW d,
           d = [x \in {"type", "optimal", "plateau", "max", "zero", "hundred", "points"} |-> d[x]]
    PROVE  d = [type |-> d.type, optimal |-> d.optimal, plateau |-> d.plateau, max |-> d.max,
                zero |-> d.zero, hundred |-> d.hundred, points |-> d.points]
  OBVIOUS

\* An update of a curve is a curve.
LEMMA UpdatedIsCurve ==
    ASSUME NEW c \in Curves, NEW rates, AreRates(rates)
    PROVE  UpdatedCurve(c, rates) \in Curves
  <1> DEFINE d == UpdatedCurve(c, rates)
  <1>1. /\ DOMAIN c = {"type", "optimal", "plateau", "max", "zero", "hundred", "points"}
        /\ c.optimal \in Int /\ c.plateau \in Int /\ c.max \in Int
        /\ c.zero \in Nat /\ c.hundred \in Nat /\ c.points \in Points
    BY DEF Curves
  <1>2. /\ DOMAIN rates \subseteq {"zero", "hundred", "points"}
        /\ "zero" \in DOMAIN rates => rates["zero"] \in Nat
        /\ "hundred" \in DOMAIN rates => rates["hundred"] \in Nat
        /\ "points" \in DOMAIN rates => rates["points"] \in Points
    BY DEF AreRates
  <1>3. d = [type |-> "seven", optimal |-> d.optimal, plateau |-> d.plateau, max |-> d.max,
             zero |-> d.zero, hundred |-> d.hundred, points |-> d.points]
    <2> DEFINE F == {"type", "optimal", "plateau", "max", "zero", "hundred", "points"}
               over == rates ++ c
    <2>1. DOMAIN rates \cup DOMAIN c = F
      BY <1>1, <1>2
    <2>2. over = [x \in F |-> over[x]]
      BY <2>1 DEF ++
    <2>3. d = [over EXCEPT !.type = "seven"]
      BY DEF UpdatedCurve
    <2> HIDE DEF over, d
    <2>4. d = [x \in F |-> d[x]]
      BY <2>2, <2>3
    <2>5. d.type = "seven"
      BY <2>2, <2>3
    <2> QED
      BY <2>4, <2>5, CurveRecord
  <1>4. /\ d.optimal \in Int /\ d.plateau \in Int /\ d.max \in Int
        /\ d.zero \in Nat /\ d.hundred \in Nat /\ d.points \in Points
    BY <1>1, <1>2 DEF UpdatedCurve, ++
  <1> HIDE DEF d
  <1>5. d \in Curves
    BY <1>3, <1>4 DEF Curves
  <1> QED
    BY <1>5 DEF d

\* A bank that differs from a good one in fields that decide nothing is good.
LEMMA SameIsGood ==
    ASSUME NEW b, GoodBank(b), NEW bank, DOMAIN bank = BankFields,
           \A x \in {"setup", "feed", "ai", "am", "li", "lm", "tier", "age", "curve", "entries"} :
               bank[x] = b[x]
    PROVE  GoodBank(bank)
  <1>1. /\ bank.setup = b.setup /\ bank.feed = b.feed /\ bank.ai = b.ai /\ bank.am = b.am
        /\ bank.li = b.li /\ bank.lm = b.lm /\ bank.tier = b.tier /\ bank.age = b.age
        /\ bank.curve = b.curve /\ bank.entries = b.entries
    OBVIOUS
  <1>2. b.ai \in Int /\ b.am \in Int /\ b.li \in Int /\ b.lm \in Int /\ b.age \in Int
    BY DEF GoodBank, Numeric, BankFields, ConfigFields
  <1>3. Numeric(bank)
    BY <1>1, <1>2 DEF Numeric
  <1> QED
    BY <1>1, <1>3 DEF GoodBank, Sound, Agrees, OracleFits

\* What GoodBank says of a bank, field by field
LEMMA GoodFields ==
    ASSUME NEW b, GoodBank(b)
    PROVE  /\ DOMAIN b = BankFields /\ Numeric(b) /\ b.curve \in Curves /\ ValidCurve(b.curve)
           /\ Agrees(b)
           /\ \A e \in b.entries : e.init <= e.maint
  BY DEF GoodBank, Sound

\* A bank configured anew is validated, or was frozen and only its limits changed.
LEMMA ConfigureBankKeeps ==
    ASSUME ConfigInv, NEW b \in DOMAIN banks, NEW opt \in Options, ConfigureBank(b, opt)
    PROVE  ConfigInv'
  <1> DEFINE old == banks[b]
  <1>1. GoodBank(old)
    BY DEF ConfigInv
  <1>2. /\ DOMAIN opt.fields \subseteq ConfigFields \ {"curve"} /\ Numeric(opt.fields)
        /\ \A rates \in opt.rates : AreRates(rates)
    BY OptionsAssumption
  <1>3. CASE Frozen(old)
    <2> DEFINE bank == LimitsOf(opt) ++ old
    <2>1. DOMAIN LimitsOf(opt) \subseteq {"depositLimit", "borrowLimit"}
      BY DEF LimitsOf
    <2>2. Replace(b, bank)
      BY <1>3 DEF ConfigureBank
    <2> HIDE DEF old
    <2>3. /\ DOMAIN bank = BankFields
          /\ \A x \in {"setup", "feed", "ai", "am", "li", "lm", "tier", "age", "curve", "entries"} :
                 bank[x] = old[x]
      BY <1>1, <2>1, GoodFields DEF ++, BankFields, ConfigFields
    <2> HIDE DEF bank
    <2>4. GoodBank(bank)
      BY <1>1, <2>3, SameIsGood
    <2> QED
      BY <2>2, <2>4, ReplaceKeeps
  <1>4. CASE ~Frozen(old)
    <2> DEFINE bank == Configured(old, opt)
               over == opt.fields ++ old
    <2>1. Replace(b, bank) /\ Valid(bank) /\ ValidEmode(bank)
      BY <1>4 DEF ConfigureBank
    <2> HIDE DEF old
    <2>2. /\ DOMAIN over = BankFields /\ Numeric(over)
          /\ over.setup = old.setup /\ over.feed = old.feed
      BY <1>1, <1>2, GoodFields, NumericOver DEF ++, BankFields, ConfigFields
    <2> HIDE DEF over
    <2>3. /\ DOMAIN bank = BankFields
          /\ \A x \in BankFields \ {"curve", "flags"} : bank[x] = over[x]
          /\ bank.curve = IF opt.rates = {} THEN old.curve
                          ELSE UpdatedCurve(old.curve, CHOOSE r \in opt.rates : TRUE)
      BY <2>2 DEF Configured, over, BankFields, ConfigFields
    <2>4. bank.curve \in Curves
      <3>1. CASE opt.rates = {}
        BY <1>1, <2>3, <3>1, GoodFields
      <3>2. CASE opt.rates # {}
        <4>1. AreRates(CHOOSE r \in opt.rates : TRUE)
          BY <1>2, <3>2
        <4>2. UpdatedCurve(old.curve, CHOOSE r \in opt.rates : TRUE) \in Curves
          BY <1>1, <4>1, GoodFields, UpdatedIsCurve
        <4> QED
          BY <2>3, <3>2, <4>2
      <3> QED
        BY <3>1, <3>2
    <2> HIDE DEF bank
    <2>5. bank.setup = old.setup /\ bank.feed = old.feed
      BY <2>2, <2>3 DEF BankFields, ConfigFields
    <2>6. Numeric(bank)
      BY <2>2, <2>3 DEF Numeric, BankFields, ConfigFields
    <2>7. Agrees(bank)
      BY <1>1, <2>5, GoodFields DEF Agrees, OracleFits
    <2>8. \A e \in bank.entries : e.init <= e.maint
      BY <2>1 DEF ValidEmode
    <2>9. GoodBank(bank)
      BY <2>1, <2>3, <2>4, <2>6, <2>7, <2>8, ValidIsGood
    <2> QED
      BY <2>1, <2>9, ReplaceKeeps
  <1> QED
    BY <1>3, <1>4

\* A curve that is configured is validated by itself.
LEMMA ConfigureInterestKeeps ==
    ASSUME ConfigInv, NEW b \in DOMAIN banks, NEW rates \in RateOptions,
           ConfigureInterestOnly(b, rates)
    PROVE  ConfigInv'
  <1> DEFINE old == banks[b]
             curve == UpdatedCurve(old.curve, rates)
             bank == [old EXCEPT !.curve = curve]
  <1>1. GoodBank(old)
    BY DEF ConfigInv
  <1>2. ValidCurve(curve) /\ Replace(b, bank)
    BY DEF ConfigureInterestOnly
  <1> HIDE DEF old
  <1>3. curve \in Curves
    BY <1>1, GoodFields, OptionsAssumption, UpdatedIsCurve
  <1> HIDE DEF curve
  <1>4. /\ DOMAIN bank = BankFields /\ bank.curve = curve
        /\ bank.setup = old.setup /\ bank.feed = old.feed /\ bank.ai = old.ai
        /\ bank.am = old.am /\ bank.li = old.li /\ bank.lm = old.lm /\ bank.tier = old.tier
        /\ bank.age = old.age /\ bank.entries = old.entries
    BY <1>1, GoodFields DEF BankFields, ConfigFields
  <1> HIDE DEF bank
  <1>5. old.ai \in Int /\ old.am \in Int /\ old.li \in Int /\ old.lm \in Int /\ old.age \in Int
    BY <1>1 DEF GoodBank, Numeric, BankFields, ConfigFields
  <1>6. Numeric(bank)
    BY <1>4, <1>5 DEF Numeric
  <1>7. GoodBank(bank)
    BY <1>1, <1>2, <1>3, <1>4, <1>6 DEF GoodBank, Sound, Agrees, OracleFits
  <1> QED
    BY <1>2, <1>7, ReplaceKeeps

\* Limits decide nothing of what is good.
LEMMA ConfigureLimitsKeeps ==
    ASSUME ConfigInv, NEW b \in DOMAIN banks, NEW limits \in LimitOptions,
           ConfigureLimitsOnly(b, limits)
    PROVE  ConfigInv'
  <1> DEFINE old == banks[b]
             given == IF Frozen(old)
                      THEN [f \in DOMAIN limits \ {"valueLimit"} |-> limits[f]] ELSE limits
             bank == given ++ old
  <1>1. GoodBank(old)
    BY DEF ConfigInv
  <1>2. DOMAIN given \subseteq {"depositLimit", "borrowLimit", "valueLimit"}
    BY OptionsAssumption
  <1>3. Replace(b, bank)
    BY DEF ConfigureLimitsOnly
  <1> HIDE DEF old, given
  <1>4. /\ DOMAIN bank = BankFields
        /\ \A x \in {"setup", "feed", "ai", "am", "li", "lm", "tier", "age", "curve", "entries"} :
               bank[x] = old[x]
    BY <1>1, <1>2, GoodFields DEF ++, BankFields, ConfigFields
  <1> HIDE DEF bank
  <1>5. GoodBank(bank)
    BY <1>1, <1>4, SameIsGood
  <1> QED
    BY <1>3, <1>5, ReplaceKeeps

\* Nor do emode entries.
LEMMA ConfigureEmodeKeeps ==
    ASSUME ConfigInv, NEW b \in DOMAIN banks, NEW emode \in EmodeOptions,
           ConfigureEmode(b, emode)
    PROVE  ConfigInv'
  <1> DEFINE old == banks[b]
             bank == emode ++ old
  <1>1. GoodBank(old)
    BY DEF ConfigInv
  <1>2. DOMAIN emode = {"emodeTag", "entries"}
    BY OptionsAssumption
  <1>3. ValidEmode(bank) /\ Replace(b, bank)
    BY DEF ConfigureEmode
  <1> HIDE DEF old
  <1>4. /\ DOMAIN bank = BankFields
        /\ bank.setup = old.setup /\ bank.feed = old.feed /\ bank.ai = old.ai
        /\ bank.am = old.am /\ bank.li = old.li /\ bank.lm = old.lm /\ bank.tier = old.tier
        /\ bank.age = old.age /\ bank.curve = old.curve
    BY <1>1, <1>2, GoodFields DEF ++, BankFields, ConfigFields
  <1> HIDE DEF bank
  <1>5. old.ai \in Int /\ old.am \in Int /\ old.li \in Int /\ old.lm \in Int /\ old.age \in Int
    BY <1>1 DEF GoodBank, Numeric, BankFields, ConfigFields
  <1>6. Numeric(bank)
    BY <1>4, <1>5 DEF Numeric
  <1>7. \A e \in bank.entries : e.init <= e.maint
    BY <1>3 DEF ValidEmode
  <1>8. GoodBank(bank)
    BY <1>1, <1>4, <1>6, <1>7 DEF GoodBank, Sound, Agrees, OracleFits
  <1> QED
    BY <1>3, <1>8, ReplaceKeeps

\* Nor do those of another bank.
LEMMA CloneEmodeKeeps ==
    ASSUME ConfigInv, NEW b \in DOMAIN banks, NEW from \in DOMAIN banks, CloneEmode(from, b)
    PROVE  ConfigInv'
  <1> DEFINE old == banks[b]
             other == banks[from]
             bank == [old EXCEPT !.emodeTag = other.emodeTag, !.entries = other.entries]
  <1>1. GoodBank(old) /\ GoodBank(other)
    BY DEF ConfigInv
  <1>2. Replace(b, bank)
    BY DEF CloneEmode
  <1> HIDE DEF old, other
  <1>3. /\ DOMAIN bank = BankFields /\ bank.entries = other.entries
        /\ bank.setup = old.setup /\ bank.feed = old.feed /\ bank.ai = old.ai
        /\ bank.am = old.am /\ bank.li = old.li /\ bank.lm = old.lm /\ bank.tier = old.tier
        /\ bank.age = old.age /\ bank.curve = old.curve
    BY <1>1, GoodFields DEF BankFields, ConfigFields
  <1> HIDE DEF bank
  <1>4. old.ai \in Int /\ old.am \in Int /\ old.li \in Int /\ old.lm \in Int /\ old.age \in Int
    BY <1>1 DEF GoodBank, Numeric, BankFields, ConfigFields
  <1>5. Numeric(bank)
    BY <1>3, <1>4 DEF Numeric
  <1>6. \A e \in bank.entries : e.init <= e.maint
    BY <1>1, <1>3, GoodFields
  <1>7. GoodBank(bank)
    BY <1>1, <1>3, <1>5, <1>6 DEF GoodBank, Sound, Agrees, OracleFits
  <1> QED
    BY <1>2, <1>7, ReplaceKeeps

\* Flags may be any: forcing tokenless repayments through, and the emissions, change nothing
\* else.
LEMMA FlagsKeep ==
    ASSUME ConfigInv, NEW b \in DOMAIN banks, NEW flags,
           Replace(b, [banks[b] EXCEPT !.flags = flags])
    PROVE  ConfigInv'
  <1> DEFINE old == banks[b]
             bank == [old EXCEPT !.flags = flags]
  <1>1. GoodBank(old)
    BY DEF ConfigInv
  <1>2. Replace(b, bank)
    OBVIOUS
  <1> HIDE DEF old
  <1>3. /\ DOMAIN bank = BankFields
        /\ \A x \in {"setup", "feed", "ai", "am", "li", "lm", "tier", "age", "curve", "entries"} :
               bank[x] = old[x]
    BY <1>1, GoodFields DEF BankFields, ConfigFields
  <1> HIDE DEF bank
  <1>4. GoodBank(bank)
    BY <1>1, <1>3, SameIsGood
  <1> QED
    BY <1>2, <1>4, ReplaceKeeps

\* An oracle that fits
LEMMA OracleKeeps ==
    ASSUME ConfigInv, NEW b \in DOMAIN banks, NEW setup, NEW feed,
           OracleFits([banks[b] EXCEPT !.setup = setup, !.feed = feed]),
           Replace(b, [banks[b] EXCEPT !.setup = setup, !.feed = feed])
    PROVE  ConfigInv'
  <1> DEFINE old == banks[b]
             bank == [old EXCEPT !.setup = setup, !.feed = feed]
  <1>1. GoodBank(old)
    BY DEF ConfigInv
  <1>2. Replace(b, bank) /\ OracleFits(bank)
    OBVIOUS
  <1> HIDE DEF old
  <1>3. /\ DOMAIN bank = BankFields /\ bank.entries = old.entries /\ bank.ai = old.ai
        /\ bank.am = old.am /\ bank.li = old.li /\ bank.lm = old.lm /\ bank.tier = old.tier
        /\ bank.age = old.age /\ bank.curve = old.curve
    BY <1>1, GoodFields DEF BankFields, ConfigFields
  <1> HIDE DEF bank
  <1>4. old.ai \in Int /\ old.am \in Int /\ old.li \in Int /\ old.lm \in Int /\ old.age \in Int
    BY <1>1 DEF GoodBank, Numeric, BankFields, ConfigFields
  <1>5. Numeric(bank)
    BY <1>3, <1>4 DEF Numeric
  <1>6. Agrees(bank)
    BY <1>2 DEF Agrees
  <1>7. GoodBank(bank)
    BY <1>1, <1>3, <1>5, <1>6 DEF GoodBank, Sound
  <1> QED
    BY <1>2, <1>7, ReplaceKeeps

\* A fixed price brings its own kind of oracle.
LEMMA SetFixedOraclePriceKeeps ==
    ASSUME ConfigInv, NEW b \in DOMAIN banks, SetFixedOraclePrice(b)
    PROVE  ConfigInv'
  <1>1. DOMAIN banks[b] = BankFields
    BY GoodFields DEF ConfigInv
  <1>2. OracleFits([banks[b] EXCEPT !.setup = "fixed", !.feed = Default])
    BY <1>1 DEF OracleFits, BankFields
  <1> QED
    BY <1>2, OracleKeeps DEF SetFixedOraclePrice

\* An oracle that is configured is validated with the setup it belongs to.
LEMMA ConfigureOracleKeeps ==
    ASSUME ConfigInv, NEW b \in DOMAIN banks, NEW setup, NEW feed,
           ConfigureOracle(b, setup, feed)
    PROVE  ConfigInv'
  BY OracleKeeps DEF ConfigureOracle

\* What a legacy curve becomes is a curve.
LEMMA MigratedIsCurve ==
    ASSUME NEW c \in Curves, ValidCurve(c)
    PROVE  Migrated(c) \in Curves
  <1>1. CASE c.type = "seven"
    BY <1>1 DEF Migrated
  <1>2. CASE c.type # "seven"
    <2>1. ValidLegacy(c)
      BY <1>2 DEF ValidCurve, Curves
    <2>2. /\ c.optimal \in 0 .. FullUtil
          /\ ClampRate(c.plateau) \in Nat /\ ClampRate(c.max) \in Nat
      BY <2>1, CurveAssumption DEF ValidLegacy, ClampRate, Curves
    <2>3. <<[util |-> c.optimal, rate |-> ClampRate(c.plateau)]>> \in Points
      BY <2>2 DEF Points
    <2> QED
      BY <1>2, <2>2, <2>3 DEF Migrated, Curves
  <1> QED
    BY <1>1, <1>2

\* A migrated curve has its points in order.
LEMMA MigrateCurveKeeps ==
    ASSUME ConfigInv, NEW b \in DOMAIN banks, MigrateCurve(b)
    PROVE  ConfigInv'
  <1> DEFINE old == banks[b]
             curve == Migrated(old.curve)
             bank == [old EXCEPT !.curve = curve]
  <1>1. GoodBank(old)
    BY DEF ConfigInv
  <1>2. Valid(bank) /\ Replace(b, bank)
    BY DEF MigrateCurve
  <1> HIDE DEF old
  <1>3. curve \in Curves
    BY <1>1, GoodFields, MigratedIsCurve
  <1> HIDE DEF curve
  <1>4. /\ DOMAIN bank = BankFields /\ bank.curve = curve
        /\ bank.setup = old.setup /\ bank.feed = old.feed /\ bank.ai = old.ai
        /\ bank.am = old.am /\ bank.li = old.li /\ bank.lm = old.lm /\ bank.tier = old.tier
        /\ bank.age = old.age /\ bank.entries = old.entries
    BY <1>1, GoodFields DEF BankFields, ConfigFields
  <1> HIDE DEF bank
  <1>5. old.ai \in Int /\ old.am \in Int /\ old.li \in Int /\ old.lm \in Int /\ old.age \in Int
    BY <1>1 DEF GoodBank, Numeric, BankFields, ConfigFields
  <1>6. Numeric(bank)
    BY <1>4, <1>5 DEF Numeric
  <1>7. ValidCurve(bank.curve)
    BY <1>2 DEF Valid
  <1>8. GoodBank(bank)
    BY <1>1, <1>3, <1>4, <1>6, <1>7 DEF GoodBank, Sound, Agrees, OracleFits
  <1> QED
    BY <1>2, <1>8, ReplaceKeeps

\* The staked settings over a bank's own: its setup stays, so a new feed has to fit it.
LEMMA PropagateStakedSettingsKeeps ==
    ASSUME ConfigInv, NEW b \in DOMAIN banks, PropagateStakedSettings(b)
    PROVE  ConfigInv'
  <1> DEFINE old == banks[b]
             bank == settings ++ old
  <1>1. GoodBank(old)
    BY DEF ConfigInv
  <1>2. DOMAIN settings = StakedFields /\ Numeric(settings)
    BY DEF ConfigInv, GoodSettings, PropagateStakedSettings
  <1>3. /\ bank.feed # old.feed => OracleFits(bank)
        /\ Valid(bank) /\ Replace(b, bank)
    BY DEF PropagateStakedSettings
  <1> HIDE DEF old
  <1>4. /\ DOMAIN bank = BankFields /\ bank.setup = old.setup /\ bank.curve = old.curve
        /\ bank.entries = old.entries
    BY <1>1, <1>2, GoodFields DEF ++, BankFields, ConfigFields, StakedFields
  <1>5. Numeric(bank)
    BY <1>1, <1>2, GoodFields, NumericOver
  <1> HIDE DEF bank
  <1>6. Agrees(bank)
    <2>1. CASE bank.feed = old.feed
      BY <1>1, <1>4, <2>1, GoodFields DEF Agrees, OracleFits
    <2>2. CASE bank.feed # old.feed
      BY <1>3, <2>2 DEF Agrees
    <2> QED
      BY <2>1, <2>2
  <1>7. bank.curve \in Curves /\ \A e \in bank.entries : e.init <= e.maint
    BY <1>1, <1>4, GoodFields
  <1>8. GoodBank(bank)
    BY <1>3, <1>4, <1>5, <1>6, <1>7, ValidIsGood
  <1> QED
    BY <1>3, <1>8, ReplaceKeeps

\* The settings of the group are numbers over numbers.
LEMMA StakedSettingsKeep ==
    ASSUME ConfigInv, NEW s \in StakedOptions, InitStakedSettings(s) \/ EditStakedSettings(s)
    PROVE  ConfigInv'
  <1>1. DOMAIN s = StakedFields /\ Numeric(s)
    BY OptionsAssumption
  <1>2. GoodSettings(settings')
    <2>1. CASE InitStakedSettings(s)
      BY <1>1, <2>1 DEF InitStakedSettings, GoodSettings
    <2>2. CASE EditStakedSettings(s)
      <3>1. DOMAIN settings = StakedFields /\ Numeric(settings) /\ settings' = s ++ settings
        BY <2>2 DEF EditStakedSettings, ConfigInv, GoodSettings
      <3>2. DOMAIN (s ++ settings) = StakedFields
        BY <1>1, <3>1 DEF ++
      <3>3. Numeric(s ++ settings)
        BY <1>1, <3>1, NumericOver
      <3> QED
        BY <3>1, <3>2, <3>3 DEF GoodSettings
    <2> QED
      BY <2>1, <2>2
  <1>3. banks' = banks
    BY DEF InitStakedSettings, EditStakedSettings
  <1> QED
    BY <1>2, <1>3 DEF ConfigInv

\* Every step of the settings
LEMMA NextKeeps ==
    ASSUME ConfigInv, Next
    PROVE  ConfigInv'
  <1>1. ASSUME GroupNext PROVE ConfigInv'
    <2>1. ASSUME NEW l \in Leverages, ConfigureGroup(l) PROVE ConfigInv'
      BY <2>1 DEF ConfigureGroup, ConfigInv
    <2> QED
      BY <1>1, <2>1, StakedSettingsKeep, AddBankKeeps, AddVenueBankKeeps, AddStakedBankKeeps
         DEF GroupNext
  <1>2. ASSUME NEW b \in DOMAIN banks, BankNext(b) PROVE ConfigInv'
    <2>1. ASSUME ForceTokenlessRepayComplete(b) PROVE ConfigInv'
      BY <2>1, FlagsKeep DEF ForceTokenlessRepayComplete
    <2> QED
      BY <1>2, <2>1, ConfigureBankKeeps, ConfigureInterestKeeps, ConfigureLimitsKeeps,
         ConfigureEmodeKeeps, ConfigureOracleKeeps, CloneEmodeKeeps, SetFixedOraclePriceKeeps,
         MigrateCurveKeeps, PropagateStakedSettingsKeeps
         DEF BankNext
  <1> QED
    BY <1>1, <1>2 DEF Next

\* What the rewards do to the settings: nothing, or the flags of one bank change.
LEMMA RewardsTouchFlags ==
    ASSUME RewardNext
    PROVE  UNCHANGED configVars \/ \E flags : SetFlags(flags) /\ Rewarded \in DOMAIN banks
  <1>1. ASSUME Tick PROVE UNCHANGED configVars
    BY <1>1 DEF Tick
  <1>2. ASSUME AdminNext PROVE \E flags : SetFlags(flags)
    BY <1>2 DEF AdminNext, SetupEmissions, UpdateEmissions
  <1>3. ASSUME NEW h \in Holders, HolderNext(h) PROVE UNCHANGED configVars
    BY <1>3 DEF HolderNext, ChangeBalance, CloseBalance, PurgeBalance, SettleEmissions,
                WithdrawEmissions, WithdrawEmissionsPermissionless, PayOut, UpdateDestination
  <1> QED
    BY <1>1, <1>2, <1>3 DEF RewardNext

\* The invariant of the settings is inductive.
LEMMA StepKeeps ==
    ASSUME ConfigInv, [EmissionsNext]_emissionsVars
    PROVE  ConfigInv'
  <1>1. ASSUME UNCHANGED configVars PROVE ConfigInv'
    BY <1>1 DEF configVars, ConfigInv
  <1>2. ASSUME RewardNext PROVE ConfigInv'
    <2>1. ASSUME NEW flags, SetFlags(flags), Rewarded \in DOMAIN banks PROVE ConfigInv'
      BY <2>1, FlagsKeep DEF SetFlags
    <2> QED
      BY <1>1, <1>2, <2>1, RewardsTouchFlags
  <1> QED
    BY <1>1, <1>2, NextKeeps DEF EmissionsNext, emissionsVars

\* Whatever the admins, their delegates and anyone else send, and in whatever order, the
\* settings of every bank stay those of a bank the program would validate.
THEOREM ConfigInvariant == EmissionsSpec => []ConfigInv
  <1>1. EmissionsInit => ConfigInv
    BY OldGroupsAssumption DEF EmissionsInit, Init, ConfigInv
  <1>2. ConfigInv /\ [EmissionsNext]_emissionsVars => ConfigInv'
    BY StepKeeps
  <1> QED
    BY <1>1, <1>2, PTL DEF EmissionsSpec

\* Weights that agree, no isolated backing and no lax oracle, at all times
THEOREM SettingsAreSound == EmissionsSpec => []SettingsSound
  <1>1. ConfigInv => SettingsSound
    BY DEF ConfigInv, GoodBank, SettingsSound
  <1> QED
    BY <1>1, ConfigInvariant, PTL

\* Every bank's oracle is of the publisher its setup names.
THEOREM OraclesAgree == EmissionsSpec => []OracleAgrees
  <1>1. ConfigInv => OracleAgrees
    BY DEF ConfigInv, GoodBank, OracleAgrees
  <1> QED
    BY <1>1, ConfigInvariant, PTL

\* The interest of every bank can be accrued at every utilization, and rises with it.
THEOREM CurvesAreDefined == EmissionsSpec => []CurveDefined
  <1>1. ConfigInv => CurveDefined
    BY ValidIsDefined, GoodFields DEF ConfigInv, CurveDefined
  <1> QED
    BY <1>1, ConfigInvariant, PTL

-----------------------------------------------------------------------------
(* What steps do to the settings of one bank *)

\* No rate that migrating a curve changes is one the curve had below 1000%.
THEOREM MigrationIsFaithful == EmissionsSpec => MigrationKeepsRates
  <1> DEFINE A == \A b \in DOMAIN banks :
                      MigrateCurve(b) => KeepsRates(banks[b].curve, banks'[b].curve)
  <1>1. ConfigInv => A
    <2> SUFFICES ASSUME ConfigInv, NEW b \in DOMAIN banks, MigrateCurve(b)
                 PROVE  KeepsRates(banks[b].curve, banks'[b].curve)
      OBVIOUS
    <2>1. GoodBank(banks[b])
      BY DEF ConfigInv
    <2>2. banks'[b] = [banks[b] EXCEPT !.curve = Migrated(banks[b].curve)]
      BY DEF MigrateCurve, Replace
    <2>3. DOMAIN banks[b] = BankFields /\ banks[b].curve \in Curves /\ ValidCurve(banks[b].curve)
      BY <2>1, GoodFields
    <2>4. banks'[b].curve = Migrated(banks[b].curve)
      BY <2>2, <2>3 DEF BankFields, ConfigFields
    <2> QED
      BY <2>3, <2>4, MigratedKeepsRates
  <1> HIDE DEF A
  <1>2. ConfigInv => [A]_configVars
    BY <1>1
  <1>4. EmissionsSpec => [][A]_configVars
    BY <1>2, ConfigInvariant, PTL
  <1> QED
    BY <1>4 DEF MigrationKeepsRates, A

\* A bank that keeps the fields a freeze is about stays frozen.
LEMMA SameStaysFrozen ==
    ASSUME NEW old, NEW new,
           /\ new.li = old.li /\ new.lm = old.lm /\ new.tag = old.tag /\ new.setup = old.setup
           /\ new.curve = old.curve
           /\ new.ai = old.ai /\ new.am = old.am /\ new.tier = old.tier
           /\ new.feed = old.feed /\ new.age = old.age
    PROVE  StaysFrozen(old, new)
  BY DEF StaysFrozen

\* The steps that do not change what they are not given
LEMMA UntouchedStaysFrozen ==
    ASSUME NEW b \in DOMAIN banks, banks'[b] = banks[b]
    PROVE  StaysFrozen(banks[b], banks'[b])
  BY SameStaysFrozen

\* What a step that replaces one bank does to another
LEMMA ReplaceTouchesOne ==
    ASSUME NEW b \in DOMAIN banks, NEW bank, Replace(b, bank)
    PROVE  banks'[b] = bank /\ \A x \in DOMAIN banks \ {b} : banks'[x] = banks[x]
  BY DEF Replace

\* Fields put over those of a frozen bank that a freeze is not about
LEMMA OverStaysFrozen ==
    ASSUME NEW old, DOMAIN old = BankFields, NEW f,
           DOMAIN f \subseteq {"depositLimit", "borrowLimit", "valueLimit", "emodeTag", "entries"}
    PROVE  StaysFrozen(old, f ++ old)
  <1> DEFINE new == f ++ old
  <1>1. /\ new.li = old.li /\ new.lm = old.lm /\ new.tag = old.tag /\ new.setup = old.setup
        /\ new.curve = old.curve
        /\ new.ai = old.ai /\ new.am = old.am /\ new.tier = old.tier
        /\ new.feed = old.feed /\ new.age = old.age
    BY DEF ++, BankFields, ConfigFields
  <1> HIDE DEF new
  <1>2. StaysFrozen(old, new)
    BY <1>1, SameStaysFrozen
  <1> QED
    BY <1>2 DEF new

\* The steps of one bank's settings leave it frozen.
LEMMA BankStepFreezes ==
    ASSUME ConfigInv, NEW b \in DOMAIN banks, Frozen(banks[b]), BankNext(b)
    PROVE  StaysFrozen(banks[b], banks'[b])
  <1> DEFINE old == banks[b]
             new == banks'[b]
  <1>1. GoodBank(old)
    BY DEF ConfigInv
  <1>2. DOMAIN old = BankFields /\ old.curve \in Curves /\ ValidCurve(old.curve)
    BY <1>1, GoodFields
  <1>3. ASSUME NEW opt \in Options, ConfigureBank(b, opt) PROVE StaysFrozen(old, new)
    <2>1. Replace(b, LimitsOf(opt) ++ old)
      BY <1>3 DEF ConfigureBank
    <2>2. new = LimitsOf(opt) ++ old
      BY <2>1, ReplaceTouchesOne
    <2>3. DOMAIN LimitsOf(opt) \subseteq {"depositLimit", "borrowLimit"}
      BY DEF LimitsOf
    <2> HIDE DEF new, old
    <2>4. StaysFrozen(old, LimitsOf(opt) ++ old)
      <3>1. DOMAIN LimitsOf(opt)
                \subseteq {"depositLimit", "borrowLimit", "valueLimit", "emodeTag", "entries"}
        BY <2>3
      <3> QED
        BY <1>2, <3>1, OverStaysFrozen
    <2> QED
      BY <2>2, <2>4
  <1>4. ASSUME NEW rates \in RateOptions, ConfigureInterestOnly(b, rates) PROVE FALSE
    BY <1>4 DEF ConfigureInterestOnly
  <1>5. ASSUME NEW limits \in LimitOptions, ConfigureLimitsOnly(b, limits)
        PROVE  StaysFrozen(old, new)
    <2> DEFINE given == [f \in DOMAIN limits \ {"valueLimit"} |-> limits[f]]
    <2>1. Replace(b, given ++ old)
      BY <1>5 DEF ConfigureLimitsOnly
    <2>2. new = given ++ old
      BY <2>1, ReplaceTouchesOne
    <2>3. DOMAIN given
              \subseteq {"depositLimit", "borrowLimit", "valueLimit", "emodeTag", "entries"}
      BY OptionsAssumption
    <2> HIDE DEF new, old, given
    <2>4. StaysFrozen(old, given ++ old)
      BY <1>2, <2>3, OverStaysFrozen
    <2> QED
      BY <2>2, <2>4
  <1>6. ASSUME NEW emode \in EmodeOptions, ConfigureEmode(b, emode)
        PROVE  StaysFrozen(old, new)
    <2>1. Replace(b, emode ++ old)
      BY <1>6 DEF ConfigureEmode
    <2>2. new = emode ++ old
      BY <2>1, ReplaceTouchesOne
    <2>3. DOMAIN emode
              \subseteq {"depositLimit", "borrowLimit", "valueLimit", "emodeTag", "entries"}
      BY OptionsAssumption
    <2> HIDE DEF new, old
    <2>4. StaysFrozen(old, emode ++ old)
      BY <1>2, <2>3, OverStaysFrozen
    <2> QED
      BY <2>2, <2>4
  <1>7. ASSUME NEW setup, NEW feed, ConfigureOracle(b, setup, feed) PROVE FALSE
    BY <1>7 DEF ConfigureOracle
  <1>8. ASSUME NEW from \in DOMAIN banks, CloneEmode(from, b) PROVE StaysFrozen(old, new)
    <2>1. Replace(b, [old EXCEPT !.emodeTag = banks[from].emodeTag,
                                 !.entries = banks[from].entries])
      BY <1>8 DEF CloneEmode
    <2>2. new = [old EXCEPT !.emodeTag = banks[from].emodeTag, !.entries = banks[from].entries]
      BY <2>1, ReplaceTouchesOne
    <2> HIDE DEF new, old
    <2>3. /\ new.li = old.li /\ new.lm = old.lm /\ new.tag = old.tag /\ new.setup = old.setup
          /\ new.curve = old.curve
          /\ new.ai = old.ai /\ new.am = old.am /\ new.tier = old.tier
          /\ new.feed = old.feed /\ new.age = old.age
      BY <1>2, <2>2 DEF BankFields, ConfigFields
    <2> QED
      BY <2>3, SameStaysFrozen
  <1>9. ASSUME ForceTokenlessRepayComplete(b) PROVE StaysFrozen(old, new)
    <2>1. Replace(b, [old EXCEPT !.flags = old.flags \cup {"tokenless_complete"}])
      BY <1>9 DEF ForceTokenlessRepayComplete
    <2>2. new = [old EXCEPT !.flags = old.flags \cup {"tokenless_complete"}]
      BY <2>1, ReplaceTouchesOne
    <2> HIDE DEF new, old
    <2>3. /\ new.li = old.li /\ new.lm = old.lm /\ new.tag = old.tag /\ new.setup = old.setup
          /\ new.curve = old.curve
          /\ new.ai = old.ai /\ new.am = old.am /\ new.tier = old.tier
          /\ new.feed = old.feed /\ new.age = old.age
      BY <1>2, <2>2 DEF BankFields, ConfigFields
    <2> QED
      BY <2>3, SameStaysFrozen
  <1>10. ASSUME SetFixedOraclePrice(b) PROVE FALSE
    BY <1>10 DEF SetFixedOraclePrice
  <1>11. ASSUME MigrateCurve(b) PROVE StaysFrozen(old, new)
    <2>1. Replace(b, [old EXCEPT !.curve = Migrated(old.curve)])
      BY <1>11 DEF MigrateCurve
    <2>2. new = [old EXCEPT !.curve = Migrated(old.curve)]
      BY <2>1, ReplaceTouchesOne
    <2> HIDE DEF new, old
    <2>3. /\ new.li = old.li /\ new.lm = old.lm /\ new.tag = old.tag /\ new.setup = old.setup
          /\ new.curve = Migrated(old.curve)
          /\ new.ai = old.ai /\ new.am = old.am /\ new.tier = old.tier
          /\ new.feed = old.feed /\ new.age = old.age
      BY <1>2, <2>2 DEF BankFields, ConfigFields
    <2>4. KeepsRates(old.curve, Migrated(old.curve))
      BY <1>2, MigratedKeepsRates
    <2> QED
      BY <2>3, <2>4 DEF StaysFrozen, KeepsRates
  <1>12. ASSUME PropagateStakedSettings(b) PROVE StaysFrozen(old, new)
    <2>1. /\ settings # None /\ old.tag = "staked" /\ Replace(b, settings ++ old)
      BY <1>12 DEF PropagateStakedSettings
    <2>2. new = settings ++ old
      BY <2>1, ReplaceTouchesOne
    <2>3. DOMAIN settings = StakedFields
      BY <2>1 DEF ConfigInv, GoodSettings
    <2> HIDE DEF new, old
    <2>4. /\ new.li = old.li /\ new.lm = old.lm /\ new.tag = old.tag /\ new.setup = old.setup
          /\ new.curve = old.curve
      BY <1>2, <2>2, <2>3 DEF ++, BankFields, ConfigFields, StakedFields
    <2> QED
      BY <2>1, <2>2, <2>4 DEF StaysFrozen
  <1> QED
    BY <1>3, <1>4, <1>5, <1>6, <1>7, <1>8, <1>9, <1>10, <1>11, <1>12 DEF BankNext

\* The steps of a bank change no other.
LEMMA BankStepTouchesOne ==
    ASSUME NEW b \in DOMAIN banks, BankNext(b), NEW x \in DOMAIN banks, x # b
    PROVE  banks'[x] = banks[x]
  <1>1. \E bank : Replace(b, bank)
    BY DEF BankNext, ConfigureBank, ConfigureInterestOnly, ConfigureLimitsOnly, ConfigureEmode,
           ConfigureOracle, CloneEmode, ForceTokenlessRepayComplete, SetFixedOraclePrice,
           MigrateCurve, PropagateStakedSettings
  <1> QED
    BY <1>1, ReplaceTouchesOne

\* The steps of the group change none that is there.
LEMMA GroupStepTouchesNone ==
    ASSUME GroupNext, NEW x \in DOMAIN banks
    PROVE  banks'[x] = banks[x]
  <1>1. ASSUME NEW b, NEW bank, Insert(b, bank) PROVE banks'[x] = banks[x]
    BY <1>1 DEF Insert, ++
  <1>2. ASSUME NEW l \in Leverages, ConfigureGroup(l) PROVE banks'[x] = banks[x]
    BY <1>2 DEF ConfigureGroup
  <1>3. ASSUME NEW s \in StakedOptions, InitStakedSettings(s) \/ EditStakedSettings(s)
        PROVE  banks'[x] = banks[x]
    BY <1>3 DEF InitStakedSettings, EditStakedSettings
  <1>4. ASSUME NEW b \in Banks,
               \/ \E config \in NewConfigs : AddBank(b, config)
               \/ \E config \in VenueConfigs : AddVenueBank(b, config)
               \/ AddStakedBank(b)
        PROVE  \E bank : Insert(b, bank)
    BY <1>4 DEF AddBank, AddVenueBank, AddStakedBank
  <1> QED
    BY <1>1, <1>2, <1>3, <1>4 DEF GroupNext

\* Changing flags changes nothing else.
LEMMA FlagsFreeze ==
    ASSUME ConfigInv, NEW flags, SetFlags(flags), Rewarded \in DOMAIN banks,
           NEW b \in DOMAIN banks
    PROVE  StaysFrozen(banks[b], banks'[b])
  <1>1. CASE b = Rewarded
    <2> DEFINE old == banks[b]
               new == banks'[b]
    <2>1. DOMAIN old = BankFields
      BY GoodFields DEF ConfigInv
    <2>2. Replace(b, [old EXCEPT !.flags = flags])
      BY <1>1 DEF SetFlags
    <2>3. new = [old EXCEPT !.flags = flags]
      BY <2>2, ReplaceTouchesOne
    <2> HIDE DEF new, old
    <2>4. /\ new.li = old.li /\ new.lm = old.lm /\ new.tag = old.tag /\ new.setup = old.setup
          /\ new.curve = old.curve
          /\ new.ai = old.ai /\ new.am = old.am /\ new.tier = old.tier
          /\ new.feed = old.feed /\ new.age = old.age
      BY <2>1, <2>3 DEF BankFields, ConfigFields
    <2>5. StaysFrozen(old, new)
      BY <2>4, SameStaysFrozen
    <2> QED
      BY <2>5 DEF old, new
  <1>2. CASE b # Rewarded
    <2>1. banks'[b] = banks[b]
      BY <1>2, ReplaceTouchesOne DEF SetFlags
    <2> QED
      BY <2>1, UntouchedStaysFrozen
  <1> QED
    BY <1>1, <1>2

\* Whoever acts on a frozen bank, and whatever the group's settings or the emissions do: what
\* the freeze is about stays, but for the staked settings that are propagated.
THEOREM FreezeIsKept == EmissionsSpec => FreezeHolds
  <1> DEFINE A == \A b \in DOMAIN banks :
                      Frozen(banks[b]) => StaysFrozen(banks[b], banks'[b])
  <1>1. ConfigInv /\ [EmissionsNext]_emissionsVars => [A]_configVars
    <2> SUFFICES ASSUME ConfigInv, EmissionsNext, ~UNCHANGED configVars,
                        NEW b \in DOMAIN banks, Frozen(banks[b])
                 PROVE  StaysFrozen(banks[b], banks'[b])
      BY DEF emissionsVars
    <2>1. CASE GroupNext
      BY <2>1, GroupStepTouchesNone, UntouchedStaysFrozen
    <2>2. CASE \E x \in DOMAIN banks : BankNext(x)
      <3>1. PICK x \in DOMAIN banks : BankNext(x)
        BY <2>2
      <3>2. CASE x = b
        BY <3>1, <3>2, BankStepFreezes
      <3>3. CASE x # b
        BY <3>1, <3>3, BankStepTouchesOne, UntouchedStaysFrozen
      <3> QED
        BY <3>2, <3>3
    <2>3. CASE RewardNext
      BY <2>3, RewardsTouchFlags, FlagsFreeze
    <2> QED
      BY <2>1, <2>2, <2>3 DEF EmissionsNext, Next
  <1> HIDE DEF A
  <1>2. EmissionsSpec => [][A]_configVars
    BY <1>1, ConfigInvariant, PTL DEF EmissionsSpec
  <1> QED
    BY <1>2 DEF FreezeHolds, A

\* Steps that keep a bank's entries and the weights of its debts
LEMMA SameStaysBelow ==
    ASSUME NEW old, NEW new,
           new.li = old.li /\ new.lm = old.lm /\ new.entries = old.entries
    PROVE  BelowDebts(new) \/ ~BelowDebts(old)
  BY DEF BelowDebts

\* Fields put over a bank's own that are neither
LEMMA OverStaysBelow ==
    ASSUME NEW old, DOMAIN old = BankFields, NEW f, {"li", "lm", "entries"} \cap DOMAIN f = {}
    PROVE  BelowDebts(f ++ old) \/ ~BelowDebts(old)
  <1> DEFINE new == f ++ old
  <1>1. new.li = old.li /\ new.lm = old.lm /\ new.entries = old.entries
    BY DEF ++, BankFields, ConfigFields
  <1> HIDE DEF new
  <1>2. BelowDebts(new) \/ ~BelowDebts(old)
    BY <1>1, SameStaysBelow
  <1> QED
    BY <1>2 DEF new

\* Entries that are validated are below, whatever leverage the group allows.
LEMMA ValidEmodeIsBelow ==
    ASSUME NEW b, ValidEmode(b)
    PROVE  BelowDebts(b)
  BY DEF ValidEmode, LeverageWithin, BelowDebts

\* The steps of one bank's settings but for a clone keep its entries below.
LEMMA BankStepStaysBelow ==
    ASSUME ConfigInv, NEW b \in DOMAIN banks, BankNext(b)
    PROVE  \/ BelowDebts(banks'[b])
           \/ ~BelowDebts(banks[b])
           \/ \E from \in DOMAIN banks : CloneEmode(from, b)
  <1> DEFINE old == banks[b]
             new == banks'[b]
             Kept == BelowDebts(new) \/ ~BelowDebts(old)
  <1>1. DOMAIN old = BankFields
    BY GoodFields DEF ConfigInv
  <1>2. ASSUME NEW opt \in Options, ConfigureBank(b, opt) PROVE Kept
    <2>1. CASE Frozen(old)
      <3>1. Replace(b, LimitsOf(opt) ++ old)
        BY <1>2, <2>1 DEF ConfigureBank
      <3>2. new = LimitsOf(opt) ++ old
        BY <3>1, ReplaceTouchesOne
      <3>3. {"li", "lm", "entries"} \cap DOMAIN LimitsOf(opt) = {}
        BY DEF LimitsOf
      <3> HIDE DEF new, old
      <3>4. BelowDebts(LimitsOf(opt) ++ old) \/ ~BelowDebts(old)
        BY <1>1, <3>3, OverStaysBelow
      <3> QED
        BY <3>2, <3>4
    <2>2. CASE ~Frozen(old)
      <3>1. ValidEmode(Configured(old, opt)) /\ Replace(b, Configured(old, opt))
        BY <1>2, <2>2 DEF ConfigureBank
      <3>2. new = Configured(old, opt)
        BY <3>1, ReplaceTouchesOne
      <3> QED
        BY <3>1, <3>2, ValidEmodeIsBelow
    <2> QED
      BY <2>1, <2>2
  <1>3. ASSUME NEW rates \in RateOptions, ConfigureInterestOnly(b, rates) PROVE Kept
    <2> DEFINE curve == UpdatedCurve(old.curve, rates)
    <2>1. Replace(b, [old EXCEPT !.curve = curve])
      BY <1>3 DEF ConfigureInterestOnly
    <2>2. new = [old EXCEPT !.curve = curve]
      BY <2>1, ReplaceTouchesOne
    <2> HIDE DEF new, old, curve
    <2>3. new.li = old.li /\ new.lm = old.lm /\ new.entries = old.entries
      BY <1>1, <2>2 DEF BankFields, ConfigFields
    <2> QED
      BY <2>3, SameStaysBelow
  <1>4. ASSUME NEW limits \in LimitOptions, ConfigureLimitsOnly(b, limits) PROVE Kept
    <2> DEFINE given == IF Frozen(old) THEN [f \in DOMAIN limits \ {"valueLimit"} |-> limits[f]]
                        ELSE limits
    <2>1. Replace(b, given ++ old)
      BY <1>4 DEF ConfigureLimitsOnly
    <2>2. new = given ++ old
      BY <2>1, ReplaceTouchesOne
    <2>3. {"li", "lm", "entries"} \cap DOMAIN given = {}
      BY OptionsAssumption
    <2> HIDE DEF new, old, given
    <2>4. BelowDebts(given ++ old) \/ ~BelowDebts(old)
      BY <1>1, <2>3, OverStaysBelow
    <2> QED
      BY <2>2, <2>4
  <1>5. ASSUME NEW emode \in EmodeOptions, ConfigureEmode(b, emode) PROVE Kept
    <2>1. ValidEmode(emode ++ old) /\ Replace(b, emode ++ old)
      BY <1>5 DEF ConfigureEmode
    <2>2. new = emode ++ old
      BY <2>1, ReplaceTouchesOne
    <2> QED
      BY <2>1, <2>2, ValidEmodeIsBelow
  <1>6. ASSUME NEW setup, NEW feed, ConfigureOracle(b, setup, feed) \/ SetFixedOraclePrice(b)
        PROVE  Kept
    <2>1. PICK s, f : Replace(b, [old EXCEPT !.setup = s, !.feed = f])
      BY <1>6 DEF ConfigureOracle, SetFixedOraclePrice
    <2>2. new = [old EXCEPT !.setup = s, !.feed = f]
      BY <2>1, ReplaceTouchesOne
    <2> HIDE DEF new, old
    <2>3. new.li = old.li /\ new.lm = old.lm /\ new.entries = old.entries
      BY <1>1, <2>2 DEF BankFields, ConfigFields
    <2> QED
      BY <2>3, SameStaysBelow
  <1>7. ASSUME ForceTokenlessRepayComplete(b) PROVE Kept
    <2>1. Replace(b, [old EXCEPT !.flags = old.flags \cup {"tokenless_complete"}])
      BY <1>7 DEF ForceTokenlessRepayComplete
    <2>2. new = [old EXCEPT !.flags = old.flags \cup {"tokenless_complete"}]
      BY <2>1, ReplaceTouchesOne
    <2> HIDE DEF new, old
    <2>3. new.li = old.li /\ new.lm = old.lm /\ new.entries = old.entries
      BY <1>1, <2>2 DEF BankFields, ConfigFields
    <2> QED
      BY <2>3, SameStaysBelow
  <1>8. ASSUME MigrateCurve(b) PROVE Kept
    <2>1. Replace(b, [old EXCEPT !.curve = Migrated(old.curve)])
      BY <1>8 DEF MigrateCurve
    <2>2. new = [old EXCEPT !.curve = Migrated(old.curve)]
      BY <2>1, ReplaceTouchesOne
    <2> HIDE DEF new, old
    <2>3. new.li = old.li /\ new.lm = old.lm /\ new.entries = old.entries
      BY <1>1, <2>2 DEF BankFields, ConfigFields
    <2> QED
      BY <2>3, SameStaysBelow
  <1>9. ASSUME PropagateStakedSettings(b) PROVE Kept
    <2>1. settings # None /\ Replace(b, settings ++ old)
      BY <1>9 DEF PropagateStakedSettings
    <2>2. new = settings ++ old
      BY <2>1, ReplaceTouchesOne
    <2>3. DOMAIN settings = StakedFields
      BY <2>1 DEF ConfigInv, GoodSettings
    <2>4. {"li", "lm", "entries"} \cap DOMAIN settings = {}
      BY <2>3 DEF StakedFields
    <2> HIDE DEF new, old
    <2>5. BelowDebts(settings ++ old) \/ ~BelowDebts(old)
      BY <1>1, <2>4, OverStaysBelow
    <2> QED
      BY <2>2, <2>5
  <1> QED
    BY <1>2, <1>3, <1>4, <1>5, <1>6, <1>7, <1>8, <1>9 DEF BankNext

\* A bank that is added has no entries.
LEMMA NewBankHasNoEntries ==
    ASSUME ConfigInv, NEW b,
           \/ \E config \in NewConfigs : AddBank(b, config)
           \/ \E config \in VenueConfigs : AddVenueBank(b, config)
           \/ AddStakedBank(b)
    PROVE  \E bank : Insert(b, bank) /\ bank.entries = {}
  <1>1. ASSUME NEW config \in NewConfigs, AddBank(b, config)
        PROVE  Insert(b, NewBank(config)) /\ NewBank(config).entries = {}
    <2>1. DOMAIN config = ConfigFields
      BY OptionsAssumption
    <2> QED
      BY <1>1, <2>1 DEF AddBank, NewBank, ConfigFields, ++
  <1>2. ASSUME NEW config \in VenueConfigs, AddVenueBank(b, config)
        PROVE  \E bank : Insert(b, bank) /\ bank.entries = {}
    <2> DEFINE given == config ++ NeverLent
               bank == given ++ NewBank(config)
    <2>1. DOMAIN config = VenueFields
      BY OptionsAssumption
    <2>2. DOMAIN given = VenueFields \cup {"li", "lm", "borrowLimit", "curve"}
      BY <2>1, NeverLentCurve DEF ++, StakedFields, VenueFields
    <2>3. Insert(b, bank)
      BY <1>2 DEF AddVenueBank
    <2> HIDE DEF given
    <2>4. bank.entries = {}
      BY <2>1, <2>2 DEF NewBank, StakedFields, VenueFields, ++
    <2> QED
      BY <2>3, <2>4
  <1>3. ASSUME AddStakedBank(b) PROVE \E bank : Insert(b, bank) /\ bank.entries = {}
    <2> DEFINE given == [setup |-> "staked_pyth", tag |-> "staked"] ++ settings ++ NeverLent
               bank == given ++ NewBank(given)
    <2>1. DOMAIN settings = StakedFields
      BY <1>3 DEF AddStakedBank, ConfigInv, GoodSettings
    <2>2. DOMAIN given = StakedFields \cup {"setup", "tag", "li", "lm", "borrowLimit", "curve"}
      BY <2>1, NeverLentCurve DEF ++, StakedFields
    <2>3. Insert(b, bank)
      BY <1>3 DEF AddStakedBank
    <2> HIDE DEF given
    <2>4. bank.entries = {}
      BY <2>2 DEF NewBank, StakedFields, ++
    <2> QED
      BY <2>3, <2>4
  <1> QED
    BY <1>1, <1>2, <1>3

\* What the steps of the group leave is as it was, or without entries.
LEMMA GroupStepStaysBelow ==
    ASSUME ConfigInv, GroupNext, NEW x \in DOMAIN banks', x \notin DOMAIN banks
    PROVE  BelowDebts(banks'[x])
  <1>1. PICK b \in Banks :
            \/ \E config \in NewConfigs : AddBank(b, config)
            \/ \E config \in VenueConfigs : AddVenueBank(b, config)
            \/ AddStakedBank(b)
    BY DEF GroupNext, ConfigureGroup, InitStakedSettings, EditStakedSettings
  <1>2. PICK bank : Insert(b, bank) /\ bank.entries = {}
    BY <1>1, NewBankHasNoEntries
  <1>3. x = b /\ banks'[x] = bank
    BY <1>2 DEF Insert, ++
  <1> QED
    BY <1>2, <1>3 DEF BelowDebts

\* Changing flags changes no entries.
LEMMA FlagsStayBelow ==
    ASSUME ConfigInv, NEW flags, SetFlags(flags), Rewarded \in DOMAIN banks,
           NEW b \in DOMAIN banks
    PROVE  BelowDebts(banks'[b]) \/ ~BelowDebts(banks[b])
  <1>1. CASE b = Rewarded
    <2> DEFINE old == banks[b]
               new == banks'[b]
    <2>1. DOMAIN old = BankFields
      BY GoodFields DEF ConfigInv
    <2>2. Replace(b, [old EXCEPT !.flags = flags])
      BY <1>1 DEF SetFlags
    <2>3. new = [old EXCEPT !.flags = flags]
      BY <2>2, ReplaceTouchesOne
    <2> HIDE DEF new, old
    <2>4. new.li = old.li /\ new.lm = old.lm /\ new.entries = old.entries
      BY <2>1, <2>3 DEF BankFields, ConfigFields
    <2>5. BelowDebts(new) \/ ~BelowDebts(old)
      BY <2>4, SameStaysBelow
    <2> QED
      BY <2>5 DEF old, new
  <1>2. CASE b # Rewarded
    BY <1>2, ReplaceTouchesOne DEF SetFlags
  <1> QED
    BY <1>1, <1>2

\* Steps that are not of the group leave the banks there are.
LEMMA BanksStay ==
    ASSUME ConfigInv, NEW b, NEW bank, Replace(b, bank)
    PROVE  DOMAIN banks' = DOMAIN banks
  BY DEF Replace

\* Whoever configures what and in whatever order, no entry of emode reaches the weights of its
\* bank's debts without a clone.
THEOREM OnlyClonesReachDebts == EmissionsSpec => EmodeStaysBelow
  <1> DEFINE Stays(b) == \/ BelowDebts(banks'[b])
                         \/ b \in DOMAIN banks /\ ~BelowDebts(banks[b])
                         \/ \E from \in DOMAIN banks : CloneEmode(from, b)
             A == \A b \in DOMAIN banks' : Stays(b)
  <1>1. ConfigInv /\ [EmissionsNext]_emissionsVars => [A]_configVars
    <2> SUFFICES ASSUME ConfigInv, EmissionsNext, ~UNCHANGED configVars,
                        NEW b \in DOMAIN banks'
                 PROVE  Stays(b)
      BY DEF emissionsVars
    <2>1. CASE GroupNext
      <3>1. CASE b \in DOMAIN banks
        BY <2>1, <3>1, GroupStepTouchesNone
      <3>2. CASE b \notin DOMAIN banks
        BY <2>1, <3>2, GroupStepStaysBelow
      <3> QED
        BY <3>1, <3>2
    <2>2. CASE \E x \in DOMAIN banks : BankNext(x)
      <3>1. PICK x \in DOMAIN banks : BankNext(x)
        BY <2>2
      <3>2. \E bank : Replace(x, bank)
        BY <3>1 DEF BankNext, ConfigureBank, ConfigureInterestOnly, ConfigureLimitsOnly,
                    ConfigureEmode, ConfigureOracle, CloneEmode, ForceTokenlessRepayComplete,
                    SetFixedOraclePrice, MigrateCurve, PropagateStakedSettings
      <3>3. b \in DOMAIN banks
        BY <3>2, BanksStay
      <3>4. CASE x = b
        BY <3>1, <3>3, <3>4, BankStepStaysBelow
      <3>5. CASE x # b
        BY <3>1, <3>3, <3>5, BankStepTouchesOne
      <3> QED
        BY <3>4, <3>5
    <2>3. CASE RewardNext
      <3>1. PICK flags : SetFlags(flags) /\ Rewarded \in DOMAIN banks
        BY <2>3, RewardsTouchFlags
      <3>2. b \in DOMAIN banks
        BY <3>1, BanksStay DEF SetFlags
      <3> QED
        BY <3>1, <3>2, FlagsStayBelow
    <2> QED
      BY <2>1, <2>2, <2>3 DEF EmissionsNext, Next
  <1> HIDE DEF A
  <1>2. EmissionsSpec => [][A]_configVars
    BY <1>1, ConfigInvariant, PTL DEF EmissionsSpec
  <1> QED
    BY <1>2 DEF EmodeStaysBelow, A

-----------------------------------------------------------------------------
(* Emissions *)

\* What a holder claims is at most what remains.
LEMMA ClaimWithinRemaining ==
    ASSUME RewardInv, NEW h \in Holders
    PROVE  Claim(h) \in Nat /\ Claim(h) <= emissions.remaining
  <1> DEFINE old == balances[h]
  <1>1. /\ now \in Nat /\ emissions.rate \in Nat /\ emissions.remaining \in Nat
        /\ old \in Balances(now)
    BY DEF RewardInv
  <1>2. now - old.last \in Nat /\ old.amount \in Nat
    BY <1>1 DEF Balances
  <1> HIDE DEF old
  <1>3. (now - old.last) * old.amount \in Nat
    BY <1>2
  <1>4. Earned(h) \in Nat
    BY <1>1, <1>3 DEF Earned, old
  <1> QED
    BY <1>1, <1>4 DEF Claim

\* The sum of what is owed, when one balance changes
LEMMA OwedChanges ==
    ASSUME RewardInv, NEW h \in Holders, NEW new, new.owed \in Nat,
           balances' = [balances EXCEPT ![h] = new]
    PROVE  /\ Owed' = Owed - balances[h].owed + new.owed
           /\ Owed \in Nat /\ balances[h].owed \in Nat
  <1>1. PICK after : after = balances'
    OBVIOUS
  <1> DEFINE f == [i \in Holders |-> balances[i].owed]
             g == [i \in Holders |-> after[i].owed]
  <1>2. IsFiniteSet(Holders)
    BY EmissionsAssumption
  <1>3. \A i \in Holders : balances[i].owed \in Nat
    BY DEF RewardInv, Balances
  <1>4. /\ \A i \in Holders : after[i] = IF i = h THEN new ELSE balances[i]
    BY <1>1 DEF RewardInv
  <1>5. /\ \A i \in Holders : f[i] \in Nat
        /\ \A i \in Holders : f[i] \in Int /\ g[i] \in Int
        /\ \A i \in Holders \ {h} : g[i] = f[i]
        /\ f[h] = balances[h].owed /\ g[h] = new.owed
    BY <1>3, <1>4
  <1>6. Owed = SumFunctionOnSet(f, Holders) /\ Owed' = SumFunctionOnSet(g, Holders)
    BY <1>1 DEF Owed
  <1> HIDE DEF f, g
  <1>7. SumFunctionOnSet(g, Holders) = SumFunctionOnSet(f, Holders) - f[h] + g[h]
    BY <1>2, <1>5, SumUpdate
  <1>8. SumFunctionOnSet(f, Holders) \in Nat
    BY <1>2, <1>5, SumNat
  <1> QED
    BY <1>3, <1>5, <1>6, <1>7, <1>8

\* A step of a holder that claims, and is paid or owed no more than was owed and claimed
LEMMA HolderIsBacked ==
    ASSUME RewardInv, NEW h \in Holders, NEW new \in Balances(now), NEW claim \in Nat,
           claim <= emissions.remaining, NEW paid \in Nat, paid <= vault,
           new.owed + paid * Unit <= balances[h].owed + claim,
           balances' = [balances EXCEPT ![h] = new],
           emissions' = [emissions EXCEPT !.remaining = @ - claim],
           vault' = vault - paid, now' = now
    PROVE  RewardInv'
  <1>1. /\ now \in Nat /\ vault \in Nat /\ emissions.remaining \in Nat
        /\ vault * Unit >= emissions.remaining + Owed
        /\ Unit \in Nat \ {0}
    BY EmissionsAssumption DEF RewardInv, EmissionsBacked
  <1>2. new.owed \in Nat
    BY DEF Balances
  <1>3. /\ Owed' = Owed - balances[h].owed + new.owed
        /\ Owed \in Nat /\ balances[h].owed \in Nat
    BY <1>2, OwedChanges
  <1>4. emissions' \in [setUp : BOOLEAN, rate : Nat, remaining : Nat]
        /\ emissions'.remaining = emissions.remaining - claim
    <2>1. /\ emissions = [setUp |-> emissions.setUp, rate |-> emissions.rate,
                          remaining |-> emissions.remaining]
          /\ emissions.setUp \in BOOLEAN /\ emissions.rate \in Nat
      BY DEF RewardInv
    <2>2. emissions.remaining - claim \in Nat
      BY <1>1
    <2>3. emissions' = [setUp |-> emissions.setUp, rate |-> emissions.rate,
                        remaining |-> emissions.remaining - claim]
      BY <2>1
    <2> QED
      BY <2>1, <2>2, <2>3
  <1>5. balances' \in [Holders -> Balances(now')]
    BY DEF RewardInv
  <1>6. vault' \in Nat
    BY <1>1
  <1>7. vault' * Unit = vault * Unit - paid * Unit /\ vault * Unit \in Int /\ paid * Unit \in Nat
    BY <1>1
  <1> DEFINE v == vault * Unit
             p == paid * Unit
             w == vault' * Unit
  <1> HIDE DEF v, p, w
  <1>8. v \in Int /\ p \in Nat /\ w = v - p /\ v >= emissions.remaining + Owed
        /\ new.owed + p <= balances[h].owed + claim
    BY <1>1, <1>7 DEF v, p, w
  <1>9. w >= emissions'.remaining + Owed'
    BY <1>1, <1>2, <1>3, <1>4, <1>8
  <1>10. emissions'.remaining >= 0
    BY <1>1, <1>4
  <1>11. EmissionsBacked'
    BY <1>9, <1>10 DEF EmissionsBacked, w
  <1> QED
    BY <1>1, <1>4, <1>5, <1>6, <1>11 DEF RewardInv

\* A balance after its claim
LEMMA ClaimedBalance ==
    ASSUME RewardInv, NEW h \in Holders
    PROVE  /\ Claimed(h) \in Balances(now)
           /\ Claimed(h).owed = balances[h].owed + Claim(h)
           /\ balances[h].owed \in Nat
  <1>1. balances[h] \in Balances(now) /\ now \in Nat
    BY DEF RewardInv
  <1>2. Claim(h) \in Nat
    BY ClaimWithinRemaining
  <1> DEFINE old == balances[h]
             claim == Claim(h)
  <1>3. Claimed(h) = [old EXCEPT !.owed = old.owed + claim, !.last = now]
    BY DEF Claimed
  <1> HIDE DEF old, claim
  <1>4. old \in Balances(now) /\ claim \in Nat /\ now \in 0 .. now /\ old.owed + claim \in Nat
    BY <1>1, <1>2 DEF old, claim, Balances
  <1> DEFINE sum == old.owed + claim
  <1>5. sum \in Nat
    BY <1>4
  <1> HIDE DEF sum
  <1>6. /\ [old EXCEPT !.owed = sum, !.last = now] \in Balances(now)
        /\ [old EXCEPT !.owed = sum, !.last = now].owed = sum
    BY <1>4, <1>5 DEF Balances
  <1>7. old.owed \in Nat
    BY <1>4 DEF Balances
  <1> QED
    BY <1>3, <1>6, <1>7 DEF old, claim, sum

\* A closed balance is one.
LEMMA NoBalanceTyped ==
    ASSUME RewardInv
    PROVE  /\ NoBalance \in Balances(now) /\ NoBalance.owed = 0
           /\ [NoBalance EXCEPT !.last = now] \in Balances(now)
           /\ [NoBalance EXCEPT !.last = now].owed = 0
  BY DEF RewardInv, NoBalance, Balances

\* A change of a balance claims first, out of what remains, unless it opens it.
LEMMA ChangeBalanceIsBacked ==
    ASSUME RewardInv, NEW h \in Holders, NEW side \in {"none", "assets", "liabilities"},
           NEW amount \in Amounts, ChangeBalance(h, side, amount)
    PROVE  RewardInv'
  <1> DEFINE base == IF balances[h] = NoBalance THEN [NoBalance EXCEPT !.last = now] ELSE Claimed(h)
             new == [base EXCEPT !.side = side, !.amount = amount]
  <1>1. Claim(h) \in Nat /\ Claim(h) <= emissions.remaining
    BY ClaimWithinRemaining
  <1>2. base \in Balances(now) /\ base.owed <= balances[h].owed + Claim(h)
        /\ balances[h].owed \in Nat
    BY <1>1, ClaimedBalance, NoBalanceTyped
  <1>3. balances' = [balances EXCEPT ![h] = new]
    BY DEF ChangeBalance
  <1> HIDE DEF base
  <1>4. new \in Balances(now) /\ new.owed = base.owed
    BY <1>2, EmissionsAssumption DEF Balances
  <1> HIDE DEF new
  <1>5. new.owed + 0 * Unit <= balances[h].owed + Claim(h)
    <2>1. new.owed \in Nat /\ 0 * Unit = 0
      BY <1>4, EmissionsAssumption DEF Balances
    <2> QED
      BY <1>2, <1>4, <2>1
  <1>6. vault' = vault - 0 /\ 0 <= vault /\ now' = now
    BY DEF ChangeBalance, RewardInv
  <1>7. emissions' = [emissions EXCEPT !.remaining = @ - Claim(h)]
    BY DEF ChangeBalance, Spent
  <1> QED
    BY <1>1, <1>3, <1>4, <1>5, <1>6, <1>7, HolderIsBacked

\* Closing a balance claims first, and gives up less than a token.
LEMMA CloseBalanceIsBacked ==
    ASSUME RewardInv, NEW h \in Holders, CloseBalance(h)
    PROVE  RewardInv'
  <1>1. Claim(h) \in Nat /\ Claim(h) <= emissions.remaining
    BY ClaimWithinRemaining
  <1>2. NoBalance \in Balances(now)
    BY NoBalanceTyped
  <1>3. NoBalance.owed + 0 * Unit <= balances[h].owed + Claim(h)
    <2>1. NoBalance.owed = 0 /\ 0 * Unit = 0
      BY NoBalanceTyped, EmissionsAssumption
    <2> QED
      BY <1>1, <2>1, ClaimedBalance
  <1>4. vault' = vault - 0 /\ 0 <= vault /\ now' = now
    BY DEF CloseBalance, RewardInv
  <1>5. /\ emissions' = [emissions EXCEPT !.remaining = @ - Claim(h)]
        /\ balances' = [balances EXCEPT ![h] = NoBalance]
    BY DEF CloseBalance, Spent
  <1> QED
    BY <1>1, <1>2, <1>3, <1>4, <1>5, HolderIsBacked

\* Purging one claims nothing, and gives up what is owed.
LEMMA PurgeBalanceIsBacked ==
    ASSUME RewardInv, NEW h \in Holders, PurgeBalance(h)
    PROVE  RewardInv'
  <1>1. NoBalance \in Balances(now)
    BY NoBalanceTyped
  <1>2. NoBalance.owed + 0 * Unit <= balances[h].owed + 0
    <2>1. NoBalance.owed = 0 /\ 0 * Unit = 0
      BY NoBalanceTyped, EmissionsAssumption
    <2> QED
      BY <2>1, ClaimedBalance
  <1>3. vault' = vault - 0 /\ 0 <= vault /\ now' = now /\ 0 <= emissions.remaining
    BY DEF PurgeBalance, RewardInv
  <1>4. balances' = [balances EXCEPT ![h] = NoBalance]
    BY DEF PurgeBalance
  <1>5. emissions' = [emissions EXCEPT !.remaining = @ - 0]
    BY DEF PurgeBalance, RewardInv
  <1> QED
    BY <1>1, <1>2, <1>3, <1>4, <1>5, HolderIsBacked

\* Settling claims, and changes nothing else.
LEMMA SettleIsBacked ==
    ASSUME RewardInv, NEW h \in Holders, SettleEmissions(h)
    PROVE  RewardInv'
  <1>1. Claim(h) \in Nat /\ Claim(h) <= emissions.remaining
    BY ClaimWithinRemaining
  <1>2. Claimed(h) \in Balances(now)
    BY ClaimedBalance
  <1>3. Claimed(h).owed + 0 * Unit <= balances[h].owed + Claim(h)
    <2>1. 0 * Unit = 0
      BY EmissionsAssumption
    <2> QED
      BY <1>1, <2>1, ClaimedBalance
  <1>4. vault' = vault - 0 /\ 0 <= vault /\ now' = now
    BY DEF SettleEmissions, RewardInv
  <1>5. /\ emissions' = [emissions EXCEPT !.remaining = @ - Claim(h)]
        /\ balances' = [balances EXCEPT ![h] = Claimed(h)]
    BY DEF SettleEmissions, Spent
  <1> QED
    BY <1>1, <1>2, <1>3, <1>4, <1>5, HolderIsBacked

\* What is paid out was owed.
LEMMA PayOutIsBacked ==
    ASSUME RewardInv, NEW h \in Holders, PayOut(h)
    PROVE  RewardInv'
  <1> DEFINE owed == Claimed(h).owed
             tokens == owed \div Unit
             new == [Claimed(h) EXCEPT !.owed = owed - tokens * Unit]
  <1>1. Claim(h) \in Nat /\ Claim(h) <= emissions.remaining
    BY ClaimWithinRemaining
  <1>2. /\ Claimed(h) \in Balances(now) /\ owed \in Nat
        /\ owed = balances[h].owed + Claim(h) /\ balances[h].owed \in Nat
    BY ClaimedBalance DEF Balances
  <1>3. /\ vault >= tokens /\ vault' = vault - tokens
        /\ balances' = [balances EXCEPT ![h] = new]
        /\ emissions' = [emissions EXCEPT !.remaining = @ - Claim(h)]
        /\ now' = now
    BY DEF PayOut, Spent
  <1> HIDE DEF owed
  <1>4. tokens \in Nat /\ tokens * Unit <= owed
    BY <1>2, EmissionsAssumption, Quotient
  <1> HIDE DEF tokens
  <1> DEFINE paid == tokens * Unit
  <1>5. paid \in Nat /\ owed - paid \in Nat
    <2>1. paid \in Nat
      BY <1>4, EmissionsAssumption
    <2> QED
      BY <1>2, <1>4, <2>1
  <1>6. new \in Balances(now) /\ new.owed = owed - tokens * Unit
    <2> HIDE DEF paid
    <2>1. [Claimed(h) EXCEPT !.owed = owed - paid] \in Balances(now)
          /\ [Claimed(h) EXCEPT !.owed = owed - paid].owed = owed - paid
      BY <1>2, <1>5 DEF Balances
    <2> QED
      BY <2>1 DEF paid
  <1> HIDE DEF new
  <1>7. new.owed + tokens * Unit <= balances[h].owed + Claim(h)
    <2>1. new.owed + paid <= owed
      <3>1. new.owed = owed - paid
        BY <1>6
      <3> HIDE DEF paid
      <3> QED
        BY <1>2, <1>5, <3>1
    <2> QED
      BY <1>2, <2>1
  <1>8. tokens <= vault
    BY <1>3, <1>4 DEF RewardInv
  <1> QED
    BY <1>1, <1>3, <1>4, <1>6, <1>7, <1>8, HolderIsBacked

\* What the admin promises he has put into the vault.
LEMMA FundIsBacked ==
    ASSUME RewardInv, NEW tokens \in Funds, NEW rate \in Rates, NEW remaining \in Nat,
           remaining <= emissions.remaining + tokens * Unit,
           Fund(tokens), UNCHANGED <<now, balances>>,
           emissions' = [setUp |-> TRUE, rate |-> rate, remaining |-> remaining]
    PROVE  RewardInv'
  <1>1. /\ vault \in Nat /\ emissions.remaining \in Nat /\ tokens \in Nat /\ rate \in Nat
        /\ Unit \in Nat \ {0}
        /\ vault * Unit >= emissions.remaining + Owed
    BY EmissionsAssumption DEF RewardInv, EmissionsBacked
  <1>2. vault' = vault + tokens /\ vault' \in Nat
    BY <1>1 DEF Fund
  <1>3. vault' * Unit = vault * Unit + tokens * Unit /\ vault * Unit \in Nat
        /\ tokens * Unit \in Nat
    BY <1>1, <1>2
  <1>4. emissions'.remaining = remaining
        /\ emissions' \in [setUp : BOOLEAN, rate : Nat, remaining : Nat]
    BY <1>1
  <1>5. Owed' = Owed /\ Owed \in Int
    <2>1. \A i \in Holders : [j \in Holders |-> balances[j].owed][i] \in Int
      BY DEF RewardInv, Balances
    <2>2. Owed \in Int
      <3> DEFINE f == [j \in Holders |-> balances[j].owed]
      <3>1. \A i \in Holders : f[i] \in Int
        BY <2>1
      <3>2. Owed = SumFunctionOnSet(f, Holders)
        BY DEF Owed
      <3>3. IsFiniteSet(Holders)
        BY EmissionsAssumption
      <3> HIDE DEF f
      <3> QED
        BY <3>1, <3>2, <3>3, SumRemove
    <2> QED
      BY <2>2 DEF Owed
  <1> DEFINE v == vault * Unit
             t == tokens * Unit
             w == vault' * Unit
  <1> HIDE DEF v, t, w
  <1>6. v \in Nat /\ t \in Nat /\ w = v + t /\ v >= emissions.remaining + Owed
        /\ remaining <= emissions.remaining + t
    BY <1>1, <1>3 DEF v, t, w
  <1>7. w >= remaining + Owed
    BY <1>1, <1>5, <1>6
  <1>8. EmissionsBacked'
    BY <1>4, <1>5, <1>7 DEF EmissionsBacked, w
  <1>9. now' \in Nat /\ balances' \in [Holders -> Balances(now')]
    BY DEF RewardInv
  <1> QED
    BY <1>2, <1>4, <1>8, <1>9 DEF RewardInv

\* The admin adds to the vault what he adds to what remains.
LEMMA AdminIsBacked ==
    ASSUME RewardInv, AdminNext
    PROVE  RewardInv'
  <1>1. PICK rate \in Rates, tokens \in Funds :
            \/ \E flags \in SUBSET EmissionFlags : SetupEmissions(flags, rate, tokens)
            \/ \E flags \in UpdatedFlags : UpdateEmissions(flags, rate, tokens)
    BY DEF AdminNext
  <1>2. emissions.remaining \in Nat /\ tokens * Unit \in Nat
    <2>1. tokens \in Nat /\ Unit \in Nat
      BY EmissionsAssumption
    <2> QED
      BY <2>1 DEF RewardInv
  <1>3. ASSUME NEW flags, SetupEmissions(flags, rate, tokens) PROVE RewardInv'
    <2>1. /\ Fund(tokens) /\ UNCHANGED <<now, balances>>
          /\ emissions' = [setUp |-> TRUE, rate |-> rate, remaining |-> tokens * Unit]
      BY <1>3 DEF SetupEmissions
    <2> DEFINE t == tokens * Unit
    <2>2. t \in Nat /\ t <= emissions.remaining + tokens * Unit
      <3>1. t \in Nat /\ t = tokens * Unit
        BY <1>2
      <3> HIDE DEF t
      <3> QED
        BY <1>2, <3>1
    <2> QED
      BY <2>1, <2>2, FundIsBacked
  <1>4. ASSUME NEW flags, UpdateEmissions(flags, rate, tokens) PROVE RewardInv'
    <2> DEFINE t == emissions.remaining + tokens * Unit
    <2>1. /\ Fund(tokens) /\ UNCHANGED <<now, balances>>
          /\ emissions.setUp
          /\ emissions' = [emissions EXCEPT !.rate = rate, !.remaining = t]
      BY <1>4 DEF UpdateEmissions
    <2>2. t \in Nat /\ t <= emissions.remaining + tokens * Unit
      BY <1>2
    <2> HIDE DEF t
    <2>3. emissions' = [setUp |-> emissions.setUp, rate |-> rate, remaining |-> t]
      BY <2>1 DEF RewardInv
    <2>4. emissions.setUp = TRUE
      BY <2>1 DEF RewardInv
    <2>5. emissions' = [setUp |-> TRUE, rate |-> rate, remaining |-> t]
      BY <2>3, <2>4
    <2> QED
      BY <2>1, <2>2, <2>5, FundIsBacked
  <1> QED
    BY <1>1, <1>3, <1>4

\* Whatever touches no reward leaves them backed.
LEMMA UnchangedIsBacked ==
    ASSUME RewardInv, UNCHANGED <<emissions, vault, balances>>,
           now' \in Nat, now <= now'
    PROVE  RewardInv'
  <1>1. EmissionsBacked' /\ vault' \in Nat
        /\ emissions' \in [setUp : BOOLEAN, rate : Nat, remaining : Nat]
    BY DEF RewardInv, EmissionsBacked, Owed
  <1>2. now \in Nat /\ \A x \in Balances(now) : x \in Balances(now')
    BY DEF RewardInv, Balances
  <1>3. balances' \in [Holders -> Balances(now')]
    BY <1>2 DEF RewardInv
  <1> QED
    BY <1>1, <1>3 DEF RewardInv

\* The invariant of the rewards is inductive.
LEMMA RewardsAreBacked ==
    ASSUME RewardInv, [EmissionsNext]_emissionsVars
    PROVE  RewardInv'
  <1>1. ASSUME UNCHANGED rewardVars PROVE RewardInv'
    BY <1>1, UnchangedIsBacked DEF rewardVars, RewardInv
  <1>2. ASSUME Tick PROVE RewardInv'
    BY <1>2, UnchangedIsBacked DEF Tick, RewardInv
  <1>3. ASSUME NEW h \in Holders, HolderNext(h) PROVE RewardInv'
    <2>1. ASSUME UpdateDestination(h) PROVE RewardInv'
      BY <2>1, UnchangedIsBacked DEF UpdateDestination, RewardInv
    <2> QED
      BY <1>3, <2>1, ChangeBalanceIsBacked, CloseBalanceIsBacked, PurgeBalanceIsBacked,
         SettleIsBacked, PayOutIsBacked
         DEF HolderNext, WithdrawEmissions, WithdrawEmissionsPermissionless
  <1> QED
    BY <1>1, <1>2, <1>3, AdminIsBacked DEF EmissionsNext, RewardNext, emissionsVars

\* However rates, flags and balances change between the claims of the holders: the books of
\* the emissions are numbers, and the vault holds what they promise.
THEOREM RewardInvariant == EmissionsSpec => []RewardInv
  <1>1. InitRewards => RewardInv
    <2> SUFFICES ASSUME InitRewards PROVE RewardInv
      OBVIOUS
    <2>1. /\ now = 0 /\ vault = 0 /\ emissions.remaining = 0
          /\ emissions \in [setUp : BOOLEAN, rate : Nat, remaining : Nat]
          /\ balances = [h \in Holders |-> NoBalance]
      BY DEF InitRewards
    <2>2. NoBalance \in Balances(now) /\ NoBalance.owed = 0
      BY <2>1 DEF NoBalance, Balances
    <2>3. Owed = 0
      <3> DEFINE f == [h \in Holders |-> balances[h].owed]
      <3>1. \A h \in Holders : f[h] = 0
        BY <2>1, <2>2
      <3>2. Owed = SumFunctionOnSet(f, Holders)
        BY DEF Owed
      <3>3. IsFiniteSet(Holders)
        BY EmissionsAssumption
      <3> HIDE DEF f
      <3> QED
        BY <3>1, <3>2, <3>3, SumZero
    <2>4. vault * Unit = 0
      BY <2>1, EmissionsAssumption
    <2> QED
      BY <2>1, <2>2, <2>3, <2>4 DEF RewardInv, EmissionsBacked
  <1>2. RewardInv /\ [EmissionsNext]_emissionsVars => RewardInv'
    BY RewardsAreBacked
  <1>3. EmissionsInit => InitRewards
    BY DEF EmissionsInit
  <1> QED
    BY <1>1, <1>2, <1>3, PTL DEF EmissionsSpec

\* What is owed and what remains is in the vault.
THEOREM EmissionsStayBacked == EmissionsSpec => []EmissionsBacked
  <1>1. RewardInv => EmissionsBacked
    BY DEF RewardInv
  <1> QED
    BY <1>1, RewardInvariant, PTL

=============================================================================
