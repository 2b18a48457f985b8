------------------------------- MODULE DvccProofs -------------------------------
(***************************************************************************)
(* The current limits for every profile that DvccProfile accepts, every    *)
(* reading and every pace of polling: bounded by each curve, zero when     *)
(* any reading demands it, and ordered along every curve.                  *)
(***************************************************************************)
EXTENDS Dvcc, TLAPS

-----------------------------------------------------------------------------
(***************************************************************************)
(* Whole-number arithmetic.                                                *)
(***************************************************************************)

\* Multiplication by a natural number keeps the order.
LEMMA TimesMonotone ==
    ASSUME NEW a \in Int, NEW b \in Int, NEW n \in Nat, a <= b
    PROVE  a * n <= b * n /\ n * a <= n * b
<1>1. (b - a) * n >= 0
  <2> DEFINE c == b - a
  <2>1. c \in Nat
    OBVIOUS
  <2> HIDE DEF c
  <2>2. c * n >= 0
    BY <2>1
  <2> QED BY <2>2 DEF c
<1> QED BY <1>1

\* The quotient is the whole number below the fraction.
LEMMA DivBounds ==
    ASSUME NEW a \in Int, NEW n \in Nat \ {0}
    PROVE  /\ a \div n \in Int
           /\ (a \div n) * n <= a /\ a < (a \div n) * n + n
OBVIOUS

\* Division by a positive number keeps the order.
LEMMA DivMonotone ==
    ASSUME NEW a \in Int, NEW b \in Int, NEW n \in Nat \ {0}, a <= b
    PROVE  a \div n <= b \div n
<1> DEFINE q == a \div n
           r == b \div n
<1>1. q \in Int /\ r \in Int /\ q * n <= a /\ b < r * n + n
  BY DivBounds
<1> SUFFICES ASSUME ~(q <= r) PROVE FALSE
  OBVIOUS
<1> HIDE DEF q, r
<1>2. r + 1 <= q
  BY <1>1
<1>3. (r + 1) * n <= q * n
  BY <1>1, <1>2, TimesMonotone
<1>4. (r + 1) * n = r * n + n
  BY <1>1
<1>5. r * n \in Int /\ q * n \in Int
  BY <1>1
<1> QED BY <1>1, <1>3, <1>4, <1>5

\* A multiple is divided without rest.
LEMMA DivExact ==
    ASSUME NEW a \in Int, NEW n \in Nat \ {0}
    PROVE  (a * n) \div n = a
<1> DEFINE q == (a * n) \div n
<1>1. a * n \in Int
  OBVIOUS
<1>2. q \in Int /\ q * n <= a * n /\ a * n < q * n + n
  BY <1>1, DivBounds
<1> HIDE DEF q
<1>3. ~(a <= q - 1)
  <2> SUFFICES ASSUME a <= q - 1 PROVE FALSE
    OBVIOUS
  <2>1. (a + 1) * n <= q * n
    BY <1>2, TimesMonotone
  <2>2. (a + 1) * n = a * n + n
    OBVIOUS
  <2>3. q * n \in Int
    BY <1>2
  <2> QED BY <1>1, <1>2, <2>1, <2>2, <2>3
<1>4. ~(q + 1 <= a)
  <2> SUFFICES ASSUME q + 1 <= a PROVE FALSE
    OBVIOUS
  <2>1. (q + 1) * n <= a * n
    BY <1>2, TimesMonotone
  <2>2. (q + 1) * n = q * n + n
    BY <1>2
  <2>3. q * n \in Int
    BY <1>2
  <2> QED BY <1>1, <1>2, <2>1, <2>2, <2>3
<1>5. q = a
  BY <1>2, <1>3, <1>4
<1> QED BY <1>5 DEF q

\* A falling line stays between its ends and keeps falling.
LEMMA FallingLine ==
    ASSUME NEW x0 \in Int, NEW x1 \in Int, x0 < x1,
           NEW y0 \in Int, NEW y1 \in Int, y1 <= y0, NEW x \in x0..x1
    PROVE  /\ Line(x, x0, y0, x1, y1) \in y1..y0
           /\ \A z \in x..x1 : Line(z, x0, y0, x1, y1) <= Line(x, x0, y0, x1, y1)
<1> DEFINE n == x1 - x0
           h == y0 - y1
           a(z) == (y1 - y0) * (z - x0)
<1>1. n \in Nat \ {0} /\ h \in Nat
  OBVIOUS
<1>2. ASSUME NEW u \in x0..x1, NEW v \in u..x1
      PROVE  a(u) \in Int /\ a(v) \in Int /\ a(v) <= a(u)
  <2>1. (u - x0) * h <= (v - x0) * h
    BY <1>1, TimesMonotone
  <2>2. a(u) = -((u - x0) * h) /\ a(v) = -((v - x0) * h)
    OBVIOUS
  <2>3. (u - x0) * h \in Int /\ (v - x0) * h \in Int
    BY <1>1
  <2> QED BY <2>1, <2>2, <2>3
<1>3. ASSUME NEW u \in x0..x1, NEW v \in u..x1
      PROVE  a(u) \div n \in Int /\ a(v) \div n <= a(u) \div n
  <2> HIDE DEF a, n
  <2> QED BY <1>1, <1>2, <1>3, DivMonotone, DivBounds
<1>4. a(x0) \div n = 0
  <2>1. a(x0) = 0 * n
    OBVIOUS
  <2> HIDE DEF a, n
  <2> QED BY <1>1, <2>1, DivExact
<1>5. a(x1) \div n = y1 - y0
  <2>1. a(x1) = (y1 - y0) * n
    OBVIOUS
  <2> HIDE DEF a, n
  <2> QED BY <1>1, <2>1, DivExact
<1>6. \A z : Line(z, x0, y0, x1, y1) = y0 + a(z) \div n
  BY DEF Line
<1> HIDE DEF a, n
<1>7. \A u \in x0..x1 : \A v \in u..x1 : a(u) \div n \in Int /\ a(v) \div n <= a(u) \div n
  BY <1>3
<1>8. /\ x0 \in x0..x1 /\ x1 \in x..x1 /\ x1 \in x0..x1 /\ x \in x0..x1
      /\ \A z \in x..x1 : z \in x0..x1
  OBVIOUS
<1> QED BY <1>4, <1>5, <1>6, <1>7, <1>8

\* A rising line stays between its ends and keeps rising.
LEMMA RisingLine ==
    ASSUME NEW x0 \in Int, NEW x1 \in Int, x0 < x1,
           NEW y0 \in Int, NEW y1 \in Int, y0 <= y1, NEW x \in x0..x1
    PROVE  /\ Line(x, x0, y0, x1, y1) \in y0..y1
           /\ \A z \in x..x1 : Line(x, x0, y0, x1, y1) <= Line(z, x0, y0, x1, y1)
<1> DEFINE n == x1 - x0
           h == y1 - y0
           a(z) == h * (z - x0)
<1>1. n \in Nat \ {0} /\ h \in Nat
  OBVIOUS
<1>2. ASSUME NEW u \in x0..x1, NEW v \in u..x1
      PROVE  a(u) \in Int /\ a(v) \in Int /\ a(u) <= a(v)
  <2> HIDE DEF h
  <2> QED BY <1>1, TimesMonotone
<1>3. ASSUME NEW u \in x0..x1, NEW v \in u..x1
      PROVE  a(u) \div n \in Int /\ a(v) \div n \in Int /\ a(u) \div n <= a(v) \div n
  <2> HIDE DEF a, n
  <2> QED BY <1>1, <1>2, <1>3, DivMonotone, DivBounds
<1>4. a(x0) \div n = 0
  <2>1. a(x0) = 0 * n
    OBVIOUS
  <2> HIDE DEF a, n
  <2> QED BY <1>1, <2>1, DivExact
<1>5. a(x1) \div n = h
  <2>1. a(x1) = h * n
    OBVIOUS
  <2> HIDE DEF a, n, h
  <2> QED BY <1>1, <2>1, DivExact
<1>6. \A z : Line(z, x0, y0, x1, y1) = y0 + a(z) \div n
  BY DEF Line
<1> HIDE DEF a, n
<1>7. \A u \in x0..x1 : \A v \in u..x1 : a(u) \div n \in Int /\ a(u) \div n <= a(v) \div n
  BY <1>3
<1>8. /\ x0 \in x0..x1 /\ x1 \in x..x1 /\ x1 \in x0..x1 /\ x \in x0..x1
      /\ \A z \in x..x1 : z \in x0..x1
  OBVIOUS
<1> QED BY <1>4, <1>5, <1>6, <1>7, <1>8
-----------------------------------------------------------------------------
(***************************************************************************)
(* The curves: each ranges from zero to its maximum and falls, or rises,   *)
(* across all of its thresholds.                                           *)
(***************************************************************************)

\* What DvccProfile.__post_init__ guarantees of the thresholds.
LEMMA ProfileNumbers ==
    /\ P.maxCharge \in Nat \ {0} /\ P.maxDischarge \in Nat \ {0} /\ P.minCharge \in Nat
    /\ P.rate \in Nat \ {0}
    /\ P.start \in Int /\ P.balance \in Int /\ P.near \in Int /\ P.cutoff \in Int
    /\ P.start < P.balance /\ P.balance < P.near /\ P.near < P.cutoff
    /\ P.imbStart \in Int /\ P.imbAggressive \in Int /\ P.imbCritical \in Int
    /\ P.imbStart < P.imbAggressive /\ P.imbAggressive < P.imbCritical
    /\ P.stopCold \in Int /\ P.fullMin \in Int /\ P.fullMax \in Int /\ P.stopHot \in Int
    /\ P.stopCold < P.fullMin /\ P.fullMin <= P.fullMax /\ P.fullMax < P.stopHot
    /\ P.socStart \in Int /\ P.socStart < 100
    /\ P.dCutoff \in Int /\ P.dStart \in Int /\ P.dFull \in Int
    /\ P.dCutoff < P.dStart /\ P.dStart < P.dFull
BY ProfileAssumption DEF Fields

\* A share of a current lies between zero and that current.
LEMMA PartBounds ==
    ASSUME NEW i \in Nat, NEW pct \in 0..100
    PROVE  Part(i, pct) \in 0..i
<1>1. 0 * i <= pct * i /\ pct * i <= 100 * i
  BY TimesMonotone
<1>2. i * pct \in Int /\ 0 <= i * pct /\ i * pct <= i * 100
  BY <1>1
<1>3. (i * pct) \div 100 <= (i * 100) \div 100 /\ 0 \div 100 <= (i * pct) \div 100
  BY <1>2, DivMonotone
<1>4. (i * 100) \div 100 = i /\ 0 \div 100 = 0 /\ (i * pct) \div 100 \in Int
  BY <1>2
<1> QED BY <1>3, <1>4 DEF Part

\* The shares of the profile, and that the balance and imbalance currents are
\* not below the minimum current.
LEMMA ProfileShares ==
    /\ Part(P.maxCharge, P.balancePct) \in P.minCharge..P.maxCharge
    /\ Part(P.maxCharge, P.imbPct) \in P.minCharge..P.maxCharge
    /\ Part(P.maxCharge, P.coldPct) \in 0..P.maxCharge
    /\ Part(P.maxCharge, P.hotPct) \in 0..P.maxCharge
    /\ Part(P.maxCharge, P.socPct) \in 0..P.maxCharge
    /\ Part(P.maxDischarge, P.dLowPct) \in 0..P.maxDischarge
    /\ Part(P.maxDischarge, P.dHotPct) \in 0..P.maxDischarge
<1>1. /\ P.balancePct \in 0..100 /\ P.imbPct \in 0..100 /\ P.coldPct \in 0..100
      /\ P.hotPct \in 0..100 /\ P.socPct \in 0..100 /\ P.dLowPct \in 0..100
      /\ P.dHotPct \in 0..100
  BY ProfileAssumption
<1>2. ASSUME NEW pct \in 0..100, P.minCharge * 100 <= P.maxCharge * pct
      PROVE  Part(P.maxCharge, pct) \in P.minCharge..P.maxCharge
  <2>1. P.maxCharge * pct \in Int /\ P.minCharge * 100 \in Int
    BY ProfileNumbers
  <2>2. (P.minCharge * 100) \div 100 <= (P.maxCharge * pct) \div 100
    BY <1>2, <2>1, DivMonotone
  <2>3. (P.minCharge * 100) \div 100 = P.minCharge
    BY ProfileNumbers, DivExact
  <2>4. Part(P.maxCharge, pct) \in 0..P.maxCharge
    BY ProfileNumbers, PartBounds
  <2> QED BY <2>2, <2>3, <2>4, ProfileNumbers DEF Part
<1>3. /\ Part(P.maxCharge, P.balancePct) \in P.minCharge..P.maxCharge
      /\ Part(P.maxCharge, P.imbPct) \in P.minCharge..P.maxCharge
  BY <1>1, <1>2, ProfileAssumption
<1> QED BY <1>1, <1>3, ProfileNumbers, PartBounds

\* The charge current by cell voltage, segment by segment.
LEMMA CellVoltageCurve ==
    ASSUME NEW v \in Int
    PROVE  LET f == CclFromCellVoltage(v)
               balanced == Part(P.maxCharge, P.balancePct) IN
           /\ v < P.start => f = P.maxCharge
           /\ v \in P.start..(P.balance - 1) =>
                 /\ f \in balanced..P.maxCharge
                 /\ \A w \in v..(P.balance - 1) : CclFromCellVoltage(w) <= f
           /\ v \in P.balance..(P.near - 1) =>
                 /\ f \in P.minCharge..balanced
                 /\ \A w \in v..(P.near - 1) : CclFromCellVoltage(w) <= f
           /\ v \in P.near..(P.cutoff - 1) =>
                 /\ f \in 0..P.minCharge
                 /\ \A w \in v..(P.cutoff - 1) : CclFromCellVoltage(w) <= f
           /\ v >= P.cutoff => f = 0
<1> DEFINE balanced == Part(P.maxCharge, P.balancePct)
<1>1. balanced \in P.minCharge..P.maxCharge
  BY ProfileShares
<1>2. NoData \notin Int
  BY DvccAssumption
<1>3. \A w \in Int :
        /\ w < P.start => CclFromCellVoltage(w) = P.maxCharge
        /\ w \in P.start..(P.balance - 1) =>
              CclFromCellVoltage(w) = Line(w, P.start, P.maxCharge, P.balance, balanced)
        /\ w \in P.balance..(P.near - 1) =>
              CclFromCellVoltage(w) = Line(w, P.balance, balanced, P.near, P.minCharge)
        /\ w \in P.near..(P.cutoff - 1) =>
              CclFromCellVoltage(w) = Line(w, P.near, P.minCharge, P.cutoff, 0)
        /\ w >= P.cutoff => CclFromCellVoltage(w) = 0
  <2> HIDE DEF balanced
  <2> QED BY <1>2, ProfileNumbers DEF CclFromCellVoltage, balanced
<1> HIDE DEF balanced
<1> DEFINE A(w) == Line(w, P.start, P.maxCharge, P.balance, balanced)
           B(w) == Line(w, P.balance, balanced, P.near, P.minCharge)
           C(w) == Line(w, P.near, P.minCharge, P.cutoff, 0)
<1>4. \A w \in P.start..P.balance : /\ A(w) \in balanced..P.maxCharge
                                    /\ \A z \in w..P.balance : A(z) <= A(w)
  <2>1. /\ P.start \in Int /\ P.balance \in Int /\ P.start < P.balance
        /\ P.maxCharge \in Int /\ balanced \in Int /\ balanced <= P.maxCharge
    BY <1>1, ProfileNumbers
  <2> QED BY <2>1, FallingLine, Zenon
<1>5. \A w \in P.balance..P.near : /\ B(w) \in P.minCharge..balanced
                                   /\ \A z \in w..P.near : B(z) <= B(w)
  <2>1. /\ P.balance \in Int /\ P.near \in Int /\ P.balance < P.near
        /\ balanced \in Int /\ P.minCharge \in Int /\ P.minCharge <= balanced
    BY <1>1, ProfileNumbers
  <2> QED BY <2>1, FallingLine, Zenon
<1>6. \A w \in P.near..P.cutoff : /\ C(w) \in 0..P.minCharge
                                  /\ \A z \in w..P.cutoff : C(z) <= C(w)
  <2>1. /\ P.near \in Int /\ P.cutoff \in Int /\ P.near < P.cutoff
        /\ P.minCharge \in Int /\ 0 \in Int /\ 0 <= P.minCharge
    BY ProfileNumbers
  <2> QED BY <2>1, FallingLine, Zenon
<1> HIDE DEF A, B, C
<1>7. CASE v < P.start \/ v >= P.cutoff
  BY <1>3, <1>7, ProfileNumbers
<1>8. CASE v \in P.start..(P.balance - 1)
  <2>1. CclFromCellVoltage(v) = A(v) /\ A(v) \in balanced..P.maxCharge
    BY <1>3, <1>4, <1>8, ProfileNumbers DEF A
  <2>2. \A w \in v..(P.balance - 1) : CclFromCellVoltage(w) = A(w) /\ A(w) <= A(v)
    BY <1>3, <1>4, <1>8, ProfileNumbers DEF A
  <2> QED BY <1>8, <2>1, <2>2, ProfileNumbers DEF balanced
<1>9. CASE v \in P.balance..(P.near - 1)
  <2>1. CclFromCellVoltage(v) = B(v) /\ B(v) \in P.minCharge..balanced
    BY <1>3, <1>5, <1>9, ProfileNumbers DEF B
  <2>2. \A w \in v..(P.near - 1) : CclFromCellVoltage(w) = B(w) /\ B(w) <= B(v)
    BY <1>3, <1>5, <1>9, ProfileNumbers DEF B
  <2> QED BY <1>9, <2>1, <2>2, ProfileNumbers DEF balanced
<1>10. CASE v \in P.near..(P.cutoff - 1)
  <2>1. CclFromCellVoltage(v) = C(v) /\ C(v) \in 0..P.minCharge
    BY <1>3, <1>6, <1>10, ProfileNumbers DEF C
  <2>2. \A w \in v..(P.cutoff - 1) : CclFromCellVoltage(w) = C(w) /\ C(w) <= C(v)
    BY <1>3, <1>6, <1>10, ProfileNumbers DEF C
  <2> QED BY <1>10, <2>1, <2>2, ProfileNumbers DEF balanced
<1> QED BY <1>7, <1>8, <1>9, <1>10, ProfileNumbers
\* A fuller cell never allows more, and the current stays within its range.
LEMMA CellVoltageFalls ==
    /\ \A v \in Value : CclFromCellVoltage(v) \in 0..P.maxCharge
    /\ \A u, v \in Int : u <= v => CclFromCellVoltage(v) <= CclFromCellVoltage(u)
<1> DEFINE balanced == Part(P.maxCharge, P.balancePct)
<1>1. balanced \in P.minCharge..P.maxCharge
  BY ProfileShares
<1> HIDE DEF balanced
<1>2. CclFromCellVoltage(NoData) = P.maxCharge
  BY DvccAssumption, ProfileNumbers DEF CclFromCellVoltage
<1>3. \A v \in Int : CclFromCellVoltage(v) \in 0..P.maxCharge
  BY <1>1, CellVoltageCurve, ProfileNumbers DEF balanced
<1>4. ASSUME NEW u \in Int, NEW v \in Int, u <= v
      PROVE  CclFromCellVoltage(v) <= CclFromCellVoltage(u)
  <2>1. CASE v < P.start
    BY <1>4, <2>1, CellVoltageCurve, ProfileNumbers
  <2>2. CASE v \in P.start..(P.balance - 1)
    BY <1>1, <1>4, <2>2, CellVoltageCurve, ProfileNumbers DEF balanced
  <2>3. CASE v \in P.balance..(P.near - 1)
    BY <1>1, <1>4, <2>3, CellVoltageCurve, ProfileNumbers DEF balanced
  <2>4. CASE v \in P.near..(P.cutoff - 1)
    BY <1>1, <1>4, <2>4, CellVoltageCurve, ProfileNumbers DEF balanced
  <2>5. CASE v >= P.cutoff
    BY <1>3, <2>5, CellVoltageCurve, ProfileNumbers
  <2> QED BY <2>1, <2>2, <2>3, <2>4, <2>5, ProfileNumbers
<1> QED BY <1>2, <1>3, <1>4, ProfileNumbers DEF Value

\* Cells further apart never allow more.
LEMMA ImbalanceFalls ==
    /\ \A v \in Value : CclFromImbalance(v) \in 0..P.maxCharge
    /\ \A u, v \in Int : u <= v => CclFromImbalance(v) <= CclFromImbalance(u)
<1> DEFINE share == Part(P.maxCharge, P.imbPct)
           A(w) == Line(w, P.imbStart, P.maxCharge, P.imbAggressive, share)
           B(w) == Line(w, P.imbAggressive, share, P.imbCritical, P.minCharge)
<1>1. share \in P.minCharge..P.maxCharge
  BY ProfileShares
<1>2. NoData \notin Int
  BY DvccAssumption
<1> HIDE DEF share
<1>3. \A w \in P.imbStart..P.imbAggressive :
        A(w) \in share..P.maxCharge /\ \A z \in w..P.imbAggressive : A(z) <= A(w)
  <2>1. /\ P.imbStart \in Int /\ P.imbAggressive \in Int /\ P.imbStart < P.imbAggressive
        /\ P.maxCharge \in Int /\ share \in Int /\ share <= P.maxCharge
    BY <1>1, ProfileNumbers
  <2> QED BY <2>1, FallingLine, Zenon
<1>4. \A w \in P.imbAggressive..P.imbCritical :
        B(w) \in P.minCharge..share /\ \A z \in w..P.imbCritical : B(z) <= B(w)
  <2>1. /\ P.imbAggressive \in Int /\ P.imbCritical \in Int /\ P.imbAggressive < P.imbCritical
        /\ P.minCharge \in Int /\ share \in Int /\ P.minCharge <= share
    BY <1>1, ProfileNumbers
  <2> QED BY <2>1, FallingLine, Zenon
<1> HIDE DEF A, B
<1>5. \A w \in Int :
        /\ w <= P.imbStart => CclFromImbalance(w) = P.maxCharge
        /\ w \in (P.imbStart + 1)..(P.imbAggressive - 1) => CclFromImbalance(w) = A(w)
        /\ w \in P.imbAggressive..(P.imbCritical - 1) => CclFromImbalance(w) = B(w)
        /\ w >= P.imbCritical => CclFromImbalance(w) = P.minCharge
  BY <1>2, ProfileNumbers DEF CclFromImbalance, A, B, share
<1>6. CclFromImbalance(NoData) = P.maxCharge
  BY DvccAssumption, ProfileNumbers DEF CclFromImbalance
<1>7. \A w \in Int : /\ CclFromImbalance(w) \in P.minCharge..P.maxCharge
                     /\ w < P.imbAggressive => CclFromImbalance(w) >= share
  BY <1>1, <1>3, <1>4, <1>5, ProfileNumbers
<1>8. ASSUME NEW u \in Int, NEW v \in Int, u <= v
      PROVE  CclFromImbalance(v) <= CclFromImbalance(u)
  <2>1. CASE v < P.imbAggressive
    BY <1>1, <1>3, <1>5, <1>7, <1>8, <2>1, ProfileNumbers
  <2>2. CASE v \in P.imbAggressive..(P.imbCritical - 1)
    BY <1>1, <1>4, <1>5, <1>7, <1>8, <2>2, ProfileNumbers
  <2>3. CASE v >= P.imbCritical
    BY <1>5, <1>7, <2>3, ProfileNumbers
  <2> QED BY <2>1, <2>2, <2>3, ProfileNumbers
<1> QED BY <1>6, <1>7, <1>8, ProfileNumbers DEF Value

\* More charge never allows more current.
LEMMA SocFalls ==
    /\ \A v \in Value : CclFromSoc(v) \in 0..P.maxCharge
    /\ \A u, v \in Int : u <= v => CclFromSoc(v) <= CclFromSoc(u)
<1> DEFINE share == Part(P.maxCharge, P.socPct)
           A(w) == Line(w, P.socStart, P.maxCharge, 100, share)
<1>1. share \in 0..P.maxCharge
  BY ProfileShares
<1>2. NoData \notin Int
  BY DvccAssumption
<1> HIDE DEF share
<1>3. \A w \in P.socStart..100 :
        A(w) \in share..P.maxCharge /\ \A z \in w..100 : A(z) <= A(w)
  <2>1. /\ P.socStart \in Int /\ 100 \in Int /\ P.socStart < 100
        /\ P.maxCharge \in Int /\ share \in Int /\ share <= P.maxCharge
    BY <1>1, ProfileNumbers
  <2> QED BY <2>1, FallingLine, Zenon
<1> HIDE DEF A
<1>4. \A w \in Int :
        /\ w < P.socStart => CclFromSoc(w) = P.maxCharge
        /\ w \in P.socStart..99 => CclFromSoc(w) = A(w)
        /\ w >= 100 => CclFromSoc(w) = share
  BY <1>2, ProfileNumbers DEF CclFromSoc, A, share
<1>5. CclFromSoc(NoData) = P.maxCharge
  BY DvccAssumption, ProfileNumbers DEF CclFromSoc
<1>6. \A w \in Int : CclFromSoc(w) \in share..P.maxCharge
  BY <1>1, <1>3, <1>4, ProfileNumbers
<1>7. ASSUME NEW u \in Int, NEW v \in Int, u <= v
      PROVE  CclFromSoc(v) <= CclFromSoc(u)
  <2>1. CASE v < 100
    BY <1>1, <1>3, <1>4, <1>6, <1>7, <2>1, ProfileNumbers
  <2>2. CASE v >= 100
    BY <1>1, <1>4, <1>6, <2>2, ProfileNumbers
  <2> QED BY <2>1, <2>2
<1> QED BY <1>1, <1>5, <1>6, <1>7, ProfileNumbers DEF Value

\* More heat never allows more charge current.
LEMMA TemperatureFalls ==
    /\ \A c, h \in Int : CclFromTemperature(c, h) \in 0..P.maxCharge
    /\ \A c, h, k \in Int : h <= k => CclFromTemperature(c, k) <= CclFromTemperature(c, h)
    /\ \A c, h \in Int : c <= P.stopCold \/ h >= P.stopHot => CclFromTemperature(c, h) = 0
<1> DEFINE coldShare == Part(P.maxCharge, P.coldPct)
           hotShare == Part(P.maxCharge, P.hotPct)
           A(w) == Line(w, P.stopCold, 0, P.fullMin, coldShare)
           B(w) == Line(w, P.fullMax, P.maxCharge, P.stopHot, 0)
<1>1. coldShare \in 0..P.maxCharge /\ hotShare \in 0..P.maxCharge
  BY ProfileShares
<1> HIDE DEF coldShare, hotShare
<1>2. \A w \in P.stopCold..P.fullMin : A(w) \in 0..coldShare
  <2>1. /\ P.stopCold \in Int /\ P.fullMin \in Int /\ P.stopCold < P.fullMin
        /\ 0 \in Int /\ coldShare \in Int /\ 0 <= coldShare
    BY <1>1, ProfileNumbers
  <2> QED BY <2>1, RisingLine, Zenon
<1>3. \A w \in P.fullMax..P.stopHot :
        B(w) \in 0..P.maxCharge /\ \A z \in w..P.stopHot : B(z) <= B(w)
  <2>1. /\ P.fullMax \in Int /\ P.stopHot \in Int /\ P.fullMax < P.stopHot
        /\ 0 \in Int /\ P.maxCharge \in Int /\ 0 <= P.maxCharge
    BY ProfileNumbers
  <2> QED BY <2>1, FallingLine, Zenon
<1> HIDE DEF A, B
<1>4. \A c, h \in Int :
        /\ c <= P.stopCold \/ h >= P.stopHot => CclFromTemperature(c, h) = 0
        /\ c \in (P.stopCold + 1)..(P.fullMin - 1) /\ h < P.stopHot =>
              CclFromTemperature(c, h) = A(c)
        /\ c >= P.fullMin /\ h \in (P.fullMax + 1)..(P.stopHot - 1) =>
              CclFromTemperature(c, h) = Greater(hotShare, B(h))
        /\ c >= P.fullMin /\ h <= P.fullMax => CclFromTemperature(c, h) = P.maxCharge
  BY ProfileNumbers DEF CclFromTemperature, A, B, coldShare, hotShare
<1>5. ASSUME NEW c \in Int, NEW h \in Int
      PROVE  CclFromTemperature(c, h) \in 0..P.maxCharge
  BY <1>1, <1>2, <1>3, <1>4, ProfileNumbers DEF Greater
<1>6. ASSUME NEW c \in Int, NEW h \in Int, NEW k \in Int, h <= k
      PROVE  CclFromTemperature(c, k) <= CclFromTemperature(c, h)
  <2>0. /\ CclFromTemperature(c, h) \in 0..P.maxCharge
        /\ CclFromTemperature(c, k) \in 0..P.maxCharge
    BY <1>5
  <2>1. CASE c <= P.stopCold \/ k >= P.stopHot
    <3>1. CclFromTemperature(c, k) = 0
      BY <1>4, <2>1
    <3> QED BY <2>0, <3>1, ProfileNumbers
  <2>2. CASE c \in (P.stopCold + 1)..(P.fullMin - 1) /\ k < P.stopHot
    <3>1. h < P.stopHot
      BY <1>6, <2>2, ProfileNumbers
    <3>2. CclFromTemperature(c, k) = CclFromTemperature(c, h)
      BY <1>4, <2>2, <3>1
    <3> QED BY <2>0, <3>2, ProfileNumbers
  <2>3. CASE c >= P.fullMin /\ k < P.stopHot
    <3>1. CASE h <= P.fullMax
      <4>1. CclFromTemperature(c, h) = P.maxCharge
        BY <1>4, <2>3, <3>1
      <4> QED BY <2>0, <4>1, ProfileNumbers
    <3>2. CASE h > P.fullMax
      <4>1. /\ h \in (P.fullMax + 1)..(P.stopHot - 1) /\ k \in (P.fullMax + 1)..(P.stopHot - 1)
            /\ h \in P.fullMax..P.stopHot /\ k \in h..P.stopHot /\ k \in P.fullMax..P.stopHot
        BY <1>6, <2>3, <3>2, ProfileNumbers
      <4>2. /\ CclFromTemperature(c, h) = Greater(hotShare, B(h))
            /\ CclFromTemperature(c, k) = Greater(hotShare, B(k))
        BY <1>4, <2>3, <4>1
      <4>3. B(k) <= B(h) /\ B(k) \in Int /\ B(h) \in Int
        BY <1>3, <4>1
      <4> QED BY <1>1, <4>2, <4>3 DEF Greater
    <3> QED BY <3>1, <3>2, ProfileNumbers
  <2> QED BY <2>1, <2>2, <2>3, ProfileNumbers
<1> QED BY <1>4, <1>5, <1>6

\* An emptier cell never allows more discharge current.
LEMMA DischargeRises ==
    /\ \A v \in Value : DclFromCellVoltage(v) \in 0..P.maxDischarge
    /\ \A u, v \in Int : u <= v => DclFromCellVoltage(u) <= DclFromCellVoltage(v)
    /\ \A v \in Int : v <= P.dCutoff => DclFromCellVoltage(v) = 0
<1> DEFINE share == Part(P.maxDischarge, P.dLowPct)
           A(w) == Line(w, P.dStart, share, P.dFull, P.maxDischarge)
           B(w) == Line(w, P.dCutoff, 0, P.dStart, share)
<1>1. share \in 0..P.maxDischarge
  BY ProfileShares
<1>2. NoData \notin Int
  BY DvccAssumption
<1> HIDE DEF share
<1>3. \A w \in P.dStart..P.dFull :
        A(w) \in share..P.maxDischarge /\ \A z \in w..P.dFull : A(w) <= A(z)
  <2>1. /\ P.dStart \in Int /\ P.dFull \in Int /\ P.dStart < P.dFull
        /\ P.maxDischarge \in Int /\ share \in Int /\ share <= P.maxDischarge
    BY <1>1, ProfileNumbers
  <2> QED BY <2>1, RisingLine, Zenon
<1>4. \A w \in P.dCutoff..P.dStart :
        B(w) \in 0..share /\ \A z \in w..P.dStart : B(w) <= B(z)
  <2>1. /\ P.dCutoff \in Int /\ P.dStart \in Int /\ P.dCutoff < P.dStart
        /\ 0 \in Int /\ share \in Int /\ 0 <= share
    BY <1>1, ProfileNumbers
  <2> QED BY <2>1, RisingLine, Zenon
<1> HIDE DEF A, B
<1>5. \A w \in Int :
        /\ w >= P.dFull => DclFromCellVoltage(w) = P.maxDischarge
        /\ w \in (P.dStart + 1)..(P.dFull - 1) => DclFromCellVoltage(w) = A(w)
        /\ w \in (P.dCutoff + 1)..P.dStart => DclFromCellVoltage(w) = B(w)
        /\ w <= P.dCutoff => DclFromCellVoltage(w) = 0
  BY <1>2, ProfileNumbers DEF DclFromCellVoltage, A, B, share
<1>6. DclFromCellVoltage(NoData) = P.maxDischarge
  BY DvccAssumption, ProfileNumbers DEF DclFromCellVoltage
<1>7. \A w \in Int : /\ DclFromCellVoltage(w) \in 0..P.maxDischarge
                     /\ w > P.dStart => DclFromCellVoltage(w) >= share
                     /\ w <= P.dStart => DclFromCellVoltage(w) <= share
  BY <1>1, <1>3, <1>4, <1>5, ProfileNumbers
<1>8. ASSUME NEW u \in Int, NEW v \in Int, u <= v
      PROVE  DclFromCellVoltage(u) <= DclFromCellVoltage(v)
  <2>1. CASE v >= P.dFull
    BY <1>5, <1>7, <2>1, ProfileNumbers
  <2>2. CASE v \in (P.dStart + 1)..(P.dFull - 1)
    BY <1>1, <1>3, <1>5, <1>7, <1>8, <2>2, ProfileNumbers
  <2>3. CASE v \in (P.dCutoff + 1)..P.dStart
    BY <1>1, <1>4, <1>5, <1>7, <1>8, <2>3, ProfileNumbers
  <2>4. CASE v <= P.dCutoff
    BY <1>5, <1>7, <1>8, <2>4, ProfileNumbers
  <2> QED BY <2>1, <2>2, <2>3, <2>4, ProfileNumbers
<1> QED BY <1>5, <1>6, <1>7, <1>8, ProfileNumbers DEF Value
-----------------------------------------------------------------------------
(***************************************************************************)
(* calculate, rounding and the partial hold.                               *)
(***************************************************************************)

\* The readings a poll may find.
LEMMA ReadingTypes ==
    ASSUME NEW r \in Readings
    PROVE  /\ r.max \in Value /\ r.min \in Value /\ r.cold \in Value /\ r.hot \in Value
           /\ r.soc \in Value /\ Delta(r) \in Value
           /\ Degrees(r.cold) \in Int /\ Degrees(r.hot) \in Int
BY DvccAssumption DEF Value, Delta, Degrees

\* Published steps: whole multiples, in order, none of nothing, and with a
\* configured profile never above what was calculated.
LEMMA PublishedSteps ==
    ASSUME NEW i \in Nat
    PROVE  /\ Published(i) \in Nat /\ Published(i) % Quantum = 0
           /\ \A j \in Nat : i <= j => Published(i) <= Published(j)
           /\ i = 0 => Published(i) = 0
           /\ Explicit => Published(i) <= i
<1> DEFINE half == IF Explicit THEN 0 ELSE Quantum \div 2
           q(j) == (j + half) \div Quantum
<1>1. Quantum \in Nat \ {0} /\ Explicit \in BOOLEAN
  BY DvccAssumption
<1>2. Quantum \div 2 \in Nat /\ Quantum \div 2 < Quantum
  BY <1>1
<1>3. half \in Nat /\ half < Quantum /\ (Explicit => half = 0)
  BY <1>1, <1>2
<1> HIDE DEF half
<1>4. \A j \in Nat : Published(j) = q(j) * Quantum
  BY DEF Published, half
<1>5. \A j \in Nat : j + half \in Nat
  BY <1>3
<1>6. \A j \in Nat : /\ q(j) \in Int /\ q(j) * Quantum <= j + half
                     /\ j + half < q(j) * Quantum + Quantum
  <2> SUFFICES ASSUME NEW j \in Nat
               PROVE  /\ q(j) \in Int /\ q(j) * Quantum <= j + half
                      /\ j + half < q(j) * Quantum + Quantum
    OBVIOUS
  <2> DEFINE a == j + half
  <2>1. a \in Int
    BY <1>5
  <2> HIDE DEF a
  <2>2. /\ a \div Quantum \in Int /\ (a \div Quantum) * Quantum <= a
        /\ a < (a \div Quantum) * Quantum + Quantum
    BY <1>1, <2>1, DivBounds
  <2> QED BY <2>2 DEF a
<1>7. 0 \div Quantum = 0
  BY <1>1, DivExact
<1>8. \A j, k \in Nat : j <= k => q(j) <= q(k)
  BY <1>1, <1>3, <1>5, DivMonotone
<1>9. \A j \in Nat : q(j) >= 0
  BY <1>1, <1>5, <1>7, DivMonotone
<1>10. q(0) = 0
  <2>1. q(0) \in Int /\ q(0) >= 0 /\ q(0) * Quantum < Quantum
    BY <1>1, <1>3, <1>6, <1>9
  <2> HIDE DEF q
  <2>2. ~(1 <= q(0))
    <3> SUFFICES ASSUME 1 <= q(0) PROVE FALSE
      OBVIOUS
    <3>1. 1 * Quantum <= q(0) * Quantum
      BY <1>1, <2>1, TimesMonotone
    <3> QED BY <1>1, <2>1, <3>1
  <2> QED BY <2>1, <2>2
<1> HIDE DEF q
<1>11. Published(i) \in Nat
  BY <1>1, <1>4, <1>6, <1>9
<1>12. (q(i) * Quantum) % Quantum = 0
  BY <1>1, <1>6
<1>13. \A j \in Nat : i <= j => Published(i) <= Published(j)
  BY <1>1, <1>4, <1>6, <1>8, TimesMonotone
<1>14. i = 0 => Published(i) = 0
  BY <1>1, <1>4, <1>10
<1>15. Explicit => Published(i) <= i
  BY <1>3, <1>4, <1>6
<1> QED BY <1>4, <1>11, <1>12, <1>13, <1>14, <1>15

\* What the curves make of a reading.
LEMMA CurveTypes ==
    ASSUME NEW r \in Readings
    PROVE  /\ CclFromCellVoltage(r.max) \in 0..P.maxCharge
           /\ CclFromImbalance(Delta(r)) \in 0..P.maxCharge
           /\ CclFromTemperature(Degrees(r.cold), Degrees(r.hot)) \in 0..P.maxCharge
           /\ CclFromSoc(r.soc) \in 0..P.maxCharge
           /\ DclFromCellVoltage(r.min) \in 0..P.maxDischarge
BY ReadingTypes, CellVoltageFalls, ImbalanceFalls, TemperatureFalls, SocFalls, DischargeRises

\* The calculated ceilings respect every curve.
LEMMA CeilingBounds ==
    ASSUME NEW r \in Readings
    PROVE  /\ CclCeiling(r) \in 0..P.maxCharge
           /\ CclCeiling(r) <= CclFromCellVoltage(r.max)
           /\ CclCeiling(r) <= CclFromImbalance(Delta(r))
           /\ CclCeiling(r) <= CclFromTemperature(Degrees(r.cold), Degrees(r.hot))
           /\ CclCeiling(r) <= CclFromSoc(r.soc)
           /\ DclCeiling(r) \in 0..P.maxDischarge
           /\ DclCeiling(r) <= DclFromCellVoltage(r.min)
           /\ r.hot # NoData /\ r.hot >= P.stopHot
                 => DclCeiling(r) <= Part(P.maxDischarge, P.dHotPct)
<1>1. Part(P.maxDischarge, P.dHotPct) \in 0..P.maxDischarge
  BY ProfileShares
<1> QED BY <1>1, CurveTypes, ProfileNumbers DEF CclCeiling, DclCeiling, Lesser

\* The ramp delays an increase and never a reduction.
LEMMA RampedBounds ==
    ASSUME lastCcl \in Nat, NEW ceiling \in Nat, NEW dt \in Nat
    PROVE  Ramped(ceiling, dt) \in 0..ceiling
<1> DEFINE step == P.rate * dt
<1>1. step \in Nat
  BY ProfileNumbers
<1> HIDE DEF step
<1>2. Ramped(ceiling, dt) = IF ceiling > lastCcl THEN Lesser(ceiling, lastCcl + step) ELSE ceiling
  BY DEF Ramped, step
<1> QED BY <1>1, <1>2 DEF Lesser

\* A limit that was published before.
Previous(i) == i = NoData \/ (i \in Nat /\ i % Quantum = 0)

\* A veto and the ramp only ever take from the ceiling.
LEMMA BlockedBounds ==
    ASSUME lastCcl \in Nat, NEW p, NEW granted, NEW ceiling \in Nat, NEW dt \in Nat
    PROVE  /\ Blocked(p, granted, ceiling, dt) \in 0..ceiling
           /\ p \notin granted => Blocked(p, granted, ceiling, dt) = 0
BY RampedBounds DEF Blocked

\* Rounding and the partial hold: a whole step, not above the maximum nor,
\* with a configured profile, above what was calculated.
LEMMA HeldBounds ==
    ASSUME NEW b \in Nat, NEW most \in Nat, b <= most, NEW previous, Previous(previous),
           NEW hold \in BOOLEAN
    PROVE  /\ Held(Published(b), previous, hold) \in 0..Published(most)
           /\ Held(Published(b), previous, hold) % Quantum = 0
           /\ Explicit => Held(Published(b), previous, hold) <= b
           /\ b = 0 => Held(Published(b), previous, hold) = 0
<1>1. /\ Published(b) \in Nat /\ Published(b) % Quantum = 0
      /\ Published(b) <= Published(most) /\ Published(most) \in Nat
      /\ b = 0 => Published(b) = 0
      /\ Explicit => Published(b) <= b
  BY PublishedSteps
<1>2. /\ Held(Published(b), previous, hold) \in 0..Published(b)
      /\ Held(Published(b), previous, hold) % Quantum = 0
  BY <1>1 DEF Held, Lesser, Previous
<1> QED BY <1>1, <1>2

-----------------------------------------------------------------------------
(***************************************************************************)
(* The controller.                                                         *)
(***************************************************************************)

\* lastCcl restates the published limit, or the maximum before the first.
LEMMA StateNumbers ==
    ASSUME TypeOK
    PROVE  lastCcl \in Nat /\ Previous(ccl) /\ Previous(dcl)
BY ProfileNumbers DEF TypeOK, Limit, Previous

\* One poll publishes limits that every reading of it allows.
LEMMA UpdateSafe ==
    ASSUME TypeOK, NEW r \in Readings, NEW granted \in SUBSET Perm, NEW hold \in BOOLEAN,
           NEW dt \in Nat, Update(r, granted, hold, dt)
    PROVE  TypeOK' /\ WithinEveryCeiling' /\ StopsAtOnce'
<1>1. /\ ccl' = Held(Published(Blocked("charging", granted, CclCeiling(r), dt)), ccl, hold)
      /\ dcl' = Held(Published(Blocked("discharging", granted, DclCeiling(r), dt)), dcl, hold)
      /\ lastCcl' = ccl' /\ reading' = r /\ allow' = granted /\ partial' = hold
  BY DEF Update
<1>2. /\ ccl' \in 0..Published(P.maxCharge) /\ ccl' % Quantum = 0
      /\ Explicit => ccl' <= CclCeiling(r)
      /\ CclCeiling(r) = 0 \/ "charging" \notin granted => ccl' = 0
  <2> DEFINE b == Blocked("charging", granted, CclCeiling(r), dt)
  <2>1. /\ lastCcl \in Nat /\ CclCeiling(r) \in Nat /\ CclCeiling(r) \in 0..P.maxCharge
        /\ P.maxCharge \in Nat /\ Previous(ccl)
    BY StateNumbers, CeilingBounds, ProfileNumbers
  <2>2. b \in 0..CclCeiling(r) /\ ("charging" \notin granted => b = 0)
    BY <2>1, BlockedBounds
  <2>3. ccl' = Held(Published(b), ccl, hold)
    BY <1>1
  <2> HIDE DEF b
  <2>4. b \in Nat /\ b <= P.maxCharge
    BY <2>1, <2>2
  <2>5. /\ ccl' \in 0..Published(P.maxCharge) /\ ccl' % Quantum = 0
        /\ Explicit => ccl' <= b
        /\ b = 0 => ccl' = 0
    BY <2>1, <2>3, <2>4, HeldBounds
  <2>6. ccl' \in Int
    BY <2>1, <2>5, PublishedSteps
  <2> QED BY <2>1, <2>2, <2>4, <2>5, <2>6
<1>3. /\ dcl' \in 0..Published(P.maxDischarge) /\ dcl' % Quantum = 0
      /\ Explicit => dcl' <= DclCeiling(r)
      /\ DclCeiling(r) = 0 \/ "discharging" \notin granted => dcl' = 0
  <2> DEFINE b == Blocked("discharging", granted, DclCeiling(r), dt)
  <2>1. /\ lastCcl \in Nat /\ DclCeiling(r) \in Nat /\ DclCeiling(r) \in 0..P.maxDischarge
        /\ P.maxDischarge \in Nat /\ Previous(dcl)
    BY StateNumbers, CeilingBounds, ProfileNumbers
  <2>2. b \in 0..DclCeiling(r) /\ ("discharging" \notin granted => b = 0)
    BY <2>1, BlockedBounds
  <2>3. dcl' = Held(Published(b), dcl, hold)
    BY <1>1
  <2> HIDE DEF b
  <2>4. b \in Nat /\ b <= P.maxDischarge
    BY <2>1, <2>2
  <2>5. /\ dcl' \in 0..Published(P.maxDischarge) /\ dcl' % Quantum = 0
        /\ Explicit => dcl' <= b
        /\ b = 0 => dcl' = 0
    BY <2>1, <2>3, <2>4, HeldBounds
  <2>6. dcl' \in Int
    BY <2>1, <2>5, PublishedSteps
  <2> QED BY <2>1, <2>2, <2>4, <2>5, <2>6
<1>4. Published(P.maxCharge) \in Nat /\ Published(P.maxDischarge) \in Nat
  BY ProfileNumbers, PublishedSteps
<1>5. ccl' # NoData /\ dcl' # NoData
  BY <1>2, <1>3, <1>4, DvccAssumption
<1>6. TypeOK'
  BY <1>1, <1>2, <1>3, <1>5 DEF TypeOK, Limit
<1>7. /\ CclFromCellVoltage(r.max) \in Int /\ CclFromImbalance(Delta(r)) \in Int
      /\ CclFromTemperature(Degrees(r.cold), Degrees(r.hot)) \in Int
      /\ CclFromSoc(r.soc) \in Int /\ DclFromCellVoltage(r.min) \in Int
      /\ Part(P.maxDischarge, P.dHotPct) \in Int
  BY CurveTypes, ProfileNumbers, ProfileShares
<1>8. WithinEveryCeiling'
  BY <1>1, <1>2, <1>3, <1>4, <1>7, CeilingBounds DEF WithinEveryCeiling
<1>9. r.max # NoData /\ r.max >= P.cutoff => CclCeiling(r) = 0
  <2>1. r.max # NoData /\ r.max >= P.cutoff => CclFromCellVoltage(r.max) = 0
    BY ReadingTypes, CellVoltageCurve DEF Value
  <2> QED BY <2>1, CeilingBounds, ProfileNumbers
<1>10. Degrees(r.cold) <= P.stopCold \/ Degrees(r.hot) >= P.stopHot => CclCeiling(r) = 0
  <2>1. Degrees(r.cold) <= P.stopCold \/ Degrees(r.hot) >= P.stopHot =>
          CclFromTemperature(Degrees(r.cold), Degrees(r.hot)) = 0
    BY ReadingTypes, TemperatureFalls
  <2> QED BY <2>1, CeilingBounds, ProfileNumbers
<1>11. r.min # NoData /\ r.min <= P.dCutoff => DclCeiling(r) = 0
  BY ReadingTypes, DischargeRises, CeilingBounds, ProfileNumbers DEF Value
<1>12. StopsAtOnce'
  BY <1>1, <1>2, <1>3, <1>9, <1>10, <1>11 DEF StopsAtOnce
<1> QED BY <1>6, <1>8, <1>12

\* The limits of a poll follow from its readings and the previous limits only,
\* so the three invariants are inductive as they stand.
LEMMA Safe == Spec => [](TypeOK /\ WithinEveryCeiling /\ StopsAtOnce)
<1>1. Init => TypeOK /\ WithinEveryCeiling /\ StopsAtOnce
  BY DEF Init, TypeOK, Limit, WithinEveryCeiling, StopsAtOnce, Perm
<1>2. ASSUME TypeOK, WithinEveryCeiling, StopsAtOnce, [Next]_vars
      PROVE  TypeOK' /\ WithinEveryCeiling' /\ StopsAtOnce'
  <2>1. ASSUME NEW r \in Readings, NEW q \in Polls,
               Update(r, q.granted, q.partial, q.dt)
        PROVE  TypeOK' /\ WithinEveryCeiling' /\ StopsAtOnce'
    BY <1>2, <2>1, UpdateSafe, DvccAssumption
  <2>2. CASE UNCHANGED vars
    BY <1>2, <2>2 DEF vars, TypeOK, Limit, WithinEveryCeiling, StopsAtOnce
  <2> QED BY <1>2, <2>1, <2>2 DEF Next
<1> QED BY <1>1, <1>2, PTL DEF Spec

\* The published limits keep their type: whole steps between zero and the
\* configured maximum, whatever profile, readings and pace.
THEOREM TypeCorrect == Spec => []TypeOK
BY Safe, PTL

\* With a configured profile no published limit exceeds what any single curve
\* of that profile allows.
THEOREM CeilingsRespected == Spec => []WithinEveryCeiling
BY Safe, PTL

\* A cutoff, a temperature limit or a veto stops the current at once.
THEOREM ProtectionNeverRamped == Spec => []StopsAtOnce
BY Safe, PTL

\* The ceiling is monotone over all readings, not only those of two polls.
LEMMA CeilingsOrdered ==
    ASSUME NEW r \in Readings, NEW s \in Readings
    PROVE  /\ WorseToCharge(r, s) => CclCeiling(s) <= CclCeiling(r)
           /\ WorseToDischarge(r, s) => DclCeiling(s) <= DclCeiling(r)
<1>1. ASSUME Known(r), Known(s)
      PROVE  /\ r.max \in Int /\ r.min \in Int /\ r.cold \in Int /\ r.hot \in Int /\ r.soc \in Int
             /\ s.max \in Int /\ s.min \in Int /\ s.cold \in Int /\ s.hot \in Int /\ s.soc \in Int
  <2>1. /\ r.max # NoData /\ r.min # NoData /\ r.cold # NoData /\ r.hot # NoData /\ r.soc # NoData
        /\ s.max # NoData /\ s.min # NoData /\ s.cold # NoData /\ s.hot # NoData /\ s.soc # NoData
    BY <1>1, DvccAssumption DEF Known
  <2> QED BY <2>1, ReadingTypes DEF Value
<1>2. ASSUME WorseToCharge(r, s)
      PROVE  CclCeiling(s) <= CclCeiling(r)
  <2>1. /\ r.max \in Int /\ s.max \in Int /\ r.max <= s.max
        /\ Delta(r) \in Int /\ Delta(s) \in Int /\ Delta(r) <= Delta(s)
        /\ r.soc \in Int /\ s.soc \in Int /\ r.soc <= s.soc
        /\ Degrees(r.cold) = Degrees(s.cold) /\ Degrees(r.cold) \in Int
        /\ Degrees(r.hot) \in Int /\ Degrees(s.hot) \in Int /\ Degrees(r.hot) <= Degrees(s.hot)
    BY <1>1, <1>2, DvccAssumption DEF WorseToCharge, Delta, Degrees
  <2>2. /\ CclFromCellVoltage(s.max) <= CclFromCellVoltage(r.max)
        /\ CclFromImbalance(Delta(s)) <= CclFromImbalance(Delta(r))
        /\ CclFromSoc(s.soc) <= CclFromSoc(r.soc)
        /\ CclFromTemperature(Degrees(s.cold), Degrees(s.hot))
              <= CclFromTemperature(Degrees(r.cold), Degrees(r.hot))
    BY <2>1, CellVoltageFalls, ImbalanceFalls, SocFalls, TemperatureFalls
  <2>3. /\ CclFromCellVoltage(s.max) \in Int /\ CclFromCellVoltage(r.max) \in Int
        /\ CclFromImbalance(Delta(s)) \in Int /\ CclFromImbalance(Delta(r)) \in Int
        /\ CclFromSoc(s.soc) \in Int /\ CclFromSoc(r.soc) \in Int
        /\ CclFromTemperature(Degrees(s.cold), Degrees(s.hot)) \in Int
        /\ CclFromTemperature(Degrees(r.cold), Degrees(r.hot)) \in Int
    BY CurveTypes, ProfileNumbers
  <2> QED BY <2>2, <2>3 DEF CclCeiling, Lesser
<1>3. ASSUME WorseToDischarge(r, s)
      PROVE  DclCeiling(s) <= DclCeiling(r)
  <2>1. /\ r.min \in Int /\ s.min \in Int /\ s.min <= r.min
        /\ r.hot \in Int /\ s.hot \in Int /\ r.hot <= s.hot
    BY <1>1, <1>3 DEF WorseToDischarge
  <2>2. DclFromCellVoltage(s.min) <= DclFromCellVoltage(r.min)
    BY <2>1, DischargeRises
  <2>3. /\ DclFromCellVoltage(s.min) \in Int /\ DclFromCellVoltage(r.min) \in Int
        /\ Part(P.maxDischarge, P.dHotPct) \in Int /\ P.stopHot \in Int
    BY ReadingTypes, DischargeRises, ProfileNumbers, ProfileShares
  <2> QED BY <2>1, <2>2, <2>3, DvccAssumption DEF DclCeiling, Lesser
<1> QED BY <1>2, <1>3

\* A worse reading never allows more current, for every profile: across each
\* threshold of each curve and for all of them together.
THEOREM CurvesNeverTurn == Spec => WorseNeverAllowsMore
<1> DEFINE A == /\ WorseToCharge(reading, reading') => CclCeiling(reading') <= CclCeiling(reading)
                /\ WorseToDischarge(reading, reading') => DclCeiling(reading') <= DclCeiling(reading)
<1>1. TypeOK /\ TypeOK' => A
  <2> SUFFICES ASSUME TypeOK, TypeOK' PROVE A
    OBVIOUS
  <2>1. reading \in Readings /\ reading' \in Readings
    BY DEF TypeOK
  <2> QED BY <2>1, CeilingsOrdered
<1> QED BY <1>1, TypeCorrect, PTL DEF Spec, WorseNeverAllowsMore
=============================================================================
