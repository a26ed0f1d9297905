------------------------- MODULE DashboardChartProofs --------------------------
(***************************************************************************)
(* Theorems about DashboardChart, for any symbols, ranges, histories and   *)
(* ticks, and about PriceChart, for any series and pointer: both with any  *)
(* limits of a series.                                                     *)
(***************************************************************************)
EXTENDS DashboardChart, PriceChart, WellFoundedInduction, TLAPS

--------------------------------------------------------------------------------
(* Numbers.                                                                *)

LEMMA LeastNumber ==
    ASSUME NEW T, T \subseteq Nat, T # {}
    PROVE  \E x \in T : \A y \in T : x <= y
<1> DEFINE R == OpToRel(<, Nat)
<1>1. IsWellFoundedOn(R, Nat)
  BY NatLessThanWellFounded
<1>2. \A x, y \in Nat : y < x => <<y, x>> \in R
  BY DEF OpToRel
<1> HIDE DEF R
<1>3. PICK x \in T : \A y \in T : ~(<<y, x>> \in R)
  BY <1>1, WFMin
<1>4. ASSUME NEW y \in T PROVE x <= y
  <2>1. x \in Nat /\ y \in Nat
    OBVIOUS
  <2>2. ~(y < x)
    BY <1>2, <1>3, <2>1
  <2> QED
    BY <2>1, <2>2
<1> QED
  BY <1>4

\* A set of numbers that holds the first and each next one holds them all.
LEMMA AllNumbers ==
    ASSUME NEW n \in Nat, NEW G,
           0 \in G, \A k \in 1..n : k - 1 \in G => k \in G
    PROVE  0..n \subseteq G
<1> DEFINE Missing == (0..n) \ G
<1>1. SUFFICES ASSUME Missing # {} PROVE FALSE
  OBVIOUS
<1>2. PICK k \in Missing : \A j \in Missing : k <= j
  <2>1. Missing \subseteq Nat
    OBVIOUS
  <2> HIDE DEF Missing
  <2> QED
    BY <1>1, <2>1, LeastNumber
<1>3. k \in 1..n
  OBVIOUS
<1>4. k - 1 \in 0..n /\ k - 1 \notin Missing
  BY <1>2, <1>3
<1> QED
  BY <1>3, <1>4

\* A list of numbers has a greatest one.
LEMMA GreatestOfList ==
    ASSUME NEW n \in Nat \ {0}, NEW f \in [1..n -> Int]
    PROVE  \E i \in 1..n : \A j \in 1..n : f[j] <= f[i]
<1> DEFINE G == {k \in 0..n : k = 0 \/ \E i \in 1..k : \A j \in 1..k : f[j] <= f[i]}
<1>1. 0 \in G
  OBVIOUS
<1>2. ASSUME NEW k \in 1..n, k - 1 \in G PROVE k \in G
  <2>1. f[k] \in Int /\ k \in 0..n
    OBVIOUS
  <2>2. CASE k = 1
    BY <2>1, <2>2
  <2>3. CASE k # 1
    <3>1. PICK i \in 1..k - 1 : \A j \in 1..k - 1 : f[j] <= f[i]
      BY <1>2, <2>3
    <3>2. f[i] \in Int /\ i \in 1..k /\ \A j \in 1..k : j = k \/ j \in 1..k - 1
      OBVIOUS
    <3>3. CASE f[k] <= f[i]
      <4>1. \A j \in 1..k : f[j] <= f[i]
        BY <3>1, <3>2, <3>3
      <4> QED
        BY <2>1, <3>2, <4>1
    <3>4. CASE ~(f[k] <= f[i])
      <4>1. ASSUME NEW j \in 1..k PROVE f[j] <= f[k]
        <5>1. f[j] \in Int
          OBVIOUS
        <5> QED
          BY <2>1, <3>1, <3>2, <3>4, <5>1
      <4> QED
        BY <2>1, <4>1
    <3> QED
      BY <3>3, <3>4
  <2> QED
    BY <2>2, <2>3
<1>3. n \in G
  <2>1. \A k \in 1..n : k - 1 \in G => k \in G
    BY <1>2
  <2> HIDE DEF G
  <2>2. 0..n \subseteq G
    BY <1>1, <2>1, AllNumbers
  <2> QED
    BY <2>2
<1> QED
  BY <1>3

--------------------------------------------------------------------------------
(* Thinning out a series.                                                  *)

LEMMA Division ==
    ASSUME NEW x \in Nat, NEW k \in Nat \ {0}
    PROVE  x \div k \in Nat /\ k * (x \div k) <= x /\ x < k * (x \div k) + k
  BY SMT

\* Division keeps the order.
LEMMA DivisionMonotone ==
    ASSUME NEW x \in Nat, NEW y \in Nat, NEW k \in Nat \ {0}, x <= y
    PROVE  x \div k <= y \div k
<1> DEFINE p == x \div k
           q == y \div k
<1>1. p \in Nat /\ q \in Nat /\ k * p <= x /\ y < k * q + k
  BY Division
<1> HIDE DEF p, q
<1>2. k * p < k * (q + 1)
  BY <1>1
<1>3. p < q + 1
  BY <1>1, <1>2, SMTT(30)
<1> QED
  BY <1>1, <1>3 DEF p, q

LEMMA ProductMonotone ==
    ASSUME NEW x \in Nat, NEW y \in Nat, NEW k \in Nat, x <= y
    PROVE  k * x <= k * y /\ k * x \in Nat
  BY SMTT(30)

LEMMA ProductStrict ==
    ASSUME NEW x \in Int, NEW y \in Int, NEW k \in Nat \ {0}, k * x < k * y
    PROVE  x < y
  BY SMTT(30)

LEMMA Quotient ==
    ASSUME NEW q \in Nat, NEW r \in Nat, NEW k \in Nat \ {0}, r < k
    PROVE  (k * q + r) \div k = q
<1> DEFINE p == (k * q + r) \div k
<1>1. k * q \in Nat /\ k * q + r \in Nat
  BY ProductMonotone
<1>2. p \in Nat /\ k * p <= k * q + r /\ k * q + r < k * p + k
  BY <1>1, Division
<1> HIDE DEF p
<1>3. k * p \in Nat /\ k * (q + 1) = k * q + k /\ k * (p + 1) = k * p + k
  BY <1>2, SMTT(30)
<1>4. k * p < k * (q + 1) /\ k * q < k * (p + 1)
  BY <1>1, <1>2, <1>3
<1>5. p < q + 1 /\ q < p + 1
  BY <1>2, <1>4, ProductStrict
<1> QED
  BY <1>2, <1>5 DEF p

\* The position of point i of m, taken from a series of n, before it is counted
\* from 1.
Position(i, n, m) == (2 * (i - 1) * (n - 1) + m - 1) \div (2 * (m - 1))

LEMMA PositionIsInside ==
    ASSUME NEW n \in Nat, NEW m \in Nat \ {0, 1}, m < n, NEW i \in 1..m
    PROVE  Position(i, n, m) \in 0..n - 1
<1> DEFINE k == 2 * (m - 1)
           x == 2 * (i - 1) * (n - 1) + m - 1
<1>1. k \in Nat \ {0}
  OBVIOUS
<1>2. (i - 1) * (n - 1) \in Nat /\ (i - 1) * (n - 1) <= (m - 1) * (n - 1)
  <2>1. (n - 1) * (i - 1) <= (n - 1) * (m - 1) /\ (n - 1) * (i - 1) \in Nat
    BY ProductMonotone
  <2> QED
    BY <2>1
<1>3. x = 2 * ((i - 1) * (n - 1)) + m - 1 /\ x \in Nat
  BY <1>2
<1>4. x < k * n
  BY <1>2, <1>3
<1>5. Position(i, n, m) = x \div k /\ x \div k \in Nat /\ k * (x \div k) <= x
  BY <1>1, <1>3, Division DEF Position
<1> HIDE DEF k, x
<1>6. k * (x \div k) < k * n
  <2>1. k * n \in Nat /\ k * (x \div k) \in Nat
    BY <1>1, <1>5
  <2> QED
    BY <1>3, <1>4, <1>5, <2>1
<1>7. x \div k < n
  BY <1>1, <1>5, <1>6, ProductStrict
<1> QED
  BY <1>5, <1>7

LEMMA PositionsAscend ==
    ASSUME NEW n \in Nat, NEW m \in Nat \ {0, 1}, m < n, NEW i \in 1..m, NEW j \in 1..m, i < j
    PROVE  Position(i, n, m) <= Position(j, n, m)
<1> DEFINE x == 2 * (i - 1) * (n - 1) + m - 1
           y == 2 * (j - 1) * (n - 1) + m - 1
<1>1. (n - 1) * (i - 1) <= (n - 1) * (j - 1) /\ (n - 1) * (i - 1) \in Nat /\ (n - 1) * (j - 1) \in Nat
  BY ProductMonotone
<1>2. x \in Nat /\ y \in Nat /\ x <= y
  BY <1>1
<1>3. 2 * (m - 1) \in Nat \ {0}
  OBVIOUS
<1> HIDE DEF x, y
<1>4. x \div (2 * (m - 1)) <= y \div (2 * (m - 1))
  BY <1>2, <1>3, DivisionMonotone
<1> QED
  BY <1>4 DEF Position, x, y

LEMMA PositionsDiffer ==
    ASSUME NEW n \in Nat, NEW m \in Nat \ {0, 1}, m < n, NEW i \in 1..m, NEW j \in 1..m, i < j
    PROVE  Position(i, n, m) < Position(j, n, m)
<1> DEFINE k == 2 * (m - 1)
           x == 2 * (i - 1) * (n - 1) + m - 1
           y == 2 * (j - 1) * (n - 1) + m - 1
           p == x \div k
<1>1. k \in Nat \ {0}
  OBVIOUS
<1>2. x \in Nat /\ y \in Nat /\ x + k <= y
  <2>1. /\ (n - 1) * (i - 1) \in Nat /\ (n - 1) * i \in Nat /\ (n - 1) * (j - 1) \in Nat
        /\ (n - 1) * i <= (n - 1) * (j - 1)
    BY ProductMonotone
  <2>2. (n - 1) * i = (n - 1) * (i - 1) + (n - 1)
    BY <2>1, SMTT(30)
  <2> QED
    BY <2>1, <2>2
<1>3. Position(i, n, m) = p /\ Position(j, n, m) = y \div k
  BY DEF Position
<1> HIDE DEF k, x, y
<1>4. p \in Nat /\ k * p <= x /\ k * p \in Nat
  <2>1. p \in Nat /\ k * p <= x
    BY <1>1, <1>2, Division
  <2> QED
    BY <1>1, <2>1, ProductMonotone
<1> HIDE DEF p
<1>5. (k * p + k) \div k = p + 1
  <2>1. k * p + k = k * (p + 1) + 0 /\ p + 1 \in Nat
    BY <1>1, <1>4, SMTT(30)
  <2> QED
    BY <1>1, <2>1, Quotient
<1>6. (k * p + k) \div k <= y \div k
  BY <1>1, <1>2, <1>4, DivisionMonotone
<1>7. y \div k \in Nat
  BY <1>1, <1>2, Division
<1> QED
  BY <1>3, <1>4, <1>5, <1>6, <1>7

LEMMA PositionOfEnds ==
    ASSUME NEW n \in Nat, NEW m \in Nat \ {0, 1}, m < n
    PROVE  Position(1, n, m) = 0 /\ Position(m, n, m) = n - 1
<1> DEFINE k == 2 * (m - 1)
<1>1. k \in Nat \ {0} /\ m - 1 \in Nat /\ m - 1 < k
  OBVIOUS
<1>2. Position(1, n, m) = (k * 0 + (m - 1)) \div k
  BY DEF Position
<1>3. 2 * (m - 1) * (n - 1) + m - 1 = k * (n - 1) + (m - 1)
  <2>1. k * (n - 1) \in Int
    BY SMTT(30)
  <2> QED
    BY <2>1, SMTT(30)
<1>4. Position(m, n, m) = (k * (n - 1) + (m - 1)) \div k
  BY <1>3 DEF Position
<1> HIDE DEF k
<1>5. n - 1 \in Nat
  OBVIOUS
<1> QED
  BY <1>1, <1>2, <1>4, <1>5, Quotient

\* A sample has points of the series, in order.
LEMMA Sampled ==
    ASSUME NEW S, NEW list \in Seq(S), NEW m \in Nat \ {0, 1}, \A x \in S : x.at \in Nat
    PROVE  /\ SamplePoints(list, m) \in Seq(S)
           /\ Ordered(list) => Ordered(SamplePoints(list, m))
           /\ m < Len(list) => Len(SamplePoints(list, m)) = m
<1>1. CASE Len(list) <= m
  BY <1>1 DEF SamplePoints
<1>2. CASE m < Len(list)
  <2> DEFINE n == Len(list)
             sample == [i \in 1..m |-> list[1 + Position(i, n, m)]]
  <2>1. SamplePoints(list, m) = sample
    BY <1>2 DEF SamplePoints, Position
  <2>2. n \in Nat /\ DOMAIN list = 1..n
    OBVIOUS
  <2>3. \A i \in 1..m : 1 + Position(i, n, m) \in 1..n
    BY <1>2, <2>2, PositionIsInside
  <2>4. \A i, j \in 1..m : i < j => 1 + Position(i, n, m) <= 1 + Position(j, n, m)
    <3>1. \A i \in 1..m : Position(i, n, m) \in 0..n - 1
      BY <1>2, <2>2, PositionIsInside
    <3>2. \A i, j \in 1..m : i < j => Position(i, n, m) <= Position(j, n, m)
      BY <1>2, <2>2, PositionsAscend
    <3> HIDE DEF n
    <3> QED
      BY <2>2, <3>1, <3>2
  <2> HIDE DEF n
  <2>5. sample \in Seq(S) /\ DOMAIN sample = 1..m /\ Len(sample) = m
    BY <2>2, <2>3
  <2>7. ASSUME Ordered(list), NEW i \in 1..m, NEW j \in 1..m, i < j
        PROVE  sample[i].at <= sample[j].at
    <3>1. PICK p \in 1..n, q \in 1..n : /\ p = 1 + Position(i, n, m) /\ sample[i] = list[p]
                                        /\ q = 1 + Position(j, n, m) /\ sample[j] = list[q]
      BY <2>3
    <3>2. p <= q
      BY <2>4, <2>7, <3>1
    <3>3. list[p].at <= list[q].at
      <4>1. list[p].at \in Nat
        BY <2>2, <3>1
      <4>2. CASE p = q
        BY <4>1, <4>2
      <4>3. CASE p < q
        BY <2>2, <2>7, <3>1, <4>3 DEF Ordered
      <4> QED
        BY <2>2, <3>1, <3>2, <4>2, <4>3
    <3> QED
      BY <3>1, <3>3
  <2> HIDE DEF sample
  <2> QED
    BY <2>1, <2>5, <2>7 DEF Ordered
<1> QED
  BY <1>1, <1>2

\* It has both ends of the series, and no point of it twice.
Thinning(position, drawn, list) ==
    /\ position \in [DOMAIN drawn -> DOMAIN list]
    /\ \A i, j \in DOMAIN drawn : i < j => position[i] < position[j]
    /\ \A i \in DOMAIN drawn : drawn[i] = list[position[i]]

LEMMA SampleKeepsShape ==
    ASSUME NEW S, NEW list \in Seq(S), list # <<>>, NEW m \in Nat \ {0, 1}
    PROVE  LET drawn == SamplePoints(list, m) IN
           /\ DOMAIN drawn = 1..Len(drawn) /\ Len(drawn) \in Nat \ {0}
           /\ Len(drawn) = IF Len(list) <= m THEN Len(list) ELSE m
           /\ drawn[1] = list[1] /\ drawn[Len(drawn)] = list[Len(list)]
           /\ \E position : Thinning(position, drawn, list)
<1> DEFINE n == Len(list)
           drawn == SamplePoints(list, m)
<1>1. n \in Nat \ {0} /\ DOMAIN list = 1..n /\ \A i \in 1..n : list[i] \in S
  OBVIOUS
<1>2. CASE n <= m
  <2>1. drawn = list
    BY <1>2 DEF SamplePoints
  <2>2. Thinning([i \in DOMAIN list |-> i], list, list)
    BY DEF Thinning
  <2> QED
    BY <1>1, <1>2, <2>1, <2>2
<1>3. CASE m < n
  <2> DEFINE position == [i \in 1..m |-> 1 + Position(i, n, m)]
             sample == [i \in 1..m |-> list[1 + Position(i, n, m)]]
  <2>1. drawn = sample
    BY <1>1, <1>3 DEF SamplePoints, Position
  <2> HIDE DEF n, drawn
  <2>2. \A i \in 1..m : Position(i, n, m) \in 0..n - 1
    BY <1>1, <1>3, PositionIsInside
  <2>3. \A i \in 1..m : position[i] \in 1..n /\ sample[i] = list[position[i]]
    BY <1>1, <2>2
  <2>4. ASSUME NEW i \in 1..m, NEW j \in 1..m, i < j PROVE position[i] < position[j]
    <3>1. Position(i, n, m) < Position(j, n, m)
      BY <1>1, <1>3, <2>4, PositionsDiffer
    <3>2. Position(i, n, m) \in Nat /\ Position(j, n, m) \in Nat
      BY <1>1, <2>2
    <3> QED
      BY <3>1, <3>2
  <2>5. sample[1] = list[1] /\ sample[m] = list[n]
    <3>1. 1 \in 1..m /\ m \in 1..m /\ 1 + (n - 1) = n
      BY <1>1
    <3>2. Position(1, n, m) = 0 /\ Position(m, n, m) = n - 1
      BY <1>1, <1>3, PositionOfEnds
    <3> QED
      BY <3>1, <3>2
  <2>6. sample \in Seq(S) /\ DOMAIN sample = 1..m /\ Len(sample) = m
    BY <1>1, <2>3
  <2>7. position \in [1..m -> 1..n]
    BY <2>3
  <2> HIDE DEF sample, position
  <2>8. Thinning(position, sample, list)
    BY <1>1, <2>3, <2>4, <2>6, <2>7 DEF Thinning
  <2>9. /\ DOMAIN drawn = 1..Len(drawn) /\ Len(drawn) \in Nat \ {0}
        /\ Len(drawn) = m /\ ~(n <= m)
        /\ drawn[1] = list[1] /\ drawn[Len(drawn)] = list[n]
    BY <1>1, <1>3, <2>1, <2>5, <2>6
  <2>10. \E p : Thinning(p, drawn, list)
    BY <2>1, <2>8
  <2> QED
    BY <2>9, <2>10 DEF n, drawn
<1> QED
  BY <1>1, <1>2, <1>3

--------------------------------------------------------------------------------
(* Series of one symbol.                                                   *)

PointsWith(symbol) == {x \in Points : x.symbol = symbol}

\* A live tick joins a series of its symbol without disturbing the order.
LEMMA Merged ==
    ASSUME NEW S, \A x \in S : x.at \in Nat,
           NEW list \in Seq(S), Ordered(list), NEW tick \in S
    PROVE  /\ MergeLivePoint(list, tick) \in Seq(S)
           /\ Ordered(MergeLivePoint(list, tick))
           /\ MergeLivePoint(list, tick) # <<>>
           /\ \/ Len(MergeLivePoint(list, tick)) <= MaxLiveSeriesPoints
              \/ Len(MergeLivePoint(list, tick)) <= Len(list)
<1> DEFINE last == list[Len(list)]
<1>1. \A x \in S : x.at \in Nat
  OBVIOUS
<1>2. list \in Seq(S) /\ tick \in S
  OBVIOUS
<1>3. CASE list = <<>>
  <2>1. MergeLivePoint(list, tick) = <<tick>>
    BY <1>3 DEF MergeLivePoint
  <2>2. MaxLiveSeriesPoints >= 1 /\ MaxLiveSeriesPoints \in Nat
    BY ChartSeriesAssumption
  <2> QED
    BY <1>2, <2>1, <2>2 DEF Ordered
<1>4. CASE list # <<>> /\ tick.at < last.at
  BY <1>2, <1>4 DEF MergeLivePoint
<1>5. CASE list # <<>> /\ ~(tick.at < last.at)
  <2>1. /\ Len(list) \in Nat \ {0} /\ DOMAIN list = 1..Len(list)
        /\ \A i \in DOMAIN list : list[i] \in S
    BY <1>2, <1>5
  <2>2. \A i \in DOMAIN list : list[i].at <= tick.at
    BY <1>1, <1>2, <1>5, <2>1 DEF Ordered
  <2> DEFINE replaced == [list EXCEPT ![Len(list)] = tick]
             longer == Append(list, tick)
  <2>3. /\ replaced \in Seq(S) /\ replaced # <<>> /\ DOMAIN replaced = DOMAIN list
        /\ Len(replaced) <= Len(list)
    BY <1>2, <2>1
  <2>4. Ordered(replaced)
    BY <1>1, <1>2, <2>1, <2>2 DEF Ordered
  <2>5. longer \in Seq(S) /\ Len(longer) = Len(list) + 1
    BY <1>2
  <2>6. Ordered(longer)
    BY <1>1, <1>2, <2>1, <2>2 DEF Ordered
  <2> HIDE DEF replaced, longer
  <2>7. /\ CapLiveSeries(longer) \in Seq(S) /\ Ordered(CapLiveSeries(longer))
        /\ CapLiveSeries(longer) # <<>> /\ Len(CapLiveSeries(longer)) <= MaxLiveSeriesPoints
    <3>1. CASE Len(longer) <= MaxLiveSeriesPoints
      BY <2>1, <2>5, <2>6, <3>1 DEF CapLiveSeries
    <3>2. CASE ~(Len(longer) <= MaxLiveSeriesPoints)
      <4>1. CapLiveSeries(longer) = SamplePoints(longer, MaxDisplayPoints)
        BY <3>2 DEF CapLiveSeries
      <4>2. MaxDisplayPoints < Len(longer)
        BY <2>1, <2>5, <3>2, ChartSeriesAssumption
      <4>3. /\ SamplePoints(longer, MaxDisplayPoints) \in Seq(S)
            /\ Ordered(SamplePoints(longer, MaxDisplayPoints))
            /\ Len(SamplePoints(longer, MaxDisplayPoints)) = MaxDisplayPoints
        BY <1>1, <2>5, <2>6, <4>2, Sampled, ChartSeriesAssumption
      <4>4. SamplePoints(longer, MaxDisplayPoints) # <<>>
        BY <4>3, ChartSeriesAssumption
      <4> QED
        BY <4>1, <4>3, <4>4, ChartSeriesAssumption
    <3> QED
      BY <3>1, <3>2
  <2>8. MergeLivePoint(list, tick) \in {replaced, CapLiveSeries(longer)}
    BY <1>5 DEF MergeLivePoint, replaced, longer
  <2> QED
    BY <2>3, <2>4, <2>7, <2>8
<1> QED
  BY <1>3, <1>4, <1>5

\* So does a history.
LEMMA Loaded ==
    ASSUME NEW times \in Histories, ran.symbol \in Symbols
    PROVE  PointsOf(times) \in Seq(PointsWith(ran.symbol)) /\ Ordered(PointsOf(times))
<1>1. times \in Seq(Nat) /\ \A i, j \in DOMAIN times : i < j => times[i] <= times[j]
  BY DashboardChartAssumption
<1>2. /\ DOMAIN PointsOf(times) = 1..Len(times) /\ Len(times) \in Nat
      /\ \A i \in 1..Len(times) : PointsOf(times)[i] = [symbol |-> ran.symbol, at |-> times[i]]
  BY <1>1 DEF PointsOf
<1>3. \A i \in 1..Len(times) : PointsOf(times)[i] \in PointsWith(ran.symbol)
  BY <1>1, <1>2 DEF PointsWith, Points
<1>4. PointsOf(times) \in Seq(PointsWith(ran.symbol))
  BY <1>1, <1>2, <1>3 DEF PointsOf
<1> QED
  BY <1>1, <1>2, <1>4 DEF Ordered

--------------------------------------------------------------------------------
(* The series on screen and the cache.                                     *)

IInv == ChartInv /\ ChartsStaySound

Sound(c, list) == list \in Seq(PointsWith(c.symbol)) /\ Ordered(list)

\* What the steps preserve of series and cache.
ChartOK ==
    /\ active \in Charts \cup {None}
    /\ series \in Seq(Points)
    /\ chartCache \in [Charts -> {None} \cup Seq(Points)]
    /\ \A c \in Charts : chartCache[c] # None => Sound(c, chartCache[c])
    /\ series # <<>> => active # None /\ chartCache[active] = series

\* ChartsStaySound in the form the steps preserve.
LEMMA CacheIsSound ==
    ASSUME chartCache \in [Charts -> {None} \cup Seq(Points)]
    PROVE  ChartsStaySound <=>
              /\ \A c \in Charts : chartCache[c] # None => Sound(c, chartCache[c])
              /\ series # <<>> => active # None /\ chartCache[active] = series
<1>1. ASSUME NEW c \in Charts, chartCache[c] # None
      PROVE  chartCache[c] \in Seq(PointsWith(c.symbol)) <=>
                \A i \in DOMAIN chartCache[c] : chartCache[c][i].symbol = c.symbol
  <2>1. chartCache[c] \in Seq(Points)
    BY <1>1
  <2> QED
    BY <2>1 DEF PointsWith
<1> QED
  BY <1>1 DEF ChartsStaySound, Sound

\* A series that is loaded or merged is put on screen and into the cache.
LEMMA PutIntoCache ==
    ASSUME IInv, NEW c \in Charts, NEW list, Sound(c, list),
           active' = c, series' = list, chartCache' = [chartCache EXCEPT ![c] = list]
    PROVE  ChartOK'
<1>1. list \in Seq(Points)
  BY DEF Sound, PointsWith
<1>2. chartCache' \in [Charts -> {None} \cup Seq(Points)] /\ chartCache'[c] = list
  BY <1>1 DEF IInv, ChartInv, TypeOK
<1>3. \A d \in Charts : chartCache'[d] # None => Sound(d, chartCache'[d])
  BY <1>2, CacheIsSound DEF IInv, ChartInv, TypeOK
<1> QED
  BY <1>1, <1>2, <1>3, DashboardChartAssumption DEF ChartOK

\* No step puts points of another symbol, or out of order, on screen or into the
\* cache.
LEMMA ChartSteps ==
    ASSUME IInv, [Next]_vars
    PROVE  ChartOK'
<1> USE DEF IInv, ChartInv
<1>0. ChartOK
  BY CacheIsSound DEF ChartOK, TypeOK
<1>1. ASSUME UNCHANGED chart PROVE ChartOK'
  BY <1>0, <1>1 DEF ChartOK, chart, Sound
<1>2. ASSUME ClearSeries PROVE ChartOK'
  BY <1>0, <1>2 DEF ChartOK, ClearSeries, Sound
<1>3. ASSUME NEW times \in Histories, load # None, Apply(PointsOf(times)) PROVE ChartOK'
  <2>1. ran \in Charts /\ ran.symbol \in Symbols
    BY <1>3 DEF SpinnerInv, TypeOK, Selections, Charts
  <2>2. Sound(ran, PointsOf(times))
    BY <2>1, Loaded DEF Sound
  <2> QED
    BY <1>3, <2>1, <2>2, PutIntoCache DEF Apply, Show
<1>4. CASE RunEffects
  <2>1. CASE wanted.symbol = None \/ chartCache[wanted] # None
    <3>1. wanted.symbol # None => wanted \in Charts
      BY DEF TypeOK, Selections, Charts
    <3>2. CASE wanted.symbol = None
      BY <1>0, <1>4, <3>2 DEF RunEffects, LoadEffect, Show, ChartOK, Sound
    <3>3. CASE wanted.symbol # None /\ chartCache[wanted] # None
      BY <1>0, <1>4, <3>1, <3>3, DashboardChartAssumption DEF RunEffects, LoadEffect, Show, ChartOK, Sound
    <3> QED
      BY <2>1, <3>2, <3>3
  <2>2. CASE ~(wanted.symbol = None \/ chartCache[wanted] # None)
    BY <1>1, <1>4, <2>2 DEF RunEffects, LoadEffect, chart
  <2> QED
    BY <2>1, <2>2
<1>5. CASE FlushTick
  <2>1. CASE pendingTick # None /\ ShowsItsSymbol
    <3>1. active \in Charts /\ pendingTick \in PointsWith(active.symbol)
      BY <2>1 DEF ShowsItsSymbol, TypeOK, SpinnerInv, PointsWith
    <3>2. Sound(active, series)
      <4>1. CASE series = <<>>
        BY <4>1 DEF Sound, Ordered
      <4>2. CASE series # <<>>
        BY <1>0, <3>1, <4>2, DashboardChartAssumption DEF ChartOK
      <4> QED
        BY <4>1, <4>2
    <3>3. Sound(active, MergeLivePoint(series, pendingTick))
      <4>1. \A x \in PointsWith(active.symbol) : x.at \in Nat
        BY DEF PointsWith, Points
      <4> QED
        BY <3>1, <3>2, <4>1, Merged DEF Sound
    <3> QED
      BY <1>5, <2>1, <3>1, <3>3, PutIntoCache DEF FlushTick
  <2>2. CASE ~(pendingTick # None /\ ShowsItsSymbol)
    BY <1>1, <1>5, <2>2 DEF FlushTick
  <2> QED
    BY <2>1, <2>2
<1>6. ASSUME LoadEnds PROVE ChartOK'
  BY <1>1, <1>2, <1>3, <1>6 DEF LoadEnds, TicksAnswered, CandlesAnswered, LoadFails
<1> QED
  BY <1>1, <1>2, <1>4, <1>5, <1>6
     DEF Next, vars, Select, LoadRefused, AbortedLoadFails, SocketOpens, SocketCloses,
         OldSocketCloses, Receive, chart

--------------------------------------------------------------------------------
(* The load, the spinner and the socket.                                   *)

\* A new selection starts a load, with the spinner unless the chart is cached.
LEMMA LoadStarts ==
    ASSUME RunEffects, wanted.symbol # None
    PROVE  \E p \in {"ticks", "candles"} :
              \/ /\ chartCache[wanted] # None
                 /\ load' = [cached |-> TRUE, pc |-> p] /\ chartLoading' = FALSE
              \/ /\ chartCache[wanted] = None
                 /\ load' = [cached |-> FALSE, pc |-> p] /\ chartLoading' = TRUE
<1> DEFINE p == IF wanted.range \in TickDriven THEN "ticks" ELSE "candles"
<1>1. p \in {"ticks", "candles"}
  OBVIOUS
<1>2. /\ load' = [cached |-> chartCache[wanted] # None, pc |-> p]
      /\ chartLoading' = ~(chartCache[wanted] # None)
  BY DEF RunEffects, LoadEffect
<1> HIDE DEF p
<1>3. CASE chartCache[wanted] # None
  <2>1. (chartCache[wanted] # None) = TRUE
    BY <1>3
  <2> QED
    BY <1>1, <1>2, <1>3, <2>1
<1>4. CASE chartCache[wanted] = None
  <2>1. (chartCache[wanted] # None) = FALSE
    BY <1>4
  <2> QED
    BY <1>1, <1>2, <1>4, <2>1
<1> QED
  BY <1>3, <1>4

RestOK ==
    /\ {wanted, ran} \subseteq Selections
    /\ load \in Loads \cup {None}
    /\ refusals \in 0..MaxRefusals
    /\ {chartLoading, closing, chartLive, timer, timerRef} \subseteq BOOLEAN
    /\ socket \in {None, "connecting", "open", "closed"}
    /\ pendingTick \in Points \cup {None}
    /\ LightFollowsSocket

\* Each variable keeps its type, and the light follows the newest socket.
LEMMA RestSteps ==
    ASSUME IInv, [Next]_vars
    PROVE  RestOK'
<1> USE DEF IInv, ChartInv
<1>0. RestOK
  BY DEF RestOK, TypeOK
<1> HIDE DEF IInv, ChartInv
<1> USE DEF RestOK, LightFollowsSocket
<1>1. ASSUME NEW selection \in Visited \cup [symbol : {None}, range : {FirstRange}], Select(selection)
      PROVE  RestOK'
  BY <1>0, <1>1, DashboardChartAssumption DEF Select, live, Selections
<1>2. CASE RunEffects
  <2>1. load' \in Loads \cup {None} /\ chartLoading' \in BOOLEAN
    <3>1. CASE wanted.symbol = None
      BY <1>0, <1>2, <3>1 DEF RunEffects, LoadEffect, Spin
    <3>2. CASE wanted.symbol # None
      <4>1. PICK p \in {"ticks", "candles"}, c \in BOOLEAN :
              load' = [cached |-> c, pc |-> p] /\ chartLoading' \in BOOLEAN
        BY <1>2, <3>2, LoadStarts
      <4> QED
        BY <4>1 DEF Loads
    <3> QED
      BY <3>1, <3>2
  <2>2. refusals' \in 0..MaxRefusals
    BY <1>0, <1>2, DashboardChartAssumption DEF RunEffects, LoadEffect, Abort
  <2>3. /\ {closing', chartLive', timer', timerRef'} \subseteq BOOLEAN
        /\ socket' \in {None, "connecting", "open", "closed"}
        /\ pendingTick' \in Points \cup {None}
        /\ LightFollowsSocket'
    <3>1. CASE wanted.symbol = ran.symbol
      BY <1>0, <1>2, <3>1 DEF RunEffects, SocketEffect, live
    <3>2. CASE wanted.symbol # ran.symbol
      <4>1. closing' \in BOOLEAN /\ chartLive' \in BOOLEAN
        BY <1>0, <1>2, <3>2 DEF RunEffects, SocketEffect
      <4> QED
        BY <1>0, <1>2, <3>2, <4>1, DashboardChartAssumption DEF RunEffects, SocketEffect
    <3> QED
      BY <3>1, <3>2
  <2> QED
    BY <1>0, <1>2, <2>1, <2>2, <2>3 DEF RunEffects
<1>3. CASE LoadEnds \/ LoadRefused \/ AbortedLoadFails
  <2>1. load' \in Loads \cup {None} /\ chartLoading' \in BOOLEAN
    BY <1>0, <1>3 DEF LoadEnds, TicksAnswered, CandlesAnswered, LoadFails, EndLoad, LoadRefused,
       AbortedLoadFails, Loads
  <2>2. refusals' \in 0..MaxRefusals /\ UNCHANGED <<wanted, ran, live>>
    BY <1>0, <1>3, DashboardChartAssumption DEF LoadEnds, TicksAnswered, CandlesAnswered, LoadFails,
       LoadRefused, AbortedLoadFails
  <2> QED
    BY <1>0, <2>1, <2>2 DEF live
<1>4. CASE SocketOpens \/ SocketCloses \/ OldSocketCloses \/ FlushTick
  <2>1. CASE SocketOpens
    BY <1>0, <2>1, DashboardChartAssumption DEF SocketOpens
  <2>2. CASE SocketCloses
    BY <1>0, <2>2 DEF SocketCloses
  <2>3. CASE OldSocketCloses
    BY <1>0, <2>3 DEF OldSocketCloses
  <2>4. CASE FlushTick
    BY <1>0, <2>4 DEF FlushTick
  <2> QED
    BY <1>4, <2>1, <2>2, <2>3, <2>4
<1>5. ASSUME NEW symbol \in Symbols, NEW t \in TickTimes, Receive([symbol |-> symbol, at |-> t])
      PROVE  RestOK'
  BY <1>0, <1>5, DashboardChartAssumption DEF Receive, Points
<1>6. CASE UNCHANGED vars
  BY <1>0, <1>6 DEF vars, live
<1> QED
  BY <1>1, <1>2, <1>3, <1>4, <1>5, <1>6 DEF Next

\* The spinner tells whether a chart that was not in the cache is loaded; and
\* without it only points of the effects' symbol are on screen or wait.
LEMMA SpinnerSteps ==
    ASSUME IInv, [Next]_vars
    PROVE  SpinnerInv'
<1> USE DEF IInv, ChartInv
<1>0. SpinnerInv
  OBVIOUS
<1>1. ASSUME UNCHANGED <<ran, series, load, chartLoading>>,
             pendingTick' = pendingTick \/ pendingTick' = None \/ pendingTick'.symbol = ran.symbol
      PROVE  SpinnerInv'
  BY <1>0, <1>1 DEF SpinnerInv
<1>2. CASE RunEffects
  <2>1. pendingTick' # None => pendingTick'.symbol = ran'.symbol
    BY <1>0, <1>2 DEF RunEffects, SocketEffect, SpinnerInv, live
  <2>2. CASE wanted.symbol = None
    BY <1>2, <2>1, <2>2 DEF RunEffects, LoadEffect, Spin, Show, SpinnerInv
  <2>3. CASE wanted.symbol # None /\ chartCache[wanted] # None
    <3>1. wanted \in Charts
      BY <2>3 DEF TypeOK, Selections, Charts
    <3>2. \A i \in DOMAIN chartCache[wanted] : chartCache[wanted][i].symbol = wanted.symbol
      BY <2>3, <3>1 DEF ChartsStaySound
    <3> QED
      <4>1. /\ load'.cached = TRUE /\ chartLoading' = FALSE /\ ran' = wanted
            /\ series' = chartCache[wanted]
        <5>1. PICK p : load' = [cached |-> TRUE, pc |-> p] /\ chartLoading' = FALSE
          BY <1>2, <2>3, LoadStarts
        <5>2. ran' = wanted /\ series' = chartCache[wanted]
          BY <1>2, <2>3 DEF RunEffects, LoadEffect, Show
        <5> QED
          BY <5>1, <5>2
      <4> QED
        BY <2>1, <2>3, <3>2, <4>1 DEF SpinnerInv
  <2>4. CASE wanted.symbol # None /\ chartCache[wanted] = None
    <3>1. /\ chartLoading' = TRUE /\ ran' = wanted
          /\ load' \in Loads /\ load'.cached = FALSE
      <4>1. PICK p \in {"ticks", "candles"} :
              load' = [cached |-> FALSE, pc |-> p] /\ chartLoading' = TRUE
        BY <1>2, <2>4, LoadStarts
      <4> QED
        BY <1>2, <4>1 DEF RunEffects, Loads
    <3> QED
      BY <2>1, <2>4, <3>1, DashboardChartAssumption DEF SpinnerInv
  <2> QED
    BY <2>2, <2>3, <2>4
<1>3. ASSUME NEW times \in Histories, TicksAnswered(times) \/ CandlesAnswered(times)
      PROVE  SpinnerInv'
  <2>1. CASE Apply(PointsOf(times)) /\ EndLoad
    <3>1. \A i \in DOMAIN series' : series'[i].symbol = ran.symbol
      BY <2>1 DEF Apply, Show, PointsOf
    <3> QED
      BY <1>0, <1>3, <2>1, <3>1 DEF SpinnerInv, EndLoad, TicksAnswered, CandlesAnswered, live
  <2>2. CASE load' = [load EXCEPT !.pc = "candles"] /\ UNCHANGED <<chart, chartLoading>>
    <3>1. load' # None /\ load'.cached = load.cached /\ load # None
      BY <1>3, <2>2, DashboardChartAssumption DEF TypeOK, Loads, TicksAnswered, CandlesAnswered
    <3> QED
      BY <1>0, <1>3, <2>2, <3>1 DEF SpinnerInv, TicksAnswered, CandlesAnswered, chart, live
  <2> QED
    BY <1>3, <2>1, <2>2 DEF TicksAnswered, CandlesAnswered
<1>4. CASE LoadFails
  <2>1. CASE load.cached
    BY <1>0, <1>4, <2>1 DEF LoadFails, EndLoad, SpinnerInv, chart, live
  <2>2. CASE ~load.cached
    BY <1>0, <1>4, <2>2 DEF LoadFails, EndLoad, ClearSeries, SpinnerInv, live
  <2> QED
    BY <2>1, <2>2
<1>5. CASE LoadRefused
  <2>1. load' # None /\ load'.cached = load.cached /\ load # None
    BY <1>5, DashboardChartAssumption DEF TypeOK, Loads, LoadRefused
  <2> QED
    BY <1>0, <1>5, <2>1 DEF LoadRefused, SpinnerInv, chart, live
<1>6. CASE AbortedLoadFails
  BY <1>0, <1>6 DEF AbortedLoadFails, ClearSeries, SpinnerInv, live
<1>7. CASE FlushTick
  <2>1. CASE pendingTick # None /\ ShowsItsSymbol
    <3>1. pendingTick \in PointsWith(ran.symbol)
      BY <2>1 DEF TypeOK, SpinnerInv, PointsWith
    <3>2. ASSUME ~chartLoading
          PROVE  \A i \in DOMAIN series' : series'[i].symbol = ran.symbol
      <4>1. series \in Seq(PointsWith(ran.symbol))
        BY <1>0, <3>2 DEF TypeOK, SpinnerInv, PointsWith
      <4>2. Ordered(series)
        BY DashboardChartAssumption DEF ChartsStaySound, Ordered, TypeOK
      <4>3. series' \in Seq(PointsWith(ran.symbol))
        <5>1. \A x \in PointsWith(ran.symbol) : x.at \in Nat
          BY DEF PointsWith, Points
        <5> QED
          BY <1>7, <2>1, <3>1, <4>1, <4>2, <5>1, Merged DEF FlushTick
      <4> QED
        BY <4>3 DEF PointsWith
    <3> QED
      BY <1>0, <1>7, <3>2 DEF FlushTick, SpinnerInv
  <2>2. CASE ~(pendingTick # None /\ ShowsItsSymbol)
    BY <1>1, <1>7, <2>2 DEF FlushTick, chart
  <2> QED
    BY <2>1, <2>2
<1> QED
  BY <1>1, <1>2, <1>3, <1>4, <1>5, <1>6, <1>7
     DEF Next, vars, LoadEnds, Select, SocketOpens, SocketCloses, OldSocketCloses, Receive, chart, live

--------------------------------------------------------------------------------
(* The theorems.                                                           *)

LEMMA InductiveInvariant == Spec => []IInv
<1>1. Init => IInv
  <2> SUFFICES ASSUME Init PROVE IInv
    OBVIOUS
  <2>1. chartCache \in [Charts -> {None} \cup Seq(Points)] /\ \A c \in Charts : chartCache[c] = None
    BY DEF Init
  <2>2. TypeOK
    <3>1. wanted \in Selections /\ ran \in Selections
      BY DashboardChartAssumption DEF Init, Selections
    <3>2. refusals \in 0..MaxRefusals
      BY DashboardChartAssumption DEF Init
    <3>3. series \in Seq(Points)
      BY DEF Init
    <3>4. {chartLoading, closing, chartLive, timer, timerRef} \subseteq BOOLEAN
      BY DEF Init
    <3>5. {wanted, ran} \subseteq Selections
      BY <3>1
    <3>6. /\ active \in Charts \cup {None} /\ load \in Loads \cup {None}
          /\ socket \in {None, "connecting", "open", "closed"} /\ pendingTick \in Points \cup {None}
      BY DEF Init
    <3> QED
      BY <2>1, <3>2, <3>3, <3>4, <3>5, <3>6 DEF TypeOK
  <2>3. LightFollowsSocket /\ SpinnerInv
    BY DashboardChartAssumption DEF Init, LightFollowsSocket, SpinnerInv
  <2>4. ChartsStaySound
    BY <2>1 DEF Init, ChartsStaySound
  <2> QED
    BY <2>2, <2>3, <2>4 DEF IInv, ChartInv
<1>2. IInv /\ [Next]_vars => IInv'
  <2> SUFFICES ASSUME IInv, [Next]_vars PROVE IInv'
    OBVIOUS
  <2>1. ChartOK' /\ RestOK' /\ SpinnerInv'
    BY ChartSteps, RestSteps, SpinnerSteps
  <2>2. TypeOK' /\ LightFollowsSocket'
    BY <2>1 DEF ChartOK, RestOK, TypeOK
  <2>3. ChartsStaySound'
    <3>1. ASSUME NEW c \in Charts, chartCache'[c] # None
          PROVE  /\ \A i \in DOMAIN chartCache'[c] : chartCache'[c][i].symbol = c.symbol
                 /\ (Ordered(chartCache[c]))'
      <4>1. chartCache'[c] \in Seq(PointsWith(c.symbol)) /\ (Ordered(chartCache[c]))'
        BY <2>1, <3>1 DEF ChartOK, Sound
      <4> QED
        BY <4>1 DEF PointsWith
    <3> QED
      BY <2>1, <3>1 DEF ChartsStaySound, ChartOK
  <2> QED
    BY <2>1, <2>2, <2>3 DEF IInv, ChartInv
<1> QED
  BY <1>1, <1>2, PTL DEF Spec

\* The light follows the newest socket and the spinner the newest load, however
\* late the ends of older ones are reported.
THEOREM LightAndSpinner == Spec => []ChartInv
<1>1. IInv => ChartInv
  BY DEF IInv
<1> QED
  BY <1>1, InductiveInvariant, PTL

\* A chart, on screen or cached, has points of its own symbol in order of time.
THEOREM SoundCharts == Spec => []ChartsStaySound
<1>1. IInv => ChartsStaySound
  BY DEF IInv
<1> QED
  BY <1>1, InductiveInvariant, PTL

\* A chart at rest is one of the selected symbol.
THEOREM Settled == Spec => []SettledChartIsSelected
<1>1. IInv => SettledChartIsSelected
  BY DEF IInv, ChartInv, SpinnerInv, SettledChartIsSelected
<1> QED
  BY <1>1, InductiveInvariant, PTL

--------------------------------------------------------------------------------
(* The pointer.                                                            *)

\* Once the effect of a new chart has run, neither the highlighted point nor the
\* one that waits for its frame was found on another chart.
HoverInv ==
    /\ transitionKey \in Nat /\ effectKey \in 0..transitionKey
    /\ effectKey = transitionKey /\ (hoveredIndex # 0 \/ targetHoverIndex # 0) =>
          aimedAt = transitionKey

\* The highlighted point is one of the chart on screen, whenever the frame fires
\* that takes it over from the pointer.
THEOREM HighlightIsOnScreen == PriceChartSpec => []HoverIsOfThisChart
<1>1. PriceChartInit => HoverInv
  BY DEF PriceChartInit, HoverInv
<1>2. HoverInv /\ [PriceChartNext]_priceChart => HoverInv'
  <2> SUFFICES ASSUME HoverInv, [PriceChartNext]_priceChart PROVE HoverInv'
    OBVIOUS
  <2>1. ASSUME NEW list \in ChartHistories, LoadSeries(list) PROVE HoverInv'
    BY <2>1 DEF HoverInv, LoadSeries, Draw
  <2>2. ASSUME NEW tick, MergeTick(tick) PROVE HoverInv'
    BY <2>2 DEF HoverInv, MergeTick, Draw, pointer
  <2>3. CASE Clear
    BY <2>3 DEF HoverInv, Clear, Draw, pointer
  <2>4. CASE ForgetHover
    BY <2>4 DEF HoverInv, ForgetHover
  <2>5. ASSUME NEW t \in PointerTimes, SelectPoint(t) PROVE HoverInv'
    BY <2>5 DEF HoverInv, SelectPoint
  <2>6. CASE AnimationFrame
    BY <2>6 DEF HoverInv, AnimationFrame
  <2>7. CASE ClearHover
    BY <2>7 DEF HoverInv, ClearHover
  <2>8. CASE UNCHANGED priceChart
    BY <2>8 DEF HoverInv, priceChart, pointer
  <2> QED
    BY <2>1, <2>2, <2>3, <2>4, <2>5, <2>6, <2>7, <2>8 DEF PriceChartNext
<1>3. HoverInv => HoverIsOfThisChart
  BY DEF HoverInv, HoverIsOfThisChart
<1> QED
  BY <1>1, <1>2, <1>3, PTL DEF PriceChartSpec

--------------------------------------------------------------------------------
(* What is drawn.                                                          *)

LEMMA LeastOfPair ==
    ASSUME NEW x \in Int, NEW y \in Int
    PROVE  /\ Min({x, y}) \in Int /\ Min({x, y}) <= x /\ Min({x, y}) <= y
           /\ Max({x, y}) \in Int /\ x <= Max({x, y}) /\ y <= Max({x, y})
           /\ Min({x, y}) = IF x <= y THEN x ELSE y
<1>1. \E z \in {x, y} : \A u \in {x, y} : z <= u
  OBVIOUS
<1>2. \E z \in {x, y} : \A u \in {x, y} : z >= u
  OBVIOUS
<1>3. Min({x, y}) \in {x, y} /\ \A u \in {x, y} : Min({x, y}) <= u
  BY <1>1 DEF Min
<1>4. Max({x, y}) \in {x, y} /\ \A u \in {x, y} : Max({x, y}) >= u
  BY <1>2 DEF Max
<1> QED
  BY <1>3, <1>4

\* The scale of a drawing has room for every point, also when it only widens.
LEMMA ScaleHasRoom ==
    ASSUME domainRef.low \in Int, domainRef.high \in Int,
           NEW list \in Seq(ChartPoint), list # <<>>, NEW key
    PROVE  LET scale == Domain(list, key) IN
           /\ scale.low \in Int /\ scale.high \in Int
           /\ \A i \in DOMAIN list : scale.low <= 20 * list[i].price /\ 20 * list[i].price <= scale.high
<1> DEFINE n == Len(list)
           f == [i \in 1..n |-> list[i].price]
           prices == {list[i].price : i \in DOMAIN list}
           margin == 3 * Max({Max(prices) - Min(prices), MinimumRange})
           padded == [low |-> 20 * Min(prices) - margin, high |-> 20 * Max(prices) + margin, key |-> key]
           scale == Domain(list, key)
<1>1. n \in Nat \ {0} /\ DOMAIN list = 1..n
  OBVIOUS
<1>2. ASSUME NEW i \in DOMAIN list PROVE list[i].price \in Nat
  <2>1. list[i] \in ChartPoint
    OBVIOUS
  <2> QED
    BY <2>1 DEF ChartPoint
<1>3. scale = Widened(padded, domainRef, key)
  BY DEF Domain
<1> HIDE DEF n, scale
<1>4. f \in [1..n -> Int] /\ prices = {f[i] : i \in 1..n} /\ prices \subseteq Nat /\ prices # {}
  BY <1>1, <1>2
<1> HIDE DEF f, prices
<1>5. Min(prices) \in prices /\ \A p \in prices : Min(prices) <= p
  <2>1. \E x \in prices : \A y \in prices : x <= y
    BY <1>4, LeastNumber
  <2> QED
    BY <2>1 DEF Min
<1>6. Max(prices) \in prices /\ \A p \in prices : p <= Max(prices)
  <2>1. \E i \in 1..n : \A j \in 1..n : f[j] <= f[i]
    BY <1>1, <1>4, GreatestOfList
  <2>2. \E x \in prices : \A y \in prices : x >= y
    <3>1. PICK i \in 1..n : \A j \in 1..n : f[j] <= f[i]
      BY <2>1
    <3>2. \A j \in 1..n : f[i] >= f[j]
      BY <1>4, <3>1
    <3> QED
      BY <1>4, <3>2
  <2>3. Max(prices) \in prices /\ \A p \in prices : Max(prices) >= p
    BY <2>2 DEF Max
  <2> QED
    BY <1>4, <2>3
<1>7. Min(prices) \in Nat /\ Max(prices) \in Nat
  BY <1>4, <1>5, <1>6
<1>8. margin \in Nat
  <2> DEFINE spread == Max(prices) - Min(prices)
  <2>1. spread \in Int /\ MinimumRange \in Nat
    BY <1>7, PriceChartAssumption
  <2>2. margin = 3 * Max({spread, MinimumRange})
    OBVIOUS
  <2> HIDE DEF spread, margin
  <2>3. Max({spread, MinimumRange}) \in Int /\ MinimumRange <= Max({spread, MinimumRange})
    <3>1. spread \in Int /\ MinimumRange \in Int
      BY <2>1
    <3> QED
      BY <3>1, LeastOfPair
  <2> QED
    BY <2>1, <2>2, <2>3
<1> HIDE DEF margin
<1>9. /\ padded.low \in Int /\ padded.high \in Int
      /\ \A p \in prices : padded.low <= 20 * p /\ 20 * p <= padded.high
  <2>1. padded.low = 20 * Min(prices) - margin /\ padded.high = 20 * Max(prices) + margin
    OBVIOUS
  <2> HIDE DEF padded
  <2>2. ASSUME NEW p \in prices PROVE padded.low <= 20 * p /\ 20 * p <= padded.high
    <3>1. p \in Nat /\ Min(prices) <= p /\ p <= Max(prices)
      BY <1>4, <1>5, <1>6
    <3> QED
      BY <1>7, <1>8, <2>1, <3>1
  <2> QED
    BY <1>7, <1>8, <2>1, <2>2
<1> HIDE DEF padded
<1>10. scale.low \in Int /\ scale.low <= padded.low /\ scale.high \in Int /\ padded.high <= scale.high
  <2>1. CASE domainRef.key = key
    BY <1>3, <1>9, <2>1, LeastOfPair DEF Widened
  <2>2. CASE domainRef.key # key
    BY <1>3, <1>9, <2>2 DEF Widened
  <2> QED
    BY <2>1, <2>2
<1>11. ASSUME NEW i \in DOMAIN list
       PROVE  scale.low <= 20 * list[i].price /\ 20 * list[i].price <= scale.high
  <2>1. list[i].price \in prices /\ list[i].price \in Nat
    BY <1>2 DEF prices
  <2> QED
    BY <1>9, <1>10, <2>1, SMTT(30)
<1> QED
  BY <1>10, <1>11 DEF scale

\* The chart as it is drawn.
ChartDrawn ==
    /\ points \in Seq(ChartPoint)
    /\ domainRef.low \in Int /\ domainRef.high \in Int
    /\ DrawnKeepsShape

\* Whatever ordered series of its length is put on screen is drawn as it should.
LEMMA DrawKeepsShape ==
    ASSUME ChartDrawn, NEW list \in Seq(ChartPoint), Ordered(list),
           \/ Len(list) <= MaxLiveSeriesPoints
           \/ \E history \in ChartHistories : Len(list) <= Len(history),
           NEW key, Draw(list, key)
    PROVE  ChartDrawn'
<1> DEFINE drawn == Drawn(list)
<1>1. /\ points' = list /\ domainRef' = Domain(drawn, key)
      /\ domainRef.low \in Int /\ domainRef.high \in Int
  BY DEF Draw, ChartDrawn
<1>2. Drawn(points)' = drawn
  BY <1>1 DEF Drawn
<1>3. drawn = SamplePoints(list, MaxDisplayPoints)
  BY DEF Drawn
<1>4. \A x \in ChartPoint : x.at \in Nat
  BY DEF ChartPoint
<1>5. MaxDisplayPoints \in Nat \ {0, 1}
  BY ChartSeriesAssumption
<1>6. drawn \in Seq(ChartPoint)
  BY <1>3, <1>4, <1>5, Sampled
<1>7. CASE list = <<>>
  <2>1. drawn = <<>>
    BY <1>3, <1>5, <1>7 DEF SamplePoints
  <2>2. domainRef' = domainRef
    BY <1>1, <2>1 DEF Domain
  <2> HIDE DEF drawn
  <2> QED
    BY <1>1, <1>7, <2>2 DEF ChartDrawn, DrawnKeepsShape
<1>8. CASE list # <<>>
  <2> HIDE DEF drawn
  <2>1. /\ DOMAIN drawn = 1..Len(drawn) /\ Len(drawn) \in Nat \ {0}
        /\ Len(drawn) = IF Len(list) <= MaxDisplayPoints THEN Len(list) ELSE MaxDisplayPoints
        /\ drawn[1] = list[1] /\ drawn[Len(drawn)] = list[Len(list)]
        /\ \E position : Thinning(position, drawn, list)
    BY <1>3, <1>5, <1>8, SampleKeepsShape
  <2>2. Len(drawn) = Min({Len(list), MaxDisplayPoints})
    <3>1. Len(list) \in Int /\ MaxDisplayPoints \in Int
      BY <1>5
    <3> QED
      BY <2>1, <3>1, LeastOfPair
  <2>3. \E position \in [DOMAIN drawn -> DOMAIN list] :
          /\ \A i, j \in DOMAIN drawn : i < j => position[i] < position[j]
          /\ \A i \in DOMAIN drawn : drawn[i] = list[position[i]]
    BY <2>1 DEF Thinning
  <2>4. drawn # <<>>
    BY <2>1
  <2>5. /\ domainRef'.low \in Int /\ domainRef'.high \in Int
        /\ \A i \in DOMAIN drawn :
             domainRef'.low <= 20 * drawn[i].price /\ 20 * drawn[i].price <= domainRef'.high
    BY <1>1, <1>6, <2>4, ScaleHasRoom
  <2>6. DrawnKeepsShape'
    BY <1>1, <1>2, <2>1, <2>2, <2>3, <2>5, SMTT(30) DEF DrawnKeepsShape
  <2> QED
    BY <1>1, <2>5, <2>6 DEF ChartDrawn
<1> QED
  BY <1>7, <1>8

LEMMA ChartStaysDrawn == PriceChartSpec => []ChartDrawn
<1>1. PriceChartInit => ChartDrawn
  <2> SUFFICES ASSUME PriceChartInit PROVE ChartDrawn
    OBVIOUS
  <2>1. points = <<>> /\ domainRef = [low |-> 0, high |-> 0, key |-> -1]
    BY DEF PriceChartInit
  <2>2. Len(points) = 0 /\ 0 <= MaxLiveSeriesPoints /\ Ordered(points)
    BY <2>1, ChartSeriesAssumption DEF Ordered
  <2> QED
    BY <2>1, <2>2 DEF ChartDrawn, DrawnKeepsShape
<1>2. ChartDrawn /\ [PriceChartNext]_priceChart => ChartDrawn'
  <2> SUFFICES ASSUME ChartDrawn, [PriceChartNext]_priceChart PROVE ChartDrawn'
    OBVIOUS
  <2>1. ASSUME NEW list \in ChartHistories, LoadSeries(list) PROVE ChartDrawn'
    <3>1. list \in Seq(ChartPoint) /\ Ordered(list) /\ Len(list) \in Nat
      BY PriceChartAssumption
    <3>2. \E history \in ChartHistories : Len(list) <= Len(history)
      BY <3>1
    <3>3. Draw(list, transitionKey + 1)
      BY <2>1 DEF LoadSeries
    <3> QED
      BY <3>1, <3>2, <3>3, DrawKeepsShape
  <2>2. ASSUME NEW t \in ChartTimes, NEW p \in ChartPrices, MergeTick([at |-> t, price |-> p])
        PROVE  ChartDrawn'
    <3> DEFINE tick == [at |-> t, price |-> p]
               list == MergeLivePoint(points, tick)
    <3>1. tick \in ChartPoint /\ \A x \in ChartPoint : x.at \in Nat
      BY PriceChartAssumption DEF ChartPoint
    <3>2. /\ points \in Seq(ChartPoint) /\ Ordered(points)
          /\ \/ Len(points) <= MaxLiveSeriesPoints
             \/ \E history \in ChartHistories : Len(points) <= Len(history)
      BY DEF ChartDrawn, DrawnKeepsShape
    <3>3. Draw(list, transitionKey)
      BY <2>2 DEF MergeTick
    <3> HIDE DEF tick
    <3>4. /\ list \in Seq(ChartPoint) /\ Ordered(list)
          /\ Len(list) <= MaxLiveSeriesPoints \/ Len(list) <= Len(points)
      BY <3>1, <3>2, Merged
    <3> HIDE DEF list
    <3>5. Len(list) \in Nat /\ Len(points) \in Nat /\ MaxLiveSeriesPoints \in Nat
          /\ \A history \in ChartHistories : Len(history) \in Nat
      BY <3>2, <3>4, ChartSeriesAssumption, PriceChartAssumption
    <3>6. \/ Len(list) <= MaxLiveSeriesPoints
          \/ \E history \in ChartHistories : Len(list) <= Len(history)
      BY <3>2, <3>4, <3>5
    <3> QED
      BY <3>3, <3>4, <3>6, DrawKeepsShape
  <2>3. CASE Clear
    <3>1. <<>> \in Seq(ChartPoint) /\ Ordered(<<>>) /\ Len(<<>>) <= MaxLiveSeriesPoints
      BY ChartSeriesAssumption DEF Ordered
    <3>2. Draw(<<>>, transitionKey)
      BY <2>3 DEF Clear
    <3> QED
      BY <3>1, <3>2, DrawKeepsShape
  <2>4. CASE UNCHANGED <<points, domainRef>>
    BY <2>4 DEF ChartDrawn, DrawnKeepsShape, Drawn
  <2> QED
    BY <2>1, <2>2, <2>3, <2>4
       DEF PriceChartNext, priceChart, ForgetHover, SelectPoint, AnimationFrame, ClearHover
<1> QED
  BY <1>1, <1>2, PTL DEF PriceChartSpec

\* However long the series that is loaded and whatever ticks join it, what is
\* drawn has both ends and no point twice, in order, and fits its scale; and the
\* series does not grow beyond its cap.
THEOREM DrawingIsRepresentative == PriceChartSpec => []DrawnKeepsShape
<1>1. ChartDrawn => DrawnKeepsShape
  BY DEF ChartDrawn
<1> QED
  BY <1>1, ChartStaysDrawn, PTL

--------------------------------------------------------------------------------
(* The binary search.                                                      *)

\* The search from low to high, in a list with these times, has found i.
Found(i, low, high, at, t) ==
    IF low >= high THEN i = low
    ELSE /\ i \in low..high /\ (i = high \/ t <= at[i])
         /\ \A j \in low..i - 1 : at[j] < t

FoundBy(low, high, n, at, t) == CHOOSE i \in 1..n : Found(i, low, high, at, t)

LEMMA FoundOne ==
    ASSUME NEW n \in Nat \ {0}, NEW at \in [1..n -> Int], NEW t \in Int,
           NEW low \in 1..n, NEW high \in 1..n
    PROVE  /\ FoundBy(low, high, n, at, t) \in 1..n
           /\ Found(FoundBy(low, high, n, at, t), low, high, at, t)
           /\ \A i, j \in 1..n : Found(i, low, high, at, t) /\ Found(j, low, high, at, t) => i = j
<1>1. \E i \in 1..n : Found(i, low, high, at, t)
  <2>1. CASE low >= high
    BY <2>1 DEF Found
  <2>2. CASE ~(low >= high)
    <3> DEFINE T == {i \in low..high : i = high \/ t <= at[i]}
    <3>1. T \subseteq Nat /\ high \in T
      BY <2>2
    <3>2. PICK i \in T : \A j \in T : i <= j
      <4> HIDE DEF T
      <4> QED
        BY <3>1, LeastNumber
    <3>3. ASSUME NEW j \in low..i - 1 PROVE at[j] < t
      <4>1. j \in low..high /\ j < i /\ at[j] \in Int
        BY <3>2
      <4>2. j \notin T
        BY <3>2, <4>1
      <4> QED
        BY <4>1, <4>2
    <3>4. i \in 1..n /\ i \in low..high /\ (i = high \/ t <= at[i])
      BY <3>2
    <3> QED
      BY <2>2, <3>3, <3>4 DEF Found
  <2> QED
    BY <2>1, <2>2
<1>2. ASSUME NEW i \in 1..n, NEW j \in 1..n,
             Found(i, low, high, at, t), Found(j, low, high, at, t), i < j
      PROVE  FALSE
  <2>1. ~(low >= high)
    BY <1>2 DEF Found
  <2>2. i \in low..j - 1 /\ i < high /\ t <= at[i]
    BY <1>2, <2>1 DEF Found
  <2>3. at[i] < t /\ at[i] \in Int
    BY <1>2, <2>1, <2>2 DEF Found
  <2> QED
    BY <2>2, <2>3
<1>3. \A i, j \in 1..n : Found(i, low, high, at, t) /\ Found(j, low, high, at, t) => i = j
  <2> TAKE i, j \in 1..n
  <2> HAVE Found(i, low, high, at, t) /\ Found(j, low, high, at, t)
  <2> QED
    BY <1>2
<1>4. FoundBy(low, high, n, at, t) \in 1..n /\ Found(FoundBy(low, high, n, at, t), low, high, at, t)
  BY <1>1 DEF FoundBy
<1> QED
  BY <1>3, <1>4

\* Either half that is searched on has what the whole has.
LEMMA HalfHasIt ==
    ASSUME NEW n \in Nat \ {0}, NEW at \in [1..n -> Int], NEW t \in Int,
           \A i, j \in 1..n : i < j => at[i] <= at[j],
           NEW low \in 1..n, NEW high \in 1..n, low < high,
           NEW middle \in low..high - 1, NEW i \in 1..n
    PROVE  /\ at[middle] < t /\ Found(i, middle + 1, high, at, t) => Found(i, low, high, at, t)
           /\ ~(at[middle] < t) /\ Found(i, low, middle, at, t) => Found(i, low, high, at, t)
<1>1. middle \in 1..n /\ at[middle] \in Int
  OBVIOUS
<1>2. at[middle] \in Int /\ low <= middle /\ middle < high
  BY <1>1
<1>3. ASSUME at[middle] < t, Found(i, middle + 1, high, at, t) PROVE Found(i, low, high, at, t)
  <2>1. i \in middle + 1..high /\ (i = high \/ t <= at[i])
    BY <1>1, <1>3 DEF Found
  <2>2. ASSUME NEW j \in low..i - 1 PROVE at[j] < t
    <3>1. j \in 1..n /\ at[j] \in Int
      BY <2>1
    <3>2. CASE j <= middle
      <4>1. at[j] <= at[middle]
        BY <1>2, <3>1, <3>2
      <4> QED
        BY <1>2, <1>3, <3>1, <4>1
    <3>3. CASE ~(j <= middle)
      BY <1>1, <1>3, <2>1, <3>1, <3>3 DEF Found
    <3> QED
      BY <3>2, <3>3
  <2>3. i \in low..high
    BY <1>1, <2>1
  <2> QED
    BY <2>1, <2>2, <2>3 DEF Found
<1>4. ASSUME ~(at[middle] < t), Found(i, low, middle, at, t) PROVE Found(i, low, high, at, t)
  <2>1. i \in low..middle /\ (i = middle \/ t <= at[i])
    BY <1>1, <1>4 DEF Found
  <2>2. i \in low..high /\ t <= at[i]
    BY <1>1, <1>2, <1>4, <2>1
  <2>3. \A j \in low..i - 1 : at[j] < t
    BY <1>1, <1>4, <2>1 DEF Found
  <2> QED
    BY <2>2, <2>3 DEF Found
<1> QED
  BY <1>3, <1>4

\* One step of the search.
SearchOn(search, list, t) ==
    [span \in (DOMAIN list) \X (DOMAIN list) |->
        IF span[1] >= span[2] THEN span[1]
        ELSE LET middle == (span[1] + span[2]) \div 2
             IN  IF list[middle].at < t THEN search[<<middle + 1, span[2]>>]
                 ELSE search[<<span[1], middle>>]]

\* What a step yields: the search on either side of a number in the middle.
Halves(next, search, low, high, at, t) ==
    /\ low >= high => next = low
    /\ low < high => \E middle \in low..high - 1 :
                        next = IF at[middle] < t THEN search[<<middle + 1, high>>]
                               ELSE search[<<low, middle>>]

LEMMA SearchStep ==
    ASSUME NEW n \in Nat \ {0}, NEW at \in [1..n -> Int], NEW t \in Int,
           NEW list, DOMAIN list = 1..n, \A i \in 1..n : list[i].at = at[i],
           NEW low \in 1..n, NEW high \in 1..n, NEW search
    PROVE  Halves(SearchOn(search, list, t)[<<low, high>>], search, low, high, at, t)
<1> DEFINE next == SearchOn(search, list, t)[<<low, high>>]
           middle == (low + high) \div 2
<1>1. <<low, high>> \in (DOMAIN list) \X (DOMAIN list) /\ <<low, high>>[1] = low /\ <<low, high>>[2] = high
  OBVIOUS
<1>2. next = IF low >= high THEN low
             ELSE IF list[middle].at < t THEN search[<<middle + 1, high>>] ELSE search[<<low, middle>>]
  BY <1>1 DEF SearchOn
<1>3. low < high => middle \in low..high - 1
  OBVIOUS
<1> HIDE DEF next, middle
<1>4. low < high => middle \in 1..n /\ list[middle].at = at[middle] /\ ~(low >= high)
  BY <1>3
<1> QED
  BY <1>2, <1>3, <1>4 DEF Halves, next

\* The search ends: some function does what each of its steps does.
LEMMA SearchEnds ==
    ASSUME NEW n \in Nat \ {0}, NEW at \in [1..n -> Int], NEW t \in Int,
           \A i, j \in 1..n : i < j => at[i] <= at[j],
           NEW list, DOMAIN list = 1..n, \A i \in 1..n : list[i].at = at[i]
    PROVE  \E search : search = SearchOn(search, list, t)
<1> DEFINE Pairs == (1..n) \X (1..n)
           search == [span \in Pairs |-> FoundBy(span[1], span[2], n, at, t)]
<1>1. ASSUME NEW low \in 1..n, NEW high \in 1..n
      PROVE  /\ search[<<low, high>>] \in 1..n
             /\ Found(search[<<low, high>>], low, high, at, t)
  <2>1. search[<<low, high>>] = FoundBy(low, high, n, at, t)
    OBVIOUS
  <2> HIDE DEF search
  <2>2. FoundBy(low, high, n, at, t) \in 1..n
    BY FoundOne
  <2>3. Found(FoundBy(low, high, n, at, t), low, high, at, t)
    BY FoundOne
  <2> QED
    BY <2>1, <2>2, <2>3
<1>2. search = [span \in Pairs |-> search[span]]
  OBVIOUS
<1> HIDE DEF search
<1>3. ASSUME NEW low \in 1..n, NEW high \in 1..n
      PROVE  search[<<low, high>>] = SearchOn(search, list, t)[<<low, high>>]
  <2> DEFINE next == SearchOn(search, list, t)[<<low, high>>]
  <2>1. Halves(next, search, low, high, at, t)
    BY SearchStep
  <2> HIDE DEF next
  <2>2. CASE low >= high
    BY <1>1, <2>1, <2>2 DEF Found, Halves, next
  <2>3. CASE low < high
    <3> PICK middle \in low..high - 1 :
          next = IF at[middle] < t THEN search[<<middle + 1, high>>] ELSE search[<<low, middle>>]
      BY <2>1, <2>3 DEF Halves
    <3>1. middle \in 1..n /\ middle + 1 \in 1..n
      BY SMTT(30)
    <3>2. next \in 1..n /\ Found(next, low, high, at, t)
      <4>1. CASE at[middle] < t
        <5>1. next \in 1..n /\ Found(next, middle + 1, high, at, t)
          BY <1>1, <3>1, <4>1
        <5> QED
          BY <2>3, <3>1, <4>1, <5>1, HalfHasIt
      <4>2. CASE ~(at[middle] < t)
        <5>1. next \in 1..n /\ Found(next, low, middle, at, t)
          BY <1>1, <3>1, <4>2
        <5> QED
          BY <2>3, <3>1, <4>2, <5>1, HalfHasIt
      <4> QED
        BY <4>1, <4>2
    <3>3. next = search[<<low, high>>]
      <4>1. search[<<low, high>>] \in 1..n /\ Found(search[<<low, high>>], low, high, at, t)
        BY <1>1
      <4> QED
        BY <3>2, <4>1, FoundOne, Zenon
    <3> QED
      BY <3>3 DEF next
  <2> QED
    BY <2>2, <2>3
<1>4. ASSUME NEW span \in Pairs PROVE search[span] = SearchOn(search, list, t)[span]
  <2>1. PICK low \in 1..n, high \in 1..n : span = <<low, high>>
    OBVIOUS
  <2> QED
    BY <1>3, <2>1
<1>5. SearchOn(search, list, t) = [span \in Pairs |-> SearchOn(search, list, t)[span]]
  BY DEF SearchOn
<1>6. search = SearchOn(search, list, t)
  BY <1>2, <1>4, <1>5
<1> QED
  BY <1>6

\* And whatever function does so finds the first time that is not earlier.
LEMMA SearchFinds ==
    ASSUME NEW n \in Nat \ {0}, NEW at \in [1..n -> Int], NEW t \in Int,
           \A i, j \in 1..n : i < j => at[i] <= at[j],
           NEW list, DOMAIN list = 1..n, \A i \in 1..n : list[i].at = at[i],
           NEW search, search = SearchOn(search, list, t)
    PROVE  search[<<1, n>>] \in 1..n /\ Found(search[<<1, n>>], 1, n, at, t)
<1> DEFINE Good(low, high) ==
             search[<<low, high>>] \in 1..n /\ Found(search[<<low, high>>], low, high, at, t)
           G == {k \in 0..n : \A low, high \in 1..n : high - low <= k => Good(low, high)}
<1>1. ASSUME NEW low \in 1..n, NEW high \in 1..n
      PROVE  Halves(search[<<low, high>>], search, low, high, at, t)
  <2>1. Halves(SearchOn(search, list, t)[<<low, high>>], search, low, high, at, t)
    BY SearchStep
  <2> QED
    BY <2>1, Zenon
<1>2. ASSUME NEW low \in 1..n, NEW high \in 1..n, low >= high PROVE Good(low, high)
  <2>1. search[<<low, high>>] = low
    BY <1>1, <1>2 DEF Halves
  <2> QED
    BY <1>2, <2>1 DEF Found
<1>3. 0 \in G
  BY <1>2
<1>4. ASSUME NEW k \in 1..n, k - 1 \in G PROVE k \in G
  <2>1. ASSUME NEW low \in 1..n, NEW high \in 1..n, high - low <= k, low < high PROVE Good(low, high)
    <3> DEFINE i == search[<<low, high>>]
    <3>1. PICK middle \in low..high - 1 :
            i = IF at[middle] < t THEN search[<<middle + 1, high>>] ELSE search[<<low, middle>>]
      BY <1>1, <2>1 DEF Halves
    <3> HIDE DEF i
    <3>2. /\ middle \in 1..n /\ middle + 1 \in 1..n
          /\ high - (middle + 1) <= k - 1 /\ middle - low <= k - 1
      BY <2>1
    <3>3. Good(middle + 1, high) /\ Good(low, middle)
      <4> HIDE DEF Good
      <4>1. \A l, h \in 1..n : h - l <= k - 1 => Good(l, h)
        BY <1>4
      <4> QED
        BY <3>2, <4>1
    <3>4. i \in 1..n /\ Found(i, low, high, at, t)
      <4>1. CASE at[middle] < t
        <5>1. i \in 1..n /\ Found(i, middle + 1, high, at, t)
          BY <3>1, <3>3, <4>1
        <5> QED
          BY <2>1, <3>1, <4>1, <5>1, HalfHasIt
      <4>2. CASE ~(at[middle] < t)
        <5>1. i \in 1..n /\ Found(i, low, middle, at, t)
          BY <3>1, <3>3, <4>2
        <5> QED
          BY <2>1, <3>1, <4>2, <5>1, HalfHasIt
      <4> QED
        BY <4>1, <4>2
    <3> QED
      BY <3>4 DEF i
  <2> HIDE DEF Good
  <2>2. \A low, high \in 1..n : high - low <= k => Good(low, high)
    BY <1>2, <2>1
  <2> QED
    BY <2>2
<1> HIDE DEF Good
<1>5. n \in G
  <2> HIDE DEF G
  <2>1. n \in Nat /\ n \in 0..n
    OBVIOUS
  <2> QED
    BY <1>3, <1>4, <2>1, AllNumbers
<1>6. Good(1, n)
  BY <1>5
<1> QED
  BY <1>6 DEF Good

LEMMA NearestIsNear ==
    ASSUME NEW list \in Seq(ChartPoint), list # <<>>, Ordered(list), NEW t \in Int
    PROVE  /\ NearestIndexByTimestamp(list, t) \in DOMAIN list
           /\ \A i \in DOMAIN list :
                Apart(list[NearestIndexByTimestamp(list, t)].at, t) <= Apart(list[i].at, t)
<1> DEFINE n == Len(list)
           at == [i \in 1..n |-> list[i].at]
           search == CHOOSE search : search = SearchOn(search, list, t)
           low == search[<<1, n>>]
           nearest == NearestIndexByTimestamp(list, t)
<1>1. n \in Nat \ {0} /\ DOMAIN list = 1..n
  OBVIOUS
<1>2. ASSUME NEW i \in 1..n PROVE list[i].at \in Nat
  <2>1. list[i] \in ChartPoint
    BY <1>1
  <2> QED
    BY <2>1 DEF ChartPoint
<1>3. /\ at \in [1..n -> Int] /\ \A i \in 1..n : list[i].at = at[i]
      /\ \A i, j \in 1..n : i < j => at[i] <= at[j]
  BY <1>1, <1>2, SMTT(30) DEF Ordered
<1>4. nearest = IF low = 1 \/ Apart(list[low].at, t) < Apart(list[low - 1].at, t) THEN low ELSE low - 1
  BY DEF NearestIndexByTimestamp, SearchOn
<1> HIDE DEF n, at, nearest
<1>5. search = SearchOn(search, list, t)
  <2>1. \E s : s = SearchOn(s, list, t)
    BY <1>1, <1>3, SearchEnds
  <2> QED
    BY <2>1
<1> HIDE DEF search
<1>6. low \in 1..n /\ Found(low, 1, n, at, t)
  BY <1>1, <1>3, <1>5, SearchFinds
<1> HIDE DEF low
<1>7. /\ low = n \/ t <= at[low]
      /\ \A j \in 1..low - 1 : at[j] < t
  BY <1>1, <1>6 DEF Found
<1>8. \/ nearest = low /\ (low = 1 \/ Apart(at[low], t) < Apart(at[low - 1], t))
      \/ nearest = low - 1 /\ low # 1 /\ ~(Apart(at[low], t) < Apart(at[low - 1], t))
  <2>1. CASE low = 1
    BY <1>4, <2>1
  <2>2. CASE low # 1
    <3>1. low - 1 \in 1..n
      BY <1>1, <1>6, <2>2
    <3>2. list[low].at = at[low] /\ list[low - 1].at = at[low - 1]
      BY <1>3, <1>6, <3>1
    <3> QED
      BY <1>4, <3>2
  <2> QED
    BY <2>1, <2>2
<1>9. nearest \in 1..n
  <2>1. CASE nearest = low
    BY <1>6, <2>1
  <2>2. CASE nearest = low - 1 /\ low # 1
    BY <1>1, <1>6, <2>2
  <2> QED
    BY <1>8, <2>1, <2>2
<1>10. Apart(at[nearest], t) <= Apart(at[low], t) /\ (low # 1 => Apart(at[nearest], t) <= Apart(at[low - 1], t))
  <2>1. at[low] \in Int /\ (low # 1 => low - 1 \in 1..n /\ at[low - 1] \in Int)
    BY <1>1, <1>3, <1>6
  <2> QED
    BY <1>8, <2>1, SMTT(30) DEF Apart
<1>11. ASSUME NEW i \in 1..n PROVE Apart(at[nearest], t) <= Apart(at[i], t)
  <2>1. at[i] \in Int /\ at[low] \in Int /\ at[nearest] \in Int
    BY <1>3, <1>6, <1>9
  <2>4. /\ Apart(at[i], t) \in Int /\ Apart(at[low], t) \in Int /\ Apart(at[nearest], t) \in Int
        /\ low # 1 => Apart(at[low - 1], t) \in Int
    <3>1. low # 1 => low - 1 \in 1..n /\ at[low - 1] \in Int
      BY <1>1, <1>3, <1>6
    <3> QED
      BY <2>1, <3>1, SMTT(30) DEF Apart
  <2>2. CASE low <= i
    <3>1. at[low] <= at[i]
      BY <1>3, <1>6, <2>1, <2>2
    <3>2. CASE t <= at[low]
      <4>1. Apart(at[low], t) <= Apart(at[i], t)
        BY <2>1, <3>1, <3>2 DEF Apart
      <4> QED
        BY <1>10, <2>4, <4>1
    <3>3. CASE ~(t <= at[low])
      <4>1. i = low
        BY <1>6, <1>7, <2>2, <3>3
      <4> QED
        BY <1>10, <4>1
    <3> QED
      BY <3>2, <3>3
  <2>3. CASE ~(low <= i)
    <3>1. low - 1 \in 1..n /\ i <= low - 1 /\ low # 1
      BY <1>1, <1>6, <2>3
    <3>2. at[low - 1] \in Int /\ at[i] <= at[low - 1] /\ at[low - 1] < t
      <4>1. at[low - 1] \in Int /\ at[low - 1] < t
        BY <1>3, <1>7, <3>1
      <4>2. i = low - 1 \/ i < low - 1
        BY <3>1
      <4> QED
        BY <1>3, <2>1, <3>1, <4>1, <4>2
    <3>3. Apart(at[low - 1], t) <= Apart(at[i], t)
      BY <2>1, <3>2 DEF Apart
    <3> QED
      BY <1>10, <2>4, <3>1, <3>3
  <2> QED
    BY <1>6, <2>2, <2>3
<1>12. \A i \in DOMAIN list : Apart(list[nearest].at, t) <= Apart(list[i].at, t)
  BY <1>1, <1>3, <1>9, <1>11
<1> QED
  BY <1>1, <1>9, <1>12 DEF nearest

\* Wherever the pointer is over a chart, the point that the binary search finds
\* is one to which no other is nearer in time.
THEOREM NearestIsFound == PriceChartSpec => []PointerFindsNearest
<1>1. ChartDrawn => PointerFindsNearest
  <2> SUFFICES ASSUME ChartDrawn, NEW t \in PointerTimes
               PROVE  \A i \in DOMAIN Drawn(points) :
                        Apart(Drawn(points)[NearestIndexByTimestamp(Drawn(points), t)].at, t)
                          <= Apart(Drawn(points)[i].at, t)
    BY DEF PointerFindsNearest
  <2> DEFINE drawn == Drawn(points)
  <2>1. points \in Seq(ChartPoint) /\ Ordered(points) /\ \A x \in ChartPoint : x.at \in Nat
    BY DEF ChartDrawn, DrawnKeepsShape, ChartPoint
  <2>2. drawn \in Seq(ChartPoint) /\ Ordered(drawn)
    BY <2>1, Sampled, ChartSeriesAssumption DEF Drawn
  <2>3. drawn # <<>> /\ t \in Int
    BY DEF PointerTimes
  <2> HIDE DEF drawn
  <2>4. \A i \in DOMAIN drawn : Apart(drawn[NearestIndexByTimestamp(drawn, t)].at, t) <= Apart(drawn[i].at, t)
    BY <2>2, <2>3, NearestIsNear
  <2> QED
    BY <2>4 DEF drawn
<1> QED
  BY <1>1, ChartStaysDrawn, PTL

================================================================================
