-------------------------- MODULE DashboardReadsProofs -------------------------
(***************************************************************************)
(* Theorems about the reads of the dashboard: of candles and charts, for   *)
(* any schedule, ticks, buffer, provider and request, and of analytics,    *)
(* for any table of outcomes.                                              *)
(***************************************************************************)
EXTENDS DashboardReads, WellFoundedInduction, FiniteSetTheorems, TLAPS

--------------------------------------------------------------------------------
(* Numbers, finite sets and recursive functions.                           *)

LEMMA LeastNumber ==
    ASSUME NEW T, T \subseteq Nat, T # {}
    PROVE  \E x \in T : \A y \in T : x <= y
<1> DEFINE R == OpToRel(<, Nat)
<1>1. IsWellFoundedOn(R, Nat)
  BY NatLessThanWellFounded
<1>2. \A x, y \in Nat : y < x => <<y, x>> \in R
  BY DEF OpToRel
<1> HIDE DEF R
<1>3. PICK x \in T : \A y \in T : ~(<<y, x>> \in R)
  BY <1>1, WFMin
<1>4. ASSUME NEW y \in T PROVE x <= y
  <2>1. x \in Nat /\ y \in Nat
    OBVIOUS
  <2>2. ~(y < x)
    BY <1>2, <1>3, <2>1
  <2> QED
    BY <2>1, <2>2
<1> QED
  BY <1>4

\* A set of numbers that holds the first and each next one holds them all.
LEMMA AllNumbers ==
    ASSUME NEW n \in Nat, NEW G,
           0 \in G, \A k \in 1..n : k - 1 \in G => k \in G
    PROVE  0..n \subseteq G
<1> DEFINE Missing == (0..n) \ G
<1>1. SUFFICES ASSUME Missing # {} PROVE FALSE
  OBVIOUS
<1>2. PICK k \in Missing : \A j \in Missing : k <= j
  <2>1. Missing \subseteq Nat
    OBVIOUS
  <2> HIDE DEF Missing
  <2> QED
    BY <1>1, <2>1, LeastNumber
<1>3. k \in 1..n
  OBVIOUS
<1>4. k - 1 \in 0..n /\ k - 1 \notin Missing
  BY <1>2, <1>3
<1> QED
  BY <1>3, <1>4

\* The same for subsets of a finite set, which grow one element at a time.
LEMMA GrowingSubsets ==
    ASSUME NEW S, IsFiniteSet(S), NEW F, F \subseteq SUBSET S, {} \in F,
           \A T \in F : \A x \in S \ T : T \cup {x} \in F
    PROVE  S \in F
<1> DEFINE C == {Cardinality(S \ T) : T \in F}
<1>1. \A T \in F : IsFiniteSet(S \ T) /\ Cardinality(S \ T) \in Nat
  BY FS_Difference, FS_CardinalityType
<1>2. C \subseteq Nat /\ C # {}
  BY <1>1
<1>3. PICK n \in C : \A m \in C : n <= m
  <2> HIDE DEF C
  <2> QED
    BY <1>2, LeastNumber
<1>4. PICK T \in F : n = Cardinality(S \ T)
  OBVIOUS
<1>5. CASE S \ T = {}
  BY <1>5
<1>6. CASE S \ T # {}
  <2>1. PICK x \in S \ T : TRUE
    BY <1>6
  <2>2. Cardinality(S \ (T \cup {x})) \in C
    OBVIOUS
  <2>3. S \ (T \cup {x}) = (S \ T) \ {x}
    OBVIOUS
  <2>4. IsFiniteSet(S \ T)
    BY <1>1
  <2>5. Cardinality((S \ T) \ {x}) = Cardinality(S \ T) - 1
    BY <2>4, FS_RemoveElement
  <2> HIDE DEF C
  <2>6. n <= Cardinality(S \ T) - 1
    BY <1>3, <2>2, <2>3, <2>5
  <2>7. n \in Nat
    BY <1>2
  <2> QED
    BY <1>4, <2>6, <2>7
<1> QED
  BY <1>5, <1>6

LEMMA GreatestNumber ==
    ASSUME NEW T, T \subseteq Int, T # {}, IsFiniteSet(T)
    PROVE  \E x \in T : \A y \in T : y <= x
<1> DEFINE F == {U \in SUBSET T : U = {} \/ \E x \in U : \A y \in U : y <= x}
<1>1. ASSUME NEW U \in F, NEW x \in T \ U PROVE U \cup {x} \in F
  <2>1. CASE U = {}
    BY <2>1
  <2>2. CASE U # {}
    <3>1. PICK z \in U : \A y \in U : y <= z
      BY <2>2
    <3>2. x \in Int /\ z \in Int
      OBVIOUS
    <3>3. CASE x <= z
      <4>1. \A y \in U \cup {x} : y <= z
        BY <3>1, <3>3
      <4> QED
        BY <4>1
    <3>4. CASE z <= x
      <4>1. \A y \in U \cup {x} : y <= x
        BY <3>1, <3>2, <3>4
      <4> QED
        BY <4>1
    <3> QED
      BY <3>2, <3>3, <3>4
  <2> QED
    BY <2>1, <2>2
<1>2. {} \in F /\ F \subseteq SUBSET T
  OBVIOUS
<1>3. T \in F
  <2> HIDE DEF F
  <2> QED
    BY <1>1, <1>2, GrowingSubsets
<1> QED
  BY <1>3

\* What is computed from a first value by one step after the other exists.
Iterates(f, n, S, base, step) ==
    f \in [0..n -> S] /\ f[0] = base /\ \A i \in 1..n : f[i] = step[i][f[i - 1]]

LEMMA Recursion ==
    ASSUME NEW n \in Nat, NEW S, NEW base \in S, NEW step,
           \A i \in 1..n : \A s \in S : step[i][s] \in S
    PROVE  \E f : Iterates(f, n, S, base, step)
<1> DEFINE Upto(k, f) == f[0] = base /\ \A i \in 1..k : f[i] = step[i][f[i - 1]]
           G == {k \in 0..n : \E f \in [0..k -> S] : Upto(k, f)}
<1>1. 0 \in G
  <2>1. [i \in 0..0 |-> base] \in [0..0 -> S] /\ Upto(0, [i \in 0..0 |-> base])
    OBVIOUS
  <2> HIDE DEF Upto
  <2> QED
    BY <2>1
<1>2. ASSUME NEW k \in 1..n, k - 1 \in G PROVE k \in G
  <2>1. PICK f \in [0..k - 1 -> S] : Upto(k - 1, f)
    BY <1>2
  <2> DEFINE g == [i \in 0..k |-> IF i = k THEN step[k][f[k - 1]] ELSE f[i]]
  <2>2. f[k - 1] \in S
    OBVIOUS
  <2>3. step[k][f[k - 1]] \in S
    BY <2>2
  <2>4. g \in [0..k -> S]
    BY <2>3
  <2>5. g[0] = base /\ \A i \in 1..k : g[i] = step[i][g[i - 1]]
    BY <2>1
  <2>6. Upto(k, g)
    BY <2>5
  <2> HIDE DEF g, Upto
  <2> QED
    BY <2>4, <2>6
<1>3. n \in G
  <2>1. \A k \in 1..n : k - 1 \in G => k \in G
    BY <1>2
  <2> HIDE DEF G
  <2>2. 0..n \subseteq G
    BY <1>1, <2>1, AllNumbers
  <2> QED
    BY <2>2
<1> QED
  BY <1>3 DEF Iterates

\* The same from any other number on.
LEMMA NumbersFrom ==
    ASSUME NEW first \in Int, NEW last \in Int, first <= last, NEW G,
           first \in G, \A k \in first + 1..last : k - 1 \in G => k \in G
    PROVE  first..last \subseteq G
<1> DEFINE n == last - first
           H == {k \in 0..n : first + k \in G}
<1>1. n \in Nat /\ 0 \in H
  OBVIOUS
<1>2. ASSUME NEW k \in 1..n, k - 1 \in H PROVE k \in H
  <2>1. first + k \in first + 1..last /\ first + k - 1 \in G /\ (first + k) - 1 = first + k - 1
    BY <1>2
  <2>2. first + k \in G
    BY <2>1
  <2> QED
    BY <2>2
<1>3. 0..n \subseteq H
  <2>1. \A k \in 1..n : k - 1 \in H => k \in H
    BY <1>2
  <2> HIDE DEF H, n
  <2> QED
    BY <1>1, <2>1, AllNumbers
<1>4. ASSUME NEW i \in first..last PROVE i \in G
  <2>1. i - first \in 0..n /\ first + (i - first) = i
    OBVIOUS
  <2>2. i - first \in H
    BY <1>3, <2>1
  <2>3. first + (i - first) \in G
    BY <2>2
  <2> QED
    BY <2>1, <2>3
<1> QED
  BY <1>4

IteratesFrom(f, first, last, S, base, step) ==
    f \in [first..last -> S] /\ f[first] = base /\ \A i \in first + 1..last : f[i] = step[i][f[i - 1]]

LEMMA RecursionFrom ==
    ASSUME NEW first \in Int, NEW last \in Int, first <= last, NEW S, NEW base \in S, NEW step,
           \A i \in first + 1..last : \A s \in S : step[i][s] \in S
    PROVE  \E f : IteratesFrom(f, first, last, S, base, step)
<1> DEFINE n == last - first
           shifted == [k \in 1..n |-> step[first + k]]
<1>1. n \in Nat
  OBVIOUS
<1>2. \A i \in 1..n : \A s \in S : shifted[i][s] \in S
  <2> SUFFICES ASSUME NEW i \in 1..n, NEW s \in S PROVE shifted[i][s] \in S
    OBVIOUS
  <2>1. first + i \in first + 1..last
    OBVIOUS
  <2>2. shifted[i] = step[first + i]
    OBVIOUS
  <2> QED
    BY <2>1, <2>2
<1>3. PICK g : Iterates(g, n, S, base, shifted)
  <2> HIDE DEF n, shifted
  <2> QED
    BY <1>1, <1>2, Recursion
<1> DEFINE f == [i \in first..last |-> g[i - first]]
<1>4. g \in [0..n -> S] /\ g[0] = base /\ \A i \in 1..n : g[i] = shifted[i][g[i - 1]]
  BY <1>3 DEF Iterates
<1>5. f \in [first..last -> S]
  BY <1>4
<1>6. f[first] = base
  BY <1>4
<1>7. ASSUME NEW i \in first + 1..last PROVE f[i] = step[i][f[i - 1]]
  <2>1. /\ i - first \in 1..n /\ first + (i - first) = i /\ i - 1 \in first..last /\ i \in first..last
        /\ (i - first) - 1 = (i - 1) - first
    OBVIOUS
  <2>2. g[i - first] = shifted[i - first][g[(i - 1) - first]]
    BY <1>4, <2>1
  <2>3. shifted[i - first] = step[i]
    BY <2>1
  <2> QED
    BY <2>1, <2>2, <2>3
<1>8. IteratesFrom(f, first, last, S, base, step)
  BY <1>5, <1>6, <1>7 DEF IteratesFrom
<1> HIDE DEF f
<1> QED
  BY <1>8

\* Filtered, as the values its loop goes through.
FilterLoop(after, seq, kept, S) ==
    /\ after \in [0..Len(seq) -> Seq(S)]
    /\ after[0] = <<>> /\ Filtered(seq, kept) = after[Len(seq)]
    /\ \A i \in 1..Len(seq) :
         after[i] = IF i \in kept THEN Append(after[i - 1], seq[i]) ELSE after[i - 1]

LEMMA FilteredLoop ==
    ASSUME NEW S, NEW seq \in Seq(S), NEW kept
    PROVE  \E after : FilterLoop(after, seq, kept, S)
<1> DEFINE n == Len(seq)
           step == [i \in 1..n |-> [s \in Seq(S) |-> IF i \in kept THEN Append(s, seq[i]) ELSE s]]
           body(h) == [i \in 0..n |->
                         IF i = 0 THEN <<>>
                         ELSE IF i \in kept THEN Append(h[i - 1], seq[i]) ELSE h[i - 1]]
           after == CHOOSE h : h = body(h)
<1>1. n \in Nat /\ \A i \in 1..n : seq[i] \in S
  OBVIOUS
<1>2. Filtered(seq, kept) = after[n]
  BY DEF Filtered
<1> HIDE DEF n
<1>3. \A i \in 1..n : \A s \in Seq(S) : step[i][s] \in Seq(S)
  BY <1>1
<1>4. \E f : f = body(f)
  <2> HIDE DEF step, body, after
  <2>1. PICK f \in [0..n -> Seq(S)] : f[0] = <<>> /\ \A i \in 1..n : f[i] = step[i][f[i - 1]]
    <3>1. n \in Nat /\ <<>> \in Seq(S)
      BY <1>1
    <3>2. \E f : Iterates(f, n, Seq(S), <<>>, step)
      BY <1>3, <3>1, Recursion
    <3> QED
      BY <3>2 DEF Iterates
  <2>2. ASSUME NEW i \in 1..n
        PROVE  f[i] = IF i \in kept THEN Append(f[i - 1], seq[i]) ELSE f[i - 1]
    <3>1. f[i - 1] \in Seq(S)
      BY <1>1, <2>1
    <3>2. step[i][f[i - 1]] = IF i \in kept THEN Append(f[i - 1], seq[i]) ELSE f[i - 1]
      BY <3>1 DEF step
    <3> QED
      BY <2>1, <3>2
  <2>3. ASSUME NEW i \in 0..n PROVE f[i] = body(f)[i]
    <3>1. CASE i = 0
      BY <2>1, <3>1 DEF body
    <3>2. CASE i \in 1..n
      <4>1. i # 0
        BY <1>1, <3>2
      <4>2. body(f)[i] = IF i \in kept THEN Append(f[i - 1], seq[i]) ELSE f[i - 1]
        BY <4>1 DEF body
      <4> QED
        BY <2>2, <3>2, <4>2
    <3> QED
      BY <1>1, <3>1, <3>2
  <2>4. body(f) = [i \in 0..n |-> body(f)[i]]
    BY DEF body
  <2>5. f = [i \in 0..n |-> f[i]]
    BY <2>1
  <2> QED
    BY <2>3, <2>4, <2>5
<1>6. after = body(after)
  BY <1>4
<1> HIDE DEF after, step
<1>7. after[0] = <<>>
  BY <1>1, <1>6
<1>8. ASSUME NEW i \in 1..n
      PROVE  after[i] = IF i \in kept THEN Append(after[i - 1], seq[i]) ELSE after[i - 1]
  <2>1. i \in 0..n /\ i # 0
    BY <1>1
  <2>2. body(after)[i] = IF i \in kept THEN Append(after[i - 1], seq[i]) ELSE after[i - 1]
    BY <2>1
  <2> QED
    BY <1>6, <2>2
<1>9. after \in [0..n -> Seq(S)]
  <2> HIDE DEF body
  <2> DEFINE G == {i \in 0..n : after[i] \in Seq(S)}
  <2>1. 0 \in G
    <3>1. 0 \in 0..n /\ after[0] \in Seq(S)
      BY <1>1, <1>7
    <3> QED
      BY <3>1
  <2>2. \A i \in 1..n : i - 1 \in G => i \in G
    <3> SUFFICES ASSUME NEW i \in 1..n, i - 1 \in G PROVE i \in G
      OBVIOUS
    <3>1. after[i - 1] \in Seq(S) /\ seq[i] \in S /\ i \in 0..n
      BY <1>1
    <3>2. Append(after[i - 1], seq[i]) \in Seq(S)
      BY <3>1
    <3>3. after[i] \in Seq(S)
      BY <1>8, <3>1, <3>2
    <3> QED
      BY <3>1, <3>3
  <2>3. 0..n \subseteq G
    <3> HIDE DEF G
    <3> QED
      BY <1>1, <2>1, <2>2, AllNumbers
  <2>4. \A i \in 0..n : after[i] \in Seq(S)
    BY <2>3
  <2>5. after = [i \in 0..n |-> after[i]]
    BY <1>6 DEF body
  <2> QED
    BY <2>4, <2>5
<1> QED
  BY <1>2, <1>7, <1>8, <1>9 DEF n, FilterLoop

\* It selects elements whose index is kept, in their order.
Selection(at, list, seq, kept) ==
    /\ at \in [1..Len(list) -> kept \cap DOMAIN seq]
    /\ \A k \in DOMAIN at : list[k] = seq[at[k]]
    /\ \A k, l \in DOMAIN at : k < l => at[k] < at[l]

LEMMA FilteredSelects ==
    ASSUME NEW S, NEW seq \in Seq(S), NEW kept
    PROVE  /\ Filtered(seq, kept) \in Seq(S)
           /\ \E at : Selection(at, Filtered(seq, kept), seq, kept)
<1> DEFINE n == Len(seq)
<1>1. n \in Nat /\ DOMAIN seq = 1..n /\ \A i \in 1..n : seq[i] \in S
  OBVIOUS
<1>2. PICK after \in [0..n -> Seq(S)] :
         /\ after[0] = <<>> /\ Filtered(seq, kept) = after[n]
         /\ \A i \in 1..n : after[i] = IF i \in kept THEN Append(after[i - 1], seq[i]) ELSE after[i - 1]
  <2>1. PICK after : FilterLoop(after, seq, kept, S)
    BY FilteredLoop
  <2> QED
    BY <2>1 DEF FilterLoop
<1> HIDE DEF n
<1> HIDE DEF n
<1> DEFINE Selects(at, i) ==
             /\ \A k \in 1..Len(after[i]) : at[k] \in kept \cap 1..i /\ after[i][k] = seq[at[k]]
             /\ \A k, l \in 1..Len(after[i]) : k < l => at[k] < at[l]
           G == {i \in 0..n : \E at \in [1..Len(after[i]) -> Nat] : Selects(at, i)}
<1>3. 0 \in G
  <2>1. Len(after[0]) = 0
    BY <1>2
  <2>2. [k \in 1..Len(after[0]) |-> 0] \in [1..Len(after[0]) -> Nat]
    OBVIOUS
  <2>3. Selects([k \in 1..Len(after[0]) |-> 0], 0)
    BY <2>1
  <2> QED
    BY <1>1, <2>2, <2>3
<1>4. ASSUME NEW i \in 1..n, i - 1 \in G PROVE i \in G
  <2>1. PICK at \in [1..Len(after[i - 1]) -> Nat] : Selects(at, i - 1)
    BY <1>4
  <2>2. after[i - 1] \in Seq(S) /\ Len(after[i - 1]) \in Nat
    BY <1>1
  <2>3. CASE i \notin kept
    <3>1. after[i] = after[i - 1]
      BY <1>2, <2>3
    <3>2. Selects(at, i)
      BY <1>1, <2>1, <3>1
    <3> HIDE DEF Selects
    <3> QED
      BY <3>1, <3>2
  <2>4. CASE i \in kept
    <3> DEFINE m == Len(after[i - 1])
               more == [k \in 1..m + 1 |-> IF k = m + 1 THEN i ELSE at[k]]
    <3>1. after[i] = Append(after[i - 1], seq[i])
      BY <1>2, <2>4
    <3>2. /\ Len(after[i]) = m + 1 /\ m \in Nat
          /\ after[i][m + 1] = seq[i] /\ \A k \in 1..m : after[i][k] = after[i - 1][k]
      BY <1>1, <2>2, <3>1
    <3>3. more \in [1..m + 1 -> Nat]
      BY <1>1, <3>2
    <3>4. /\ \A k \in 1..m : at[k] \in kept \cap 1..i - 1 /\ after[i - 1][k] = seq[at[k]]
          /\ \A k, l \in 1..m : k < l => at[k] < at[l]
      BY <2>1
    <3> HIDE DEF m
    <3>5. \A k \in 1..m + 1 : more[k] \in kept \cap 1..i /\ after[i][k] = seq[more[k]]
      BY <1>1, <2>4, <3>2, <3>4
    <3>6. \A k, l \in 1..m + 1 : k < l => more[k] < more[l]
      <4> SUFFICES ASSUME NEW k \in 1..m + 1, NEW l \in 1..m + 1, k < l PROVE more[k] < more[l]
        OBVIOUS
      <4>1. k \in 1..m
        BY <3>2
      <4>2. CASE l = m + 1
        BY <1>1, <3>2, <3>4, <4>1, <4>2
      <4>3. CASE l \in 1..m
        <5>1. more[k] = at[k] /\ more[l] = at[l]
          BY <3>2, <4>1, <4>3
        <5> HIDE DEF more
        <5> QED
          BY <3>4, <4>1, <4>3, <5>1
      <4> QED
        BY <3>2, <4>2, <4>3
    <3> HIDE DEF more
    <3>7. Selects(more, i)
      BY <3>2, <3>5, <3>6
    <3> HIDE DEF Selects
    <3> QED
      BY <3>2, <3>3, <3>7
  <2> QED
    BY <2>3, <2>4
<1>5. n \in G
  <2>1. \A i \in 1..n : i - 1 \in G => i \in G
    BY <1>4
  <2> HIDE DEF G
  <2>2. 0..n \subseteq G
    BY <1>1, <1>3, <2>1, AllNumbers
  <2> QED
    BY <1>1, <2>2
<1>6. PICK at \in [1..Len(after[n]) -> Nat] : Selects(at, n)
  BY <1>5
<1>7. after[n] \in Seq(S)
  BY <1>1
<1>8. at \in [1..Len(after[n]) -> kept \cap DOMAIN seq]
  BY <1>1, <1>6
<1>9. Selection(at, after[n], seq, kept)
  BY <1>6, <1>8 DEF Selection
<1> QED
  BY <1>2, <1>7, <1>9

--------------------------------------------------------------------------------
(* The calendar.                                                           *)

LEMMA Division ==
    ASSUME NEW x \in Nat, NEW k \in Nat \ {0}
    PROVE  x \div k \in Nat /\ (x \div k) * k \in Nat /\ (x \div k) * k <= x /\ x < (x \div k) * k + k
  BY SMT

LEMMA ProductMonotone ==
    ASSUME NEW x \in Nat, NEW y \in Nat, NEW k \in Nat, x <= y
    PROVE  x * k <= y * k /\ x * k \in Nat /\ y * k \in Nat
  BY SMTT(30)

\* Division keeps the order.
LEMMA DivisionMonotone ==
    ASSUME NEW x \in Nat, NEW y \in Nat, NEW k \in Nat \ {0}, x <= y
    PROVE  x \div k <= y \div k
<1> DEFINE p == x \div k
           q == y \div k
<1>1. p \in Nat /\ q \in Nat /\ p * k <= x /\ y < q * k + k
  BY Division
<1> HIDE DEF p, q
<1>2. p * k < (q + 1) * k
  <2>1. (q + 1) * k = q * k + k /\ p * k \in Nat /\ q * k \in Nat
    BY <1>1, SMTT(30)
  <2> QED
    BY <1>1, <2>1
<1>3. p < q + 1
  BY <1>1, <1>2, SMTT(30)
<1> QED
  BY <1>1, <1>3 DEF p, q

LEMMA ExactDivision ==
    ASSUME NEW x \in Nat, NEW k \in Nat \ {0}
    PROVE  (k * x) \div k = x
  BY SMTT(30)

LEMMA InSession ==
    ASSUME NEW t \in Nat, IsOpen(t)
    PROVE  /\ SessionOf(t) \in Sessions
           /\ SessionOf(t).open \in Nat /\ SessionOf(t).close \in Nat
           /\ SessionOf(t).open <= t /\ t < SessionOf(t).close
<1>1. SessionOf(t) \in Sessions /\ SessionOf(t).open <= t /\ t < SessionOf(t).close
  BY DEF IsOpen, SessionOf
<1> HIDE DEF SessionOf
<1> QED
  BY <1>1, CalendarAssumption

\* Sessions lie one after the other.
LEMMA SessionsOrdered ==
    ASSUME NEW s \in Sessions, NEW r \in Sessions
    PROVE  /\ s.open \in Nat /\ s.close \in Nat /\ r.open \in Nat /\ r.close \in Nat
           /\ s.open < s.close
           /\ s.open <= r.open => s = r \/ s.close <= r.open
<1>1. s.open \in Nat /\ s.close \in Nat /\ r.open \in Nat /\ r.close \in Nat
  BY CalendarAssumption
<1>2. s.open < s.close /\ r.open < r.close
  BY CalendarAssumption
<1>3. s = r \/ s.close <= r.open \/ r.close <= s.open
  BY CalendarAssumption
<1> QED
  BY <1>1, <1>2, <1>3

LEMMA SessionsOfTimes ==
    ASSUME NEW p \in Nat, NEW q \in Nat, p <= q, IsOpen(p), IsOpen(q)
    PROVE  SessionOf(p).open <= SessionOf(q).open
<1> DEFINE s == SessionOf(p)
           r == SessionOf(q)
<1>1. s \in Sessions /\ s.open <= p /\ p < s.close /\ r \in Sessions /\ r.open <= q /\ q < r.close
  BY InSession
<1> HIDE DEF s, r
<1>2. /\ s.open \in Nat /\ s.close \in Nat /\ r.open \in Nat /\ r.close \in Nat
      /\ r.open <= s.open => r = s \/ r.close <= s.open
  BY <1>1, SessionsOrdered
<1>3. s.open <= r.open
  BY <1>1, <1>2
<1> QED
  BY <1>3 DEF s, r

Bar == [start : Nat, end : Nat]

\* An intraday bar holds its minute and lies within its session.
LEMMA IntradayIsInside ==
    ASSUME NEW t \in Nat, IsOpen(t), NEW d \in Nat \ {0}
    PROVE  /\ Intraday(t, d) \in Bar
           /\ SessionOf(t).open <= Intraday(t, d).start /\ Intraday(t, d).start <= t
           /\ t < Intraday(t, d).end /\ Intraday(t, d).end <= SessionOf(t).close
<1> DEFINE s == SessionOf(t)
           k == (t - s.open) \div d
<1>1. s.open \in Nat /\ s.close \in Nat /\ s.open <= t /\ t < s.close
  BY InSession
<1> HIDE DEF s
<1>2. t - s.open \in Nat
  BY <1>1
<1>3. k * d \in Nat /\ k * d <= t - s.open /\ t - s.open < k * d + d
  BY <1>2, Division
<1>4. Intraday(t, d) = [start |-> s.open + k * d,
                        end |-> IF s.open + k * d + d < s.close THEN s.open + k * d + d ELSE s.close]
  BY DEF Intraday, s
<1> HIDE DEF k
<1> DEFINE start == s.open + k * d
           end == IF start + d < s.close THEN start + d ELSE s.close
<1>5. /\ start \in Nat /\ end \in Nat /\ s.open <= start /\ start <= t
      /\ t < end /\ end <= s.close
  BY <1>1, <1>3
<1> HIDE DEF start, end
<1>6. Intraday(t, d) = [start |-> start, end |-> end]
  BY <1>4 DEF start, end
<1> QED
  BY <1>5, <1>6 DEF s, Bar

\* Intraday bars are the same or lie one after the other.
LEMMA IntradayPartition ==
    ASSUME NEW p \in Nat, NEW q \in Nat, p <= q, IsOpen(p), IsOpen(q), NEW d \in Nat \ {0}
    PROVE  Intraday(p, d) = Intraday(q, d) \/ Intraday(p, d).end <= Intraday(q, d).start
<1> DEFINE s == SessionOf(p)
           r == SessionOf(q)
<1>1. s \in Sessions /\ r \in Sessions /\ s.open <= r.open /\ s.open <= p /\ p < s.close
  BY InSession, SessionsOfTimes
<1>2. s.open \in Nat /\ s.close \in Nat /\ r.open \in Nat /\ (s = r \/ s.close <= r.open)
  BY <1>1, SessionsOrdered
<1>3. CASE s # r
  <2>1. Intraday(p, d).end <= s.close /\ r.open <= Intraday(q, d).start
    BY IntradayIsInside
  <2>2. Intraday(p, d).end \in Nat /\ Intraday(q, d).start \in Nat
    BY IntradayIsInside DEF Bar
  <2> HIDE DEF s, r
  <2> QED
    BY <1>2, <1>3, <2>1, <2>2
<1>4. CASE s = r
  <2> DEFINE k == (p - s.open) \div d
             l == (q - s.open) \div d
             end(n) == IF s.open + n * d + d < s.close THEN s.open + n * d + d ELSE s.close
  <2>1. /\ Intraday(p, d) = [start |-> s.open + k * d, end |-> end(k)]
        /\ Intraday(q, d) = [start |-> s.open + l * d, end |-> end(l)]
    BY <1>4 DEF Intraday
  <2> HIDE DEF s, r
  <2>2. p - s.open \in Nat /\ q - s.open \in Nat /\ p - s.open <= q - s.open
    BY <1>1, <1>2
  <2>3. /\ k \in Nat /\ k * d \in Nat /\ k * d <= p - s.open /\ p - s.open < k * d + d
        /\ l \in Nat /\ l * d \in Nat /\ l * d <= q - s.open /\ q - s.open < l * d + d
    BY <2>2, Division
  <2> HIDE DEF k, l
  <2>4. CASE k = l
    BY <2>1, <2>4
  <2>5. CASE k < l
    <3>1. (k + 1) * d <= l * d
      BY <2>3, <2>5, ProductMonotone
    <3>2. (k + 1) * d = k * d + d
      BY <2>3, SMTT(30)
    <3>3. end(k) <= s.open + l * d
      BY <1>2, <2>3, <3>1, <3>2
    <3> QED
      BY <2>1, <3>3
  <2>6. CASE l < k
    <3>1. (l + 1) * d <= k * d
      BY <2>3, <2>6, ProductMonotone
    <3>2. (l + 1) * d = l * d + d
      BY <2>3, SMTT(30)
    <3> QED
      BY <2>2, <2>3, <3>1, <3>2
  <2> QED
    BY <2>3, <2>4, <2>5, <2>6
<1> QED
  BY <1>3, <1>4

\* The bar of several sessions reaches from the first to the last of them.
LEMMA SpanningReaches ==
    ASSUME NEW S \in SUBSET Sessions, S # {}
    PROVE  /\ Spanning(S) \in Bar
           /\ \E s \in S : s.open = Spanning(S).start
           /\ \E s \in S : s.close = Spanning(S).end
           /\ \A s \in S : Spanning(S).start <= s.open /\ s.close <= Spanning(S).end
<1> DEFINE first == CHOOSE s \in S : \A r \in S : s.open <= r.open
           last == CHOOSE s \in S : \A r \in S : r.close <= s.close
           Opens == {s.open : s \in S}
           Ends == {s.close : s \in S}
<1>1. \A s \in S : s.open \in Nat /\ s.close \in Nat
  BY CalendarAssumption
<1>2. \E s \in S : \A r \in S : s.open <= r.open
  <2>1. Opens \subseteq Nat /\ Opens # {}
    BY <1>1
  <2>2. \E x \in Opens : \A y \in Opens : x <= y
    <3> HIDE DEF Opens
    <3> QED
      BY <2>1, LeastNumber
  <2> QED
    BY <2>2
<1>3. \E s \in S : \A r \in S : r.close <= s.close
  <2>1. Ends \subseteq Int /\ Ends # {}
    BY <1>1
  <2>2. IsFiniteSet(Ends)
    <3>1. IsFiniteSet(S)
      BY CalendarAssumption, FS_Subset
    <3>2. [s \in S |-> s.close] \in Surjection(S, Ends)
      BY DEF Surjection
    <3> QED
      BY <3>1, <3>2, FS_Surjection
  <2>3. \E x \in Ends : \A y \in Ends : y <= x
    <3> HIDE DEF Ends
    <3> QED
      BY <2>1, <2>2, GreatestNumber
  <2> QED
    BY <2>3
<1>4. first \in S /\ \A r \in S : first.open <= r.open
  BY <1>2
<1>5. last \in S /\ \A r \in S : r.close <= last.close
  BY <1>3
<1>6. Spanning(S) = [start |-> first.open, end |-> last.close]
  BY DEF Spanning
<1> HIDE DEF first, last
<1> QED
  BY <1>1, <1>4, <1>5, <1>6 DEF Bar


\* Bars of several sessions are the same or lie one after the other, when those
\* that share a number also lie together.
LEMMA SpanningPartition ==
    ASSUME NEW N \in [Sessions -> Nat], \A s, r \in Sessions : s.open <= r.open => N[s] <= N[r],
           NEW s \in Sessions, NEW r \in Sessions, s.open <= r.open
    PROVE  LET S == {x \in Sessions : N[x] = N[s]}
               R == {x \in Sessions : N[x] = N[r]}
           IN  S = R \/ Spanning(S).end <= Spanning(R).start
<1> DEFINE S == {x \in Sessions : N[x] = N[s]}
           R == {x \in Sessions : N[x] = N[r]}
<1>1. N[s] \in Nat /\ N[r] \in Nat /\ N[s] <= N[r]
  OBVIOUS
<1>2. CASE N[s] = N[r]
  BY <1>2
<1>3. CASE N[s] < N[r]
  <2>1. S \in SUBSET Sessions /\ S # {} /\ R \in SUBSET Sessions /\ R # {}
    OBVIOUS
  <2>2. \A x \in S, y \in R : x \in Sessions /\ y \in Sessions /\ N[x] = N[s] /\ N[y] = N[r]
    OBVIOUS
  <2> HIDE DEF S, R
  <2>3. PICK x \in S : x.close = Spanning(S).end
    BY <2>1, SpanningReaches
  <2>4. PICK y \in R : y.open = Spanning(R).start
    BY <2>1, SpanningReaches
  <2>5. x \in Sessions /\ y \in Sessions /\ N[x] < N[y]
    BY <1>3, <2>2
  <2>6. /\ x.open \in Nat /\ y.open \in Nat
        /\ x.open <= y.open => x = y \/ x.close <= y.open
    BY <2>5, SessionsOrdered
  <2>7. ~(y.open <= x.open)
    <3>1. N[x] \in Nat /\ N[y] \in Nat
      BY <2>5
    <3>2. y.open <= x.open => N[y] <= N[x]
      BY <2>5
    <3> QED
      BY <2>5, <3>1, <3>2
  <2>8. x # y
    BY <1>1, <2>5
  <2>9. x.close <= y.open
    BY <2>6, <2>7, <2>8
  <2>10. Spanning(S).end <= Spanning(R).start
    BY <2>3, <2>4, <2>9
  <2> QED
    BY <2>10 DEF S, R
<1> QED
  BY <1>1, <1>2, <1>3

\* The sessions of the bar of a time.
LEMMA BucketIsInside ==
    ASSUME NEW t \in Nat, NEW interval \in Intervals, IsOpen(t)
    PROVE  LET b == BucketFor(t, interval) IN
           /\ b \in Bar
           /\ b.start <= t /\ t < b.end
           /\ \E s, r \in Sessions :
                /\ s.open <= b.start /\ b.end <= r.close
                /\ interval.unit \in {"minute", "day"} => s = r
<1> DEFINE b == BucketFor(t, interval)
           s == SessionOf(t)
<1>1. /\ s \in Sessions /\ s.open \in Nat /\ s.close \in Nat /\ s.open <= t /\ t < s.close
  BY InSession
<1>2. ASSUME NEW S \in SUBSET Sessions, s \in S, b = Spanning(S)
      PROVE  /\ b \in Bar /\ b.start <= t /\ t < b.end
             /\ \E x, y \in S : x.open <= b.start /\ b.end <= y.close
  <2>1. /\ Spanning(S) \in Bar
        /\ \E x \in S : x.open = Spanning(S).start
        /\ \E x \in S : x.close = Spanning(S).end
        /\ \A x \in S : Spanning(S).start <= x.open /\ x.close <= Spanning(S).end
    BY <1>2, SpanningReaches
  <2> HIDE DEF b, s
  <2>2. b.start \in Nat /\ b.end \in Nat /\ b.start <= s.open /\ s.close <= b.end
    BY <1>2, <2>1 DEF Bar
  <2>3. PICK x \in S, y \in S : x.open = b.start /\ y.close = b.end
    BY <1>2, <2>1
  <2> QED
    BY <1>1, <1>2, <2>1, <2>2, <2>3
<1>3. CASE interval.unit = "day"
  <2>1. b = Spanning({s})
    BY <1>3 DEF BucketFor
  <2>2. {s} \in SUBSET Sessions /\ s \in {s}
    BY <1>1
  <2> HIDE DEF b, s
  <2>3. /\ b \in Bar /\ b.start <= t /\ t < b.end
        /\ \E x, y \in {s} : x.open <= b.start /\ b.end <= y.close
    BY <1>2, <2>1, <2>2
  <2>4. s.open <= b.start /\ b.end <= s.close
    BY <2>3
  <2> QED
    BY <1>1, <2>3, <2>4 DEF b
<1>4. ASSUME NEW S \in SUBSET Sessions, s \in S, b = Spanning(S), interval.unit \in {"week", "month"}
      PROVE  /\ b \in Bar /\ b.start <= t /\ t < b.end
             /\ \E x, y \in Sessions :
                  /\ x.open <= b.start /\ b.end <= y.close
                  /\ interval.unit \in {"minute", "day"} => x = y
  <2>1. interval.unit \notin {"minute", "day"}
    BY <1>4
  <2>2. /\ b \in Bar /\ b.start <= t /\ t < b.end
        /\ \E x, y \in S : x.open <= b.start /\ b.end <= y.close
    BY <1>2, <1>4
  <2> HIDE DEF b, s
  <2> QED
    BY <1>4, <2>1, <2>2
<1>5. CASE interval.unit = "week"
  <2>1. b = Spanning(SameWeek(t))
    BY <1>5 DEF BucketFor
  <2>2. SameWeek(t) \in SUBSET Sessions /\ s \in SameWeek(t)
    BY <1>1 DEF SameWeek
  <2> QED
    BY <1>4, <1>5, <2>1, <2>2
<1>6. CASE interval.unit = "month"
  <2>1. b = Spanning(SameMonth(t))
    BY <1>6 DEF BucketFor
  <2>2. SameMonth(t) \in SUBSET Sessions /\ s \in SameMonth(t)
    BY <1>1 DEF SameMonth
  <2> QED
    BY <1>4, <1>6, <2>1, <2>2
<1>7. CASE interval.unit = "minute"
  <2>1. interval.length \in Nat \ {0}
    BY <1>7, HistoryAssumption
  <2>2. b = Intraday(t, interval.length)
    BY <1>7 DEF BucketFor
  <2>3. /\ b \in Bar /\ s.open <= b.start /\ b.start <= t /\ t < b.end /\ b.end <= s.close
    BY <2>1, <2>2, IntradayIsInside
  <2> HIDE DEF b, s
  <2> QED
    BY <1>1, <2>3 DEF b
<1>8. interval.unit \in {"day", "week", "month", "minute"}
  BY HistoryAssumption
<1> QED
  BY <1>3, <1>5, <1>6, <1>7, <1>8

\* The bars of two times are the same or lie one after the other.
LEMMA BucketsPartition ==
    ASSUME NEW p \in Nat, NEW q \in Nat, p <= q, IsOpen(p), IsOpen(q), NEW interval \in Intervals
    PROVE  \/ BucketFor(p, interval) = BucketFor(q, interval)
           \/ BucketFor(p, interval).end <= BucketFor(q, interval).start
<1> DEFINE s == SessionOf(p)
           r == SessionOf(q)
<1>1. s \in Sessions /\ r \in Sessions /\ s.open <= r.open
  BY InSession, SessionsOfTimes
<1>2. CASE interval.unit = "day"
  <2>1. BucketFor(p, interval) = Spanning({s}) /\ BucketFor(q, interval) = Spanning({r})
    BY <1>2 DEF BucketFor
  <2> HIDE DEF s, r
  <2>2. s = r \/ s.close <= r.open
    BY <1>1, SessionsOrdered
  <2>3. {s} \in SUBSET Sessions /\ {r} \in SUBSET Sessions /\ {s} # {} /\ {r} # {}
    BY <1>1
  <2>4. Spanning({s}).end = s.close /\ Spanning({r}).start = r.open
    <3>1. \E x \in {s} : x.close = Spanning({s}).end
      BY <2>3, SpanningReaches
    <3>2. \E x \in {r} : x.open = Spanning({r}).start
      BY <2>3, SpanningReaches
    <3> QED
      BY <3>1, <3>2
  <2> QED
    BY <2>1, <2>2, <2>4
<1>3. CASE interval.unit = "week"
  <2>1. /\ BucketFor(p, interval) = Spanning({x \in Sessions : WeekOf[x] = WeekOf[s]})
        /\ BucketFor(q, interval) = Spanning({x \in Sessions : WeekOf[x] = WeekOf[r]})
    BY <1>3 DEF BucketFor, SameWeek
  <2> HIDE DEF s, r
  <2>2. /\ WeekOf \in [Sessions -> Nat]
        /\ \A x, y \in Sessions : x.open <= y.open => WeekOf[x] <= WeekOf[y]
    BY CalendarAssumption
  <2>3. \/ {x \in Sessions : WeekOf[x] = WeekOf[s]} = {x \in Sessions : WeekOf[x] = WeekOf[r]}
        \/ Spanning({x \in Sessions : WeekOf[x] = WeekOf[s]}).end
             <= Spanning({x \in Sessions : WeekOf[x] = WeekOf[r]}).start
    BY <1>1, <2>2, SpanningPartition
  <2> QED
    BY <2>1, <2>3
<1>4. CASE interval.unit = "month"
  <2>1. /\ BucketFor(p, interval) = Spanning({x \in Sessions : MonthOf[x] = MonthOf[s]})
        /\ BucketFor(q, interval) = Spanning({x \in Sessions : MonthOf[x] = MonthOf[r]})
    BY <1>4 DEF BucketFor, SameMonth
  <2> HIDE DEF s, r
  <2>2. /\ MonthOf \in [Sessions -> Nat]
        /\ \A x, y \in Sessions : x.open <= y.open => MonthOf[x] <= MonthOf[y]
    BY CalendarAssumption
  <2>3. \/ {x \in Sessions : MonthOf[x] = MonthOf[s]} = {x \in Sessions : MonthOf[x] = MonthOf[r]}
        \/ Spanning({x \in Sessions : MonthOf[x] = MonthOf[s]}).end
             <= Spanning({x \in Sessions : MonthOf[x] = MonthOf[r]}).start
    BY <1>1, <2>2, SpanningPartition
  <2> QED
    BY <2>1, <2>3
<1>5. CASE interval.unit = "minute"
  <2>1. interval.length \in Nat \ {0}
    BY <1>5, HistoryAssumption
  <2>2. /\ BucketFor(p, interval) = Intraday(p, interval.length)
        /\ BucketFor(q, interval) = Intraday(q, interval.length)
    BY <1>5 DEF BucketFor
  <2> QED
    BY <2>1, <2>2, IntradayPartition
<1>6. interval.unit \in {"day", "week", "month", "minute"}
  BY HistoryAssumption
<1> QED
  BY <1>2, <1>3, <1>4, <1>5, <1>6

--------------------------------------------------------------------------------
(* The ticks.                                                              *)

\* Ticks have times, which do not descend.
TicksInv ==
    /\ now \in Nat
    /\ ticks \in Seq([at : Nat, price : Prices])
    /\ \A i, j \in DOMAIN ticks : i <= j => Time(i) <= Time(j)
    /\ \A i \in DOMAIN ticks : Time(i) <= now

LEMMA TickTypes ==
    ASSUME TicksInv
    PROVE  \A i \in DOMAIN ticks : Time(i) \in Nat /\ ticks[i].price \in Nat
<1> SUFFICES ASSUME NEW i \in DOMAIN ticks PROVE Time(i) \in Nat /\ ticks[i].price \in Nat
  OBVIOUS
<1> DEFINE T == [at : Nat, price : Prices]
<1>1. ticks \in Seq(T)
  BY DEF TicksInv
<1>2. ticks[i] \in T
  <2> HIDE DEF T
  <2> QED
    BY <1>1
<1>3. ticks[i].at \in Nat /\ ticks[i].price \in Nat
  BY <1>2, HistoryAssumption
<1> QED
  BY <1>3 DEF Time

LEMMA TicksStay == Spec => []TicksInv
<1>1. Init => TicksInv
  BY HistoryAssumption DEF Init, TicksInv
<1>2. TicksInv /\ [Next]_vars => TicksInv'
  <2> SUFFICES ASSUME TicksInv, [Next]_vars PROVE TicksInv'
    OBVIOUS
  <2>1. CASE Wait
    <3>1. now' \in Nat /\ now < now' /\ ticks' = ticks
      BY <2>1, HistoryAssumption DEF Wait
    <3>2. \A i \in DOMAIN ticks : Time(i) \in Nat
      BY TickTypes
    <3>3. \A i \in DOMAIN ticks : Time(i) <= now'
      BY <3>1, <3>2 DEF TicksInv
    <3>4. \A i : Time(i)' = Time(i)
      BY <3>1 DEF Time
    <3>5. \A i \in DOMAIN ticks' : Time(i)' <= now'
      BY <3>1, <3>3, <3>4
    <3>6. \A i, j \in DOMAIN ticks' : i <= j => Time(i)' <= Time(j)'
      BY <3>1, <3>4 DEF TicksInv
    <3>7. ticks' \in Seq([at : Nat, price : Prices])
      BY <3>1 DEF TicksInv
    <3> QED
      BY <3>1, <3>5, <3>6, <3>7 DEF TicksInv
  <2>2. ASSUME NEW price \in Prices, Tick(price) PROVE TicksInv'
    <3> DEFINE tick == [at |-> now, price |-> price]
    <3>1. ticks' = Append(ticks, tick) /\ now' = now
      BY <2>2 DEF Tick
    <3>2. ticks' \in Seq([at : Nat, price : Prices])
      BY <3>1 DEF TicksInv
    <3>3. /\ Len(ticks) \in Nat /\ DOMAIN ticks = 1..Len(ticks)
          /\ DOMAIN ticks' = 1..Len(ticks) + 1
          /\ \A i \in DOMAIN ticks : ticks'[i] = ticks[i]
          /\ ticks'[Len(ticks) + 1].at = now
      BY <3>1 DEF TicksInv
    <3> QED
      BY <3>1, <3>2, <3>3 DEF TicksInv, Time
  <2>3. CASE UNCHANGED <<now, ticks>>
    BY <2>3 DEF TicksInv, Time
  <2>4. Next => Wait \/ (\E price \in Prices : Tick(price)) \/ UNCHANGED <<now, ticks>>
    BY DEF Next, Request, GetCandles, ChartTicks, RefuseProvider
  <2> QED
    BY <2>1, <2>2, <2>3, <2>4 DEF vars
<1> QED
  BY <1>1, <1>2, PTL DEF Spec

\* Every tick in session has one bar, of whole sessions or within one, and the
\* bars of two ticks do not overlap: of whatever length the sessions are.
THEOREM TicksHaveOneBar == Spec => []BarsPartitionTime
<1>1. TicksInv => BarsPartitionTime
  <2> SUFFICES ASSUME TicksInv PROVE BarsPartitionTime
    OBVIOUS
  <2>1. ASSUME NEW interval \in Intervals, NEW i \in DOMAIN ticks, NEW j \in DOMAIN ticks,
               BucketAt(i, interval) # NoBucket, BucketAt(j, interval) # NoBucket,
               Time(i) <= Time(j)
        PROVE  LET b == BucketAt(i, interval)
                   c == BucketAt(j, interval)
               IN  /\ b.start <= Time(i) /\ Time(i) < b.end
                   /\ b = c \/ b.end <= c.start
                   /\ \E s, r \in Sessions :
                        /\ s.open <= b.start /\ b.end <= r.close
                        /\ interval.unit \in {"minute", "day"} => s = r
    <3>1. Time(i) \in Nat /\ Time(j) \in Nat
      BY TickTypes
    <3>2. IsOpen(Time(i)) /\ IsOpen(Time(j))
      BY <2>1 DEF BucketAt, BucketFor
    <3> DEFINE b == BucketAt(i, interval)
               c == BucketAt(j, interval)
    <3>3. /\ b.start <= Time(i) /\ Time(i) < b.end
          /\ \E s, r \in Sessions :
               /\ s.open <= b.start /\ b.end <= r.close
               /\ interval.unit \in {"minute", "day"} => s = r
      BY <3>1, <3>2, BucketIsInside DEF BucketAt
    <3>4. b = c \/ b.end <= c.start
      BY <2>1, <3>1, <3>2, BucketsPartition DEF BucketAt
    <3> QED
      BY <3>3, <3>4
  <2> QED
    BY <2>1 DEF BarsPartitionTime
<1> QED
  BY <1>1, TicksStay, PTL

--------------------------------------------------------------------------------
(* Bars made from ticks.                                                   *)

LEMMA TickBuckets ==
    ASSUME TicksInv, NEW interval \in Intervals
    PROVE  /\ \A i \in DOMAIN ticks : BucketAt(i, interval) # NoBucket =>
                /\ BucketAt(i, interval) \in Bar
                /\ BucketAt(i, interval).start <= Time(i) /\ Time(i) < BucketAt(i, interval).end
           /\ \A i, j \in DOMAIN ticks :
                i <= j /\ BucketAt(i, interval) # NoBucket /\ BucketAt(j, interval) # NoBucket =>
                  \/ BucketAt(i, interval) = BucketAt(j, interval)
                  \/ BucketAt(i, interval).end <= BucketAt(j, interval).start
<1>1. \A i \in DOMAIN ticks : BucketAt(i, interval) # NoBucket => Time(i) \in Nat /\ IsOpen(Time(i))
  BY TickTypes DEF BucketAt, BucketFor
<1>2. \A i, j \in DOMAIN ticks : i <= j => Time(i) <= Time(j)
  BY DEF TicksInv
<1> QED
  BY <1>1, <1>2, BucketIsInside, BucketsPartition DEF BucketAt

ActiveBar == [start : Nat, end : Nat, ticks : Seq(Nat)]
Maybe == {None} \cup ActiveBar

\* What an engine fed with the ticks of used up to n is left with.
Holds(a, used, interval, n) ==
    IF a = None THEN \A i \in used \cap 1..n : BucketAt(i, interval) = NoBucket
    ELSE /\ \E i \in used \cap 1..n : BucketAt(i, interval) = [start |-> a.start, end |-> a.end]
         /\ \A i \in used \cap 1..n :
              BucketAt(i, interval) # NoBucket => BucketAt(i, interval).start <= a.start
         /\ ToSet(a.ticks) = {i \in used \cap 1..n :
                                BucketAt(i, interval) = [start |-> a.start, end |-> a.end]}

LEMMA FeedHolds ==
    ASSUME TicksInv, NEW interval \in Intervals, NEW used, NEW n \in DOMAIN ticks, n \in used,
           NEW a \in Maybe, Holds(a, used, interval, n - 1)
    PROVE  /\ Feed(a, n, interval) \in Maybe
           /\ Holds(Feed(a, n, interval), used, interval, n)
<1> DEFINE b == BucketAt(n, interval)
           B(i) == BucketAt(i, interval)
<1>1. /\ n \in Nat \ {0} /\ DOMAIN ticks = 1..Len(ticks) /\ Len(ticks) \in Nat
      /\ 1..n - 1 \subseteq DOMAIN ticks /\ 1..n = (1..n - 1) \cup {n}
  BY DEF TicksInv
<1>2. /\ \A i \in 1..n : B(i) # NoBucket => B(i) \in Bar
      /\ \A i \in 1..n : B(i) # NoBucket /\ b # NoBucket => B(i) = b \/ B(i).end <= b.start
      /\ \A i \in 1..n : B(i) # NoBucket => B(i).start < B(i).end
  <2>1. \A i \in DOMAIN ticks : B(i) # NoBucket =>
          /\ B(i) \in Bar
          /\ B(i).start <= Time(i) /\ Time(i) < B(i).end
    BY TickBuckets
  <2>2. \A i \in DOMAIN ticks : Time(i) \in Nat
    BY TickTypes
  <2>3. \A i, j \in DOMAIN ticks : i <= j /\ B(i) # NoBucket /\ B(j) # NoBucket =>
          B(i) = B(j) \/ B(i).end <= B(j).start
    BY TickBuckets
  <2>4. \A i \in DOMAIN ticks : B(i) # NoBucket => B(i).start < B(i).end
    <3> SUFFICES ASSUME NEW i \in DOMAIN ticks, B(i) # NoBucket PROVE B(i).start < B(i).end
      OBVIOUS
    <3>1. B(i).start \in Nat /\ B(i).end \in Nat
      BY <2>1 DEF Bar
    <3> HIDE DEF B
    <3> QED
      BY <2>1, <2>2, <3>1
  <2>5. \A i \in 1..n : i \in DOMAIN ticks /\ i <= n
    BY <1>1
  <2> QED
    BY <2>1, <2>3, <2>4, <2>5
<1>3. Feed(a, n, interval) = CASE b = NoBucket -> a
                               [] b # NoBucket /\ (a = None \/ b.start > a.start) ->
                                    [start |-> b.start, end |-> b.end, ticks |-> <<n>>]
                               [] OTHER -> [a EXCEPT !.ticks = Append(@, n)]
  BY DEF Feed, BucketAt
<1>4. \A i : B(i) = BucketAt(i, interval)
  OBVIOUS
<1> HIDE DEF B
<1>5. b = B(n)
  BY DEF B
<1> HIDE DEF b
<1>6. CASE b = NoBucket
  <2>1. Feed(a, n, interval) = a
    BY <1>3, <1>6
  <2>2. used \cap 1..n = (used \cap 1..n - 1) \cup {n}
    BY <1>1
  <2>3. CASE a = None
    BY <1>4, <1>5, <1>6, <2>1, <2>2, <2>3 DEF Holds, Maybe
  <2>4. CASE a # None
    <3>1. /\ \E i \in used \cap 1..n - 1 : B(i) = [start |-> a.start, end |-> a.end]
          /\ \A i \in used \cap 1..n - 1 : B(i) # NoBucket => B(i).start <= a.start
          /\ ToSet(a.ticks) = {i \in used \cap 1..n - 1 : B(i) = [start |-> a.start, end |-> a.end]}
      BY <1>4, <2>4 DEF Holds
    <3>2. B(n) # [start |-> a.start, end |-> a.end]
      <4>1. a.start \in Nat /\ a.end \in Nat
        BY <2>4 DEF Maybe, ActiveBar
      <4> QED
        BY <1>5, <1>6, <4>1, CalendarAssumption
    <3>3. /\ \E i \in used \cap 1..n : B(i) = [start |-> a.start, end |-> a.end]
          /\ \A i \in used \cap 1..n : B(i) # NoBucket => B(i).start <= a.start
          /\ ToSet(a.ticks) = {i \in used \cap 1..n : B(i) = [start |-> a.start, end |-> a.end]}
      BY <1>5, <1>6, <2>2, <3>1, <3>2
    <3>4. Holds(a, used, interval, n)
      BY <1>4, <2>4, <3>3 DEF Holds
    <3> QED
      BY <2>1, <3>4
  <2> QED
    BY <2>3, <2>4
<1>7. CASE b # NoBucket /\ (a = None \/ b.start > a.start)
  <2> DEFINE c == [start |-> b.start, end |-> b.end, ticks |-> <<n>>]
  <2>1. Feed(a, n, interval) = c
    BY <1>3, <1>7
  <2>2. b.start \in Nat /\ b.end \in Nat /\ b = [start |-> b.start, end |-> b.end]
    <3>1. b \in Bar
      BY <1>1, <1>2, <1>5, <1>7
    <3> QED
      BY <3>1 DEF Bar
  <2>3. c \in ActiveBar /\ c # None
    <3>1. c \in ActiveBar
      BY <1>1, <2>2 DEF ActiveBar
    <3> QED
      BY <3>1, HistoryAssumption DEF ActiveBar
  <2>4. \A i \in used \cap 1..n - 1 : B(i) # NoBucket => B(i) # b /\ B(i).start <= b.start
    <3> SUFFICES ASSUME NEW i \in used \cap 1..n - 1, B(i) # NoBucket
                 PROVE  B(i) # b /\ B(i).start <= b.start
      OBVIOUS
    <3>1. a # None
      BY <1>4 DEF Holds
    <3>2. B(i).start <= a.start
      BY <1>4, <3>1 DEF Holds
    <3>3. a.start \in Nat /\ B(i).start \in Nat
      <4>1. a \in ActiveBar /\ B(i) \in Bar
        BY <1>1, <1>2, <3>1 DEF Maybe
      <4> QED
        BY <4>1 DEF ActiveBar, Bar
    <3> QED
      BY <1>7, <2>2, <3>1, <3>2, <3>3
  <2>5. \A i \in used \cap 1..n : i = n \/ i \in used \cap 1..n - 1
    BY <1>1
  <2>6. \A i \in used \cap 1..n - 1 : B(i) # b
    BY <1>7, <2>4
  <2>7. ToSet(<<n>>) = {n}
    BY DEF ToSet
  <2>8. /\ \E i \in used \cap 1..n : B(i) = b
        /\ \A i \in used \cap 1..n : B(i) # NoBucket => B(i).start <= b.start
        /\ {n} = {i \in used \cap 1..n : B(i) = b}
    BY <1>1, <1>5, <2>2, <2>4, <2>5, <2>6
  <2>9. Holds(c, used, interval, n)
    <3>1. c.start = b.start /\ c.end = b.end /\ c.ticks = <<n>>
      OBVIOUS
    <3> HIDE DEF c
    <3> QED
      BY <1>4, <2>2, <2>3, <2>7, <2>8, <3>1 DEF Holds
  <2> HIDE DEF c
  <2> QED
    BY <2>1, <2>3, <2>9 DEF Maybe
<1>8. CASE b # NoBucket /\ a # None /\ ~(b.start > a.start)
  <2> DEFINE c == [a EXCEPT !.ticks = Append(@, n)]
  <2>1. Feed(a, n, interval) = c
    BY <1>3, <1>8
  <2>2. /\ a \in ActiveBar /\ a.start \in Nat /\ a.end \in Nat /\ a.ticks \in Seq(Nat)
        /\ b \in Bar /\ b.start \in Nat /\ b.end \in Nat
    <3>1. a \in ActiveBar /\ b \in Bar
      BY <1>1, <1>2, <1>5, <1>8 DEF Maybe
    <3> QED
      BY <3>1 DEF ActiveBar, Bar
  <2>3. /\ c \in ActiveBar /\ c # None
        /\ c.start = a.start /\ c.end = a.end /\ c.ticks = Append(a.ticks, n)
    <3>1. Append(a.ticks, n) \in Seq(Nat)
      BY <1>1, <2>2
    <3>2. /\ c \in ActiveBar
          /\ c.start = a.start /\ c.end = a.end /\ c.ticks = Append(a.ticks, n)
      BY <2>2, <3>1 DEF ActiveBar
    <3> HIDE DEF c
    <3> QED
      BY <3>2, HistoryAssumption DEF ActiveBar
  <2> HIDE DEF c
  <2>4. /\ \E i \in used \cap 1..n - 1 : B(i) = [start |-> a.start, end |-> a.end]
        /\ \A i \in used \cap 1..n - 1 : B(i) # NoBucket => B(i).start <= a.start
        /\ ToSet(a.ticks) = {i \in used \cap 1..n - 1 : B(i) = [start |-> a.start, end |-> a.end]}
    BY <1>4, <1>8 DEF Holds
  <2>5. b = [start |-> a.start, end |-> a.end]
    <3>1. PICK i \in used \cap 1..n - 1 : B(i) = [start |-> a.start, end |-> a.end]
      BY <2>4
    <3>2. B(i) # NoBucket /\ B(i).start = a.start /\ B(i).end = a.end
      BY <2>2, <3>1, CalendarAssumption
    <3>3. i \in 1..n
      BY <1>1
    <3>4. B(i).start < B(i).end /\ (B(i) = b \/ B(i).end <= b.start)
      BY <1>2, <1>8, <3>2, <3>3
    <3>5. ~(B(i).end <= b.start)
      BY <1>8, <2>2, <3>2, <3>4
    <3> QED
      BY <3>1, <3>4, <3>5
  <2>6. ToSet(c.ticks) = ToSet(a.ticks) \cup {n}
    <3>1. /\ Len(Append(a.ticks, n)) = Len(a.ticks) + 1 /\ Len(a.ticks) \in Nat
          /\ Append(a.ticks, n)[Len(a.ticks) + 1] = n
          /\ \A k \in 1..Len(a.ticks) : Append(a.ticks, n)[k] = a.ticks[k]
          /\ DOMAIN Append(a.ticks, n) = 1..Len(a.ticks) + 1 /\ DOMAIN a.ticks = 1..Len(a.ticks)
      BY <2>2
    <3> QED
      BY <2>3, <3>1 DEF ToSet
  <2>7. /\ \E i \in used \cap 1..n : B(i) = [start |-> c.start, end |-> c.end]
        /\ \A i \in used \cap 1..n : B(i) # NoBucket => B(i).start <= c.start
        /\ ToSet(c.ticks) = {i \in used \cap 1..n : B(i) = [start |-> c.start, end |-> c.end]}
    <3>1. b.start <= a.start
      BY <1>8, <2>2
    <3>2. used \cap 1..n = (used \cap 1..n - 1) \cup {n}
      BY <1>1
    <3> QED
      BY <1>5, <2>3, <2>4, <2>5, <2>6, <3>1, <3>2
  <2>8. Holds(c, used, interval, n)
    BY <1>4, <2>3, <2>7 DEF Holds
  <2> QED
    BY <2>1, <2>3, <2>8 DEF Maybe
<1> QED
  BY <1>6, <1>7, <1>8

LEMMA FeedTypes ==
    ASSUME TicksInv, NEW interval \in Intervals, NEW n \in DOMAIN ticks, NEW a \in Maybe
    PROVE  Feed(a, n, interval) \in Maybe
<1> DEFINE b == BucketAt(n, interval)
<1>1. Feed(a, n, interval) = CASE b = NoBucket -> a
                               [] b # NoBucket /\ (a = None \/ b.start > a.start) ->
                                    [start |-> b.start, end |-> b.end, ticks |-> <<n>>]
                               [] OTHER -> [a EXCEPT !.ticks = Append(@, n)]
  BY DEF Feed, BucketAt
<1>2. n \in Nat /\ (b # NoBucket => b \in Bar)
  BY TickBuckets DEF TicksInv
<1> HIDE DEF b
<1>3. CASE b = NoBucket
  BY <1>1, <1>3
<1>4. CASE b # NoBucket /\ (a = None \/ b.start > a.start)
  BY <1>1, <1>2, <1>4 DEF Bar, Maybe, ActiveBar
<1>5. CASE b # NoBucket /\ a # None /\ ~(b.start > a.start)
  <2>1. a \in [start : Nat, end : Nat, ticks : Seq(Nat)]
    BY <1>5 DEF Maybe, ActiveBar
  <2>2. Append(a.ticks, n) \in Seq(Nat)
    BY <1>2, <2>1
  <2>3. [a EXCEPT !.ticks = Append(@, n)] \in ActiveBar
    BY <2>1, <2>2 DEF ActiveBar
  <2> QED
    BY <1>1, <1>5, <2>3 DEF Maybe
<1> QED
  BY <1>3, <1>4, <1>5

\* The engine that is fed with the ticks of used holds all those of its bar.
LEMMA ActiveHolds ==
    ASSUME TicksInv, NEW interval \in Intervals, NEW used
    PROVE  /\ ActiveAfter(used, interval) \in Maybe
           /\ Holds(ActiveAfter(used, interval), used, interval, Len(ticks))
<1> DEFINE n == Len(ticks)
           Fed(i, a) == IF i \in used THEN Feed(a, i, interval) ELSE a
           body(h) == [i \in 0..n |->
                         IF i = 0 THEN None
                         ELSE IF i \in used THEN Feed(h[i - 1], i, interval) ELSE h[i - 1]]
           active == CHOOSE h : h = body(h)
           step == [i \in 1..n |-> [a \in Maybe |-> Fed(i, a)]]
<1>1. n \in Nat /\ DOMAIN ticks = 1..n
  BY DEF TicksInv
<1>2. ActiveAfter(used, interval) = active[n]
  BY DEF ActiveAfter
<1>3. \A h : body(h) = [i \in 0..n |-> IF i = 0 THEN None ELSE Fed(i, h[i - 1])]
  OBVIOUS
<1> HIDE DEF n, body
<1>4. None \in Maybe /\ \A i \in 1..n : \A a \in Maybe : Fed(i, a) \in Maybe
  BY <1>1, FeedTypes DEF Maybe
<1> HIDE DEF Fed
<1>5. \E h : h = body(h)
  <2> HIDE DEF step, active
  <2>1. \A i \in 1..n : \A a \in Maybe : step[i][a] = Fed(i, a)
    BY DEF step
  <2>2. PICK f : Iterates(f, n, Maybe, None, step)
    <3>1. \A i \in 1..n : \A a \in Maybe : step[i][a] \in Maybe
      BY <1>4, <2>1
    <3> QED
      BY <1>1, <1>4, <3>1, Recursion
  <2>3. ASSUME NEW i \in 0..n PROVE f[i] = IF i = 0 THEN None ELSE Fed(i, f[i - 1])
    <3>1. CASE i = 0
      BY <2>2, <3>1 DEF Iterates
    <3>2. CASE i \in 1..n
      <4>1. i # 0 /\ i - 1 \in 0..n
        BY <1>1, <3>2
      <4>2. f[i - 1] \in Maybe
        BY <2>2, <4>1 DEF Iterates
      <4>3. f[i] = step[i][f[i - 1]]
        BY <2>2, <3>2 DEF Iterates
      <4> QED
        BY <2>1, <3>2, <4>1, <4>2, <4>3
    <3> QED
      BY <1>1, <3>1, <3>2
  <2>4. f = [i \in 0..n |-> f[i]]
    BY <2>2 DEF Iterates
  <2>5. f = [i \in 0..n |-> IF i = 0 THEN None ELSE Fed(i, f[i - 1])]
    BY <2>3, <2>4
  <2> QED
    BY <1>3, <2>5
<1>6. active = [i \in 0..n |-> IF i = 0 THEN None ELSE Fed(i, active[i - 1])]
  BY <1>3, <1>5
<1> HIDE DEF active
<1>7. active[0] = None
  BY <1>1, <1>6
<1>8. ASSUME NEW i \in 1..n PROVE active[i] = Fed(i, active[i - 1])
  <2>1. i \in 0..n /\ i # 0
    BY <1>1
  <2> QED
    BY <1>6, <2>1
<1> DEFINE G == {i \in 0..n : active[i] \in Maybe /\ Holds(active[i], used, interval, i)}
<1>9. 0 \in G
  <2>1. 1..0 = {} /\ 0 \in 0..n
    BY <1>1
  <2>2. Holds(None, used, interval, 0)
    BY <2>1 DEF Holds
  <2> QED
    BY <1>4, <1>7, <2>1, <2>2
<1>10. \A i \in 1..n : i - 1 \in G => i \in G
  <2> SUFFICES ASSUME NEW i \in 1..n, i - 1 \in G PROVE i \in G
    OBVIOUS
  <2>1. /\ i \in 0..n /\ i \in DOMAIN ticks
        /\ active[i - 1] \in Maybe /\ Holds(active[i - 1], used, interval, i - 1)
    BY <1>1
  <2>2. CASE i \in used
    <3>1. active[i] = Feed(active[i - 1], i, interval)
      BY <1>8, <2>2 DEF Fed
    <3>2. active[i] \in Maybe /\ Holds(active[i], used, interval, i)
      BY <2>1, <2>2, <3>1, FeedHolds
    <3> QED
      BY <2>1, <3>2
  <2>3. CASE i \notin used
    <3>1. active[i] = active[i - 1]
      BY <1>8, <2>3 DEF Fed
    <3>2. used \cap 1..i = used \cap 1..i - 1
      BY <1>1, <2>3
    <3>3. Holds(active[i], used, interval, i)
      BY <2>1, <3>1, <3>2 DEF Holds
    <3> QED
      BY <2>1, <3>1, <3>3
  <2> QED
    BY <2>2, <2>3
<1>11. n \in G
  <2> HIDE DEF G
  <2>1. 0..n \subseteq G
    BY <1>1, <1>9, <1>10, AllNumbers
  <2> QED
    BY <1>1, <2>1
<1> QED
  BY <1>2, <1>11 DEF n

\* A bar made of the ticks within a request is within it, and has all its ticks
\* if none of them was dropped.
LEMMA AggregateIsWhole ==
    ASSUME TicksInv, NEW interval \in Intervals, NEW start \in Nat, NEW end \in Nat
    PROVE  \/ Aggregate(start, end, interval) = <<>>
           \/ \E a \in ActiveBar :
                /\ Aggregate(start, end, interval) = <<a>>
                /\ start <= a.start /\ a.end <= end
                /\ LET own == {i \in DOMAIN ticks :
                                 BucketAt(i, interval) = [start |-> a.start, end |-> a.end]}
                   IN  own \subseteq Stored => ToSet(a.ticks) = own
<1> DEFINE used == {i \in ListTicks(start, end) : Time(i) < end}
           a == ActiveAfter(used, interval)
<1>1. Aggregate(start, end, interval) = IF a # None /\ InRange(a, start, end) THEN <<a>> ELSE <<>>
  BY DEF Aggregate
<1>2. a \in Maybe /\ Holds(a, used, interval, Len(ticks))
  BY ActiveHolds
<1>3. used \subseteq DOMAIN ticks /\ DOMAIN ticks = 1..Len(ticks)
  BY DEF ListTicks, Stored, TicksInv
<1>4. used = {i \in Stored : start <= Time(i) /\ Time(i) < end}
  <2>1. \A i \in Stored : Time(i) \in Nat
    BY TickTypes DEF Stored
  <2> QED
    BY <2>1 DEF ListTicks
<1> HIDE DEF used, a
<1>5. CASE a # None /\ InRange(a, start, end)
  <2> DEFINE own == {i \in DOMAIN ticks :
                       BucketAt(i, interval) = [start |-> a.start, end |-> a.end]}
  <2>1. a \in ActiveBar /\ a.start \in Nat /\ a.end \in Nat
    BY <1>2, <1>5 DEF Maybe, ActiveBar
  <2>2. start <= a.start /\ a.end <= end
    BY <1>5, <2>1 DEF InRange
  <2>3. ToSet(a.ticks) = {i \in used : BucketAt(i, interval) = [start |-> a.start, end |-> a.end]}
    <3>1. used \cap 1..Len(ticks) = used
      BY <1>3
    <3> QED
      BY <1>2, <1>5, <3>1 DEF Holds
  <2>4. ASSUME own \subseteq Stored, NEW i \in own PROVE i \in used
    <3>1. BucketAt(i, interval) # NoBucket /\ i \in DOMAIN ticks
      BY <2>1, CalendarAssumption
    <3>2. a.start <= Time(i) /\ Time(i) < a.end
      BY <3>1, TickBuckets
    <3>3. Time(i) \in Nat
      BY <3>1, TickTypes
    <3> QED
      BY <1>4, <2>1, <2>2, <2>4, <3>2, <3>3
  <2>5. own \subseteq Stored => ToSet(a.ticks) = own
    BY <1>3, <2>3, <2>4
  <2> QED
    BY <1>1, <1>5, <2>1, <2>2, <2>5
<1>6. CASE ~(a # None /\ InRange(a, start, end))
  BY <1>1, <1>6
<1> QED
  BY <1>5, <1>6

\* What is left of ordered bars of a provider lies within the request and is
\* ordered.
LEMMA ProviderBars ==
    ASSUME NEW provided \in ProviderAnswers, Ascending(provided), NEW start \in Nat, NEW end \in Nat
    PROVE  LET bars == FromProvider(provided, start, end) IN
           /\ \A k \in DOMAIN bars : start <= bars[k].start /\ bars[k].end <= end
           /\ \A k, l \in DOMAIN bars : k < l => bars[k].end <= bars[l].start
<1> DEFINE bars == FromProvider(provided, start, end)
           kept == {i \in DOMAIN provided : InRange(provided[i], start, end)}
<1>1. provided \in Seq(Bar)
  BY HistoryAssumption DEF Bar
<1>2. \A i \in DOMAIN provided : provided[i].start \in Nat /\ provided[i].end \in Nat
  <2> SUFFICES ASSUME NEW i \in DOMAIN provided
               PROVE  provided[i].start \in Nat /\ provided[i].end \in Nat
    OBVIOUS
  <2>1. provided[i] \in Bar
    BY <1>1
  <2> QED
    BY <2>1 DEF Bar
<1>3. bars \in Seq(Bar)
  BY <1>1, FilteredSelects DEF FromProvider
<1>4. PICK at \in [1..Len(bars) -> kept \cap DOMAIN provided] :
        /\ \A k \in DOMAIN at : bars[k] = provided[at[k]]
        /\ \A k, l \in DOMAIN at : k < l => at[k] < at[l]
  <2>1. PICK at : Selection(at, bars, provided, kept)
    BY <1>1, FilteredSelects DEF FromProvider
  <2> QED
    BY <2>1 DEF Selection
<1>5. DOMAIN bars = 1..Len(bars)
  BY <1>3
<1> HIDE DEF bars
<1>6. ASSUME NEW k \in DOMAIN bars PROVE start <= bars[k].start /\ bars[k].end <= end
  <2>1. at[k] \in kept /\ bars[k] = provided[at[k]]
    BY <1>4, <1>5
  <2>2. InRange(provided[at[k]], start, end) /\ at[k] \in DOMAIN provided
    BY <2>1
  <2> QED
    BY <1>2, <2>1, <2>2 DEF InRange
<1>7. ASSUME NEW k \in DOMAIN bars, NEW l \in DOMAIN bars, k < l
      PROVE  bars[k].end <= bars[l].start
  <2>1. PICK i \in DOMAIN provided, j \in DOMAIN provided :
          /\ i = at[k] /\ j = at[l] /\ i < j
          /\ bars[k] = provided[i] /\ bars[l] = provided[j]
    BY <1>4, <1>5, <1>7
  <2>2. provided[i].start <= provided[j].start
    BY <2>1 DEF Ascending
  <2>3. i \in Nat /\ j \in Nat
    BY <1>1
  <2>4. i # j
    BY <2>1, <2>3
  <2>5. /\ provided[j].start < provided[j].end
        /\ provided[i].end <= provided[j].start \/ provided[j].end <= provided[i].start
    BY <2>4, HistoryAssumption
  <2> QED
    BY <1>2, <2>1, <2>2, <2>5
<1> QED
  BY <1>6, <1>7 DEF bars

HistoryInv == TicksInv /\ AnswersAreWhole

\* A request for candles is answered with whole bars of its range, in order.
LEMMA CandlesAreWhole ==
    ASSUME HistoryInv, NEW start \in Bounds, NEW end \in Bounds,
           NEW interval \in Intervals, NEW provided \in ProviderAnswers,
           GetCandles(start, end, interval, provided)
    PROVE  AnswersAreWhole'
<1> DEFINE bars == FromProvider(provided, start, end)
           made == Aggregate(start, end, interval)
<1>1. start \in Nat /\ end \in Nat
  BY HistoryAssumption
<1>2. ticks' = ticks /\ Ascending(provided)
  BY DEF GetCandles
<1>3. answer' = IF bars # <<>>
                  THEN [kind |-> "provider", start |-> start, end |-> end,
                        interval |-> interval, bars |-> bars]
                  ELSE [kind |-> "fallback", start |-> start, end |-> end,
                        interval |-> interval, bars |-> made]
  BY DEF GetCandles
<1>4. /\ \A k \in DOMAIN bars : start <= bars[k].start /\ bars[k].end <= end
      /\ \A k, l \in DOMAIN bars : k < l => bars[k].end <= bars[l].start
  BY <1>1, <1>2, ProviderBars
<1>5. \/ made = <<>>
      \/ \E a \in ActiveBar :
           /\ made = <<a>> /\ start <= a.start /\ a.end <= end
           /\ LET own == {i \in DOMAIN ticks :
                            BucketAt(i, interval) = [start |-> a.start, end |-> a.end]}
              IN  own \subseteq Stored => ToSet(a.ticks) = own
  BY <1>1, AggregateIsWhole DEF HistoryInv
<1> HIDE DEF bars, made
<1>6. CASE bars # <<>>
  <2>1. /\ answer'.kind = "provider" /\ answer'.start = start /\ answer'.end = end
        /\ answer'.bars = bars
    BY <1>3, <1>6
  <2> QED
    BY <1>4, <2>1 DEF AnswersAreWhole, AnswersStayInRange, PastBarsAreWhole, Answered
<1>7. CASE bars = <<>>
  <2>1. /\ answer'.kind = "fallback" /\ answer'.start = start /\ answer'.end = end
        /\ answer'.interval = interval /\ answer'.bars = made
    BY <1>3, <1>7
  <2>2. CASE made = <<>>
    <3>1. DOMAIN made = {}
      BY <2>2
    <3> QED
      BY <2>1, <3>1 DEF AnswersAreWhole, AnswersStayInRange, PastBarsAreWhole, Answered
  <2>3. CASE made # <<>>
    <3>1. PICK a \in ActiveBar :
            /\ made = <<a>> /\ start <= a.start /\ a.end <= end
            /\ LET own == {i \in DOMAIN ticks :
                             BucketAt(i, interval) = [start |-> a.start, end |-> a.end]}
               IN  own \subseteq Stored => ToSet(a.ticks) = own
      BY <1>5, <2>3
    <3>2. DOMAIN made = {1} /\ made[1] = a
      BY <3>1
    <3>3. AnswersStayInRange'
      BY <2>1, <3>1, <3>2 DEF AnswersStayInRange
    <3>4. Stored' = Stored /\ \A i : BucketAt(i, interval)' = BucketAt(i, interval)
      BY <1>2 DEF Stored, BucketAt, Time
    <3>5. TicksOf(a)' = {i \in DOMAIN ticks :
                           BucketAt(i, interval) = [start |-> a.start, end |-> a.end]}
      BY <1>2, <2>1, <3>4 DEF TicksOf
    <3>6. PastBarsAreWhole'
      BY <2>1, <3>1, <3>2, <3>4, <3>5 DEF PastBarsAreWhole
    <3> QED
      BY <3>3, <3>6 DEF AnswersAreWhole
  <2> QED
    BY <2>2, <2>3
<1> QED
  BY <1>6, <1>7

\* No answer has a bar that is not wholly within its range, or two that overlap;
\* and a bar made from ticks has every tick of its minutes, for any schedule,
\* interval and size of the buffer, unless the buffer dropped one of them.
THEOREM CandlesAnswerTheRequest == Spec => []AnswersAreWhole
<1>1. Init => AnswersAreWhole
  BY DEF Init, AnswersAreWhole, AnswersStayInRange, PastBarsAreWhole, Answered
<1>2. TicksInv /\ AnswersAreWhole /\ [Next]_vars => AnswersAreWhole'
  <2> SUFFICES ASSUME TicksInv, AnswersAreWhole, [Next]_vars PROVE AnswersAreWhole'
    OBVIOUS
  <2>1. ASSUME answer' = None \/ answer'.kind \in {"error", "chart"} PROVE AnswersAreWhole'
    BY <2>1 DEF AnswersAreWhole, AnswersStayInRange, PastBarsAreWhole, Answered
  <2>2. CASE Wait /\ answer = None
    BY <2>1, <2>2 DEF Wait
  <2>3. ASSUME NEW price \in Prices, Tick(price), answer = None PROVE AnswersAreWhole'
    BY <2>1, <2>3 DEF Tick
  <2>4. ASSUME NEW provided \in ProviderAnswers, RefuseProvider(provided) PROVE AnswersAreWhole'
    BY <2>1, <2>4 DEF RefuseProvider
  <2>5. ASSUME NEW start \in Bounds, NEW end \in Bounds, NEW m \in Points, ChartTicks(start, end, m)
        PROVE  AnswersAreWhole'
    BY <2>1, <2>5 DEF ChartTicks
  <2>6. ASSUME NEW start \in Bounds, NEW end \in Bounds, NEW interval \in Intervals,
               NEW provided \in ProviderAnswers, GetCandles(start, end, interval, provided)
        PROVE  AnswersAreWhole'
    BY <2>6, CandlesAreWhole DEF HistoryInv
  <2>7. CASE UNCHANGED vars
    BY <2>7 DEF vars, AnswersAreWhole, AnswersStayInRange, PastBarsAreWhole, Answered, TicksOf,
                BucketAt, Time, Stored
  <2> QED
    BY <2>2, <2>3, <2>4, <2>5, <2>6, <2>7 DEF Next, Request
<1> QED
  BY <1>1, <1>2, TicksStay, PTL DEF Spec

--------------------------------------------------------------------------------
(* Charts.                                                                 *)

LEMMA SumsAreIntegers ==
    ASSUME NEW D, NEW f \in [D -> Int], NEW first \in Int, NEW last \in Int,
           first <= last, first..last \subseteq D
    PROVE  SumOver(f, first, last) \in Int
<1> DEFINE low == first - 1
           body(h) == [i \in low..last |-> IF i < first THEN 0 ELSE h[i - 1] + f[i]]
           sum == CHOOSE h : h = body(h)
           step == [i \in first..last |-> [x \in Int |-> x + f[i]]]
<1>1. SumOver(f, first, last) = sum[last]
  BY DEF SumOver
<1>2. low \in Int /\ low <= last /\ low + 1 = first
  OBVIOUS
<1> HIDE DEF low
<1>3. ASSUME NEW i \in low + 1..last, NEW x \in Int
      PROVE  step[i][x] = x + f[i] /\ x + f[i] \in Int
  <2>1. i \in first..last /\ i \in D
    BY <1>2
  <2>2. f[i] \in Int
    BY <2>1
  <2> QED
    BY <2>1, <2>2
<1>4. \E h : h = body(h)
  <2> HIDE DEF step, sum
  <2>1. PICK h : IteratesFrom(h, low, last, Int, 0, step)
    <3> DEFINE S == Int
    <3>1. (\A i \in low + 1..last : \A x \in S : step[i][x] \in S) /\ 0 \in S
      BY <1>3
    <3> HIDE DEF S
    <3>2. \E h : IteratesFrom(h, low, last, S, 0, step)
      BY <1>2, <3>1, RecursionFrom
    <3> QED
      BY <3>2 DEF S
  <2>2. ASSUME NEW i \in low..last PROVE h[i] = IF i < first THEN 0 ELSE h[i - 1] + f[i]
    <3>1. CASE i = low
      BY <1>2, <2>1, <3>1 DEF IteratesFrom
    <3>2. CASE i \in low + 1..last
      <4>1. ~(i < first) /\ i - 1 \in low..last
        BY <1>2, <3>2
      <4>2. h[i - 1] \in Int
        BY <2>1, <4>1 DEF IteratesFrom
      <4>3. h[i] = step[i][h[i - 1]]
        BY <2>1, <3>2 DEF IteratesFrom
      <4> QED
        BY <1>3, <3>2, <4>1, <4>2, <4>3
    <3> QED
      BY <1>2, <3>1, <3>2
  <2>3. h = [i \in low..last |-> h[i]]
    BY <2>1 DEF IteratesFrom
  <2> QED
    BY <2>2, <2>3
<1>5. sum = body(sum)
  BY <1>4
<1> HIDE DEF sum
<1> DEFINE G == {i \in low..last : sum[i] \in Int}
<1>6. low \in G
  BY <1>2, <1>5
<1>7. \A i \in low + 1..last : i - 1 \in G => i \in G
  <2> SUFFICES ASSUME NEW i \in low + 1..last, i - 1 \in G PROVE i \in G
    OBVIOUS
  <2>1. i \in low..last /\ i \in D /\ ~(i < first)
    BY <1>2
  <2>2. sum[i] = sum[i - 1] + f[i]
    BY <1>5, <2>1
  <2>3. sum[i - 1] \in Int /\ f[i] \in Int
    BY <2>1
  <2> QED
    BY <2>1, <2>2, <2>3
<1> HIDE DEF G
<1>8. low..last \subseteq G
  BY <1>2, <1>6, <1>7, NumbersFrom
<1>9. last \in G
  BY <1>2, <1>8
<1> QED
  BY <1>1, <1>9 DEF G

\* The buckets of n ticks, of which m are to be shown.
LEMMA EdgesAscend ==
    ASSUME NEW n \in Nat, NEW m \in Nat, m >= 3, m < n
    PROVE  /\ Edge(0, n, m) = 2 /\ Edge(m - 2, n, m) = n
           /\ \A k \in Nat : Edge(k, n, m) \in Nat /\ Edge(k, n, m) >= 2
           /\ \A k \in Nat : Edge(k, n, m) + 1 <= Edge(k + 1, n, m)
           /\ \A k, l \in Nat : k <= l => Edge(k, n, m) <= Edge(l, n, m)
<1> DEFINE w == n - 2
           d == m - 2
<1>1. w \in Nat /\ d \in Nat \ {0} /\ d < w /\ n = w + 2 /\ m = d + 2
  OBVIOUS
<1>2. \A k : Edge(k, n, m) = (k * w) \div d + 2
  BY DEF Edge
<1> HIDE DEF w, d
<1>3. ASSUME NEW k \in Nat
      PROVE  /\ k * w \in Nat /\ (k * w) \div d \in Nat
             /\ ((k * w) \div d) * d <= k * w /\ k * w < ((k * w) \div d) * d + d
  <2>1. k * w \in Nat
    BY <1>1, ProductMonotone
  <2> QED
    BY <1>1, <2>1, Division
<1>4. ASSUME NEW k \in Nat, NEW l \in Nat, k <= l PROVE Edge(k, n, m) <= Edge(l, n, m)
  <2>1. k * w <= l * w /\ k * w \in Nat /\ l * w \in Nat
    BY <1>1, <1>4, ProductMonotone
  <2>2. (k * w) \div d <= (l * w) \div d
    BY <1>1, <2>1, DivisionMonotone
  <2>3. (k * w) \div d \in Nat /\ (l * w) \div d \in Nat
    BY <1>3
  <2> QED
    BY <1>2, <2>2, <2>3
<1>5. ASSUME NEW k \in Nat PROVE Edge(k, n, m) + 1 <= Edge(k + 1, n, m)
  <2> DEFINE q == (k * w) \div d
  <2>1. (k + 1) * w = k * w + w
    BY <1>1, <1>3, SMTT(30)
  <2>2. q \in Nat /\ q * d \in Nat /\ q * d <= k * w /\ k * w \in Nat
    <3>1. k * w \in Nat
      BY <1>3
    <3> QED
      BY <1>1, <3>1, Division
  <2>3. q * d + d <= (k + 1) * w
    BY <1>1, <2>1, <2>2
  <2>4. (q * d + d) \div d = q + 1
    <3> HIDE DEF q
    <3>1. q * d + d = d * (q + 1)
      BY <1>1, <2>2, SMTT(30)
    <3> QED
      BY <1>1, <2>2, <3>1, ExactDivision
  <2>5. q + 1 <= ((k + 1) * w) \div d
    <3>1. q * d + d \in Nat /\ (k + 1) * w \in Nat
      BY <1>1, <2>1, <2>2
    <3> HIDE DEF q
    <3>2. (q * d + d) \div d <= ((k + 1) * w) \div d
      BY <1>1, <2>3, <3>1, DivisionMonotone
    <3> QED
      BY <2>4, <3>2
  <2>6. ((k + 1) * w) \div d \in Nat
    <3>1. k + 1 \in Nat
      OBVIOUS
    <3> QED
      BY <1>3, <3>1
  <2>7. Edge(k, n, m) = q + 2 /\ Edge(k + 1, n, m) = ((k + 1) * w) \div d + 2
    BY <1>2
  <2> HIDE DEF q
  <2> QED
    BY <2>2, <2>5, <2>6, <2>7
<1>6. Edge(0, n, m) = 2
  <2>1. 0 * w = 0 /\ 0 \div d = 0
    BY <1>1, SMTT(30)
  <2> QED
    BY <1>2, <2>1
<1>7. Edge(m - 2, n, m) = n
  <2>1. m - 2 = d /\ (d * w) \div d = w
    BY <1>1, ExactDivision
  <2> QED
    BY <1>1, <1>2, <2>1
<1>8. \A k \in Nat : Edge(k, n, m) \in Nat /\ Edge(k, n, m) >= 2
  BY <1>2, <1>3
<1> QED
  BY <1>4, <1>5, <1>6, <1>7, <1>8

LEMMA AreaIsInteger ==
    ASSUME TicksInv, NEW s \in Seq(DOMAIN ticks), NEW previous \in DOMAIN s, NEW i \in DOMAIN s,
           NEW first \in DOMAIN s, NEW last \in DOMAIN s, first <= last
    PROVE  Area(s, previous, i, first, last) \in Int
<1> DEFINE T == [k \in DOMAIN s |-> ticks[s[k]].at]
           P == [k \in DOMAIN s |-> ticks[s[k]].price]
           count == last - first + 1
           x == SumOver(T, first, last)
           y == SumOver(P, first, last)
<1>1. DOMAIN s = 1..Len(s) /\ Len(s) \in Nat /\ \A k \in DOMAIN s : s[k] \in DOMAIN ticks
  OBVIOUS
<1>2. T \in [DOMAIN s -> Int] /\ P \in [DOMAIN s -> Int]
  <2> SUFFICES ASSUME NEW k \in DOMAIN s PROVE ticks[s[k]].at \in Int /\ ticks[s[k]].price \in Int
    OBVIOUS
  <2>1. s[k] \in DOMAIN ticks
    BY <1>1
  <2> QED
    BY <2>1, TickTypes DEF Time
<1>3. Area(s, previous, i, first, last) =
        Distance((T[previous] * count - x) * (P[i] - P[previous])
                 - (T[previous] - T[i]) * (y - P[previous] * count))
  BY DEF Area
<1> HIDE DEF T, P, x, y
<1>4. first \in Int /\ last \in Int /\ first..last \subseteq DOMAIN s /\ count \in Int
  BY <1>1
<1>5. x \in Int /\ y \in Int
  BY <1>2, <1>4, SumsAreIntegers DEF x, y
<1>6. T[previous] \in Int /\ T[i] \in Int /\ P[previous] \in Int /\ P[i] \in Int
  BY <1>2
<1> HIDE DEF count
<1>7. \A a, b \in Int : a * b \in Int /\ a - b \in Int
  OBVIOUS
<1>8. (T[previous] * count - x) * (P[i] - P[previous])
        - (T[previous] - T[i]) * (y - P[previous] * count) \in Int
  BY <1>4, <1>5, <1>6, <1>7
<1>9. \A a \in Int : Distance(a) \in Int
  BY DEF Distance
<1> QED
  BY <1>3, <1>8, <1>9

\* Each bucket has a candidate, and one of them is picked.
LEMMA PickIsCandidate ==
    ASSUME TicksInv, NEW s \in Seq(DOMAIN ticks), NEW m \in Nat, m >= 3, m < Len(s),
           NEW previous \in 1..Len(s), NEW b \in 0..m - 3
    PROVE  /\ Pick(s, previous, b, m) \in Nat
           /\ Edge(b, Len(s), m) <= Pick(s, previous, b, m)
           /\ Pick(s, previous, b, m) + 1 <= Edge(b + 1, Len(s), m)
           /\ Edge(b + 1, Len(s), m) <= Len(s)
<1> DEFINE n == Len(s)
           e == Edge(b, n, m)
           f == Edge(b + 1, n, m)
           g == Edge(b + 2, n, m)
           first == Least(Edge(b + 1, n, m), n)
           end == Least(Edge(b + 2, n, m), n + 1) - 1
           last == IF end < first THEN first ELSE end
           C == Candidates(b, n, m)
           area == [i \in C |-> Area(s, previous, i, first, last)]
           best == {i \in DOMAIN area : \A j \in DOMAIN area : area[j] <= area[i]}
<1>1. n \in Nat /\ m < n /\ DOMAIN s = 1..n /\ previous \in DOMAIN s
  OBVIOUS
<1>2. Pick(s, previous, b, m) = CHOOSE i \in best : \A j \in best : i <= j
  BY DEF Pick
<1> HIDE DEF n
<1>3. e \in Nat /\ f \in Nat /\ g \in Nat /\ 2 <= e /\ e + 1 <= f /\ f + 1 <= g /\ f <= n
  <2>1. b \in Nat /\ b + 1 \in Nat /\ b + 2 \in Nat /\ (b + 1) + 1 = b + 2
        /\ m - 2 \in Nat /\ b + 1 <= m - 2
    OBVIOUS
  <2>2. Edge(b + 1, n, m) <= Edge(m - 2, n, m) /\ Edge(m - 2, n, m) = n
    BY <1>1, <2>1, EdgesAscend
  <2>3. e \in Nat /\ e >= 2 /\ f \in Nat /\ g \in Nat
    BY <1>1, <2>1, EdgesAscend
  <2>4. e + 1 <= f
    BY <1>1, <2>1, EdgesAscend
  <2>5. f + 1 <= g
    BY <1>1, <2>1, EdgesAscend
  <2> HIDE DEF e, f, g
  <2> QED
    BY <2>2, <2>3, <2>4, <2>5 DEF f
<1>4. C = e..f - 1
  <2>1. C = LET c == Least(e, n - 1)
                d == Least(f, n)
            IN  c..(IF d <= c THEN c ELSE d - 1)
    BY DEF Candidates
  <2> HIDE DEF C, e, f, g
  <2>2. Least(e, n - 1) = e /\ Least(f, n) = f
    BY <1>1, <1>3 DEF Least
  <2> QED
    BY <1>1, <1>3, <2>1, <2>2
<1>5. first \in DOMAIN s /\ last \in DOMAIN s /\ first <= last
  <2>1. first = Least(f, n) /\ end = Least(g, n + 1) - 1
    OBVIOUS
  <2> HIDE DEF e, f, g, first, end
  <2>2. first = f
    BY <1>1, <1>3, <2>1 DEF Least
  <2>3. end \in 0..n
    BY <1>1, <1>3, <2>1 DEF Least
  <2> QED
    BY <1>1, <1>3, <2>2, <2>3
<1>6. C \subseteq DOMAIN s /\ C \subseteq Nat /\ C # {} /\ IsFiniteSet(C)
  <2>1. C \subseteq DOMAIN s /\ C \subseteq Nat
    <3> HIDE DEF C, e, f, g
    <3> QED
      BY <1>1, <1>3, <1>4
  <2>2. e \in C
    <3> HIDE DEF C, e, f, g
    <3> QED
      BY <1>1, <1>3, <1>4
  <2>3. IsFiniteSet(e..f - 1)
    <3> HIDE DEF C, e, f, g
    <3> QED
      BY <1>3, FS_Interval
  <2> QED
    BY <1>4, <2>1, <2>2, <2>3
<1> HIDE DEF C, first, last, end
<1>7. ASSUME NEW i \in C PROVE area[i] \in Int
  <2>1. i \in DOMAIN s
    BY <1>6
  <2>2. Area(s, previous, i, first, last) \in Int
    BY <1>1, <1>5, <2>1, AreaIsInteger
  <2> QED
    BY <2>2
<1>8. DOMAIN area = C
  OBVIOUS
<1> HIDE DEF area
<1>9. \E i \in C : \A j \in C : area[j] <= area[i]
  <2> DEFINE A == {area[i] : i \in C}
  <2>1. A \subseteq Int /\ A # {}
    BY <1>6, <1>7
  <2>2. IsFiniteSet(A)
    <3>1. [i \in C |-> area[i]] \in Surjection(C, A)
      BY DEF Surjection
    <3> QED
      BY <1>6, <3>1, FS_Surjection
  <2>3. \E x \in A : \A y \in A : y <= x
    <3> HIDE DEF A
    <3> QED
      BY <2>1, <2>2, GreatestNumber
  <2> QED
    BY <2>3
<1>10. best \subseteq Nat /\ best # {}
  BY <1>6, <1>8, <1>9
<1>11. \E i \in best : \A j \in best : i <= j
  <2> HIDE DEF best
  <2> QED
    BY <1>10, LeastNumber
<1>12. Pick(s, previous, b, m) \in best
  BY <1>2, <1>11
<1>13. Pick(s, previous, b, m) \in e..f - 1
  BY <1>4, <1>8, <1>12
<1> HIDE DEF e, f
<1>14. /\ Pick(s, previous, b, m) \in Nat /\ e <= Pick(s, previous, b, m)
       /\ Pick(s, previous, b, m) + 1 <= f /\ f <= n
  BY <1>3, <1>13
<1> QED
  BY <1>14 DEF n, e, f

\* Positions of ticks to show: ascending, with both ends.
Choice(d, count, n) ==
    /\ d \in [1..count -> 1..n]
    /\ \A k, l \in 1..count : k < l => d[k] < d[l]
    /\ count > 0 => d[1] = 1 /\ d[count] = n

LEMMA DownsampleChooses ==
    ASSUME TicksInv, NEW s \in Seq(DOMAIN ticks), NEW m \in Nat, m >= 3
    PROVE  Choice(Downsample(s, m), Least(m, Len(s)), Len(s))
<1> DEFINE n == Len(s)
           body(h) == [k \in 1..m - 1 |-> IF k = 1 THEN 1 ELSE Pick(s, h[k - 1], k - 2, m)]
           selected == CHOOSE h : h = body(h)
           step == [k \in 2..m - 1 |-> [p \in 1..n |-> Pick(s, p, k - 2, m)]]
           d == [k \in 1..m |-> IF k = m THEN n ELSE selected[k]]
<1>1. n \in Nat
  OBVIOUS
<1>2. Downsample(s, m) = IF n <= m THEN [k \in 1..n |-> k] ELSE d
  BY DEF Downsample
<1>3. CASE n <= m
  <2>1. Least(m, n) = n
    BY <1>1, <1>3 DEF Least
  <2>2. Downsample(s, m) = [k \in 1..n |-> k]
    BY <1>2, <1>3
  <2> HIDE DEF n
  <2>3. Choice([k \in 1..n |-> k], n, n)
    BY <1>1 DEF Choice
  <2> QED
    BY <2>1, <2>2, <2>3 DEF n
<1>4. CASE m < n
  <2>1. Least(m, n) = m /\ Downsample(s, m) = d
    BY <1>1, <1>2, <1>4 DEF Least
  <2>2. ASSUME NEW k \in 2..m - 1, NEW p \in 1..n
        PROVE  /\ Pick(s, p, k - 2, m) \in 1..n
               /\ Edge(k - 2, n, m) <= Pick(s, p, k - 2, m)
               /\ Pick(s, p, k - 2, m) + 1 <= Edge(k - 1, n, m)
               /\ Edge(k - 1, n, m) <= n
    <3>1. k - 2 \in 0..m - 3 /\ (k - 2) + 1 = k - 1 /\ k - 2 \in Nat /\ k - 1 \in Nat
      OBVIOUS
    <3>2. /\ Pick(s, p, k - 2, m) \in Nat
          /\ Edge(k - 2, n, m) <= Pick(s, p, k - 2, m)
          /\ Pick(s, p, k - 2, m) + 1 <= Edge(k - 1, n, m)
          /\ Edge(k - 1, n, m) <= n
      BY <1>4, <3>1, PickIsCandidate
    <3>3. /\ Edge(k - 2, n, m) \in Nat /\ Edge(k - 2, n, m) >= 2 /\ Edge(k - 1, n, m) \in Nat
      BY <1>1, <1>4, <3>1, EdgesAscend
    <3> HIDE DEF n
    <3> QED
      BY <1>1, <3>2, <3>3
  <2> HIDE DEF n
  <2>3. \E h : h = body(h)
    <3> HIDE DEF step, selected, d
    <3>1. PICK h : IteratesFrom(h, 1, m - 1, 1..n, 1, step)
      <4>1. ASSUME NEW k \in 1 + 1..m - 1, NEW p \in 1..n PROVE step[k][p] \in 1..n
        <5>1. k \in 2..m - 1
          OBVIOUS
        <5>2. step[k][p] = Pick(s, p, k - 2, m)
          BY <5>1 DEF step
        <5> QED
          BY <2>2, <5>1, <5>2
      <4>2. 1 \in Int /\ m - 1 \in Int /\ 1 <= m - 1 /\ 1 \in 1..n
        BY <1>1, <1>4
      <4> HIDE DEF step
      <4> QED
        BY <4>1, <4>2, RecursionFrom
    <3>2. h \in [1..m - 1 -> 1..n] /\ h[1] = 1 /\ \A k \in 1 + 1..m - 1 : h[k] = step[k][h[k - 1]]
      BY <3>1 DEF IteratesFrom
    <3>3. ASSUME NEW k \in 1..m - 1
          PROVE  h[k] = IF k = 1 THEN 1 ELSE Pick(s, h[k - 1], k - 2, m)
      <4>1. CASE k = 1
        BY <3>2, <4>1
      <4>2. CASE k # 1
        <5>1. k \in 2..m - 1 /\ k \in 1 + 1..m - 1 /\ k - 1 \in 1..m - 1
          BY <4>2
        <5>2. h[k - 1] \in 1..n
          BY <3>2, <5>1
        <5>3. step[k][h[k - 1]] = Pick(s, h[k - 1], k - 2, m)
          BY <5>1, <5>2 DEF step
        <5> QED
          BY <3>2, <4>2, <5>1, <5>3
      <4> QED
        BY <4>1, <4>2
    <3>4. h = [k \in 1..m - 1 |-> h[k]]
      BY <3>2
    <3>5. h = body(h)
      BY <3>3, <3>4, Zenon
    <3> HIDE DEF body
    <3> QED
      BY <3>5
  <2>4. selected = body(selected)
    BY <2>3
  <2> HIDE DEF selected, step
  <2>5. selected[1] = 1
    <3>1. 1 \in 1..m - 1
      OBVIOUS
    <3> QED
      BY <2>4, <3>1
  <2>6. ASSUME NEW k \in 2..m - 1 PROVE selected[k] = Pick(s, selected[k - 1], k - 2, m)
    <3>1. k \in 1..m - 1 /\ k # 1
      OBVIOUS
    <3> QED
      BY <2>4, <3>1
  <2> HIDE DEF body
  <2> DEFINE G == {k \in 1..m - 1 : selected[k] \in 1..n}
  <2>7. 1..m - 1 \subseteq G
    <3>1. 1 \in G
      BY <1>1, <1>4, <2>5
    <3>2. \A k \in 1 + 1..m - 1 : k - 1 \in G => k \in G
      <4> SUFFICES ASSUME NEW k \in 1 + 1..m - 1, k - 1 \in G PROVE k \in G
        OBVIOUS
      <4>1. k \in 2..m - 1 /\ k \in 1..m - 1
        OBVIOUS
      <4>2. selected[k] \in 1..n
        BY <2>2, <2>6, <4>1
      <4> QED
        BY <4>1, <4>2
    <3> HIDE DEF G
    <3>3. 1 \in Int /\ m - 1 \in Int /\ 1 <= m - 1
      OBVIOUS
    <3> QED
      BY <3>1, <3>2, <3>3, NumbersFrom
  <2>8. \A k \in 1..m - 1 : selected[k] \in 1..n
    BY <2>7
  <2>9. ASSUME NEW k \in 2..m - 1
        PROVE  /\ Edge(k - 2, n, m) <= selected[k] /\ selected[k] + 1 <= Edge(k - 1, n, m)
               /\ Edge(k - 1, n, m) <= n
    <3>1. k - 1 \in 1..m - 1
      OBVIOUS
    <3>2. selected[k - 1] \in 1..n
      BY <2>8, <3>1
    <3> QED
      BY <2>2, <2>6, <3>2
  <2>10. ASSUME NEW k \in 1..m - 1 PROVE selected[k] < n
    <3>1. CASE k = 1
      BY <1>1, <1>4, <2>5, <3>1
    <3>2. CASE k \in 2..m - 1
      <4>1. Edge(k - 1, n, m) \in Nat
        <5>1. k - 1 \in Nat
          OBVIOUS
        <5> QED
          BY <1>1, <1>4, <5>1, EdgesAscend
      <4>2. selected[k] \in Nat
        BY <1>1, <2>8
      <4> QED
        BY <1>1, <2>9, <3>2, <4>1, <4>2
    <3> QED
      BY <3>1, <3>2
  <2>11. ASSUME NEW k \in 1..m - 1, NEW l \in 1..m - 1, k < l PROVE selected[k] < selected[l]
    <3>1. l \in 2..m - 1 /\ l - 2 \in Nat
      BY <2>11
    <3>2. Edge(l - 2, n, m) \in Nat /\ Edge(l - 2, n, m) >= 2
      BY <1>1, <1>4, <3>1, EdgesAscend
    <3>3. selected[k] \in Nat /\ selected[l] \in Nat /\ Edge(l - 2, n, m) <= selected[l]
      BY <1>1, <2>8, <2>9, <3>1
    <3>4. CASE k = 1
      BY <2>5, <3>2, <3>3, <3>4
    <3>5. CASE k \in 2..m - 1
      <4>1. k - 1 \in Nat /\ k - 1 <= l - 2
        BY <2>11, <3>5
      <4>2. Edge(k - 1, n, m) \in Nat /\ Edge(k - 1, n, m) <= Edge(l - 2, n, m)
        BY <1>1, <1>4, <3>1, <4>1, EdgesAscend
      <4>3. selected[k] + 1 <= Edge(k - 1, n, m)
        BY <2>9, <3>5
      <4> QED
        BY <3>2, <3>3, <4>2, <4>3
    <3> QED
      BY <3>4, <3>5
  <2>12. /\ \A k \in 1..m - 1 : d[k] = selected[k]
         /\ d[m] = n /\ \A k \in 1..m : k = m \/ k \in 1..m - 1
    OBVIOUS
  <2>13. d \in [1..m -> 1..n]
    BY <1>1, <1>4, <2>8
  <2>14. d[1] = 1
    BY <2>5, <2>12
  <2> HIDE DEF d
  <2>15. ASSUME NEW k \in 1..m, NEW l \in 1..m, k < l PROVE d[k] < d[l]
    <3>1. k \in 1..m - 1
      BY <2>15
    <3>2. CASE l = m
      BY <2>10, <2>12, <3>1, <3>2
    <3>3. CASE l \in 1..m - 1
      BY <2>11, <2>12, <2>15, <3>1, <3>3
    <3> QED
      BY <2>12, <3>2, <3>3
  <2>16. Choice(d, m, n)
    BY <2>12, <2>13, <2>14, <2>15 DEF Choice
  <2> QED
    BY <2>1, <2>16 DEF n
<1> QED
  BY <1>1, <1>3, <1>4

\* Ticks in the order of their positions.
LEMMA InOrderAscends ==
    ASSUME TicksInv, NEW positions
    PROVE  /\ InOrder(positions) \in Seq(DOMAIN ticks)
           /\ \A k, l \in DOMAIN InOrder(positions) :
                k < l => InOrder(positions)[k] < InOrder(positions)[l]
<1> DEFINE own == [i \in DOMAIN ticks |-> i]
           s == InOrder(positions)
<1>1. own \in Seq(DOMAIN ticks) /\ DOMAIN own = DOMAIN ticks
  BY DEF TicksInv
<1>2. s = Filtered(own, positions)
  BY DEF InOrder
<1> HIDE DEF s
<1>3. \A i \in DOMAIN own : own[i] = i
  OBVIOUS
<1> HIDE DEF own
<1>4. s \in Seq(DOMAIN ticks)
  BY <1>1, <1>2, FilteredSelects
<1>5. PICK at : Selection(at, s, own, positions)
  BY <1>1, <1>2, FilteredSelects
<1>6. \A k \in DOMAIN s : k \in DOMAIN at /\ s[k] = at[k]
  BY <1>3, <1>4, <1>5 DEF Selection
<1>7. \A k, l \in DOMAIN s : k < l => s[k] < s[l]
  BY <1>5, <1>6 DEF Selection
<1> QED
  BY <1>4, <1>7 DEF s

\* The answer to a request for a chart is one.
LEMMA ChartKeepsShape ==
    ASSUME TicksInv, NEW start, NEW end, NEW m \in Points, ChartTicks(start, end, m)
    PROVE  ChartsKeepShape'
<1> DEFINE s == InOrder(ListTicks(start, end))
           d == Downsample(s, m)
           n == Len(s)
           count == Least(m, n)
           shown == [k \in DOMAIN d |-> s[d[k]]]
<1>1. /\ answer'.kind = "chart" /\ answer'.points = m /\ answer'.of = s /\ answer'.shown = shown
  BY DEF ChartTicks
<1>2. s \in Seq(DOMAIN ticks) /\ \A k, l \in DOMAIN s : k < l => s[k] < s[l]
  BY InOrderAscends
<1> HIDE DEF s
<1>3. m \in Nat /\ m >= 3 /\ n \in Nat /\ DOMAIN s = 1..n
  BY <1>2, HistoryAssumption
<1>4. Choice(d, count, n)
  BY <1>2, <1>3, DownsampleChooses
<1>5. count \in Nat /\ (n > 0 => count > 0) /\ (n = 0 => count = 0)
  BY <1>3 DEF Least
<1> HIDE DEF d, n, count
<1>6. /\ d \in [1..count -> 1..n] /\ \A k, l \in 1..count : k < l => d[k] < d[l]
      /\ count > 0 => d[1] = 1 /\ d[count] = n
  BY <1>4 DEF Choice
<1>7. shown \in Seq(DOMAIN ticks) /\ Len(shown) = count /\ DOMAIN shown = 1..count
  <2>1. DOMAIN d = 1..count /\ \A k \in 1..count : s[d[k]] \in DOMAIN ticks
    BY <1>2, <1>3, <1>6
  <2> QED
    BY <1>5, <2>1
<1>8. \A k \in 1..count : shown[k] = s[d[k]]
  BY <1>6
<1> HIDE DEF shown
<1>9. ASSUME NEW k \in DOMAIN shown, NEW l \in DOMAIN shown, k < l PROVE shown[k] < shown[l]
  <2>1. d[k] \in DOMAIN s /\ d[l] \in DOMAIN s /\ d[k] < d[l]
    BY <1>3, <1>6, <1>7, <1>9
  <2> QED
    BY <1>2, <1>7, <1>8, <2>1
<1>10. s # <<>> => Head(shown) = Head(s) /\ Last(shown) = Last(s)
  <2> SUFFICES ASSUME s # <<>> PROVE Head(shown) = Head(s) /\ Last(shown) = Last(s)
    OBVIOUS
  <2>1. n > 0
    BY <1>2, <1>3 DEF n
  <2>2. 1 \in 1..count /\ count \in 1..count
    BY <1>3, <1>5, <2>1
  <2>3. shown[1] = s[1] /\ shown[count] = s[n]
    BY <1>3, <1>5, <1>6, <1>8, <2>1, <2>2
  <2>4. shown # <<>>
    BY <1>5, <1>3, <1>7, <2>1
  <2>5. Head(shown) = shown[1] /\ Head(s) = s[1]
    BY <1>2, <1>7, <2>4
  <2>6. Last(shown) = shown[count] /\ Last(s) = s[n]
    BY <1>7 DEF Last, n
  <2> QED
    BY <2>3, <2>5, <2>6
<1>11. Len(shown) = Least(m, Len(s))
  BY <1>7 DEF count, n
<1> QED
  BY <1>1, <1>9, <1>10, <1>11 DEF ChartsKeepShape

\* A chart has all ticks of its range, or as many as it may have: in order and
\* with both ends, whatever prices make the triangles large, for any number of
\* ticks and of points.
THEOREM ChartsAreRepresentative == Spec => []ChartsKeepShape
<1>1. Init => ChartsKeepShape
  BY DEF Init, ChartsKeepShape, Answered
<1>2. TicksInv /\ ChartsKeepShape /\ [Next]_vars => ChartsKeepShape'
  <2> SUFFICES ASSUME TicksInv, ChartsKeepShape, [Next]_vars PROVE ChartsKeepShape'
    OBVIOUS
  <2>1. ASSUME answer' = None \/ answer'.kind \in {"error", "provider", "fallback"}
        PROVE  ChartsKeepShape'
    BY <2>1 DEF ChartsKeepShape, Answered
  <2>2. CASE Wait /\ answer = None
    BY <2>1, <2>2 DEF Wait
  <2>3. ASSUME NEW price \in Prices, Tick(price), answer = None PROVE ChartsKeepShape'
    BY <2>1, <2>3 DEF Tick
  <2>4. ASSUME NEW provided \in ProviderAnswers, RefuseProvider(provided) PROVE ChartsKeepShape'
    BY <2>1, <2>4 DEF RefuseProvider
  <2>5. ASSUME NEW start \in Bounds, NEW end \in Bounds, NEW m \in Points, ChartTicks(start, end, m)
        PROVE  ChartsKeepShape'
    BY <2>5, ChartKeepsShape
  <2>6. ASSUME NEW start \in Bounds, NEW end \in Bounds, NEW interval \in Intervals,
               NEW provided \in ProviderAnswers, GetCandles(start, end, interval, provided)
        PROVE  ChartsKeepShape'
    BY <2>1, <2>6 DEF GetCandles
  <2>7. CASE UNCHANGED vars
    BY <2>7 DEF vars, ChartsKeepShape, Answered
  <2> QED
    BY <2>2, <2>3, <2>4, <2>5, <2>6, <2>7 DEF Next, Request
<1> QED
  BY <1>1, <1>2, TicksStay, PTL DEF Spec

--------------------------------------------------------------------------------
(* Analytics.                                                              *)

\* The table of outcomes: finitely many rows, each with an id of its own.
Table(rows) ==
    /\ rows \subseteq Outcomes /\ IsFiniteSet(rows)
    /\ \A o, r \in rows : o.id = r.id => o = r
IsListing(rows, list) ==
    /\ list \in [1..Cardinality(rows) -> rows]
    /\ \A i, j \in DOMAIN list : i < j => ListedBefore(list[i], list[j])

\* The place of a row in the list is the number of rows up to it.
LEMMA ListingExists ==
    ASSUME NEW rows, Table(rows)
    PROVE  \E list : IsListing(rows, list)
<1> DEFINE n == Cardinality(rows)
           Upto(o) == {r \in rows : r = o \/ ListedBefore(r, o)}
           place == [o \in rows |-> Cardinality(Upto(o))]
<1>1. /\ IsFiniteSet(rows) /\ \A o \in rows : o.closed \in Nat /\ o.id \in Nat
      /\ \A o, r \in rows : o.id = r.id => o = r
  BY AnalyticsAssumption DEF Table, Outcomes
<1>2. n \in Nat
  BY <1>1, FS_CardinalityType
<1>3. ASSUME NEW o \in rows
      PROVE  IsFiniteSet(Upto(o)) /\ place[o] = Cardinality(Upto(o)) /\ place[o] \in 1..n
  <2>1. Upto(o) \in SUBSET rows /\ o \in Upto(o)
    OBVIOUS
  <2> HIDE DEF Upto
  <2>2. IsFiniteSet(Upto(o)) /\ Cardinality(Upto(o)) <= n
    BY <1>1, <2>1, FS_Subset
  <2>3. Cardinality(Upto(o)) \in Nat /\ Cardinality(Upto(o)) # 0
    BY <2>1, <2>2, FS_CardinalityType, FS_EmptySet
  <2> QED
    BY <1>2, <2>2, <2>3
<1>4. ASSUME NEW o \in rows, NEW r \in rows, ListedBefore(o, r)
      PROVE  place[o] < place[r]
  <2>1. Upto(o) \in SUBSET Upto(r)
    <3> SUFFICES ASSUME NEW x \in Upto(o) PROVE x \in Upto(r)
      OBVIOUS
    <3>1. /\ x \in rows /\ x.closed \in Nat /\ x.id \in Nat
          /\ o.closed \in Nat /\ o.id \in Nat /\ r.closed \in Nat /\ r.id \in Nat
      BY <1>1
    <3>2. ListedBefore(x, r)
      BY <1>4, <3>1 DEF ListedBefore
    <3> QED
      BY <3>1, <3>2
  <2>2. r \in Upto(r) /\ r \notin Upto(o)
    <3>1. o.closed \in Nat /\ o.id \in Nat /\ r.closed \in Nat /\ r.id \in Nat
      BY <1>1
    <3> QED
      BY <1>4, <3>1 DEF ListedBefore
  <2>3. IsFiniteSet(Upto(r)) /\ place[o] \in Nat /\ place[r] \in Nat
    BY <1>3
  <2> HIDE DEF Upto
  <2>4. Cardinality(Upto(o)) <= Cardinality(Upto(r)) /\ Cardinality(Upto(o)) # Cardinality(Upto(r))
    BY <2>1, <2>2, <2>3, FS_Subset
  <2> QED
    BY <1>3, <2>3, <2>4
<1>5. \A o, r \in rows : o # r => ListedBefore(o, r) \/ ListedBefore(r, o)
  BY <1>1 DEF ListedBefore
<1> HIDE DEF place
<1>6. ASSUME NEW o \in rows, NEW r \in rows, place[o] = place[r] PROVE o = r
  <2> HIDE DEF n, Upto
  <2>1. place[o] \in Nat /\ place[r] \in Nat
    BY <1>2, <1>3
  <2> QED
    BY <1>4, <1>5, <1>6, <2>1
<1>7. place \in Injection(rows, 1..n)
  <2>1. place \in [rows -> 1..n]
    BY <1>3 DEF place
  <2>2. \A o, r \in rows : place[o] = place[r] => o = r
    BY <1>6
  <2> HIDE DEF n
  <2> QED
    BY <2>1, <2>2 DEF Injection, IsInjective
<1>8. \A i \in 1..n : \E o \in rows : place[o] = i
  <2>1. IsFiniteSet(1..n) /\ Cardinality(1..n) = n
    BY <1>2, FS_Interval
  <2>2. place \in Surjection(rows, 1..n)
    BY <1>7, <2>1, FS_Injection
  <2> QED
    BY <2>2 DEF Surjection
<1> DEFINE list == [i \in 1..n |-> CHOOSE o \in rows : place[o] = i]
<1>9. ASSUME NEW i \in 1..n PROVE list[i] \in rows /\ place[list[i]] = i
  BY <1>8
<1>10. list \in [1..n -> rows]
  BY <1>9
<1> HIDE DEF list
<1>11. ASSUME NEW i \in 1..n, NEW j \in 1..n, i < j PROVE ListedBefore(list[i], list[j])
  <2>1. list[i] # list[j]
    BY <1>9, <1>11
  <2>2. ~ListedBefore(list[j], list[i])
    BY <1>4, <1>9, <1>11
  <2> QED
    BY <1>5, <1>9, <2>1, <2>2
<1>12. IsListing(rows, list)
  BY <1>10, <1>11 DEF IsListing
<1> QED
  BY <1>12

\* What Listed chooses is the listing of the table.
LEMMA ListedInOrder ==
    ASSUME NEW rows, Table(rows)
    PROVE  /\ IsListing(rows, Listed(rows))
           /\ Listed(rows) \in Seq(Outcomes) /\ Len(Listed(rows)) = Cardinality(rows)
<1>1. IsListing(rows, Listed(rows))
  BY ListingExists DEF IsListing, Listed
<1>2. Cardinality(rows) \in Nat /\ rows \subseteq Outcomes
  BY FS_CardinalityType DEF Table
<1> QED
  BY <1>1, <1>2 DEF IsListing

\* The values the sum goes through.
Running(total, list, group) ==
    /\ total \in [0..Len(list) -> Int] /\ total[0] = 0
    /\ \A i \in 1..Len(list) :
         total[i] = IF i \in group THEN total[i - 1] + list[i].result ELSE total[i - 1]

\* The recursive function runs through the list as its definition says.
LEMMA TotalsRun ==
    ASSUME NEW list \in Seq(Outcomes), NEW group
    PROVE  Running(Totals(list, group), list, group)
<1> DEFINE n == Len(list)
           body(h) == [i \in 0..n |->
                         IF i = 0 THEN 0
                         ELSE IF i \in group THEN h[i - 1] + list[i].result ELSE h[i - 1]]
           total == CHOOSE h : h = body(h)
           step == [i \in 1..n |-> [x \in Int |->
                      IF i \in group THEN x + list[i].result ELSE x]]
<1>1. n \in Nat /\ \A i \in 1..n : list[i].result \in Int
  <2>1. n \in Nat /\ \A i \in 1..n : list[i] \in Outcomes
    OBVIOUS
  <2> QED
    BY <2>1, AnalyticsAssumption DEF Outcomes
<1>2. Totals(list, group) = total
  BY DEF Totals
<1>3. ASSUME NEW i \in 1..n, NEW x \in Int
      PROVE  /\ step[i][x] = IF i \in group THEN x + list[i].result ELSE x
             /\ step[i][x] \in Int
  BY <1>1
<1> HIDE DEF n, step
<1>4. PICK h : Iterates(h, n, Int, 0, step)
  <2> DEFINE S == Int
  <2>1. 0 \in S /\ \A i \in 1..n : \A x \in S : step[i][x] \in S
    BY <1>3
  <2> HIDE DEF S
  <2>2. \E h : Iterates(h, n, S, 0, step)
    BY <1>1, <2>1, Recursion
  <2> QED
    BY <2>2 DEF S
<1>5. h = body(h)
  <2>1. h \in [0..n -> Int] /\ h[0] = 0 /\ \A i \in 1..n : h[i] = step[i][h[i - 1]]
    BY <1>4 DEF Iterates
  <2>2. ASSUME NEW i \in 0..n
        PROVE  h[i] = IF i = 0 THEN 0
                      ELSE IF i \in group THEN h[i - 1] + list[i].result ELSE h[i - 1]
    <3>1. CASE i = 0
      BY <2>1, <3>1
    <3>2. CASE i # 0
      <4>1. i \in 1..n /\ i - 1 \in 0..n
        BY <1>1, <3>2
      <4>2. h[i - 1] \in Int
        BY <2>1, <4>1
      <4> QED
        BY <1>3, <2>1, <3>2, <4>1, <4>2
    <3> QED
      BY <3>1, <3>2
  <2> QED
    BY <2>1, <2>2, Zenon
<1>6. total = body(total)
  <2> HIDE DEF body
  <2> QED
    BY <1>5
<1> HIDE DEF total
<1> DEFINE G == {i \in 0..n : total[i] \in Int}
<1>7. 0 \in G
  BY <1>1, <1>6
<1>8. ASSUME NEW i \in 1..n
      PROVE  total[i] = IF i \in group THEN total[i - 1] + list[i].result ELSE total[i - 1]
  <2>1. i \in 0..n /\ i # 0
    BY <1>1
  <2> QED
    BY <1>6, <2>1
<1>9. ASSUME NEW i \in 1..n, i - 1 \in G PROVE i \in G
  <2>1. i \in 0..n /\ total[i - 1] \in Int
    BY <1>1, <1>9
  <2>2. total[i] \in Int
    BY <1>1, <1>8, <2>1
  <2> QED
    BY <2>1, <2>2
<1>10. 0..n \subseteq G
  <2> HIDE DEF G
  <2> QED
    BY <1>1, <1>7, <1>9, AllNumbers
<1>11. total = [i \in 0..n |-> total[i]] /\ \A i \in 0..n : total[i] \in Int
  BY <1>6, <1>10
<1>12. total[0] = 0
  BY <1>1, <1>6
<1>13. total \in [0..n -> Int]
  BY <1>11
<1> HIDE DEF body
<1> QED
  BY <1>2, <1>8, <1>12, <1>13 DEF Running, n

\* The values the search for the deepest fall goes through.
States == [equity : Int, peak : Int, drawdown : Int, fraction : Int \X Int]
Passing(after, list, group) ==
    /\ after \in [0..Len(list) -> States] /\ after[0] = AtStart
    /\ \A i \in 1..Len(list) :
         after[i] = IF i \in group THEN Fall(after[i - 1], list[i].result) ELSE after[i - 1]

\* The search runs through the list as its definition says.
LEMMA FallsPass ==
    ASSUME NEW list \in Seq(Outcomes), NEW group
    PROVE  Passing(Falls(list, group), list, group)
<1> DEFINE n == Len(list)
           body(h) == [i \in 0..n |->
                         IF i = 0 THEN AtStart
                         ELSE IF i \in group THEN Fall(h[i - 1], list[i].result) ELSE h[i - 1]]
           after == CHOOSE h : h = body(h)
           step == [i \in 1..n |-> [x \in States |->
                      IF i \in group THEN Fall(x, list[i].result) ELSE x]]
<1>1. n \in Nat /\ \A i \in 1..n : list[i].result \in Int
  <2>1. n \in Nat /\ \A i \in 1..n : list[i] \in Outcomes
    OBVIOUS
  <2> QED
    BY <2>1, AnalyticsAssumption DEF Outcomes
<1>2. Falls(list, group) = after
  BY DEF Falls
<1>3. ASSUME NEW x \in States, NEW r \in Int PROVE Fall(x, r) \in States
  <2> DEFINE equity == x.equity + r
             peak == IF equity > x.peak THEN equity ELSE x.peak
  <2>1. equity \in Int /\ peak \in Int /\ peak - equity \in Int
    BY DEF States
  <2>2. Fall(x, r) = IF peak - equity > x.drawdown
                       THEN [equity |-> equity, peak |-> peak, drawdown |-> peak - equity,
                             fraction |-> <<peak - equity, peak>>]
                       ELSE [x EXCEPT !.equity = equity, !.peak = peak]
    BY DEF Fall
  <2> HIDE DEF equity, peak
  <2>3. [x EXCEPT !.equity = equity, !.peak = peak] \in States
    BY <2>1 DEF States
  <2>4. [equity |-> equity, peak |-> peak, drawdown |-> peak - equity,
         fraction |-> <<peak - equity, peak>>] \in States
    <3> DEFINE fall == peak - equity
    <3>1. <<fall, peak>> \in Int \X Int
      BY <2>1
    <3> HIDE DEF fall
    <3>2. [equity |-> equity, peak |-> peak, drawdown |-> fall, fraction |-> <<fall, peak>>] \in States
      BY <2>1, <3>1 DEF States, fall
    <3> QED
      BY <3>2 DEF fall
  <2> HIDE DEF States
  <2> QED
    BY <2>2, <2>3, <2>4
<1>4. AtStart \in States
  BY AnalyticsAssumption DEF AtStart, States
<1>5. ASSUME NEW i \in 1..n, NEW x \in States
      PROVE  /\ step[i][x] = IF i \in group THEN Fall(x, list[i].result) ELSE x
             /\ step[i][x] \in States
  BY <1>1, <1>3
<1> HIDE DEF n, step
<1>6. PICK h : Iterates(h, n, States, AtStart, step)
  <2> HIDE DEF States
  <2>1. \A i \in 1..n : \A x \in States : step[i][x] \in States
    BY <1>5
  <2> QED
    BY <1>1, <1>4, <2>1, Recursion
<1>7. /\ h \in [0..n -> States] /\ h[0] = AtStart /\ \A i \in 1..n : h[i] = step[i][h[i - 1]]
      /\ \A i \in 1..n : i - 1 \in 0..n /\ h[i - 1] \in States
  <2>1. h \in [0..n -> States] /\ h[0] = AtStart /\ \A i \in 1..n : h[i] = step[i][h[i - 1]]
    BY <1>6 DEF Iterates
  <2>2. \A i \in 1..n : i - 1 \in 0..n
    BY <1>1
  <2> QED
    BY <2>1, <2>2
<1>8. h = body(h)
  <2>1. ASSUME NEW i \in 0..n
        PROVE  h[i] = IF i = 0 THEN AtStart
                      ELSE IF i \in group THEN Fall(h[i - 1], list[i].result) ELSE h[i - 1]
    <3>1. CASE i = 0
      BY <1>7, <3>1
    <3>2. CASE i # 0
      <4>1. i \in 1..n
        BY <1>1, <3>2
      <4> QED
        BY <1>5, <1>7, <3>2, <4>1
    <3> QED
      BY <3>1, <3>2
  <2> QED
    BY <1>7, <2>1, Zenon
<1>9. after = body(after)
  <2> HIDE DEF body
  <2> QED
    BY <1>8
<1> HIDE DEF after
<1>10. ASSUME NEW i \in 1..n
       PROVE  after[i] = IF i \in group THEN Fall(after[i - 1], list[i].result) ELSE after[i - 1]
  <2>1. i \in 0..n /\ i # 0
    BY <1>1
  <2> QED
    BY <1>9, <2>1
<1>11. after[0] = AtStart
  BY <1>1, <1>9
<1> DEFINE G == {i \in 0..n : after[i] \in States}
<1>12. 0 \in G
  BY <1>1, <1>4, <1>11
<1>13. ASSUME NEW i \in 1..n, i - 1 \in G PROVE i \in G
  <2>1. i \in 0..n /\ after[i - 1] \in States
    BY <1>1, <1>13
  <2> QED
    BY <1>1, <1>3, <1>10, <2>1
<1>14. 0..n \subseteq G
  <2> HIDE DEF G
  <2> QED
    BY <1>1, <1>12, <1>13, AllNumbers
<1>15. after = [i \in 0..n |-> after[i]] /\ \A i \in 0..n : after[i] \in States
  BY <1>9, <1>14
<1>16. after \in [0..n -> States]
  BY <1>15
<1> HIDE DEF body
<1> QED
  BY <1>2, <1>10, <1>11, <1>16 DEF Passing, n

\* What is known of the search after the first k outcomes.
Deepest(state, curve, k) ==
    /\ state.equity = curve[k]
    /\ \E i \in 0..k : state.peak = curve[i]
    /\ \A i \in 0..k : curve[i] <= state.peak
    /\ \A i, j \in 0..k : i <= j => curve[i] - curve[j] <= state.drawdown
    /\ \E i, j \in 0..k :
         /\ i <= j /\ curve[i] - curve[j] = state.drawdown
         /\ state.drawdown > 0 => state.fraction = <<state.drawdown, curve[i]>>

\* A fall from below the peak is not deeper than one from the peak.
LEMMA FallWithin ==
    ASSUME NEW a \in Int, NEW b \in Int, NEW peak \in Int, NEW fall \in Int, NEW most \in Int,
           a <= peak, fall = peak - b, fall <= most
    PROVE  a - b <= most
  OBVIOUS
LEMMA FallStays ==
    ASSUME NEW a \in Int, NEW b \in Int, NEW fall \in Int, NEW most \in Int,
           a - b <= fall, fall <= most
    PROVE  a - b <= most
  OBVIOUS

\* One outcome of the group keeps what is known of the search.
LEMMA DeepestStep ==
    ASSUME NEW n \in Nat, NEW curve \in [0..n -> Int], NEW k \in 1..n, NEW state \in States,
           Deepest(state, curve, k - 1), NEW r \in Int, curve[k] = curve[k - 1] + r
    PROVE  Deepest(Fall(state, r), curve, k)
<1> DEFINE equity == state.equity + r
           peak == IF equity > state.peak THEN equity ELSE state.peak
           fall == peak - equity
           next == Fall(state, r)
<1>1. /\ k \in 0..n /\ k - 1 \in 0..n /\ 0..k = 0..k - 1 \cup {k} /\ k \notin 0..k - 1
      /\ k \in 0..k /\ \A i \in 0..k : i <= k /\ curve[i] \in Int
  OBVIOUS
<1>2. /\ state.equity = curve[k - 1] /\ state.equity \in Int /\ state.peak \in Int
      /\ state.drawdown \in Int /\ equity = curve[k] /\ equity \in Int /\ peak \in Int /\ fall \in Int
  <2>1. state.equity = curve[k - 1] /\ curve[k - 1] \in Int
    BY <1>1 DEF Deepest
  <2>2. state.equity \in Int /\ state.peak \in Int /\ state.drawdown \in Int
    BY DEF States
  <2>3. equity = curve[k] /\ equity \in Int
    BY <2>1, <2>2
  <2>4. peak \in Int
    BY <2>2, <2>3
  <2> QED
    BY <2>1, <2>2, <2>3, <2>4
<1>3. /\ next.equity = equity /\ next.peak = peak
      /\ next.drawdown = IF fall > state.drawdown THEN fall ELSE state.drawdown
      /\ next.fraction = IF fall > state.drawdown THEN <<fall, peak>> ELSE state.fraction
  <2>1. Fall(state, r) = IF fall > state.drawdown
                           THEN [equity |-> equity, peak |-> peak, drawdown |-> fall,
                                 fraction |-> <<fall, peak>>]
                           ELSE [state EXCEPT !.equity = equity, !.peak = peak]
    BY DEF Fall
  <2> HIDE DEF equity, peak, fall
  <2> QED
    BY <2>1 DEF States
<1> HIDE DEF next
<1>4. ASSUME NEW i \in 0..k PROVE curve[i] <= peak
  <2>1. curve[i] \in Int /\ state.peak <= peak /\ equity <= peak
    BY <1>1, <1>2
  <2>2. CASE i = k
    BY <1>2, <2>1, <2>2
  <2>3. CASE i # k
    <3>1. curve[i] <= state.peak
      BY <1>1, <2>3 DEF Deepest
    <3> QED
      BY <1>2, <2>1, <3>1
  <2> QED
    BY <2>2, <2>3
<1>5. PICK top \in 0..k : peak = curve[top]
  <2>1. CASE equity > state.peak
    BY <1>1, <1>2, <2>1
  <2>2. CASE ~(equity > state.peak)
    BY <1>1, <2>2 DEF Deepest
  <2> QED
    BY <2>1, <2>2
<1>10. fall = peak - equity /\ fall \in Int /\ peak \in Int /\ equity \in Int
  BY <1>2
<1> HIDE DEF equity, peak, fall
<1>6. next.drawdown \in Int /\ state.drawdown <= next.drawdown /\ fall <= next.drawdown
  <2>1. state.drawdown \in Int /\ fall \in Int
    BY <1>2, <1>10
  <2>2. CASE fall > state.drawdown
    <3>1. next.drawdown = fall
      BY <1>3, <2>2
    <3> QED
      BY <2>1, <2>2, <3>1
  <2>3. CASE ~(fall > state.drawdown)
    <3>1. next.drawdown = state.drawdown
      BY <1>3, <2>3
    <3> QED
      BY <2>1, <2>3, <3>1
  <2> QED
    BY <2>2, <2>3
<1>7. ASSUME NEW i \in 0..k, NEW j \in 0..k, i <= j PROVE curve[i] - curve[j] <= next.drawdown
  <2>1. curve[i] \in Int /\ curve[j] \in Int
    BY <1>1
  <2>2. CASE j = k
    <3>1. curve[i] <= peak /\ curve[j] = equity
      BY <1>2, <1>4, <2>2
    <3> QED
      BY <1>6, <1>10, <2>1, <3>1, FallWithin
  <2>3. CASE j # k
    <3>1. i \in 0..k - 1 /\ j \in 0..k - 1
      BY <1>1, <1>7, <2>3
    <3>2. curve[i] - curve[j] <= state.drawdown
      BY <1>7, <3>1 DEF Deepest
    <3>3. state.drawdown \in Int
      BY <1>2
    <3> QED
      BY <1>6, <2>1, <3>2, <3>3, FallStays
  <2> QED
    BY <2>2, <2>3
<1>8. \E i, j \in 0..k :
        /\ i <= j /\ curve[i] - curve[j] = next.drawdown
        /\ next.drawdown > 0 => next.fraction = <<next.drawdown, curve[i]>>
  <2>1. CASE fall > state.drawdown
    <3>1. top <= k /\ curve[top] - curve[k] = fall
      BY <1>1, <1>2, <1>5, <1>10
    <3> QED
      BY <1>1, <1>3, <1>5, <2>1, <3>1
  <2>2. CASE ~(fall > state.drawdown)
    <3>1. PICK i \in 0..k - 1, j \in 0..k - 1 :
            /\ i <= j /\ curve[i] - curve[j] = state.drawdown
            /\ state.drawdown > 0 => state.fraction = <<state.drawdown, curve[i]>>
      BY DEF Deepest
    <3>2. i \in 0..k /\ j \in 0..k
      BY <1>1
    <3> QED
      BY <1>3, <2>2, <3>1, <3>2
  <2> QED
    BY <2>1, <2>2
<1>9. next.equity = curve[k] /\ next.peak = curve[top] /\ \A i \in 0..k : curve[i] <= next.peak
  BY <1>2, <1>3, <1>4, <1>5
<1> QED
  BY <1>7, <1>8, <1>9 DEF Deepest, next

\* An outcome outside of the group leaves everything as it is.
LEMMA DeepestSkips ==
    ASSUME NEW n \in Nat, NEW curve \in [0..n -> Int], NEW k \in 1..n, NEW state \in States,
           Deepest(state, curve, k - 1), curve[k] = curve[k - 1]
    PROVE  Deepest(state, curve, k)
<1>1. /\ k \in 0..n /\ k - 1 \in 0..n /\ 0..k = 0..k - 1 \cup {k} /\ k - 1 \in 0..k - 1
      /\ \A i \in 0..k : curve[i] \in Int
  OBVIOUS
<1>2. state.equity = curve[k] /\ state.peak \in Int /\ state.drawdown \in Int
  BY DEF Deepest, States
<1>3. \E i \in 0..k : state.peak = curve[i]
  BY <1>1 DEF Deepest
<1>4. \A i \in 0..k : curve[i] <= state.peak
  BY <1>1 DEF Deepest
<1>5. ASSUME NEW i \in 0..k, NEW j \in 0..k, i <= j PROVE curve[i] - curve[j] <= state.drawdown
  <2> DEFINE from == IF i = k THEN k - 1 ELSE i
             to == IF j = k THEN k - 1 ELSE j
  <2>1. from \in 0..k - 1 /\ to \in 0..k - 1 /\ from <= to
    BY <1>1, <1>5
  <2>2. curve[i] = curve[from] /\ curve[j] = curve[to]
    OBVIOUS
  <2> HIDE DEF from, to
  <2> QED
    BY <2>1, <2>2 DEF Deepest
<1>6. \E i, j \in 0..k :
        /\ i <= j /\ curve[i] - curve[j] = state.drawdown
        /\ state.drawdown > 0 => state.fraction = <<state.drawdown, curve[i]>>
  BY <1>1 DEF Deepest
<1> QED
  BY <1>2, <1>3, <1>4, <1>5, <1>6 DEF Deepest

\* The curve starts at the starting equity and moves with each outcome of the group.
LEMMA CurveMoves ==
    ASSUME NEW list \in Seq(Outcomes), NEW group
    PROVE  LET curve == EquityCurve(list, group)
           IN  /\ Len(list) \in Nat /\ curve \in [0..Len(list) -> Int] /\ curve[0] = StartingEquity
               /\ \A i \in 1..Len(list) :
                    /\ list[i].result \in Int
                    /\ curve[i] = IF i \in group THEN curve[i - 1] + list[i].result ELSE curve[i - 1]
<1> DEFINE total == Totals(list, group)
           curve == EquityCurve(list, group)
<1>1. Len(list) \in Nat /\ StartingEquity \in Int /\ \A i \in 1..Len(list) : list[i].result \in Int
  <2>1. Len(list) \in Nat /\ \A i \in 1..Len(list) : list[i] \in Outcomes
    OBVIOUS
  <2>2. StartingEquity \in Int /\ Results \subseteq Int
    BY AnalyticsAssumption
  <2>3. \A o \in Outcomes : o.result \in Int
    BY <2>2 DEF Outcomes
  <2> QED
    BY <2>1, <2>2, <2>3
<1>2. Running(total, list, group)
  BY TotalsRun
<1>3. curve = [i \in 0..Len(list) |-> StartingEquity + total[i]]
  BY DEF EquityCurve
<1> HIDE DEF total, curve
<1>4. curve \in [0..Len(list) -> Int] /\ curve[0] = StartingEquity
  BY <1>1, <1>2, <1>3 DEF Running
<1>5. ASSUME NEW i \in 1..Len(list)
      PROVE  curve[i] = IF i \in group THEN curve[i - 1] + list[i].result ELSE curve[i - 1]
  <2>1. i \in 0..Len(list) /\ i - 1 \in 0..Len(list)
    BY <1>1
  <2>2. /\ total[i] = IF i \in group THEN total[i - 1] + list[i].result ELSE total[i - 1]
        /\ total[i - 1] \in Int
    BY <1>2, <2>1 DEF Running
  <2>3. curve[i] = StartingEquity + total[i] /\ curve[i - 1] = StartingEquity + total[i - 1]
    BY <1>3, <2>1
  <2> QED
    BY <1>1, <2>2, <2>3
<1> QED
  BY <1>1, <1>4, <1>5 DEF curve

\* The search finds the deepest fall of the curve of any group.
LEMMA DeepestFall ==
    ASSUME NEW list \in Seq(Outcomes), NEW group
    PROVE  /\ MaximumDrawdown(list, group) \in States
           /\ Deepest(MaximumDrawdown(list, group), EquityCurve(list, group), Len(list))
<1> DEFINE n == Len(list)
           curve == EquityCurve(list, group)
           after == Falls(list, group)
           G == {k \in 0..n : Deepest(after[k], curve, k)}
<1>1. /\ n \in Nat /\ curve \in [0..n -> Int] /\ curve[0] = StartingEquity
      /\ \A i \in 1..n :
           /\ list[i].result \in Int
           /\ curve[i] = IF i \in group THEN curve[i - 1] + list[i].result ELSE curve[i - 1]
  BY CurveMoves
<1>2. /\ after \in [0..n -> States] /\ after[0] = AtStart
      /\ \A i \in 1..n :
           after[i] = IF i \in group THEN Fall(after[i - 1], list[i].result) ELSE after[i - 1]
  BY FallsPass DEF Passing
<1> HIDE DEF n, curve, after
<1>3. 0 \in G
  <2>1. Deepest(AtStart, curve, 0)
    <3>1. curve[0] \in Int /\ 0..0 = {0}
      BY <1>1
    <3>2. AtStart.equity = curve[0] /\ AtStart.peak = curve[0] /\ AtStart.drawdown = 0
      BY <1>1 DEF AtStart
    <3> QED
      BY <3>1, <3>2 DEF Deepest
  <2> QED
    BY <1>1, <1>2, <2>1
<1>4. ASSUME NEW k \in 1..n, k - 1 \in G PROVE k \in G
  <2>1. k \in 0..n /\ k - 1 \in 0..n /\ Deepest(after[k - 1], curve, k - 1)
    BY <1>1, <1>4
  <2>2. after[k - 1] \in States
    BY <1>2, <2>1
  <2>3. CASE k \in group
    <3> DEFINE r == list[k].result
    <3>1. r \in Int /\ curve[k] = curve[k - 1] + r /\ after[k] = Fall(after[k - 1], r)
      BY <1>1, <1>2, <2>3
    <3> HIDE DEF r
    <3>2. Deepest(Fall(after[k - 1], r), curve, k)
      BY <1>1, <2>1, <2>2, <3>1, DeepestStep
    <3> QED
      BY <2>1, <3>1, <3>2
  <2>4. CASE k \notin group
    BY <1>1, <1>2, <2>1, <2>2, <2>4, DeepestSkips
  <2> QED
    BY <2>3, <2>4
<1>5. 0..n \subseteq G
  <2> HIDE DEF G
  <2> QED
    BY <1>1, <1>3, <1>4, AllNumbers
<1>6. n \in 0..n
  BY <1>1
<1>7. after[n] \in States /\ Deepest(after[n], curve, n)
  BY <1>2, <1>5, <1>6
<1> QED
  BY <1>7 DEF MaximumDrawdown, n, curve, after

\* A fall of a part of the curve, seen from where it starts: nothing has happened
\* yet, or it is a fall of the whole curve that ends where the group does so far.
FallsAlike(part, whole, group, i, j) ==
    \/ part[j] = part[i] /\ \A k \in i + 1..j : k \notin group
    \/ \E from, to \in 0..j :
         /\ from <= to /\ to \in group /\ \A k \in to + 1..j : k \notin group
         /\ part[i] - part[j] = whole[from] - whole[to]

\* The curve falls by this much from one of its points to a later one.
FallsBy(curve, n, fall) ==
    \E from, to \in 0..n : from <= to /\ fall = curve[from] - curve[to]

\* One more loss, or gain, counts for both.
LEMMA FallGoesOn ==
    ASSUME NEW a \in Int, NEW b \in Int, NEW c \in Int, NEW d \in Int, NEW x \in Int,
           NEW b1, NEW d1, a - b = c - d, b1 = b + x, d1 = d + x
    PROVE  a - b1 = c - d1
  OBVIOUS

\* A stretch of the list, and a curve that moves at the positions of a group.
Stretch(group) == \A i, j \in group : \A k \in i..j : k \in group
MovesAt(curve, group, gain, n) ==
    \A i \in 1..n : curve[i] = IF i \in group THEN curve[i - 1] + gain[i] ELSE curve[i - 1]

\* What a part without gaps falls by, the whole falls by, between two of its points.
LEMMA ContiguousFalls ==
    ASSUME NEW n \in Nat, NEW group, Stretch(group),
           group \subseteq 1..n, NEW gain \in [1..n -> Int],
           NEW part \in [0..n -> Int], NEW whole \in [0..n -> Int],
           MovesAt(whole, 1..n, gain, n), MovesAt(part, group, gain, n),
           NEW i \in 0..n, NEW j \in i..n
    PROVE  FallsBy(whole, n, part[i] - part[j])
<1> USE DEF Stretch, MovesAt
<1> DEFINE G == {k \in i..n : FallsAlike(part, whole, group, i, k)}
<1>1. i \in G
  BY DEF FallsAlike
<1>2. ASSUME NEW k \in i + 1..n, k - 1 \in G PROVE k \in G
  <2>1. /\ k \in i..n /\ k \in 1..n /\ k \in 0..n /\ k - 1 \in 0..n /\ k - 1 \in i..n
        /\ 0..k - 1 \subseteq 0..k /\ k \in 0..k /\ k - 1 \in 0..k
    OBVIOUS
  <2>2. /\ part[i] \in Int /\ part[k - 1] \in Int /\ part[k] \in Int
        /\ whole[k - 1] \in Int /\ gain[k] \in Int
        /\ whole[k] = whole[k - 1] + gain[k]
        /\ part[k] = IF k \in group THEN part[k - 1] + gain[k] ELSE part[k - 1]
    BY <2>1
  <2>3. FallsAlike(part, whole, group, i, k - 1)
    BY <1>2
  <2>4. CASE part[k - 1] = part[i] /\ \A m \in i + 1..k - 1 : m \notin group
    <3>1. CASE k \in group
      <4>1. part[i] - part[k] = whole[k - 1] - whole[k]
        <5>1. part[k] = part[k - 1] + gain[k] /\ part[k - 1] = part[i]
          BY <2>2, <2>4, <3>1
        <5>2. part[i] \in Int /\ gain[k] \in Int /\ whole[k - 1] \in Int /\ whole[k] = whole[k - 1] + gain[k]
          BY <2>2
        <5> QED
          BY <5>1, <5>2
      <4>2. k - 1 <= k /\ \A m \in k + 1..k : m \notin group
        BY <2>1
      <4>3. FallsAlike(part, whole, group, i, k)
        BY <2>1, <3>1, <4>1, <4>2 DEF FallsAlike
      <4> QED
        BY <2>1, <4>3
    <3>2. CASE k \notin group
      <4>1. part[k] = part[i] /\ \A m \in i + 1..k : m \notin group
        BY <2>1, <2>2, <2>4, <3>2
      <4>2. FallsAlike(part, whole, group, i, k)
        BY <4>1 DEF FallsAlike
      <4> QED
        BY <2>1, <4>2
    <3> QED
      BY <3>1, <3>2
  <2>5. ASSUME NEW from \in 0..k - 1, NEW to \in 0..k - 1,
               from <= to, to \in group, \A m \in to + 1..k - 1 : m \notin group,
               part[i] - part[k - 1] = whole[from] - whole[to]
        PROVE  k \in G
    <3>1. whole[from] \in Int /\ whole[to] \in Int /\ from \in 0..k /\ to \in 0..k /\ from <= k
      BY <2>1
    <3>2. CASE k \in group
      <4>1. to = k - 1
        <5>1. SUFFICES ASSUME to + 1 \in to + 1..k - 1 PROVE FALSE
          BY <2>1
        <5>2. to + 1 \in to..k
          BY <2>1
        <5> QED
          BY <2>5, <3>2, <5>1, <5>2
      <4>2. part[i] - part[k] = whole[from] - whole[k]
        <5>1. part[k] = part[k - 1] + gain[k] /\ part[i] - part[k - 1] = whole[from] - whole[k - 1]
          BY <2>2, <2>5, <3>2, <4>1
        <5>2. /\ part[i] \in Int /\ part[k - 1] \in Int /\ gain[k] \in Int /\ whole[from] \in Int
              /\ whole[k - 1] \in Int /\ whole[k] = whole[k - 1] + gain[k]
          BY <2>2, <3>1
        <5> DEFINE a == part[i]
                   b == part[k - 1]
                   b1 == part[k]
                   c == whole[from]
                   d == whole[k - 1]
                   d1 == whole[k]
                   x == gain[k]
        <5>3. /\ a \in Int /\ b \in Int /\ c \in Int /\ d \in Int /\ x \in Int
              /\ a - b = c - d /\ b1 = b + x /\ d1 = d + x
          BY <5>1, <5>2
        <5> HIDE DEF a, b, b1, c, d, d1, x
        <5>4. a - b1 = c - d1
          BY <5>3, FallGoesOn
        <5> QED
          BY <5>4 DEF a, b1, c, d1
      <4>3. \A m \in k + 1..k : m \notin group
        BY <2>1
      <4>4. FallsAlike(part, whole, group, i, k)
        BY <2>1, <3>1, <3>2, <4>2, <4>3 DEF FallsAlike
      <4> QED
        BY <2>1, <4>4
    <3>3. CASE k \notin group
      <4>1. part[i] - part[k] = whole[from] - whole[to]
        BY <2>2, <2>5, <3>3
      <4>2. \A m \in to + 1..k : m \notin group
        BY <2>1, <2>5, <3>3
      <4>3. FallsAlike(part, whole, group, i, k)
        BY <2>5, <3>1, <4>1, <4>2 DEF FallsAlike
      <4> QED
        BY <2>1, <4>3
    <3> QED
      BY <3>2, <3>3
  <2> HIDE DEF G
  <2> QED
    BY <2>3, <2>4, <2>5 DEF FallsAlike
<1>3. i..n \subseteq G
  <2> HIDE DEF G
  <2>1. i \in Int /\ n \in Int /\ i <= n
    OBVIOUS
  <2> QED
    BY <1>1, <1>2, <2>1, NumbersFrom
<1>4. FallsAlike(part, whole, group, i, j)
  BY <1>3
<1>5. CASE part[j] = part[i]
  <2>1. part[i] - part[j] = whole[0] - whole[0] /\ 0 \in 0..n /\ 0 <= 0
    <3>1. part[i] \in Int /\ part[j] \in Int /\ whole[0] \in Int
      OBVIOUS
    <3> QED
      BY <1>5, <3>1
  <2> QED
    BY <2>1 DEF FallsBy
<1>6. ASSUME NEW from \in 0..j, NEW to \in 0..j,
             from <= to, part[i] - part[j] = whole[from] - whole[to]
      PROVE  FallsBy(whole, n, part[i] - part[j])
  <2>1. from \in 0..n /\ to \in 0..n
    OBVIOUS
  <2> QED
    BY <1>6, <2>1 DEF FallsBy
<1> QED
  BY <1>4, <1>5, <1>6 DEF FallsAlike

\* A part of the list without gaps never falls deeper than the whole list.
LEMMA PartFallsLess ==
    ASSUME NEW list \in Seq(Outcomes), NEW group, group \subseteq DOMAIN list,
           \A i, j \in group : \A k \in i..j : k \in group
    PROVE  MaximumDrawdown(list, group).drawdown <= MaximumDrawdown(list, DOMAIN list).drawdown
<1> DEFINE n == Len(list)
           part == EquityCurve(list, group)
           whole == EquityCurve(list, DOMAIN list)
           gain == [k \in 1..n |-> list[k].result]
           less == MaximumDrawdown(list, group).drawdown
           most == MaximumDrawdown(list, DOMAIN list).drawdown
<1>1. n \in Nat /\ DOMAIN list = 1..n
  OBVIOUS
<1>2. /\ part \in [0..n -> Int]
      /\ \A k \in 1..n : /\ list[k].result \in Int
                         /\ part[k] = IF k \in group THEN part[k - 1] + list[k].result ELSE part[k - 1]
  BY CurveMoves
<1>3. /\ whole \in [0..n -> Int]
      /\ \A k \in 1..n : whole[k] = IF k \in DOMAIN list THEN whole[k - 1] + list[k].result ELSE whole[k - 1]
  BY CurveMoves
<1>4. less \in Int /\ most \in Int
  BY DeepestFall DEF States
<1>5. PICK i \in 0..n, j \in 0..n : i <= j /\ part[i] - part[j] = less
  BY DeepestFall DEF Deepest
<1>6. \A i1, j1 \in 0..n : i1 <= j1 => whole[i1] - whole[j1] <= most
  BY DeepestFall DEF Deepest
<1> HIDE DEF n, part, whole, less, most
<1>7. PICK from \in 0..n, to \in 0..n : from <= to /\ part[i] - part[j] = whole[from] - whole[to]
  <2>1. gain \in [1..n -> Int] /\ \A k \in 1..n : gain[k] = list[k].result
    BY <1>2
  <2> HIDE DEF gain
  <2>2. MovesAt(whole, 1..n, gain, n) /\ MovesAt(part, group, gain, n)
    BY <1>1, <1>2, <1>3, <2>1 DEF MovesAt
  <2>3. j \in i..n /\ group \subseteq 1..n /\ Stretch(group)
    BY <1>1, <1>5 DEF Stretch
  <2>4. n \in Nat /\ part \in [0..n -> Int] /\ whole \in [0..n -> Int] /\ gain \in [1..n -> Int]
    BY <1>1, <1>2, <1>3, <2>1
  <2>5. FallsBy(whole, n, part[i] - part[j])
    BY <2>2, <2>3, <2>4, ContiguousFalls
  <2> QED
    BY <2>5 DEF FallsBy
<1> QED
  BY <1>4, <1>5, <1>6, <1>7 DEF less, most

\* One value grows by w, and no other changes.
GrowsBy(D, f, g, p, w) ==
    /\ f \in [D -> Nat] /\ g \in [D -> Nat] /\ p \in D /\ w \in Nat
    /\ g[p] = f[p] + w /\ \A x \in D \ {p} : g[x] = f[x]
\* It adds w units to the sum.
LEMMA SumGrows ==
    ASSUME NEW D, NEW f, NEW g, NEW p, NEW w, GrowsBy(D, f, g, p, w), IsFiniteSet(UnitsOf(f))
    PROVE  IsFiniteSet(UnitsOf(g)) /\ SumOf(g) = SumOf(f) + w
<1> USE DEF GrowsBy
<1> DEFINE old == UnitsOf(f)
           rest == f[p] + 1..f[p] + w
           new == {p} \X rest
<1>1. f[p] \in Nat /\ g[p] \in Nat
  OBVIOUS
<1>2. IsFiniteSet(rest) /\ Cardinality(rest) = w
  <2> DEFINE low == f[p] + 1
             high == f[p] + w
  <2>1. low \in Int /\ high \in Int /\ high - low + 1 = w /\ (low > high => w = 0)
    BY <1>1
  <2>2. rest = low..high
    OBVIOUS
  <2> HIDE DEF low, high, rest
  <2>3. IsFiniteSet(low..high) /\ Cardinality(low..high) = IF low > high THEN 0 ELSE high - low + 1
    BY <2>1, FS_Interval
  <2> QED
    BY <2>1, <2>2, <2>3
<1>3. IsFiniteSet(new) /\ Cardinality(new) = w
  <2>1. IsFiniteSet({p}) /\ Cardinality({p}) = 1
    BY FS_Singleton
  <2> HIDE DEF rest
  <2>2. IsFiniteSet({p} \X rest) /\ Cardinality({p} \X rest) = Cardinality({p}) * Cardinality(rest)
    BY <1>2, <2>1, FS_Product
  <2> QED
    BY <1>2, <2>1, <2>2
<1>4. old \cap new = {}
  <2> SUFFICES ASSUME NEW unit, unit \in old, unit \in new PROVE FALSE
    OBVIOUS
  <2>1. PICK x \in D : unit \in {x} \X (1..f[x])
    BY DEF UnitsOf
  <2>2. PICK k \in 1..f[x] : unit = <<x, k>>
    BY <2>1
  <2>3. PICK m \in rest : unit = <<p, m>>
    OBVIOUS
  <2>4. x = p /\ k = m
    BY <2>2, <2>3
  <2> QED
    BY <1>1, <2>2, <2>3, <2>4
<1>5. UnitsOf(g) = old \cup new
  <2>1. ASSUME NEW x \in D PROVE {x} \X (1..g[x]) \subseteq old \cup new
    <3>1. CASE x = p
      <4>1. 1..g[x] \subseteq (1..f[x]) \cup rest
        BY <1>1, <3>1
      <4>2. {x} \X (1..g[x]) \subseteq ({x} \X (1..f[x])) \cup new
        BY <3>1, <4>1
      <4>3. {x} \X (1..f[x]) \subseteq old
        BY DEF UnitsOf
      <4> QED
        BY <4>2, <4>3
    <3>2. CASE x # p
      BY <3>2 DEF UnitsOf
    <3> QED
      BY <3>1, <3>2
  <2>2. ASSUME NEW x \in D PROVE {x} \X (1..f[x]) \subseteq UnitsOf(g)
    <3>1. 1..f[x] \subseteq 1..g[x]
      <4>1. f[x] \in Nat /\ g[x] \in Nat /\ f[x] <= g[x]
        <5>1. CASE x = p
          BY <5>1
        <5>2. CASE x # p
          BY <5>2
        <5> QED
          BY <5>1, <5>2
      <4> QED
        BY <4>1
    <3>2. {x} \X (1..f[x]) \subseteq {x} \X (1..g[x])
      BY <3>1
    <3>3. {x} \X (1..g[x]) \subseteq UnitsOf(g)
      BY DEF UnitsOf
    <3> QED
      BY <3>2, <3>3
  <2>3. new \subseteq UnitsOf(g)
    <3>1. rest \subseteq 1..g[p]
      BY <1>1
    <3>2. new \subseteq {p} \X (1..g[p])
      BY <3>1
    <3>3. {p} \X (1..g[p]) \subseteq UnitsOf(g)
      BY DEF UnitsOf
    <3> QED
      BY <3>2, <3>3
  <2>4. UnitsOf(g) \subseteq old \cup new
    <3> HIDE DEF old, new
    <3>1. UnitsOf(g) = UNION {{x} \X (1..g[x]) : x \in D}
      BY DEF UnitsOf
    <3> QED
      BY <2>1, <3>1
  <2>5. old \subseteq UnitsOf(g)
    <3>1. old = UNION {{x} \X (1..f[x]) : x \in D}
      BY DEF UnitsOf
    <3> HIDE DEF old
    <3> QED
      BY <2>2, <3>1
  <2> HIDE DEF old, new
  <2> QED
    BY <2>3, <2>4, <2>5
<1> HIDE DEF old, new
<1>6. IsFiniteSet(old)
  BY DEF old
<1>7. /\ IsFiniteSet(old \cup new)
      /\ Cardinality(old \cup new) = Cardinality(old) + Cardinality(new) - Cardinality(old \cap new)
  BY <1>3, <1>6, FS_Union
<1>8. Cardinality(old) \in Nat /\ Cardinality(old \cap new) = 0
  BY <1>4, <1>6, FS_CardinalityType, FS_EmptySet
<1>9. Cardinality(old \cup new) = Cardinality(old) + w
  BY <1>3, <1>7, <1>8
<1> QED
  BY <1>5, <1>7, <1>9 DEF SumOf, old

\* A value goes up by the weight of each position of the group, from zero.
Measures(m, weight, group, n) ==
    /\ m \in [0..n -> Nat] /\ m[0] = 0
    /\ \A i \in 1..n : m[i] = IF i \in group THEN m[i - 1] + weight[i] ELSE m[i - 1]

\* The same for each part of the positions.
EachMeasures(each, part, weight, D, n) ==
    \A p \in D : Measures(each[p], weight, {i \in 1..n : part[i] = p}, n)

\* What the measures of the parts come to.
Ends(each, D, n) == [p \in D |-> each[p][n]]

\* The measures of the parts add up to the measure of the whole.
LEMMA MeasuresAdd ==
    ASSUME NEW n \in Nat, NEW D, NEW part \in [1..n -> D], NEW weight \in [1..n -> Nat],
           NEW whole, Measures(whole, weight, 1..n, n),
           NEW each, EachMeasures(each, part, weight, D, n)
    PROVE  SumOf(Ends(each, D, n)) = whole[n]
<1> DEFINE sofar(i) == [p \in D |-> each[p][i]]
           G == {i \in 0..n : IsFiniteSet(UnitsOf(sofar(i))) /\ SumOf(sofar(i)) = whole[i]}
<1>1. /\ \A i \in 0..n : whole[i] \in Nat
      /\ whole[0] = 0
      /\ \A i \in 1..n : whole[i] = whole[i - 1] + weight[i]
  BY DEF Measures
<1>2. ASSUME NEW p \in D
      PROVE  /\ \A i \in 0..n : each[p][i] \in Nat
             /\ each[p][0] = 0
             /\ \A i \in 1..n : each[p][i] = IF part[i] = p THEN each[p][i - 1] + weight[i] ELSE each[p][i - 1]
  <2> DEFINE m == each[p]
             group == {i \in 1..n : part[i] = p}
  <2>1. Measures(m, weight, group, n)
    BY DEF EachMeasures
  <2>2. \A i \in 1..n : i \in group <=> part[i] = p
    OBVIOUS
  <2> HIDE DEF m, group
  <2>3. /\ \A i \in 0..n : m[i] \in Nat
        /\ m[0] = 0
        /\ \A i \in 1..n : m[i] = IF part[i] = p THEN m[i - 1] + weight[i] ELSE m[i - 1]
    BY <2>1, <2>2 DEF Measures
  <2> QED
    BY <2>3 DEF m
<1>3. \A i \in 0..n : sofar(i) \in [D -> Nat]
  BY <1>2
<1>4. 0 \in G
  <2>1. UnitsOf(sofar(0)) = {}
    <3>1. \A p \in D : sofar(0)[p] = 0
      BY <1>2
    <3>2. DOMAIN sofar(0) = D
      OBVIOUS
    <3> HIDE DEF sofar
    <3>3. \A p \in D : {p} \X (1..sofar(0)[p]) = {}
      BY <3>1
    <3> QED
      BY <3>2, <3>3 DEF UnitsOf
  <2> HIDE DEF sofar
  <2>2. IsFiniteSet({}) /\ Cardinality({}) = 0
    BY FS_EmptySet
  <2>3. SumOf(sofar(0)) = 0 /\ IsFiniteSet(UnitsOf(sofar(0)))
    BY <2>1, <2>2 DEF SumOf
  <2>4. 0 \in 0..n
    OBVIOUS
  <2> QED
    BY <1>1, <2>3, <2>4
<1>5. ASSUME NEW i \in 1..n, i - 1 \in G PROVE i \in G
  <2>1. i \in 0..n /\ i - 1 \in 0..n /\ part[i] \in D /\ weight[i] \in Nat
    OBVIOUS
  <2>2. sofar(i)[part[i]] = sofar(i - 1)[part[i]] + weight[i]
    BY <1>2, <2>1
  <2>3. \A x \in D \ {part[i]} : sofar(i)[x] = sofar(i - 1)[x]
    BY <1>2, <2>1
  <2>4. sofar(i) \in [D -> Nat] /\ sofar(i - 1) \in [D -> Nat]
    BY <1>3, <2>1
  <2>5. IsFiniteSet(UnitsOf(sofar(i - 1))) /\ SumOf(sofar(i - 1)) = whole[i - 1]
    BY <1>5
  <2> DEFINE f == sofar(i - 1)
             g == sofar(i)
             q == part[i]
             w == weight[i]
  <2>9. f \in [D -> Nat] /\ g \in [D -> Nat]
    BY <2>4
  <2>10. g[q] = f[q] + w /\ \A x \in D \ {q} : g[x] = f[x]
    BY <2>2, <2>3
  <2>11. q \in D /\ w \in Nat
    BY <2>1
  <2>12. IsFiniteSet(UnitsOf(f))
    BY <2>5
  <2> HIDE DEF f, g, q, w
  <2>6. GrowsBy(D, f, g, q, w)
    BY <2>9, <2>10, <2>11 DEF GrowsBy
  <2>7. IsFiniteSet(UnitsOf(g)) /\ SumOf(g) = SumOf(f) + w
    BY <2>6, <2>12, SumGrows
  <2>8. IsFiniteSet(UnitsOf(sofar(i))) /\ SumOf(sofar(i)) = SumOf(sofar(i - 1)) + weight[i]
    BY <2>7 DEF f, g, w
  <2> HIDE DEF sofar
  <2> QED
    BY <1>1, <2>1, <2>5, <2>8
<1>6. 0..n \subseteq G
  <2> HIDE DEF G
  <2> QED
    BY <1>4, <1>5, AllNumbers
<1>7. SumOf(sofar(n)) = whole[n]
  <2>1. n \in 0..n
    OBVIOUS
  <2> QED
    BY <1>6, <2>1
<1> QED
  BY <1>7 DEF Ends

\* What an outcome counts for, in each statistic that adds up.
Weight(list, field) ==
    [i \in 1..Len(list) |->
        CASE field = "signals" -> 1
          [] field = "winning" -> IF list[i].result > 0 THEN 1 ELSE 0
          [] field = "losing"  -> IF list[i].result < 0 THEN 1 ELSE 0
          [] field = "gain"    -> IF list[i].result > 0 THEN list[i].result ELSE 0
          [] field = "loss"    -> IF list[i].result < 0 THEN -list[i].result ELSE 0]
Added == {"signals", "winning", "losing", "gain", "loss"}

\* The size of a set of positions, up to each position.
LEMMA SizesMeasure ==
    ASSUME NEW n \in Nat, NEW group, group \subseteq 1..n
    PROVE  LET size == [i \in 0..n |-> Cardinality(group \cap 1..i)]
           IN  /\ size \in [0..n -> Nat] /\ size[0] = 0 /\ size[n] = Cardinality(group)
               /\ \A i \in 1..n : size[i] = IF i \in group THEN size[i - 1] + 1 ELSE size[i - 1]
<1> DEFINE size == [i \in 0..n |-> Cardinality(group \cap 1..i)]
<1>1. ASSUME NEW i \in 0..n PROVE IsFiniteSet(group \cap 1..i)
  <2>1. IsFiniteSet(1..i)
    BY FS_Interval
  <2> QED
    BY <2>1, FS_Subset
<1>2. size \in [0..n -> Nat]
  BY <1>1, FS_CardinalityType
<1>3. size[0] = 0
  <2>1. group \cap 1..0 = {} /\ 0 \in 0..n
    OBVIOUS
  <2>2. size[0] = Cardinality(group \cap 1..0)
    BY <2>1
  <2>3. Cardinality({}) = 0
    BY FS_EmptySet
  <2> QED
    BY <2>1, <2>2, <2>3
<1>4. size[n] = Cardinality(group)
  <2>1. n \in 0..n
    OBVIOUS
  <2>3. group \cap 1..n = group
    <3> HIDE DEF size
    <3> QED
      OBVIOUS
  <2>2. size[n] = Cardinality(group \cap 1..n)
    BY <2>1
  <2> QED
    BY <2>2, <2>3
<1>5. ASSUME NEW i \in 1..n
      PROVE  size[i] = IF i \in group THEN size[i - 1] + 1 ELSE size[i - 1]
  <2> DEFINE before == group \cap 1..i - 1
             upto == group \cap 1..i
  <2>1. i \in 0..n /\ i - 1 \in 0..n /\ size[i] = Cardinality(upto) /\ size[i - 1] = Cardinality(before)
    OBVIOUS
  <2>2. IsFiniteSet(before) /\ i \notin before
    BY <1>1, <2>1
  <2>3. upto = IF i \in group THEN before \cup {i} ELSE before
    <3>1. i \in Int /\ i >= 1 /\ 1..i = 1..i - 1 \cup {i}
      OBVIOUS
    <3> QED
      BY <3>1
  <2> HIDE DEF before, upto
  <2>4. Cardinality(before \cup {i}) = Cardinality(before) + 1
    BY <2>2, FS_AddElement
  <2> QED
    BY <2>1, <2>3, <2>4
<1> QED
  BY <1>2, <1>3, <1>4, <1>5

\* Weights are natural numbers.
LEMMA WeightsCount ==
    ASSUME NEW list \in Seq(Outcomes), NEW field \in Added
    PROVE  /\ Len(list) \in Nat /\ \A i \in 1..Len(list) : list[i].result \in Int
           /\ Weight(list, field) \in [1..Len(list) -> Nat]
<1>1. Len(list) \in Nat /\ \A i \in 1..Len(list) : list[i].result \in Int
  BY CurveMoves
<1> DEFINE weight(i) ==
             CASE field = "signals" -> 1
               [] field = "winning" -> IF list[i].result > 0 THEN 1 ELSE 0
               [] field = "losing"  -> IF list[i].result < 0 THEN 1 ELSE 0
               [] field = "gain"    -> IF list[i].result > 0 THEN list[i].result ELSE 0
               [] field = "loss"    -> IF list[i].result < 0 THEN -list[i].result ELSE 0
<1>2. ASSUME NEW i \in 1..Len(list) PROVE weight(i) \in Nat
  <2> DEFINE r == list[i].result
  <2>1. r \in Int
    BY <1>1
  <2>2. weight(i) = CASE field = "signals" -> 1
                      [] field = "winning" -> IF r > 0 THEN 1 ELSE 0
                      [] field = "losing"  -> IF r < 0 THEN 1 ELSE 0
                      [] field = "gain"    -> IF r > 0 THEN r ELSE 0
                      [] field = "loss"    -> IF r < 0 THEN -r ELSE 0
    OBVIOUS
  <2> HIDE DEF r, weight
  <2> QED
    BY <2>1, <2>2 DEF Added
<1>3. Weight(list, field) = [i \in 1..Len(list) |-> weight(i)]
  BY DEF Weight
<1> HIDE DEF weight
<1> QED
  BY <1>1, <1>2, <1>3

\* A statistic that adds up is the measure of its group.
Measured(list, group, field) ==
    \E m : /\ Measures(m, Weight(list, field), group, Len(list))
           /\ Statistics(list, group)[field] = m[Len(list)]

\* The statistics of any group measure it.
LEMMA FieldsMeasure ==
    ASSUME NEW list \in Seq(Outcomes), NEW group, group \subseteq DOMAIN list, NEW field \in Added
    PROVE  Measured(list, group, field)
<1> DEFINE n == Len(list)
           w == Weight(list, field)
           won == Gains(list, group)
           lost == Losses(list, group)
<1>1. /\ n \in Nat /\ DOMAIN list = 1..n /\ w \in [1..n -> Nat]
      /\ \A i \in 1..n : list[i].result \in Int
  BY WeightsCount
<1>2. /\ won = {i \in group : list[i].result > 0} /\ won \subseteq 1..n
      /\ lost = {i \in group : list[i].result < 0} /\ lost \subseteq 1..n /\ group \subseteq 1..n
  BY <1>1 DEF Gains, Losses
<1>3. \A i \in 1..n : w[i] = CASE field = "signals" -> 1
                               [] field = "winning" -> IF list[i].result > 0 THEN 1 ELSE 0
                               [] field = "losing"  -> IF list[i].result < 0 THEN 1 ELSE 0
                               [] field = "gain"    -> IF list[i].result > 0 THEN list[i].result ELSE 0
                               [] field = "loss"    -> IF list[i].result < 0 THEN -list[i].result ELSE 0
  BY DEF Weight
<1>4. Statistics(list, group)[field] =
        CASE field = "signals" -> Cardinality(group)
          [] field = "winning" -> Cardinality(won)
          [] field = "losing"  -> Cardinality(lost)
          [] field = "gain"    -> Total(list, won)
          [] field = "loss"    -> -Total(list, lost)
  BY DEF Statistics, Added
<1> HIDE DEF n, w, won, lost
<1>5. ASSUME NEW part, part \subseteq 1..n, Statistics(list, group)[field] = Cardinality(part),
             \A i \in 1..n : (i \in group => w[i] = IF i \in part THEN 1 ELSE 0) /\ (i \in part => i \in group)
      PROVE  Measured(list, group, field)
  <2> DEFINE size == [i \in 0..n |-> Cardinality(part \cap 1..i)]
  <2>1. /\ size \in [0..n -> Nat] /\ size[0] = 0 /\ size[n] = Cardinality(part)
        /\ \A i \in 1..n : size[i] = IF i \in part THEN size[i - 1] + 1 ELSE size[i - 1]
    BY <1>1, <1>5, SizesMeasure
  <2> HIDE DEF size
  <2>2. ASSUME NEW i \in 1..n
        PROVE  size[i] = IF i \in group THEN size[i - 1] + w[i] ELSE size[i - 1]
    <3>1. size[i - 1] \in Nat
      <4>1. i - 1 \in 0..n
        BY <1>1
      <4> QED
        BY <2>1, <4>1
    <3> QED
      BY <1>5, <2>1, <3>1
  <2>3. Measures(size, w, group, n)
    BY <2>1, <2>2 DEF Measures
  <2> QED
    BY <1>5, <2>1, <2>3 DEF Measured, n, w
<1>6. ASSUME NEW part, NEW sign \in {-1, 1}, part \subseteq 1..n,
             Statistics(list, group)[field] = sign * Total(list, part),
             \A i \in 1..n : /\ i \in group => w[i] = IF i \in part THEN sign * list[i].result ELSE 0
                             /\ i \in part => i \in group
      PROVE  Measured(list, group, field)
  <2> DEFINE total == Totals(list, part)
             m == [i \in 0..n |-> sign * total[i]]
             G == {i \in 0..n : m[i] \in Nat}
  <2>1. /\ total \in [0..n -> Int] /\ total[0] = 0 /\ Total(list, part) = total[n]
        /\ \A i \in 1..n : total[i] = IF i \in part THEN total[i - 1] + list[i].result ELSE total[i - 1]
    BY TotalsRun DEF Running, Total, n
  <2> HIDE DEF total
  <2>2. \A i \in 0..n : m[i] = sign * total[i] /\ m[i] \in Int /\ total[i] \in Int
    BY <2>1
  <2>3. m[0] = 0 /\ m[n] = sign * total[n] /\ 0 \in 0..n
    BY <1>1, <2>1
  <2>4. ASSUME NEW i \in 1..n
        PROVE  m[i] = IF i \in group THEN m[i - 1] + w[i] ELSE m[i - 1]
    <3>1. i \in 0..n /\ i - 1 \in 0..n
      BY <1>1
    <3>2. /\ m[i] = sign * total[i] /\ m[i - 1] = sign * total[i - 1]
          /\ total[i - 1] \in Int /\ list[i].result \in Int
      BY <1>1, <2>2, <3>1
    <3> HIDE DEF m
    <3>3. CASE i \in part
      <4> DEFINE r == list[i].result
                 t == total[i - 1]
      <4>1. m[i] = sign * (t + r) /\ w[i] = sign * r /\ m[i - 1] = sign * t /\ t \in Int /\ r \in Int
        BY <1>6, <2>1, <3>2, <3>3
      <4>2. i \in group
        BY <1>6, <3>3
      <4> HIDE DEF r, t
      <4> QED
        BY <4>1, <4>2
    <3>4. CASE i \notin part
      <4>1. m[i] = m[i - 1] /\ (i \in group => w[i] = 0) /\ m[i - 1] \in Int
        BY <1>6, <2>1, <2>2, <3>1, <3>2, <3>4
      <4> QED
        BY <4>1
    <3> QED
      BY <3>3, <3>4
  <2>5. 0..n \subseteq G
    <3>1. 0 \in G
      BY <2>3
    <3>2. ASSUME NEW i \in 1..n, i - 1 \in G PROVE i \in G
      <4>1. i \in 0..n /\ m[i - 1] \in Nat /\ w[i] \in Nat
        BY <1>1, <3>2
      <4> HIDE DEF m
      <4> QED
        BY <2>4, <4>1
    <3> HIDE DEF G
    <3> QED
      BY <1>1, <3>1, <3>2, AllNumbers
  <2>6. m \in [0..n -> Nat]
    BY <2>5
  <2> HIDE DEF m
  <2>7. Measures(m, w, group, n)
    BY <2>3, <2>4, <2>6 DEF Measures
  <2> QED
    BY <1>6, <2>1, <2>3, <2>7 DEF Measured, n, w
<1>7. CASE field = "signals"
  BY <1>2, <1>3, <1>4, <1>5, <1>7
<1>8. CASE field = "winning"
  BY <1>2, <1>3, <1>4, <1>5, <1>8
<1>9. CASE field = "losing"
  BY <1>2, <1>3, <1>4, <1>5, <1>9
<1>10. CASE field = "gain"
  <2> DEFINE sum == Total(list, won)
  <2>1. sum \in Int
    <3>1. n \in 0..n
      BY <1>1
    <3> QED
      BY <3>1, TotalsRun DEF Running, Total, n
  <2>2. Statistics(list, group)[field] = sum
    BY <1>4, <1>10
  <2> HIDE DEF sum
  <2>3. Statistics(list, group)[field] = 1 * sum
    BY <2>1, <2>2
  <2>4. \A i \in 1..n : /\ i \in group => w[i] = IF i \in won THEN 1 * list[i].result ELSE 0
                        /\ i \in won => i \in group
    BY <1>1, <1>2, <1>3, <1>10
  <2> QED
    BY <1>2, <1>6, <2>3, <2>4 DEF sum
<1>11. CASE field = "loss"
  <2> DEFINE sum == Total(list, lost)
  <2>1. sum \in Int
    <3>1. n \in 0..n
      BY <1>1
    <3> QED
      BY <3>1, TotalsRun DEF Running, Total, n
  <2>2. Statistics(list, group)[field] = -sum
    BY <1>4, <1>11
  <2> HIDE DEF sum
  <2>3. Statistics(list, group)[field] = (-1) * sum
    BY <2>1, <2>2
  <2>4. \A i \in 1..n : /\ i \in group => w[i] = IF i \in lost THEN (-1) * list[i].result ELSE 0
                        /\ i \in lost => i \in group
    BY <1>1, <1>2, <1>3, <1>11
  <2> QED
    BY <1>2, <1>6, <2>3, <2>4 DEF sum
<1> QED
  BY <1>7, <1>8, <1>9, <1>10, <1>11 DEF Added

\* A list in order of closing, as the query returns it.
InClosingOrder(list) ==
    /\ list \in Seq(Outcomes)
    /\ \A i, j \in DOMAIN list : i < j => list[i].closed <= list[j].closed

\* The list of a table is in order of closing.
LEMMA TablesAreListed ==
    ASSUME NEW rows, Table(rows)
    PROVE  InClosingOrder(Listed(rows)) /\ Len(Listed(rows)) = Cardinality(rows)
<1> DEFINE list == Listed(rows)
<1>1. list \in Seq(Outcomes) /\ IsListing(rows, list) /\ Len(list) = Cardinality(rows)
  BY ListedInOrder
<1> HIDE DEF list
<1>2. ASSUME NEW i \in DOMAIN list, NEW j \in DOMAIN list, i < j
      PROVE  list[i].closed <= list[j].closed
  <2>1. ListedBefore(list[i], list[j])
    BY <1>1, <1>2 DEF IsListing
  <2>2. list[i] \in Outcomes /\ list[j] \in Outcomes
    BY <1>1
  <2>3. list[i].closed \in Nat /\ list[j].closed \in Nat
    BY <2>2, AnalyticsAssumption DEF Outcomes
  <2> QED
    BY <2>1, <2>3 DEF ListedBefore
<1> QED
  BY <1>1, <1>2 DEF InClosingOrder, list

\* The positions of a period follow one another without a gap.
LEMMA PeriodsAreRuns ==
    ASSUME NEW list, InClosingOrder(list), NEW kind \in DOMAIN PeriodOf, NEW period
    PROVE  /\ InPeriod(list, kind, period) \subseteq DOMAIN list
           /\ \A i, j \in InPeriod(list, kind, period) :
                \A k \in i..j : k \in InPeriod(list, kind, period)
<1> DEFINE at(i) == PeriodOf[kind][list[i].closed]
           group == InPeriod(list, kind, period)
<1>1. list \in Seq(Outcomes) /\ DOMAIN list = 1..Len(list) /\ Len(list) \in Nat
  BY DEF InClosingOrder
<1>2. \A i \in DOMAIN list : list[i].closed \in Closes /\ list[i].closed \in Nat
  <2>1. Closes \subseteq Nat /\ \A o \in Outcomes : o.closed \in Closes
    BY AnalyticsAssumption DEF Outcomes
  <2>2. \A i \in DOMAIN list : list[i] \in Outcomes
    BY <1>1
  <2> QED
    BY <2>1, <2>2
<1>3. group = {i \in DOMAIN list : at(i) = period}
  BY DEF InPeriod
<1>4. ASSUME NEW i \in DOMAIN list, NEW j \in DOMAIN list, i <= j
      PROVE  at(i) \in Nat /\ at(i) <= at(j)
  <2>1. list[i].closed <= list[j].closed
    <3>1. CASE i = j
      BY <1>2, <3>1
    <3>2. CASE i # j
      <4>1. i < j
        BY <1>1, <1>4, <3>2
      <4> QED
        BY <4>1 DEF InClosingOrder
    <3> QED
      BY <3>1, <3>2
  <2>2. /\ PeriodOf[kind] \in [Closes -> Nat]
        /\ \A t, u \in Closes : t <= u => PeriodOf[kind][t] <= PeriodOf[kind][u]
    BY AnalyticsAssumption
  <2> QED
    BY <1>2, <2>1, <2>2
<1> HIDE DEF at
<1>5. ASSUME NEW i \in group, NEW j \in group, NEW k \in i..j PROVE k \in group
  <2> HIDE DEF group
  <2>1. i \in DOMAIN list /\ j \in DOMAIN list /\ at(i) = period /\ at(j) = period
    BY <1>3
  <2>2. k \in DOMAIN list /\ i <= k /\ k <= j
    BY <1>1, <2>1
  <2>3. at(i) <= at(k) /\ at(k) <= at(j) /\ at(k) \in Nat /\ at(i) \in Nat
    BY <1>4, <2>1, <2>2
  <2>4. at(k) = period
    BY <2>1, <2>3
  <2> QED
    BY <1>3, <2>2, <2>4
<1> QED
  BY <1>3, <1>5

\* The statistics of the periods add up to those of the whole list.
LEMMA FieldsAddUp ==
    ASSUME NEW list \in Seq(Outcomes), NEW kind \in DOMAIN PeriodOf, NEW field \in Added
    PROVE  LET periods == PeriodStatistics(list, kind)
           IN  /\ \A p \in DOMAIN periods : periods[p][field] \in Nat
               /\ SumOf([p \in DOMAIN periods |-> periods[p][field]]) = Statistics(list, DOMAIN list)[field]
<1> DEFINE n == Len(list)
           D == Periods(list, kind)
           periods == PeriodStatistics(list, kind)
           part == [i \in 1..n |-> PeriodOf[kind][list[i].closed]]
           group(p) == InPeriod(list, kind, p)
           w == Weight(list, field)
           Right(m, g) == Measures(m, w, g, n) /\ Statistics(list, g)[field] = m[n]
           each == [p \in D |-> CHOOSE m : Right(m, group(p))]
<1>1. n \in Nat /\ w \in [1..n -> Nat] /\ DOMAIN list = 1..n
  BY WeightsCount
<1>2. part \in [1..n -> D] /\ \A p \in D : group(p) = {i \in 1..n : part[i] = p}
  BY <1>1 DEF Periods, InPeriod
<1>3. DOMAIN periods = D /\ \A p \in D : periods[p][field] = Statistics(list, group(p))[field]
  BY DEF PeriodStatistics
<1>4. ASSUME NEW g, g \subseteq 1..n PROVE \E m : Right(m, g)
  <2>1. Measured(list, g, field)
    BY <1>1, <1>4, FieldsMeasure
  <2> QED
    BY <2>1 DEF Measured
<1> HIDE DEF n, D, periods, part, group, w, Right
<1>5. ASSUME NEW p \in D PROVE Right(each[p], group(p))
  <2>1. group(p) \subseteq 1..n
    BY <1>2
  <2>2. \E m : Right(m, group(p))
    BY <1>4, <2>1
  <2> QED
    BY <2>2
<1>6. PICK whole : Right(whole, 1..n)
  BY <1>4
<1> HIDE DEF each
<1>7. Measures(whole, w, 1..n, n) /\ EachMeasures(each, part, w, D, n)
  BY <1>2, <1>5, <1>6 DEF Right, EachMeasures
<1>8. SumOf(Ends(each, D, n)) = whole[n]
  <2>1. n \in Nat /\ part \in [1..n -> D] /\ w \in [1..n -> Nat]
    BY <1>1, <1>2
  <2> QED
    BY <1>7, <2>1, MeasuresAdd
<1>9. \A p \in D : periods[p][field] = each[p][n] /\ each[p][n] \in Nat
  <2>1. n \in 0..n
    BY <1>1
  <2> QED
    BY <1>3, <1>5, <2>1 DEF Right, Measures
<1>10. [p \in DOMAIN periods |-> periods[p][field]] = Ends(each, D, n)
  BY <1>3, <1>9 DEF Ends
<1>11. Statistics(list, DOMAIN list)[field] = whole[n]
  BY <1>1, <1>6 DEF Right
<1> QED
  BY <1>3, <1>8, <1>9, <1>10, <1>11 DEF periods

\* Both parts of the property, for any table.
LEMMA DrawdownsAreRight ==
    ASSUME Table(outcomes)
    PROVE  DrawdownIsDeepestFall
<1> DEFINE list == Listed(outcomes)
           n == Len(list)
           curve == EquityCurve(list, DOMAIN list)
           deepest == MaximumDrawdown(list, DOMAIN list)
<1>1. list \in Seq(Outcomes) /\ n \in Nat
  BY TablesAreListed DEF InClosingOrder
<1>2. deepest \in States /\ Deepest(deepest, curve, n)
  BY <1>1, DeepestFall
<1>3. Snapshot.overall.drawdown = deepest.drawdown /\ Snapshot.overall.fraction = deepest.fraction
  BY DEF Snapshot, Statistics
<1>4. DOMAIN curve = 0..n
  BY DEF EquityCurve
<1> HIDE DEF list, n, curve, deepest
<1>5. Spans(curve) = {span \in (0..n) \X (0..n) : span[1] <= span[2]}
  BY <1>4 DEF Spans
<1>6. \A span \in Spans(curve) : FallOf(curve, span) <= deepest.drawdown
  BY <1>2, <1>5 DEF Deepest, FallOf
<1>7. PICK i \in 0..n, j \in 0..n :
        /\ i <= j /\ curve[i] - curve[j] = deepest.drawdown
        /\ deepest.drawdown > 0 => deepest.fraction = <<deepest.drawdown, curve[i]>>
  BY <1>2 DEF Deepest
<1>8. <<i, j>> \in Spans(curve) /\ FallOf(curve, <<i, j>>) = deepest.drawdown
  BY <1>5, <1>7 DEF FallOf
<1>9. \E span \in Spans(curve) :
        /\ FallOf(curve, span) = deepest.drawdown
        /\ deepest.drawdown > 0 => deepest.fraction = <<deepest.drawdown, curve[span[1]]>>
  <2>1. <<i, j>>[1] = i
    OBVIOUS
  <2> QED
    BY <1>7, <1>8, <2>1
<1> QED
  BY <1>3, <1>6, <1>9 DEF DrawdownIsDeepestFall, list, curve

LEMMA PeriodsAreRight ==
    ASSUME Table(outcomes)
    PROVE  PeriodsAddUp
<1> DEFINE list == Listed(outcomes)
<1>1. InClosingOrder(list) /\ list \in Seq(Outcomes)
  BY TablesAreListed DEF InClosingOrder
<1>2. /\ Snapshot.overall = Statistics(list, DOMAIN list)
      /\ \A kind \in DOMAIN PeriodOf : Snapshot.periods[kind] = PeriodStatistics(list, kind)
  BY DEF Snapshot
<1> HIDE DEF list
<1>3. ASSUME NEW kind \in DOMAIN PeriodOf
      PROVE  \A period \in DOMAIN PeriodStatistics(list, kind) :
               PeriodStatistics(list, kind)[period].drawdown <= Statistics(list, DOMAIN list).drawdown
  <2> TAKE period \in DOMAIN PeriodStatistics(list, kind)
  <2> DEFINE group == InPeriod(list, kind, period)
  <2>1. PeriodStatistics(list, kind)[period] = Statistics(list, group)
    BY DEF PeriodStatistics
  <2>2. group \subseteq DOMAIN list /\ \A i, j \in group : \A k \in i..j : k \in group
    BY <1>1, PeriodsAreRuns
  <2> HIDE DEF group
  <2>3. MaximumDrawdown(list, group).drawdown <= MaximumDrawdown(list, DOMAIN list).drawdown
    BY <1>1, <2>2, PartFallsLess
  <2> QED
    BY <2>1, <2>3 DEF Statistics
<1>4. \A kind \in DOMAIN PeriodOf : \A field \in Added :
        LET periods == PeriodStatistics(list, kind)
        IN  /\ \A p \in DOMAIN periods : periods[p][field] \in Nat
            /\ SumOf([p \in DOMAIN periods |-> periods[p][field]]) = Statistics(list, DOMAIN list)[field]
  BY <1>1, FieldsAddUp
<1> QED
  BY <1>2, <1>3, <1>4 DEF PeriodsAddUp, Added

\* The table is as it should be, whatever was recorded.
LEMMA RecordingKeepsTable ==
    ASSUME Table(outcomes), AnalyticsNext
    PROVE  Table(outcomes')
<1>1. PICK o \in Outcomes : RecordOutcome(o)
  BY DEF AnalyticsNext
<1>2. /\ outcomes' = outcomes \cup {o} /\ \A r \in outcomes : r.id # o.id
      /\ IsFiniteSet(outcomes) /\ outcomes \subseteq Outcomes
      /\ \A p, r \in outcomes : p.id = r.id => p = r
  BY <1>1 DEF RecordOutcome, Table
<1>3. IsFiniteSet(outcomes \cup {o})
  BY <1>2, FS_AddElement
<1> QED
  BY <1>2, <1>3 DEF Table

\* For any outcomes, observed in any order, the drawdown is the deepest fall of
\* the equity curve, the periods add up to the whole in signals, wins, losses,
\* gain and loss, and none falls deeper than the whole (AnalyticsEngine).
THEOREM AnalyticsAreRight == AnalyticsSpec => []AnalyticsFollowOutcomes
<1>1. outcomes = {} => Table(outcomes)
  BY FS_EmptySet DEF Table
<1>2. Table(outcomes) /\ [AnalyticsNext]_outcomes => Table(outcomes)'
  <2>1. CASE AnalyticsNext
    BY <2>1, RecordingKeepsTable DEF Table
  <2>2. CASE UNCHANGED outcomes
    BY <2>2 DEF Table
  <2> QED
    BY <2>1, <2>2
<1>3. Table(outcomes) => AnalyticsFollowOutcomes
  BY DrawdownsAreRight, PeriodsAreRight DEF AnalyticsFollowOutcomes
<1> QED
  BY <1>1, <1>2, <1>3, PTL DEF AnalyticsSpec

--------------------------------------------------------------------------------
(* The parts together.                                                     *)

\* Candles, analytics and the drawn chart share no state: what is proved of each
\* alone holds while the others are read.
THEOREM ReadsKeepParts == ReadSpec => Spec /\ AnalyticsSpec /\ PriceChartSpec
<1>1. ReadInit => Init /\ outcomes = {} /\ PriceChartInit
  BY DEF ReadInit
<1>2. [ReadNext]_readVars => [Next]_vars /\ [AnalyticsNext]_outcomes /\ [PriceChartNext]_priceChart
  <2> SUFFICES ASSUME [ReadNext]_readVars
               PROVE  [Next]_vars /\ [AnalyticsNext]_outcomes /\ [PriceChartNext]_priceChart
    OBVIOUS
  <2>1. CASE ReadMarket
    BY <2>1 DEF ReadMarket
  <2>2. CASE Record
    BY <2>2 DEF Record
  <2>3. CASE DrawChart
    BY <2>3 DEF DrawChart
  <2>4. CASE UNCHANGED readVars
    BY <2>4 DEF readVars
  <2> QED
    BY <2>1, <2>2, <2>3, <2>4 DEF ReadNext
<1> QED
  BY <1>1, <1>2, PTL DEF ReadSpec, Spec, AnalyticsSpec, PriceChartSpec
================================================================================
