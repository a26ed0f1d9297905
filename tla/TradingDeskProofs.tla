--------------------------- MODULE TradingDeskProofs ---------------------------
(***************************************************************************)
(* What the risk engine guarantees for every policy and context its        *)
(* validators accept, and what the trading desk guarantees for any         *)
(* symbols, workers, policies and sequences of bars.                       *)
(***************************************************************************)
EXTENDS TradingDesk, FiniteSetTheorems, TLAPS

-------------------------------------------------------------------------------
(* Arithmetic of the risk engine.                                          *)

\* Integer division rounds down.
LEMMA DivisionBound ==
    ASSUME NEW a \in Nat, NEW d \in Nat, d > 0
    PROVE  (a \div d) \in Nat /\ (a \div d) * d <= a
OBVIOUS

\* Division without remainder.
LEMMA DivisionExact ==
    ASSUME NEW a \in Nat, NEW d \in Nat, d > 0, a % d = 0
    PROVE  (a \div d) \in Nat /\ a = d * (a \div d)
OBVIOUS

\* A product of positive numbers is positive.
LEMMA ProductPositive ==
    ASSUME NEW a \in Nat, NEW b \in Nat, a > 0, b > 0
    PROVE  a * b \in Nat /\ a * b > 0
OBVIOUS

\* Multiplying by a natural number keeps the order.
LEMMA ProductMonotone ==
    ASSUME NEW a \in Int, NEW b \in Int, NEW k \in Nat, a <= b
    PROVE  k * a <= k * b
OBVIOUS

\* The size is a whole number of shares, and losing the stop distance on each of
\* them costs no more than the fraction of the equity one trade may risk: the
\* rounding of engine.py is never in favour of a larger position.
THEOREM SizedWithinRisk ==
    ASSUME NEW p, NEW c, ValidPolicy(p), ValidContext(c)
    PROVE  /\ PositionSize(p, c) \in Nat
           /\ PositionRisk(p, c) <= c.equity * p.risk
<1>1. p.risk \in Nat /\ p.risk > 0 /\ p.stop \in Nat /\ p.stop > 0
  BY OneAssumption DEF ValidPolicy
<1>2. c.equity \in Nat /\ c.equity > 0 /\ c.atr \in Nat /\ c.atr > 0
  BY DEF ValidContext
<1>3. StopDistance(p, c) \in Nat /\ StopDistance(p, c) > 0
  BY <1>1, <1>2, ProductPositive DEF StopDistance
<1>4. c.equity * p.risk \in Nat
  BY <1>1, <1>2, ProductPositive
<1> QED
  BY <1>3, <1>4, DivisionBound DEF PositionSize, PositionRisk

\* The target is never nearer than the stop, so that the ratio of reward and
\* risk a signal must have (types.py: at least 1) cannot refuse an approval.
THEOREM RewardCoversRisk ==
    ASSUME NEW p, NEW c, ValidPolicy(p), ValidContext(c)
    PROVE  StopDistance(p, c) <= ExpectedMove(p, c)
<1>1. /\ p.stop \in Nat /\ p.target \in Nat /\ p.reward \in Nat
      /\ One \in Nat /\ One > 0
      /\ p.reward >= One /\ p.target * One >= p.reward * p.stop
  BY OneAssumption DEF ValidPolicy
<1>2. p.stop * One <= p.stop * p.reward
  BY <1>1, ProductMonotone
<1>3. p.stop <= p.target
  <2> SUFFICES ASSUME p.target + 1 <= p.stop PROVE FALSE
    BY <1>1
  <2>1. One * (p.target + 1) <= One * p.stop
    BY <1>1, ProductMonotone
  <2> QED
    BY <1>1, <1>2, <2>1
<1>4. c.atr \in Nat
  BY DEF ValidContext
<1> QED
  BY <1>1, <1>3, <1>4, ProductMonotone DEF StopDistance, ExpectedMove

\* An approved entry is paid from cash, and never with borrowed money: it costs
\* no more than the available cash when there is any, and never more than the
\* equity, also when a cash of zero lets it pass the test of the reserve.
THEOREM ApprovalIsFunded ==
    ASSUME NEW p, NEW c, NEW direction,
           ValidPolicy(p), ValidContext(c), Approves(p, c, direction)
    PROVE  /\ c.cash > 0 => Notional(p, c) <= c.cash
           /\ c.exposure + Notional(p, c) <= c.equity
<1>1. One \in Nat /\ One > 0 /\ p.reserve \in Nat /\ p.gross \in Nat /\ p.gross <= One
  BY OneAssumption DEF ValidPolicy
<1>2. c.equity \in Nat /\ c.cash \in Nat /\ c.exposure \in Nat /\ c.price \in Nat
  BY DEF ValidContext
<1>3. Notional(p, c) \in Nat
  <2>1. PositionSize(p, c) \in Nat
    BY SizedWithinRisk
  <2> QED
    BY <1>2, <2>1 DEF Notional
<1>4. ASSUME c.cash > 0 PROVE Notional(p, c) <= c.cash
  <2>1. (c.cash - Notional(p, c)) * One >= c.equity * p.reserve
    BY <1>2, <1>4 DEF Approves, KeepsReserve
  <2>2. c.equity * p.reserve >= 0
    BY <1>1, <1>2
  <2> SUFFICES ASSUME c.cash - Notional(p, c) <= -1 PROVE FALSE
    BY <1>2, <1>3
  <2>3. One * (c.cash - Notional(p, c)) <= One * (-1)
    BY <1>1, <1>2, <1>3, ProductMonotone
  <2> QED
    BY <1>1, <1>2, <1>3, <2>1, <2>2, <2>3
<1>5. c.exposure + Notional(p, c) <= c.equity
  <2>1. (c.exposure + Notional(p, c)) * One <= c.equity * p.gross
    BY DEF Approves, WithinExposure
  <2>2. c.equity * p.gross <= c.equity * One
    BY <1>1, <1>2, ProductMonotone
  <2> SUFFICES ASSUME c.equity + 1 <= c.exposure + Notional(p, c) PROVE FALSE
    BY <1>2, <1>3
  <2>3. One * (c.equity + 1) <= One * (c.exposure + Notional(p, c))
    BY <1>1, <1>2, <1>3, ProductMonotone
  <2> QED
    BY <1>1, <1>2, <1>3, <2>1, <2>2, <2>3
<1> QED
  BY <1>4, <1>5

-------------------------------------------------------------------------------
(* Sums, as numbers of units.                                              *)

\* The units of one member of a family are as many as its value.
LEMMA UnitsOfOne ==
    ASSUME NEW x, NEW n \in Nat
    PROVE  IsFiniteSet({x} \X (1..n)) /\ Cardinality({x} \X (1..n)) = n
<1>1. IsFiniteSet({x}) /\ Cardinality({x}) = 1
  BY FS_Singleton
<1>2. IsFiniteSet(1..n) /\ Cardinality(1..n) = n
  BY FS_Interval
<1>3. /\ IsFiniteSet({x} \X (1..n))
      /\ Cardinality({x} \X (1..n)) = Cardinality({x}) * Cardinality(1..n)
  BY <1>1, <1>2, FS_Product
<1> QED
  BY <1>1, <1>2, <1>3

\* The sum of a finite family of natural numbers is one.
LEMMA SumIsNatural ==
    ASSUME NEW D, IsFiniteSet(D), NEW f \in [D -> Nat]
    PROVE  IsFiniteSet(Units(f)) /\ SumOf(f) \in Nat
<1> DEFINE columns == [i \in D |-> {i} \X (1..f[i])]
           C == {columns[i] : i \in D}
<1>1. columns \in Surjection(D, C)
  BY DEF Surjection
<1>2. IsFiniteSet(C)
  <2> HIDE DEF C, columns
  <2> QED
    BY <1>1, FS_Surjection
<1>3. \A T \in C : IsFiniteSet(T)
  <2>1. ASSUME NEW i \in D PROVE IsFiniteSet(columns[i])
    <3>1. f[i] \in Nat
      OBVIOUS
    <3> QED
      BY <3>1, UnitsOfOne
  <2> QED
    BY <2>1
<1>4. Units(f) = UNION C
  BY DEF Units
<1>5. IsFiniteSet(UNION C)
  <2> HIDE DEF C
  <2> QED
    BY <1>2, <1>3, FS_UNION
<1> QED
  BY <1>4, <1>5, FS_CardinalityType DEF SumOf

\* A sum changes by as much as its only member that changes.
LEMMA SumOfOneChanged ==
    ASSUME NEW D, IsFiniteSet(D), NEW f \in [D -> Nat], NEW g \in [D -> Nat],
           NEW x \in D, \A i \in D \ {x} : g[i] = f[i]
    PROVE  SumOf(g) = SumOf(f) - f[x] + g[x]
<1> DEFINE Rest == {u \in Units(f) : u[1] # x}
<1>1. IsFiniteSet(Units(f)) /\ IsFiniteSet(Rest)
  BY SumIsNatural, FS_Subset
<1>2. Cardinality(Rest) \in Nat
  BY <1>1, FS_CardinalityType
<1>3. Units(f) = Rest \cup ({x} \X (1..f[x]))
  BY DEF Units
<1>4. Units(g) = Rest \cup ({x} \X (1..g[x]))
  BY DEF Units
<1>5. ASSUME NEW n \in Nat
      PROVE  Cardinality(Rest \cup ({x} \X (1..n))) = Cardinality(Rest) + n
  <2>1. Rest \cap ({x} \X (1..n)) = {}
    OBVIOUS
  <2> DEFINE Column == {x} \X (1..n)
  <2>2. IsFiniteSet(Column) /\ Cardinality(Column) = n
    BY UnitsOfOne
  <2> HIDE DEF Rest, Column
  <2>3. Cardinality(Rest \cup Column)
          = Cardinality(Rest) + Cardinality(Column) - Cardinality(Rest \cap Column)
    BY <1>1, <2>2, FS_Union
  <2>4. Cardinality(Rest \cap Column) = 0
    BY <2>1, FS_EmptySet DEF Column
  <2> QED
    BY <1>2, <2>2, <2>3, <2>4 DEF Column
<1>6. f[x] \in Nat /\ g[x] \in Nat
  OBVIOUS
<1> HIDE DEF Rest
<1>7. SumOf(f) = Cardinality(Rest) + f[x]
  BY <1>3, <1>5, <1>6 DEF SumOf
<1>8. SumOf(g) = Cardinality(Rest) + g[x]
  BY <1>4, <1>5, <1>6 DEF SumOf
<1> QED
  BY <1>2, <1>6, <1>7, <1>8

\* Nothing adds up to nothing.
LEMMA SumOfNothing ==
    ASSUME NEW D, NEW f \in [D -> {0}]
    PROVE  SumOf(f) = 0
<1>1. Units(f) = {}
  BY DEF Units
<1> QED
  BY <1>1, FS_EmptySet DEF SumOf

-------------------------------------------------------------------------------
(* The account.                                                            *)

Amounts(positions) ==
    [s \in Symbols |-> IF positions[s] < 0 THEN -positions[s] ELSE positions[s]]
NoShorts(positions) == positions \in [Symbols -> Int] /\ \A s \in Symbols : positions[s] >= 0

\* The exposure follows the one position that changes.
LEMMA ExposureChanged ==
    ASSUME NEW h, NEW x \in Symbols, NEW v \in Nat, NoShorts(h)
    PROVE  LET k == [h EXCEPT ![x] = v]
           IN  /\ NoShorts(k) /\ Exposure(h) \in Nat
               /\ Exposure(k) = Exposure(h) + Price * (v - h[x])
<1> DEFINE k == [h EXCEPT ![x] = v]
<1>1. NoShorts(k)
  BY DEF NoShorts
<1>2. Amounts(h) \in [Symbols -> Nat] /\ Amounts(k) \in [Symbols -> Nat]
  BY <1>1 DEF Amounts, NoShorts
<1>3. \A s \in Symbols \ {x} : Amounts(k)[s] = Amounts(h)[s]
  BY DEF Amounts, NoShorts
<1>4. Amounts(h)[x] = h[x] /\ Amounts(k)[x] = v /\ h[x] \in Nat
  BY DEF Amounts, NoShorts
<1>5. IsFiniteSet(Symbols) /\ Price \in Nat
  BY DeskAssumption
<1>6. Exposure(h) = Price * SumOf(Amounts(h)) /\ Exposure(k) = Price * SumOf(Amounts(k))
  BY DEF Exposure, Amounts
<1> HIDE DEF k
<1>7. SumOf(Amounts(h)) \in Nat
  BY <1>2, <1>5, SumIsNatural
<1>8. SumOf(Amounts(k)) = SumOf(Amounts(h)) - Amounts(h)[x] + Amounts(k)[x]
  BY <1>2, <1>3, <1>5, SumOfOneChanged
<1>9. SumOf(Amounts(k)) = SumOf(Amounts(h)) + (v - h[x])
  BY <1>4, <1>7, <1>8
<1>10. Price * (SumOf(Amounts(h)) + (v - h[x]))
         = Price * SumOf(Amounts(h)) + Price * (v - h[x])
  BY <1>4, <1>5, <1>7
<1>11. Price * SumOf(Amounts(h)) \in Nat
  BY <1>5, <1>7
<1> QED
  BY <1>1, <1>6, <1>9, <1>10, <1>11 DEF k

\* One fill opens at most one position, and closing opens none.
LEMMA PositionsChanged ==
    ASSUME NEW h \in [Symbols -> Int], NEW x \in Symbols, NEW v \in Int
    PROVE  LET k == [h EXCEPT ![x] = v]
           IN  /\ Cardinality(OpenIn(h)) \in Nat /\ Cardinality(OpenIn(k)) \in Nat
               /\ Cardinality(OpenIn(k)) <= Cardinality(OpenIn(h)) + 1
               /\ v = 0 => Cardinality(OpenIn(k)) <= Cardinality(OpenIn(h))
<1> DEFINE k == [h EXCEPT ![x] = v]
<1>1. IsFiniteSet(OpenIn(h)) /\ IsFiniteSet(OpenIn(k))
  BY DeskAssumption, FS_Subset DEF OpenIn
<1>2. OpenIn(k) \subseteq OpenIn(h) \cup {x}
  BY DEF OpenIn
<1>3. v = 0 => OpenIn(k) \subseteq OpenIn(h)
  BY DEF OpenIn
<1> HIDE DEF k
<1>4. Cardinality(OpenIn(h)) \in Nat /\ Cardinality(OpenIn(k)) \in Nat
  BY <1>1, FS_CardinalityType
<1>5. /\ IsFiniteSet(OpenIn(h) \cup {x})
      /\ Cardinality(OpenIn(h) \cup {x}) <= Cardinality(OpenIn(h)) + 1
  <2>1. /\ IsFiniteSet(OpenIn(h) \cup {x})
        /\ Cardinality(OpenIn(h) \cup {x}) =
             IF x \in OpenIn(h) THEN Cardinality(OpenIn(h)) ELSE Cardinality(OpenIn(h)) + 1
    BY <1>1, FS_AddElement
  <2> QED
    BY <1>4, <2>1
<1>6. Cardinality(OpenIn(k)) <= Cardinality(OpenIn(h) \cup {x})
  <2>1. OpenIn(k) \in SUBSET (OpenIn(h) \cup {x})
    BY <1>2
  <2> QED
    BY <1>5, <2>1, FS_Subset
<1>7. Cardinality(OpenIn(h) \cup {x}) \in Nat
  BY <1>5, FS_CardinalityType
<1>8. v = 0 => Cardinality(OpenIn(k)) <= Cardinality(OpenIn(h))
  BY <1>1, <1>3, FS_Subset
<1> QED
  BY <1>4, <1>5, <1>6, <1>7, <1>8 DEF k

\* Nothing held, nothing exposed.
LEMMA NothingHeld ==
    LET flat == [s \in Symbols |-> 0]
    IN  Exposure(flat) = 0 /\ Cardinality(OpenIn(flat)) = 0
<1> DEFINE flat == [s \in Symbols |-> 0]
<1>1. Amounts(flat) \in [Symbols -> {0}]
  BY DEF Amounts
<1>2. Exposure(flat) = Price * SumOf(Amounts(flat))
  BY DEF Exposure, Amounts
<1>3. OpenIn(flat) = {}
  BY DEF OpenIn
<1> HIDE DEF flat
<1>4. SumOf(Amounts(flat)) = 0
  BY <1>1, SumOfNothing
<1>5. Exposure(flat) = 0
  BY <1>2, <1>4, DeskAssumption
<1> QED
  BY <1>3, <1>5, FS_EmptySet DEF flat

\* A window of true ranges has a total, and the tracker keeps windows.
LEMMA WindowTyped ==
    ASSUME NEW s \in Symbols, NEW range \in Ranges,
           ranges[s] \in Seq(Ranges), Len(ranges[s]) <= AtrPeriod
    PROVE  /\ Window(s, range) \in Seq(Ranges)
           /\ Len(Window(s, range)) <= AtrPeriod
           /\ Total(Window(s, range)) \in Nat
<1>1. AtrPeriod \in Nat /\ AtrPeriod > 1 /\ Ranges \subseteq Nat
  BY DeskAssumption
<1>2. Append(ranges[s], range) \in Seq(Ranges) /\ Len(Append(ranges[s], range)) = Len(ranges[s]) + 1
  OBVIOUS
<1>3. Len(ranges[s]) \in Nat
  OBVIOUS
<1>4. Window(s, range) \in Seq(Ranges) /\ Len(Window(s, range)) <= AtrPeriod
  <2> DEFINE all == Append(ranges[s], range)
  <2>1. ASSUME Len(all) > AtrPeriod
        PROVE  Tail(all) \in Seq(Ranges) /\ Len(Tail(all)) = Len(all) - 1
    BY <1>1, <1>2, <1>3, <2>1
  <2>2. Window(s, range) = IF Len(all) > AtrPeriod THEN Tail(all) ELSE all
    BY DEF Window
  <2> HIDE DEF all
  <2>3. all \in Seq(Ranges) /\ Len(all) = Len(ranges[s]) + 1
    BY <1>2 DEF all
  <2> QED
    BY <1>1, <1>3, <2>1, <2>2, <2>3
<1> DEFINE window == Window(s, range)
<1>5. window \in [1..Len(window) -> Nat] /\ Len(window) \in Nat
  <2>1. window \in Seq(Ranges)
    BY <1>4
  <2> HIDE DEF window
  <2>2. window \in [1..Len(window) -> Ranges] /\ Len(window) \in Nat
    BY <2>1
  <2> QED
    BY <1>1, <2>2
<1>6. IsFiniteSet(1..Len(window))
  BY <1>5, FS_Interval
<1> HIDE DEF window
<1>7. Total(window) \in Nat
  BY <1>5, <1>6, SumIsNatural DEF Total
<1> QED
  BY <1>4, <1>7 DEF window

-------------------------------------------------------------------------------
(* Types.                                                                  *)

TaskSteps == {"idle", "account", "positions", "decide", "submit", "list", "close"}

\* What a task carries at each of its awaits.
LEMMA TaskCarries ==
    ASSUME TypeOK, NEW w \in Workers
    PROVE  /\ task[w].pc \in TaskSteps
           /\ At(w, "idle") => task[w] = Idle
           /\ ~At(w, "idle") => Bar(w) \in Bars /\ SymbolOf(w) \in Symbols
           /\ At(w, "account") \/ At(w, "positions") \/ At(w, "decide") => task[w].total \in Nat
           /\ At(w, "positions") \/ At(w, "decide") => task[w].cash \in Nat
           /\ At(w, "decide") => task[w].held \in [Symbols -> Int]
           /\ At(w, "submit") => task[w].qty \in Nat \ {0}
<1>1. task[w] \in Tasks
  BY DEF TypeOK
<1> QED
  BY <1>1 DEF Tasks, TaskSteps, At, Idle, Bar, SymbolOf, Bars

\* An accepted context has a true range of at least the smallest amount.
LEMMA AtrIsPositive ==
    ASSUME NEW w, task[w].total \in Nat, ContextIsValid(w)
    PROVE  AtrOf(w) \in Nat /\ AtrOf(w) > 0
<1>1. AtrPeriod \in Nat /\ AtrPeriod > 0
  BY DeskAssumption
<1> DEFINE total == task[w].total
<1>2. total \in Nat /\ total > 0 /\ total % AtrPeriod = 0
  BY DEF ContextIsValid
<1>3. AtrOf(w) = total \div AtrPeriod
  BY DEF AtrOf
<1> HIDE DEF total
<1>4. total \div AtrPeriod \in Nat /\ total = AtrPeriod * (total \div AtrPeriod)
  BY <1>1, <1>2, DivisionExact
<1> DEFINE atr == total \div AtrPeriod
<1> HIDE DEF atr
<1>5. atr > 0
  <2>1. atr \in Int /\ total = AtrPeriod * atr
    BY <1>4 DEF atr
  <2>2. ASSUME atr <= 0 PROVE FALSE
    <3>1. AtrPeriod * atr <= AtrPeriod * 0
      BY <1>1, <2>1, <2>2, ProductMonotone
    <3> QED
      BY <1>1, <1>2, <2>1, <3>1
  <2> QED
    BY <2>1, <2>2
<1> QED
  BY <1>3, <1>4, <1>5 DEF atr

\* The context of an evaluation is one the validators accept.
LEMMA ContextAccepted ==
    ASSUME TypeOK, NEW w \in Workers, At(w, "decide"), ContextIsValid(w)
    PROVE  /\ ValidPolicy(policy)
           /\ ValidContext(Context(w))
           /\ PositionSize(policy, Context(w)) \in Nat
<1>1. ValidPolicy(policy)
  BY DeskAssumption DEF TypeOK
<1>2. task[w].total \in Nat /\ task[w].cash \in Nat /\ task[w].held \in [Symbols -> Int]
  BY TaskCarries
<1>3. AtrOf(w) \in Nat /\ AtrOf(w) > 0
  BY <1>2, AtrIsPositive
<1> DEFINE h == task[w].held
<1>4. Exposure(h) \in Nat
  <2>1. Amounts(h) \in [Symbols -> Nat]
    BY <1>2 DEF Amounts
  <2>2. Exposure(h) = Price * SumOf(Amounts(h))
    BY DEF Exposure, Amounts
  <2> HIDE DEF h
  <2>3. SumOf(Amounts(h)) \in Nat
    BY <2>1, DeskAssumption, SumIsNatural
  <2> QED
    BY <2>2, <2>3, DeskAssumption
<1>5. Cardinality(OpenIn(h)) \in Nat
  <2>1. IsFiniteSet(OpenIn(h))
    BY DeskAssumption, FS_Subset DEF OpenIn
  <2> QED
    BY <2>1, FS_CardinalityType
<1>6. Price \in Nat \ {0} /\ Equity \in Nat \ {0} /\ Today \in Int
  BY DeskAssumption
<1>7. ValidContext(Context(w))
  BY <1>2, <1>3, <1>4, <1>5, <1>6 DEF ValidContext, Context
<1> QED
  BY <1>1, <1>7, SizedWithinRisk

\* What an approval says of the account, as the task has read it.
LEMMA Approved ==
    ASSUME TypeOK, NEW w \in Workers, At(w, "decide"), ContextIsValid(w),
           Evaluate(policy, Context(w), "BUY") = "approved"
    PROVE  LET qty == PositionSize(policy, Context(w))
           IN  /\ qty \in Nat \ {0}
               /\ task[w].held[SymbolOf(w)] = 0
               /\ task[w].cash = 0 \/ (task[w].cash - qty * Price) * One >= Equity * policy.reserve
               /\ (Exposure(task[w].held) + qty * Price) * One <= Equity * policy.gross
               /\ Cardinality(OpenIn(task[w].held)) < policy.positions
<1>1. Approves(policy, Context(w), "BUY")
  BY DEF Evaluate
<1>2. PositionSize(policy, Context(w)) \in Nat
  BY ContextAccepted
<1>3. PositionSize(policy, Context(w)) \in Nat \ {0}
  BY <1>1, <1>2 DEF Approves
<1> HIDE DEF PositionSize
<1> QED
  BY <1>1, <1>3 DEF Approves, KeepsReserve, WithinExposure, WithinPositions, Notional, Context

\* Every step keeps the types.
LEMMA TypesKept ==
    ASSUME TypeOK, [Next]_vars
    PROVE  TypeOK'
<1> USE DEF market, broker
<1>1. ASSUME NEW w \in Workers, NEW s \in Symbols, NEW range \in Ranges, NEW sign \in Signs(s),
             OnCandle(w, s, range, sign)
      PROVE  TypeOK'
  <2> DEFINE bar == <<s, bars[s] + 1>>
             window == Window(s, range)
             intent == Intent(s, sign)
             next == CASE intent = "EXIT" -> [pc |-> "list", bar |-> bar]
                       [] intent = "BUY" /\ AtrReady(window) ->
                            [pc |-> "account", bar |-> bar, total |-> Total(window)]
                       [] OTHER -> Idle
  <2>1. /\ window \in Seq(Ranges) /\ Len(window) <= AtrPeriod
        /\ Total(window) \in Nat
    BY WindowTyped DEF TypeOK
  <2>2. bar \in Bars /\ MaxBars[s] \in Nat /\ bars[s] \in Nat /\ bars[s] < MaxBars[s]
    <3>1. bars[s] < MaxBars[s]
      BY <1>1 DEF OnCandle
    <3>2. MaxBars[s] \in Nat
      BY DeskAssumption
    <3>3. bars[s] \in Nat
      BY DEF TypeOK
    <3> QED
      BY <3>1, <3>2, <3>3 DEF Bars
  <2>3. /\ task' = [task EXCEPT ![w] = next]
        /\ ranges' = [ranges EXCEPT ![s] = window]
        /\ bars' = [bars EXCEPT ![s] = @ + 1]
        /\ strategy' = [strategy EXCEPT ![s] = [seen |-> @.seen + 1, spread |-> sign]]
        /\ disturbed' \in BOOLEAN
        /\ UNCHANGED <<policy, cash, held, entries, working, lost>>
    BY <1>1 DEF OnCandle, Dispatch
  <2> HIDE DEF bar, window, intent
  <2>4. next \in Tasks
    BY <2>1, <2>2 DEF Tasks
  <2> HIDE DEF next
  <2>5. strategy' \in [Symbols -> [seen : Nat, spread : {-1, 0, 1}]]
    BY <2>3 DEF TypeOK, Signs
  <2>6. task' \in [Workers -> Tasks]
    BY <2>3, <2>4 DEF TypeOK
  <2>7. /\ \A r \in Symbols : ranges'[r] \in Seq(Ranges) /\ Len(ranges'[r]) <= AtrPeriod
        /\ DOMAIN ranges' = Symbols
    BY <2>1, <2>3 DEF TypeOK
  <2>8. bars' \in [Symbols -> Nat] /\ \A r \in Symbols : bars'[r] <= MaxBars[r]
    BY <2>2, <2>3, SMTT(30) DEF TypeOK
  <2> QED
    BY <2>3, <2>5, <2>6, <2>7, <2>8 DEF TypeOK
<1>2. ASSUME NEW w \in Workers, ReadAccount(w) PROVE TypeOK'
  <2>1. Bar(w) \in Bars /\ task[w].total \in Nat
    BY <1>2, TaskCarries DEF ReadAccount, At
  <2> DEFINE read == [pc |-> "positions", bar |-> Bar(w), total |-> task[w].total, cash |-> cash]
  <2>2. cash >= 0 => read \in Tasks
    BY <2>1 DEF Tasks, TypeOK
  <2>3. \/ task' = [task EXCEPT ![w] = read] /\ cash >= 0
        \/ task' = [task EXCEPT ![w] = Idle]
    BY <1>2 DEF ReadAccount, Raise, Return, IsAccount, Bar, TypeOK
  <2>4. Idle \in Tasks
    BY DEF Tasks
  <2> HIDE DEF read
  <2>5. task' \in [Workers -> Tasks]
    BY <2>2, <2>3, <2>4 DEF TypeOK
  <2>6. UNCHANGED <<policy, market, broker, disturbed>> /\ lost' \in BOOLEAN
    BY <1>2 DEF ReadAccount, Raise, TypeOK
  <2> QED
    BY <2>5, <2>6 DEF TypeOK
<1>3. ASSUME NEW w \in Workers, ReadPositions(w) PROVE TypeOK'
  <2>1. Bar(w) \in Bars /\ task[w].total \in Nat /\ task[w].cash \in Nat
    BY <1>3, TaskCarries DEF ReadPositions, At
  <2> DEFINE read == [pc |-> "decide", bar |-> Bar(w), total |-> task[w].total,
                      cash |-> task[w].cash, held |-> held]
  <2>2. read \in Tasks
    BY <2>1 DEF Tasks, TypeOK
  <2>3. task' = [task EXCEPT ![w] = read]
    BY <1>3 DEF ReadPositions, Bar, TypeOK
  <2> HIDE DEF read
  <2>4. task' \in [Workers -> Tasks]
    BY <2>2, <2>3 DEF TypeOK
  <2> QED
    BY <1>3, <2>4 DEF TypeOK, ReadPositions
<1>4. ASSUME NEW w \in Workers, RiskCheck(w) PROVE TypeOK'
  <2>1. At(w, "decide") /\ Bar(w) \in Bars
    BY <1>4, TaskCarries DEF RiskCheck, At
  <2> DEFINE qty == PositionSize(policy, Context(w))
             order == [pc |-> "submit", bar |-> Bar(w), qty |-> qty]
  <2>2. \/ /\ task' = [task EXCEPT ![w] = order]
           /\ ContextIsValid(w) /\ Evaluate(policy, Context(w), "BUY") = "approved"
        \/ task' = [task EXCEPT ![w] = Idle]
    BY <1>4 DEF RiskCheck, Raise, Return, Bar, TypeOK
  <2>3. Idle \in Tasks
    BY DEF Tasks
  <2>4. ContextIsValid(w) /\ Evaluate(policy, Context(w), "BUY") = "approved" => qty \in Nat \ {0}
    BY <2>1, Approved
  <2> HIDE DEF qty
  <2>5. ContextIsValid(w) /\ Evaluate(policy, Context(w), "BUY") = "approved" => order \in Tasks
    BY <2>1, <2>4 DEF Tasks
  <2> HIDE DEF order
  <2>6. task' \in [Workers -> Tasks]
    BY <2>2, <2>3, <2>5 DEF TypeOK
  <2>7. UNCHANGED <<policy, market, broker>> /\ lost' \in BOOLEAN /\ disturbed' \in BOOLEAN
    BY <1>4 DEF RiskCheck, Raise, TypeOK
  <2> QED
    BY <2>6, <2>7 DEF TypeOK
<1>5. ASSUME NEW w \in Workers, SubmitEntry(w) PROVE TypeOK'
  <2>1. Bar(w) \in Bars /\ SymbolOf(w) \in Symbols /\ task[w].qty \in Int \ {0}
    BY <1>5, TaskCarries DEF SubmitEntry, At
  <2>2. Order(w, task[w].qty) \in [bar : Bars, symbol : Symbols, qty : Int \ {0}]
    BY <2>1 DEF Order
  <2>3. task' \in [Workers -> Tasks]
    BY <1>5 DEF SubmitEntry, Return, TypeOK, Tasks
  <2> QED
    BY <1>5, <2>2, <2>3 DEF SubmitEntry, TypeOK
<1>6. ASSUME NEW w \in Workers, ListPositions(w) PROVE TypeOK'
  <2>1. At(w, "list") /\ task[w] \in [pc : {"list", "close"}, bar : Bars]
    BY <1>6 DEF ListPositions, TypeOK, Tasks, At, Idle
  <2>2. [task[w] EXCEPT !.pc = "close"] \in Tasks /\ Idle \in Tasks
    BY <2>1 DEF Tasks
  <2>3. \/ task' = [task EXCEPT ![w] = [task[w] EXCEPT !.pc = "close"]]
        \/ task' = [task EXCEPT ![w] = Idle]
    BY <1>6 DEF ListPositions, Goto, Return, TypeOK
  <2>4. task' \in [Workers -> Tasks]
    BY <2>2, <2>3 DEF TypeOK
  <2> QED
    BY <1>6, <2>4 DEF ListPositions, TypeOK
<1>7. ASSUME NEW w \in Workers, ClosePosition(w) PROVE TypeOK'
  <2>1. Bar(w) \in Bars /\ SymbolOf(w) \in Symbols
    BY <1>7, TaskCarries DEF ClosePosition, At
  <2>2. held[SymbolOf(w)] # 0 =>
          Order(w, -held[SymbolOf(w)]) \in [bar : Bars, symbol : Symbols, qty : Int \ {0}]
    BY <2>1 DEF Order, TypeOK
  <2>3. task' \in [Workers -> Tasks]
    BY <1>7 DEF ClosePosition, Return, TypeOK, Tasks
  <2> QED
    BY <1>7, <2>2, <2>3 DEF ClosePosition, TypeOK
<1>8. ASSUME NEW w \in Workers, Fail(w) PROVE TypeOK'
  BY <1>8 DEF Fail, Return, TypeOK, Tasks
<1>9. ASSUME NEW o \in working, Fill(o) PROVE TypeOK'
  <2>1. o.symbol \in Symbols /\ o.qty \in Int /\ Price \in Nat
    BY DeskAssumption DEF TypeOK
  <2>2. held' \in [Symbols -> Int] /\ entries' \in [Symbols -> Nat]
    <3>1. held' \in [Symbols -> Int]
      BY <1>9, <2>1 DEF Fill, TypeOK
    <3>2. entries' \in [Symbols -> Nat]
      BY <1>9, <2>1 DEF Fill, TypeOK
    <3> QED
      BY <3>1, <3>2
  <2>3. cash' \in Int
    BY <1>9, <2>1 DEF Fill, TypeOK
  <2> QED
    BY <1>9, <2>2, <2>3 DEF Fill, TypeOK
<1>10. ASSUME NEW p \in Policies, Reconfigure(p) PROVE TypeOK'
  <2>1. strategy' \in [Symbols -> [seen : Nat, spread : {-1, 0, 1}]]
    BY <1>10 DEF Reconfigure, FreshEngines, Fresh
  <2>2. /\ \A s \in Symbols : ranges'[s] \in Seq(Ranges) /\ Len(ranges'[s]) <= AtrPeriod
        /\ DOMAIN ranges' = Symbols
    BY <1>10, DeskAssumption DEF Reconfigure
  <2> QED
    BY <1>10, <2>1, <2>2 DEF Reconfigure, TypeOK
<1>11. CASE UNCHANGED vars
  BY <1>11 DEF vars, TypeOK
<1> QED
  BY <1>1, <1>2, <1>3, <1>4, <1>5, <1>6, <1>7, <1>8, <1>9, <1>10, <1>11 DEF Next, Handle

-------------------------------------------------------------------------------
(* The inductive invariant.                                                *)

Single ==
    \A s \in Symbols : entries[s] <= 1 /\ (held[s] = 0 <=> entries[s] = 0) /\ held[s] >= 0
Within ==
    /\ Exposure(held) * One <= Equity * policy.gross
    /\ held # [s \in Symbols |-> 0] => cash * One >= Equity * policy.reserve
    /\ Cardinality(OpenIn(held)) <= policy.positions

\* What holds of an undisturbed desk.
Calm == OneAtATime /\ ReadingsHold /\ EntriesFit /\ OrdersFollowTrend /\ Single /\ Within

LEMMA DeskInvIsCalm == DeskInv <=> TypeOK /\ (~disturbed => Calm)
BY DEF DeskInv, OneEntryPerPosition, PortfolioWithinPolicy, Calm, Single, Within

\* A task goes on alone: it moves to its next await, or is done, and the desk
\* stays calm if what it takes along is right.
LEMMA TaskGoesOn ==
    ASSUME TypeOK, TypeOK', Calm, NEW w \in Workers, ~At(w, "idle"),
           \A v \in Workers \ {w} : task'[v] = task[v],
           UNCHANGED <<policy, strategy, cash, held, entries, working>>,
           At(w, "idle")' \/ Bar(w)' = Bar(w),
           (At(w, "positions") \/ At(w, "decide"))' => task'[w].cash = cash,
           At(w, "decide")' => task'[w].held = held,
           At(w, "submit")' => Fits(SymbolOf(w), task'[w].qty),
           task'[w].pc \in {"account", "positions", "decide", "submit"} => Rising(SymbolOf(w)),
           (At(w, "list") \/ At(w, "close"))' => Falling(SymbolOf(w)),
           (At(w, "list") \/ At(w, "close")) =>
               (At(w, "list") \/ At(w, "close"))' \/ held[SymbolOf(w)] = 0
    PROVE  Calm'
<1>1. working = {} /\ \A v \in Workers \ {w} : At(v, "idle") /\ At(v, "idle")'
  BY DEF Calm, OneAtATime, At
<1>2. \A v \in Workers : TaskSteps # {} /\ task[v].pc \in TaskSteps /\ (task'[v].pc \in TaskSteps)
  BY DEF TypeOK, Tasks, TaskSteps, Idle
<1>3. OneAtATime'
  BY <1>1 DEF OneAtATime, At
<1>4. ReadingsHold'
  BY <1>1 DEF ReadingsHold, At
<1>5. SymbolOf(w)' = SymbolOf(w) \/ At(w, "idle")'
  BY DEF SymbolOf
<1>6. \A s \in Symbols : \A qty : Fits(s, qty)' = Fits(s, qty)
  BY DEF Fits, Exposure, OpenIn
<1>7. EntriesFit'
  <2>1. At(w, "submit")' => SymbolOf(w) \in Symbols /\ SymbolOf(w)' = SymbolOf(w)
    BY <1>5, TaskCarries DEF At
  <2>2. At(w, "submit")' => Fits(SymbolOf(w), task[w].qty)'
    BY <2>1, <1>6
  <2> QED
    BY <1>1, <2>2 DEF EntriesFit, At
<1>8. OrdersFollowTrend'
  <2>1. \A s \in Symbols : /\ Rising(s)' = Rising(s) /\ Falling(s)' = Falling(s)
                           /\ Leaving(s) /\ held[s] # 0 => Leaving(s)'
    <3>1. \A s \in Symbols : Rising(s)' = Rising(s) /\ Falling(s)' = Falling(s)
      BY DEF Rising, Falling
    <3>2. ASSUME NEW s \in Symbols, Leaving(s), held[s] # 0
          PROVE  Leaving(s)'
      <4>1. (At(w, "list") \/ At(w, "close")) /\ SymbolOf(w) = s
        BY <1>1, <3>2 DEF Leaving, At
      <4>2. (At(w, "list") \/ At(w, "close"))' /\ SymbolOf(w)' = s
        BY <1>5, <3>2, <4>1 DEF At
      <4> QED
        BY <4>2 DEF Leaving
    <3> QED
      BY <3>1, <3>2
  <2>2. SymbolOf(w) \in Symbols
    BY TaskCarries
  <2>3. task'[w].pc \in {"account", "positions", "decide", "submit"} => Rising(SymbolOf(w))'
    BY <1>5, <2>1, <2>2 DEF At
  <2>4. (At(w, "list") \/ At(w, "close"))' => Falling(SymbolOf(w))'
    BY <1>5, <2>1, <2>2 DEF At
  <2>5. \A v \in Workers :
          /\ task'[v].pc \in {"account", "positions", "decide", "submit"} => Rising(SymbolOf(v))'
          /\ (At(v, "list") \/ At(v, "close"))' => Falling(SymbolOf(v))'
    BY <1>1, <2>3, <2>4 DEF At
  <2>6. \A s \in Symbols : held'[s] # 0 =>
          strategy'[s].seen > SlowPeriod /\ (Falling(s)' => Leaving(s)')
    BY <2>1 DEF Calm, OrdersFollowTrend
  <2> QED
    BY <1>1, <2>5, <2>6 DEF OrdersFollowTrend
<1>9. Single' /\ Within'
  BY DEF Calm, Single, Within, Exposure, OpenIn
<1> QED
  BY <1>3, <1>4, <1>7, <1>8, <1>9 DEF Calm

\* A bar that begins an evaluation when nothing else is under way: an entry needs
\* an upward cross, and a downward one of what is held always becomes an exit.
LEMMA CandleKeepsCalm ==
    ASSUME TypeOK, ~disturbed, Calm, NEW w \in Workers, NEW s \in Symbols,
           NEW range \in Ranges, NEW sign \in Signs(s),
           OnCandle(w, s, range, sign), ~disturbed', TypeOK'
    PROVE  Calm'
<1> DEFINE bar == <<s, bars[s] + 1>>
           window == Window(s, range)
           intent == Intent(s, sign)
           begun == CASE intent = "EXIT" -> [pc |-> "list", bar |-> bar]
                      [] intent = "BUY" /\ AtrReady(window) ->
                           [pc |-> "account", bar |-> bar, total |-> Total(window)]
                      [] OTHER -> Idle
<1>1. /\ task' = [task EXCEPT ![w] = begun]
      /\ strategy' = [strategy EXCEPT ![s] = [seen |-> @.seen + 1, spread |-> sign]]
      /\ UNCHANGED <<policy, broker, lost>>
      /\ working = {} /\ \A v \in Workers : At(v, "idle")
  <2>1. task' = [task EXCEPT ![w] = begun]
    BY DEF OnCandle
  <2>2. strategy' = [strategy EXCEPT ![s] = [seen |-> @.seen + 1, spread |-> sign]]
    BY DEF OnCandle, Dispatch
  <2>3. UNCHANGED <<policy, broker, lost>>
    BY DEF OnCandle
  <2>4. disturbed' = (disturbed \/ working # {} \/ \E v \in Workers : ~At(v, "idle"))
    BY DEF OnCandle
  <2>5. working = {} /\ \A v \in Workers : At(v, "idle")
    BY <2>4
  <2> HIDE DEF begun
  <2> QED
    BY <2>1, <2>2, <2>3, <2>5
<1>2. SlowPeriod \in Nat /\ strategy[s].seen \in Nat /\ strategy[s].spread \in {-1, 0, 1} /\ sign \in {-1, 0, 1}
  <2>1. SlowPeriod \in Nat
    BY DeskAssumption
  <2>2. strategy[s] \in [seen : Nat, spread : {-1, 0, 1}]
    BY DEF TypeOK
  <2>3. sign \in {-1, 0, 1}
    BY DEF Signs
  <2> QED
    BY <2>1, <2>2, <2>3
<1>3. /\ intent = "BUY" => strategy[s].seen >= SlowPeriod /\ sign > 0
      /\ intent = "EXIT" => sign < 0
      /\ strategy[s].seen >= SlowPeriod /\ strategy[s].spread >= 0 /\ sign < 0 => intent = "EXIT"
  BY <1>2 DEF Intent, Cross
<1>4. /\ begun.pc \in {"account", "list", "idle"}
      /\ begun.pc = "account" => begun.bar = bar /\ intent = "BUY"
      /\ begun.pc = "list" => begun.bar = bar /\ intent = "EXIT"
      /\ intent = "EXIT" => begun.pc = "list"
  <2> HIDE DEF intent, window, bar
  <2> QED
    BY DEF Idle
<1> HIDE DEF begun, intent, window
<1>5. task'[w] = begun /\ \A v \in Workers \ {w} : task'[v] = task[v]
  BY <1>1 DEF TypeOK
<1>6. /\ strategy'[s].seen = strategy[s].seen + 1 /\ strategy'[s].spread = sign
      /\ \A r \in Symbols \ {s} : strategy'[r] = strategy[r]
  BY <1>1 DEF TypeOK
<1>7. \A r \in Symbols : held[r] # 0 => strategy[r].seen > SlowPeriod /\ strategy[r].spread >= 0
  <2>1. \A r \in Symbols : ~Leaving(r)
    BY <1>1 DEF Leaving, At
  <2>2. \A r \in Symbols : strategy[r].spread \in {-1, 0, 1}
    BY DEF TypeOK
  <2> QED
    BY <2>1, <2>2 DEF Calm, OrdersFollowTrend, Falling
<1>8. OneAtATime'
  BY <1>1, <1>5 DEF OneAtATime, At, broker
<1>9. ReadingsHold' /\ EntriesFit'
  BY <1>1, <1>4, <1>5 DEF ReadingsHold, EntriesFit, At, broker
<1>10. OrdersFollowTrend'
  <2>1. ASSUME NEW v \in Workers
        PROVE  /\ task'[v].pc \in {"account", "positions", "decide", "submit"} => Rising(SymbolOf(v))'
               /\ (At(v, "list") \/ At(v, "close"))' => Falling(SymbolOf(v))'
    <3>1. CASE v # w
      BY <1>1, <1>5, <3>1 DEF At
    <3>2. CASE v = w
      <4>1. task'[w].pc \in {"account", "list"} => SymbolOf(w)' = s
        BY <1>4, <1>5 DEF SymbolOf, Bar
      <4>2. task'[w].pc = "account" => Rising(s)'
        BY <1>2, <1>3, <1>4, <1>5, <1>6 DEF Rising
      <4>3. task'[w].pc = "list" => Falling(s)'
        BY <1>3, <1>4, <1>5, <1>6 DEF Falling
      <4>4. task'[w].pc \in {"account", "list", "idle"}
        BY <1>4, <1>5
      <4> QED
        BY <3>2, <4>1, <4>2, <4>3, <4>4 DEF At, Rising, Falling
    <3> QED
      BY <3>1, <3>2
  <2>2. ASSUME NEW r \in Symbols, held'[r] # 0
        PROVE  strategy'[r].seen > SlowPeriod /\ (Falling(r)' => Leaving(r)')
    <3>1. held[r] # 0 /\ strategy[r].seen > SlowPeriod /\ strategy[r].spread >= 0
      BY <1>1, <1>7, <2>2 DEF broker
    <3>2. CASE r # s
      <4>1. strategy'[r] = strategy[r] /\ strategy[r].spread \in {-1, 0, 1}
        BY <1>6, <3>2 DEF TypeOK
      <4>2. ~(Falling(r)')
        BY <3>1, <4>1 DEF Falling
      <4> QED
        BY <3>1, <4>1, <4>2
    <3>3. CASE r = s
      <4>1. strategy'[s].seen > SlowPeriod
        BY <1>2, <1>6, <3>1, <3>3
      <4>2. ASSUME Falling(s)' PROVE Leaving(s)'
        <5>1. intent = "EXIT"
          BY <1>2, <1>3, <1>6, <3>1, <3>3, <4>2 DEF Falling
        <5>2. At(w, "list")' /\ SymbolOf(w)' = s
          BY <1>4, <1>5, <5>1 DEF At, SymbolOf, Bar
        <5> QED
          BY <5>2 DEF Leaving
      <4> QED
        BY <3>3, <4>1, <4>2
    <3> QED
      BY <3>2, <3>3
  <2>3. working' = {}
    BY <1>1 DEF broker
  <2> QED
    BY <2>1, <2>2, <2>3 DEF OrdersFollowTrend
<1>11. Single' /\ Within'
  BY <1>1 DEF Calm, Single, Within, Exposure, OpenIn, broker
<1> QED
  BY <1>8, <1>9, <1>10, <1>11 DEF Calm

\* The steps of a task before its order.
LEMMA ReadingKeepsCalm ==
    ASSUME TypeOK, TypeOK', Calm, NEW w \in Workers, ReadAccount(w) \/ ReadPositions(w)
    PROVE  Calm'
<1>1. ~At(w, "idle") /\ UNCHANGED <<policy, strategy, cash, held, entries, working>>
  BY DEF ReadAccount, ReadPositions, At, market, broker
<1>2. \A v \in Workers \ {w} : task'[v] = task[v]
  BY DEF ReadAccount, ReadPositions, Raise, Return, TypeOK
<1>3. Rising(SymbolOf(w)) /\ ~(At(w, "list") \/ At(w, "close"))
  BY DEF Calm, OrdersFollowTrend, ReadAccount, ReadPositions, At
<1>4. \/ /\ At(w, "idle")'
      \/ /\ At(w, "positions")' /\ Bar(w)' = Bar(w) /\ task'[w].cash = cash
      \/ /\ At(w, "decide")' /\ Bar(w)' = Bar(w) /\ task'[w].cash = cash /\ task'[w].held = held
  <2>1. CASE ReadAccount(w)
    BY <2>1 DEF ReadAccount, Raise, Return, At, Idle, Bar, TypeOK
  <2>2. CASE ReadPositions(w)
    BY <2>2 DEF ReadPositions, At, Bar, TypeOK, Calm, ReadingsHold
  <2> QED
    BY <2>1, <2>2
<1> QED
  BY <1>1, <1>2, <1>3, <1>4, TaskGoesOn DEF At

\* An approval is for the account as it still is, when the cash is known.
LEMMA RiskCheckKeepsCalm ==
    ASSUME TypeOK, TypeOK', Calm, NEW w \in Workers, RiskCheck(w), ~disturbed'
    PROVE  Calm'
<1>1. ~At(w, "idle") /\ UNCHANGED <<policy, strategy, cash, held, entries, working>>
  BY DEF RiskCheck, At, market, broker
<1>2. \A v \in Workers \ {w} : task'[v] = task[v]
  BY DEF RiskCheck, Raise, Return, TypeOK
<1>3. Rising(SymbolOf(w)) /\ ~(At(w, "list") \/ At(w, "close"))
  BY DEF Calm, OrdersFollowTrend, RiskCheck, At
<1>4. /\ At(w, "decide") /\ task[w].cash = cash /\ task[w].held = held /\ task[w].cash # 0
      /\ SymbolOf(w) \in Symbols
  BY TaskCarries DEF Calm, ReadingsHold, RiskCheck, At
<1> DEFINE qty == PositionSize(policy, Context(w))
<1>5. \/ At(w, "idle")'
      \/ /\ At(w, "submit")' /\ Bar(w)' = Bar(w) /\ task'[w].qty = qty
         /\ ContextIsValid(w) /\ Evaluate(policy, Context(w), "BUY") = "approved"
  <2> HIDE DEF qty
  <2>1. \/ task' = [task EXCEPT ![w] = Idle]
        \/ /\ task' = [task EXCEPT ![w] = [pc |-> "submit", bar |-> Bar(w), qty |-> qty]]
           /\ ContextIsValid(w) /\ Evaluate(policy, Context(w), "BUY") = "approved"
    BY DEF RiskCheck, Raise, Return, Bar, TypeOK, qty
  <2> QED
    BY <2>1 DEF At, Idle, Bar, TypeOK
<1>6. At(w, "submit")' => Fits(SymbolOf(w), task'[w].qty)
  <2> SUFFICES ASSUME At(w, "submit")' PROVE Fits(SymbolOf(w), task'[w].qty)
    OBVIOUS
  <2>1. /\ task'[w].qty = qty /\ ContextIsValid(w)
        /\ Evaluate(policy, Context(w), "BUY") = "approved"
    BY <1>5 DEF At
  <2>2. /\ held[SymbolOf(w)] = 0
        /\ (cash - qty * Price) * One >= Equity * policy.reserve
        /\ (Exposure(held) + qty * Price) * One <= Equity * policy.gross
        /\ Cardinality(OpenIn(held)) < policy.positions
    BY <1>4, <2>1, Approved
  <2> HIDE DEF qty
  <2> QED
    BY <2>1, <2>2 DEF Fits
<1> QED
  BY <1>1, <1>2, <1>3, <1>5, <1>6, TaskGoesOn DEF At

\* An exit that finds its position keeps on: the account of a position that is
\* within the policy is one the broker's answer can say.
LEMMA ListKeepsCalm ==
    ASSUME TypeOK, TypeOK', Calm, NEW w \in Workers, ListPositions(w)
    PROVE  Calm'
<1>1. At(w, "list") /\ UNCHANGED <<policy, strategy, cash, held, entries, working>>
  BY DEF ListPositions, market, broker
<1>2. \A v \in Workers \ {w} : task'[v] = task[v]
  BY DEF ListPositions, Goto, Return, TypeOK
<1>3. Falling(SymbolOf(w)) /\ SymbolOf(w) \in Symbols
  BY <1>1, TaskCarries DEF Calm, OrdersFollowTrend, At
<1>4. held[SymbolOf(w)] # 0 => cash >= 0
  <2> SUFFICES ASSUME held[SymbolOf(w)] # 0 PROVE cash >= 0
    OBVIOUS
  <2>1. held # [s \in Symbols |-> 0]
    BY <1>3
  <2>2. cash * One >= Equity * policy.reserve
    BY <2>1 DEF Calm, Within
  <2>3. Equity \in Nat /\ policy.reserve \in Nat /\ One \in Nat /\ One > 0 /\ cash \in Int
    BY DeskAssumption, OneAssumption DEF TypeOK, ValidPolicy
  <2>4. Equity * policy.reserve >= 0
    BY <2>3
  <2>5. ASSUME cash <= -1 PROVE FALSE
    <3>1. One * cash <= One * (-1)
      BY <2>3, <2>5, ProductMonotone
    <3> QED
      BY <2>2, <2>3, <2>4, <3>1
  <2> QED
    BY <2>3, <2>5
<1>5. \/ At(w, "close")' /\ Bar(w)' = Bar(w)
      \/ At(w, "idle")' /\ held[SymbolOf(w)] = 0
  <2>1. \/ task' = [task EXCEPT ![w] = [task[w] EXCEPT !.pc = "close"]]
        \/ task' = [task EXCEPT ![w] = Idle] /\ held[SymbolOf(w)] = 0
    BY <1>4 DEF ListPositions, Goto, Return, IsAccount, TypeOK
  <2>2. task[w] \in [pc : {"list", "close"}, bar : Bars]
    BY <1>1 DEF TypeOK, Tasks, At, Idle
  <2> QED
    BY <2>1, <2>2 DEF At, Idle, Bar, TypeOK
<1> QED
  BY <1>1, <1>2, <1>3, <1>5, TaskGoesOn DEF At

\* The steps that send an order end the evaluation.
LEMMA OrderKeepsCalm ==
    ASSUME TypeOK, TypeOK', Calm, NEW w \in Workers, SubmitEntry(w) \/ ClosePosition(w)
    PROVE  Calm'
<1>1. /\ At(w, "submit") \/ At(w, "close")
      /\ ~At(w, "idle") /\ SymbolOf(w) \in Symbols
      /\ UNCHANGED <<policy, strategy, cash, held, entries>>
  BY TaskCarries DEF SubmitEntry, ClosePosition, At, market
<1>2. working = {} /\ \A v \in Workers : At(v, "idle")'
  <2>1. working = {} /\ \A v \in Workers \ {w} : task[v].pc = "idle"
    BY <1>1 DEF Calm, OneAtATime, At
  <2>2. task' = [task EXCEPT ![w] = Idle]
    BY DEF SubmitEntry, ClosePosition, Return
  <2>3. task'[w] = Idle /\ \A v \in Workers \ {w} : task'[v] = task[v]
    BY <2>2 DEF TypeOK
  <2> QED
    BY <2>1, <2>3 DEF At, Idle
<1>3. \A r \in Symbols : \A qty : /\ Fits(r, qty)' = Fits(r, qty)
                                  /\ Rising(r)' = Rising(r) /\ Falling(r)' = Falling(r)
  BY <1>1 DEF Fits, Exposure, OpenIn, Rising, Falling
<1>4. \/ working' = {} /\ held[SymbolOf(w)] = 0
      \/ \E qty \in Int \ {0} :
           /\ working' = {Order(w, qty)}
           /\ qty > 0 => Rising(SymbolOf(w)) /\ Fits(SymbolOf(w), qty)
           /\ qty < 0 => Falling(SymbolOf(w)) /\ qty = -held[SymbolOf(w)]
           /\ qty < 0 \/ held[SymbolOf(w)] = 0
  <2>1. CASE SubmitEntry(w)
    <3>1. /\ At(w, "submit") /\ task[w].qty \in Nat \ {0} /\ working' = {Order(w, task[w].qty)}
      BY <1>2, <2>1, TaskCarries DEF SubmitEntry
    <3>2. Rising(SymbolOf(w)) /\ Fits(SymbolOf(w), task[w].qty)
      BY <3>1 DEF Calm, EntriesFit, OrdersFollowTrend, At
    <3>3. task[w].qty \in Int \ {0} /\ task[w].qty > 0
      BY <3>1
    <3> QED
      BY <3>1, <3>2, <3>3 DEF Fits
  <2>2. CASE ClosePosition(w)
    <3>1. At(w, "close") /\ Falling(SymbolOf(w))
      BY <2>2 DEF ClosePosition, Calm, OrdersFollowTrend
    <3> DEFINE owned == held[SymbolOf(w)]
    <3>2. owned \in Int /\ owned >= 0
      BY <1>1 DEF TypeOK, Calm, Single
    <3>3. working' = IF owned = 0 THEN {} ELSE {Order(w, -owned)}
      BY <1>2, <2>2 DEF ClosePosition
    <3> HIDE DEF owned
    <3>4. CASE owned = 0
      BY <3>3, <3>4 DEF owned
    <3>5. CASE owned # 0
      <4>1. -owned \in Int \ {0} /\ -owned < 0 /\ working' = {Order(w, -owned)}
        BY <3>2, <3>3, <3>5
      <4>2. -owned = -held[SymbolOf(w)]
        BY DEF owned
      <4> QED
        BY <3>1, <4>1, <4>2
    <3> QED
      BY <3>4, <3>5
  <2> QED
    BY <2>1, <2>2
<1>5. OneAtATime'
  BY <1>2, <1>4 DEF OneAtATime, At
<1>6. ReadingsHold'
  BY <1>2 DEF ReadingsHold, At
<1>7. EntriesFit'
  BY <1>1, <1>2, <1>3, <1>4 DEF EntriesFit, At, Order
<1>8. OrdersFollowTrend'
  <2>1. \A v \in Workers : task'[v].pc = "idle"
    BY <1>2 DEF At
  <2>2. \A o \in working' :
          IF o.qty > 0 THEN Rising(o.symbol)' ELSE Falling(o.symbol)' /\ o.qty = -(held[o.symbol])'
    BY <1>1, <1>3, <1>4 DEF Order
  <2>3. ASSUME NEW r \in Symbols, held'[r] # 0
        PROVE  strategy'[r].seen > SlowPeriod /\ (Falling(r)' => Leaving(r)')
    <3>1. held[r] # 0 /\ strategy'[r].seen > SlowPeriod
      BY <1>1, <2>3 DEF Calm, OrdersFollowTrend
    <3>2. ASSUME Falling(r) PROVE Leaving(r)'
      <4>1. (At(w, "list") \/ At(w, "close")) /\ SymbolOf(w) = r
        BY <1>1, <1>2, <3>1, <3>2 DEF Calm, OneAtATime, OrdersFollowTrend, Leaving, At
      <4>2. PICK qty \in Int : working' = {Order(w, qty)} /\ qty < 0
        BY <1>4, <3>1, <4>1
      <4>3. Order(w, qty) \in working' /\ Order(w, qty).symbol = r /\ Order(w, qty).qty < 0
        BY <4>1, <4>2 DEF Order
      <4> QED
        BY <4>3 DEF Leaving
    <3> QED
      BY <1>3, <3>1, <3>2
  <2> QED
    BY <2>1, <2>2, <2>3 DEF OrdersFollowTrend, At
<1>9. Single' /\ Within'
  BY <1>1 DEF Calm, Single, Within, Exposure, OpenIn
<1> QED
  BY <1>5, <1>6, <1>7, <1>8, <1>9 DEF Calm

\* An order fills into the account it was tested against.
LEMMA FillKeepsCalm ==
    ASSUME TypeOK, TypeOK', Calm, NEW o \in working, Fill(o)
    PROVE  Calm'
<1> DEFINE s == o.symbol
           now == held[s] + o.qty
<1>1. /\ s \in Symbols /\ o.qty \in Int /\ o.qty # 0
      /\ held[s] \in Nat /\ entries[s] \in Nat /\ held \in [Symbols -> Int]
      /\ Price \in Nat /\ One \in Nat /\ Equity \in Nat /\ cash \in Int
  BY DeskAssumption, OneAssumption, SMTT(30) DEF TypeOK, Calm, Single
<1>2. /\ held' = [held EXCEPT ![s] = now] /\ cash' = cash - o.qty * Price
      /\ entries' = [entries EXCEPT ![s] = IF now = 0 THEN 0 ELSE IF o.qty > 0 THEN @ + 1 ELSE @]
      /\ working' = {}
      /\ UNCHANGED <<policy, strategy, task>>
      /\ \A v \in Workers : At(v, "idle")
  BY DEF Fill, Calm, OneAtATime, market
<1>3. \/ o.qty > 0 /\ held[s] = 0 /\ now = o.qty /\ Rising(s) /\ Fits(s, o.qty)
      \/ o.qty < 0 /\ now = 0 /\ Falling(s) /\ o.qty = -held[s]
  BY <1>1 DEF Calm, EntriesFit, OrdersFollowTrend, Fits
<1>4. now \in Nat
  BY <1>1, <1>3
<1>5. /\ NoShorts(held)
      /\ policy.gross \in Nat /\ policy.reserve \in Nat /\ policy.positions \in Nat
  <2>1. NoShorts(held)
    BY DEF NoShorts, Calm, Single, TypeOK
  <2>2. ValidPolicy(policy)
    BY DeskAssumption DEF TypeOK
  <2> QED
    BY <2>1, <2>2, OneAssumption DEF ValidPolicy
<1> HIDE DEF s, now
<1>6. Exposure(held) \in Nat /\ Exposure(held') = Exposure(held) + Price * (now - held[s])
  BY <1>1, <1>2, <1>4, <1>5, ExposureChanged
<1>7. /\ Cardinality(OpenIn(held)) \in Nat /\ Cardinality(OpenIn(held')) \in Nat
      /\ Cardinality(OpenIn(held')) <= Cardinality(OpenIn(held)) + 1
      /\ now = 0 => Cardinality(OpenIn(held')) <= Cardinality(OpenIn(held))
  <2>1. now \in Int
    BY <1>4
  <2> QED
    BY <1>1, <1>2, <2>1, PositionsChanged
<1>8. Within'
  <2>1. CASE o.qty > 0 /\ held[s] = 0 /\ now = o.qty /\ Fits(s, o.qty)
    <3>1. Exposure(held') = Exposure(held) + o.qty * Price
      BY <1>1, <1>6, <2>1
    <3>2. /\ (Exposure(held) + o.qty * Price) * One <= Equity * policy.gross
          /\ (cash - o.qty * Price) * One >= Equity * policy.reserve
          /\ Cardinality(OpenIn(held)) < policy.positions
      BY <2>1 DEF Fits
    <3>3. Cardinality(OpenIn(held')) <= policy.positions
      BY <1>5, <1>7, <3>2
    <3>4. Exposure(held') * One <= Equity * policy.gross /\ cash' * One >= Equity * policy.reserve
      BY <1>2, <3>1, <3>2
    <3> QED
      BY <1>2, <3>3, <3>4 DEF Within, Exposure, OpenIn
  <2>2. CASE o.qty < 0 /\ now = 0 /\ o.qty = -held[s]
    <3>1. /\ Exposure(held) * One <= Equity * policy.gross
          /\ cash * One >= Equity * policy.reserve
          /\ Cardinality(OpenIn(held)) <= policy.positions
      <4>1. held[s] # 0 /\ s \in Symbols
        BY <1>1, <2>2
      <4>2. held # [r \in Symbols |-> 0]
        BY <4>1
      <4> QED
        BY <4>2 DEF Calm, Within
    <3>2. Price * held[s] \in Nat
      BY <1>1
    <3>3. Exposure(held') \in Int /\ Exposure(held') <= Exposure(held)
      <4>1. now - held[s] = -held[s] /\ Price * (-held[s]) = -(Price * held[s])
        BY <1>1, <2>2
      <4> QED
        BY <1>6, <3>2, <4>1
    <3>4. One * Exposure(held') <= One * Exposure(held)
      BY <1>1, <1>6, <3>3, ProductMonotone
    <3>5. Exposure(held') * One <= Equity * policy.gross
      <4>1. One * Exposure(held') = Exposure(held') * One /\ One * Exposure(held) = Exposure(held) * One
        BY <1>1, <1>6, <3>3
      <4>2. /\ Exposure(held') * One \in Int /\ Exposure(held) * One \in Int
            /\ Equity * policy.gross \in Int
        BY <1>1, <1>5, <1>6, <3>3
      <4> QED
        BY <3>1, <3>4, <4>1, <4>2
    <3>6. cash' \in Int /\ cash <= cash'
      <4>1. o.qty * Price = -(Price * held[s])
        BY <1>1, <2>2
      <4> QED
        BY <1>1, <1>2, <3>2, <4>1
    <3>7. One * cash <= One * cash'
      BY <1>1, <3>6, ProductMonotone
    <3>8. cash' * One >= Equity * policy.reserve
      <4>1. One * cash = cash * One /\ One * cash' = cash' * One
        BY <1>1, <3>6
      <4>2. cash * One \in Int /\ cash' * One \in Int /\ Equity * policy.reserve \in Int
        BY <1>1, <1>5, <3>6
      <4> QED
        BY <3>1, <3>7, <4>1, <4>2
    <3>9. Cardinality(OpenIn(held')) <= policy.positions
      BY <1>5, <1>7, <2>2, <3>1
    <3> QED
      BY <1>2, <3>5, <3>8, <3>9 DEF Within, Exposure, OpenIn
  <2> QED
    BY <1>3, <2>1, <2>2 DEF s, now
<1>9. Single'
  <2>1. held'[s] = now /\ \A r \in Symbols \ {s} : held'[r] = held[r] /\ entries'[r] = entries[r]
    BY <1>1, <1>2 DEF TypeOK
  <2>2. entries'[s] = IF now = 0 THEN 0 ELSE IF o.qty > 0 THEN entries[s] + 1 ELSE entries[s]
    BY <1>1, <1>2 DEF TypeOK
  <2>3. held[s] = 0 => entries[s] = 0
    BY <1>1 DEF Calm, Single
  <2>4. entries'[s] <= 1 /\ (held'[s] = 0 <=> entries'[s] = 0) /\ held'[s] >= 0
    BY <1>1, <1>3, <1>4, <2>1, <2>2, <2>3 DEF s, now
  <2> QED
    BY <2>1, <2>4 DEF Calm, Single
<1>10. OneAtATime' /\ ReadingsHold' /\ EntriesFit'
  BY <1>2 DEF OneAtATime, ReadingsHold, EntriesFit, At
<1>11. OrdersFollowTrend'
  <2>1. ASSUME NEW r \in Symbols, held'[r] # 0
        PROVE  strategy'[r].seen > SlowPeriod /\ (Falling(r)' => Leaving(r)')
    <3>1. CASE r = s
      <4>1. now # 0
        BY <1>1, <1>2, <2>1, <3>1
      <4>2. Rising(s)
        BY <1>3, <4>1 DEF s, now
      <4>3. strategy[s].spread \in {-1, 0, 1} /\ strategy' = strategy
        BY <1>1, <1>2 DEF TypeOK
      <4> QED
        BY <3>1, <4>2, <4>3 DEF Rising, Falling
    <3>2. CASE r # s
      <4>1. held[r] # 0
        BY <1>2, <2>1, <3>2 DEF TypeOK
      <4>2. \A q \in working : q = o
        BY DEF Calm, OneAtATime
      <4>3. ~Leaving(r)
        BY <1>2, <3>2, <4>2 DEF Leaving, At, s
      <4>4. strategy[r].seen > SlowPeriod /\ ~Falling(r)
        BY <4>1, <4>3 DEF Calm, OrdersFollowTrend
      <4> QED
        BY <1>2, <4>4 DEF Falling
    <3> QED
      BY <3>1, <3>2
  <2> QED
    BY <1>2, <2>1 DEF OrdersFollowTrend, At
<1> QED
  BY <1>8, <1>9, <1>10, <1>11 DEF Calm

-------------------------------------------------------------------------------
(* The desk.                                                               *)

LEMMA DeskStarts == Init => DeskInv
<1> SUFFICES ASSUME Init PROVE DeskInv
  OBVIOUS
<1> DEFINE flat == [s \in Symbols |-> 0]
<1>1. /\ Equity \in Nat /\ AtrPeriod \in Nat /\ MaxBars \in [Symbols -> Nat]
      /\ policy.gross \in Nat /\ policy.reserve \in Nat /\ policy.positions \in Nat
  BY DeskAssumption, OneAssumption DEF Init, ValidPolicy
<1>2. TypeOK
  <2>1. strategy \in [Symbols -> [seen : Nat, spread : {-1, 0, 1}]]
    BY DEF Init, FreshEngines, Fresh
  <2>2. entries \in [Symbols -> Nat] /\ held \in [Symbols -> Int] /\ DOMAIN ranges = Symbols
    BY DEF Init
  <2>3. policy \in Policies /\ cash \in Int /\ working = {} /\ lost = FALSE /\ disturbed = FALSE
    BY <1>1 DEF Init
  <2>4. \A s \in Symbols : ranges[s] \in Seq(Ranges) /\ Len(ranges[s]) <= AtrPeriod
    BY <1>1 DEF Init
  <2>5. task \in [Workers -> Tasks]
    BY DEF Init, Tasks
  <2>6. bars \in [Symbols -> Nat] /\ \A s \in Symbols : bars[s] <= MaxBars[s]
    BY <1>1 DEF Init
  <2> QED
    BY <2>1, <2>2, <2>3, <2>4, <2>5, <2>6 DEF TypeOK
<1>3. OneAtATime /\ ReadingsHold /\ EntriesFit /\ OrdersFollowTrend /\ Single
  BY DEF Init, OneAtATime, ReadingsHold, EntriesFit, OrdersFollowTrend, Single, At, Idle
<1>4. Within
  <2>1. held = flat /\ Exposure(flat) = 0 /\ Cardinality(OpenIn(flat)) = 0
    BY NothingHeld DEF Init
  <2> HIDE DEF flat
  <2>2. Exposure(held) = 0 /\ Cardinality(OpenIn(held)) = 0
    BY <2>1
  <2>3. 0 * One = 0 /\ 0 <= Equity * policy.gross
    BY <1>1, OneAssumption
  <2> QED
    BY <1>1, <2>1, <2>2, <2>3 DEF Within, flat
<1> QED
  BY <1>2, <1>3, <1>4, DeskInvIsCalm DEF Calm

LEMMA DeskGoesOn == DeskInv /\ [Next]_vars => DeskInv'
<1> SUFFICES ASSUME DeskInv, [Next]_vars, ~(disturbed') PROVE Calm'
  <2>1. ASSUME DeskInv, [Next]_vars PROVE TypeOK'
    BY <2>1, TypesKept DEF DeskInv
  <2>2. DeskInv' <=> TypeOK' /\ (~(disturbed') => Calm')
    BY DEF DeskInv, OneEntryPerPosition, PortfolioWithinPolicy, Calm, Single, Within
  <2> QED
    BY <2>1, <2>2
<1>1. TypeOK /\ TypeOK' /\ (~disturbed => Calm)
  BY TypesKept, DeskInvIsCalm DEF DeskInv
<1>2. ASSUME NEW w \in Workers, NEW s \in Symbols, NEW range \in Ranges, NEW sign \in Signs(s),
             OnCandle(w, s, range, sign)
      PROVE  Calm'
  <2>1. ~disturbed
    BY <1>2 DEF OnCandle
  <2> QED
    BY <1>1, <1>2, <2>1, CandleKeepsCalm
<1>3. ASSUME NEW w \in Workers, Handle(w) PROVE Calm'
  <2>1. ~disturbed
    BY <1>3 DEF Handle, ReadAccount, ReadPositions, RiskCheck, SubmitEntry, ListPositions, ClosePosition
  <2> QED
    BY <1>1, <1>3, <2>1, ReadingKeepsCalm, RiskCheckKeepsCalm, OrderKeepsCalm, ListKeepsCalm DEF Handle
<1>4. ASSUME NEW w \in Workers, Fail(w) PROVE Calm'
  BY <1>4 DEF Fail
<1>5. ASSUME NEW o \in working, Fill(o) PROVE Calm'
  BY <1>1, <1>5, FillKeepsCalm DEF Fill
<1>6. ASSUME NEW p \in Policies, Reconfigure(p) PROVE Calm'
  BY <1>6 DEF Reconfigure
<1>7. CASE UNCHANGED vars
  <2>1. Calm
    BY <1>1, <1>7 DEF vars
  <2> QED
    BY <1>7, <2>1 DEF vars, market, broker, Calm, OneAtATime, ReadingsHold, EntriesFit, Fits,
                      OrdersFollowTrend, Rising, Falling, Leaving, Single, Within, Exposure, OpenIn,
                      At, SymbolOf, Bar
<1> QED
  BY <1>2, <1>3, <1>4, <1>5, <1>6, <1>7 DEF Next

\* The desk is consistent in every reachable state.  Undisturbed, the account an
\* order was tested against is the one it fills into, so that a symbol is bought
\* at most once before it is sold, and selling it leaves nothing over.
THEOREM DeskIsSound == Spec => []DeskInv
BY DeskStarts, DeskGoesOn, PTL DEF Spec

\* The limits of the policy, tested before an order, hold of the account after it:
\* for any number of symbols, any policy, price and equity.
THEOREM LimitsHoldAfterFills == Spec => []PortfolioWithinPolicy
<1>1. DeskInv => PortfolioWithinPolicy
  BY DEF DeskInv
<1> QED
  BY <1>1, DeskIsSound, PTL

\* No exit is missed: what is held when nothing is under way is not in a downtrend.
THEOREM NoExitIsMissed == Spec => []HeldOnlyInUptrend
<1>1. DeskInv => HeldOnlyInUptrend
  BY DEF DeskInv, HeldOnlyInUptrend, OrdersFollowTrend, Falling, Leaving, At
<1> QED
  BY <1>1, DeskIsSound, PTL
================================================================================
