----------------------------- MODULE TradingDesk ------------------------------
(***************************************************************************)
(* From completed bars to positions: _evaluate_completed_candle            *)
(* (src/services/trading_orchestrator.py) with its ATR tracker, the EMA    *)
(* crossover strategy, the portfolio context and risk engine, and the      *)
(* orders they lead to at the broker.                                      *)
(*                                                                         *)
(* Bars of one symbol reach the strategies in order, each once             *)
(* (MarketPipeline); tasks that evaluate bars of several symbols, or REST  *)
(* requests, interleave at every await.  How one order is reserved and     *)
(* submitted is the subject of OrderExecution and a single step here.      *)
(* Prices do not move: equity and the result of the day are constant.      *)
(***************************************************************************)
EXTENDS RiskEngine, Sequences, FiniteSets

CONSTANTS
    Workers,
    Symbols,
    Policies,       \* risk policies an operator may set
    Price,          \* of a share
    Equity,
    Today,          \* result of the day so far
    Ranges,         \* true range of a bar
    AtrPeriod,
    SlowPeriod,
    MaxBars         \* bound: completed bars, per symbol

ASSUME DeskAssumption ==
    /\ IsFiniteSet(Symbols)
    /\ \A p \in Policies : ValidPolicy(p)
    /\ {Price, Equity} \subseteq Nat \ {0}
    /\ Today \in Int
    /\ Ranges \subseteq Nat
    /\ AtrPeriod \in 2..200 /\ SlowPeriod \in 3..1000
    /\ MaxBars \in [Symbols -> Nat]

VARIABLES
    policy,     \* RiskEngine._policy
    strategy,   \* per symbol: completed bars seen, sign of the last spread
    ranges,     \* AtrTracker._ranges
    bars,       \* completed bars handed to the orchestrator, per symbol
    cash,       \* at the broker
    held,       \* the broker's position per symbol
    entries,    \* history: entries filled since the symbol was flat
    working,    \* orders the broker has accepted and not filled
    lost,       \* history: a proposed entry ended in an exception, unassessed
    task,
    disturbed   \* history: evaluations overlapped, an order was late or failed,
                \* the policy changed or an available cash of zero was seen

market == <<strategy, ranges, bars>>
broker == <<cash, held, entries, working>>
vars == <<policy, market, broker, lost, task, disturbed>>

Fresh == [seen |-> 0, spread |-> 0]
FreshEngines == [s \in Symbols |-> Fresh]
Idle == [pc |-> "idle"]
At(w, step) == task[w].pc = step
Goto(w, step) == task' = [task EXCEPT ![w].pc = step]
Return(w) == task' = [task EXCEPT ![w] = Idle]
Bar(w) == task[w].bar
SymbolOf(w) == Bar(w)[1]
\* The event ends in an exception, which the consumer logs.
Raise(w) == lost' = TRUE /\ Return(w)

Init ==
    /\ policy \in Policies
    /\ strategy = FreshEngines
    /\ ranges = [s \in Symbols |-> <<>>]
    /\ bars = [s \in Symbols |-> 0]
    /\ cash = Equity
    /\ held = [s \in Symbols |-> 0]
    /\ entries = [s \in Symbols |-> 0]
    /\ working = {}
    /\ lost = FALSE
    /\ task = [w \in Workers |-> Idle]
    /\ disturbed = FALSE

------------------------------------------------------------------------------
\* The sum of a family of natural numbers, as the number of its units.
Units(family) == UNION {{i} \X (1..family[i]) : i \in DOMAIN family}
SumOf(family) == Cardinality(Units(family))

\* AtrTracker.update: a window of the last AtrPeriod true ranges.
Window(s, range) ==
    LET all == Append(ranges[s], range)
    IN  IF Len(all) > AtrPeriod THEN Tail(all) ELSE all
Total(window) == SumOf(window)
AtrReady(window) == Len(window) = AtrPeriod

\* The EMA spread is reduced to its sign: 0 at the first bar, where both
\* averages are the close, and anything after.
Signs(s) == IF strategy[s].seen = 0 THEN {0} ELSE {-1, 0, 1}

\* Mutant: a spread that comes from zero exactly has not crossed.
CrossStrictly(previous, current) ==
    CASE previous < 0 /\ current > 0 -> "BUY"
      [] previous > 0 /\ current < 0 -> "EXIT"
      [] OTHER -> "HOLD"
Cross(previous, current) ==
    CASE previous <= 0 /\ current > 0 -> "BUY"
      [] previous >= 0 /\ current < 0 -> "EXIT"
      [] OTHER -> "HOLD"

Intent(s, sign) ==
    IF strategy[s].seen < SlowPeriod THEN "HOLD" ELSE Cross(strategy[s].spread, sign)

\* StrategyEngine: under its lock the one plugin of the symbol sees the bar.
Dispatch(s, sign) == strategy' = [strategy EXCEPT ![s] = [seen |-> @.seen + 1, spread |-> sign]]

\* A proposal is dropped while the ATR is not ready.
OnCandle(w, s, range, sign) ==
    LET bar == <<s, bars[s] + 1>>
        window == Window(s, range)
        intent == Intent(s, sign)
    IN
    /\ At(w, "idle") /\ bars[s] < MaxBars[s]
    /\ bars' = [bars EXCEPT ![s] = @ + 1]
    /\ ranges' = [ranges EXCEPT ![s] = window]
    /\ Dispatch(s, sign)
    /\ task' = [task EXCEPT ![w] =
                  CASE intent = "EXIT" -> [pc |-> "list", bar |-> bar]
                    [] intent = "BUY" /\ AtrReady(window) ->
                         [pc |-> "account", bar |-> bar, total |-> Total(window)]
                    [] OTHER -> Idle]
    /\ disturbed' = (disturbed \/ working # {} \/ \E v \in Workers : ~At(v, "idle"))
    /\ UNCHANGED <<policy, broker, lost>>

------------------------------------------------------------------------------
(* risk_context: the account, then the positions, each at its own moment.  *)
\* A negative cash balance is no AccountSnapshot: the event ends in an error.
IsAccount(balance) == balance >= 0

ReadAccount(w) ==
    /\ At(w, "account")
    /\ IF IsAccount(cash)
         THEN /\ task' = [task EXCEPT ![w] =
                            [pc |-> "positions", bar |-> @.bar, total |-> @.total, cash |-> cash]]
              /\ UNCHANGED lost
         ELSE Raise(w)
    /\ UNCHANGED <<policy, market, broker, disturbed>>

ReadPositions(w) ==
    /\ At(w, "positions")
    /\ task' = [task EXCEPT ![w] = [pc |-> "decide", bar |-> @.bar, total |-> @.total,
                                   cash |-> @.cash, held |-> held]]
    /\ UNCHANGED <<policy, market, broker, lost, disturbed>>

OpenIn(positions) == {s \in Symbols : positions[s] # 0}
Exposure(positions) ==
    Price * SumOf([s \in Symbols |-> IF positions[s] < 0 THEN -positions[s] ELSE positions[s]])

AtrOf(w) == task[w].total \div AtrPeriod
Context(w) == [price |-> Price, atr |-> AtrOf(w), equity |-> Equity, today |-> Today,
               cash |-> task[w].cash, exposure |-> Exposure(task[w].held),
               open |-> Cardinality(OpenIn(task[w].held)), losses |-> 0,
               holds |-> task[w].held[SymbolOf(w)] # 0,
               averages |-> task[w].held[SymbolOf(w)] # 0]

\* An average with more decimal places than an amount, or zero, is no ATR.
ContextIsValid(w) == task[w].total > 0 /\ task[w].total % AtrPeriod = 0

\* After the portfolio is recorded: build the context, evaluate, keep the signal.
RiskCheck(w) ==
    LET outcome == IF ContextIsValid(w) THEN Evaluate(policy, Context(w), "BUY") ELSE "raises"
    IN
    /\ At(w, "decide")
    /\ \/ /\ outcome = "approved"
          /\ task' = [task EXCEPT ![w] =
                        [pc |-> "submit", bar |-> @.bar,
                         qty |-> PositionSize(policy, Context(w))]]
          /\ UNCHANGED lost
       \/ /\ outcome = "rejected"
          /\ Return(w)
          /\ UNCHANGED lost
       \/ /\ outcome = "raises"
          /\ Raise(w)
    /\ disturbed' = (disturbed \/ task[w].cash = 0)
    /\ UNCHANGED <<policy, market, broker>>

Order(w, qty) == [bar |-> Bar(w), symbol |-> SymbolOf(w), qty |-> qty]

\* execute_entry: reserved, submitted, accepted.
SubmitEntry(w) ==
    /\ At(w, "submit")
    /\ working' = working \cup {Order(w, task[w].qty)}
    /\ Return(w)
    /\ UNCHANGED <<policy, market, cash, held, entries, lost, disturbed>>

\* execute_exit: reads the portfolio, account first; nothing to close, or
\* close_position.
ListPositions(w) ==
    /\ At(w, "list")
    /\ IF IsAccount(cash) /\ held[SymbolOf(w)] # 0 THEN Goto(w, "close") ELSE Return(w)
    /\ UNCHANGED <<policy, market, broker, lost, disturbed>>

\* Mutant: one share is sold, the quantity of the reservation.
CloseOneShare(w) ==
    /\ At(w, "close")
    /\ Return(w)
    /\ working' = working \cup {Order(w, -1)}
    /\ UNCHANGED <<policy, market, cash, held, entries, lost, disturbed>>

ClosePosition(w) ==
    /\ At(w, "close")
    /\ Return(w)
    /\ working' = IF held[SymbolOf(w)] = 0 THEN working
                  ELSE working \cup {Order(w, -held[SymbolOf(w)])}
    /\ UNCHANGED <<policy, market, cash, held, entries, lost, disturbed>>

\* The broker refuses the order, or the handler fails or is cancelled.
Fail(w) ==
    /\ ~At(w, "idle")
    /\ Return(w)
    /\ disturbed' = TRUE
    /\ UNCHANGED <<policy, market, broker, lost>>

\* Market orders fill, some time later.
Fill(o) ==
    LET s == o.symbol
        now == held[s] + o.qty
    IN
    /\ o \in working
    /\ working' = working \ {o}
    /\ held' = [held EXCEPT ![s] = now]
    /\ cash' = cash - o.qty * Price
    /\ entries' = [entries EXCEPT ![s] = IF now = 0 THEN 0 ELSE IF o.qty > 0 THEN @ + 1 ELSE @]
    /\ UNCHANGED <<policy, market, lost, task, disturbed>>

\* orchestrator.reconfigure: new strategies, risk engine and ATR tracker, at
\* whatever await the tasks are.
Reconfigure(p) ==
    /\ policy' = p
    /\ strategy' = FreshEngines
    /\ ranges' = [s \in Symbols |-> <<>>]
    /\ disturbed' = TRUE
    /\ UNCHANGED <<bars, broker, lost, task>>

------------------------------------------------------------------------------
Handle(w) ==
    \/ ReadAccount(w) \/ ReadPositions(w) \/ RiskCheck(w) \/ SubmitEntry(w)
    \/ ListPositions(w) \/ ClosePosition(w)

Next ==
    \/ \E w \in Workers :
         \/ \E s \in Symbols, range \in Ranges : \E sign \in Signs(s) : OnCandle(w, s, range, sign)
         \/ Handle(w)
         \/ Fail(w)
    \/ \E o \in working : Fill(o)
    \/ \E p \in Policies : Reconfigure(p)

Spec == Init /\ [][Next]_vars

(* The event loop resumes every task, and the broker fills market orders.  *)
FairSpec ==
    /\ Spec
    /\ \A w \in Workers : WF_vars(Handle(w))
    /\ WF_vars(\E o \in working : Fill(o))

------------------------------------------------------------------------------
(* Properties.                                                             *)

Bars == Symbols \X Nat
Tasks ==
    {Idle}
    \cup [pc : {"account"}, bar : Bars, total : Nat]
    \cup [pc : {"positions"}, bar : Bars, total : Nat, cash : Nat]
    \cup [pc : {"decide"}, bar : Bars, total : Nat, cash : Nat, held : [Symbols -> Int]]
    \cup [pc : {"submit"}, bar : Bars, qty : Nat \ {0}]
    \cup [pc : {"list", "close"}, bar : Bars]

TypeOK ==
    /\ policy \in Policies
    /\ bars \in [Symbols -> Nat] /\ \A s \in Symbols : bars[s] <= MaxBars[s]
    /\ strategy \in [Symbols -> [seen : Nat, spread : {-1, 0, 1}]]
    /\ \A s \in Symbols : ranges[s] \in Seq(Ranges) /\ Len(ranges[s]) <= AtrPeriod
    /\ DOMAIN ranges = Symbols
    /\ cash \in Int
    /\ held \in [Symbols -> Int]
    /\ entries \in [Symbols -> Nat]
    /\ \A o \in working : o \in [bar : Bars, symbol : Symbols, qty : Int \ {0}]
    /\ {lost, disturbed} \subseteq BOOLEAN
    /\ task \in [Workers -> Tasks]

\* While bars are evaluated one after the other, each order fills before the
\* next bar, and the cash is known, the portfolio stays within the policy: the
\* limits tested on the context before the order hold of the account after it.
PortfolioWithinPolicy ==
    ~disturbed =>
        /\ Exposure(held) * One <= Equity * policy.gross
        /\ held # [s \in Symbols |-> 0] => cash * One >= Equity * policy.reserve
        /\ Cardinality(OpenIn(held)) <= policy.positions

\* Under the same conditions a symbol is bought once before it is sold, and
\* selling it leaves nothing over and nothing short.
OneEntryPerPosition ==
    ~disturbed => \A s \in Symbols : entries[s] <= 1 /\ (held[s] = 0 <=> entries[s] = 0) /\ held[s] >= 0

\* Under the same conditions no symbol is held once its fast average is below
\* the slow one: no exit is missed, over any sequence of crossings.
HeldOnlyInUptrend ==
    ~disturbed /\ working = {} /\ (\A w \in Workers : At(w, "idle")) =>
        \A s \in Symbols : strategy[s].spread < 0 => held[s] = 0

\* Undisturbed, one evaluation is under way or one order is working, not both.
OneAtATime ==
    /\ \A v, w \in Workers : ~At(v, "idle") /\ ~At(w, "idle") => v = w
    /\ working # {} => \A w \in Workers : At(w, "idle")
    /\ \A o, r \in working : o = r

\* What a task has read of the account is still so.
ReadingsHold ==
    \A w \in Workers :
        /\ (At(w, "positions") \/ At(w, "decide")) => task[w].cash = cash
        /\ At(w, "decide") => task[w].held = held

\* Bought, qty shares of s keep the account within the policy.
Fits(s, qty) ==
    /\ held[s] = 0
    /\ (Exposure(held) + qty * Price) * One <= Equity * policy.gross
    /\ (cash - qty * Price) * One >= Equity * policy.reserve
    /\ Cardinality(OpenIn(held)) < policy.positions
EntriesFit ==
    /\ \A w \in Workers : At(w, "submit") => Fits(SymbolOf(w), task[w].qty)
    /\ \A o \in working : o.qty > 0 => Fits(o.symbol, o.qty)

\* An entry under way belongs to an upward cross after the warm-up, an exit to a
\* downward one and to all that is held; and what is held below is on its way out.
Rising(s) == strategy[s].seen > SlowPeriod /\ strategy[s].spread > 0
Falling(s) == strategy[s].spread < 0
Leaving(s) ==
    \/ \E w \in Workers : (At(w, "list") \/ At(w, "close")) /\ SymbolOf(w) = s
    \/ \E o \in working : o.symbol = s /\ o.qty < 0
OrdersFollowTrend ==
    /\ \A w \in Workers :
         /\ task[w].pc \in {"account", "positions", "decide", "submit"} => Rising(SymbolOf(w))
         /\ (At(w, "list") \/ At(w, "close")) => Falling(SymbolOf(w))
    /\ \A o \in working :
         IF o.qty > 0 THEN Rising(o.symbol) ELSE Falling(o.symbol) /\ o.qty = -held[o.symbol]
    /\ \A s \in Symbols : held[s] # 0 =>
         strategy[s].seen > SlowPeriod /\ (Falling(s) => Leaving(s))

\* Together they are inductive: the account an order was tested against is the
\* one it fills into, because nothing else happens in between.
DeskInv ==
    /\ TypeOK
    /\ ~disturbed => OneAtATime /\ ReadingsHold /\ EntriesFit /\ OrdersFollowTrend
    /\ OneEntryPerPosition
    /\ PortfolioWithinPolicy

\* Under the same conditions an exit signal ends with a flat position.
ExitsFlatten ==
    [](~disturbed) =>
        \A s \in Symbols : (\E w \in Workers : At(w, "list") /\ SymbolOf(w) = s) ~> held[s] = 0

\* docs/architecture.md: the risk policy is "evaluated by every proposed entry".
EveryProposalIsAssessed == ~lost
==============================================================================
