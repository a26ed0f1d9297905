------------------------------ MODULE RiskEngine ------------------------------
(***************************************************************************)
(* RiskEngine.evaluate and its inputs (src/risk).                          *)
(*                                                                         *)
(* Amounts count the smallest amount a RiskContext or a RiskManagedSignal  *)
(* can hold (eight decimal places); fractions and ATR multiples count      *)
(* parts of One.  A product of an amount and a multiple or fraction is     *)
(* therefore kept in parts of One, and all comparisons are exact.          *)
(***************************************************************************)
EXTENDS Integers

CONSTANT One        \* the multiple 1

ASSUME OneAssumption == One \in Nat \ {0}

\* A RiskPolicy as its validators accept it.
ValidPolicy(p) ==
    /\ {p.risk, p.dailyLoss, p.gross} \subseteq 1..One
    /\ p.reserve \in 0..(One - 1)
    /\ {p.stop, p.target, p.trail, p.losses, p.positions} \subseteq Nat \ {0}
    /\ p.reward \in Nat /\ p.reward >= One
    /\ p.target * One >= p.reward * p.stop

\* A RiskContext as its validators accept it; an ATR of zero, or one with more
\* decimal places than an amount can hold, is refused with an exception.
ValidContext(c) ==
    /\ {c.price, c.atr, c.equity} \subseteq Nat \ {0}
    /\ {c.cash, c.exposure, c.open, c.losses} \subseteq Nat
    /\ c.today \in Int
    /\ {c.holds, c.averages} \subseteq BOOLEAN

StopDistance(p, c) == c.atr * p.stop
ExpectedMove(p, c) == c.atr * p.target

PositivePrices(p, c, direction) ==
    IF direction = "BUY" THEN c.price * One > StopDistance(p, c)
                         ELSE c.price * One > ExpectedMove(p, c)

\* Whole shares whose loss at the stop stays within the risk of one trade.
PositionSize(p, c) == (c.equity * p.risk) \div StopDistance(p, c)
PositionRisk(p, c) == PositionSize(p, c) * StopDistance(p, c)
Notional(p, c) == PositionSize(p, c) * c.price

LossToday(c) == IF c.today < 0 THEN -c.today ELSE 0
WithinDailyLoss(p, c) == LossToday(c) * One + PositionRisk(p, c) <= c.equity * p.dailyLoss

\* No available cash at all counts as "unknown" and passes.
KeepsReserve(p, c) == c.cash = 0 \/ (c.cash - Notional(p, c)) * One >= c.equity * p.reserve

\* Mutant: the exposure is tested without the order.
ExposureBefore(p, c) == c.exposure * One <= c.equity * p.gross
WithinExposure(p, c) == (c.exposure + Notional(p, c)) * One <= c.equity * p.gross
WithinPositions(p, c) == c.holds \/ c.open < p.positions

\* Mutant: buying more of a losing position is allowed.
ApprovesAveraging(p, c, direction) ==
    /\ c.losses < p.losses
    /\ PositivePrices(p, c, direction)
    /\ PositionSize(p, c) >= 1
    /\ WithinDailyLoss(p, c) /\ KeepsReserve(p, c)
    /\ WithinExposure(p, c) /\ WithinPositions(p, c)
Approves(p, c, direction) ==
    /\ ~c.averages
    /\ c.losses < p.losses
    /\ PositivePrices(p, c, direction)
    /\ PositionSize(p, c) >= 1
    /\ WithinDailyLoss(p, c)
    /\ KeepsReserve(p, c)
    /\ WithinExposure(p, c)
    /\ WithinPositions(p, c)

\* The signal's own validators: stop, target and trailing distance must be amounts.
Representable(p, c) ==
    \A multiple \in {p.stop, p.target, p.trail} : (c.atr * multiple) % One = 0

Evaluate(p, c, direction) ==
    CASE direction \in {"HOLD", "EXIT"}                  -> "not_applicable"
      [] direction \in {"BUY", "SELL"} /\ ~Approves(p, c, direction) -> "rejected"
      [] OTHER -> IF Representable(p, c) THEN "approved" ELSE "raises"
===============================================================================
