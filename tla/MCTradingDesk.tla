---------------------------- MODULE MCTradingDesk -----------------------------
(* Small instances of TradingDesk for TLC.                                 *)
EXTENDS TradingDesk, TLC

CONSTANTS queue, request, a, b

Standard == [risk |-> 4, dailyLoss |-> 20, losses |-> 3, stop |-> 100, target |-> 200,
             trail |-> 100, reward |-> 100, gross |-> 100, reserve |-> 0, positions |-> 10]

\* With an ATR of 1 a position costs 40 of the 100 of equity.  A second one
\* exceeds, in turn, the exposure, the reserve and the number of positions; the
\* stop of the last policy is no amount.
MCPolicies == {[Standard EXCEPT !.gross = 70], [Standard EXCEPT !.reserve = 30],
               [Standard EXCEPT !.positions = 1], [Standard EXCEPT !.stop = 150]}

\* One symbol has time to cross up, touch zero and cross again after warming up.
MCMaxBars == [s \in Symbols |-> IF s = a THEN 6 ELSE 4]
==============================================================================
