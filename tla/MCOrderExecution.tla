-------------------------- MODULE MCOrderExecution ---------------------------
(* Small instances of OrderExecution for TLC.                              *)
EXTENDS OrderExecution, TLC

CONSTANTS w1, w2, buy1, exit1, exit2, aapl

\* One entry and two exits of one symbol: enough for duplicate evaluations,
\* for an exit racing an entry, and for two overlapping exits.
MCEntries == {buy1}
MCExits == {exit1, exit2}
MCSymbolOf == [o \in {buy1, exit1, exit2} |-> aapl]

\* One entry and one exit, for the liveness run.
MCProgressSymbolOf == [o \in {buy1, exit1} |-> aapl]

WorkerSymmetry == Permutations({w1, w2})
==============================================================================
