------------------------------- MODULE TickLine --------------------------------
(***************************************************************************)
(* What provider, worker and queues promise: the ticks of a symbol stand   *)
(* in one line.  A new tick joins it at its end, and only the first of the *)
(* line is processed.  Ticks leave it in no other way until a tick is      *)
(* dropped, by a cancelled task or a failure, and that is on record.       *)
(***************************************************************************)
EXTENDS Naturals, Sequences

CONSTANT Symbols

VARIABLES sent,         \* ticks made, per symbol: they are numbered from 1
          line,         \* the ticks of a symbol that stand in line
          processed,    \* the ticks of a symbol that were processed, in this order
          dropped

lines == <<sent, line, processed, dropped>>

Init ==
    /\ sent = [s \in Symbols |-> 0]
    /\ line = [s \in Symbols |-> {}]
    /\ processed = [s \in Symbols |-> <<>>]
    /\ dropped = FALSE

Join(s) ==
    /\ sent' = [sent EXCEPT ![s] = @ + 1]
    /\ line' = [line EXCEPT ![s] = @ \cup {sent[s] + 1}]
    /\ UNCHANGED <<processed, dropped>>

Serve(s, first) ==
    /\ \A n \in line[s] : first <= n
    /\ line' = [line EXCEPT ![s] = @ \ {first}]
    /\ processed' = [processed EXCEPT ![s] = Append(@, first)]
    /\ UNCHANGED <<sent, dropped>>

Drop ==
    /\ dropped' = TRUE
    /\ DOMAIN line' = Symbols /\ \A s \in Symbols : line'[s] \subseteq line[s]
    /\ UNCHANGED <<sent, processed>>

Next ==
    \/ \E s \in Symbols : Join(s) \/ \E first \in line[s] : Serve(s, first)
    \/ Drop

Spec == Init /\ [][Next]_lines
================================================================================
