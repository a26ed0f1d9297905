-------------------------------- MODULE BarLog ---------------------------------
(***************************************************************************)
(* What the pipeline promises the strategies of one series, whatever       *)
(* callers, interruptions and restarts do: a tick enters one bar, once,    *)
(* and never a bar older than the newest; a bar is delivered once, with    *)
(* all its ticks, after a newer one has begun.  A restart forgets all.     *)
(***************************************************************************)
EXTENDS Naturals, Sequences, Functions

CONSTANTS Starts, Ticks

VARIABLES bars,         \* ticks of each bar, by the start of its bucket
          delivered     \* bars the strategies have seen, in this order

Empty == [s \in Starts |-> <<>>]

Init == bars = Empty /\ delivered = <<>>

Add(s, tick) ==
    /\ \A r \in Starts : tick \notin Range(bars[r]) /\ (bars[r] # <<>> => r <= s)
    /\ bars' = [bars EXCEPT ![s] = Append(@, tick)]
    /\ UNCHANGED delivered

Deliver(s) ==
    /\ bars[s] # <<>> /\ \E r \in Starts : s < r /\ bars[r] # <<>>
    /\ \A i \in DOMAIN delivered : delivered[i].start # s
    /\ delivered' = Append(delivered, [start |-> s, ticks |-> bars[s]])
    /\ UNCHANGED bars

Restart == bars' = Empty /\ delivered' = <<>>

Next ==
    \/ \E s \in Starts : Deliver(s) \/ \E tick \in Ticks : Add(s, tick)
    \/ Restart

Spec == Init /\ [][Next]_<<bars, delivered>>
================================================================================
