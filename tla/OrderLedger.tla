----------------------------- MODULE OrderLedger -----------------------------
(***************************************************************************)
(* What order execution promises, whatever handlers, crashes and brokers   *)
(* do: an order is first intended, durably; only an intended order is      *)
(* placed with the broker, and only once; and only a placed order is ever  *)
(* confirmed.  Nothing is forgotten.                                       *)
(***************************************************************************)
EXTENDS Naturals

CONSTANT Orders

VARIABLES intended,     \* orders with a durable submission intent
          placed,       \* how often each order was handed to the broker
          confirmed     \* orders the ledger shows as known to the broker

Init ==
    /\ intended = {}
    /\ placed = [o \in Orders |-> 0]
    /\ confirmed = {}

Intend(o) ==
    /\ o \notin intended
    /\ intended' = intended \cup {o}
    /\ UNCHANGED <<placed, confirmed>>

Place(o) ==
    /\ o \in intended
    /\ placed[o] = 0
    /\ placed' = [placed EXCEPT ![o] = 1]
    /\ UNCHANGED <<intended, confirmed>>

Confirm(o) ==
    /\ placed[o] = 1
    /\ o \notin confirmed
    /\ confirmed' = confirmed \cup {o}
    /\ UNCHANGED <<intended, placed>>

Next == \E o \in Orders : Intend(o) \/ Place(o) \/ Confirm(o)

Spec == Init /\ [][Next]_<<intended, placed, confirmed>>
==============================================================================
