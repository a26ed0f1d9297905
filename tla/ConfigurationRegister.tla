------------------------ MODULE ConfigurationRegister -------------------------
(***************************************************************************)
(* What the control plane promises to everybody who edits or reads the     *)
(* configuration: one register of versioned configurations.  A new one     *)
(* replaces its direct predecessor, of which it carries the confirmations; *)
(* nothing else ever changes the register.  ControlPlane implements it,    *)
(* DashboardControl relies on it.                                          *)
(***************************************************************************)
EXTENDS Naturals

CONSTANTS Configurations, Consents

VARIABLE store

\* Entering live mode, and switching automatic orders on or to another mode,
\* each need a confirmation of its own.
Confirmed(from, to, consent) ==
    /\ to.mode = "live" /\ from.mode # "live" => consent.live
    /\ to.place /\ (~from.place \/ to.mode # from.mode) => consent.automation = to.mode

Init == store \in Configurations

Update(c, consent) ==
    /\ c.version = store.version + 1
    /\ Confirmed(store, c, consent)
    /\ store' = c

Next == store' \in Configurations /\ \E consent \in Consents : Update(store', consent)

Spec == Init /\ [][Next]_store
===============================================================================
