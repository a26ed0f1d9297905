-------------------------- MODULE MCDashboardControl --------------------------
(* A small instance of DashboardControl for TLC.                           *)
EXTENDS DashboardControl

CONSTANTS a, b, none, r1, r2, s1

MCDefault == [mode |-> "paper", place |-> FALSE, symbols |-> {a}, version |-> 1]
MCWatchLists == {{}, {a, b}}
==============================================================================
