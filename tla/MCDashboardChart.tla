--------------------------- MODULE MCDashboardChart ----------------------------
(* A small instance of DashboardChart for TLC.                             *)
EXTENDS DashboardChart

CONSTANTS a, b, none

\* One symbol in two ranges, and another symbol.
MCVisited == [symbol : {a}, range : {"1D", "1W"}] \cup [symbol : {b}, range : {"1W"}]
MCHistories == {<<1>>, <<4, 5>>}
================================================================================
