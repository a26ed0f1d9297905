--------------------------- MODULE MCControlPlane ----------------------------
(* Small instances of ControlPlane for TLC.                                *)
EXTENDS ControlPlane, TLC

CONSTANTS aapl, p1, p2

PolicySymmetry == Permutations({p1, p2})
==============================================================================
