-------------------------- MODULE MCConnectionManager --------------------------
(***************************************************************************)
(* Values of the constants of ConnectionManager for TLC.                   *)
(***************************************************************************)
EXTENDS ConnectionManager, TLC

CONSTANTS p1, p2, p3

================================================================================
