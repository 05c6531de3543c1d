---------------------------- MODULE MCRelayPath -----------------------------
(***************************************************************************)
(* Values of the constants of RelayPath for TLC. No symmetry: a new socket *)
(* takes the spare name CHOOSE finds.                                      *)
(***************************************************************************)
EXTENDS RelayPath

CONSTANTS l1, l2, l3, p1, u1

=============================================================================
