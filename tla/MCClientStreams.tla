---------------------------- MODULE MCClientStreams ----------------------------
(***************************************************************************)
(* Values of the constants of ClientStreams for TLC.                       *)
(***************************************************************************)
EXTENDS ClientStreams, TLC

CONSTANTS p1, p2, s1, s2, s3, s4, b1, b2, b3, b4, t1, t2, t3, t4

================================================================================
