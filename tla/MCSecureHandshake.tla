--------------------------- MODULE MCSecureHandshake ---------------------------
(***************************************************************************)
(* Values of the constants of SecureHandshake for TLC.                     *)
(***************************************************************************)
EXTENDS SecureHandshake, TLC

CONSTANTS s1, s2, x1, x2, x3

================================================================================
