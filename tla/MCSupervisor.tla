---------------------------- MODULE MCSupervisor ----------------------------
(***************************************************************************)
(* Values of the constants of Supervisor for TLC.                          *)
(***************************************************************************)
EXTENDS Supervisor, TLC

CONSTANTS r1, r2, r3, r4, s1

\* Requests are interchangeable.  Only runs without liveness use this.
Symmetry == Permutations(Requests)

=============================================================================
