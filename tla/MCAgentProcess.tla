--------------------------- MODULE MCAgentProcess ---------------------------
(***************************************************************************)
(* Values of the constants of AgentProcess for TLC.                        *)
(***************************************************************************)
EXTENDS AgentProcess, TLC

CONSTANTS r1, r2, r3, m1, m2, m3

\* A plan approval and calls that only bypass mode lets through.
MCTool == [r \in Requests |-> IF r = r1 THEN "ExitPlanMode" ELSE "Bash"]

MCRule == [r \in Requests |-> "none"]

=============================================================================
