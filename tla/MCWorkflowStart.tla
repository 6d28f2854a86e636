--------------------------- MODULE MCWorkflowStart ---------------------------
(* WorkflowStart with small sets *)
EXTENDS WorkflowStart, TLC
=============================================================================
