----------------------------- MODULE MCNodeRun -----------------------------
(* Instance of NodeRun for TLC. *)
EXTENDS NodeRun

=============================================================================
