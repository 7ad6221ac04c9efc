-------------------------- MODULE MCTerminalBridge --------------------------
(* TerminalBridge for TLC. *)
EXTENDS TerminalBridge, TLC

Symmetry == Permutations(Clients) \cup Permutations(Sizes)
=============================================================================
