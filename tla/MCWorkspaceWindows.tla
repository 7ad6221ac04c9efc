------------------------- MODULE MCWorkspaceWindows -------------------------
(* The histories of WorkspaceWindows that the runs explore. *)
EXTENDS WorkspaceWindows

TwoRequests == 1 .. 2
ThreeRequests == 1 .. 3

Calm(b, n, o) == [backend |-> b, requests |-> n, ops |-> o,
                  losses |-> 0, crashes |-> 0, fails |-> 0]

\* Two requests of every kind, and a call is lost, the Core dies, or a tmux command
\* fails; or three launches and nothing fails.
FaultBudgets ==
  UNION {{[Calm(b, 2, Ops) EXCEPT !.crashes = 1], [Calm(b, 2, Ops) EXCEPT !.fails = 1],
          Calm(b, 3, {"command"})} : b \in Backends}
  \cup {[Calm(b, 2, Ops) EXCEPT !.losses = 1] : b \in {"ssh", "node"}}

CalmBudgets == {Calm("local", 2, Ops)}
=============================================================================
