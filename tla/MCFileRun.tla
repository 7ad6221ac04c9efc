------------------------------ MODULE MCFileRun ------------------------------
(* The histories of FileRun that the runs explore. *)
EXTENDS FileRun

CONSTANTS r1, r2

TwoRuns == {r1, r2}

Calm(b, n) == [backend |-> b, runs |-> n, losses |-> 0, crashes |-> 0, reboots |-> 0,
               stops |-> 0, kills |-> 0, edits |-> 0]

\* Two runs, where one meets what the other leaves: a call is lost or fails, the Core
\* dies, or tmux is lost.
TwoRunBudgets ==
  {[Calm("local", 2) EXCEPT !.losses = 1],
   [Calm("local", 2) EXCEPT !.crashes = 1],
   [Calm("node", 2) EXCEPT !.reboots = 1],
   [Calm("ssh", 2) EXCEPT !.losses = 1]}

\* One run: what it claimed is edited; the program is interrupted, or killed around a
\* crash or a failing call; a call is lost around a crash or a loss of tmux.
OneRunBudgets ==
  {[Calm("local", 1) EXCEPT !.crashes = 1, !.kills = 1],
   [Calm("local", 1) EXCEPT !.losses = 1, !.kills = 1],
   [Calm("node", 1) EXCEPT !.edits = 1, !.losses = 1],
   [Calm("node", 1) EXCEPT !.stops = 1, !.losses = 1],
   [Calm("node", 1) EXCEPT !.losses = 1, !.crashes = 1],
   [Calm("node", 1) EXCEPT !.losses = 1, !.reboots = 1],
   [Calm("ssh", 1) EXCEPT !.losses = 1, !.crashes = 1],
   [Calm("ssh", 1) EXCEPT !.losses = 1, !.kills = 1]}

FaultBudgets == TwoRunBudgets \cup OneRunBudgets
=============================================================================
