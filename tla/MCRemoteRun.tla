---------------------------- MODULE MCRemoteRun ----------------------------
(* The histories of RemoteRun that the runs explore. *)
EXTENDS RemoteRun

Quiet(k) == [kind |-> k, crashes |-> 0, reboots |-> 0, stops |-> 0, kills |-> 0,
             uploads |-> 0, breaks |-> 0]

\* Starts through one crash and one reboot, a stop request with a crash, and a
\* kill request of a run that clones its source.
FaultBudgets ==
  {[Quiet(k) EXCEPT !.crashes = 1, !.reboots = 1] : k \in {"workspace", "git"}}
  \cup {[Quiet("workspace") EXCEPT !.crashes = 1, !.stops = 1],
        [Quiet("git") EXCEPT !.kills = 1]}

\* And an uploaded source, with a second attempt or with a stop request; and a read
\* that breaks before or after a crash.
AllBudgets ==
  FaultBudgets \cup {[Quiet("workspace") EXCEPT !.crashes = 1, !.breaks = 1],
                     [Quiet("archive") EXCEPT !.uploads = 2],
                     [Quiet("archive") EXCEPT !.uploads = 1, !.stops = 1]}

\* One request, or a read that breaks; one crash of a clone; one upload.
BreakBudgets == {[Quiet("workspace") EXCEPT !.breaks = 1]}
StopBudgets == {[Quiet("workspace") EXCEPT !.stops = 1]} \cup BreakBudgets
CloneBudgets == {[Quiet("git") EXCEPT !.crashes = 1]}
PageBudgets == {[Quiet("archive") EXCEPT !.uploads = 1]}
=============================================================================
