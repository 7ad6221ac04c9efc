------------------------------ MODULE RunLife ------------------------------
(***************************************************************************)
(* What a machine that executes a Remote Run promises, whatever carries    *)
(* the calls (SSH or a Node) and whatever fails on the way: the command    *)
(* starts at most once, in a source tree that was committed as a whole,    *)
(* never after the run was refused; what the records say is never taken    *)
(* back; and a deleted run does nothing any more.                          *)
(*                                                                         *)
(* RemoteRun (the SSH target) and NodeRun (the Node) are shown to implement*)
(* this specification.                                                     *)
(***************************************************************************)

VARIABLES
  work,     \* the source tree the command would run in: "none" or "whole"
  cmd,      \* the command: "no", "yes" (running), "over", or "gone" with its run
  record    \* what the records on the target say: nothing, or how it ended

vars == <<work, cmd, record>>

Verdicts == {"finished", "stopped", "failed"}

Init == work = "none" /\ cmd = "no" /\ record = "none"

\* The whole source becomes visible in one step.
Commit == /\ cmd = "no" /\ work = "none"
          /\ work' = "whole"
          /\ UNCHANGED <<cmd, record>>

\* The run ends before its command started.
Refuse == /\ cmd = "no" /\ record = "none"
          /\ record' \in {"stopped", "failed"}
          /\ UNCHANGED <<work, cmd>>

Launch == /\ cmd = "no" /\ work = "whole" /\ record = "none"
          /\ cmd' = "yes"
          /\ UNCHANGED <<work, record>>

\* The command ends, or dies with its session or its machine.
End == /\ cmd = "yes"
       /\ cmd' = "over"
       /\ UNCHANGED <<work, record>>

Publish == /\ cmd = "over" /\ record = "none"
           /\ record' \in {"finished", "stopped"}
           /\ UNCHANGED <<work, cmd>>

\* The directory is removed and nothing happens afterwards, except that a run
\* which never started may still be in preparation somewhere else.
Delete == /\ cmd # "yes"
          /\ work' = "none" /\ record' = "none"
          /\ cmd' = "gone" \/ (cmd = "no" /\ cmd' = "no")

Next == Commit \/ Refuse \/ Launch \/ End \/ Publish \/ Delete

Spec == Init /\ [][Next]_vars

=============================================================================
