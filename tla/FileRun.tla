------------------------------- MODULE FileRun -------------------------------
(***************************************************************************)
(* The File Runs of one Workspace: rows in file_runs, the thread that      *)
(* holds the Workspace's lock (start, reconcile, stop or kill, each made   *)
(* of several calls to the machine that runs the file), the launch script  *)
(* there, its tmux windows, and the wrapper that runs the program and      *)
(* leaves records.                                                         *)
(*                                                                         *)
(* Three backends run the same protocol. On "local" the Core runs the      *)
(* launch itself. On "ssh" it is a script that goes on when the channel    *)
(* breaks. On "node" it is a thread of the Node, and the Node's lock keeps *)
(* every other operation on the Workspace out until it is done.            *)
(***************************************************************************)
EXTENDS Naturals, FiniteSets

CONSTANTS
  Runs,      \* runs, each with its idempotency key
  NoRun,     \* a window that is not bound to a run
  Budgets    \* the histories explored: the backend, how many runs, and how many
             \* lost calls, Core crashes, losses of tmux, interrupts, kills and
             \* edits of the file they may meet

Backends == {"local", "ssh", "node"}
BudgetType == [backend: Backends, runs: Nat, losses: Nat, crashes: Nat,
               reboots: Nat, stops: Nat, kills: Nat, edits: Nat]

ASSUME RunsAssumption == IsFiniteSet(Runs) /\ NoRun \notin Runs
ASSUME PanesAssumption == Runs \cap {"shell", "dead"} = {}
ASSUME BudgetsAssumption == Budgets \subseteq BudgetType

VARIABLES
  backend,   \* where the Workspace lives
  src,       \* the content of the file, what every run claimed, sealed and ran
  row,       \* state of every run's row
  th,        \* the holder of the Workspace's lock
  script,    \* the launch of every run
  wins,      \* tmux windows of the Workspace
  wrapper,   \* the wrapper process of every run
  meta,      \* the records of every run
  left,      \* what is left of the budget
  observer,  \* the task that looks at active runs has not ended
  hist       \* history: runs closed by a start whose own look failed (blind) and
             \* runs whose grace period ended during the last look at them (hasty)

vars == <<backend, src, row, th, script, wins, wrapper, meta, left, observer, hist>>

Active    == {"preparing", "running"}
Terminal  == {"finished", "stopped", "failed", "lost"}
RowStates == {"absent"} \cup Active \cup Terminal

Windows == 1 .. Cardinality(Runs)

Reading == {"completion", "prepare", "windows", "pane", "state", "force"}
\* What inspect_file_run reads over SFTP; the rest are commands.
SftpReads == {"completion", "prepare", "state", "force"}
Reports == {"none", "preparing", "running"} \cup Terminal
ThreadType ==
  [op: {"none", "start", "reconcile", "stop", "kill"}, run: Runs \cup {NoRun},
   pc: {"idle", "confirm", "dispatch", "wait", "apply", "list", "mark", "send",
        "marker"} \cup Reading,
   why: {"none", "start_ok", "start_err", "reconcile", "observe", "before", "after"},
   win: Windows \cup {0}, live: BOOLEAN, exit: {"none", "code", "signal"},
   st: BOOLEAN, rep: Reports, sent: BOOLEAN]
ScriptType == [pc: {"none", "role", "identity", "respawn", "ok", "err"},
               win: Windows \cup {0}, created: BOOLEAN, prev: Runs \cup {NoRun},
               told: BOOLEAN]
WindowType == [role: {"none", "shell", "file_run"}, run: Runs \cup {NoRun},
               pane: {"shell", "dead"} \cup Runs]
WrapperType == [pc: {"none", "check", "state", "trap", "program", "report", "exit",
                     "gone"},
                sig: BOOLEAN, exit: {"none", "code", "signal"}, fresh: BOOLEAN]
MetaType == [state: BOOLEAN, prepare: BOOLEAN,
             compl: {"none", "finished", "stopped"}, stop: BOOLEAN,
             force: BOOLEAN]

Idle == [op |-> "none", run |-> NoRun, pc |-> "idle", why |-> "none", win |-> 0,
         live |-> FALSE, exit |-> "none", st |-> FALSE, rep |-> "none",
         sent |-> FALSE]
NoWindow == [role |-> "none", run |-> NoRun, pane |-> "dead"]

Init ==
  /\ \E b \in Budgets :
       /\ backend = b.backend
       /\ left = [runs |-> b.runs, losses |-> b.losses, crashes |-> b.crashes,
                  reboots |-> b.reboots, stops |-> b.stops, kills |-> b.kills,
                  edits |-> b.edits]
  /\ src = [now |-> 1, claimed |-> [r \in Runs |-> 0], sealed |-> [r \in Runs |-> 0],
            ran |-> [r \in Runs |-> 0]]
  /\ row = [r \in Runs |-> "absent"]
  /\ th = Idle
  /\ script = [r \in Runs |-> [pc |-> "none", win |-> 0, created |-> FALSE,
                               prev |-> NoRun, told |-> FALSE]]
  /\ wins = [w \in Windows |-> NoWindow]
  /\ wrapper = [r \in Runs |-> [pc |-> "none", sig |-> FALSE, exit |-> "none",
                                fresh |-> FALSE]]
  /\ meta = [r \in Runs |-> [state |-> FALSE, prepare |-> FALSE, compl |-> "none",
                             stop |-> FALSE, force |-> FALSE]]
  /\ observer = TRUE
  /\ hist = [blind |-> {}, hasty |-> {}]

-----------------------------------------------------------------------------
(* Helpers *)

Remote == backend # "local"
Loses == left.losses > 0
Lose == left' = [left EXCEPT !.losses = @ - 1]

\* A process lives in the pane (pane_dead = 0).
PaneLive(w) ==
  /\ wins[w].role # "none"
  /\ \/ wins[w].pane = "shell"
     \/ wins[w].pane \in Runs /\ wrapper[wins[w].pane].pc # "gone"

\* The first window with the managed role, which callers take for the slot.
IsSlot(w) == /\ wins[w].role = "file_run"
             /\ \A v \in Windows : v < w => wins[v].role # "file_run"
\* The windows bound to the run.
BoundTo(w, r) == wins[w].role = "file_run" /\ wins[w].run = r

\* A wrapper whose process group is killed leaves no exit status.
Killed(p) == IF p.pc \in {"none", "gone"} THEN p
             ELSE [p EXCEPT !.pc = "gone", !.exit = "signal", !.fresh = TRUE]
\* The wrapper's reaction to C-c: noted while the program runs, deadly before
\* the traps are set and after they are removed.
Interrupted(p) ==
  IF p.pc = "program" THEN [p EXCEPT !.sig = TRUE] ELSE Killed(p)

\* transition_file_run: a compare-and-set on the row's state.
Transition(r, expected, st) == IF row[r] \in expected THEN st ELSE row[r]

\* _apply_observation
Observed(r, rep) ==
  IF rep \in {"none", "preparing"} THEN row[r] ELSE Transition(r, Active, rep)

\* The launch of the run is under way.
Launching(r) == script[r].pc \in {"role", "identity", "respawn"}

\* The Node's lock: what the Core asks for waits for a launch under way.
NodeFree == backend = "node" =>
              \A r \in Runs : ~Launching(r)

Read(t, why) == [t EXCEPT !.pc = "completion", !.why = why, !.win = 0,
                          !.live = FALSE, !.exit = "none", !.st = FALSE,
                          !.rep = "none"]

-----------------------------------------------------------------------------
(* start *)

\* The bound on runs.
Room == Cardinality({q \in Runs : row[q] # "absent"}) < left.runs

\* Mutant: the claim only looks at the run's own key.
StartUnclaimed(r) ==
  /\ th = Idle /\ row[r] = "absent" /\ Room
  /\ row' = [row EXCEPT ![r] = "preparing"]
  /\ src' = [src EXCEPT !.claimed[r] = src.now]
  /\ th' = [Idle EXCEPT !.op = "start", !.run = r, !.pc = "confirm"]
  /\ UNCHANGED <<backend, observer, hist, script, wins, wrapper, meta, left>>

\* claim_file_run, for the content that was inspected: refused while another run is
\* active; the key of a known run is answered by reconcile.
Start(r) ==
  /\ th = Idle /\ row[r] = "absent" /\ Room
  /\ \A q \in Runs : row[q] \notin Active
  /\ row' = [row EXCEPT ![r] = "preparing"]
  /\ src' = [src EXCEPT !.claimed[r] = src.now]
  /\ th' = [Idle EXCEPT !.op = "start", !.run = r, !.pc = "confirm"]
  /\ UNCHANGED <<backend, observer, hist, script, wins, wrapper, meta, left>>

\* Somebody saves the file.
Edit ==
  /\ left.edits > 0
  /\ src' = [src EXCEPT !.now = @ + 1]
  /\ left' = [left EXCEPT !.edits = @ - 1]
  /\ UNCHANGED <<backend, observer, hist, row, th, script, wins, wrapper, meta>>

\* inspect_runnable, with the digest of the claim.
LocalInspect == backend = "local" /\ src.now = src.claimed[th.run]
SshInspect == backend = "ssh" /\ src.now = src.claimed[th.run]
NodeInspect == backend = "node" /\ src.now = src.claimed[th.run]

\* The source changed, or the call for it failed before anything was dispatched.
StartRefused ==
  /\ row' = [row EXCEPT ![th.run] = Transition(th.run, {"preparing"}, "failed")]
  /\ th' = Idle

\* The file is inspected again before the dispatch.
Confirm ==
  /\ th.pc = "confirm"
  /\ \/ /\ LocalInspect \/ SshInspect \/ NodeInspect
        /\ th' = [th EXCEPT !.pc = "dispatch"] /\ UNCHANGED row
     \/ StartRefused
  /\ UNCHANGED <<backend, observer, hist, src, script, wins, wrapper, meta, left>>

\* Mutant: an unconfirmed remote start counts as failed without a look.
StartErrorBlind == StartRefused

\* The dispatch raised: a local run failed, a remote one is looked at.
StartError ==
  IF Remote THEN th' = Read(th, "start_err") /\ UNCHANGED row
  ELSE StartRefused

\* The slot is reused if its pane is dead, or a window is created.
TakeSlot ==
  /\ \E w \in Windows :
       \/ /\ IsSlot(w) /\ ~PaneLive(w)
          /\ script' = [script EXCEPT ![th.run] =
               [pc |-> "role", win |-> w, created |-> FALSE,
                prev |-> wins[w].run, told |-> FALSE]]
          /\ UNCHANGED wins
       \/ /\ \A v \in Windows : wins[v].role # "file_run"
          /\ wins[w].role = "none"
          /\ \A v \in Windows : v < w => wins[v].role # "none"
          /\ wins' = [wins EXCEPT ![w] = [role |-> "shell", run |-> NoRun,
                                          pane |-> "shell"]]
          /\ script' = [script EXCEPT ![th.run] =
               [pc |-> "role", win |-> w, created |-> TRUE,
                prev |-> NoRun, told |-> FALSE]]
  /\ th' = [th EXCEPT !.pc = "wait"]
  /\ UNCHANGED row

\* _write_file_run_metadata: request-id, whose age is the age of the dispatch.
WriteRequest == wrapper' = [wrapper EXCEPT ![th.run].fresh = TRUE]

\* start_file_run: request-id is written, then the slot is taken.
Dispatch ==
  /\ th.pc = "dispatch"
  /\ WriteRequest
  /\ TakeSlot \/ (StartError /\ UNCHANGED <<wins, script>>)
  /\ UNCHANGED <<backend, observer, hist, meta, left>>

\* An error of the local tmux that start() does not catch leaves the row as it is.
LocalDispatch ==
  /\ backend = "local"
  /\ \/ Dispatch
     \/ /\ th.pc = "dispatch" /\ th' = Idle
        /\ WriteRequest
        /\ UNCHANGED <<backend, observer, hist, row, wins, script, meta, left>>
  /\ UNCHANGED src

SshDispatch == backend = "ssh" /\ Dispatch /\ UNCHANGED src

\* Mutant: the Node does not compare what it read with the digest of the claim.
NodeSealsAny == src' = [src EXCEPT !.sealed[th.run] = src.now]

\* _snapshot_file_run_source: the Node reads the content once more, into a sealed
\* descriptor, if it still is what the run claimed.
NodeSeals ==
  /\ src.now = src.claimed[th.run]
  /\ src' = [src EXCEPT !.sealed[th.run] = src.now]

\* A changed file is refused before request-id is written. A request for a run that
\* has its records already would be answered from them; the Core sends none.
NodeDispatch ==
  /\ backend = "node" /\ th.pc = "dispatch" /\ NodeFree
  /\ \/ NodeSeals /\ Dispatch
     \/ /\ src.now # src.claimed[th.run] /\ StartRefused
        /\ UNCHANGED <<backend, observer, hist, src, script, wins, wrapper, meta, left>>

\* The launch is over and its status arrived, and the window was found.
Started(found) ==
  /\ th.pc = "wait" /\ script[th.run].pc \in {"ok", "err"}
  /\ IF script[th.run].pc = "ok" /\ found
     THEN th' = Read(th, "start_ok") /\ UNCHANGED row
     ELSE StartError
  /\ script' = [script EXCEPT ![th.run].told = TRUE]
  /\ UNCHANGED <<backend, observer, hist, src, wins, wrapper, meta, left>>

LocalStarted == backend = "local" /\ Started(TRUE)
SshStarted == backend = "ssh" /\ Started(\E w \in Windows : BoundTo(w, th.run))
NodeStarted == backend = "node" /\ Started(\E w \in Windows : BoundTo(w, th.run))

\* The status is lost.
Unacknowledged ==
  /\ th.pc = "wait" /\ Remote /\ Loses /\ Lose
  /\ StartError
  /\ UNCHANGED <<backend, observer, hist, src, script, wins, wrapper, meta>>

\* A paramiko.SSHException of the second inspection or of the request's records
\* leaves start() as it is, and the row too.
StartBreaks ==
  /\ backend = "ssh" /\ th.pc \in {"confirm", "dispatch"} /\ Loses /\ Lose
  /\ th' = Idle
  /\ WriteRequest \/ UNCHANGED wrapper
  /\ UNCHANGED <<backend, observer, hist, src, row, script, wins, meta>>

-----------------------------------------------------------------------------
(* The launch: window options, then respawn-pane *)

\* The window gets the role of the slot first and the run afterwards.
Role(r) ==
  /\ script[r].pc = "role"
  /\ LET w == script[r].win
     IN IF wins[w].role = "none"
        THEN script' = [script EXCEPT ![r].pc = "err"] /\ UNCHANGED wins
        ELSE /\ wins' = [wins EXCEPT ![w].role = "file_run"]
             /\ script' = [script EXCEPT ![r].pc = "identity"]
  /\ UNCHANGED <<backend, observer, hist, src, row, th, wrapper, meta, left>>

Identity(r) ==
  /\ script[r].pc = "identity"
  /\ LET w == script[r].win
     IN IF wins[w].role = "none"
        THEN script' = [script EXCEPT ![r].pc = "err"] /\ UNCHANGED wins
        ELSE /\ wins' = [wins EXCEPT ![w].run = r]
             /\ script' = [script EXCEPT ![r].pc = "respawn"]
  /\ UNCHANGED <<backend, observer, hist, src, row, th, wrapper, meta, left>>

Respawn(r) ==
  /\ script[r].pc = "respawn"
  /\ LET w == script[r].win
     IN /\ wins[w].role # "none"
        /\ wins' = [wins EXCEPT ![w].pane = r]
        /\ wrapper' = [q \in Runs |->
             IF q = r THEN [wrapper[r] EXCEPT !.pc = "check"]
             ELSE IF q = wins[w].pane THEN Killed(wrapper[q]) ELSE wrapper[q]]
  /\ script' = [script EXCEPT ![r].pc = "ok"]
  /\ UNCHANGED <<backend, observer, hist, src, row, th, meta, left>>

\* A tmux command failed: a window that is still the one of this launch is taken
\* back (_rollback_file_run_slot).
RolledBack(r, mine) ==
  LET w == script[r].win
  IN /\ wins' = IF ~mine THEN wins
                ELSE IF script[r].created THEN [wins EXCEPT ![w] = NoWindow]
                ELSE [wins EXCEPT ![w].run = script[r].prev]
     /\ script' = [script EXCEPT ![r].pc = "err"]
     /\ UNCHANGED <<backend, observer, hist, src, row, th, wrapper, meta, left>>

\* On this machine a window that has the role but not yet the run counts too.
LocalRollback(r) ==
  /\ backend = "local" /\ script[r].pc \in {"identity", "respawn"}
  /\ LET w == script[r].win
     IN RolledBack(r, wins[w].role = "file_run" /\ wins[w].run \in {r, script[r].prev})

\* The script over SSH ignores the status of its set-window-option commands.
SshRollback(r) ==
  /\ backend = "ssh" /\ script[r].pc = "respawn"
  /\ RolledBack(r, BoundTo(script[r].win, r))

NodeRollback(r) ==
  /\ backend = "node" /\ script[r].pc \in {"identity", "respawn"}
  /\ RolledBack(r, BoundTo(script[r].win, r))

-----------------------------------------------------------------------------
(* FILE_RUN_WRAPPER_SCRIPT *)

\* The interpreter is looked for; the note of its absence may not be written, and
\* without the request's records the wrapper gives up.
WrapperCheck(r) ==
  /\ wrapper[r].pc = "check"
  /\ \/ /\ wrapper' = [wrapper EXCEPT ![r].pc = "exit"]
        /\ meta' \in {meta, [meta EXCEPT ![r].prepare = TRUE]}
     \/ wrapper' = [wrapper EXCEPT ![r].pc = "state"] /\ UNCHANGED meta
  /\ UNCHANGED <<backend, observer, hist, src, row, th, script, wins, left>>

\* state.json, without which the program is not run.
WrapperState(r) ==
  /\ wrapper[r].pc = "state"
  /\ \/ /\ wrapper' = [wrapper EXCEPT ![r].pc = "trap"]
        /\ meta' = [meta EXCEPT ![r].state = TRUE]
     \/ wrapper' = [wrapper EXCEPT ![r].pc = "exit"] /\ UNCHANGED meta
  /\ UNCHANGED <<backend, observer, hist, src, row, th, script, wins, left>>

\* The program starts: from the sealed descriptor on a Node, from the file by its
\* name elsewhere.
WrapperTrap(r) ==
  /\ wrapper[r].pc = "trap"
  /\ wrapper' = [wrapper EXCEPT ![r].pc = "program"]
  /\ src' = [src EXCEPT !.ran[r] = IF backend = "node" THEN src.sealed[r] ELSE src.now]
  /\ UNCHANGED <<backend, observer, hist, row, th, script, wins, meta, left>>

\* The program ends, by itself or because it was interrupted.
ProgramEnds(r) ==
  /\ wrapper[r].pc = "program"
  /\ wrapper' = [wrapper EXCEPT ![r].pc = "report"]
  /\ UNCHANGED <<backend, observer, hist, src, row, th, script, wins, meta, left>>

\* C-c typed in the run's terminal, without a request to stop.
TypedInterrupt(r) ==
  /\ left.stops > 0
  /\ \E w \in Windows : wins[w].pane = r /\ PaneLive(w)
  /\ wrapper' = [wrapper EXCEPT ![r] = Interrupted(@)]
  /\ left' = [left EXCEPT !.stops = @ - 1]
  /\ UNCHANGED <<backend, observer, hist, src, row, th, script, wins, meta>>

\* Mutant: any requested stop counts, whether a signal arrived or not.
WrapperReportRequested(r) ==
  /\ wrapper[r].pc = "report"
  /\ wrapper' = [wrapper EXCEPT ![r].pc = "exit"]
  /\ meta' = [meta EXCEPT ![r].compl = IF meta[r].stop THEN "stopped" ELSE "finished"]
  /\ UNCHANGED <<backend, observer, hist, src, row, th, script, wins, left>>

\* completion.json, unless it cannot be written.
WrapperReport(r) ==
  /\ wrapper[r].pc = "report"
  /\ wrapper' = [wrapper EXCEPT ![r].pc = "exit"]
  /\ \/ meta' = [meta EXCEPT ![r].compl = IF wrapper[r].sig /\ meta[r].stop
                                          THEN "stopped" ELSE "finished"]
     \/ UNCHANGED meta
  /\ UNCHANGED <<backend, observer, hist, src, row, th, script, wins, left>>

WrapperExit(r) ==
  /\ wrapper[r].pc = "exit"
  /\ wrapper' = [wrapper EXCEPT ![r].pc = "gone", ![r].exit = "code",
                                ![r].fresh = TRUE]
  /\ UNCHANGED <<backend, observer, hist, src, row, th, script, wins, meta, left>>

\* The run is being looked at, and its completion record was not there.
LookedAt(r) == th.run = r /\ th.pc \in Reading \ {"completion"}

\* FILE_RUN_COMPLETION_GRACE_SECONDS after the dispatch or the end of the pane, by
\* the Core's clock against the time stamps of the machine. Nothing bounds the
\* difference of the clocks or the time that one inspection takes.
GraceExpires(r) ==
  /\ wrapper[r].fresh
  /\ wrapper' = [wrapper EXCEPT ![r].fresh = FALSE]
  /\ hist' = IF LookedAt(r) THEN [hist EXCEPT !.hasty = @ \cup {r}] ELSE hist
  /\ UNCHANGED <<backend, observer, src, row, th, script, wins, meta, left>>

\* The tmux server is gone, and everything in it.
Reboot ==
  /\ left.reboots > 0
  /\ wins' = [w \in Windows |-> NoWindow]
  /\ wrapper' = [r \in Runs |-> Killed(wrapper[r])]
  /\ left' = [left EXCEPT !.reboots = @ - 1]
  /\ UNCHANGED <<backend, observer, hist, src, row, th, script, meta>>

-----------------------------------------------------------------------------
(* inspect_file_run, one call at a time *)

Report(rep) == th' = [th EXCEPT !.pc = "apply", !.rep = rep]

ReadCompletion ==
  /\ th.pc = "completion" /\ NodeFree
  /\ hist' = [hist EXCEPT !.hasty = @ \ {th.run}]
  /\ IF meta[th.run].compl # "none" THEN Report(meta[th.run].compl)
     ELSE th' = [th EXCEPT !.pc = "prepare"]

ReadPrepare ==
  /\ th.pc = "prepare"
  /\ IF meta[th.run].prepare THEN Report("failed")
     ELSE th' = [th EXCEPT !.pc = "windows"]

ReadWindows ==
  /\ th.pc = "windows"
  /\ IF \E w \in Windows : IsSlot(w) /\ wins[w].run = th.run
     THEN \E w \in Windows : IsSlot(w) /\ th' = [th EXCEPT !.pc = "pane", !.win = w]
     ELSE Report("lost")

ReadPane ==
  /\ th.pc = "pane"
  /\ LET p == wins[th.win].pane
     IN th' = [th EXCEPT !.pc = "state", !.live = PaneLive(th.win),
                         !.exit = IF p \in Runs THEN wrapper[p].exit ELSE "none"]

ReadState ==
  /\ th.pc = "state"
  /\ IF th.live THEN Report(IF meta[th.run].state THEN "running" ELSE "preparing")
     ELSE th' = [th EXCEPT !.pc = "force", !.st = meta[th.run].state]

\* Mutant: a dead pane without a completion record stays provisional.
ReadForcePatient ==
  /\ th.pc = "force"
  /\ Report(IF meta[th.run].force THEN "stopped"
            ELSE IF th.st THEN "running" ELSE "preparing")

\* The force-stopped marker, the grace period, the pane's exit status.
ReadForce ==
  /\ th.pc = "force"
  /\ LET m == meta[th.run]
         fresh == wrapper[th.run].fresh
         exited == th.st /\ th.exit = "code"
     IN Report(CASE m.force -> "stopped"
                 [] ~m.force /\ fresh -> IF th.st THEN "running" ELSE "preparing"
                 [] ~m.force /\ ~fresh /\ exited -> "finished"
                 [] ~m.force /\ ~fresh /\ ~exited -> "lost")

Inspection ==
  /\ \/ ReadCompletion
     \/ /\ ReadPrepare \/ ReadWindows \/ ReadPane \/ ReadState \/ ReadForce
        /\ UNCHANGED hist
  /\ UNCHANGED <<backend, observer, src, row, script, wins, wrapper, meta, left>>

LocalRead == backend = "local" /\ Inspection
SshRead == backend = "ssh" /\ Inspection
NodeRead == backend = "node" /\ Inspection
ReadStep == LocalRead \/ SshRead \/ NodeRead

\* Mutant: the error code is written in place of the state.
ForceStoppedCode(st) ==
  IF th.why = "after" /\ th.op = "kill" /\ th.sent /\ st \in Active
  THEN "forced" ELSE st

\* kill() of a run that was killed and is still reported active.
ForceStopped(st) ==
  IF th.why = "after" /\ th.op = "kill" /\ th.sent /\ st \in Active
  THEN "stopped" ELSE st

\* What the lock's holder does with the report.
Apply ==
  /\ th.pc = "apply"
  /\ LET st == IF th.why = "start_err" /\ th.rep = "lost"
               THEN Transition(th.run, {"preparing"}, "failed")
               ELSE ForceStopped(Observed(th.run, th.rep))
     IN /\ row' = [row EXCEPT ![th.run] = st]
        /\ th' = IF th.why = "before" /\ st \in Active THEN [th EXCEPT !.pc = "list"]
                 ELSE Idle
  /\ UNCHANGED <<backend, observer, hist, src, script, wins, wrapper, meta, left>>

\* A call that failed in a way reconcile() knows, SSHBackendError or
\* RemoteAccessError: the row stays as it is, and stop() and kill() go on.
ReadFails ==
  /\ th.pc \in Reading /\ Remote /\ Loses /\ Lose
  /\ row' = [row EXCEPT ![th.run] = ForceStopped(@)]
  /\ th' = IF th.why = "before" THEN [th EXCEPT !.pc = "list"] ELSE Idle
  /\ UNCHANGED <<backend, observer, hist, src, script, wins, wrapper, meta>>

\* An OSError, or on this machine a ValueError, which reconcile() does not know. The
\* look that follows a launch is inside start()'s own try: over SSH it is repeated
\* as after a failed launch, and on this machine the run is failed.
ReadRaises ==
  /\ \/ backend = "ssh" /\ th.pc \in SftpReads
     \/ backend = "local" /\ th.pc \in {"windows", "pane"}
  /\ Loses /\ Lose
  /\ IF th.why = "start_ok" THEN StartError ELSE th' = Idle /\ UNCHANGED row
  /\ hist' = IF th.why = "start_ok" /\ backend = "local"
             THEN [hist EXCEPT !.blind = @ \cup {th.run}] ELSE hist
  /\ UNCHANGED <<backend, observer, src, script, wins, wrapper, meta>>

\* A paramiko.SSHException, or on this machine the CalledProcessError of
\* list-windows, which nobody knows: it ends the observer's task.
ReadBreaks ==
  /\ \/ backend = "ssh" /\ th.pc \in SftpReads
     \/ backend = "local" /\ th.pc = "windows"
  /\ Loses /\ Lose
  /\ th' = Idle
  /\ observer' = (observer /\ th.why # "observe")
  /\ UNCHANGED <<backend, hist, src, row, script, wins, wrapper, meta>>

\* The same during a look at a run of another Workspace: the task is shared.
ObserverDies ==
  /\ Loses /\ Lose
  /\ observer' = FALSE
  /\ UNCHANGED <<backend, hist, src, row, th, script, wins, wrapper, meta>>

\* The look at an active run: a status page, or a start with a known key.
Reconcile(r) ==
  /\ th = Idle /\ row[r] \in Active
  /\ th' = Read([Idle EXCEPT !.op = "reconcile", !.run = r], "reconcile")
  /\ UNCHANGED <<backend, observer, hist, src, row, script, wins, wrapper, meta, left>>

\* The observer's turn.
Observe(r) ==
  /\ observer
  /\ th = Idle /\ row[r] \in Active
  /\ th' = Read([Idle EXCEPT !.op = "reconcile", !.run = r], "observe")
  /\ UNCHANGED <<backend, observer, hist, src, row, script, wins, wrapper, meta, left>>

-----------------------------------------------------------------------------
(* stop and kill *)

Stop(r) ==
  /\ th = Idle /\ row[r] \in Active /\ left.stops > 0
  /\ th' = Read([Idle EXCEPT !.op = "stop", !.run = r], "before")
  /\ left' = [left EXCEPT !.stops = @ - 1]
  /\ UNCHANGED <<backend, observer, hist, src, row, script, wins, wrapper, meta>>

Kill(r) ==
  /\ th = Idle /\ row[r] \in Active /\ left.kills > 0
  /\ th' = Read([Idle EXCEPT !.op = "kill", !.run = r], "before")
  /\ left' = [left EXCEPT !.kills = @ - 1]
  /\ UNCHANGED <<backend, observer, hist, src, row, script, wins, wrapper, meta>>

\* The window bound to the run; on SSH its pane is not looked at.
ControlList ==
  /\ th.pc = "list" /\ NodeFree
  /\ LET found == {w \in Windows : BoundTo(w, th.run)
                                   /\ (backend = "ssh" \/ PaneLive(w))}
     IN IF found = {} THEN th' = Read(th, "after")
        ELSE \E w \in found : th' = [th EXCEPT !.pc = "mark", !.win = w]
  /\ UNCHANGED <<backend, observer, hist, src, row, script, wins, wrapper, meta, left>>

\* stop-requested-at
ControlMark ==
  /\ th.pc = "mark"
  /\ meta' = [meta EXCEPT ![th.run].stop = TRUE]
  /\ th' = [th EXCEPT !.pc = "send"]
  /\ UNCHANGED <<backend, observer, hist, src, row, script, wins, wrapper, left>>

\* C-c, or SIGKILL to the process group of the pane.
ControlSend ==
  /\ th.pc = "send"
  /\ LET w == th.win
         p == wins[w].pane
     IN \/ /\ th.op = "stop" /\ BoundTo(w, th.run)
           /\ wrapper' = IF p \in Runs THEN [wrapper EXCEPT ![p] = Interrupted(@)]
                         ELSE wrapper
           /\ th' = Read([th EXCEPT !.sent = TRUE], "after")
           /\ UNCHANGED wins
        \/ /\ th.op = "kill" /\ BoundTo(w, th.run) /\ PaneLive(w)
           /\ wrapper' = IF p \in Runs THEN [wrapper EXCEPT ![p] = Killed(@)]
                         ELSE [wrapper EXCEPT ![th.run].fresh = TRUE]
           /\ wins' = IF p \in Runs THEN wins ELSE [wins EXCEPT ![w].pane = "dead"]
           /\ th' = [th EXCEPT !.pc = "marker"]
        \/ /\ ~BoundTo(w, th.run) \/ (th.op = "kill" /\ ~PaneLive(w))
           /\ th' = Read(th, "after")
           /\ UNCHANGED <<wins, wrapper>>
  /\ UNCHANGED <<backend, observer, hist, src, row, script, meta, left>>

\* force-stopped
ControlMarker ==
  /\ th.pc = "marker"
  /\ meta' = [meta EXCEPT ![th.run].force = TRUE]
  /\ th' = Read([th EXCEPT !.sent = TRUE], "after")
  /\ UNCHANGED <<backend, observer, hist, src, row, script, wins, wrapper, left>>

Control == ControlList \/ ControlMark \/ ControlSend \/ ControlMarker
LocalControl == backend = "local" /\ Control
SshControl == backend = "ssh" /\ Control
NodeControl == backend = "node" /\ Control

\* The call fails, on its way or half done, or its answer is lost: stop() and
\* kill() raise. What a Node has begun it finishes.
ControlFails ==
  /\ \/ th.pc = "list"
     \/ th.pc \in {"mark", "send", "marker"} /\ backend # "node"
     \/ th.pc = "completion" /\ th.why = "after" /\ Remote
  /\ Loses /\ Lose
  /\ th' = Idle
  /\ UNCHANGED <<backend, observer, hist, src, row, script, wins, wrapper, meta>>

\* The Core dies and starts again, and the observer with it. A local launch dies with
\* the Core; what a Node has begun it finishes before the Core is back.
Crash ==
  /\ left.crashes > 0
  /\ backend = "node" => th.pc \notin {"mark", "send", "marker"}
  /\ th' = Idle
  /\ script' = [r \in Runs |->
       IF backend = "local" /\ Launching(r)
       THEN [script[r] EXCEPT !.pc = "err"] ELSE script[r]]
  /\ left' = [left EXCEPT !.crashes = @ - 1]
  /\ observer' = TRUE
  /\ UNCHANGED <<backend, hist, src, row, wins, wrapper, meta>>

-----------------------------------------------------------------------------

Starting == LocalDispatch \/ SshDispatch \/ NodeDispatch
            \/ LocalStarted \/ SshStarted \/ NodeStarted
Operation == \/ Confirm \/ Starting \/ ReadStep \/ Apply
             \/ LocalControl \/ SshControl \/ NodeControl
Fault == \/ Unacknowledged \/ StartBreaks \/ ReadFails \/ ReadRaises \/ ReadBreaks
         \/ ObserverDies \/ ControlFails \/ Crash \/ Reboot
Launch(r) == Role(r) \/ Identity(r) \/ Respawn(r)
             \/ LocalRollback(r) \/ SshRollback(r) \/ NodeRollback(r)
Wrapper(r) == WrapperCheck(r) \/ WrapperState(r) \/ WrapperTrap(r)
              \/ WrapperReport(r) \/ WrapperExit(r)

Next == \/ Operation \/ Fault \/ Edit
        \/ \E r \in Runs : \/ Start(r) \/ Reconcile(r) \/ Observe(r) \/ Stop(r) \/ Kill(r)
                           \/ Launch(r) \/ Wrapper(r) \/ ProgramEnds(r)
                           \/ TypedInterrupt(r) \/ GraceExpires(r)

Spec == Init /\ [][Next]_vars

\* The thread that holds the lock, the launch and the wrapper go on, time passes,
\* and the observer returns to active runs as long as its task has not ended. The
\* program may run on.
Fairness ==
  /\ WF_vars(Operation)
  /\ \A r \in Runs : /\ WF_vars(Launch(r)) /\ WF_vars(Wrapper(r))
                     /\ WF_vars(GraceExpires(r)) /\ WF_vars(Observe(r))

LiveSpec == Spec /\ Fairness

-----------------------------------------------------------------------------
(* Properties *)

\* Type invariant.
TypeOK ==
  /\ backend \in Backends
  /\ row \in [Runs -> RowStates]
  /\ th \in ThreadType
  /\ script \in [Runs -> ScriptType]
  /\ wins \in [Windows -> WindowType]
  /\ wrapper \in [Runs -> WrapperType]
  /\ meta \in [Runs -> MetaType]
  /\ src \in [now: Nat, claimed: [Runs -> Nat], sealed: [Runs -> Nat], ran: [Runs -> Nat]]
  /\ left \in [runs: Nat, losses: Nat, crashes: Nat, reboots: Nat, stops: Nat, kills: Nat,
               edits: Nat]
  /\ observer \in BOOLEAN
  /\ hist \in [blind: SUBSET Runs, hasty: SUBSET Runs]

\* The run's wrapper has not come to its records yet.
ProgramLive(r) == wrapper[r].pc \in {"check", "state", "trap", "program"}

\* A Workspace has at most one active run (claim_file_run), through every loss
\* and crash between the claim and the end of the run.
OneActive == \A r, q \in Runs : row[r] \in Active /\ row[q] \in Active => r = q

\* No launch over SSH is under way, or has ever been, that the Core was not told
\* the end of. One whose acknowledgement was lost may go on after its run was
\* declared failed (the script outlives its channel): such histories are set apart.
Told == backend = "ssh" => \A r \in Runs : \/ script[r].pc = "none"
                                           \/ script[r].told
                                           \/ th.pc = "wait" /\ th.run = r

\* A run that is reported ended does not run, and will not: the next run
\* gets a free slot. A start on this machine whose own look fails closes its row
\* without knowing (ClosedIsQuiet).
EndedIsQuiet ==
  Told => \A r \in Runs : row[r] \in Terminal /\ r \notin hist.blind =>
            ~ProgramLive(r) /\ ~Launching(r)

\* A closed row has left its program behind ("Keep the active run attached to the
\* saved file and recover its outcome", src/README.md:154). Violated: the look that
\* follows a launch on this machine may fail, and start() takes its error for a
\* failed launch.
ClosedIsQuiet ==
  Told => \A r \in Runs : row[r] \in Terminal => ~ProgramLive(r)

\* The run's pane still stands: tmux was not lost, and no later run took the slot.
Shows(r) == \E w \in Windows : wins[w].pane = r

\* Reported outcomes are the real ones: "finished" was not ended by force,
\* "stopped" was asked for and did interrupt it. Of a run whose pane still stands,
\* "failed" says that it did not run the file to an end (a run that is interrupted
\* while its start is unacknowledged is "failed" too), and "lost" that there is no
\* record. Without the pane nothing is known: tmux may be lost between the look at
\* the records and the look at the windows, and a run that ended in between, with
\* its records, is "lost", or "failed" while its start is unacknowledged. When the
\* grace period ends during the very look that closes the row, the exit status or
\* the lack of one stands for the record that came too late (LostHasNoRecord).
OutcomeTrue ==
  Told => \A r \in Runs :
    /\ row[r] = "finished" =>
         \/ meta[r].compl = "finished"
         \/ wrapper[r].exit = "code" /\ (meta[r].compl = "none" \/ r \in hist.hasty)
    /\ row[r] = "stopped" => meta[r].stop /\ (wrapper[r].sig \/ wrapper[r].exit # "code")
    /\ row[r] = "failed" /\ Shows(r) /\ r \notin hist.blind \cup hist.hasty =>
         \/ ~meta[r].state
         \/ meta[r].compl = "none" /\ wrapper[r].exit = "signal"
    /\ row[r] = "lost" /\ Shows(r) /\ r \notin hist.hasty =>
         meta[r].compl = "none" /\ ~meta[r].prepare

\* A run whose pane still stands is not lost when it has its completion record
\* ("Keep a just-dispatched dead pane provisional while records settle",
\* terminals.py:701). Violated: the age of the pane is measured from the Core's
\* clock, after the records were read, and a look may outlast the grace period.
LostHasNoRecord ==
  Told => \A r \in Runs : row[r] = "lost" /\ Shows(r) => meta[r].compl = "none"

\* A run on a Node executes the content it claimed, whoever saves the file between
\* the claim, the second inspection, the launch and the start of the interpreter.
RunsWhatItClaimed ==
  \A r \in Runs : backend = "node" /\ src.ran[r] # 0 => src.ran[r] = src.claimed[r]

\* A run whose wrapper is gone is reported ended, after any number of failed looks
\* and whatever records it left: the Workspace does not stay occupied, unless an
\* unforeseen error has ended the observer (EndIsAlwaysObserved).
EndIsObserved ==
  \A r \in Runs : wrapper[r].pc = "gone" ~> (row[r] \notin Active \/ ~Told \/ ~observer)

\* The same without the exception ("recover its outcome after reconnecting",
\* src/README.md:154). Violated: one SSHException or CalledProcessError during a look
\* ends the task that looks at all active runs, and only a restart begins it anew.
EndIsAlwaysObserved ==
  \A r \in Runs : wrapper[r].pc = "gone" ~> (row[r] \notin Active \/ ~Told)
=============================================================================
