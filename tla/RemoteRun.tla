----------------------------- MODULE RemoteRun -----------------------------
(***************************************************************************)
(* The life of one Remote Run: the database row kept by StateStore, the    *)
(* threads of RemoteRunManager that act on it, and the run's directory,    *)
(* tmux session and runner script on the SSH target.                       *)
(*                                                                         *)
(* Threads of the Core:                                                    *)
(*   prep   the preparation thread started by schedule()                   *)
(*   obs    whoever holds the run's lock: the observer loop (reconcile),   *)
(*          the run page and the startup scan (poll), request_delete       *)
(*   startup  the startup scan, which holds that lock in its poll only     *)
(*   ctl    an HTTP request running stop() or kill(); takes no lock        *)
(* Every remote call is a step of its own, so the three interleave with    *)
(* each other and with the target at the granularity of SFTP operations.   *)
(***************************************************************************)
EXTENDS Naturals

CONSTANTS
  Budgets,       \* the histories explored: the run's source kind and how many
                 \* faults, requests and uploads it may meet
  Pages          \* who opens run pages: nobody ("none"), only users of runs
                 \* that do not wait for an upload ("started"), or "all"

SourceKinds == {"workspace", "archive", "git"}

\* crashes of the Core process, reboots (losses of the target's tmux server or
\* of the launch script), stop and kill requests, attempts to upload a ZIP, reads
\* that raise what no caller expects
BudgetType == [kind: SourceKinds, crashes: Nat, reboots: Nat, stops: Nat,
               kills: Nat, uploads: Nat, breaks: Nat]

ASSUME BudgetsAssumption == Budgets \subseteq BudgetType
ASSUME PagesAssumption == Pages \in {"none", "started", "all"}

VARIABLES
  kind,      \* source kind of the run, fixed when the row is created
  row,       \* the remote_runs row: state, phase, error_code, stop_requested_at,
             \* workspace_id and, while no run is terminal, expires_at
  upload,    \* progress of a ZIP upload
  spool,     \* the Core holds the uploaded ZIP and its sidecar
  prep,      \* program counter of the preparation thread
  cancel,    \* the cancel event of the preparation handle
  script,    \* progress of the launch script sent over the exec channel
  tgt,       \* the run's files, tmux session and runner on the target
  rd,        \* one status read in progress per reader
  obs,       \* the holder of the run's lock
  ctl,       \* the stop or kill request in progress
  startup,   \* program counter of the startup scan, as far as this run goes
  mark,      \* history: the scan's poll found no session while the start was
             \* ambiguous ("seen"), and the mark was gone afterwards ("lost")
  observer,  \* the observer task, which serves every run, is alive
  count      \* what is left of the budget; executions of the command so far

zip   == <<upload, spool>>
watch == <<startup, mark, observer>>
vars  == <<kind, row, zip, prep, cancel, script, tgt, rd, obs, ctl, watch, count>>

Active    == {"preparing", "running"}
Terminal  == {"finished", "stopped", "failed", "lost"}
RowStates == {"absent"} \cup Active \cup Terminal \cup {"deleted"}
Phases    == {"none", "waiting_upload", "uploading", "scanning", "checking",
              "copying", "starting", "cloning"}
Errors    == {"none", "start_status_unknown", "killed", "cancelled", "other"}

PrepSteps == {"idle", "new", "begin", "layout", "copying", "copy", "commit", "mark",
              "check", "exec", "wait", "recon", "fail"}
ScriptSteps == {"none", "new", "create", "respawn", "ok", "err"}

(* none: no session   shell: run window still holding its first shell      *)
(* run: runner live   dead: run pane kept after exit   bare: no run window  *)
(* hidden: runner live in a window that is not the run window              *)
Sessions == {"none", "shell", "run", "dead", "bare", "hidden"}
Runners  == {"none", "git_state", "git_check", "git_clone", "git_commit",
             "git_running", "check", "state", "launch", "command", "complete",
             "pub_finished", "pub_stopped", "exit", "gone"}

\* The preparation has not decided to start; the runner has not started the
\* command.
BeforeMark    == {"new", "begin", "layout", "copying", "copy", "commit", "mark"}
BeforeCommand == {"git_state", "git_check", "git_clone", "git_commit",
                  "git_running", "check", "state", "launch"}

Readers   == {"prep", "obs", "ctl"}
ReadSteps == {"off", "sample", "results", "state", "stop", "resample",
              "reread", "done", "failed"}
(* What a read reports: a run state, a clone in progress, or a missing       *)
(* directory with (pane_only) or without (missing) a live run pane.          *)
Reports   == {"none", "missing", "pane_only", "preparing", "cloning", "running"}
             \cup Terminal

RowType == [st: RowStates, ph: Phases, err: Errors, stopReq: BOOLEAN,
            wsp: BOOLEAN, exp: BOOLEAN]
TargetType == [layout: BOOLEAN, work: BOOLEAN, stop: BOOLEAN,
               state: {"none", "cloning", "running"},
               prepres: {"none", "failed", "stopped"},
               compl: {"none", "finished", "stopped"},
               sess: Sessions, runner: Runners]
ReadType == [step: ReadSteps, live: BOOLEAN, exists: BOOLEAN,
             state: {"none", "cloning", "running"}, out: Reports]
ObsType == [pc: {"idle", "read", "bridge", "del_kill", "del_root", "del_row"},
            mode: {"none", "reconcile", "poll", "startup"},
            st: RowStates, ph: Phases]
StartupSteps == {"off", "listed", "poll", "layout", "judge", "fail"}
CtlType == [pc: {"idle", "waiting", "remote", "publish", "signal", "recheck", "read"},
            op: {"none", "stop", "kill"}, st: RowStates, live: BOOLEAN]

-----------------------------------------------------------------------------
(* Initial state and helpers *)

IdleRead == [step |-> "off", live |-> FALSE, exists |-> FALSE,
             state |-> "none", out |-> "none"]
IdleObs == [pc |-> "idle", mode |-> "none", st |-> "absent", ph |-> "none"]
IdleCtl == [pc |-> "idle", op |-> "none", st |-> "absent", live |-> FALSE]

Init ==
  /\ row = [st |-> "absent", ph |-> "none", err |-> "none", stopReq |-> FALSE,
            wsp |-> FALSE, exp |-> FALSE]
  /\ upload = "idle"
  /\ spool = FALSE
  /\ prep = "idle"
  /\ cancel = FALSE
  /\ script = "none"
  /\ tgt = [layout |-> FALSE, work |-> FALSE, stop |-> FALSE,
            state |-> "none", prepres |-> "none", compl |-> "none",
            sess |-> "none", runner |-> "none"]
  /\ rd = [p \in Readers |-> IdleRead]
  /\ obs = IdleObs
  /\ ctl = IdleCtl
  /\ startup = "off"
  /\ mark = "none"
  /\ observer = TRUE
  /\ \E b \in Budgets :
       /\ kind = b.kind
       /\ count = [crashes |-> b.crashes, reboots |-> b.reboots, stops |-> b.stops,
                   kills |-> b.kills, uploads |-> b.uploads, breaks |-> b.breaks,
                   runs |-> 0]

\* A pane of the run window has a live process (tmux pane_dead = 0).
PaneLive(t) == t.sess \in {"shell", "run"}
\* tmux can address the run window's pane, dead or alive.
RunPane(t) == t.sess \in {"shell", "run", "dead"}
\* The target after kill-session: the runner dies with its session.
KillSession(t) ==
  [t EXCEPT !.sess = "none",
            !.runner = IF @ = "none" THEN "none" ELSE "gone"]
\* The target after the runner process is gone; its pane stays, dead.
RunnerDies(t) ==
  [t EXCEPT !.sess = IF @ \in {"bare", "hidden"} THEN "bare" ELSE "dead",
            !.runner = "gone"]
\* What C-c typed into the run pane may do: nothing, or end the runner
\* before it publishes a record.
Interrupted(t) == {t} \cup IF t.sess = "run" THEN {RunnerDies(t)} ELSE {}

\* A preparation handle exists and its task is not done.
PrepLive == prep \notin {"idle", "new"}

\* Mutant: the update forgets its expected states.
TransitionUnchecked(r, expected, new) == IF r.st # "absent" THEN new ELSE r
(* transition_remote_run: compare-and-set on the row's state.              *)
Transition(r, expected, new) == IF r.st \in expected THEN new ELSE r

\* Close a run in one of the terminal states.
Close(r, st, err) ==
  Transition(r, Active, [r EXCEPT !.st = st, !.ph = "none", !.err = err])

(* _apply_remote_status: r is the row now, seen the row the caller read    *)
(* before its remote call, out what the read reported.                     *)
ApplyStatus(r, seen, out) ==
  CASE seen.st \in Terminal \/ out \in {"none", "missing", "pane_only"} -> r
    [] seen.st \notin Terminal /\ out = "cloning" ->
         Transition(r, {"preparing"}, [r EXCEPT !.ph = "cloning", !.err = "none"])
    [] seen.st \notin Terminal /\ out = "preparing" ->
         Transition(r, {"preparing"}, [r EXCEPT !.ph = seen.ph])
    [] seen.st \notin Terminal /\ out = "running" ->
         Transition(r, Active,
           [r EXCEPT !.st = "running", !.ph = "none", !.err = "none"])
    [] seen.st \notin Terminal /\ out \in Terminal ->
         Close(r, out, IF out = "failed" THEN "other" ELSE "none")

(* _apply_remote_observation: a missing layout only proves a running run   *)
(* lost, and only when its pane is gone too.                               *)
ApplyObservation(r, seen, out) ==
  CASE out = "missing" -> IF seen.st = "running" THEN ApplyStatus(r, seen, "lost")
                          ELSE r
    [] out = "pane_only" -> r
    [] out \notin {"missing", "pane_only"} -> ApplyStatus(r, seen, out)

\* Mutant: a cancelled preparation gets a state of its own.
PreparationFailedCancelled(r, cancelled) ==
  Transition(r, {"preparing"},
    [r EXCEPT !.st = IF cancelled THEN "cancelled" ELSE "failed",
              !.ph = "none",
              !.err = IF cancelled THEN "cancelled" ELSE "other"])

(* _record_preparation_failure *)
PreparationFailed(r, cancelled) ==
  Transition(r, {"preparing"},
    [r EXCEPT !.st = IF cancelled THEN "stopped" ELSE "failed",
              !.ph = "none",
              !.err = IF cancelled THEN "cancelled" ELSE "other"])

-----------------------------------------------------------------------------
(* Creation, upload and preparation *)

\* create(): the row is inserted; the preparation is not scheduled yet, but
\* another request may already see the row.
Create ==
  /\ row.st = "absent"
  /\ row' = [row EXCEPT !.st = "preparing",
                        !.ph = CASE kind = "workspace" -> "scanning"
                                 [] kind = "archive"   -> "waiting_upload"
                                 [] kind = "git"       -> "cloning",
                        !.exp = kind = "archive"]
  /\ prep' = IF kind = "archive" THEN "idle" ELSE "new"
  /\ UNCHANGED <<kind, zip, cancel, script, tgt, rd, obs, ctl, watch, count>>

\* transition_remote_run with an expected phase; exp: expires_at is set.
TransitionPhase(r, expected, ph, exp) ==
  IF r.st = "preparing" /\ r.ph = expected
  THEN [r EXCEPT !.ph = ph, !.exp = exp] ELSE r

\* upload_archive: the phase admits one upload at a time.
UploadBegin ==
  /\ kind = "archive" /\ upload = "idle" /\ count.uploads > 0
  /\ row.st = "preparing" /\ row.ph = "waiting_upload"
  /\ row' = TransitionPhase(row, "waiting_upload", "uploading", row.exp)
  /\ upload' = "receiving"
  /\ count' = [count EXCEPT !.uploads = @ - 1]
  /\ UNCHANGED <<kind, spool, prep, cancel, script, tgt, rd, obs, ctl, watch>>

\* The part file becomes the archive; it is gone when the row was deleted.
UploadStored ==
  /\ upload = "receiving" /\ row.st # "deleted"
  /\ upload' = "stored"
  /\ spool' = TRUE
  /\ UNCHANGED <<kind, row, prep, cancel, script, tgt, rd, obs, ctl, watch, count>>

\* The preparation is scheduled unless a stop closed the run meanwhile;
\* schedule() leaves a preparation that is still under way alone.
UploadDone ==
  /\ upload = "stored"
  /\ row.st = "preparing" /\ row.ph = "uploading"
  /\ row' = TransitionPhase(row, "uploading", "checking", FALSE)
  /\ prep' = IF PrepLive THEN prep ELSE "new"
  /\ upload' = "idle"
  /\ UNCHANGED <<kind, spool, cancel, script, tgt, rd, obs, ctl, watch, count>>

\* A broken, oversized or superseded upload puts the run back to waiting.
UploadFails ==
  /\ upload # "idle"
  /\ row' = TransitionPhase(row, "uploading", "waiting_upload", TRUE)
  /\ upload' = "idle"
  /\ UNCHANGED <<kind, spool, prep, cancel, script, tgt, rd, obs, ctl, watch, count>>

\* cleanup_expired: a run whose ZIP never came is failed and dropped.
UploadExpires ==
  /\ row.st = "preparing" /\ row.ph = "waiting_upload" /\ row.exp
  /\ row' = [row EXCEPT !.st = "deleted", !.ph = "none"]
  /\ spool' = FALSE
  /\ UNCHANGED <<kind, upload, prep, cancel, script, tgt, rd, obs, ctl, watch, count>>

Uploading == UploadBegin \/ UploadStored \/ UploadDone \/ UploadFails \/ UploadExpires

\* schedule(): a new handle with a clear cancel event.
Schedule ==
  /\ prep = "new"
  /\ prep' = "begin"
  /\ cancel' = FALSE
  /\ UNCHANGED <<kind, row, zip, script, tgt, rd, obs, ctl, watch, count>>

\* _prepare_sync: a run that is no longer preparing needs nothing.
PrepBegin ==
  /\ prep = "begin"
  /\ prep' = IF row.st # "preparing" THEN "idle"
             ELSE IF cancel \/ (kind = "archive" /\ ~spool) THEN "fail"
             ELSE IF kind = "archive" THEN "copying" ELSE "layout"
  /\ UNCHANGED <<kind, row, zip, cancel, script, tgt, rd, obs, ctl, watch, count>>

\* create_remote_run_layout, then the cancellation check that follows it.
PrepLayout ==
  /\ prep = "layout"
  /\ tgt' = [tgt EXCEPT !.layout = TRUE]
  /\ prep' = IF cancel THEN "fail"
             ELSE CASE kind = "workspace" -> "copying"
                    [] kind = "archive"   -> "copy"
                    [] kind = "git"       -> "mark"
  /\ UNCHANGED <<kind, row, zip, cancel, script, rd, obs, ctl, watch, count>>

\* The move to phase copying. _materialize_workspace gives up when the
\* compare-and-set fails; _prepare_zip ignores its result.
PrepCopying ==
  /\ prep = "copying"
  /\ row' = Transition(row, {"preparing"}, [row EXCEPT !.ph = "copying"])
  /\ prep' = IF kind = "archive" THEN "layout"
             ELSE IF cancel \/ row.st # "preparing" THEN "fail" ELSE "copy"
  /\ UNCHANGED <<kind, zip, cancel, script, tgt, rd, obs, ctl, watch, count>>

\* materialize_*: every sink operation checks the cancel event and needs the
\* run's directory.
PrepCopy ==
  /\ prep = "copy"
  /\ prep' = IF cancel \/ ~tgt.layout THEN "fail" ELSE "commit"
  /\ UNCHANGED <<kind, row, zip, cancel, script, tgt, rd, obs, ctl, watch, count>>

\* commit_remote_run_snapshot: the staged tree becomes work/, once.
PrepCommit ==
  /\ prep = "commit"
  /\ IF cancel \/ ~tgt.layout \/ tgt.work
     THEN prep' = "fail" /\ UNCHANGED tgt
     ELSE prep' = "mark" /\ tgt' = [tgt EXCEPT !.work = TRUE]
  /\ UNCHANGED <<kind, row, zip, cancel, script, rd, obs, ctl, watch, count>>

\* The row says that the start is ambiguous before the start is attempted.
PrepMark ==
  /\ prep = "mark"
  /\ IF cancel \/ row.st # "preparing"
     THEN prep' = "fail" /\ UNCHANGED row
     ELSE /\ prep' = "check"
          /\ row' = [row EXCEPT !.ph = "starting",
                                !.err = "start_status_unknown"]
  /\ UNCHANGED <<kind, zip, cancel, script, tgt, rd, obs, ctl, watch, count>>

\* The target has a directory for the run and no record of an earlier start
\* or stop.
Startable(t) == /\ t.layout
                /\ ~t.stop
                /\ t.state = "none"
                /\ t.prepres = "none"
                /\ t.compl = "none"

\* start_remote_run, start_remote_git_run: refuse when any lifecycle record
\* exists; a clone also refuses an existing session.
PrepCheck ==
  /\ prep = "check"
  /\ prep' = IF Startable(tgt) /\ (kind = "git" => tgt.sess = "none")
             THEN "exec" ELSE "fail"
  /\ UNCHANGED <<kind, row, zip, cancel, script, tgt, rd, obs, ctl, watch, count>>

\* The launch script is accepted by the exec channel.
PrepExec ==
  /\ prep = "exec"
  /\ script' = "new"
  /\ prep' = "wait"
  /\ UNCHANGED <<kind, row, zip, cancel, tgt, rd, obs, ctl, watch, count>>

\* The script's exit status arrives: _start_with_reconciliation clears the
\* ambiguity, and _prepare_git then shows the clone.
PrepAck ==
  /\ prep = "wait"
  /\ script \in {"ok", "err"}
  /\ script' = "none"
  /\ IF script = "err"
     THEN prep' = "fail" /\ UNCHANGED row
     ELSE /\ prep' = "idle"
          /\ row' = Transition(row, {"preparing"},
                      [row EXCEPT !.err = "none",
                                  !.ph = IF kind = "git" THEN "cloning" ELSE @])
  /\ UNCHANGED <<kind, zip, cancel, tgt, rd, obs, ctl, watch, count>>

\* Mutant: an unknown status without a session makes the launch start over.
PrepStatusUnknownRetry ==
  /\ prep \in {"check", "exec", "wait"} /\ tgt.sess = "none"
  /\ prep' = "exec"
  /\ UNCHANGED <<kind, row, zip, cancel, script, tgt, rd, obs, ctl, watch, count>>

\* SSHCommandStatusUnknown: the channel breaks before the script is sent, or
\* its acknowledgement is lost while the script itself may still run.
PrepStatusUnknown ==
  /\ prep \in {"check", "exec", "wait"}
  /\ prep' = "recon"
  /\ rd' = [rd EXCEPT !["prep"] = [IdleRead EXCEPT !.step = "sample"]]
  /\ UNCHANGED <<kind, row, zip, cancel, script, tgt, obs, ctl, watch, count>>

\* _reconcile_start_exception, once its status read returned or failed: an
\* undecided start stays marked ambiguous.
PrepReconciled ==
  /\ prep = "recon"
  /\ rd["prep"].step \in {"done", "failed"}
  /\ LET out == rd["prep"].out
         new == ApplyStatus(row, row, out)
         settled == \/ out \in {"running", "cloning"} \cup Terminal
                    \/ out = "preparing" /\ new.st # "preparing"
     IN row' = IF settled THEN new
               ELSE Transition(new, {"preparing"},
                      [new EXCEPT !.err = "start_status_unknown",
                                  !.ph = IF @ = "none" THEN "starting" ELSE @])
  /\ prep' = "idle"
  /\ rd' = [rd EXCEPT !["prep"] = IdleRead]
  /\ UNCHANGED <<kind, zip, cancel, script, tgt, obs, ctl, watch, count>>

\* A remote call of the preparation raises: link down, disk full, bad source.
PrepError ==
  /\ prep \in {"layout", "copying", "copy", "commit", "mark", "check"}
  /\ prep' = "fail"
  /\ UNCHANGED <<kind, row, zip, cancel, script, tgt, rd, obs, ctl, watch, count>>

PrepFail ==
  /\ prep = "fail"
  /\ row' = PreparationFailed(row, cancel)
  /\ prep' = "idle"
  /\ UNCHANGED <<kind, zip, cancel, script, tgt, rd, obs, ctl, watch, count>>

Preparation ==
  \/ Create \/ Schedule \/ PrepBegin \/ PrepLayout \/ PrepCopying \/ PrepCopy
  \/ PrepCommit \/ PrepMark \/ PrepCheck \/ PrepExec \/ PrepAck
  \/ PrepStatusUnknown \/ PrepReconciled \/ PrepError \/ PrepFail

-----------------------------------------------------------------------------
(* The target: launch script, Git bootstrap and runner *)

\* tmux has-session: an existing session refuses the start.
ScriptCheckSession ==
  /\ script = "new"
  /\ script' = IF tgt.sess = "none" THEN "create" ELSE "err"
  /\ UNCHANGED <<kind, row, zip, prep, cancel, tgt, rd, obs, ctl, watch, count>>

\* tmux new-session. The script is a plain list of commands: when it fails
\* because the session exists by now, the next command runs all the same.
ScriptNewSession ==
  /\ script = "create"
  /\ script' = "respawn"
  /\ tgt' = [tgt EXCEPT !.sess = IF @ = "none" THEN "shell" ELSE @]
  /\ UNCHANGED <<kind, row, zip, prep, cancel, rd, obs, ctl, watch, count>>

\* tmux respawn-pane -k on the first pane of the session, whatever window that
\* is; without the run's directory the runner file is missing and it dies.
ScriptRespawn ==
  /\ script = "respawn"
  /\ IF tgt.sess = "none"
     THEN script' = "err" /\ UNCHANGED tgt
     ELSE /\ script' = "ok"
          /\ tgt' = IF tgt.layout
                    THEN [tgt EXCEPT !.sess = IF @ \in {"bare", "hidden"} THEN "hidden"
                                              ELSE "run",
                                     !.runner = IF kind = "git" THEN "git_state"
                                                ELSE "check"]
                    ELSE RunnerDies(tgt)
  /\ UNCHANGED <<kind, row, zip, prep, cancel, rd, obs, ctl, watch, count>>

\* The script ends and nobody waits for its exit status any more.
ScriptEnds ==
  /\ script \in {"ok", "err"}
  /\ prep # "wait"
  /\ script' = "none"
  /\ UNCHANGED <<kind, row, zip, prep, cancel, tgt, rd, obs, ctl, watch, count>>

\* The target kills the script between its commands.
ScriptKilled ==
  /\ count.reboots > 0
  /\ script \in {"new", "create", "respawn"}
  /\ script' = "err"
  /\ count' = [count EXCEPT !.reboots = @ - 1]
  /\ UNCHANGED <<kind, row, zip, prep, cancel, tgt, rd, obs, ctl, watch>>

\* A step of the runner process takes the target to t. Every step but the
\* command and the final exit uses the run's directory by its absolute path.
RunnerStep(pc, t) ==
  /\ tgt.runner = pc
  /\ tgt.layout \/ pc \in {"command", "exit"}
  /\ tgt' = t
  /\ UNCHANGED <<kind, row, zip, prep, cancel, script, rd, obs, ctl, watch, count>>

\* The runner publishes prepare-result.json and exits.
Refuse(result) == RunnerDies([tgt EXCEPT !.prepres = result])

BootstrapState ==
  RunnerStep("git_state",
    [tgt EXCEPT !.state = "cloning", !.runner = "git_check"])
BootstrapCheck ==
  RunnerStep("git_check",
    IF tgt.stop THEN Refuse("stopped") ELSE [tgt EXCEPT !.runner = "git_clone"])
BootstrapClone ==
  RunnerStep("git_clone", [tgt EXCEPT !.runner = "git_commit"])
BootstrapCloneFails ==
  RunnerStep("git_clone", Refuse(IF tgt.stop THEN "stopped" ELSE "failed"))
\* The clone becomes work/ unless a stop arrived during it.
BootstrapCommit ==
  RunnerStep("git_commit",
    IF tgt.stop THEN Refuse("stopped")
    ELSE [tgt EXCEPT !.work = TRUE, !.runner = "git_running"])
BootstrapRunning ==
  RunnerStep("git_running", [tgt EXCEPT !.state = "running", !.runner = "check"])

\* Mutant: the runner records the refusal and goes on.
RunnerCheckLate ==
  RunnerStep("check",
    IF tgt.stop THEN [tgt EXCEPT !.prepres = "stopped", !.runner = "state"]
    ELSE [tgt EXCEPT !.runner = "state"])

\* The runner looks for a stop request once, before it announces the run.
RunnerCheck ==
  RunnerStep("check",
    IF tgt.stop THEN Refuse("stopped") ELSE [tgt EXCEPT !.runner = "state"])
\* The command file or its working directory is missing or outside work/.
RunnerRejects == RunnerStep("check", Refuse("failed"))
RunnerState ==
  RunnerStep("state", [tgt EXCEPT !.state = "running", !.runner = "launch"])
RunnerLaunch ==
  /\ tgt.runner = "launch" /\ tgt.layout
  /\ tgt' = [tgt EXCEPT !.runner = "command"]
  /\ count' = [count EXCEPT !.runs = @ + 1]
  /\ UNCHANGED <<kind, row, zip, prep, cancel, script, rd, obs, ctl, watch>>
CommandEnds == RunnerStep("command", [tgt EXCEPT !.runner = "complete"])
\* stop_requested is sampled, then completion.json appears atomically.
RunnerComplete ==
  RunnerStep("complete",
    [tgt EXCEPT !.runner = IF tgt.stop THEN "pub_stopped" ELSE "pub_finished"])
RunnerPublish ==
  /\ tgt.runner \in {"pub_finished", "pub_stopped"} /\ tgt.layout
  /\ tgt' = [tgt EXCEPT !.compl = IF tgt.runner = "pub_stopped" THEN "stopped"
                                  ELSE "finished",
                        !.runner = "exit"]
  /\ UNCHANGED <<kind, row, zip, prep, cancel, script, rd, obs, ctl, watch, count>>
RunnerExit == RunnerStep("exit", RunnerDies(tgt))
\* The directory was deleted under the runner: the next record or cd fails and
\* it exits (|| exit 120) without leaving a record.
RunnerLosesRoot ==
  /\ ~tgt.layout
  /\ tgt.runner \notin {"none", "gone", "command", "exit"}
  /\ tgt' = RunnerDies(tgt)
  /\ UNCHANGED <<kind, row, zip, prep, cancel, script, rd, obs, ctl, watch, count>>

\* The target loses its tmux server: reboot, out-of-memory kill.
Reboot ==
  /\ count.reboots > 0
  /\ tgt.sess # "none"
  /\ tgt' = KillSession(tgt)
  /\ count' = [count EXCEPT !.reboots = @ - 1]
  /\ UNCHANGED <<kind, row, zip, prep, cancel, script, rd, obs, ctl, watch>>

RunnerSteps ==
  \/ BootstrapState \/ BootstrapCheck \/ BootstrapClone \/ BootstrapCloneFails
  \/ BootstrapCommit \/ BootstrapRunning \/ RunnerCheck \/ RunnerRejects
  \/ RunnerState \/ RunnerLaunch \/ CommandEnds \/ RunnerComplete \/ RunnerPublish
  \/ RunnerExit \/ RunnerLosesRoot

Target == ScriptCheckSession \/ ScriptNewSession \/ ScriptRespawn
          \/ ScriptEnds \/ ScriptKilled \/ RunnerSteps \/ Reboot

-----------------------------------------------------------------------------
(* A status read: reconcile_remote_run and poll_remote_run *)

\* Reader p moves from one step of its read to the next, learning facts.
Read(p, step, learned) ==
  /\ rd[p].step = step
  /\ rd' = [rd EXCEPT ![p] = learned]
  /\ UNCHANGED <<kind, row, zip, prep, cancel, script, tgt, obs, ctl, watch, count>>

\* The read of a reader with record r ends with a report.
Done(r, out) ==
  [IdleRead EXCEPT !.step = "done", !.out = out, !.exists = r.exists]

\* The first tmux sample, taken before any record is read. The directory check
\* may share its step: the directory only disappears once the row is
\* terminal, when no observation is applied.
ReadSample(p) ==
  Read(p, "sample",
    LET r == [rd[p] EXCEPT !.live = PaneLive(tgt), !.exists = tgt.sess # "none"]
    IN IF tgt.layout THEN [r EXCEPT !.step = "results"]
       ELSE Done(r, IF r.live THEN "pane_only" ELSE "missing"))

\* completion.json, then prepare-result.json, decide whatever else is read.
ReadResults(p) ==
  Read(p, "results",
    CASE tgt.compl # "none" -> Done(rd[p], tgt.compl)
      [] tgt.compl = "none" /\ tgt.prepres # "none" -> Done(rd[p], tgt.prepres)
      [] tgt.compl = "none" /\ tgt.prepres = "none" ->
           [rd[p] EXCEPT !.step = "state"])

\* The phase of a live run.
LivePhase(state) == IF state = "none" THEN "preparing" ELSE state

\* state.json: with a live pane it is the answer; without one, a phase that
\* should be live is sampled once more.
ReadState(p) ==
  Read(p, "state",
    CASE rd[p].live -> Done(rd[p], LivePhase(tgt.state))
      [] ~rd[p].live -> [rd[p] EXCEPT !.state = tgt.state,
                           !.step = IF tgt.state = "none" THEN "stop"
                                    ELSE "resample"])

\* Mutant: a stop request without a pane is not enough.
ReadStopIgnored(p) == Read(p, "stop", Done(rd[p], "preparing"))

\* No pane, no record: the stop request decides.
ReadStop(p) ==
  Read(p, "stop", Done(rd[p], IF tgt.stop THEN "stopped" ELSE "preparing"))

\* Mutant: a dead pane is lost without reading the records again.
ReadResampleOnce(p) ==
  Read(p, "resample",
    LET r == [rd[p] EXCEPT !.exists = tgt.sess # "none"]
    IN Done(r, IF PaneLive(tgt) THEN LivePhase(rd[p].state) ELSE "lost"))

ReadResample(p) ==
  Read(p, "resample",
    LET r == [rd[p] EXCEPT !.exists = tgt.sess # "none"]
    IN IF PaneLive(tgt) THEN Done(r, LivePhase(rd[p].state))
       ELSE [r EXCEPT !.step = "reread"])

\* Every record is read again; the runner that wrote them is gone.
ReadAgain(p) ==
  Read(p, "reread",
    Done(rd[p],
      CASE tgt.compl # "none" -> tgt.compl
        [] tgt.compl = "none" /\ tgt.prepres # "none" -> tgt.prepres
        [] tgt.compl = "none" /\ tgt.prepres = "none" ->
             CASE tgt.stop -> "stopped"
               [] ~tgt.stop /\ tgt.state = "running" -> "lost"
               [] ~tgt.stop /\ tgt.state = "cloning" -> "failed"
               [] ~tgt.stop /\ tgt.state = "none" -> "preparing"))

\* The link fails under any of the calls. (For the preparation and for a stop or
\* kill an SSHException amounts to the same: ReadBreaks.)
ReadFails(p) ==
  /\ rd[p].step \notin {"off", "done", "failed"}
  /\ rd' = [rd EXCEPT ![p] = [IdleRead EXCEPT !.step = "failed"]]
  /\ UNCHANGED <<kind, row, zip, prep, cancel, script, tgt, obs, ctl, watch, count>>

ReadOn(p) ==
  \/ ReadSample(p) \/ ReadResults(p) \/ ReadState(p) \/ ReadStop(p)
  \/ ReadResample(p) \/ ReadAgain(p)

Reading == \E p \in Readers : ReadOn(p) \/ ReadFails(p)

-----------------------------------------------------------------------------
(* The holder of the run's lock: observer, run page, startup scan, deletion; *)
(* and the startup scan once it has given the lock back                      *)

Exists == row.st \notin {"absent", "deleted"}

\* Take the lock, read the row and start a status read.
ObsBegin(mode) ==
  /\ obs.pc = "idle"
  /\ obs' = [pc |-> "read", mode |-> mode, st |-> row.st, ph |-> row.ph]
  /\ rd' = [rd EXCEPT !["obs"] = [IdleRead EXCEPT !.step = "sample"]]

\* reconcile(), for the runs list_active_remote_runs returns.
Observable(r) == r.st \in Active /\ r.ph # "waiting_upload"

Reconcile ==
  /\ observer
  /\ Observable(row)
  /\ ObsBegin("reconcile")
  /\ UNCHANGED <<kind, row, zip, prep, cancel, script, tgt, ctl, watch, count>>

\* poll(): the run page asks whatever the state is.
Poll ==
  /\ row.st \in Active
  /\ Pages = "all" \/ (Pages = "started" /\ row.ph # "waiting_upload")
  /\ ObsBegin("poll")
  /\ UNCHANGED <<kind, row, zip, prep, cancel, script, tgt, ctl, watch, count>>

\* poll() attaches the work tree of these runs to a Workspace.
Bridgeable(r) == r.st \in {"running", "finished", "stopped", "lost"} /\ ~r.wsp

\* poll() of a terminal run, and ensure_workspace_bridge: no report is applied,
\* so all that the read decides is whether the directory is there.
PollTerminal ==
  /\ obs.pc = "idle" /\ Pages # "none"
  /\ row.st \in Terminal /\ ~row.wsp /\ tgt.layout
  /\ obs' = [obs EXCEPT !.pc = "bridge"]
  /\ UNCHANGED <<kind, row, zip, prep, cancel, script, tgt, rd, ctl, watch, count>>

\* _reconcile_startup polls once every run that was active when it listed them.
StartupScan ==
  /\ startup = "listed"
  /\ IF row.st \in Active THEN ObsBegin("startup") /\ startup' = "poll"
     ELSE obs.pc = "idle" /\ startup' = "off" /\ UNCHANGED <<obs, rd>>
  /\ UNCHANGED <<kind, row, zip, prep, cancel, script, tgt, ctl, mark, observer, count>>

\* The read is complete: apply it to the row and give the lock back, after poll()
\* has looked after the Workspace. The startup scan goes on with a preparation
\* that has no session.
ObsApply ==
  /\ obs.pc = "read"
  /\ rd["obs"].step = "done"
  /\ LET r == rd["obs"]
     IN /\ row' = ApplyObservation(row, obs, r.out)
        /\ obs' = IF /\ obs.mode # "reconcile"
                     /\ Bridgeable(row') /\ r.out \notin {"missing", "pane_only"}
                  THEN [obs EXCEPT !.pc = "bridge"] ELSE IdleObs
        /\ startup' = CASE obs.mode # "startup" -> startup
                        [] obs.mode = "startup" ->
                             IF row'.st = "preparing" /\ ~r.exists THEN "judge" ELSE "off"
  /\ mark' = IF /\ startup' = "judge" /\ obs.mode = "startup"
                /\ row'.err = "start_status_unknown"
             THEN "seen" ELSE mark
  /\ spool' = (spool /\ row'.st # "running")
  /\ rd' = [rd EXCEPT !["obs"] = IdleRead]
  /\ UNCHANGED <<kind, upload, prep, cancel, script, tgt, ctl, observer, count>>

\* Offline: nothing is learned; the startup scan still asks for the directory.
ObsOffline ==
  /\ obs.pc = "read"
  /\ rd["obs"].step = "failed"
  /\ obs' = IdleObs
  /\ startup' = CASE obs.mode # "startup" -> startup
                  [] obs.mode = "startup" ->
                       IF obs.st = "preparing" THEN "layout" ELSE "off"
  /\ rd' = [rd EXCEPT !["obs"] = IdleRead]
  /\ UNCHANGED <<kind, row, zip, prep, cancel, script, tgt, ctl, mark, observer, count>>

\* An SFTP call raises paramiko.SSHException: _sftp_exists and _read_sftp_json
\* expect OSError, poll and reconcile SSHBackendError. The lock is given back, and
\* what called them ends: the observer task, or the startup scan.
ReadBreaks ==
  /\ rd["obs"].step \in {"sample", "results", "state", "stop", "reread"}
  /\ count.breaks > 0
  /\ count' = [count EXCEPT !.breaks = @ - 1]
  /\ rd' = [rd EXCEPT !["obs"] = IdleRead]
  /\ obs' = IdleObs
  /\ observer' = (observer /\ obs.mode # "reconcile")
  /\ startup' = IF obs.mode = "startup" THEN "off" ELSE startup
  /\ UNCHANGED <<kind, row, zip, prep, cancel, script, tgt, ctl, mark>>

\* The same while another run is read, by the observer or by the scan before it
\* comes to this run.
OtherReadBreaks ==
  /\ count.breaks > 0
  /\ count' = [count EXCEPT !.breaks = @ - 1]
  /\ \/ observer /\ obs.mode # "reconcile" /\ observer' = FALSE /\ UNCHANGED startup
     \/ startup = "listed" /\ startup' = "off" /\ UNCHANGED observer
  /\ UNCHANGED <<kind, row, zip, prep, cancel, script, tgt, rd, obs, ctl, mark>>

\* remote_run_layout_exists answers, or fails.
StartupLayout ==
  /\ startup = "layout"
  /\ \/ ~tgt.layout /\ startup' = "judge"
     \/ startup' = "off"
  /\ UNCHANGED <<kind, row, zip, prep, cancel, script, tgt, rd, obs, ctl, mark, observer,
                 count>>

\* The scan reads the row again: an ambiguous start is left alone.
StartupJudge ==
  /\ startup = "judge"
  /\ IF row.err = "start_status_unknown"
     THEN startup' = "off" /\ UNCHANGED mark
     ELSE /\ startup' = "fail"
          /\ mark' = IF mark = "seen" /\ row.st = "preparing" THEN "lost" ELSE mark
  /\ UNCHANGED <<kind, row, zip, prep, cancel, script, tgt, rd, obs, ctl, observer, count>>

\* A preparation that died with the Core is failed (core_restarted).
StartupFail ==
  /\ startup = "fail"
  /\ startup' = "off"
  /\ row' = PreparationFailed(row, FALSE)
  /\ UNCHANGED <<kind, zip, prep, cancel, script, tgt, rd, obs, ctl, mark, observer, count>>

\* _ensure_workspace_bridge: a missing session is recreated only for a
\* terminal run.
Bridge ==
  /\ obs.pc = "bridge"
  /\ obs' = IdleObs
  /\ \/ /\ tgt.layout
        /\ tgt.sess # "none" \/ row.st \in Terminal
        /\ tgt' = [tgt EXCEPT !.sess = IF @ = "none" THEN "bare" ELSE @]
        /\ row' = [row EXCEPT !.wsp = TRUE]
     \/ UNCHANGED <<tgt, row>>
  /\ UNCHANGED <<kind, zip, prep, cancel, script, rd, ctl, watch, count>>

\* request_delete (and cleanup_expired): kill the session, move the directory
\* away, then drop the Workspace and the row. A failed call leaves the rest.
DeleteBegin ==
  /\ obs.pc = "idle" /\ Pages # "none"
  /\ row.st \in Terminal
  /\ obs' = [obs EXCEPT !.pc = "del_kill"]
  /\ UNCHANGED <<kind, row, zip, prep, cancel, script, tgt, rd, ctl, watch, count>>

DeleteKill ==
  /\ obs.pc = "del_kill"
  /\ tgt' = KillSession(tgt)
  /\ obs' = [obs EXCEPT !.pc = "del_root"]
  /\ UNCHANGED <<kind, row, zip, prep, cancel, script, rd, ctl, watch, count>>

DeleteRoot ==
  /\ obs.pc = "del_root"
  /\ tgt' = [layout |-> FALSE, work |-> FALSE, stop |-> FALSE, state |-> "none",
             prepres |-> "none", compl |-> "none", sess |-> tgt.sess,
             runner |-> tgt.runner]
  /\ obs' = [obs EXCEPT !.pc = "del_row"]
  /\ UNCHANGED <<kind, row, zip, prep, cancel, script, rd, ctl, watch, count>>

DeleteFails ==
  /\ obs.pc \in {"del_kill", "del_root"}
  /\ obs' = IdleObs
  /\ UNCHANGED <<kind, row, zip, prep, cancel, script, tgt, rd, ctl, watch, count>>

DeleteRow ==
  /\ obs.pc = "del_row"
  /\ row' = [row EXCEPT !.st = "deleted", !.wsp = FALSE]
  /\ spool' = FALSE
  /\ obs' = IdleObs
  /\ UNCHANGED <<kind, upload, prep, cancel, script, tgt, rd, ctl, watch, count>>

Deletion == DeleteBegin \/ DeleteKill \/ DeleteRoot \/ DeleteFails \/ DeleteRow

Observing ==
  \/ Reconcile \/ Poll \/ PollTerminal \/ StartupScan \/ ObsApply \/ ObsOffline
  \/ ReadBreaks \/ OtherReadBreaks \/ StartupLayout \/ StartupJudge \/ StartupFail
  \/ Bridge \/ Deletion

-----------------------------------------------------------------------------
(* stop() and kill(), which take no lock *)

\* The row remembers the request and a live preparation is told to cancel.
CtlBegin(op) ==
  /\ op \in {"stop", "kill"}
  /\ ctl.pc = "idle"
  /\ IF op = "stop" THEN count.stops > 0 ELSE count.kills > 0
  /\ row.st \in Active
  /\ row' = [row EXCEPT !.stopReq = TRUE]
  /\ cancel' = (cancel \/ PrepLive)
  /\ ctl' = [pc |-> IF op = "stop" /\ row.ph = "waiting_upload" THEN "waiting"
                    ELSE "remote",
             op |-> op, st |-> row.st, live |-> PrepLive]
  /\ count' = IF op = "stop" THEN [count EXCEPT !.stops = @ - 1]
               ELSE [count EXCEPT !.kills = @ - 1]
  /\ UNCHANGED <<kind, zip, prep, script, tgt, rd, obs, watch>>

Stop == CtlBegin("stop")
Kill == CtlBegin("kill")

\* stop() of a run that waits for its upload, unless the upload has begun.
StopWaiting ==
  /\ ctl.pc = "waiting"
  /\ row' = IF row.ph = "waiting_upload" THEN Close(row, "stopped", "cancelled")
            ELSE row
  /\ ctl' = IdleCtl
  /\ UNCHANGED <<kind, zip, prep, cancel, script, tgt, rd, obs, watch, count>>

\* The directory is missing, so nothing can be published: only the session
\* and the state read at the beginning decide.
StopMissing ==
  /\ ctl.pc = "remote" /\ ctl.op = "stop" /\ ~tgt.layout
  /\ ctl' = IdleCtl
  /\ tgt' \in IF PaneLive(tgt) THEN Interrupted(tgt) ELSE {tgt}
  /\ row' = CASE PaneLive(tgt) -> row
              [] ~PaneLive(tgt) /\ ctl.st = "running" -> Close(row, "lost", "other")
              [] ~PaneLive(tgt) /\ ctl.st # "running" ->
                   IF tgt.sess # "none" \/ ctl.live THEN row
                   ELSE Close(row, "stopped", "cancelled")
  /\ UNCHANGED <<kind, zip, prep, cancel, script, rd, obs, watch, count>>

KillMissing ==
  /\ ctl.pc = "remote" /\ ctl.op = "kill" /\ ~tgt.layout
  /\ ctl' = IdleCtl
  /\ tgt' = KillSession(tgt)
  /\ row' = CASE tgt.sess # "none" -> Close(row, "stopped", "killed")
              [] tgt.sess = "none" /\ ctl.st = "running" -> Close(row, "lost", "other")
              [] tgt.sess = "none" /\ ctl.st # "running" ->
                   IF ctl.live THEN row ELSE Close(row, "stopped", "cancelled")
  /\ UNCHANGED <<kind, zip, prep, cancel, script, rd, obs, watch, count>>

CtlReads == rd' = [rd EXCEPT !["ctl"] = [IdleRead EXCEPT !.step = "sample"]]

\* A run that completed in the meantime is reported as it ended.
CtlInspect ==
  /\ ctl.pc = "remote" /\ tgt.layout
  /\ IF tgt.compl # "none"
     THEN ctl' = [ctl EXCEPT !.pc = "read"] /\ CtlReads
     ELSE ctl' = [ctl EXCEPT !.pc = "publish"] /\ UNCHANGED rd
  /\ UNCHANGED <<kind, row, zip, prep, cancel, script, tgt, obs, watch, count>>

\* _publish_stop_request
CtlPublish ==
  /\ ctl.pc = "publish" /\ tgt.layout
  /\ tgt' = [tgt EXCEPT !.stop = TRUE]
  /\ ctl' = [ctl EXCEPT !.pc = "signal"]
  /\ UNCHANGED <<kind, row, zip, prep, cancel, script, rd, obs, watch, count>>

\* stop(): C-c into the run pane; with no pane and no preparation left, the
\* records decide.
StopSignal ==
  /\ ctl.pc = "signal" /\ ctl.op = "stop"
  /\ tgt' \in IF RunPane(tgt) THEN Interrupted(tgt) ELSE {tgt}
  /\ IF RunPane(tgt) \/ ctl.live
     THEN ctl' = IdleCtl /\ UNCHANGED rd
     ELSE ctl' = [ctl EXCEPT !.pc = "read"] /\ CtlReads
  /\ UNCHANGED <<kind, row, zip, prep, cancel, script, obs, watch, count>>

KillSignal ==
  /\ ctl.pc = "signal" /\ ctl.op = "kill"
  /\ tgt' = KillSession(tgt)
  /\ ctl' = [ctl EXCEPT !.pc = "recheck"]
  /\ UNCHANGED <<kind, row, zip, prep, cancel, script, rd, obs, watch, count>>

\* The command may have completed just before its session was killed.
KillRecheck ==
  /\ ctl.pc = "recheck"
  /\ IF tgt.compl # "none"
     THEN ctl' = [ctl EXCEPT !.pc = "read"] /\ CtlReads /\ UNCHANGED row
     ELSE /\ ctl' = IdleCtl
          /\ row' = Close(row, "stopped", "killed")
          /\ UNCHANGED rd
  /\ UNCHANGED <<kind, zip, prep, cancel, script, tgt, obs, watch, count>>

\* _apply_remote_status with the row as it is now; a missing directory
\* reports no state at all.
CtlApply ==
  /\ ctl.pc = "read"
  /\ rd["ctl"].step \in {"done", "failed"}
  /\ row' = ApplyStatus(row, row, rd["ctl"].out)
  /\ ctl' = IdleCtl
  /\ rd' = [rd EXCEPT !["ctl"] = IdleRead]
  /\ UNCHANGED <<kind, zip, prep, cancel, script, tgt, obs, watch, count>>

\* A remote call of the request raises: the HTTP request fails.
CtlFails ==
  /\ ctl.pc \in {"remote", "publish", "signal", "recheck"}
  /\ ctl' = IdleCtl
  /\ UNCHANGED <<kind, row, zip, prep, cancel, script, tgt, rd, obs, watch, count>>

Control ==
  \/ Stop \/ Kill \/ StopWaiting \/ StopMissing \/ KillMissing \/ CtlInspect \/ CtlPublish
  \/ StopSignal \/ KillSignal \/ KillRecheck \/ CtlApply \/ CtlFails

-----------------------------------------------------------------------------
(* The Core process *)

\* shutdown(): live preparations are cancelled and waited for.
Shutdown ==
  /\ PrepLive
  /\ count.crashes > 0
  /\ cancel' = TRUE
  /\ UNCHANGED <<kind, row, zip, prep, script, tgt, rd, obs, ctl, watch, count>>

\* The Core dies and starts again: the row and the target survive it.
Crash ==
  /\ row.st # "absent"
  /\ count.crashes > 0
  /\ upload' = "idle"
  /\ prep' = "idle"
  /\ cancel' = FALSE
  /\ rd' = [p \in Readers |-> IdleRead]
  /\ obs' = IdleObs
  /\ ctl' = IdleCtl
  /\ startup' = IF Observable(row) THEN "listed" ELSE "off"
  /\ mark' = IF row.st \in Active THEN "none" ELSE mark
  /\ observer' = TRUE
  /\ count' = [count EXCEPT !.crashes = @ - 1]
  /\ UNCHANGED <<kind, row, spool, script, tgt>>

Next == Uploading \/ Preparation \/ Target \/ Reading \/ Observing \/ Control
        \/ Shutdown \/ Crash

Spec == Init /\ [][Next]_vars

\* Threads and scripts that can go on do so; the command itself may run for
\* ever. An observer that is alive comes back to an active run as long as there is
\* one, and from some point on the link does not fail under its reads; nothing is
\* assumed of the pages, of the startup scan, or of reads that break.
Fairness ==
  /\ WF_vars(Schedule \/ PrepBegin \/ PrepLayout \/ PrepCopying \/ PrepCopy
             \/ PrepCommit \/ PrepMark \/ PrepCheck \/ PrepExec \/ PrepAck
             \/ PrepReconciled \/ PrepFail)
  /\ WF_vars(ScriptCheckSession \/ ScriptNewSession \/ ScriptRespawn \/ ScriptEnds)
  /\ WF_vars(RunnerSteps /\ tgt.runner # "command")
  /\ WF_vars(\E p \in {"prep", "ctl"} : ReadOn(p))
  /\ WF_vars(ObsApply \/ ObsOffline \/ Bridge \/ DeleteKill \/ DeleteRoot \/ DeleteRow)
  /\ WF_vars(Reconcile)
  /\ WF_vars(ReadOn("obs"))
  /\ <>[][~ReadFails("obs")]_vars

LiveSpec == Spec /\ Fairness

-----------------------------------------------------------------------------
(* Properties *)

\* Every component of the state keeps its type.
TypeOK ==
  /\ kind \in SourceKinds
  /\ row \in RowType
  /\ upload \in {"idle", "receiving", "stored"}
  /\ spool \in BOOLEAN
  /\ prep \in PrepSteps
  /\ cancel \in BOOLEAN
  /\ script \in ScriptSteps
  /\ tgt \in TargetType
  /\ rd \in [Readers -> ReadType]
  /\ obs \in ObsType
  /\ ctl \in CtlType
  /\ startup \in StartupSteps
  /\ mark \in {"none", "seen", "lost"}
  /\ observer \in BOOLEAN
  /\ count \in [crashes: Nat, reboots: Nat, stops: Nat, kills: Nat, uploads: Nat,
               breaks: Nat, runs: Nat]

\* The user's command is executing on the target.
CommandLive == tgt.runner = "command"

\* The command is executed at most once, whatever acknowledgement, Core or
\* session is lost around the start (start_remote_run, runner.sh).
CommandRunsOnce == count.runs <= 1

\* What makes CommandRunsOnce inductive. A start that has been decided is in
\* exactly one place: the preparation past its mark, the launch script before it
\* respawned the pane, the runner before it launches, or an executed command.
Starts ==
  LET one(b) == IF b THEN 1 ELSE 0
  IN one(prep \in {"check", "exec"}) + one(script \in {"new", "create", "respawn"})
     + one(tgt.runner \in BeforeCommand) + count.runs

\* Only one start is ever decided: a workspace or clone run is prepared once,
\* an archive run never marks a start whose work/ was committed before.
StartsOnce ==
  /\ Starts <= 1
  /\ row.st = "absent" => prep = "idle" /\ upload = "idle" /\ Starts = 0
  /\ kind # "archive" => upload = "idle"
  /\ kind # "archive" /\ prep \in BeforeMark => Starts = 0
  /\ kind = "archive" /\ row.st \in Active =>
       /\ Starts > 0 \/ prep = "mark" => tgt.work
       /\ prep = "mark" => Starts = 0
  /\ obs.pc \in {"del_kill", "del_root", "del_row"} =>
       row.st \in Terminal \cup {"deleted"}

\* What a terminal row says of a run is true, although every verdict is formed
\* from remote reads that a launch script may overtake. Finished, failed and lost
\* runs have no command executing and none that can still start; a run with a
\* completion record is never reported lost and a finished one has that record
\* (the order of reads in _reconcile_remote_run_connection); a run nobody asked to
\* stop is reported stopped only when the Core's own shutdown cancelled its
\* preparation, and then the command never ran. Set apart is the one case of
\* StartupVerdictIsTrue.
ReportedOutcomeIsTrue ==
  /\ row.st \in {"finished", "lost"} => ~CommandLive
  /\ row.st = "failed" => ~CommandLive \/ mark = "lost"
  /\ row.st = "lost" => tgt.compl = "none"
  /\ row.st = "finished" /\ tgt.layout => tgt.compl = "finished"
  /\ row.st = "stopped" /\ ~row.stopReq => row.err = "cancelled" /\ count.runs = 0

\* A deleted run, and one that kill() has reported killed, has no command
\* executing, even when a launch script or a preparation outlived its row.
DeletedIsSilent ==
  row.st = "deleted" \/ (row.st = "stopped" /\ row.err = "killed") => ~CommandLive

\* What the row says of the run, or of its deletion, is true whatever a launch
\* script, a preparation or another request still does.
RowIsTrue == ReportedOutcomeIsTrue /\ DeletedIsSilent

\* After a restart the Core fails a preparation only if its command does not run,
\* although the scan has given the run's lock back before it reads the row again
\* and an observer may have taken the mark off in between (_reconcile_startup).
StartupVerdictIsTrue == row.st = "failed" => ~CommandLive

\* Once a run has a directory on the target, the observer sees it as long as it
\* is active.
ActiveIsObserved == row.st \in Active /\ tgt.layout => Observable(row)

\* No later observation, failure or request rewrites a terminal outcome.
TerminalIsFinal ==
  [][row.st \in Terminal => row'.st \in {row.st, "deleted"}]_vars

\* A runner that is gone left a record, announced a phase or was asked to stop.
Explained == tgt.compl # "none" \/ tgt.prepres # "none" \/ tgt.state # "none"
             \/ tgt.stop

\* Whatever ended the runner, and whatever readers the news is lost on, the row
\* of a run that left any trace of its end reaches a terminal state, unless the
\* observer task dies (_observe_active_runs).
EndIsReported ==
  row.st \in Active /\ tgt.runner = "gone" /\ Explained ~> row.st \notin Active \/ ~observer

\* A published stop request closes the run unless the command had already
\* passed its check and started (stop, runner.sh, _reconcile_start_exception), or
\* the observer task dies.
StopResolves ==
  tgt.stop /\ row.st = "preparing" ~> row.st \notin Active \/ count.runs > 0 \/ ~observer

\* Every end and every stop reaches the row (_observe_active_runs, stop).
RunsResolve == EndIsReported /\ StopResolves

\* A run whose runner is gone does not stay active for ever: the observer looks at
\* every active run, whatever a look at this one or at another has raised
\* (_observe_active_runs).
RunsAreObserved ==
  row.st \in Active /\ tgt.runner = "gone" /\ Explained ~> row.st \notin Active

\* The abstract run behind the rows, read off the target.
Life == INSTANCE RunLife WITH
  work <- IF tgt.work THEN "whole" ELSE "none",
  cmd <- CASE count.runs = 0 -> "no"
           [] count.runs > 0 /\ CommandLive -> "yes"
           [] count.runs > 0 /\ ~CommandLive -> IF tgt.layout THEN "over" ELSE "gone",
  record <- IF tgt.compl # "none" THEN tgt.compl ELSE tgt.prepres

\* The SSH target implements the abstract run, through lost acknowledgements,
\* crashes of the Core and reboots of the target: one execution at most, in a
\* tree committed as a whole, never after a refusal, records never taken back.
ImplementsRunLife == Life!Spec

=============================================================================
