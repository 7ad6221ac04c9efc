# Verification of Termroom

Termroom is a browser front end for tmux: a Core process (FastAPI, asyncio,
SQLite) shows terminals and files of Workspaces that live on the same machine,
on SSH targets or on paired Nodes, and runs commands that outlive the browser
and the Core. This directory holds TLA+ models of the parts where order,
failure and concurrency decide whether it is right, the TLC configurations that
check them on small instances, and TLAPS proofs of the main results.

## Inventory

| Part | State | Operations | What is hard | What makes it correct |
|---|---|---|---|---|
| Remote Run manager (`remote_runs.py`) | row in `remote_runs`, spool files, one preparation handle and lock per run | create, upload, prepare, start, poll, reconcile, stop, kill, delete, startup scan, shutdown | stop and kill take no lock; every remote call can fail after it took effect; the Core may die anywhere | the command runs at most once; terminal states are final and true; an end is eventually reported |
| Remote Run on the SSH target (`ssh_backend.py`) | run directory with records, tmux session, launch script, Git bootstrap, `runner.sh` | layout, commit, launch, status read, stop request, kill, delete | scripts run on when the channel breaks; reads are not atomic | reads never report an outcome that a record contradicts |
| Remote Runs on a Node (`node_remote_runs.py`) | directory tree with `work.identity`, handles in the agent, tmux session, runner, log helper | layout, stage, snapshot and metadata streams, start, observe, stop, kill, delete | the agent dies between any two steps; calls are repeated | the same abstract run as over SSH; half-made trees are never served |
| Terminal control (`terminal_control.py`) | clients, controller, grid owner, one resize plan | register, claim, input, grid marks, begin/applied/commit/abort resize, unregister | a plan spans a backend call; its client may leave | ownership ends with the connection; a new grid is bootstrapped once |
| Terminal bridges (`terminals.py`, `ssh_backend.py`, `remote_access.py`, `node_agent.py`) | one task pair per WebSocket, a tmux view per connection, roles of the views | attach, claim, input, resize, grid role, disconnect | awaits and threads between the steps of a frame; cancellation | admitted input finishes before control passes on; one view sizes the window |
| Workspace windows (`terminals.py`, `ssh_backend.py`, `node_agent.py`, `db.py`, `app.py`) | tmux windows with options, rows in `terminals`, claims of launches, one lock per Workspace | ensure, reconcile, create, close, saved command, terminal editor | wrappers mark their windows themselves, later; listings reach the rows late | a form starts its command once; running commands are left alone; ids stay |
| Node link (`node_core.py`, `node_agent.py`, `node_protocol.py`) | pending requests, streams, tombstones, credit | request, stream open/data/close/abort, reconnect | late answers, full queues | one late or lost message never costs the connection |
| File Runs (`file_runs.py`) | `file_runs` rows, one slot per Workspace | start, reconcile, stop, kill, startup | ambiguous dispatch; bridge timeout; the file changes under the start | one active run per Workspace; what is claimed is what runs |
| Files and result collection (`files.py`, `app.py`, `ssh_backend.py`, `node_agent.py`, `run_results.py`) | files, temporaries, an edit lock, an apply lock, plan revisions | save, Save and Run, upload, create, rename, delete, ZIP, review, apply | check and replacement are separate calls; programs of the user write the same files | no save is lost, no file is overwritten unseen, nothing is left half done |
| SSH connections (`ssh_backend.py`) | connection cache, host keys | connect, exec, close | a cached connection dies under a call | not modelled: a call is lost, done, or both |
| Run sources, archives (`run_sources.py`, `archive_safety.py`) | none | scan, validate, stream | string and path checks | not modelled |
| Database (`db.py`) | SQLite | compare-and-set transitions, claims, reconciliation, activity events, pairing | several writers | guarded updates |
| Auth, service, CLI, presentation | cookies, unit files | routes, commands | little concurrency | not modelled |

The browser talks to `app.py`, which calls the managers. The Remote Run manager
drives the target through the SSH backend (or the Node link) and meets its own
threads only in the database row: updates are compare-and-set on the row's
state. The target never calls back on SSH; the Core reads records that scripts
leave. Terminal bridges of all browsers meet in `TerminalControl`, requests on
windows and files in tmux, in the file system and in two locks.

`PROJECT.json` lists every component, the hazards at their lines, the runs, the
mutants and which lines each definition models.

## Modules

```
RunLife <--- RemoteRun (SSH target and Core)      TerminalControl <-- TerminalBridge
   ^-------- NodeRun   (agent and Node)           FileRun   Files   WorkspaceWindows
NodeLink (the connection between Core and Node)
```

`RemoteRun` and `NodeRun` are shown to implement `RunLife`; `TerminalBridge` extends
`TerminalControl` and composes it with the connections that call it. Each `MC`
module gives the budgets, kinds or symmetry that a run explores.

### RunLife

What a machine that executes a Remote Run promises to the Core, whatever carries
the calls: the source becomes visible as a whole, the command starts at most once
and never after the run was refused, records are not taken back, a deleted run
does nothing. `ImplementsRunLife` of `RemoteRun` and of `NodeRun` instantiate it
with the target's files, records and processes.

### RemoteRun

One run. `row` is the database row, `upload`/`spool` the ZIP upload,
`prep`/`cancel` the preparation thread and its handle, `script` the launch
script on the exec channel, `tgt` the run's files, session and runner process,
`rd` the status reads in progress, `obs` the holder of the run's lock
(observer, run page, the poll of the startup scan, deletion), `ctl` a stop or kill
request, `startup` the startup scan, `observer` whether the observer task lives,
`count` what is left of the history's budget of
faults, requests and uploads, and the executions of the command so far. The
budgets that the runs explore are in `MCRemoteRun`.

The startup scan holds the lock in its poll only. It looks for the directory
(`StartupLayout`), reads the row again (`StartupJudge`) and fails it (`StartupFail`)
beside the observer, a stop and the launch script. `mark` is a history variable: the
scan's poll found no session while the start was ambiguous (`seen`), and the mark was
gone when it read the row again (`lost`). An SFTP call that raises
`paramiko.SSHException` (`ReadBreaks`) ends whoever made the read, the observer task or
the scan; `OtherReadBreaks` is the same in the read of another run. For the
preparation, a stop or a kill it amounts to `ReadFails`, and a page only shows an error.

| Code | Model |
|---|---|
| `create`, `schedule`, `_prepare_*`, `_start_with_reconciliation`, `_reconcile_start_exception`, `_record_preparation_failure` | `Create`, `Schedule`, `Prep*` |
| `upload_archive`, the waiting part of `cleanup_expired` | `Upload*` |
| launch script of `start_remote_run`, `start_remote_git_run` | `Script*` |
| Git bootstrap script, `runner.sh` | `Bootstrap*`, `Runner*`, `CommandEnds` |
| `_reconcile_remote_run_connection` | `Read*` |
| `reconcile`, `_observe_active_runs`, `poll`, `_apply_remote_*`, `_reconcile_startup`, `_ensure_workspace_bridge` | `Reconcile`, `Poll`, `Obs*`, `ReadBreaks`, `OtherReadBreaks`, `Startup*`, `Bridge` |
| `request_delete`, `cleanup_expired` | `Delete*` |
| `stop`, `kill` | `Ctl*`, `Stop*`, `Kill*` |
| `shutdown`, process death and restart | `Shutdown`, `Crash` |

A status read is six steps (tmux sample, result records, state, stop request,
second sample, second read), because the code makes them one SFTP call at a
time. Copying a source is one step that succeeds, fails or is cancelled: what
is copied does not matter to any property. `Interrupted` gives C-c both
outcomes, since the command may ignore it. A kill is taken to end the runner
and the command (tmux sends SIGHUP; a command that ignores it is not
modelled). Records damaged on disk, timed spool expiry, `retry_preparation`
and `forget` (which nothing calls) are left out.

### NodeRun

One run inside the agent. `tree` is the directory tree (`leaf` its name: being
created, published, quarantined; `work` how much of the source `work/` holds;
`ident` what `work.identity` says), `sess` the tmux session, `runner` the script in
it, `agent` the operation under way
with the directory handles it keeps in memory, `stream` an upload, `told` what
the Core was answered.

| Code | Model |
|---|---|
| creation of the layout, `_layout_handles`, `_assert_*` | `Create*`, `LayoutOk`, `StagingIntact`, `Marked` |
| the snapshot, its commit, file and metadata streams | `Snapshot*`, `Stream*`, `FileClose`, `*Metadata*`, `Commit*` |
| `start`, `_existing_start`, the Git source, session options, respawn | `Start*`, `GitFiles`, `GitStage`, `GitPending` |
| the Git bootstrap, the runner script | `GitState` to `GitPromote`, `Runner*`, `CommandEnds` |
| `observe`, `_reconcile` | `Observe*` |
| interrupt, `kill`, `delete`, `_remove_owned_tree` | `Interrupt`, `Kill*`, `Delete*` |
| death and restart of the agent, loss of tmux | `AgentDies`, `TmuxDies` |

Every operation holds the run's lock, so one is under way at a time; it is as many
steps as the points at which its death leaves something different behind. The Core
repeats operations freely: the model offers every operation in every state, a deletion
also when nothing was created yet. A deletion may fail before it changed anything or
with any part of the quarantine gone, marked again or not; without its marker every later
deletion is refused. The log helper behind `pipe-pane` is left out: the runner copies its
receipt into the record in one step.

### TerminalControl

The registry of one terminal. Operations are atomic, as the class runs them
under its lock. At most one plan is registered; operations on another plan return
without effect, so the registered plan is the only one kept. `grids` and `boots` are
history variables for the properties.

### TerminalBridge

The browser connections of one terminal on each backend. `conn` is where each
bridge is and the frame it handles, `lock` the input lock that a frame holds,
`job`/`out` the thread (on a Node the agent's task) that works for a connection
and goes on when its bridge is cancelled, `owner`/`gridLock` the browser whose
view sizes the window, `views`, `sizers`, `frozen` what tmux knows. `late` counts the
scripts over SSH that the Core gave up on (`CallFails`) and that still do their
commands (`LatePeer`, `LateOn`, `LateOff`, `LateFreeze`) without any lock; `strays` are
the views that such a script made sizers. A bridge that is cancelled while it
delivers completes what is shielded; on a Node the stream of a plain input is cut
off (`Cut`). Each step of
the registry is an action of `TerminalControl`, and `BridgeImplementsRegistry` carries
the theorems about it to the composition. Left out: output, pane
modes, command history, the browser's own reconnection.

### WorkspaceWindows

The windows of a Workspace (`at` the index of each, `wins` what its process and
its options are), the rows in `terminals`, the claims of launches, and the requests
that work on both. A request lists the windows, brings the list into the rows,
then creates, closes, or looks for the window of its slot or file. The lock
covers the listing and the rows on this machine; over SSH and from a Node a
listing may reach the rows after a newer one.

| Code | Model |
|---|---|
| `ensure_workspace` of the three backends | `LocalList`, `SshList`, `NodeList`, `Sync` |
| `reconcile_terminals` | `RowFor`, `Assigned`, `Reconcile` |
| `create_terminal`, `close_terminal` | `Make`, `Insert`, `Check`, `Kill`, `Drop`, `Misses` |
| `claim_workspace_command` | `Claim` |
| `run_workspace_command`, `open_terminal_editor` | `Look*`, `Detach`, `OpenWrapper`, `Respawn`, `Poll`, `Timeout`, `Clean`, `CleanFails` |
| `WORKSPACE_COMMAND_WRAPPER`, `TERMINAL_EDITOR_WRAPPER` | `Wrapper*`, `CommandEnds`, `EditorMarks`, `EditorExits` |

There is one slot and one file. A window whose option `remain-on-exit` is on keeps a
dead editor; the command wrapper turns the option off, so the branches for a dead
command window are left out, and so are renaming, managed windows (see FileRun),
activity counters and the user who leaves a shell. `astray` notes that a launch
was given up that may still go on: a script over SSH after its channel broke, a
restarted window that missed the two seconds, a new window that did so and whose
clean-up kill failed unnoticed, a Core that died. The code has no remedy for what
such a launch does later, and `OneWindowEach` and `RunningUndisturbed` set these
histories apart; `LaunchOnce` holds in them too.

### Files

Two requests on two names of one directory, on each backend. `disk` is what each
name holds (who wrote it, modification time, inode), `temp` the temporary file of
each request, `held` who is in a piece of code that excludes others: the event
loop, the local edit lock, the Node's receive loop, the apply lock of a collection.
Kinds of request: editor save, Save and Run, form and stream upload, create,
rename, delete, collection of a result, the archive of a directory, its ZIP. A form
has one file or two: it checks both names first and stores them in turn, so it may
stop at the second with the first stored, and its answer does not say so
(`AnswerIsTrue` claims only that the file a refusal speaks of was not written). A
change by another program, a lost connection or a death of the Core may
come at any step. A rename takes no lock of the editors, so it may bring another save
under a name between the check and the replacement of an editor: `MovedTo` sets
these histories apart. Left out: reading, listing and searching, path confinement, and
permissions (an operation fails or does not).

### NodeLink

One control connection, both ends. `toAgent` and `toCore` are the two FIFO
directions of the WebSocket. A call is one `request` or `open_stream` of the
Core, of one of four kinds: a plain request, a download (frames pushed without
flow control), a Source (frames against credit) or an upload.

| Code | Model |
|---|---|
| `NodeConnection.request`, `open_stream`, cancellation | `Call`, `Answered`, `Cancel` |
| `NodeStream.send`, `finish`, `close`, `abort`, `receive` | `SendData`, `Finish`, `Finished`, `GiveUp`, `Receive` |
| `_WorkspaceSourceReceiveWindow` | `Grant`, `Receive` |
| `NodeConnection.dispatch` | `CoreResponse`, `CoreData`, `CoreEnd` |
| `NodeConnection.close`, end of `handle_socket` | `CoreCloses`, `CoreDisconnect`, `CoreLoses` |
| `NodeAgent._dispatch` | `AgentRequest`, `AgentUnknown`, `AgentData`, `AgentCredit`, `AgentClose`, `AgentAbort` |
| `NodeAgent._handle_request` | `Admit`, `Respond`, `Refuse` |
| the `start` tasks of streams, `_WorkspaceSourceFlowControl` | `Claim`, `Push`, `PushEnds`, `PushCloses` |
| end of `run_once` | `AgentCloses`, `AgentDisconnect`, `AgentLoses` |

The operation behind a request is one step that succeeds or fails. Uploads
that the caller gives up, and `finish` timing out, are the same step `GiveUp`.
Heartbeats, stream controls other than credit and the closing of the socket
after a failed `terminal.resize` are left out; the last looks like
`AgentLoses` to both ends. `cause` records what closed the connection first.

### FileRun

The File Runs of one Workspace, on this machine, on a Node or over SSH
(`backend`). `row` is the state of every row in `file_runs`, `th` the thread that
holds the Workspace's lock, `script` the launch of every run, `wins` the tmux
windows, `wrapper` the wrapper process of every run, `meta` the records it and
the Core leave, `src` the content of the file: now, claimed, sealed, executed, and
`observer` whether the task that looks at active runs has not ended.

| Code | Model |
|---|---|
| `claim_file_run`, `_start_locked` | `Start`, `Confirm`, `StartRefused`, `*Dispatch`, `*Started`, `Unacknowledged`, `StartError` |
| `start_file_run` of the three backends, rollback | `NodeSeals`, `TakeSlot`, `Role`, `Identity`, `Respawn`, `*Rollback` |
| `FILE_RUN_WRAPPER_SCRIPT` | `Wrapper*`, `ProgramEnds`, `TypedInterrupt` |
| `inspect_file_run`, `file_run_completion_grace_active`, `file_run_dead_pane_fallback` | `Read*`, `GraceExpires`, `LookedAt` |
| `_apply_observation`, `reconcile`, the observer | `Observed`, `Apply`, `ReadFails`, `Reconcile`, `Observe` |
| errors that `reconcile`, `start` or the observer do not catch | `ReadRaises`, `ReadBreaks`, `StartBreaks`, `ObserverDies` |
| `stop`, `kill`, `interrupt_file_run`, `kill_file_run` | `Stop`, `Kill`, `Control*`, `ForceStopped` |
| process death and `startup` | `Crash` |

What tells the backends apart: a local launch dies with the Core; a launch on a
Node holds the Node's lock, so that every later request of the Core waits for it
(`NodeFree`); a launch over SSH does neither. The key of a known run leads to
`Reconcile`. A look may last as long as it likes and clocks may differ, so the grace
period of two seconds ends at any time (`GraceExpires`). A call of a look fails in
three ways: with an error that `reconcile` knows (`ReadFails`: the run is offline),
with an `OSError` or `ValueError` that only the observer and, after a launch, the start
know (`ReadRaises`), and with one that nobody knows, a `paramiko.SSHException` over SSH
or a `CalledProcessError` here (`ReadBreaks`), which ends the observer; as the observer
is one task for all Workspaces, it may also end through another one (`ObserverDies`).
`hist` is history: the runs that a local start closed because its own look failed
(`blind`), and those whose grace period ended during the last look at them (`hasty`).
A request that is still queued on the Node when its
caller gives up is taken as cancelled. Left out: `stop_requested_at`, activity
events, a plain shell window left behind by an SSH start that broke off before
its launch script, and an SSH control script that runs on after its channel
broke. `told` notes that the Core learnt how a launch ended: `Told` sets the
behaviours apart in which a launch over SSH outlives its lost acknowledgement.

### RemoteRunProofs, NodeRunProofs, TerminalControlProofs, TerminalBridgeProofs, WorkspaceWindowsProofs, FilesProofs, NodeLinkProofs, FileRunProofs

The theorems about the modules they are named after, see below.

## Runs

| Run | Bounds | What it shows |
|---|---|---|
| `remote_run_faults` | workspace and Git runs with 1 crash and 1 reboot; a workspace run with 1 crash and 1 stop, or 1 crash and 1 read that breaks; a Git run with 1 kill; an archive run with 2 uploads, or 1 upload and 1 stop | the target implements `RunLife`; one execution; what a row says of an end, a kill or a deletion is true; terminal rows stay |
| `remote_run_live` | workspace run, 1 stop or 1 read that breaks, fair specification | an end that left a trace is reported; a published stop resolves; both as long as the observer lives |
| `remote_run_observed` | archive run | violation: see finding 1 |
| `node_run` | uploaded and cloned sources of 2 entries, 1 death of the agent, 1 loss of tmux, fair specification | the Node implements `RunLife`; half-made trees are never served; answers about ends, kills and deletions stay true; a started run is reported |
| `node_link` | 2 calls of any kind, one caller may give up, 3 frames, window 2, queue of 3, fair specification | late answers are ignored; queues stay bounded; no frame precedes the answer that opens its stream; credit is agreed; a Source that ends is complete; every request and stream resolves |
| `node_link_cancelled` | 2 downloads | violation: see finding 2 |
| `node_link_download` | 2 downloads of 2 frames, queue of 2 | violation: see finding 3 |
| `file_run` | 2 runs: 1 lost or failing call (local, SSH), 1 crash (local) or 1 loss of tmux (Node); 1 run with 2 faults: local with 1 kill and 1 crash or 1 failing call; Node with 1 lost call and 1 crash, 1 loss of tmux, 1 interrupt or 1 edit; SSH with 1 lost or failing call and 1 crash or 1 kill; fair specification | one active run; a run reported ended does not run and will not; outcomes are the real ones; a Node runs what was claimed; every end is reported as long as the observer lives |
| `files` | 2 requests of any kind (a form with 1 or 2 files), 2 names, 3 backends, 1 trouble, fair specification | no lost save, no unseen overwrite, nothing half done, true answers; every request ends |
| `terminal_bridge` | 2 browsers, 2 sizes, 3 frames, 1 fault, 3 backends | ownership, one bootstrap, revisions; admitted input finishes; locks and plans do not outlive their frame; one view sizes the window, but for strays |
| `workspace_windows` | 3 backends: 2 requests of any kind with 1 crash, 1 lost call or 1 failing command; 3 launches of 2 commands without faults | a form starts its command once; one window for the slot and the file; a running command is left alone; no path keeps the lock |
| `workspace_rows` | 2 requests on this machine, no faults | violation: see finding 4 |

One crash and one reboot are enough for the races here: each is about what a
single fault does to a start, a read or a request that is already under way,
and a second fault meets the same states again. The proofs carry the main
safety results to any number. `Pages` limits who opens a run page, so that
finding 1 does not hide other results. Two connections, two requests or two calls are
what it takes for one to disturb another; three launches are what it takes for one to
meet a window that was detached and one that was restarted. Where a property names an
exception (a form upload on this machine, an astray launch), the
exception is what the code does, and the hazard in `PROJECT.json` says so.

In NodeLink the code's window of 8 and queue of 32 become 2 and 3: what matters is
that a batch is smaller than the Source, that the last batch is not full and that
the queue is larger than the window. There are never more calls than
tombstones (`BoundsAssumption`; 256 in the code), so that a tombstone is never
forgotten while its frames are under way; two calls suffice for one to
disturb the other.

Fairness (`node_link`): both receive loops, the request and stream tasks
and callers that do not give up run on, and each end notices that the other
one is gone (WebSocket pings every 20 seconds). Nothing makes a caller give up.

Fairness (`remote_run_live`): the Core's threads, the launch script and the
runner take their next step when they can (they are operating-system threads
and processes); the command itself may run forever. `_observe_active_runs`
returns to every active run as long as its task has not ended, hence weak fairness of
`Reconcile`, which needs `observer`, and the exception in `EndIsReported` and
`StopResolves`: an error that the observer does not catch ends it until the Core
restarts, and nothing makes the Core restart. The link
eventually stays up under the observer's reads: without that no retry could
ever learn anything. Nothing is assumed of the pages and of the startup scan.

Fairness (`file_run`): the thread that holds the lock, the
launch and the wrapper run on, time passes (`GraceExpires`), and
`_observe_active_runs` returns to active runs (`Observe`) as long as its task has not
ended, hence the exception in `EndIsObserved`: an error that the observer does not
catch ends it until the Core restarts, and nothing makes the Core restart. Programs may
run forever, and lost calls are bounded: the machine can be reached again at some time.

Two File Runs are enough to make a run meet what its predecessor left in the slot:
a run only ever competes with the run before it, since a claim needs all others
to be over. Two faults of different kinds meet in one run only (`Room` bounds the runs
of a history); the theorems have no such bound.

Fairness (`node_run`): the runner runs on, the operation that holds the
lock goes on, and the Core observes again and again; agent and tmux die a bounded
number of times. Fairness (`files`): every request's thread, task or stream takes its
next step; the browser's upload ends or breaks off. `workspace_rows` states weak
fairness of the requests' steps, its property is one of safety.

`CHECK_DEADLOCK FALSE` is set because runs, requests and connections really end.

## Findings

1. `remote_run_observed`: a poll that read phase `waiting_upload` writes it back
   after the upload finished, and the observer no longer lists the run.
2. `node_link_cancelled`: a caller cancelled while it opens a stream leaves a
   tombstone for the request and none for the stream; the first frame of the
   stream closes the connection under every other call.
3. `node_link_download`: the end of a stream that meets a full queue replaces the
   oldest unread frame, and the reader of a download sees a normal end.
4. `workspace_rows`: a new window that tmux lists before older ones takes the row
   of a window that still lives, and the ids of terminals move along.

### Counterexamples beside the runs

Seven properties hold with an exception that the code makes necessary. Each has a
configuration that checks the property without its exception; TLC answers each with a
counterexample.

| Configuration | Module, property | The exception | What happens |
|---|---|---|---|
| `FileRunLook.cfg` | MCFileRun, `ClosedIsQuiet` | `hist.blind` in `EndedIsQuiet` | a start on this machine whose own look at the run fails, after the launch succeeded, closes the row as failed while the program runs (`file_runs.py:422`, `433`) |
| `FileRunGrace.cfg` | MCFileRun, `LostHasNoRecord` | `hist.hasty` in `OutcomeTrue` | a run that ended during a look longer than the grace period, or on a machine with another clock, is stored as lost although its completion record is there (`terminals.py:720`) |
| `FileRunObserver.cfg` | MCFileRun, `EndIsAlwaysObserved` | `observer` in `EndIsObserved` | one `SSHException` or `CalledProcessError` in one look ends the task that observes all File Runs (`file_runs.py:681`) |
| `RemoteRunObserver.cfg` | MCRemoteRun, `RunsAreObserved` | `observer` in `RunsResolve` | one `SSHException` in one read ends the task that observes all Remote Runs (`remote_runs.py:1688`) |
| `RemoteRunStartup.cfg` | MCRemoteRun, `StartupVerdictIsTrue` | `mark` in `RowIsTrue` | the startup scan polls a clone whose launch script is still on its way and gives the lock back; the observer takes the ambiguity off the row because the script has announced the clone; the scan reads the row again and fails the run, whose command then runs (`remote_runs.py:1775`) |
| `NodeRunLeftover.cfg` | MCNodeRun, `DeletionLeavesNothing` | unfinished directories in `ReportsAreFinal` | on a Node a deletion does not look at a directory whose creation was cut off, and answers that there was nothing (`node_remote_runs.py:1965`; over SSH it does look, `ssh_backend.py:2105`) |
| `TerminalBridgeLate.cfg` | MCTerminalBridge, `OneViewSizes` | `strays` in `GridHasOneOwner` | a promotion over SSH that takes longer than 20 seconds is reported as failed and its locks are given back, but its script runs on and takes the role after another view was promoted: two views size the window (`ssh_backend.py:5989`) |

### Exceptions without a configuration

Four more cases are kept as exceptions of the properties, with their
hazards: a status read that decides by a stop request uses the first tmux sample
although the launcher may have started the command since (`RowIsTrue` does not
speak of stopped rows; `ssh_backend.py:2618`), and an SSH File Run whose
acknowledgement is lost is declared failed by an observation that overtakes its
launch script (`Told`; `file_runs.py:441`), and a File Run that ended, with its
records, is reported lost, or failed while its start is unacknowledged, when tmux is
lost between the look at the records and the look at the windows (`Shows`;
`terminals.py:1409`), and a save is lost when a rename moves it
under a name that another editor has checked and not yet replaced (`MovedTo`;
`app.py:662`). The last two were found by attempts to prove `OutcomeTrue` and
`NoLostSave` without the exception: the first takes a lost call and a loss of tmux in
one start, the second three requests and a change from outside.

## Cases in the models that no property judges

The models contain them, as the code leaves them, and the repository promises
nothing about them:

- a preparation that never reached the target, or a target that reboots between
  `respawn-pane` and `state.json`: the row stays preparing until the user acts
  (`remote_runs.py:1764`, `ssh_backend.py:207`);
- an agent that dies between `new-session` and the options of the session: every
  later start of the run is refused (`node_remote_runs.py:2922`);
- an upload chunk that cannot be written, or an abort that crosses the end of its
  stream, costs the whole Node connection (`node_agent.py:4647`, `4632`);
- two saves over SSH at the same time: the later one wins (`ssh_backend.py:4793`);
- a Core that dies between marking a File Run's window and `respawn-pane`: an idle
  shell stands in the slot (`terminals.py:1356`);
- a listing that reaches the rows late, a row inserted by another request first, a
  row deleted by an id that moved: the terminal gets another id, or the request an
  error (`remote_access.py:1522`, `terminals.py:1541`, `1828`);
- two closes on a Node that both see two windows end the session
  (`node_agent.py:2155`); the next page creates it anew.

## Proofs

`RemoteRunProofs`
- `TypeCorrect`: by actions.
- `TerminalStaysFinal`: every update of the row is one of a few compare-and-set
  forms (`Transition`, `Close`, `PreparationFailed`, `ApplyStatus`); lemmas show
  that each keeps a terminal state.
- `StartsAccounted`, `CommandRunsAtMostOnce`: `CommandRunsOnce` is not
  inductive: nothing in it says that a second launch is not on its way.
  `StartsOnce` counts the decided starts wherever they are (preparation past its
  mark, launch script, runner before the command, executed command). Most
  actions add none (`NoNewStart`); `PrepMark` is the only one that decides a
  start, and its guard excludes an earlier one: a workspace or Git run is
  prepared once, and an archive run that is prepared again fails in
  `PrepCommit`, because `work/` exists.
- `RunInvariant`, `RowsTellTheTruth`: `RowIsTrue` speaks of rows that are closed, and
  must hold against everything that still runs when a row is closed. The row is
  closed by readers of the target, by requests and by failed preparations; `RunInv` says of
  each what it has established by then. `OneStart` and `OneUpload` say that the
  start is in one place at a time (preparation, launch script, runner), `InDirectory`,
  `InPane`, `Recorded` and `WholeFirst` what the records and the session say of the
  runner, `StopAsked` that every trace of a stop has its request. `ReadsTrue` says that what
  a status read has seen so far is still so, or was final when it was seen, while six
  steps of it are interleaved with the runner; `Decided` says that a start which may
  still happen is marked ambiguous in the row, and that whoever closes the run regardless
  (a kill, a startup scan, a failure before the launch) knows that it cannot happen. The
  scan forms its verdict without the lock: `StartupDoomed` says that it is right unless its
  poll found no session of an ambiguous start, and `mark` remembers when that start lost
  its mark before the verdict (`RemoteRunStartup.cfg`). Even then the launch script has done its part,
  which is what a later deletion of that row needs.
  Then a closed row has a reason that stays true (`Closed`): either no start is pending
  and no runner may reach the command (`Over`), or a stop request or the missing directory
  will turn back whatever still starts (`Refused`), or the row lost its mark under
  the scan.
- `TargetImplementsRunLife`: under that invariant each step of the launch script, the
  bootstrap, the runner, a request or a fault is a step of `RunLife` on the target's
  files, records and processes, or leaves them alone.
- The last three are proved for `Pages # "all"`. With `"all"` they are not true of the
  code: finding 1 lets a slow poll put a run that has started back to `waiting_upload`,
  the clean-up then takes it for an upload that never came and deletes the row while the
  command goes on. `"started"` excludes only pages opened of a run that waits for
  its upload; observers, startup scans, deletions and all other pages remain.
  The first four theorems hold for every `Pages`.

`NodeRunProofs`
- One inductive invariant ties the answers of the agent to the tree, the session, the
  runner and the records: what `told` says of an end, a kill or a deletion excludes
  every process that could contradict it; an operation under way has checked what it
  is about to use; a tree whose identity is marked as complete is complete.
  A deletion may be asked for in any state: that no process is left when it is answered
  follows from `Sessioned` (a live runner has a session that carries the run's id, and no
  deletion was asked for). `TypeCorrect`, `ReportsStayTrue` and `CutOffCopyIsNotServed`
  are its consequences.
- `NodeImplementsRunLife`: under that invariant every step of the agent, the runner
  or a fault is a step of `RunLife` or leaves its variables alone.

`TerminalControlProofs`
- `TypeCorrect`, `OwnersStayConnected`, `ControlIsRevised`: by actions.
- `BootstrapAtMostOnce`: the inductive part is `BootstrapAccounting`: a pending
  grid, or an unapplied bootstrap plan, stands for one bootstrap still to come.

`TerminalBridgeProofs`
- `BridgeImplementsRegistry`: every step of a bridge, of its thread and of the agent is a
  step of `TerminalControl` or leaves its variables alone. A step of the registry may
  only be taken by whom its guard allows, so this needs `BridgeInv`: `Placed` (which
  steps a backend has), `Working` (a thread or task works for a bridge that waits for it,
  or has ended), `Locked` and `GridLocked` (a frame is handled under the input lock, a
  promotion under the grid lock), `Planned` and `PlanOwns` (the registered plan is that
  of the frame in hand, from `begin_resize` to its commit or abort). `BridgesKeepRegistry`
  follows by the theorems of `TerminalControlProofs`.
- `BridgeTypeCorrect`, `AdmittedInputFinishes`: from `BridgeInv`.
- `OneOwnerOfGrid`: that at most one view other than strays sizes the window
  (`OneSizer`) holds with any faults, since every other view loses its influence before
  one gets it, and a script that runs on only adds strays (`LateSteps`). Which view it is
  needs `Sizing`, and holds while nothing has failed, for then no script was given up
  (`LateBounded`, `FaultFree`):
  whoever sizes the window has the role on record (`OnRecord`), a plan that was given the
  grid shares it only with bridges that leave (`TakenAlone`), a plan that was
  refused has given its role back (`RefusedOut`), and a view that stays has a plan in hand
  or the committed size (`Committed`). `FitsPlan` says for each client which jobs may be
  under way at which step of the frame. After a fault (a broken call to tmux, a
  lost answer of the agent) the record and tmux may differ until the next resize.

`WorkspaceWindowsProofs`
- `LaunchedOnce`, `LockIsOwned`, `OneOfEach`, `RunsUndisturbed` and `TypeCorrect` follow
  from one invariant. `LaunchOnce` alone does not exclude that the claim of a launch is
  held twice; `Launches` counts every launch where it is (a request that has
  claimed it, a window on its way, a command started). `LockHeld` says that whoever is
  between the look at the windows and the end of its launch holds the lock, and `Guarded`
  what it has seen there: no window in the slot, or one that is idle. `Windowed`,
  `Referred` and `Rowed` keep windows, indexes and rows consistent: a row is for one
  window, ids are not shared, whatever listing reaches `reconcile_terminals`.
- That a free number exists for a new row, and that a least one does, follows from
  finiteness of the requests by well-founded induction on numbers (`WFMin`,
  `NatLessThanWellFounded`).

`FilesProofs`
- The invariant says of each request what its step stands for: `Routed` (which kinds get
  there), `Answered`, `Staged` (its temporary file), `Locked` (what it holds), `Seen` and
  `Vacant`. `NoLostSave` alone is not inductive: the proof needs that the editor's lock is
  held from the first check to the replacement (`Locked`) and that the file is, from the
  second check on, no save but the one that was read (`Seen`). `Answered` ties what was
  put and answered to the file a form is at. In the same
  way `NoClobber` needs what the name may hold when the event loop is left (`Vacant`).
- A step of one request is first shown to spare the locks of the others and to put
  nothing that they exclude (`InvariantKept`, `Harmless`); a death of the Core or a lost
  connection cuts a request off or leaves it alone (`BreakKept`).

`NodeLinkProofs`
- `CancelIsHarmless`: a call has at most one request and one answer under way, and its
  tombstone is there while they are. No tombstone is evicted: there are as many at most as
  calls that are dead, and not more calls than `MaxTombs` (a pigeonhole argument on
  `deadCalls`).
- `SourceIsComplete`: the frames of a stream that are under way follow each other, after
  those delivered and up to those sent, and the end comes after the last of them.
- `CreditIsAgreed`: sent, credit and grants under way never exceed what the receiver has
  granted, which is a window beyond what it has taken. So its queue holds a window
  and the end at most, and the end of a Source never displaces a frame.

`FileRunProofs`
- One inductive invariant of two parts. `Base` holds in every history: the holder of the
  lock has the one active run (`Held`), a wrapper at its step can have left certain
  records and no others (`Written`), a record that an inspection did not find can only
  have appeared with a pane that is not yet dead, or died within the grace period, unless
  that period ended during this very look (`Unread`), and a Node runs what it sealed (`Sealed`). `Quiet` holds while no launch
  over SSH is astray (`Told`): there is one slot, a launch has it to itself
  (`Placed`), a wrapper runs in the window bound to its run (`Bound`), and what an
  inspection has read so far is still so or was final when it was read (`Looked`).
- `EndedStaysQuiet` and `OutcomesAreTrue`: neither property is inductive, because a
  report is made from five reads of a machine that goes on meanwhile. `Outcome(r, st)`
  says that `st` is true of the run for good; the proof carries it from the reads to the
  report, from the report to the row, and through every later step of the wrapper, of
  the next run, and of a loss of tmux (`OutcomeKept`: a run whose wrapper can write no
  record any more stays as it is, `Calmer`). The runs in `hist` are the exceptions that
  `FileRunLook.cfg` and `FileRunGrace.cfg` show to be real.
- `OneActiveAlways`: a claim finds no active row, and every other write to a row is a
  compare-and-set by the holder of the lock (`RowMoves`).
- `RunsTheClaim`: from `Sealed`.

Assumptions: budgets and bounds are natural numbers, kinds and backends come from
the declared sets, the "no value" constants are not values and no client has the name of
one, requests and calls are finite sets, and tombstones suffice for the calls
(`BoundsAssumption`). The theorems named above have the hypothesis `Pages # "all"`. None limits the number of clients, runs, files, frames, crashes,
reboots or requests.

Only model-checked: the liveness properties (`RunsResolve` and those of the fair
specifications), which are out of the prover's reach. Every other
property of a passing run is stated by a theorem. `RunInv` and `GridInv` were checked on the
runs' constants before they were proved; they are not run again, since the
properties that follow from them are.

## Not modelled

- SSH connection cache and host keys: every call of the models may be lost before or
  after it took effect, which is all that a caller sees of the cache.
- The registry of Node connections: reconnection and revocation.
- Path confinement, ZIP checks, manifests, payload normalisation: sequential checks of
  strings and trees without state.
- Activity events, notifications, usage samples, pairing rows, migrations: sequential
  database access.
- Service installation, authentication, configuration, presentation.

## Plan

1. **NodeRegistry**: the connections of one Node: reconnection while calls are
   pending, revocation; composed with NodeLink.
2. Path normalisation and ZIP checks as operators against reference definitions.
