------------------------------ MODULE NodeRun ------------------------------
(***************************************************************************)
(* One Remote Run on a Node: NodeRemoteRunRuntime inside the agent, the    *)
(* run's directory tree with its work.identity record, the tmux session    *)
(* and the runner script in it.                                            *)
(*                                                                         *)
(* The runtime serves one operation of a run at a time (lock_for), but the *)
(* runner is a process of its own, uploads are fed outside the lock, and   *)
(* the agent may die between any two steps of an operation: its directory  *)
(* handles are lost, the tree and the session stay as they are.            *)
(***************************************************************************)
EXTENDS Naturals

CONSTANTS
  Kinds,      \* how the source arrives: "snapshot" (uploaded) or "git" (cloned)
  Entries,    \* entries of the source tree
  Crashes,    \* deaths of the agent
  Reboots     \* losses of the tmux server

ASSUME KindsAssumption == Kinds \subseteq {"snapshot", "git"}
ASSUME EntriesAssumption == Entries \in Nat \ {0}
ASSUME FaultsAssumption == Crashes \in Nat /\ Reboots \in Nat

VARIABLES
  kind,     \* source kind of the run
  tree,     \* the run's directory: where it is and what it holds
  sess,     \* the run's tmux session
  runner,   \* program counter of the process in the run pane
  agent,    \* the runtime: the operation under way and its directory handles
  stream,   \* an upload stream of a source file, or of a metadata file
  told,     \* what the Core was told: answers of operations that succeeded
  asked,    \* the Core asked for the deletion
  left,     \* faults that may still happen
  ghost     \* history: executions of the command

vars == <<kind, tree, sess, runner, agent, stream, told, asked, left, ghost>>

NoDir == Entries + 1    \* work.tmp does not exist
Sizes == 0..Entries

(* fresh: new-session only   owned: options set, placeholder process        *)
(* live: runner in the pane  dead: pane kept after exit   bare: only a shell *)
Sessions == {"none", "fresh", "owned", "live", "dead", "bare"}
RunnerSteps == {"none", "git_state", "git_check", "git_clone", "git_stop",
                "git_promote", "check", "pipe", "launch", "command", "drain",
                "complete", "exit", "gone"}
OpSteps == {"idle", "c_make", "c_marker", "c_publish", "b_make", "copy", "settle", "s_out",
            "s_new", "s_own", "s_respawn", "g_files", "g_stage", "g_pending", "k_kill",
            "o_results", "o_state", "o_again", "d_move", "d_empty", "d_rmdir"}
Leaves == {"none", "creating", "run", "quarantine"}

TreeType ==
  [leaf: Leaves, marker: BOOLEAN,
   ident: {"none", "stable", "snapshot-pending", "git-pending"},
   work: Sizes, promoted: BOOLEAN, staging: 0..NoDir,
   manifest: BOOLEAN, out: BOOLEAN, git: BOOLEAN, rev: BOOLEAN, stop: BOOLEAN,
   state: {"none", "cloning", "running"}, prep: {"none", "failed", "stopped"},
   compl: {"none", "finished", "stopped"}]
AgentType == [pc: OpSteps, fd: BOOLEAN, sfd: BOOLEAN, invalid: BOOLEAN, live: BOOLEAN]
Answers == {"created", "staged", "committed", "started", "ended", "killed", "deleted"}

-----------------------------------------------------------------------------
(* Initial state and helpers *)

NoTree == [leaf |-> "none", marker |-> FALSE, ident |-> "none", work |-> 0,
           promoted |-> FALSE, staging |-> NoDir, manifest |-> FALSE, out |-> FALSE,
           git |-> FALSE, rev |-> FALSE, stop |-> FALSE, state |-> "none",
           prep |-> "none", compl |-> "none"]
IdleAgent == [pc |-> "idle", fd |-> FALSE, sfd |-> FALSE, invalid |-> FALSE,
              live |-> FALSE]

Init ==
  /\ kind \in Kinds
  /\ tree = NoTree
  /\ sess = "none" /\ runner = "none"
  /\ agent = IdleAgent
  /\ stream = "none"
  /\ told = {} /\ asked = FALSE
  /\ left = [crashes |-> Crashes, reboots |-> Reboots]
  /\ ghost = [starts |-> 0]

\* _assert_layout: a staging directory the runtime holds is still work.tmp, or
\* became work.
StagingIntact ==
  agent.sfd => tree.staging # NoDir \/ (tree.ident = "git-pending" /\ tree.promoted)

\* _assert_marked_tree: the tree carries the run's id.
Marked == tree.leaf # "none" /\ tree.marker

\* Mutant: a snapshot that was being copied is taken for committed.
LayoutOkPending ==
  /\ ~agent.invalid
  /\ tree.leaf = "run" /\ Marked /\ StagingIntact
  /\ tree.ident = "git-pending" => agent.sfd \/ (tree.promoted /\ tree.rev)

(* _layout_handles: the tree is the one the runtime knows   *)
(* and work/ is the directory work.identity names. A pending change needs   *)
(* the staging handle that only the process which began it has, except that *)
(* a clone may have been promoted by the run itself.                        *)
LayoutOk ==
  /\ ~agent.invalid
  /\ tree.leaf = "run" /\ Marked /\ StagingIntact
  /\ tree.ident = "snapshot-pending" => agent.sfd
  /\ tree.ident = "git-pending" => agent.sfd \/ (tree.promoted /\ tree.rev)

\* FileNotFoundError: no directory, and the runtime never had a handle on one.
LayoutMissing == ~agent.invalid /\ tree.leaf # "run" /\ ~agent.fd

\* Checking the layout opens the handles; a promoted clone becomes stable.
Promotes == tree.ident = "git-pending" /\ tree.promoted
SeenTree == IF Promotes THEN [tree EXCEPT !.ident = "stable"] ELSE tree
SeenAgent == [agent EXCEPT !.fd = TRUE, !.sfd = @ /\ ~Promotes]

\* Records that only a started or stopped run has.
Lifecycle(t) == t.stop \/ t.state # "none" \/ t.prep # "none" \/ t.compl # "none"
\* _assert_not_started
NotStarted == ~Lifecycle(tree) /\ sess = "none"

PaneLive == sess \in {"fresh", "owned", "live"}
SessionOwned == sess \in {"owned", "live", "dead", "bare"}
RunnerLive == runner \notin {"none", "gone"}
\* kill-session: the runner dies with its session.
KillSession == /\ sess' = "none"
               /\ runner' = IF RunnerLive THEN "gone" ELSE runner
\* _kill_session touches only a session that carries the run's id.
KillOwnedSession == IF SessionOwned THEN KillSession ELSE UNCHANGED <<sess, runner>>

\* _forget_layout_handles
Forget(a) == [a EXCEPT !.fd = FALSE, !.sfd = FALSE]

\* An operation returns; the Core learns what in answer.
Return(a, answer) == agent' = [a EXCEPT !.pc = "idle"] /\ told' = told \cup answer

-----------------------------------------------------------------------------
(* create *)

\* A leftover of a deletion is removed first, a published run is returned as
\* it is, a leftover of a creation is removed.
CreateBegin ==
  /\ agent.pc = "idle" /\ ~asked /\ ~agent.invalid
  /\ CASE tree.leaf = "run" /\ LayoutOk ->
            tree' = SeenTree /\ Return(SeenAgent, {"created"})
       [] tree.leaf = "run" /\ ~LayoutOk -> Return(agent, {}) /\ UNCHANGED tree
       [] tree.leaf = "quarantine" /\ ~Marked -> Return(agent, {}) /\ UNCHANGED tree
       [] tree.leaf \in {"none", "creating"} \/ (tree.leaf = "quarantine" /\ Marked) ->
            /\ tree' = NoTree
            /\ agent' = [agent EXCEPT !.pc = "c_make"]
            /\ UNCHANGED told
  /\ UNCHANGED <<kind, sess, runner, stream, asked, left, ghost>>

CreateMake ==
  /\ agent.pc = "c_make"
  /\ tree' = [tree EXCEPT !.leaf = "creating"]
  /\ agent' = [agent EXCEPT !.pc = "c_marker"]
  /\ UNCHANGED <<kind, sess, runner, stream, told, asked, left, ghost>>

CreateMarker ==
  /\ agent.pc = "c_marker"
  /\ tree' = [tree EXCEPT !.marker = TRUE]
  /\ agent' = [agent EXCEPT !.pc = "c_publish"]
  /\ UNCHANGED <<kind, sess, runner, stream, told, asked, left, ghost>>

\* The remaining files, work.identity, and the rename that publishes the tree.
CreatePublish ==
  /\ agent.pc = "c_publish"
  /\ tree' = [tree EXCEPT !.leaf = "run", !.ident = "stable"]
  /\ Return([agent EXCEPT !.fd = TRUE], {"created"})
  /\ UNCHANGED <<kind, sess, runner, stream, asked, left, ghost>>

\* An OSError: the run id is not used again by this process.
CreateFails ==
  /\ agent.pc \in {"c_make", "c_marker", "c_publish"}
  /\ tree' = NoTree
  /\ Return(Forget([agent EXCEPT !.invalid = TRUE]), {})
  /\ UNCHANGED <<kind, sess, runner, stream, asked, left, ghost>>

-----------------------------------------------------------------------------
(* The snapshot: begin, entries, commit; metadata *)

\* The lock is free and the Core knows of the run.
Serves == agent.pc = "idle" /\ "created" \in told

\* An operation that prepares the source: what it needs before it changes
\* anything.
Prepares == Serves /\ LayoutOk /\ NotStarted

\* snapshot_begin removes the staging directory of an earlier attempt.
SnapshotBegin ==
  /\ kind = "snapshot" /\ Prepares
  /\ tree' = [SeenTree EXCEPT !.staging = NoDir]
  /\ agent' = [SeenAgent EXCEPT !.pc = "b_make", !.sfd = FALSE]
  /\ stream' = IF stream = "file" THEN "orphan" ELSE stream
  /\ told' = told \ {"staged"}
  /\ UNCHANGED <<kind, sess, runner, asked, left, ghost>>

\* The new staging directory is not the one a pending commit names.
SnapshotMake ==
  /\ agent.pc = "b_make"
  /\ tree' = [tree EXCEPT !.staging = 0]
  /\ LET foreign == tree.ident = "snapshot-pending"
     IN Return([agent EXCEPT !.sfd = ~foreign, !.invalid = foreign], {})
  /\ UNCHANGED <<kind, sess, runner, stream, asked, left, ghost>>

\* snapshot_directory, snapshot_symlink: one entry.
SnapshotEntry ==
  /\ kind = "snapshot" /\ Prepares
  /\ tree.staging < Entries /\ stream = "none"
  /\ tree' = [SeenTree EXCEPT !.staging = @ + 1]
  /\ Return(SeenAgent, IF tree.staging + 1 = Entries THEN {"staged"} ELSE {})
  /\ UNCHANGED <<kind, sess, runner, stream, asked, left, ghost>>

\* snapshot_file_open, metadata_open: a temporary file beside its target.
StreamOpen(what) ==
  /\ kind = "snapshot" /\ Prepares /\ stream = "none"
  /\ what = "file" => tree.staging < Entries
  /\ tree' = SeenTree
  /\ agent' = SeenAgent
  /\ stream' = what
  /\ UNCHANGED <<kind, sess, runner, told, asked, left, ghost>>

\* NodeRemoteRunUploadStream.close runs outside the lock: the finished file
\* takes its name in the directory it was opened in.
FileClose ==
  /\ stream \in {"file", "orphan"}
  /\ stream' = "none"
  /\ IF stream = "orphan" THEN UNCHANGED <<tree, told>>
     ELSE /\ tree' = [tree EXCEPT !.staging = @ + 1]
          /\ told' = told \cup (IF tree.staging + 1 = Entries THEN {"staged"} ELSE {})
  /\ UNCHANGED <<kind, sess, runner, agent, asked, left, ghost>>

\* abort, a size mismatch, a lost connection: the temporary file is removed.
StreamAbort ==
  /\ stream # "none"
  /\ stream' = "none"
  /\ UNCHANGED <<kind, tree, sess, runner, agent, told, asked, left, ghost>>

\* _commit_metadata takes the lock and checks again that nothing started.
CommitMetadata ==
  IF LayoutOk /\ NotStarted
  THEN tree' = [SeenTree EXCEPT !.manifest = TRUE] /\ agent' = SeenAgent
  ELSE UNCHANGED <<tree, agent>>

\* write_metadata: a small file in one message.
WriteMetadata ==
  /\ Serves /\ ~asked
  /\ CommitMetadata
  /\ UNCHANGED <<kind, sess, runner, stream, told, asked, left, ghost>>

\* NodeRemoteRunMetadataStream.close: a large file, checked when it was opened.
MetadataClose ==
  /\ stream = "metadata" /\ agent.pc = "idle"
  /\ stream' = "none"
  /\ CommitMetadata
  /\ UNCHANGED <<kind, sess, runner, told, asked, left, ghost>>

\* snapshot_commit: work.identity announces the copy before it begins. The
\* Core commits when every entry was acknowledged and no file is open.
CommitBegin ==
  /\ kind = "snapshot" /\ Prepares /\ "staged" \in told /\ stream = "none"
  /\ tree.staging # NoDir
  /\ IF tree.work > 0
     THEN tree' = SeenTree /\ agent' = SeenAgent
     ELSE /\ tree' = [SeenTree EXCEPT !.ident = "snapshot-pending"]
          /\ agent' = [SeenAgent EXCEPT !.sfd = TRUE, !.pc = "copy"]
  /\ UNCHANGED <<kind, sess, runner, stream, told, asked, left, ghost>>

\* _copy_snapshot_tree, one entry after the other.
CommitCopy ==
  /\ agent.pc = "copy" /\ tree.work < tree.staging
  /\ tree' = [tree EXCEPT !.work = @ + 1]
  /\ UNCHANGED <<kind, sess, runner, agent, stream, told, asked, left, ghost>>

CommitRemoveStaging ==
  /\ agent.pc = "copy" /\ tree.work = tree.staging
  /\ tree' = [tree EXCEPT !.staging = NoDir]
  /\ agent' = [agent EXCEPT !.pc = "settle", !.sfd = FALSE]
  /\ UNCHANGED <<kind, sess, runner, stream, told, asked, left, ghost>>

CommitSettle ==
  /\ agent.pc = "settle"
  /\ tree' = [tree EXCEPT !.ident = "stable"]
  /\ Return(agent, {"committed"})
  /\ UNCHANGED <<kind, sess, runner, stream, asked, left, ghost>>

\* An exception: work/ is emptied and stable again, unless that fails too.
CommitFails ==
  /\ agent.pc \in {"copy", "settle"}
  /\ \/ tree' = [tree EXCEPT !.work = 0, !.ident = "stable"]
     \/ UNCHANGED tree
  /\ Return(agent, {})
  /\ UNCHANGED <<kind, sess, runner, stream, asked, left, ghost>>

-----------------------------------------------------------------------------
(* start and start_git *)

\* The Core starts a run whose source it knows to be in place.
MayStart == Serves /\ ~asked /\ (kind = "git" \/ "committed" \in told)

\* _existing_start: any trace of an earlier start or stop makes this a replay.
StartBegin ==
  /\ MayStart /\ LayoutOk
  /\ tree' = SeenTree
  /\ IF Lifecycle(tree) \/ sess # "none"
     THEN Return(SeenAgent, IF sess = "none" \/ SessionOwned THEN {"started"} ELSE {})
     ELSE /\ agent' = [SeenAgent EXCEPT !.pc = IF kind = "git" THEN "g_files" ELSE "s_out"]
          /\ UNCHANGED told
  /\ UNCHANGED <<kind, sess, runner, stream, asked, left, ghost>>

\* start_git writes its files exclusively: a second start is refused.
GitFiles ==
  /\ agent.pc = "g_files"
  /\ IF tree.git THEN Return(agent, {}) /\ UNCHANGED tree
     ELSE /\ tree' = [tree EXCEPT !.git = TRUE]
          /\ agent' = [agent EXCEPT !.pc = "g_stage"]
          /\ UNCHANGED told
  /\ UNCHANGED <<kind, sess, runner, stream, asked, left, ghost>>

\* _create_git_work_staging; when that fails the run id is condemned.
GitStage ==
  /\ agent.pc = "g_stage"
  /\ \/ /\ tree.staging = NoDir
        /\ tree' = [tree EXCEPT !.staging = 0]
        /\ agent' = [agent EXCEPT !.pc = "g_pending", !.sfd = TRUE]
        /\ UNCHANGED told
     \/ /\ Return([agent EXCEPT !.invalid = TRUE], {})
        /\ UNCHANGED tree
  /\ UNCHANGED <<kind, sess, runner, stream, asked, left, ghost>>

GitPending ==
  /\ agent.pc = "g_pending"
  /\ tree' = [tree EXCEPT !.ident = "git-pending"]
  /\ agent' = [agent EXCEPT !.pc = "s_out"]
  /\ UNCHANGED <<kind, sess, runner, stream, told, asked, left, ghost>>

\* _discard_git_work_staging: an empty staging directory goes, work/ is stable.
Discarded(t) ==
  IF kind = "git"
  THEN [t EXCEPT !.staging = IF @ = 0 THEN NoDir ELSE @, !.ident = "stable"]
  ELSE t

\* _start_tmux: output.log is created exclusively, so a half-made start is
\* never made again.
StartOutput ==
  /\ agent.pc = "s_out"
  /\ IF tree.out
     THEN /\ tree' = Discarded(tree)
          /\ Return([agent EXCEPT !.sfd = @ /\ kind # "git"], {})
     ELSE /\ tree' = [tree EXCEPT !.out = TRUE]
          /\ agent' = [agent EXCEPT !.pc = "s_new"]
          /\ UNCHANGED told
  /\ UNCHANGED <<kind, sess, runner, stream, asked, left, ghost>>

StartSession ==
  /\ agent.pc = "s_new"
  /\ sess' = "fresh"
  /\ agent' = [agent EXCEPT !.pc = "s_own"]
  /\ UNCHANGED <<kind, tree, runner, stream, told, asked, left, ghost>>

StartOwn ==
  /\ agent.pc = "s_own" /\ sess = "fresh"
  /\ sess' = "owned"
  /\ agent' = [agent EXCEPT !.pc = "s_respawn"]
  /\ UNCHANGED <<kind, tree, runner, stream, told, asked, left, ghost>>

\* respawn-pane hands the directory handles over to the runner.
StartRespawn ==
  /\ agent.pc = "s_respawn" /\ sess = "owned"
  /\ sess' = "live"
  /\ runner' = IF kind = "git" THEN "git_state" ELSE "check"
  /\ Return(agent, {"started"})
  /\ UNCHANGED <<kind, tree, stream, asked, left, ghost>>

\* A tmux command fails, or its session is gone: kill-session.
StartFails ==
  /\ agent.pc \in {"s_new", "s_own", "s_respawn"}
  /\ KillSession
  /\ tree' = Discarded(tree)
  /\ Return([agent EXCEPT !.sfd = @ /\ kind # "git"], {})
  /\ UNCHANGED <<kind, stream, asked, left, ghost>>

-----------------------------------------------------------------------------
(* The runner *)

\* A step of the process in the run pane, on the tree it holds handles of.
Step(pc, next, t) ==
  /\ runner = pc
  /\ runner' = next
  /\ tree' = t
  /\ sess' = IF next = "gone" /\ sess = "live" THEN "dead" ELSE sess
  /\ UNCHANGED <<kind, agent, stream, told, asked, left, ghost>>

\* prepare-result.json, then exit.
Refuse(pc, verdict) == Step(pc, "gone", [tree EXCEPT !.prep = verdict])

GitState == Step("git_state", "git_check", [tree EXCEPT !.state = "cloning"])
GitCheck == IF tree.stop THEN Refuse("git_check", "stopped")
            ELSE Step("git_check", "git_clone", tree)
\* Mutant: the clone writes more than the source holds.
GitCloneUnbounded == Step("git_clone", "git_clone", [tree EXCEPT !.staging = @ + 1])
GitClone == /\ tree.staging < Entries
            /\ Step("git_clone", "git_clone", [tree EXCEPT !.staging = @ + 1])
GitCloneFails == Refuse("git_clone", IF tree.stop THEN "stopped" ELSE "failed")
\* Mutant: the exit status of the clone is ignored.
GitClonedEarly == Step("git_clone", "git_stop", [tree EXCEPT !.rev = TRUE])
\* The revision is recorded once the clone is complete.
GitCloned == /\ tree.staging = Entries
             /\ Step("git_clone", "git_stop", [tree EXCEPT !.rev = TRUE])
\* The last look at the stop request; then state.json says running.
GitStop == IF tree.stop THEN Refuse("git_stop", "stopped")
           ELSE Step("git_stop", "git_promote", [tree EXCEPT !.state = "running"])
\* work.tmp takes the name of work: the identity of work/ changes.
GitPromote ==
  Step("git_promote", "check",
    [tree EXCEPT !.work = tree.staging, !.staging = NoDir, !.promoted = TRUE])
\* The finish code raises: the process ends without a record.
GitPromoteFails == Step("git_promote", "gone", tree)

RunnerCheck == IF tree.stop THEN Refuse("check", "stopped")
               ELSE Step("check", "pipe", tree)
RunnerRejects == Refuse("check", "failed")
\* The log helper reports ready within five seconds, or the run is refused.
RunnerPipe == Step("pipe", "launch", [tree EXCEPT !.state = "running"])
RunnerPipeFails == Refuse("pipe", "failed")
RunnerLaunch ==
  /\ runner = "launch"
  /\ runner' = "command"
  /\ ghost' = [ghost EXCEPT !.starts = @ + 1]
  /\ UNCHANGED <<kind, tree, sess, agent, stream, told, asked, left>>
CommandEnds == Step("command", "drain", tree)

\* The receipt of the log helper is awaited for two seconds; whether the log is
\* complete is noted in the record and changes nothing else.
RunnerDrain == Step("drain", "complete", tree)
RunnerComplete ==
  Step("complete", "exit",
    [tree EXCEPT !.compl = IF tree.stop THEN "stopped" ELSE "finished"])
RunnerExit == Step("exit", "gone", tree)

Runner ==
  \/ GitState \/ GitCheck \/ GitClone \/ GitCloneFails \/ GitCloned \/ GitStop
  \/ GitPromote \/ GitPromoteFails \/ RunnerCheck \/ RunnerRejects \/ RunnerPipe
  \/ RunnerPipeFails \/ RunnerLaunch \/ CommandEnds \/ RunnerDrain \/ RunnerComplete
  \/ RunnerExit

-----------------------------------------------------------------------------
(* interrupt, kill, observe, ensure_shell *)

\* interrupt: the stop request is published once, then C-c is typed into an
\* owned run pane; C-c may end the runner before it leaves a record.
Interrupt ==
  /\ Serves /\ LayoutOk /\ tree.compl = "none"
  /\ tree' = [SeenTree EXCEPT !.stop = TRUE]
  /\ agent' = SeenAgent
  /\ \/ UNCHANGED <<sess, runner>>
     \/ sess = "live" /\ RunnerLive /\ sess' = "dead" /\ runner' = "gone"
  /\ UNCHANGED <<kind, stream, told, asked, left, ghost>>

\* kill publishes the stop request before it touches the session. Without a
\* directory only the session is looked at; a broken layout refuses.
KillBegin ==
  /\ Serves
  /\ \/ /\ LayoutOk /\ tree.compl = "none"
        /\ tree' = [SeenTree EXCEPT !.stop = TRUE]
        /\ agent' = [SeenAgent EXCEPT !.pc = "k_kill"]
     \/ /\ LayoutMissing
        /\ agent' = [agent EXCEPT !.pc = "k_kill"]
        /\ UNCHANGED tree
  /\ UNCHANGED <<kind, sess, runner, stream, told, asked, left, ghost>>

\* The session dies; a completion published meanwhile wins over the kill.
KillFinish ==
  /\ agent.pc = "k_kill"
  /\ KillOwnedSession
  /\ Return(agent, IF SessionOwned /\ tree.compl = "none" THEN {"killed"} ELSE {})
  /\ UNCHANGED <<kind, tree, stream, asked, left, ghost>>

\* observe, poll: _reconcile samples tmux before it reads any record.
ObserveBegin ==
  /\ Serves /\ LayoutOk
  /\ tree' = SeenTree
  /\ agent' = [SeenAgent EXCEPT !.pc = "o_results", !.live = PaneLive]
  /\ UNCHANGED <<kind, sess, runner, stream, told, asked, left, ghost>>

\* An observation answers; a terminal state tells the Core that the run ended.
Answer(ended) == /\ Return(agent, IF ended THEN {"ended"} ELSE {})
                 /\ UNCHANGED <<kind, tree, sess, runner, stream, asked, left, ghost>>

ObserveOn(pc) ==
  /\ agent' = [agent EXCEPT !.pc = pc]
  /\ UNCHANGED <<kind, tree, sess, runner, stream, told, asked, left, ghost>>

\* completion.json and prepare-result.json decide.
ObserveResults ==
  /\ agent.pc = "o_results"
  /\ IF tree.compl # "none" \/ tree.prep # "none" THEN Answer(TRUE)
     ELSE ObserveOn("o_state")

\* Mutant: the phase decides without the pane.
ObserveStateBlind ==
  /\ agent.pc = "o_state"
  /\ Answer(tree.stop \/ tree.state # "none")

\* A live pane means running or preparing; a phase without a live pane is
\* sampled once more; otherwise the stop request decides.
ObserveState ==
  /\ agent.pc = "o_state"
  /\ CASE agent.live -> Answer(FALSE)
       [] ~agent.live /\ tree.state # "none" -> ObserveOn("o_again")
       [] ~agent.live /\ tree.state = "none" -> Answer(tree.stop)

\* Mutant: only a stop request ends a run that left no record.
ObserveAgainStopped ==
  /\ agent.pc = "o_again"
  /\ Answer(tree.compl # "none" \/ tree.prep # "none" \/ tree.stop)

\* The second sample, then every record again: lost, failed or stopped.
ObserveAgain ==
  /\ agent.pc = "o_again"
  /\ Answer(\/ tree.compl # "none" \/ tree.prep # "none"
            \/ ~PaneLive /\ (tree.stop \/ tree.state # "none"))

\* ensure_shell: a missing session is made again only for a run the Core
\* knows to be over; an unowned session is left alone.
EnsureShell ==
  /\ Serves /\ LayoutOk /\ sess = "none" /\ "ended" \in told
  /\ tree' = SeenTree /\ agent' = SeenAgent
  /\ sess' = "bare"
  /\ UNCHANGED <<kind, runner, stream, told, asked, left, ghost>>

-----------------------------------------------------------------------------
(* delete *)

\* request_delete: the Core deletes a run whose row is terminal, whatever it was told
\* of the run: a preparation that failed may have left anything. A creation that was
\* cut off is not looked for.
DeleteBegin ==
  /\ agent.pc = "idle"
  /\ asked' = TRUE
  /\ KillOwnedSession
  /\ CASE tree.leaf \in {"none", "creating"} ->
            Return(Forget(agent), {"deleted"})
       [] tree.leaf \in {"run", "quarantine"} /\ ~Marked -> Return(agent, {})
       [] tree.leaf = "run" /\ Marked ->
            agent' = [agent EXCEPT !.pc = "d_move"] /\ UNCHANGED told
       [] tree.leaf = "quarantine" /\ Marked ->
            agent' = [agent EXCEPT !.pc = "d_empty"] /\ UNCHANGED told
  /\ UNCHANGED <<kind, tree, stream, left, ghost>>

\* The tree leaves its published name before anything in it is removed.
DeleteMove ==
  /\ agent.pc = "d_move"
  /\ tree' = [tree EXCEPT !.leaf = "quarantine"]
  /\ agent' = [agent EXCEPT !.pc = "d_empty"]
  /\ UNCHANGED <<kind, sess, runner, stream, told, asked, left, ghost>>

\* _remove_owned_tree forgets the handles and removes the contents, the
\* marker among them at a place the directory order decides.
DeleteEmpty ==
  /\ agent.pc = "d_empty"
  /\ tree' = [NoTree EXCEPT !.leaf = "quarantine"]
  /\ agent' = Forget([agent EXCEPT !.pc = "d_rmdir"])
  /\ stream' = IF stream = "none" THEN "none" ELSE "orphan"
  /\ UNCHANGED <<kind, sess, runner, told, asked, left, ghost>>

DeleteRmdir ==
  /\ agent.pc = "d_rmdir"
  /\ tree' = NoTree
  /\ Return(agent, {"deleted"})
  /\ UNCHANGED <<kind, sess, runner, stream, asked, left, ghost>>

\* An error: nothing was changed, or the quarantine lost any part of its contents and
\* the handles are forgotten. _restore_cleanup_marker marks it again, so that the
\* next deletion recognises it, unless that fails too or was not reached. Nothing
\* but the marker of a quarantine is read again.
DeleteFails ==
  /\ agent.pc \in {"d_move", "d_empty", "d_rmdir"}
  /\ \/ UNCHANGED <<tree, stream>> /\ Return(agent, {})
     \/ /\ agent.pc # "d_move"
        /\ tree' \in {tree} \cup
             {[NoTree EXCEPT !.leaf = "quarantine", !.marker = m] : m \in BOOLEAN}
        /\ stream' = IF stream = "none" THEN "none" ELSE "orphan"
        /\ Return(Forget(agent), {})
  /\ UNCHANGED <<kind, sess, runner, asked, left, ghost>>

-----------------------------------------------------------------------------
(* Faults and the specification *)

\* The agent dies and is started again: handles, streams and the operation
\* under way are gone. The runner and its session belong to tmux.
AgentDies ==
  /\ left.crashes > 0
  /\ left' = [left EXCEPT !.crashes = @ - 1]
  /\ agent' = IdleAgent
  /\ stream' = "none"
  /\ UNCHANGED <<kind, tree, sess, runner, told, asked, ghost>>

\* The machine loses its tmux server.
TmuxDies ==
  /\ left.reboots > 0 /\ sess # "none"
  /\ left' = [left EXCEPT !.reboots = @ - 1]
  /\ KillSession
  /\ UNCHANGED <<kind, tree, agent, stream, told, asked, ghost>>

Create == CreateBegin \/ CreateMake \/ CreateMarker \/ CreatePublish \/ CreateFails
Snapshot == \/ SnapshotBegin \/ SnapshotMake \/ SnapshotEntry
            \/ StreamOpen("file") \/ StreamOpen("metadata")
            \/ FileClose \/ StreamAbort \/ MetadataClose \/ WriteMetadata
            \/ CommitBegin \/ CommitCopy \/ CommitRemoveStaging \/ CommitSettle
            \/ CommitFails
Start == \/ StartBegin \/ GitFiles \/ GitStage \/ GitPending \/ StartOutput \/ StartSession
         \/ StartOwn \/ StartRespawn \/ StartFails
Control == \/ Interrupt \/ KillBegin \/ KillFinish \/ ObserveBegin \/ ObserveResults
           \/ ObserveState \/ ObserveAgain \/ EnsureShell
Delete == DeleteBegin \/ DeleteMove \/ DeleteEmpty \/ DeleteRmdir \/ DeleteFails

Next == \/ Create \/ Snapshot \/ Start \/ Runner \/ Control \/ Delete
        \/ AgentDies \/ TmuxDies

Spec == Init /\ [][Next]_vars

(* Fairness: the processes of the run proceed; an operation that the runtime *)
(* began is carried on in its thread; the Core observes an active run every   *)
(* second, and the run's lock does not keep the observer out for ever.        *)
Operation == \/ CreateMake \/ CreateMarker \/ CreatePublish \/ SnapshotMake
             \/ CommitCopy \/ CommitRemoveStaging \/ CommitSettle \/ GitFiles \/ GitStage
             \/ GitPending \/ StartOutput \/ StartSession \/ StartOwn \/ StartRespawn
             \/ StartFails \/ KillFinish \/ ObserveResults \/ ObserveState \/ ObserveAgain
             \/ DeleteMove \/ DeleteEmpty \/ DeleteRmdir
LiveSpec == Spec /\ WF_vars(Runner) /\ WF_vars(Operation) /\ SF_vars(ObserveBegin)

-----------------------------------------------------------------------------
(* Properties *)

\* Type invariant.
TypeOK ==
  /\ kind \in Kinds
  /\ tree \in TreeType
  /\ sess \in Sessions /\ runner \in RunnerSteps
  /\ agent \in AgentType
  /\ stream \in {"none", "file", "metadata", "orphan"}
  /\ told \subseteq Answers /\ asked \in BOOLEAN
  /\ left \in [crashes: Nat, reboots: Nat]
  /\ ghost \in [starts: Nat]

\* The runner has something left to do before it exits.
Working == runner \notin {"none", "exit", "gone"}

\* Once the Core was told that the run ended or that it was killed, no process
\* of the run is at work and none is ever started again: not by a replayed start,
\* not by a restarted agent (_reconcile, kill).
EndReportIsFinal == told \cap {"ended", "killed"} # {} => ~Working

\* A layout that passes validation in an agent that does not hold the staging
\* directory has an empty work/ or the whole source: a copy that was cut off by a
\* crash is never served (_layout_handles, snapshot_commit).
ServedWorkIsWhole ==
  kind = "snapshot" /\ agent.pc = "idle" /\ LayoutOk /\ ~agent.sfd
    => tree.work \in {0, Entries}

\* A deletion that was acknowledged left neither the run nor its quarantine, nor a
\* process, and no replayed call makes them again (delete, create).
DeletedIsGone ==
  "deleted" \in told => tree.leaf \in {"none", "creating"} /\ ~Working

\* What the Core was told of the end of a run, of a kill or of a deletion stays
\* true (_reconcile, kill, delete).
ReportsAreFinal == EndReportIsFinal /\ DeletedIsGone

\* A deletion that was acknowledged left no directory of the run at all. On a Node it
\* may: a tree whose creation was cut off is never looked at (delete).
DeletionLeavesNothing == "deleted" \in told => tree.leaf = "none"

\* A command that was started is eventually reported as over, or the run is
\* deleted, whatever the agent and its tmux server go through (observe).
StartedRunIsReported == ghost.starts > 0 ~> "ended" \in told \/ asked

\* The abstract run: the command as its runner stands, the records while the
\* directory has its published name.
Published == tree.leaf = "run"
Work == IF Published /\ tree.ident # "snapshot-pending" /\ tree.work = Entries
        THEN "whole" ELSE "none"
Cmd == IF asked /\ ~Published THEN "gone"
       ELSE IF ghost.starts = 0 THEN "no"
       ELSE IF runner = "command" THEN "yes" ELSE "over"
Record == IF ~Published THEN "none"
          ELSE IF tree.compl # "none" THEN tree.compl ELSE tree.prep
Life == INSTANCE RunLife WITH work <- Work, cmd <- Cmd, record <- Record

\* The Node implements the abstract run: one execution at most, in a source
\* tree committed as a whole, with records that are never taken back.
ImplementsRunLife == Life!Spec

=============================================================================
