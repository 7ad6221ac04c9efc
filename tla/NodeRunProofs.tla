--------------------------- MODULE NodeRunProofs ---------------------------
(***************************************************************************)
(* Proofs about NodeRun for any size of the source and any number of agent *)
(* crashes and losses of tmux: its types, that what the Core was told of   *)
(* an end stays true, that a cut-off copy is never served, and that the    *)
(* Node implements RunLife.                                                *)
(***************************************************************************)
EXTENDS NodeRun, TLAPS

-----------------------------------------------------------------------------
(* The inductive invariant *)

Creating == {"c_make", "c_marker", "c_publish"}
Starting == {"g_files", "g_stage", "g_pending", "s_out", "s_new", "s_own", "s_respawn"}
GitSteps == {"git_state", "git_check", "git_clone", "git_stop", "git_promote"}
Reported == "ended" \in told \/ "killed" \in told

\* Before the creation is acknowledged there is at most an unpublished tree.
NotYetCreated ==
  "created" \notin told =>
    /\ told \subseteq {"deleted"} /\ ("deleted" \in told => asked) /\ stream = "none"
    /\ sess = "none" /\ runner = "none" /\ ghost.starts = 0
    /\ tree.leaf \in {"none", "creating"} /\ tree.work = 0
    /\ agent.pc \in Creating \cup {"idle"}
    /\ asked => agent.pc = "idle"
    /\ agent.pc = "c_publish" => tree.marker

\* Afterwards the tree keeps its published name until a deletion moves it.
Placed ==
  "created" \in told =>
    /\ agent.pc \notin Creating
    /\ tree.leaf # "creating" /\ (~asked => tree.leaf = "run")
    /\ tree.leaf = "run" => tree.marker
    /\ agent.pc = "d_move" => asked /\ tree.leaf = "run"
    /\ agent.pc \in {"d_empty", "d_rmdir"} => asked /\ tree.leaf = "quarantine"
    /\ "deleted" \in told => asked /\ tree.leaf = "none"

\* A run that was reported to be over has left a record that every later start
\* takes for a replay.
Over ==
  Reported => /\ ~Working
              /\ tree.leaf = "run" => Lifecycle(tree)
              /\ agent.pc \notin Starting

\* The runner lives in a session, which a deletion ends; an output.log remembers that there was one.
\* What an operation under way has seen of the session still holds.
Sessioned ==
  /\ RunnerLive => sess = "live" /\ ~asked
  /\ runner # "none" /\ tree.leaf = "run" => tree.out
  /\ agent.pc \in Starting => tree.leaf = "run" /\ ~asked
  /\ agent.pc \in {"g_files", "g_stage", "g_pending", "s_out", "s_new", "copy", "settle"}
       => sess = "none"
  /\ agent.pc \in {"s_new", "s_own", "s_respawn"} => runner = "none" /\ tree.out
  /\ agent.pc \in {"o_results", "o_state", "o_again"} => tree.leaf = "run"
  /\ agent.pc \in {"o_results", "o_state", "o_again"} /\ ~agent.live => ~PaneLive
  /\ agent.pc = "k_kill" /\ tree.leaf = "run" => tree.stop

\* The records follow the runner.
Recorded ==
  /\ tree.prep # "none" => runner = "gone"
  /\ tree.compl # "none" => runner \in {"exit", "gone"} /\ ghost.starts > 0
  /\ tree.prep = "none" \/ tree.compl = "none"
  /\ ghost.starts > 0 => runner \in {"command", "drain", "complete", "exit", "gone"}
  /\ runner \in {"command", "drain", "complete", "exit"} => ghost.starts > 0
  /\ ghost.starts > 0 /\ tree.leaf = "run" => tree.state = "running"
  /\ runner = "launch" => tree.state = "running"

\* A snapshot: entries are counted in the staging directory and copied while
\* work.identity says so; what was committed is not touched again.
Staged ==
  kind = "snapshot" =>
    /\ tree.ident # "git-pending" /\ runner \notin GitSteps
    /\ agent.pc \notin {"g_files", "g_stage", "g_pending"}
    /\ tree.ident # "snapshot-pending" => tree.work \in {0, Entries}
    /\ stream = "file" => tree.staging < Entries
    /\ "staged" \in told => tree.staging \in {Entries, NoDir}
    /\ agent.pc = "copy" => tree.staging = Entries
    /\ agent.pc = "settle" => tree.work = Entries
    /\ agent.pc \in {"copy", "settle"} =>
         /\ tree.ident = "snapshot-pending" /\ "committed" \notin told
         /\ tree.leaf = "run" /\ ~Lifecycle(tree)
    /\ agent.pc = "b_make" => stream # "file" /\ "staged" \notin told
    /\ agent.pc = "d_rmdir" => stream # "file"
    /\ "committed" \in told /\ tree.leaf = "run" => tree.work = Entries /\ tree.ident = "stable"
    /\ runner # "none" \/ agent.pc \in Starting => "committed" \in told

\* A clone: the runner fills work.tmp, which becomes work/ as a whole.
Cloned ==
  kind = "git" =>
    /\ tree.ident # "snapshot-pending" /\ stream = "none"
    /\ agent.pc \notin {"b_make", "copy", "settle"}
    /\ runner \in GitSteps \cup {"none"} => tree.work = 0
    /\ runner \in {"git_stop", "git_promote"} => tree.staging = Entries
    /\ runner \in {"check", "pipe", "launch"} => tree.work = Entries

Safe == /\ NotYetCreated /\ Placed /\ Over /\ Sessioned /\ Recorded
        /\ Staged /\ Cloned

IInv == TypeOK /\ Safe

-----------------------------------------------------------------------------
(* What _layout_handles leaves of the tree and of the agent *)

\* A layout that was looked at is still typed.
LEMMA SeenTyped == TypeOK => SeenTree \in TreeType /\ SeenAgent \in AgentType
<1> SUFFICES ASSUME TypeOK PROVE SeenTree \in TreeType /\ SeenAgent \in AgentType
  OBVIOUS
<1>1. SeenTree \in TreeType
  BY DEF SeenTree, TypeOK, TreeType
<1>2. SeenAgent \in AgentType
  BY DEF SeenAgent, TypeOK, AgentType, Promotes, TreeType
<1> QED BY <1>1, <1>2

\* Nothing changed in it but the identity of a promoted clone and the handles.
LEMMA SeenFields ==
  ASSUME TypeOK
  PROVE  /\ SeenTree.leaf = tree.leaf /\ SeenTree.marker = tree.marker
         /\ \/ SeenTree.ident = tree.ident
            \/ tree.ident = "git-pending" /\ SeenTree.ident = "stable"
         /\ SeenTree.work = tree.work /\ SeenTree.staging = tree.staging
         /\ SeenTree.out = tree.out /\ SeenTree.stop = tree.stop
         /\ SeenTree.state = tree.state /\ SeenTree.prep = tree.prep
         /\ SeenTree.compl = tree.compl
         /\ SeenAgent.pc = agent.pc /\ SeenAgent.live = agent.live
BY DEF SeenTree, SeenAgent, Promotes, TypeOK, TreeType, AgentType

\* An operation that has nothing to tell the Core.
LEMMA NothingTold == told \cup {} = told
OBVIOUS

\* Creating and finding the tree keeps Safe.
LEMMA SafeCreate == IInv /\ Create => Safe'
<1> SUFFICES ASSUME IInv, Create PROVE Safe'
  OBVIOUS
<1> USE EntriesAssumption DEF IInv, TypeOK, TreeType, AgentType, Safe,
        NotYetCreated, Placed, Over, Sessioned, Recorded, Staged, Cloned, Working,
        Creating, Starting, GitSteps, Reported, RunnerLive, PaneLive, Lifecycle,
        NoDir
<1>1. CASE CreateBegin
  <2>1. CASE tree.leaf = "run" /\ LayoutOk
    <3>1. /\ agent.pc = "idle" /\ tree' = SeenTree
          /\ agent' = [SeenAgent EXCEPT !.pc = "idle"] /\ told' = told \cup {"created"}
          /\ UNCHANGED <<kind, sess, runner, stream, asked, left, ghost>>
      BY <1>1, <2>1 DEF CreateBegin, Return
    <3>2. (NotYetCreated /\ Placed /\ Over)'
      BY <2>1, <3>1, SeenTyped, SeenFields
    <3>3. (Sessioned /\ Recorded)'
      BY <2>1, <3>1, SeenTyped, SeenFields
    <3>4. (Staged /\ Cloned)'
      BY <2>1, <3>1, SeenTyped, SeenFields
    <3> QED BY <3>2, <3>3, <3>4
  <2>2. CASE (tree.leaf = "run" /\ ~LayoutOk) \/ (tree.leaf = "quarantine" /\ ~Marked)
    <3>1. /\ agent.pc = "idle" /\ tree' = tree
          /\ agent' = [agent EXCEPT !.pc = "idle"] /\ told' = told
          /\ UNCHANGED <<kind, sess, runner, stream, asked, left, ghost>>
      BY <1>1, <2>2, NothingTold DEF CreateBegin, Return, Marked
    <3> QED BY <2>2, <3>1
  <2>3. CASE tree.leaf \in {"none", "creating"} \/ (tree.leaf = "quarantine" /\ Marked)
    <3>1. /\ agent.pc = "idle" /\ ~asked /\ told' = told /\ tree' = NoTree
          /\ agent' = [agent EXCEPT !.pc = "c_make"]
          /\ UNCHANGED <<kind, sess, runner, stream, asked, left, ghost>>
      BY <1>1, <2>3 DEF CreateBegin
    <3> QED BY <2>3, <3>1 DEF NoTree
  <2> QED BY <1>1, <2>1, <2>2, <2>3 DEF Leaves
<1>2. CASE CreateMake
  BY <1>2 DEF CreateMake
<1>3. CASE CreateMarker
  BY <1>3 DEF CreateMarker
<1>4. CASE CreatePublish
  <2>1. (NotYetCreated /\ Placed /\ Over)'
    BY <1>4 DEF CreatePublish, Return
  <2>2. (Sessioned /\ Recorded)'
    BY <1>4 DEF CreatePublish, Return
  <2>3. (Staged /\ Cloned)'
    BY <1>4 DEF CreatePublish, Return
  <2> QED BY <2>1, <2>2, <2>3
<1>5. CASE CreateFails
  BY <1>5 DEF CreateFails, NoTree, Return, Forget
<1> QED BY <1>1, <1>2, <1>3, <1>4, <1>5 DEF Create

\* The snapshot and the metadata keep Safe.
LEMMA SafeSnapshot == IInv /\ Snapshot => Safe'
<1> SUFFICES ASSUME IInv, Snapshot PROVE Safe'
  OBVIOUS
<1> USE EntriesAssumption DEF IInv, TypeOK, TreeType, AgentType, Safe,
        NotYetCreated, Placed, Over, Sessioned, Recorded, Staged, Cloned, Working,
        Creating, Starting, GitSteps, Reported, RunnerLive, PaneLive, Lifecycle,
        NoDir
<1>1. CASE SnapshotBegin
  <2>1. (NotYetCreated /\ Placed /\ Over)'
    BY <1>1, SeenTyped, SeenFields DEF SnapshotBegin, Prepares, Serves, LayoutOk,
       NotStarted, Marked
  <2>2. (Sessioned /\ Recorded)'
    BY <1>1, SeenTyped, SeenFields DEF SnapshotBegin, Prepares, Serves, LayoutOk,
       NotStarted, Marked
  <2>3. (Staged /\ Cloned)'
    BY <1>1, SeenTyped, SeenFields DEF SnapshotBegin, Prepares, Serves, LayoutOk,
       NotStarted, Marked
  <2> QED BY <2>1, <2>2, <2>3
<1>2. CASE SnapshotMake
  <2>1. (NotYetCreated /\ Placed /\ Over)'
    BY <1>2 DEF SnapshotMake, Return
  <2>2. (Sessioned /\ Recorded)'
    BY <1>2 DEF SnapshotMake, Return
  <2>3. /\ agent.pc = "b_make" /\ agent'.pc = "idle" /\ told' = told
        /\ tree' = [tree EXCEPT !.staging = 0]
        /\ UNCHANGED <<kind, sess, runner, stream, asked, left, ghost>>
    BY <1>2 DEF SnapshotMake, Return
  <2>4. (Staged /\ Cloned)'
    BY <2>3
  <2> QED BY <2>1, <2>2, <2>4
<1>3. CASE SnapshotEntry
  <2>1. /\ agent.pc = "idle" /\ "created" \in told /\ tree.leaf = "run"
        /\ tree.staging < Entries /\ stream = "none" /\ kind = "snapshot"
        /\ tree' = [SeenTree EXCEPT !.staging = SeenTree.staging + 1]
        /\ agent' = [SeenAgent EXCEPT !.pc = "idle"]
        /\ UNCHANGED <<kind, sess, runner, stream, asked, left, ghost>>
    BY <1>3 DEF SnapshotEntry, Prepares, Serves, LayoutOk, Return
  <2>2. \/ told' = told
        \/ told' = told \cup {"staged"} /\ tree.staging + 1 = Entries
    BY <1>3, NothingTold DEF SnapshotEntry, Return
  <2>3. (NotYetCreated /\ Placed /\ Over)'
    BY <2>1, <2>2, SeenTyped, SeenFields
  <2>4. (Sessioned /\ Recorded)'
    BY <2>1, <2>2, SeenTyped, SeenFields
  <2>5. (Staged /\ Cloned)'
    <3>1. CASE told' = told
      BY <2>1, <3>1, SeenTyped, SeenFields
    <3>2. CASE told' = told \cup {"staged"} /\ tree.staging + 1 = Entries
      BY <2>1, <3>2, SeenTyped, SeenFields
    <3> QED BY <2>2, <3>1, <3>2
  <2> QED BY <2>3, <2>4, <2>5
<1>4. CASE StreamOpen("file")
  BY <1>4, SeenTyped, SeenFields DEF StreamOpen, Prepares, Serves, LayoutOk,
     NotStarted, Marked
<1>5. CASE StreamOpen("metadata")
  BY <1>5, SeenTyped, SeenFields DEF StreamOpen, Prepares, Serves, LayoutOk,
     NotStarted, Marked
<1>6. CASE FileClose
  BY <1>6 DEF FileClose
<1>7. CASE StreamAbort
  BY <1>7 DEF StreamAbort
<1>8. CASE MetadataClose
  BY <1>8, SeenTyped, SeenFields DEF MetadataClose, CommitMetadata, LayoutOk,
     NotStarted, Marked
<1>9. CASE WriteMetadata
  BY <1>9, SeenTyped, SeenFields DEF WriteMetadata, Serves, CommitMetadata,
     LayoutOk, NotStarted, Marked
<1>10. CASE CommitBegin
  <2>1. CASE tree.work > 0
    <3>1. /\ agent.pc = "idle" /\ "created" \in told /\ LayoutOk
          /\ tree' = SeenTree /\ agent' = SeenAgent
          /\ UNCHANGED <<kind, sess, runner, stream, told, asked, left, ghost>>
      BY <1>10, <2>1 DEF CommitBegin, Prepares, Serves, LayoutOk
    <3>2. (NotYetCreated /\ Placed /\ Over)'
      BY <2>1, <3>1, SeenTyped, SeenFields
    <3>3. (Sessioned /\ Recorded)'
      BY <2>1, <3>1, SeenTyped, SeenFields
    <3>4. (Staged /\ Cloned)'
      BY <2>1, <3>1, SeenTyped, SeenFields
    <3> QED BY <3>2, <3>3, <3>4
  <2>2. CASE ~(tree.work > 0)
    <3>1. /\ agent.pc = "idle" /\ "created" \in told /\ tree.leaf = "run" /\ NotStarted
          /\ kind = "snapshot" /\ "staged" \in told /\ tree.staging # NoDir
          /\ tree' = [SeenTree EXCEPT !.ident = "snapshot-pending"]
          /\ agent' = [SeenAgent EXCEPT !.sfd = TRUE, !.pc = "copy"]
          /\ UNCHANGED <<kind, sess, runner, stream, told, asked, left, ghost>>
      BY <1>10, <2>2 DEF CommitBegin, Prepares, Serves, LayoutOk
    <3>2. (NotYetCreated /\ Placed /\ Over)'
      BY <2>2, <3>1, SeenTyped, SeenFields DEF NotStarted
    <3>3. (Sessioned /\ Recorded)'
      BY <2>2, <3>1, SeenTyped, SeenFields DEF NotStarted
    <3>4. (Staged /\ Cloned)'
      BY <2>2, <3>1, SeenTyped, SeenFields DEF NotStarted
    <3> QED BY <3>2, <3>3, <3>4
  <2> QED BY <1>10, <2>1, <2>2
<1>11. CASE CommitCopy
  BY <1>11 DEF CommitCopy
<1>12. CASE CommitRemoveStaging
  BY <1>12 DEF CommitRemoveStaging
<1>13. CASE CommitSettle
  BY <1>13 DEF CommitSettle, Return
<1>14. CASE CommitFails
  <2>1. CASE UNCHANGED tree
    <3>1. (NotYetCreated /\ Placed /\ Over)'
      BY <1>14, <2>1 DEF CommitFails, Return
    <3>2. (Sessioned /\ Recorded)'
      BY <1>14, <2>1 DEF CommitFails, Return
    <3>3. (Staged /\ Cloned)'
      BY <1>14, <2>1 DEF CommitFails, Return
    <3> QED BY <3>1, <3>2, <3>3
  <2>2. CASE tree' = [tree EXCEPT !.work = 0, !.ident = "stable"]
    <3>1. (NotYetCreated /\ Placed /\ Over)'
      BY <1>14, <2>2 DEF CommitFails, Return
    <3>2. (Sessioned /\ Recorded)'
      BY <1>14, <2>2 DEF CommitFails, Return
    <3>3. (Staged /\ Cloned)'
      BY <1>14, <2>2 DEF CommitFails, Return
    <3> QED BY <3>1, <3>2, <3>3
  <2> QED BY <1>14, <2>1, <2>2 DEF CommitFails
<1> QED BY <1>1, <1>2, <1>3, <1>4, <1>5, <1>6, <1>7, <1>8, <1>9, <1>10, <1>11, <1>12, <1>13,
   <1>14 DEF Snapshot

\* Starting a session keeps Safe.
LEMMA SafeStart == IInv /\ Start => Safe'
<1> SUFFICES ASSUME IInv, Start PROVE Safe'
  OBVIOUS
<1> USE EntriesAssumption DEF IInv, TypeOK, TreeType, AgentType, Safe,
        NotYetCreated, Placed, Over, Sessioned, Recorded, Staged, Cloned, Working,
        Creating, Starting, GitSteps, Reported, RunnerLive, PaneLive, Lifecycle,
        NoDir
<1>1. CASE StartBegin
  <2>1. CASE Lifecycle(tree) \/ sess # "none"
    <3>1. /\ agent.pc = "idle" /\ "created" \in told /\ LayoutOk
          /\ tree' = SeenTree /\ agent' = [SeenAgent EXCEPT !.pc = "idle"]
          /\ told' = told \cup {"started"} \/ told' = told
          /\ UNCHANGED <<kind, sess, runner, stream, asked, left, ghost>>
      BY <1>1, <2>1, NothingTold DEF StartBegin, MayStart, Serves, Return
    <3>2. (NotYetCreated /\ Placed /\ Over)'
      BY <2>1, <3>1, SeenTyped, SeenFields
    <3>3. (Sessioned /\ Recorded)'
      BY <2>1, <3>1, SeenTyped, SeenFields
    <3>4. (Staged /\ Cloned)'
      BY <2>1, <3>1, SeenTyped, SeenFields
    <3> QED BY <3>2, <3>3, <3>4
  <2>2. CASE ~(Lifecycle(tree) \/ sess # "none")
    <3>1. /\ agent.pc = "idle" /\ "created" \in told /\ LayoutOk /\ ~asked
          /\ kind = "git" \/ "committed" \in told
          /\ tree' = SeenTree /\ told' = told
          /\ agent' = [SeenAgent EXCEPT !.pc = IF kind = "git" THEN "g_files" ELSE "s_out"]
          /\ UNCHANGED <<kind, sess, runner, stream, asked, left, ghost>>
      BY <1>1, <2>2 DEF StartBegin, MayStart, Serves
    <3>2. (NotYetCreated /\ Placed /\ Over)'
      BY <2>2, <3>1, SeenTyped, SeenFields
    <3>3. (Sessioned /\ Recorded)'
      BY <2>2, <3>1, SeenTyped, SeenFields
    <3>4. (Staged /\ Cloned)'
      BY <2>2, <3>1, SeenTyped, SeenFields
    <3> QED BY <3>2, <3>3, <3>4
  <2> QED BY <1>1, <2>1, <2>2
<1>2. CASE GitFiles
  BY <1>2 DEF GitFiles, Return
<1>3. CASE GitStage
  <2>1. agent.pc = "g_stage" /\ UNCHANGED <<kind, sess, runner, stream, asked, left, ghost>>
    BY <1>3 DEF GitStage
  <2>2. CASE /\ tree' = [tree EXCEPT !.staging = 0] /\ told' = told
             /\ agent' = [agent EXCEPT !.pc = "g_pending", !.sfd = TRUE]
    BY <2>1, <2>2
  <2>3. CASE /\ tree' = tree /\ told' = told
             /\ agent' = [agent EXCEPT !.invalid = TRUE, !.pc = "idle"]
    BY <2>1, <2>3
  <2> QED BY <1>3, NothingTold, <2>2, <2>3 DEF GitStage, Return
<1>4. CASE GitPending
  BY <1>4 DEF GitPending
<1>5. CASE StartOutput
  <2>1. agent.pc = "s_out" /\ UNCHANGED <<kind, sess, runner, stream, asked, left, ghost>>
    BY <1>5 DEF StartOutput
  <2>2. CASE tree.out
    <3>1. tree' = Discarded(tree) /\ agent'.pc = "idle" /\ told' = told
      BY <1>5, <2>2, NothingTold DEF StartOutput, Return
    <3> QED BY <2>1, <3>1 DEF Discarded
  <2>3. CASE ~tree.out
    <3>1. tree' = [tree EXCEPT !.out = TRUE] /\ agent'.pc = "s_new" /\ told' = told
      BY <1>5, <2>3 DEF StartOutput
    <3> QED BY <2>1, <2>3, <3>1
  <2> QED BY <2>2, <2>3
<1>6. CASE StartSession
  BY <1>6 DEF StartSession
<1>7. CASE StartOwn
  BY <1>7 DEF StartOwn
<1>8. CASE StartRespawn
  <2>1. /\ agent.pc = "s_respawn" /\ sess' = "live" /\ tree' = tree
        /\ runner' = IF kind = "git" THEN "git_state" ELSE "check"
        /\ agent' = [agent EXCEPT !.pc = "idle"] /\ told' = told \cup {"started"}
        /\ UNCHANGED <<kind, stream, asked, left, ghost>>
    BY <1>8 DEF StartRespawn, Return
  <2>2. Sessioned'
    BY <2>1
  <2>3. (NotYetCreated /\ Placed /\ Over /\ Recorded)'
    BY <2>1
  <2>4. (Staged /\ Cloned)'
    BY <2>1
  <2> QED BY <2>2, <2>3, <2>4
<1>9. CASE StartFails
  BY <1>9 DEF StartFails, KillSession, Discarded, Return
<1> QED BY <1>1, <1>2, <1>3, <1>4, <1>5, <1>6, <1>7, <1>8, <1>9 DEF Start

\* The runner keeps Safe.
LEMMA SafeRunner == IInv /\ Runner => Safe'
<1> SUFFICES ASSUME IInv, Runner PROVE Safe'
  OBVIOUS
<1> USE EntriesAssumption DEF IInv, TypeOK, TreeType, AgentType, Safe,
        NotYetCreated, Placed, Over, Sessioned, Recorded, Staged, Cloned, Working,
        Creating, Starting, GitSteps, Reported, RunnerLive, PaneLive, Lifecycle,
        NoDir
<1>1. CASE GitState
  BY <1>1 DEF GitState, Step
<1>2. CASE GitCheck
  BY <1>2 DEF GitCheck, Refuse, Step
<1>3. CASE GitClone
  BY <1>3 DEF GitClone, Step
<1>4. CASE GitCloneFails
  BY <1>4 DEF GitCloneFails, Refuse, Step
<1>5. CASE GitCloned
  BY <1>5 DEF GitCloned, Step
<1>6. CASE GitStop
  BY <1>6 DEF GitStop, Refuse, Step
<1>7. CASE GitPromote
  BY <1>7 DEF GitPromote, Step
<1>8. CASE GitPromoteFails
  BY <1>8 DEF GitPromoteFails, Step
<1>9. CASE RunnerCheck
  BY <1>9 DEF RunnerCheck, Refuse, Step
<1>10. CASE RunnerRejects
  BY <1>10 DEF RunnerRejects, Refuse, Step
<1>11. CASE RunnerPipe
  BY <1>11 DEF RunnerPipe, Step
<1>12. CASE RunnerPipeFails
  BY <1>12 DEF RunnerPipeFails, Refuse, Step
<1>13. CASE RunnerLaunch
  BY <1>13 DEF RunnerLaunch
<1>14. CASE CommandEnds
  BY <1>14 DEF CommandEnds, Step
<1>15. CASE RunnerDrain
  BY <1>15 DEF RunnerDrain, Step
<1>16. CASE RunnerComplete
  BY <1>16 DEF RunnerComplete, Step
<1>17. CASE RunnerExit
  BY <1>17 DEF RunnerExit, Step
<1> QED BY <1>1, <1>2, <1>3, <1>4, <1>5, <1>6, <1>7, <1>8, <1>9, <1>10, <1>11, <1>12, <1>13,
   <1>14, <1>15, <1>16, <1>17 DEF Runner

\* Stopping, observing and the shell keep Safe.
LEMMA SafeControl == IInv /\ Control => Safe'
<1> SUFFICES ASSUME IInv, Control PROVE Safe'
  OBVIOUS
<1> USE EntriesAssumption DEF IInv, TypeOK, TreeType, AgentType, Safe,
        NotYetCreated, Placed, Over, Sessioned, Recorded, Staged, Cloned, Working,
        Creating, Starting, GitSteps, Reported, RunnerLive, PaneLive, Lifecycle,
        NoDir
<1>1. CASE Interrupt
  <2>1. NotYetCreated'
    BY <1>1, SeenTyped, SeenFields DEF Interrupt, Serves, LayoutOk, Marked
  <2>2. Placed'
    BY <1>1, SeenTyped, SeenFields DEF Interrupt, Serves, LayoutOk, Marked
  <2>3. Over'
    BY <1>1, SeenTyped, SeenFields DEF Interrupt, Serves, LayoutOk, Marked
  <2>4. Sessioned'
    BY <1>1, SeenTyped, SeenFields DEF Interrupt, Serves, LayoutOk, Marked
  <2>5. Recorded'
    BY <1>1, SeenTyped, SeenFields DEF Interrupt, Serves, LayoutOk, Marked
  <2>6. Staged'
    BY <1>1, SeenTyped, SeenFields DEF Interrupt, Serves, LayoutOk, Marked
  <2>7. Cloned'
    BY <1>1, SeenTyped, SeenFields DEF Interrupt, Serves, LayoutOk, Marked
  <2> QED BY <2>1, <2>2, <2>3, <2>4, <2>5, <2>6, <2>7
<1>2. CASE KillBegin
  BY <1>2, SeenTyped, SeenFields DEF KillBegin, Serves, LayoutOk, LayoutMissing,
     Marked
<1>3. CASE KillFinish
  BY <1>3 DEF KillFinish, KillOwnedSession, Return, SessionOwned, KillSession
<1>4. CASE ObserveBegin
  <2>1. (NotYetCreated /\ Placed /\ Over)'
    BY <1>4, SeenTyped, SeenFields DEF ObserveBegin, Serves, LayoutOk, Marked
  <2>2. (Sessioned /\ Recorded)'
    BY <1>4, SeenTyped, SeenFields DEF ObserveBegin, Serves, LayoutOk, Marked
  <2>3. Staged'
    BY <1>4, SeenTyped, SeenFields DEF ObserveBegin, Serves, LayoutOk, Marked
  <2>4. Cloned'
    BY <1>4, SeenTyped, SeenFields DEF ObserveBegin, Serves, LayoutOk, Marked
  <2> QED BY <2>1, <2>2, <2>3, <2>4
<1>5. CASE ObserveResults
  BY <1>5 DEF ObserveResults, Answer, ObserveOn, Return
<1>6. CASE ObserveState
  <2>1. /\ agent.pc = "o_state"
        /\ UNCHANGED <<kind, tree, sess, runner, stream, asked, left, ghost>>
    BY <1>6 DEF ObserveState, Answer, ObserveOn
  <2>2. CASE agent' = [agent EXCEPT !.pc = "idle"] /\ told' = told
    BY <2>1, <2>2
  <2>3. CASE agent' = [agent EXCEPT !.pc = "o_again"] /\ told' = told
    BY <2>1, <2>3
  <2>4. CASE /\ ~agent.live /\ tree.stop
             /\ agent' = [agent EXCEPT !.pc = "idle"] /\ told' = told \cup {"ended"}
    BY <2>1, <2>4
  <2> QED BY <1>6, NothingTold, <2>2, <2>3, <2>4 DEF ObserveState, Answer, ObserveOn, Return
<1>7. CASE ObserveAgain
  BY <1>7 DEF ObserveAgain, Answer, Return
<1>8. CASE EnsureShell
  <2>1. (NotYetCreated /\ Placed /\ Over)'
    BY <1>8, SeenTyped, SeenFields DEF EnsureShell, Serves, LayoutOk, Marked
  <2>2. (Sessioned /\ Recorded)'
    BY <1>8, SeenTyped, SeenFields DEF EnsureShell, Serves, LayoutOk, Marked
  <2>3. Staged'
    BY <1>8, SeenTyped, SeenFields DEF EnsureShell, Serves, LayoutOk, Marked
  <2>4. Cloned'
    BY <1>8, SeenTyped, SeenFields DEF EnsureShell, Serves, LayoutOk, Marked
  <2> QED BY <2>1, <2>2, <2>3, <2>4
<1> QED BY <1>1, <1>2, <1>3, <1>4, <1>5, <1>6, <1>7, <1>8 DEF Control

\* Deleting keeps Safe.
LEMMA SafeDelete == IInv /\ Delete => Safe'
<1> SUFFICES ASSUME IInv, Delete PROVE Safe'
  OBVIOUS
<1> USE EntriesAssumption DEF IInv, TypeOK, TreeType, AgentType, Safe,
        NotYetCreated, Placed, Over, Sessioned, Recorded, Staged, Cloned, Working,
        Creating, Starting, GitSteps, Reported, RunnerLive, PaneLive, Lifecycle,
        NoDir
<1>1. CASE DeleteBegin
  <2>1. agent.pc = "idle" /\ asked' /\ UNCHANGED <<kind, tree, stream, left, ghost>>
    BY <1>1 DEF DeleteBegin
  <2>6. /\ runner' = runner \/ (runner # "none" /\ runner' = "gone")
        /\ ~RunnerLive' /\ (sess = "none" => sess' = "none")
    BY <1>1 DEF DeleteBegin, KillOwnedSession, KillSession, SessionOwned
  <2>2. CASE /\ tree.leaf \in {"none", "creating"}
             /\ agent' = [agent EXCEPT !.fd = FALSE, !.sfd = FALSE, !.pc = "idle"]
             /\ told' = told \cup {"deleted"}
    BY <2>1, <2>6, <2>2
  <2>3. CASE agent' = [agent EXCEPT !.pc = "idle"] /\ told' = told
    BY <2>1, <2>6, <2>3
  <2>4. CASE tree.leaf = "run" /\ agent' = [agent EXCEPT !.pc = "d_move"] /\ told' = told
    BY <2>1, <2>6, <2>4
  <2>5. CASE tree.leaf = "quarantine" /\ agent' = [agent EXCEPT !.pc = "d_empty"] /\ told' = told
    BY <2>1, <2>6, <2>5
  <2> QED BY <1>1, NothingTold, <2>2, <2>3, <2>4, <2>5 DEF DeleteBegin, Return, Forget, Leaves
<1>2. CASE DeleteMove
  BY <1>2 DEF DeleteMove
<1>3. CASE DeleteEmpty
  BY <1>3 DEF DeleteEmpty, NoTree, Forget
<1>4. CASE DeleteRmdir
  <2>1. (NotYetCreated /\ Placed /\ Over)'
    BY <1>4 DEF DeleteRmdir, NoTree, Return
  <2>2. (Sessioned /\ Recorded)'
    BY <1>4 DEF DeleteRmdir, NoTree, Return
  <2>3. (Staged /\ Cloned)'
    BY <1>4 DEF DeleteRmdir, NoTree, Return
  <2> QED BY <2>1, <2>2, <2>3
<1>5. CASE DeleteFails
  <2>1. /\ agent.pc \in {"d_move", "d_empty", "d_rmdir"} /\ told' = told
        /\ UNCHANGED <<kind, sess, runner, asked, left, ghost>>
    BY <1>5, NothingTold DEF DeleteFails, Return
  <2>2. CASE UNCHANGED <<tree, stream>> /\ agent' = [agent EXCEPT !.pc = "idle"]
    BY <2>1, <2>2
  <2>3. CASE /\ agent.pc # "d_move"
             /\ stream' \in {"none", "orphan"} /\ (stream = "none" => stream' = "none")
             /\ agent' = [agent EXCEPT !.fd = FALSE, !.sfd = FALSE, !.pc = "idle"]
             /\ tree' \in {tree} \cup
                  {[NoTree EXCEPT !.leaf = "quarantine", !.marker = m] : m \in BOOLEAN}
    <3>1. CASE tree' = tree
      BY <2>1, <2>3, <3>1
    <3>2. CASE tree' \in {[NoTree EXCEPT !.leaf = "quarantine", !.marker = m] : m \in BOOLEAN}
      <4>1. \E m \in BOOLEAN : tree' = [NoTree EXCEPT !.leaf = "quarantine", !.marker = m]
        BY <3>2
      <4>2. /\ tree'.leaf = "quarantine" /\ tree'.work = 0 /\ tree'.ident = "none"
            /\ tree'.prep = "none" /\ tree'.compl = "none"
            /\ tree'.staging = NoDir
        BY <4>1 DEF NoTree
      <4> HIDE <3>2
      <4> QED BY <2>1, <2>3, <4>2
    <3> QED BY <2>3, <3>1, <3>2
  <2> QED BY <1>5, <2>2, <2>3 DEF DeleteFails, Return, Forget
<1> QED BY <1>1, <1>2, <1>3, <1>4, <1>5 DEF Delete

\* The faults keep Safe.
LEMMA SafeFaults == IInv /\ (AgentDies \/ TmuxDies) => Safe'
<1> SUFFICES ASSUME IInv, AgentDies \/ TmuxDies PROVE Safe'
  OBVIOUS
<1> USE EntriesAssumption DEF IInv, TypeOK, TreeType, AgentType, Safe,
        NotYetCreated, Placed, Over, Sessioned, Recorded, Staged, Cloned, Working,
        Creating, Starting, GitSteps, Reported, RunnerLive, PaneLive, Lifecycle,
        NoDir
<1>1. CASE AgentDies
  BY <1>1 DEF AgentDies, IdleAgent
<1>2. CASE TmuxDies
  BY <1>2 DEF TmuxDies, KillSession
<1> QED BY <1>1, <1>2
-----------------------------------------------------------------------------
(* Types *)

\* The values that the counters of the tree are set to.
LEMMA Counters ==
  /\ 0 \in Sizes /\ Entries \in Sizes
  /\ 0 \in 0..NoDir /\ NoDir \in 0..NoDir
  /\ \A n \in Sizes : n \in 0..NoDir
  /\ \A n \in 0..NoDir : n < Entries => n + 1 \in Sizes
  /\ \A n \in 0..NoDir : n \in Nat
BY EntriesAssumption DEF Sizes, NoDir

\* The updates of counters and of a discarded clone are typed.
LEMMA TreeUpdates ==
  ASSUME NEW t \in TreeType
  PROVE  /\ \A n \in Sizes : [t EXCEPT !.work = n] \in TreeType
         /\ \A n \in 0..NoDir : [t EXCEPT !.staging = n] \in TreeType
         /\ Discarded(t) \in TreeType
         /\ [t EXCEPT !.manifest = TRUE] \in TreeType
         /\ [t EXCEPT !.stop = TRUE] \in TreeType
<1>1. \A n \in Sizes : [t EXCEPT !.work = n] \in TreeType
  BY DEF TreeType
<1>2. \A n \in 0..NoDir : [t EXCEPT !.staging = n] \in TreeType
  BY DEF TreeType
<1>3. Discarded(t) \in TreeType
  <2>1. [t EXCEPT !.staging = IF t.staging = 0 THEN NoDir ELSE t.staging, !.ident = "stable"]
          \in TreeType
    BY Counters DEF TreeType
  <2> QED BY <2>1 DEF Discarded
<1>4. [t EXCEPT !.manifest = TRUE] \in TreeType /\ [t EXCEPT !.stop = TRUE] \in TreeType
  BY DEF TreeType
<1> QED BY <1>1, <1>2, <1>3, <1>4

\* No tree, and what is left of an emptied one, are typed.
LEMMA NoTreeTyped ==
  /\ NoTree \in TreeType
  /\ [NoTree EXCEPT !.leaf = "quarantine"] \in TreeType
<1>1. NoTree \in TreeType
  BY EntriesAssumption DEF NoTree, TreeType, NoDir, Leaves, Sizes
<1>2. \A t \in TreeType : [t EXCEPT !.leaf = "quarantine"] \in TreeType
  BY DEF TreeType, Leaves
<1> QED BY <1>1, <1>2

\* So is a quarantine that was marked again, or was not.
LEMMA RemarkedTyped ==
  \A marker \in BOOLEAN :
    [NoTree EXCEPT !.leaf = "quarantine", !.marker = marker] \in TreeType
<1>1. \A t \in TreeType, marker \in BOOLEAN :
        [t EXCEPT !.leaf = "quarantine", !.marker = marker] \in TreeType
  BY DEF TreeType, Leaves
<1> QED BY <1>1, NoTreeTyped

\* Every step leaves a typed tree.
LEMMA TreeTyped == IInv /\ Next => tree' \in TreeType
<1> SUFFICES ASSUME IInv, Next PROVE tree' \in TreeType
  OBVIOUS
<1> USE EntriesAssumption DEF IInv, TypeOK
<1>1. CASE Create
  <2>1. CASE CreateBegin
    BY <2>1, SeenTyped, NoTreeTyped DEF CreateBegin, Leaves, TreeType
  <2>2. CASE CreateMake
    BY <2>2 DEF CreateMake, TreeType, Leaves
  <2>3. CASE CreateMarker
    BY <2>3 DEF CreateMarker, TreeType
  <2>4. CASE CreatePublish
    BY <2>4 DEF CreatePublish, TreeType, Leaves
  <2>5. CASE CreateFails
    BY <2>5, NoTreeTyped DEF CreateFails
  <2> QED BY <1>1, <2>1, <2>2, <2>3, <2>4, <2>5 DEF Create
<1>2. CASE Snapshot
  <2>1. CASE SnapshotBegin
    BY <2>1, SeenTyped, TreeUpdates, Counters DEF SnapshotBegin
  <2>2. CASE SnapshotMake
    BY <2>2, TreeUpdates, Counters DEF SnapshotMake
  <2>3. CASE SnapshotEntry
    <3>1. tree.staging + 1 \in 0..NoDir /\ SeenTree.staging = tree.staging
      BY <2>3, SeenFields DEF SnapshotEntry, TreeType, NoDir
    <3> QED BY <2>3, <3>1, SeenTyped, TreeUpdates DEF SnapshotEntry
  <2>4. CASE StreamOpen("file")
    BY <2>4, SeenTyped DEF StreamOpen
  <2>5. CASE StreamOpen("metadata")
    BY <2>5, SeenTyped DEF StreamOpen
  <2>6. CASE FileClose
    <3>1. stream = "file" => tree.staging < Entries
      BY KindsAssumption DEF Safe, Staged, Cloned
    <3>2. stream = "file" => tree.staging + 1 \in 0..NoDir
      BY <3>1, Counters DEF TreeType
    <3>3. stream = "file" => [tree EXCEPT !.staging = tree.staging + 1] \in TreeType
      BY <3>2, TreeUpdates
    <3> QED BY <2>6, <3>3 DEF FileClose
  <2>7. CASE MetadataClose
    <3>1. [SeenTree EXCEPT !.manifest = TRUE] \in TreeType
      BY SeenTyped, TreeUpdates
    <3> QED BY <2>7, <3>1 DEF MetadataClose, CommitMetadata
  <2>8. CASE WriteMetadata
    <3>1. [SeenTree EXCEPT !.manifest = TRUE] \in TreeType
      BY SeenTyped, TreeUpdates
    <3> QED BY <2>8, <3>1 DEF WriteMetadata, CommitMetadata
  <2>9. CASE CommitBegin
    <3>1. [SeenTree EXCEPT !.ident = "snapshot-pending"] \in TreeType
      BY SeenTyped DEF TreeType
    <3> QED BY <2>9, <3>1, SeenTyped DEF CommitBegin
  <2>10. CASE CommitCopy
    <3>1. tree.work < Entries
      BY <2>10, KindsAssumption DEF CommitCopy, Safe, Staged, Cloned
    <3>2. tree.work + 1 \in Sizes
      BY <3>1, Counters DEF TreeType
    <3> QED BY <2>10, <3>2, TreeUpdates DEF CommitCopy
  <2>11. CASE CommitRemoveStaging
    BY <2>11, TreeUpdates, Counters DEF CommitRemoveStaging
  <2>12. CASE CommitSettle
    BY <2>12 DEF CommitSettle, TreeType
  <2>13. CASE CommitFails
    <3>1. [tree EXCEPT !.work = 0, !.ident = "stable"] \in TreeType
      BY Counters DEF TreeType
    <3> QED BY <2>13, <3>1 DEF CommitFails
  <2>14. CASE StreamAbort
    BY <2>14 DEF StreamAbort
  <2> QED BY <1>2, <2>1, <2>2, <2>3, <2>4, <2>5, <2>6, <2>7, <2>8, <2>9, <2>10, <2>11,
     <2>12, <2>13, <2>14 DEF Snapshot
<1>3. CASE Start
  <2>1. CASE StartBegin
    BY <2>1, SeenTyped DEF StartBegin
  <2>2. CASE GitFiles
    <3>1. [tree EXCEPT !.git = TRUE] \in TreeType
      BY DEF TreeType
    <3> QED BY <2>2, <3>1 DEF GitFiles
  <2>3. CASE GitStage
    <3>1. [tree EXCEPT !.staging = 0] \in TreeType
      BY TreeUpdates, Counters
    <3> QED BY <2>3, <3>1 DEF GitStage
  <2>4. CASE GitPending
    BY <2>4 DEF GitPending, TreeType
  <2>5. CASE StartOutput
    <3>1. [tree EXCEPT !.out = TRUE] \in TreeType
      BY DEF TreeType
    <3> QED BY <2>5, <3>1, TreeUpdates DEF StartOutput
  <2>6. CASE StartFails
    BY <2>6, TreeUpdates DEF StartFails
  <2>7. CASE StartSession \/ StartOwn \/ StartRespawn
    BY <2>7 DEF StartSession, StartOwn, StartRespawn
  <2> QED BY <1>3, <2>1, <2>2, <2>3, <2>4, <2>5, <2>6, <2>7 DEF Start
<1>4. CASE Runner
  <2>1. CASE GitState
    BY <2>1 DEF GitState, Step, TreeType
  <2>2. CASE GitCheck
    BY <2>2 DEF GitCheck, Refuse, Step, TreeType
  <2>3. CASE GitClone
    BY <2>3 DEF GitClone, Step, TreeType, NoDir
  <2>4. CASE GitCloneFails
    BY <2>4 DEF GitCloneFails, Refuse, Step, TreeType
  <2>5. CASE GitCloned
    BY <2>5 DEF GitCloned, Step, TreeType
  <2>6. CASE GitStop
    BY <2>6 DEF GitStop, Refuse, Step, TreeType
  <2>7. CASE GitPromote
    <3>1. tree.staging \in Sizes
      BY <2>7, KindsAssumption, Counters DEF GitPromote, Step, Safe, Staged, Cloned, GitSteps
    <3>2. [tree EXCEPT !.work = tree.staging, !.staging = NoDir, !.promoted = TRUE] \in TreeType
      BY <3>1, Counters DEF TreeType
    <3> QED BY <2>7, <3>2 DEF GitPromote, Step
  <2>8. CASE GitPromoteFails
    BY <2>8 DEF GitPromoteFails, Step, TreeType
  <2>9. CASE RunnerCheck
    BY <2>9 DEF RunnerCheck, Refuse, Step, TreeType
  <2>10. CASE RunnerRejects
    BY <2>10 DEF RunnerRejects, Refuse, Step, TreeType
  <2>11. CASE RunnerPipe
    BY <2>11 DEF RunnerPipe, Step, TreeType
  <2>12. CASE RunnerPipeFails
    BY <2>12 DEF RunnerPipeFails, Refuse, Step, TreeType
  <2>13. CASE CommandEnds
    BY <2>13 DEF CommandEnds, Step, TreeType
  <2>14. CASE RunnerDrain
    BY <2>14 DEF RunnerDrain, Step, TreeType
  <2>15. CASE RunnerComplete
    BY <2>15 DEF RunnerComplete, Step, TreeType
  <2>16. CASE RunnerExit
    BY <2>16 DEF RunnerExit, Step, TreeType
  <2>17. CASE RunnerLaunch
    BY <2>17 DEF RunnerLaunch
  <2> QED BY <1>4, <2>1, <2>2, <2>3, <2>4, <2>5, <2>6, <2>7, <2>8, <2>9, <2>10, <2>11,
     <2>12, <2>13, <2>14, <2>15, <2>16, <2>17 DEF Runner
<1>5. CASE Control
  <2>1. CASE Interrupt
    BY <2>1, SeenTyped, TreeUpdates DEF Interrupt
  <2>2. CASE KillBegin
    BY <2>2, SeenTyped, TreeUpdates DEF KillBegin
  <2>3. CASE ObserveBegin
    BY <2>3, SeenTyped DEF ObserveBegin
  <2>4. CASE EnsureShell
    BY <2>4, SeenTyped DEF EnsureShell
  <2>5. CASE KillFinish \/ ObserveResults \/ ObserveState \/ ObserveAgain
    BY <2>5 DEF KillFinish, ObserveResults, Answer, ObserveOn, ObserveState,
       ObserveAgain
  <2> QED BY <1>5, <2>1, <2>2, <2>3, <2>4, <2>5 DEF Control
<1>6. CASE Delete
  <2>1. CASE DeleteMove
    BY <2>1 DEF DeleteMove, TreeType, Leaves
  <2>2. CASE DeleteEmpty
    BY <2>2, NoTreeTyped DEF DeleteEmpty
  <2>3. CASE DeleteRmdir
    BY <2>3, NoTreeTyped DEF DeleteRmdir
  <2>4. CASE DeleteFails
    BY <2>4, RemarkedTyped DEF DeleteFails
  <2>5. CASE DeleteBegin
    BY <2>5 DEF DeleteBegin
  <2> QED BY <1>6, <2>1, <2>2, <2>3, <2>4, <2>5 DEF Delete
<1>7. CASE AgentDies \/ TmuxDies
  BY <1>7 DEF AgentDies, TmuxDies
<1> QED BY <1>1, <1>2, <1>3, <1>4, <1>5, <1>6, <1>7 DEF Next

\* Every step leaves a typed agent.
LEMMA AgentTyped == IInv /\ Next => agent' \in AgentType
<1> SUFFICES ASSUME IInv, Next PROVE agent' \in AgentType
  OBVIOUS
<1> USE DEF IInv, TypeOK, AgentType, OpSteps
<1>1. CASE Create
  <2>1. CASE CreateBegin
    <3>1. tree.leaf \in Leaves
      BY DEF TreeType
    <3>2. \/ agent' = [SeenAgent EXCEPT !.pc = "idle"] \/ agent' = [agent EXCEPT !.pc = "idle"]
          \/ agent' = [agent EXCEPT !.pc = "c_make"]
      BY <2>1, <3>1 DEF CreateBegin, Return, Leaves
    <3> QED BY <3>2, SeenTyped
  <2>2. CASE CreateMake
    BY <2>2 DEF CreateMake
  <2>3. CASE CreateMarker
    BY <2>3 DEF CreateMarker
  <2>4. CASE CreatePublish
    BY <2>4 DEF CreatePublish, Return
  <2>5. CASE CreateFails
    BY <2>5 DEF CreateFails, Return, Forget
  <2> QED BY <1>1, <2>1, <2>2, <2>3, <2>4, <2>5 DEF Create
<1>2. CASE Snapshot
  <2>1. CASE SnapshotBegin
    BY <2>1, SeenTyped DEF SnapshotBegin
  <2>2. CASE SnapshotMake
    BY <2>2 DEF SnapshotMake, Return
  <2>3. CASE SnapshotEntry
    BY <2>3, SeenTyped DEF SnapshotEntry, Return
  <2>4. CASE StreamOpen("file")
    BY <2>4, SeenTyped DEF StreamOpen
  <2>5. CASE StreamOpen("metadata")
    BY <2>5, SeenTyped DEF StreamOpen
  <2>6. CASE MetadataClose
    BY <2>6, SeenTyped DEF MetadataClose, CommitMetadata
  <2>7. CASE WriteMetadata
    BY <2>7, SeenTyped DEF WriteMetadata, CommitMetadata
  <2>8. CASE CommitBegin
    BY <2>8, SeenTyped DEF CommitBegin
  <2>9. CASE CommitRemoveStaging
    BY <2>9 DEF CommitRemoveStaging
  <2>10. CASE CommitSettle
    BY <2>10 DEF CommitSettle, Return
  <2>11. CASE CommitFails
    BY <2>11 DEF CommitFails, Return
  <2>12. CASE FileClose \/ StreamAbort \/ CommitCopy
    BY <2>12 DEF FileClose, StreamAbort, CommitCopy
  <2> QED BY <1>2, <2>1, <2>2, <2>3, <2>4, <2>5, <2>6, <2>7, <2>8, <2>9, <2>10, <2>11, <2>12
     DEF Snapshot
<1>3. CASE Start
  <2>1. CASE StartBegin
    BY <2>1, SeenTyped DEF StartBegin, Return
  <2>2. CASE GitFiles
    BY <2>2 DEF GitFiles, Return
  <2>3. CASE GitStage
    BY <2>3 DEF GitStage, Return
  <2>4. CASE GitPending
    BY <2>4 DEF GitPending
  <2>5. CASE StartOutput
    BY <2>5 DEF StartOutput, Return
  <2>6. CASE StartSession
    BY <2>6 DEF StartSession
  <2>7. CASE StartOwn
    BY <2>7 DEF StartOwn
  <2>8. CASE StartRespawn
    BY <2>8 DEF StartRespawn, Return
  <2>9. CASE StartFails
    BY <2>9 DEF StartFails, Return
  <2> QED BY <1>3, <2>1, <2>2, <2>3, <2>4, <2>5, <2>6, <2>7, <2>8, <2>9 DEF Start
<1>4. CASE Runner
  <2>1. CASE GitState \/ GitCheck \/ GitClone \/ GitCloneFails \/ GitCloned \/
            GitStop \/ GitPromote \/ GitPromoteFails \/ RunnerCheck \/ RunnerRejects
            \/ RunnerPipe \/ RunnerPipeFails \/ RunnerLaunch \/ CommandEnds \/
            RunnerDrain \/ RunnerComplete \/ RunnerExit
    BY <2>1 DEF GitState, Step, GitCheck, Refuse, GitClone, GitCloneFails,
       GitCloned, GitStop, GitPromote, GitPromoteFails, RunnerCheck, RunnerRejects,
       RunnerPipe, RunnerPipeFails, RunnerLaunch, CommandEnds, RunnerDrain,
       RunnerComplete, RunnerExit
  <2> QED BY <1>4, <2>1 DEF Runner
<1>5. CASE Control
  <2>1. CASE Interrupt
    BY <2>1, SeenTyped DEF Interrupt
  <2>2. CASE KillBegin
    BY <2>2, SeenTyped DEF KillBegin
  <2>3. CASE KillFinish
    BY <2>3 DEF KillFinish, Return
  <2>4. CASE ObserveBegin
    <3>1. PaneLive \in BOOLEAN
      BY DEF PaneLive
    <3> QED BY <2>4, <3>1, SeenTyped DEF ObserveBegin, AgentType, OpSteps
  <2>5. CASE ObserveResults
    BY <2>5 DEF ObserveResults, Answer, ObserveOn, Return
  <2>6. CASE ObserveState
    BY <2>6 DEF ObserveState, Answer, ObserveOn, Return
  <2>7. CASE ObserveAgain
    BY <2>7 DEF ObserveAgain, Answer, PaneLive, Return
  <2>8. CASE EnsureShell
    BY <2>8, SeenTyped DEF EnsureShell
  <2> QED BY <1>5, <2>1, <2>2, <2>3, <2>4, <2>5, <2>6, <2>7, <2>8 DEF Control
<1>6. CASE Delete
  <2>1. CASE DeleteBegin
    <3>1. tree.leaf \in Leaves
      BY DEF TreeType
    <3>2. \/ agent' = [Forget(agent) EXCEPT !.pc = "idle"]
          \/ \E p \in {"idle", "d_move", "d_empty"} : agent' = [agent EXCEPT !.pc = p]
      BY <2>1, <3>1 DEF DeleteBegin, Return, Leaves
    <3> QED BY <3>2 DEF Forget
  <2>2. CASE DeleteMove
    BY <2>2 DEF DeleteMove
  <2>3. CASE DeleteEmpty
    BY <2>3 DEF DeleteEmpty, Forget
  <2>4. CASE DeleteRmdir
    BY <2>4 DEF DeleteRmdir, Return
  <2>5. CASE DeleteFails
    BY <2>5 DEF DeleteFails, Return, Forget
  <2> QED BY <1>6, <2>1, <2>2, <2>3, <2>4, <2>5 DEF Delete
<1>7. CASE AgentDies
  BY <1>7 DEF AgentDies, IdleAgent
<1>8. CASE TmuxDies
  BY <1>8 DEF TmuxDies
<1> QED BY <1>1, <1>2, <1>3, <1>4, <1>5, <1>6, <1>7, <1>8 DEF Next

Rest == /\ sess \in Sessions /\ runner \in RunnerSteps
        /\ stream \in {"none", "file", "metadata", "orphan"}
        /\ told \subseteq Answers /\ asked \in BOOLEAN
        /\ left \in [crashes: Nat, reboots: Nat]
        /\ ghost \in [starts: Nat]

\* Every step leaves the other variables typed.
LEMMA RestTyped == IInv /\ Next => Rest'
<1> SUFFICES ASSUME IInv, Next PROVE Rest'
  OBVIOUS
<1> USE DEF IInv, TypeOK, Rest, Sessions, RunnerSteps, Answers, Return, Step, Refuse,
            KillSession, KillOwnedSession
<1>1. CASE Create
  <2>1. CASE CreateBegin
    <3>1. tree.leaf \in Leaves
      BY DEF TreeType
    <3>2. told' = told \cup {"created"} \/ told' = told \cup {} \/ told' = told
      BY <2>1, <3>1 DEF CreateBegin, Leaves
    <3> QED BY <2>1, <3>2 DEF CreateBegin
  <2>2. CASE CreateMake \/ CreateMarker \/ CreatePublish \/ CreateFails
    BY <2>2 DEF CreateMake, CreateMarker, CreatePublish, CreateFails
  <2> QED BY <1>1, <2>1, <2>2 DEF Create
<1>2. CASE Snapshot
  BY <1>2 DEF Snapshot, SnapshotBegin, SnapshotMake, SnapshotEntry, StreamOpen, FileClose,
              StreamAbort, MetadataClose, WriteMetadata, CommitBegin, CommitCopy,
              CommitRemoveStaging, CommitSettle, CommitFails
<1>3. CASE Start
  BY <1>3 DEF Start, StartBegin, GitFiles, GitStage, GitPending, StartOutput,
              StartSession, StartOwn, StartRespawn, StartFails
<1>4. CASE Runner
  BY <1>4 DEF Runner, GitState, GitCheck, GitClone, GitCloneFails, GitCloned, GitStop,
              GitPromote, GitPromoteFails, RunnerCheck, RunnerRejects, RunnerPipe,
              RunnerPipeFails, RunnerLaunch, CommandEnds, RunnerDrain, RunnerComplete,
              RunnerExit
<1>5. CASE Control
  <2>1. CASE Interrupt \/ KillBegin \/ ObserveBegin \/ EnsureShell
    BY <2>1 DEF Interrupt, KillBegin, ObserveBegin, EnsureShell
  <2>2. CASE KillFinish
    BY <2>2 DEF KillFinish
  <2>3. CASE ObserveResults \/ ObserveState \/ ObserveAgain
    <3>1. told' \subseteq told \cup {"ended"}
      BY <2>3 DEF ObserveResults, ObserveState, ObserveAgain, Answer, ObserveOn
    <3>2. UNCHANGED <<sess, runner, stream, asked, left, ghost>>
      BY <2>3 DEF ObserveResults, ObserveState, ObserveAgain, Answer, ObserveOn
    <3> QED BY <3>1, <3>2
  <2> QED BY <1>5, <2>1, <2>2, <2>3 DEF Control
<1>6. CASE Delete
  <2>1. CASE DeleteBegin
    <3>1. tree.leaf \in Leaves
      BY DEF TreeType
    <3>2. told' = told \cup {"deleted"} \/ told' = told \cup {} \/ told' = told
      BY <2>1, <3>1 DEF DeleteBegin, Leaves
    <3>3. /\ sess' \in Sessions /\ runner' \in RunnerSteps
          /\ asked' /\ UNCHANGED <<stream, left, ghost>>
      BY <2>1 DEF DeleteBegin
    <3> QED BY <3>2, <3>3
  <2>2. CASE DeleteMove \/ DeleteEmpty \/ DeleteRmdir \/ DeleteFails
    BY <2>2 DEF DeleteMove, DeleteEmpty, DeleteRmdir, DeleteFails
  <2> QED BY <1>6, <2>1, <2>2 DEF Delete
<1>7. CASE AgentDies \/ TmuxDies
  <2>1. CASE AgentDies
    <3>1. left' \in [crashes: Nat, reboots: Nat]
      BY <2>1 DEF AgentDies
    <3> QED BY <2>1, <3>1 DEF AgentDies
  <2>2. CASE TmuxDies
    <3>1. left' \in [crashes: Nat, reboots: Nat]
      BY <2>2 DEF TmuxDies
    <3> QED BY <2>2, <3>1 DEF TmuxDies
  <2> QED BY <1>7, <2>1, <2>2
<1> QED BY <1>1, <1>2, <1>3, <1>4, <1>5, <1>6, <1>7 DEF Next

\* No step changes how the source of the run arrives.
LEMMA KindStays == Next => kind' = kind
<1> USE DEF Step, Refuse
<1>1. Create \/ Delete => kind' = kind
  BY DEF Create, CreateBegin, CreateMake, CreateMarker, CreatePublish, CreateFails,
         Delete, DeleteBegin, DeleteMove, DeleteEmpty, DeleteRmdir, DeleteFails
<1>2. Snapshot => kind' = kind
  BY DEF Snapshot, SnapshotBegin, SnapshotMake, SnapshotEntry, StreamOpen, FileClose,
         StreamAbort, MetadataClose, WriteMetadata, CommitBegin, CommitCopy,
         CommitRemoveStaging, CommitSettle, CommitFails
<1>3. Start => kind' = kind
  BY DEF Start, StartBegin, GitFiles, GitStage, GitPending, StartOutput, StartSession,
         StartOwn, StartRespawn, StartFails
<1>4. Runner => kind' = kind
  BY DEF Runner, GitState, GitCheck, GitClone, GitCloneFails, GitCloned, GitStop,
         GitPromote, GitPromoteFails, RunnerCheck, RunnerRejects, RunnerPipe,
         RunnerPipeFails, RunnerLaunch, CommandEnds, RunnerDrain, RunnerComplete, RunnerExit
<1>5. Control => kind' = kind
  BY DEF Control, Interrupt, KillBegin, KillFinish, ObserveBegin, ObserveResults,
         ObserveState, ObserveAgain, Answer, ObserveOn, EnsureShell
<1>6. AgentDies \/ TmuxDies => kind' = kind
  BY DEF AgentDies, TmuxDies
<1> QED BY <1>1, <1>2, <1>3, <1>4, <1>5, <1>6 DEF Next

-----------------------------------------------------------------------------
(* The invariant and what it says of the Node *)

\* The invariant holds of a machine that knows nothing of the run.
LEMMA InitInv == Init => IInv
<1> SUFFICES ASSUME Init PROVE IInv
  OBVIOUS
<1>1. TypeOK
  BY NoTreeTyped, FaultsAssumption
  DEF Init, TypeOK, IdleAgent, AgentType, OpSteps, Sessions, RunnerSteps
<1>2. Safe
  BY DEF Init, NoTree, IdleAgent, Safe, NotYetCreated, Placed, Over, Sessioned, Recorded,
         Staged, Cloned, Creating, Starting, GitSteps, Reported, RunnerLive
<1> QED BY <1>1, <1>2 DEF IInv

\* Every step keeps the invariant.
LEMMA NextInv == IInv /\ [Next]_vars => IInv'
<1> SUFFICES ASSUME IInv, [Next]_vars PROVE IInv'
  OBVIOUS
<1>1. CASE Next
  <2>1. TypeOK'
    BY <1>1, TreeTyped, AgentTyped, RestTyped, KindStays DEF IInv, TypeOK, Rest
  <2>2. Safe'
    BY <1>1, SafeCreate, SafeSnapshot, SafeStart, SafeRunner, SafeControl, SafeDelete,
       SafeFaults DEF Next
  <2> QED BY <2>1, <2>2 DEF IInv
<1>2. CASE UNCHANGED vars
  BY <1>2 DEF vars, IInv, TypeOK, Safe, NotYetCreated, Placed, Over, Sessioned, Recorded,
              Staged, Cloned, Working, Reported, RunnerLive, PaneLive, Lifecycle
<1> QED BY <1>1, <1>2

\* The inductive invariant holds throughout.
THEOREM Invariance == Spec => []IInv
BY InitInv, NextInv, PTL DEF Spec

\* Every state of the run's directory, its session, its runner and the runtime
\* has the declared types, for any size of the source and any number of faults.
THEOREM TypeCorrect == Spec => []TypeOK
<1>1. IInv => TypeOK
  BY DEF IInv
<1> QED BY <1>1, Invariance, PTL

\* Once the Core was told that the run ended, was killed or was deleted, that
\* stays true: no replayed start and no restarted agent starts a process again,
\* whatever state the run was in when its deletion was asked for and wherever a
\* deletion failed (_reconcile, kill, _existing_start, delete).
THEOREM ReportsStayTrue == Spec => []ReportsAreFinal
<1>1. IInv => ReportsAreFinal
  <2> SUFFICES ASSUME IInv PROVE ReportsAreFinal
    OBVIOUS
  <2>1. told \cap {"ended", "killed"} # {} => Reported
    BY DEF Reported
  <2>2. EndReportIsFinal
    BY <2>1 DEF IInv, Safe, Over, EndReportIsFinal
  <2>3. DeletedIsGone
    BY DEF IInv, Safe, NotYetCreated, Placed, Sessioned, RunnerLive, Working,
           DeletedIsGone
  <2> QED BY <2>2, <2>3 DEF ReportsAreFinal
<1> QED BY <1>1, Invariance, PTL

\* A copy that was cut off is never served as the source of a run, whatever died
\* while it was made (_layout_handles, snapshot_commit).
THEOREM CutOffCopyIsNotServed == Spec => []ServedWorkIsWhole
<1>1. IInv => ServedWorkIsWhole
  BY DEF IInv, Safe, Staged, ServedWorkIsWhole, LayoutOk
<1> QED BY <1>1, Invariance, PTL

-----------------------------------------------------------------------------
(* The refinement *)

Mapped == <<Work, Cmd, Record>>

\* What the abstract run sees is unchanged by a step that keeps these.
Unseen ==
  /\ (Published' <=> Published) /\ ghost'.starts = ghost.starts
  /\ (runner' = "command" <=> runner = "command")
  /\ ~Published => asked' = asked
  /\ Published => /\ tree'.work = tree.work /\ tree'.compl = tree.compl
                  /\ tree'.prep = tree.prep
                  /\ (tree'.ident = "snapshot-pending" <=> tree.ident = "snapshot-pending")

\* Such a step is a stuttering step of the abstract run.
LEMMA UnseenStutters == Unseen => UNCHANGED Mapped
BY DEF Unseen, Published, Mapped, Work, Cmd, Record

\* A live runner belongs to a run that nobody has been told the end of, and whose
\* tree has its published name.
LEMMA WorkingIsPublished == IInv /\ Working => Published /\ ~asked /\ ~Reported
BY DEF IInv, Safe, NotYetCreated, Placed, Over, Sessioned, RunnerLive, Working, Published

\* The records of a working runner: none of an end, and the command has started
\* exactly when the runner is past its launch.
LEMMA WorkingUnrecorded ==
  IInv /\ Working => /\ Record = "none"
                     /\ tree.compl = "none" /\ tree.prep = "none"
                     /\ (ghost.starts > 0 <=> runner \in {"command", "drain", "complete"})
BY WorkingIsPublished
DEF IInv, TypeOK, Safe, Recorded, Working, Record, RunnerSteps

\* The death of the runner ends a running command and is not seen otherwise.
LEMMA DeathEnds ==
  ASSUME IInv, tree'.leaf = tree.leaf, tree'.work = tree.work,
         tree'.ident = "snapshot-pending" <=> tree.ident = "snapshot-pending",
         tree'.compl = tree.compl, tree'.prep = tree.prep, Published \/ asked' = asked,
         ghost' = ghost,
         runner' = runner \/ (RunnerLive /\ runner' = "gone")
  PROVE  Life!Next \/ UNCHANGED Mapped
<1>1. CASE runner = "command" /\ runner' = "gone"
  <2>1. Working
    BY <1>1 DEF Working
  <2>2. Cmd = "yes" /\ Cmd' = "over" /\ Work' = Work /\ Record' = Record
    BY <1>1, <2>1, WorkingIsPublished, WorkingUnrecorded
    DEF IInv, TypeOK, Cmd, Work, Record, Published
  <2> QED BY <2>2 DEF Life!Next, Life!End
<1>2. CASE ~(runner = "command" /\ runner' = "gone")
  <2>1. Unseen
    BY <1>2 DEF Unseen, Published
  <2> QED BY <2>1, UnseenStutters
<1> QED BY <1>1, <1>2

\* Creating the tree is not seen: what is published is empty.
LEMMA LifeCreate == IInv /\ Create => UNCHANGED Mapped
<1> SUFFICES ASSUME IInv, Create PROVE UNCHANGED Mapped
  OBVIOUS
<1>1. CASE CreateBegin
  <2>1. tree.leaf \in Leaves
    BY DEF IInv, TypeOK, TreeType
  <2>2. \/ tree' = SeenTree \/ tree' = tree
        \/ tree' = NoTree /\ ~Published
    BY <1>1, <2>1 DEF CreateBegin, Leaves, Published
  <2>3. UNCHANGED <<runner, asked, ghost>>
    BY <1>1 DEF CreateBegin
  <2>4. Unseen
    BY <2>2, <2>3, SeenFields DEF IInv, Unseen, Published, NoTree
  <2> QED BY <2>4, UnseenStutters
<1>2. CASE CreatePublish
  <2>1. /\ tree.leaf # "run" /\ tree.work = 0 /\ ~asked /\ ghost.starts = 0
        /\ tree.compl = "none" /\ tree.prep = "none"
    BY <1>2 DEF CreatePublish, IInv, Safe, NotYetCreated, Placed, Recorded, Creating
  <2>2. UNCHANGED <<runner, asked, ghost>>
    BY <1>2 DEF CreatePublish
  <2>3. tree'.work = tree.work /\ tree'.compl = tree.compl /\ tree'.prep = tree.prep
    BY <1>2 DEF CreatePublish, IInv, TypeOK, TreeType
  <2> QED BY <2>1, <2>2, <2>3, EntriesAssumption DEF Mapped, Work, Cmd, Record, Published
<1>3. CASE CreateMake \/ CreateMarker \/ CreateFails
  <2>1. ~Published
    BY <1>3 DEF CreateMake, CreateMarker, CreateFails, IInv, Safe, NotYetCreated, Placed,
                Creating, Published
  <2>2. UNCHANGED <<runner, asked, ghost>>
    BY <1>3 DEF CreateMake, CreateMarker, CreateFails
  <2>3. ~Published'
    BY <1>3, <2>1 DEF CreateMake, CreateMarker, CreateFails, Published, NoTree, IInv,
                      TypeOK, TreeType
  <2> QED BY <2>1, <2>2, <2>3, UnseenStutters DEF Unseen
<1> QED BY <1>1, <1>2, <1>3 DEF Create

\* The source becomes visible in one step, the one that settles the commit.
LEMMA LifeSnapshot == IInv /\ Snapshot => Life!Next \/ UNCHANGED Mapped
<1> SUFFICES ASSUME IInv, Snapshot PROVE Life!Next \/ UNCHANGED Mapped
  OBVIOUS
<1>0. UNCHANGED <<runner, asked, ghost>>
  BY DEF Snapshot, SnapshotBegin, SnapshotMake, SnapshotEntry, StreamOpen, FileClose,
         StreamAbort, MetadataClose, WriteMetadata, CommitBegin, CommitCopy,
         CommitRemoveStaging, CommitSettle, CommitFails
<1>1. CASE \/ SnapshotBegin \/ SnapshotEntry \/ StreamOpen("file") \/ StreamOpen("metadata")
           \/ MetadataClose \/ WriteMetadata
  <2>1. \/ \E n : tree' = [SeenTree EXCEPT !.staging = n]
        \/ tree' = [SeenTree EXCEPT !.manifest = TRUE] \/ tree' = SeenTree \/ tree' = tree
    BY <1>1 DEF SnapshotBegin, SnapshotEntry, StreamOpen, MetadataClose, WriteMetadata,
                CommitMetadata
  <2>2. Unseen
    BY <1>0, <2>1, SeenTyped, SeenFields DEF IInv, TreeType, Unseen, Published
  <2> QED BY <2>2, UnseenStutters
<1>2. CASE SnapshotMake \/ FileClose \/ StreamAbort \/ CommitRemoveStaging
  <2>1. tree' = tree \/ \E n : tree' = [tree EXCEPT !.staging = n]
    BY <1>2 DEF SnapshotMake, FileClose, StreamAbort, CommitRemoveStaging
  <2>2. Unseen
    BY <1>0, <2>1 DEF IInv, TypeOK, TreeType, Unseen, Published
  <2> QED BY <2>2, UnseenStutters
<1>3. CASE CommitBegin
  <2>1. CASE tree.work > 0
    <3>1. tree' = SeenTree
      BY <1>3, <2>1 DEF CommitBegin
    <3> QED BY <1>0, <3>1, SeenFields, UnseenStutters DEF IInv, Unseen, Published
  <2>2. CASE ~(tree.work > 0)
    <3>1. tree' = [SeenTree EXCEPT !.ident = "snapshot-pending"]
      BY <1>3, <2>2 DEF CommitBegin
    <3>2. /\ tree'.leaf = tree.leaf /\ tree'.work = tree.work
          /\ tree'.compl = tree.compl /\ tree'.prep = tree.prep
      BY <3>1, SeenTyped, SeenFields DEF IInv, TreeType
    <3>3. tree.work # Entries
      BY <2>2, EntriesAssumption
    <3> QED BY <1>0, <3>2, <3>3 DEF Mapped, Work, Cmd, Record, Published
  <2> QED BY <2>1, <2>2
<1>4. CASE CommitCopy
  <2>1. tree.ident = "snapshot-pending" /\ tree' = [tree EXCEPT !.work = @ + 1]
    BY <1>4, KindsAssumption DEF CommitCopy, IInv, TypeOK, Safe, Staged, Cloned
  <2> QED BY <1>0, <2>1 DEF IInv, TypeOK, TreeType, Mapped, Work, Cmd, Record, Published
<1>5. CASE CommitSettle
  <2>1. /\ tree.ident = "snapshot-pending" /\ tree.work = Entries /\ Published
        /\ ~Lifecycle(tree)
    BY <1>5, KindsAssumption DEF CommitSettle, IInv, TypeOK, Safe, Staged, Cloned, Published
  <2>2. ghost.starts = 0
    BY <2>1 DEF IInv, TypeOK, Safe, Recorded, Lifecycle, Published
  <2>3. tree' = [tree EXCEPT !.ident = "stable"]
    BY <1>5 DEF CommitSettle
  <2>4. Cmd = "no" /\ Cmd' = Cmd /\ Work = "none" /\ Work' = "whole" /\ Record' = Record
    BY <1>0, <2>1, <2>2, <2>3 DEF IInv, TypeOK, TreeType, Cmd, Work, Record, Published
  <2> QED BY <2>4 DEF Life!Next, Life!Commit
<1>6. CASE CommitFails
  <2>1. tree.ident = "snapshot-pending"
    BY <1>6, KindsAssumption DEF CommitFails, IInv, TypeOK, Safe, Staged, Cloned
  <2>2. tree' = tree \/ tree' = [tree EXCEPT !.work = 0, !.ident = "stable"]
    BY <1>6 DEF CommitFails
  <2> QED BY <1>0, <2>1, <2>2, EntriesAssumption
          DEF IInv, TypeOK, TreeType, Mapped, Work, Cmd, Record, Published
<1> QED BY <1>1, <1>2, <1>3, <1>4, <1>5, <1>6 DEF Snapshot

\* Starting the session is not seen.
LEMMA LifeStart == IInv /\ Start => UNCHANGED Mapped
<1> SUFFICES ASSUME IInv, Start PROVE UNCHANGED Mapped
  OBVIOUS
<1>1. UNCHANGED <<kind, asked, ghost>>
  BY DEF Start, StartBegin, GitFiles, GitStage, GitPending, StartOutput, StartSession,
         StartOwn, StartRespawn, StartFails
<1>2. runner' = runner \/ (runner = "none" /\ runner' # "command")
  BY DEF Start, StartBegin, GitFiles, GitStage, GitPending, StartOutput, StartSession,
         StartOwn, StartRespawn, StartFails, KillSession, RunnerLive, IInv, Safe, Sessioned
<1>3. CASE StartBegin
  <2>1. tree' = SeenTree
    BY <1>3 DEF StartBegin
  <2> QED BY <1>1, <1>2, <2>1, SeenFields, UnseenStutters DEF IInv, Unseen, Published
<1>4. CASE \/ GitFiles \/ GitStage \/ GitPending \/ StartOutput \/ StartSession \/ StartOwn
           \/ StartRespawn \/ StartFails
  <2>1. kind = "git" => tree.ident # "snapshot-pending"
    BY DEF IInv, Safe, Cloned
  <2>2. GitPending => kind = "git"
    BY KindsAssumption DEF GitPending, IInv, TypeOK, Safe, Staged
  <2>3. Unseen
    BY <1>1, <1>2, <1>4, <2>1, <2>2
    DEF GitFiles, GitStage, GitPending, StartOutput, StartSession, StartOwn, StartRespawn,
        StartFails, Discarded, IInv, TypeOK, TreeType, Unseen, Published
  <2> QED BY <2>3, UnseenStutters
<1> QED BY <1>3, <1>4 DEF Start

\* A refusal of the runner is one of the abstract run.
LEMMA RefusalRefuses ==
  ASSUME IInv, NEW pc \in GitSteps \cup {"check", "pipe"},
         NEW verdict \in {"stopped", "failed"}, Refuse(pc, verdict)
  PROVE  Life!Next
<1>1. Working /\ runner = pc /\ runner \notin {"command", "drain", "complete"}
  BY DEF Refuse, Step, Working, GitSteps
<1>2. tree' = [tree EXCEPT !.prep = verdict] /\ UNCHANGED <<asked, ghost>>
  BY DEF Refuse, Step
<1>3. ghost.starts = 0
  BY <1>1, WorkingUnrecorded DEF IInv, TypeOK
<1>4. Cmd = "no" /\ Cmd' = "no" /\ Work' = Work /\ Record = "none" /\ Record' = verdict
  BY <1>1, <1>2, <1>3, WorkingIsPublished, WorkingUnrecorded
  DEF IInv, TypeOK, TreeType, Cmd, Work, Record, Published
<1> QED BY <1>4 DEF Life!Next, Life!Refuse

\* The runner commits a clone, refuses, launches, ends and publishes.
LEMMA LifeRunner == IInv /\ Runner => Life!Next \/ UNCHANGED Mapped
<1> SUFFICES ASSUME IInv, Runner PROVE Life!Next \/ UNCHANGED Mapped
  OBVIOUS
<1>1. CASE GitState \/ GitClone \/ GitCloned \/ GitPromoteFails \/ RunnerDrain \/ RunnerExit
  <2>1. Unseen
    BY <1>1 DEF GitState, GitClone, GitCloned, GitPromoteFails, RunnerDrain, RunnerExit,
                Step, IInv, TypeOK, TreeType, Unseen, Published
  <2> QED BY <2>1, UnseenStutters
<1>2. CASE GitCheck
  <2>1. CASE tree.stop
    BY <1>2, <2>1, RefusalRefuses DEF GitCheck, GitSteps
  <2>2. CASE ~tree.stop
    BY <1>2, <2>2, UnseenStutters DEF GitCheck, Step, Unseen, Published
  <2> QED BY <2>1, <2>2
<1>3. CASE GitStop
  <2>1. CASE tree.stop
    BY <1>3, <2>1, RefusalRefuses DEF GitStop, GitSteps
  <2>2. CASE ~tree.stop
    BY <1>3, <2>2, UnseenStutters
    DEF GitStop, Step, IInv, TypeOK, TreeType, Unseen, Published
  <2> QED BY <2>1, <2>2
<1>4. CASE RunnerCheck
  <2>1. CASE tree.stop
    BY <1>4, <2>1, RefusalRefuses DEF RunnerCheck
  <2>2. CASE ~tree.stop
    BY <1>4, <2>2, UnseenStutters DEF RunnerCheck, Step, Unseen, Published
  <2> QED BY <2>1, <2>2
<1>5. CASE GitCloneFails \/ RunnerRejects \/ RunnerPipeFails
  BY <1>5, RefusalRefuses DEF GitCloneFails, RunnerRejects, RunnerPipeFails, GitSteps
<1>6. CASE GitPromote
  <2>1. Working /\ runner = "git_promote"
    BY <1>6 DEF GitPromote, Step, Working
  <2>2. kind = "git" /\ tree.work = 0 /\ tree.staging = Entries
    BY <2>1, KindsAssumption DEF IInv, TypeOK, Safe, Staged, Cloned, GitSteps
  <2>3. /\ tree' = [tree EXCEPT !.work = tree.staging, !.staging = NoDir, !.promoted = TRUE]
        /\ UNCHANGED <<asked, ghost>>
    BY <1>6 DEF GitPromote, Step
  <2>4. ghost.starts = 0
    BY <2>1, WorkingUnrecorded DEF IInv, TypeOK
  <2>5. tree.ident # "snapshot-pending"
    BY <2>2 DEF IInv, Safe, Cloned
  <2>6. Cmd = "no" /\ Cmd' = "no" /\ Work = "none" /\ Work' = "whole" /\ Record' = Record
    BY <2>1, <2>2, <2>3, <2>4, <2>5, WorkingIsPublished, EntriesAssumption
    DEF IInv, TypeOK, TreeType, Cmd, Work, Record, Published
  <2> QED BY <2>6 DEF Life!Next, Life!Commit
<1>7. CASE RunnerPipe
  <2>1. Unseen
    BY <1>7 DEF RunnerPipe, Step, IInv, TypeOK, TreeType, Unseen, Published
  <2> QED BY <2>1, UnseenStutters
<1>8. CASE RunnerLaunch
  <2>1. Working /\ runner = "launch" /\ runner' = "command"
    BY <1>8 DEF RunnerLaunch, Working
  <2>2. ghost.starts = 0 /\ ghost'.starts = 1 /\ UNCHANGED <<asked, tree>>
    BY <1>8, <2>1, WorkingUnrecorded DEF RunnerLaunch, IInv, TypeOK
  <2>3. tree.work = Entries /\ tree.ident # "snapshot-pending"
    BY <2>1, WorkingIsPublished, KindsAssumption
    DEF IInv, TypeOK, Safe, Staged, Cloned, Published
  <2>4. /\ Cmd = "no" /\ Cmd' = "yes" /\ Work = "whole" /\ Work' = Work
        /\ Record = "none" /\ Record' = Record
    BY <2>1, <2>2, <2>3, WorkingIsPublished, WorkingUnrecorded
    DEF Cmd, Work, Record, Published
  <2> QED BY <2>4 DEF Life!Next, Life!Launch
<1>9. CASE CommandEnds
  <2>1. Working /\ runner = "command" /\ runner' = "drain" /\ UNCHANGED <<asked, tree, ghost>>
    BY <1>9 DEF CommandEnds, Step, Working
  <2>2. Cmd = "yes" /\ Cmd' = "over" /\ Work' = Work /\ Record' = Record
    BY <2>1, WorkingIsPublished, WorkingUnrecorded
    DEF IInv, TypeOK, Cmd, Work, Record, Published
  <2> QED BY <2>2 DEF Life!Next, Life!End
<1>10. CASE RunnerComplete
  <2>1. Working /\ runner = "complete" /\ runner' = "exit" /\ UNCHANGED <<asked, ghost>>
    BY <1>10 DEF RunnerComplete, Step, Working
  <2>2. PICK verdict \in {"finished", "stopped"} : tree' = [tree EXCEPT !.compl = verdict]
    BY <1>10 DEF RunnerComplete, Step
  <2>3. /\ Cmd = "over" /\ Cmd' = "over" /\ Work' = Work
        /\ Record = "none" /\ Record' = verdict
    BY <2>1, <2>2, WorkingIsPublished, WorkingUnrecorded
    DEF IInv, TypeOK, TreeType, Cmd, Work, Record, Published
  <2> QED BY <2>3 DEF Life!Next, Life!Publish
<1> QED BY <1>1, <1>2, <1>3, <1>4, <1>5, <1>6, <1>7, <1>8, <1>9, <1>10 DEF Runner

\* An interrupt and a kill may end the command; nothing else of these is seen.
LEMMA LifeControl == IInv /\ Control => Life!Next \/ UNCHANGED Mapped
<1> SUFFICES ASSUME IInv, Control PROVE Life!Next \/ UNCHANGED Mapped
  OBVIOUS
<1>1. CASE Interrupt
  <2>1. tree' = [SeenTree EXCEPT !.stop = TRUE] /\ UNCHANGED <<asked, ghost>>
    BY <1>1 DEF Interrupt
  <2>2. runner' = runner \/ (RunnerLive /\ runner' = "gone")
    BY <1>1 DEF Interrupt
  <2>3. /\ tree'.leaf = tree.leaf /\ tree'.work = tree.work
        /\ tree'.compl = tree.compl /\ tree'.prep = tree.prep
        /\ tree'.ident = "snapshot-pending" <=> tree.ident = "snapshot-pending"
    BY <2>1, SeenTyped, SeenFields DEF IInv, TreeType
  <2> QED BY <2>1, <2>2, <2>3, DeathEnds
<1>2. CASE KillBegin \/ ObserveBegin \/ EnsureShell
  <2>1. UNCHANGED <<asked, ghost, runner>>
    BY <1>2 DEF KillBegin, ObserveBegin, EnsureShell
  <2>2. tree' = [SeenTree EXCEPT !.stop = TRUE] \/ tree' = SeenTree \/ tree' = tree
    BY <1>2 DEF KillBegin, ObserveBegin, EnsureShell
  <2>3. Unseen
    BY <2>1, <2>2, SeenTyped, SeenFields DEF IInv, TreeType, Unseen, Published
  <2> QED BY <2>3, UnseenStutters
<1>3. CASE KillFinish
  <2>1. UNCHANGED <<tree, asked, ghost>>
    BY <1>3 DEF KillFinish
  <2>2. runner' = runner \/ (RunnerLive /\ runner' = "gone")
    BY <1>3 DEF KillFinish, KillOwnedSession, KillSession
  <2> QED BY <2>1, <2>2, DeathEnds
<1>4. CASE ObserveResults \/ ObserveState \/ ObserveAgain
  <2>1. UNCHANGED <<tree, asked, ghost, runner>>
    BY <1>4 DEF ObserveResults, ObserveState, ObserveAgain, Answer, ObserveOn
  <2> QED BY <2>1, UnseenStutters DEF Unseen, Published
<1> QED BY <1>1, <1>2, <1>3, <1>4 DEF Control

\* The deletion is seen when the tree leaves its published name.
LEMMA LifeDelete == IInv /\ Delete => Life!Next \/ UNCHANGED Mapped
<1> SUFFICES ASSUME IInv, Delete PROVE Life!Next \/ UNCHANGED Mapped
  OBVIOUS
<1>1. CASE DeleteBegin
  <2>1. asked' /\ UNCHANGED <<tree, ghost>>
    BY <1>1 DEF DeleteBegin
  <2>2. runner' = runner \/ (RunnerLive /\ runner' = "gone")
    BY <1>1 DEF DeleteBegin, KillOwnedSession, KillSession
  <2>3. CASE Published \/ asked
    <3>1. asked \in BOOLEAN
      BY DEF IInv, TypeOK
    <3> QED BY <2>1, <2>2, <2>3, <3>1, DeathEnds
  <2>4. CASE ~Published /\ ~asked
    <3>1. runner = "none" /\ runner' = "none" /\ ghost.starts = 0
      BY <2>2, <2>4 DEF IInv, Safe, NotYetCreated, Placed, Published, RunnerLive
    <3>2. Cmd = "no" /\ Cmd' = "gone" /\ Work' = "none" /\ Record' = "none"
      BY <2>1, <2>4, <3>1 DEF Cmd, Work, Record, Published
    <3> QED BY <3>2 DEF Life!Next, Life!Delete
  <2> QED BY <2>3, <2>4
<1>2. CASE DeleteMove
  <2>1. agent.pc = "d_move" /\ UNCHANGED <<runner, asked, ghost>>
    BY <1>2 DEF DeleteMove
  <2>2. asked /\ Published /\ runner # "command"
    BY <2>1 DEF IInv, Safe, NotYetCreated, Placed, Sessioned, RunnerLive, Creating, Published
  <2>3. tree'.leaf = "quarantine"
    BY <1>2 DEF DeleteMove, IInv, TypeOK, TreeType
  <2>4. Cmd # "yes" /\ Cmd' = "gone" /\ Work' = "none" /\ Record' = "none"
    BY <2>1, <2>2, <2>3 DEF Cmd, Work, Record, Published
  <2> QED BY <2>4 DEF Life!Next, Life!Delete
<1>3. CASE DeleteEmpty \/ DeleteRmdir
  <2>1. ~Published /\ UNCHANGED <<runner, asked, ghost>>
    BY <1>3 DEF DeleteEmpty, DeleteRmdir, IInv, Safe, NotYetCreated, Placed, Creating,
                Published
  <2>2. tree'.leaf # "run"
    BY <1>3 DEF DeleteEmpty, DeleteRmdir, NoTree
  <2> QED BY <2>1, <2>2, UnseenStutters DEF Unseen, Published
<1>4. CASE DeleteFails
  <2>1. /\ UNCHANGED <<runner, asked, ghost>>
        /\ tree' = tree \/ (agent.pc \in {"d_empty", "d_rmdir"} /\ tree'.leaf = "quarantine")
    BY <1>4 DEF DeleteFails, NoTree
  <2>2. agent.pc \in {"d_empty", "d_rmdir"} => ~Published
    BY DEF IInv, Safe, NotYetCreated, Placed, Creating, Published
  <2> QED BY <2>1, <2>2, UnseenStutters DEF Unseen, Published
<1> QED BY <1>1, <1>2, <1>3, <1>4 DEF Delete

\* Of the faults only the loss of tmux is seen, as the end of the command.
LEMMA LifeFaults ==
  IInv /\ (AgentDies \/ TmuxDies) => Life!Next \/ UNCHANGED Mapped
<1>1. ASSUME IInv, AgentDies PROVE UNCHANGED Mapped
  <2>1. UNCHANGED <<tree, asked, runner, ghost>>
    BY <1>1 DEF AgentDies
  <2> QED BY <2>1, UnseenStutters DEF Unseen, Published
<1>2. ASSUME IInv, TmuxDies PROVE Life!Next \/ UNCHANGED Mapped
  <2>1. UNCHANGED <<tree, asked, ghost>>
    BY <1>2 DEF TmuxDies
  <2>2. runner' = runner \/ (RunnerLive /\ runner' = "gone")
    BY <1>2 DEF TmuxDies, KillSession
  <2> QED BY <1>2, <2>1, <2>2, DeathEnds
<1> QED BY <1>1, <1>2

\* The run on a Node implements the abstract run, for any size of the source and
\* any number of agent crashes and losses of tmux: the command starts at most
\* once, in a source that was committed as a whole and never after a refusal, and
\* no record is taken back (NodeRemoteRunRuntime and its runner script).
THEOREM NodeImplementsRunLife == Spec => ImplementsRunLife
<1>1. Init => Life!Init
  BY EntriesAssumption DEF Init, NoTree, Life!Init, Work, Cmd, Record, Published
<1>2. IInv /\ [Next]_vars => [Life!Next]_(Life!vars)
  <2> SUFFICES ASSUME IInv, [Next]_vars PROVE Life!Next \/ UNCHANGED Mapped
    BY DEF Life!vars, Mapped
  <2>1. CASE Next
    BY <2>1, LifeCreate, LifeSnapshot, LifeStart, LifeRunner, LifeControl, LifeDelete,
       LifeFaults DEF Next
  <2>2. CASE UNCHANGED vars
    BY <2>2 DEF vars, Mapped, Work, Cmd, Record, Published
  <2> QED BY <2>1, <2>2
<1> QED BY <1>1, <1>2, Invariance, PTL DEF Spec, ImplementsRunLife, Life!Spec

=============================================================================
