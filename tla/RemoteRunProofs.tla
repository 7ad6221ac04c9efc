-------------------------- MODULE RemoteRunProofs --------------------------
(***************************************************************************)
(* Proofs about RemoteRun for every source kind and any number of crashes, *)
(* reboots, requests and uploads: its types, that a terminal outcome is    *)
(* never rewritten, that the command is executed at most once, that a      *)
(* closed row tells the truth about the run, and that the SSH target       *)
(* implements RunLife. The last two assume that pages are opened only of   *)
(* runs that do not wait for an upload (Pages # "all"): otherwise a slow   *)
(* read can put a started run back to waiting for its ZIP.                 *)
(***************************************************************************)
EXTENDS RemoteRun, TLAPS

-----------------------------------------------------------------------------
(* What an update may do to the row *)

\* The row stays typed; a terminal, deleted or absent row keeps its state and
\* an active one becomes active or terminal.
Advances(r, new) ==
  /\ new \in RowType
  /\ r.st \notin Active => new.st = r.st
  /\ r.st \in Active => new.st \in Active \cup Terminal

\* transition_remote_run, guarded by active states, advances the row.
LEMMA TransitionAdvances ==
  ASSUME NEW r \in RowType, NEW expected \in SUBSET Active,
         NEW new \in RowType, new.st \in Active \cup Terminal
  PROVE  Advances(r, Transition(r, expected, new))
BY DEF Advances, Transition, Active, Terminal

\* Closing a run advances its row.
LEMMA CloseAdvances ==
  ASSUME NEW r \in RowType, NEW st \in Terminal, NEW err \in Errors
  PROVE  Advances(r, Close(r, st, err))
<1> DEFINE new == [r EXCEPT !.st = st, !.ph = "none", !.err = err]
<1>1. new \in RowType /\ new.st \in Terminal
  BY DEF RowType, RowStates, Phases, Terminal
<1> QED BY <1>1, TransitionAdvances DEF Close

\* _apply_remote_status advances the row whatever was seen and reported.
LEMMA ApplyStatusAdvances ==
  ASSUME NEW r \in RowType, NEW seen, seen.st \in RowStates, seen.ph \in Phases,
         NEW out \in Reports
  PROVE  Advances(r, ApplyStatus(r, seen, out))
<1>1. CASE seen.st \in Terminal \/ out \in {"none", "missing", "pane_only"}
  <2>1. ApplyStatus(r, seen, out) = r
    BY <1>1 DEF ApplyStatus, Terminal
  <2> QED BY <2>1 DEF Advances, RowType, RowStates
<1>2. CASE seen.st \notin Terminal /\ out = "cloning"
  <2> DEFINE new == [r EXCEPT !.ph = "cloning", !.err = "none"]
  <2>1. ApplyStatus(r, seen, out) = Transition(r, {"preparing"}, new)
    BY <1>2 DEF ApplyStatus, Terminal
  <2>2. new \in RowType /\ new.st = r.st
    BY DEF RowType, Phases, Errors
  <2> HIDE DEF new
  <2> QED BY <2>1, <2>2 DEF Transition, Advances, Active, Terminal, RowType, RowStates
<1>3. CASE seen.st \notin Terminal /\ out = "preparing"
  <2> DEFINE new == [r EXCEPT !.ph = seen.ph]
  <2>1. ApplyStatus(r, seen, out) = Transition(r, {"preparing"}, new)
    BY <1>3 DEF ApplyStatus, Terminal
  <2>2. new \in RowType /\ new.st = r.st
    BY DEF RowType
  <2> HIDE DEF new
  <2> QED BY <2>1, <2>2 DEF Transition, Advances, Active, Terminal, RowType, RowStates
<1>4. CASE seen.st \notin Terminal /\ out = "running"
  <2> DEFINE new == [r EXCEPT !.st = "running", !.ph = "none", !.err = "none"]
  <2>1. ApplyStatus(r, seen, out) = Transition(r, Active, new)
    BY <1>4 DEF ApplyStatus, Terminal
  <2>2. new \in RowType /\ new.st = "running"
    BY DEF RowType, Phases, Errors, RowStates, Active
  <2> HIDE DEF new
  <2> QED BY <2>1, <2>2, TransitionAdvances DEF Active
<1>5. CASE seen.st \notin Terminal /\ out \in Terminal
  <2>1. ApplyStatus(r, seen, out)
          = Close(r, out, IF out = "failed" THEN "other" ELSE "none")
    BY <1>5 DEF ApplyStatus, Terminal
  <2> QED BY <1>5, <2>1, CloseAdvances DEF Errors
<1> QED BY <1>1, <1>2, <1>3, <1>4, <1>5 DEF Reports, Terminal

\* _apply_remote_observation advances the row.
LEMMA ApplyObservationAdvances ==
  ASSUME NEW r \in RowType, NEW seen, seen.st \in RowStates, seen.ph \in Phases,
         NEW out \in Reports
  PROVE  Advances(r, ApplyObservation(r, seen, out))
<1>1. Advances(r, r)
  BY DEF Advances, RowType, RowStates
<1>2. Advances(r, ApplyStatus(r, seen, "lost"))
  BY ApplyStatusAdvances DEF Reports, Terminal
<1>3. Advances(r, ApplyStatus(r, seen, out))
  BY ApplyStatusAdvances
<1> QED BY <1>1, <1>2, <1>3 DEF ApplyObservation

\* _record_preparation_failure advances the row.
LEMMA PreparationFailedAdvances ==
  ASSUME NEW r \in RowType, NEW cancelled \in BOOLEAN
  PROVE  Advances(r, PreparationFailed(r, cancelled))
<1> DEFINE new == [r EXCEPT !.st = IF cancelled THEN "stopped" ELSE "failed",
                            !.ph = "none",
                            !.err = IF cancelled THEN "cancelled" ELSE "other"]
<1>1. new \in RowType /\ new.st \in Terminal
  BY DEF RowType, RowStates, Phases, Errors, Terminal
<1> QED BY <1>1, TransitionAdvances DEF PreparationFailed, Active

-----------------------------------------------------------------------------
(* Types *)

\* Losing the session, the runner or an interrupt leaves a typed target.
LEMMA TargetTypes ==
  ASSUME NEW t \in TargetType
  PROVE  /\ KillSession(t) \in TargetType
         /\ RunnerDies(t) \in TargetType
         /\ Interrupted(t) \subseteq TargetType
<1>1. KillSession(t) \in TargetType
  BY DEF TargetType, KillSession, Sessions, Runners
<1>2. RunnerDies(t) \in TargetType
  BY DEF TargetType, RunnerDies, Sessions, Runners
<1> QED BY <1>1, <1>2 DEF Interrupted

\* A finished read is a typed read.
LEMMA DoneType ==
  ASSUME NEW r \in ReadType, NEW out \in Reports
  PROVE  Done(r, out) \in ReadType
BY DEF ReadType, Done, IdleRead, ReadSteps, Reports

\* An idle or a starting read is typed.
LEMMA IdleTypes ==
  /\ IdleRead \in ReadType
  /\ [IdleRead EXCEPT !.step = "sample"] \in ReadType
  /\ [IdleRead EXCEPT !.step = "failed"] \in ReadType
  /\ IdleObs \in ObsType
  /\ IdleCtl \in CtlType
BY DEF ReadType, IdleRead, ReadSteps, Reports, ObsType, IdleObs, CtlType, IdleCtl,
       RowStates, Phases

\* The upload steps keep the types.
LEMMA TypeUploading == TypeOK /\ Uploading => TypeOK'
<1> SUFFICES ASSUME TypeOK, Uploading PROVE TypeOK'
  OBVIOUS
<1> USE DEF TypeOK, zip, watch
<1>1. CASE UploadBegin
  <2>1. row' \in RowType
    BY <1>1 DEF UploadBegin, TransitionPhase, RowType, Phases
  <2> QED BY <1>1, <2>1 DEF UploadBegin
<1>2. CASE UploadStored
  BY <1>2 DEF UploadStored
<1>3. CASE UploadDone
  <2>1. row' \in RowType
    BY <1>3 DEF UploadDone, TransitionPhase, RowType, Phases
  <2> QED BY <1>3, <2>1 DEF UploadDone, PrepSteps
<1>4. CASE UploadFails
  <2>1. row' \in RowType
    BY <1>4 DEF UploadFails, TransitionPhase, RowType, Phases
  <2> QED BY <1>4, <2>1 DEF UploadFails
<1>5. CASE UploadExpires
  <2>1. row' \in RowType
    BY <1>5 DEF UploadExpires, RowType, Phases, RowStates
  <2> QED BY <1>5, <2>1 DEF UploadExpires
<1> QED BY <1>1, <1>2, <1>3, <1>4, <1>5 DEF Uploading

\* The steps of the preparation thread keep the types.
LEMMA TypePreparation == TypeOK /\ Preparation => TypeOK'
<1> SUFFICES ASSUME TypeOK, Preparation PROVE TypeOK'
  OBVIOUS
<1> USE DEF TypeOK, zip, watch
<1>1. CASE Create
  <2>1. row' \in RowType
    BY <1>1 DEF Create, RowType, Phases, RowStates, Active, SourceKinds
  <2> QED BY <1>1, <2>1 DEF Create, PrepSteps
<1>2. CASE Schedule
  BY <1>2 DEF Schedule, PrepSteps
<1>3. CASE PrepBegin
  BY <1>3 DEF PrepBegin, PrepSteps
<1>4. CASE PrepLayout
  <2>1. tgt' \in TargetType
    BY <1>4 DEF PrepLayout, TargetType
  <2>2. prep' \in PrepSteps
    BY <1>4 DEF PrepLayout, PrepSteps, SourceKinds
  <2> QED BY <1>4, <2>1, <2>2 DEF PrepLayout
<1>5. CASE PrepCopying
  <2>1. row' \in RowType
    BY <1>5 DEF PrepCopying, Transition, RowType, Phases
  <2> QED BY <1>5, <2>1 DEF PrepCopying, PrepSteps
<1>6. CASE PrepCopy
  BY <1>6 DEF PrepCopy, PrepSteps
<1>7. CASE PrepCommit
  <2>1. tgt' \in TargetType
    BY <1>7 DEF PrepCommit, TargetType
  <2> QED BY <1>7, <2>1 DEF PrepCommit, PrepSteps
<1>8. CASE PrepMark
  <2>1. row' \in RowType
    BY <1>8 DEF PrepMark, RowType, Phases, Errors
  <2> QED BY <1>8, <2>1 DEF PrepMark, PrepSteps
<1>9. CASE PrepCheck
  BY <1>9 DEF PrepCheck, PrepSteps
<1>10. CASE PrepExec
  BY <1>10 DEF PrepExec, PrepSteps, ScriptSteps
<1>11. CASE PrepAck
  <2>1. row' \in RowType
    BY <1>11 DEF PrepAck, Transition, RowType, Phases, Errors
  <2> QED BY <1>11, <2>1 DEF PrepAck, PrepSteps, ScriptSteps
<1>12. CASE PrepStatusUnknown
  BY <1>12, IdleTypes DEF PrepStatusUnknown, PrepSteps, Readers
<1>13. CASE PrepReconciled
  <2> DEFINE out == rd["prep"].out
             new == ApplyStatus(row, row, out)
  <2>1. rd["prep"] \in ReadType /\ out \in Reports
    BY DEF Readers, ReadType
  <2>2. new \in RowType
    BY <2>1, ApplyStatusAdvances DEF Advances, RowType
  <2>3. Transition(new, {"preparing"},
          [new EXCEPT !.err = "start_status_unknown",
                      !.ph = IF @ = "none" THEN "starting" ELSE @]) \in RowType
    <3> HIDE DEF new
    <3> QED BY <2>2 DEF Transition, RowType, Phases, Errors
  <2>4. row' \in RowType
    BY <1>13, <2>2, <2>3 DEF PrepReconciled
  <2> QED BY <1>13, <2>4, IdleTypes DEF PrepReconciled, PrepSteps, Readers
<1>14. CASE PrepError
  BY <1>14 DEF PrepError, PrepSteps
<1>15. CASE PrepFail
  <2>1. row' \in RowType
    BY <1>15, PreparationFailedAdvances DEF PrepFail, Advances
  <2> QED BY <1>15, <2>1 DEF PrepFail, PrepSteps
<1> QED BY <1>1, <1>2, <1>3, <1>4, <1>5, <1>6, <1>7, <1>8, <1>9, <1>10, <1>11,
           <1>12, <1>13, <1>14, <1>15 DEF Preparation

\* The launch script, the runner and the loss of either keep the types.
LEMMA TypeTarget == TypeOK /\ Target => TypeOK'
<1> SUFFICES ASSUME TypeOK, Target PROVE TypeOK'
  OBVIOUS
<1> USE DEF TypeOK, zip, watch
<1>1. CASE ScriptCheckSession
  BY <1>1 DEF ScriptCheckSession, ScriptSteps
<1>2. CASE ScriptNewSession
  <2>1. tgt' \in TargetType
    BY <1>2 DEF ScriptNewSession, TargetType, Sessions
  <2> QED BY <1>2, <2>1 DEF ScriptNewSession, ScriptSteps
<1>3. CASE ScriptRespawn
  <2>1. [tgt EXCEPT !.sess = IF @ \in {"bare", "hidden"} THEN "hidden" ELSE "run",
                    !.runner = IF kind = "git" THEN "git_state" ELSE "check"]
          \in TargetType
    BY DEF TargetType, Sessions, Runners
  <2>2. tgt' \in TargetType
    BY <1>3, <2>1, TargetTypes DEF ScriptRespawn
  <2> QED BY <1>3, <2>2 DEF ScriptRespawn, ScriptSteps
<1>4. CASE ScriptEnds
  BY <1>4 DEF ScriptEnds, ScriptSteps
<1>5. CASE ScriptKilled
  BY <1>5 DEF ScriptKilled, ScriptSteps
<1>6. CASE Reboot
  BY <1>6, TargetTypes DEF Reboot
<1>7. CASE RunnerSteps
  <2>1. ASSUME NEW pc, NEW t \in TargetType, RunnerStep(pc, t) PROVE TypeOK'
    BY <2>1 DEF RunnerStep
  <2>2. ASSUME NEW result \in {"failed", "stopped"} PROVE Refuse(result) \in TargetType
    <3>1. [tgt EXCEPT !.prepres = result] \in TargetType
      BY DEF TargetType
    <3> QED BY <3>1, TargetTypes DEF Refuse
  <2>3. CASE BootstrapState
    <3>1. [tgt EXCEPT !.state = "cloning", !.runner = "git_check"] \in TargetType
      BY DEF TargetType, Runners
    <3> QED BY <2>1, <2>3, <3>1 DEF BootstrapState
  <2>4. ASSUME NEW pc \in Runners
        PROVE  [tgt EXCEPT !.runner = pc] \in TargetType
    BY DEF TargetType
  <2>5. CASE BootstrapCheck
    BY <2>1, <2>2, <2>4, <2>5 DEF BootstrapCheck, Runners
  <2>6. CASE BootstrapClone
    BY <2>1, <2>4, <2>6 DEF BootstrapClone, Runners
  <2>7. CASE BootstrapCloneFails
    BY <2>1, <2>2, <2>7 DEF BootstrapCloneFails
  <2>8. CASE BootstrapCommit
    <3>1. [tgt EXCEPT !.work = TRUE, !.runner = "git_running"] \in TargetType
      BY DEF TargetType, Runners
    <3> QED BY <2>1, <2>2, <2>8, <3>1 DEF BootstrapCommit
  <2>9. CASE BootstrapRunning
    <3>1. [tgt EXCEPT !.state = "running", !.runner = "check"] \in TargetType
      BY DEF TargetType, Runners
    <3> QED BY <2>1, <2>9, <3>1 DEF BootstrapRunning
  <2>10. CASE RunnerCheck
    BY <2>1, <2>2, <2>4, <2>10 DEF RunnerCheck, Runners
  <2>11. CASE RunnerRejects
    BY <2>1, <2>2, <2>11 DEF RunnerRejects
  <2>12. CASE RunnerState
    <3>1. [tgt EXCEPT !.state = "running", !.runner = "launch"] \in TargetType
      BY DEF TargetType, Runners
    <3> QED BY <2>1, <2>12, <3>1 DEF RunnerState
  <2>13. CASE RunnerLaunch
    BY <2>4, <2>13 DEF RunnerLaunch, Runners
  <2>14. CASE CommandEnds
    BY <2>1, <2>4, <2>14 DEF CommandEnds, Runners
  <2>15. CASE RunnerComplete
    <3>1. [tgt EXCEPT !.runner = IF tgt.stop THEN "pub_stopped" ELSE "pub_finished"]
            \in TargetType
      BY <2>4 DEF Runners
    <3> QED BY <2>1, <2>15, <3>1 DEF RunnerComplete
  <2>16. CASE RunnerPublish
    <3>1. tgt' \in TargetType
      BY <2>16 DEF RunnerPublish, TargetType, Runners
    <3> QED BY <2>16, <3>1 DEF RunnerPublish
  <2>17. CASE RunnerExit
    BY <2>1, <2>17, TargetTypes DEF RunnerExit
  <2>18. CASE RunnerLosesRoot
    BY <2>18, TargetTypes DEF RunnerLosesRoot
  <2> QED BY <1>7, <2>3, <2>5, <2>6, <2>7, <2>8, <2>9, <2>10, <2>11, <2>12, <2>13,
             <2>14, <2>15, <2>16, <2>17, <2>18 DEF RunnerSteps
<1> QED BY <1>1, <1>2, <1>3, <1>4, <1>5, <1>6, <1>7 DEF Target

\* The steps of a status read keep the types.
LEMMA TypeReading == TypeOK /\ Reading => TypeOK'
<1> SUFFICES ASSUME TypeOK, NEW p \in Readers, ReadOn(p) \/ ReadFails(p)
             PROVE  TypeOK'
  BY DEF Reading
<1> USE DEF TypeOK, zip, watch
<1>1. ASSUME NEW step, NEW learned \in ReadType, Read(p, step, learned)
      PROVE  TypeOK'
  BY <1>1 DEF Read
<1>2. rd[p] \in ReadType
  OBVIOUS
<1>3. tgt.compl # "none" => tgt.compl \in Reports
  BY DEF TargetType, Reports, Terminal
<1>4. tgt.prepres # "none" => tgt.prepres \in Reports
  BY DEF TargetType, Reports, Terminal
<1>5. LivePhase(tgt.state) \in Reports /\ LivePhase(rd[p].state) \in Reports
  BY <1>2 DEF LivePhase, TargetType, ReadType, Reports
<1>6. CASE ReadSample(p)
  <2> DEFINE r == [rd[p] EXCEPT !.live = PaneLive(tgt), !.exists = tgt.sess # "none"]
  <2>1. r \in ReadType /\ [r EXCEPT !.step = "results"] \in ReadType
    <3>1. PaneLive(tgt) \in BOOLEAN
      BY DEF PaneLive
    <3> HIDE DEF PaneLive
    <3>2. r \in ReadType
      BY <1>2, <3>1 DEF ReadType
    <3> HIDE DEF r
    <3> QED BY <3>2 DEF ReadType, ReadSteps
  <2>2. Done(r, IF r.live THEN "pane_only" ELSE "missing") \in ReadType
    <3> HIDE DEF r
    <3> QED BY <2>1, DoneType DEF Reports
  <2> HIDE DEF r
  <2>3. Read(p, "sample", IF tgt.layout THEN [r EXCEPT !.step = "results"]
               ELSE Done(r, IF r.live THEN "pane_only" ELSE "missing"))
    BY <1>6 DEF ReadSample, r
  <2> QED BY <1>1, <2>1, <2>2, <2>3
<1>7. CASE ReadResults(p)
  <2>1. [rd[p] EXCEPT !.step = "state"] \in ReadType
    BY <1>2 DEF ReadType, ReadSteps
  <2> DEFINE learned ==
        CASE tgt.compl # "none" -> Done(rd[p], tgt.compl)
          [] tgt.compl = "none" /\ tgt.prepres # "none" -> Done(rd[p], tgt.prepres)
          [] tgt.compl = "none" /\ tgt.prepres = "none" ->
               [rd[p] EXCEPT !.step = "state"]
  <2>2. learned \in ReadType
    BY <1>2, <1>3, <1>4, <2>1, DoneType
  <2>3. Read(p, "results", learned)
    BY <1>7 DEF ReadResults
  <2> HIDE DEF learned
  <2> QED BY <1>1, <2>2, <2>3
<1>8. CASE ReadState(p)
  <2>1. [rd[p] EXCEPT !.state = tgt.state,
                      !.step = IF tgt.state = "none" THEN "stop" ELSE "resample"]
          \in ReadType
    BY <1>2 DEF ReadType, ReadSteps, TargetType
  <2> DEFINE learned ==
        CASE rd[p].live -> Done(rd[p], LivePhase(tgt.state))
          [] ~rd[p].live -> [rd[p] EXCEPT !.state = tgt.state,
                               !.step = IF tgt.state = "none" THEN "stop"
                                        ELSE "resample"]
  <2>2. learned \in ReadType
    BY <1>2, <1>5, <2>1, DoneType
  <2>3. Read(p, "state", learned)
    BY <1>8 DEF ReadState
  <2> HIDE DEF learned
  <2> QED BY <1>1, <2>2, <2>3
<1>9. CASE ReadStop(p)
  BY <1>1, <1>2, <1>9, DoneType DEF ReadStop, Reports, Terminal
<1>10. CASE ReadResample(p)
  <2> DEFINE r == [rd[p] EXCEPT !.exists = tgt.sess # "none"]
  <2>1. r \in ReadType /\ [r EXCEPT !.step = "reread"] \in ReadType
    BY <1>2 DEF ReadType, ReadSteps
  <2>2. Done(r, LivePhase(rd[p].state)) \in ReadType
    BY <1>5, <2>1, DoneType
  <2> HIDE DEF r
  <2>3. Read(p, "resample", IF PaneLive(tgt) THEN Done(r, LivePhase(rd[p].state))
               ELSE [r EXCEPT !.step = "reread"])
    BY <1>10 DEF ReadResample, r
  <2> QED BY <1>1, <2>1, <2>2, <2>3
<1>11. CASE ReadAgain(p)
  <2> DEFINE out ==
        CASE tgt.compl # "none" -> tgt.compl
          [] tgt.compl = "none" /\ tgt.prepres # "none" -> tgt.prepres
          [] tgt.compl = "none" /\ tgt.prepres = "none" ->
               CASE tgt.stop -> "stopped"
                 [] ~tgt.stop /\ tgt.state = "running" -> "lost"
                 [] ~tgt.stop /\ tgt.state = "cloning" -> "failed"
                 [] ~tgt.stop /\ tgt.state = "none" -> "preparing"
  <2>1. out \in Reports
    BY <1>3, <1>4 DEF TargetType, Reports, Terminal
  <2>2. Read(p, "reread", Done(rd[p], out))
    BY <1>11 DEF ReadAgain
  <2> HIDE DEF out
  <2> QED BY <1>1, <1>2, <2>1, <2>2, DoneType
<1>12. CASE ReadFails(p)
  BY <1>12, IdleTypes DEF ReadFails
<1> QED BY <1>6, <1>7, <1>8, <1>9, <1>10, <1>11, <1>12 DEF ReadOn

\* The steps of whoever holds the run's lock, and of the startup scan, keep the
\* types.
LEMMA TypeObserving == TypeOK /\ Observing => TypeOK'
<1> SUFFICES ASSUME TypeOK, Observing PROVE TypeOK'
  OBVIOUS
<1> USE DEF TypeOK, zip, watch
<1>1. ASSUME NEW mode \in {"reconcile", "poll", "startup"}, ObsBegin(mode)
      PROVE  obs' \in ObsType /\ rd' \in [Readers -> ReadType]
  BY <1>1, IdleTypes DEF ObsBegin, ObsType, RowType
<1>2. CASE Reconcile
  BY <1>1, <1>2 DEF Reconcile
<1>3. CASE Poll
  BY <1>1, <1>3 DEF Poll
<1>4. CASE PollTerminal
  <2>1. obs' \in ObsType
    BY <1>4 DEF PollTerminal, ObsType
  <2> QED BY <1>4, <2>1 DEF PollTerminal
<1>5. CASE StartupScan
  BY <1>1, <1>5 DEF StartupScan, StartupSteps
<1>6. CASE ObsApply
  <2>1. rd["obs"] \in ReadType /\ rd["obs"].out \in Reports
    BY DEF Readers, ReadType
  <2>2. row' \in RowType
    BY <1>6, <2>1, ApplyObservationAdvances DEF ObsApply, Advances, ObsType
  <2>3. obs' \in ObsType
    <3>1. [obs EXCEPT !.pc = "bridge"] \in ObsType
      BY DEF ObsType
    <3> QED BY <1>6, <3>1, IdleTypes DEF ObsApply
  <2>4. rd' \in [Readers -> ReadType]
    BY <1>6, IdleTypes DEF ObsApply
  <2>5. startup' \in StartupSteps /\ mark' \in {"none", "seen", "lost"}
    BY <1>6 DEF ObsApply, StartupSteps
  <2> QED BY <1>6, <2>2, <2>3, <2>4, <2>5 DEF ObsApply
<1>7. CASE ObsOffline
  <2>1. startup' \in StartupSteps
    BY <1>7 DEF ObsOffline, StartupSteps
  <2> QED BY <1>7, <2>1, IdleTypes DEF ObsOffline
<1>8. CASE ReadBreaks
  <2>1. /\ startup' \in StartupSteps /\ observer' \in BOOLEAN
        /\ rd' \in [Readers -> ReadType] /\ obs' \in ObsType
    BY <1>8, IdleTypes DEF ReadBreaks, StartupSteps
  <2>2. count' \in [crashes: Nat, reboots: Nat, stops: Nat, kills: Nat, uploads: Nat,
                    breaks: Nat, runs: Nat]
    BY <1>8 DEF ReadBreaks
  <2> QED BY <1>8, <2>1, <2>2 DEF ReadBreaks
<1>16. CASE OtherReadBreaks
  <2>1. startup' \in StartupSteps /\ observer' \in BOOLEAN
    BY <1>16 DEF OtherReadBreaks, StartupSteps
  <2>2. count' \in [crashes: Nat, reboots: Nat, stops: Nat, kills: Nat, uploads: Nat,
                    breaks: Nat, runs: Nat]
    BY <1>16 DEF OtherReadBreaks
  <2> QED BY <1>16, <2>1, <2>2 DEF OtherReadBreaks
<1>17. CASE StartupLayout \/ StartupJudge
  BY <1>17 DEF StartupLayout, StartupJudge, StartupSteps
<1>9. CASE StartupFail
  <2>1. row' \in RowType
    BY <1>9, PreparationFailedAdvances DEF StartupFail, Advances
  <2> QED BY <1>9, <2>1 DEF StartupFail, StartupSteps
<1>10. CASE Bridge
  <2>1. row' \in RowType
    BY <1>10 DEF Bridge, RowType
  <2>2. tgt' \in TargetType
    BY <1>10 DEF Bridge, TargetType, Sessions
  <2> QED BY <1>10, <2>1, <2>2, IdleTypes DEF Bridge
<1>11. CASE DeleteBegin
  <2>1. obs' \in ObsType
    BY <1>11 DEF DeleteBegin, ObsType
  <2> QED BY <1>11, <2>1 DEF DeleteBegin
<1>12. CASE DeleteKill
  <2>1. obs' \in ObsType
    BY <1>12 DEF DeleteKill, ObsType
  <2> QED BY <1>12, <2>1, TargetTypes DEF DeleteKill
<1>13. CASE DeleteRoot
  <2>1. obs' \in ObsType
    BY <1>13 DEF DeleteRoot, ObsType
  <2>2. tgt' \in TargetType
    BY <1>13 DEF DeleteRoot, TargetType
  <2> QED BY <1>13, <2>1, <2>2 DEF DeleteRoot
<1>14. CASE DeleteFails
  BY <1>14, IdleTypes DEF DeleteFails
<1>15. CASE DeleteRow
  <2>1. row' \in RowType
    BY <1>15 DEF DeleteRow, RowType, RowStates
  <2> QED BY <1>15, <2>1, IdleTypes DEF DeleteRow
<1> QED BY <1>2, <1>3, <1>4, <1>5, <1>6, <1>7, <1>8, <1>9, <1>10, <1>11, <1>12,
           <1>13, <1>14, <1>15, <1>16, <1>17 DEF Observing, Deletion

\* The steps of stop() and kill() keep the types.
LEMMA TypeControl == TypeOK /\ Control => TypeOK'
<1> SUFFICES ASSUME TypeOK, Control PROVE TypeOK'
  OBVIOUS
<1> USE DEF TypeOK, zip, watch
<1>1. ASSUME NEW op \in {"stop", "kill"}, CtlBegin(op) PROVE TypeOK'
  <2>1. row' \in RowType
    BY <1>1 DEF CtlBegin, RowType
  <2>2. PrepLive \in BOOLEAN
    BY DEF PrepLive
  <2>3. ctl' \in CtlType
    BY <1>1, <2>2 DEF CtlBegin, CtlType, RowType
  <2> QED BY <1>1, <2>1, <2>2, <2>3 DEF CtlBegin
<1>2. ASSUME NEW st \in Terminal, NEW err \in Errors
      PROVE  Close(row, st, err) \in RowType
  BY <1>2, CloseAdvances DEF Advances
<1>3. CASE StopWaiting
  BY <1>2, <1>3, IdleTypes DEF StopWaiting, Terminal, Errors
<1>4. CASE StopMissing
  <2>1. row' \in RowType
    BY <1>2, <1>4 DEF StopMissing, Terminal, Errors
  <2>2. tgt' \in TargetType
    BY <1>4, TargetTypes DEF StopMissing
  <2> QED BY <1>4, <2>1, <2>2, IdleTypes DEF StopMissing
<1>5. CASE KillMissing
  <2>1. row' \in RowType
    BY <1>2, <1>5 DEF KillMissing, Terminal, Errors
  <2>2. tgt' \in TargetType
    BY <1>5, TargetTypes DEF KillMissing
  <2> QED BY <1>5, <2>1, <2>2, IdleTypes DEF KillMissing
<1>6. /\ [ctl EXCEPT !.pc = "read"] \in CtlType
      /\ [ctl EXCEPT !.pc = "publish"] \in CtlType
      /\ [ctl EXCEPT !.pc = "signal"] \in CtlType
      /\ [ctl EXCEPT !.pc = "recheck"] \in CtlType
  BY DEF CtlType
<1>7. CtlReads => rd' \in [Readers -> ReadType]
  BY IdleTypes DEF CtlReads
<1>8. CASE CtlInspect
  BY <1>6, <1>7, <1>8 DEF CtlInspect
<1>9. CASE CtlPublish
  <2>1. tgt' \in TargetType
    BY <1>9 DEF CtlPublish, TargetType
  <2> QED BY <1>6, <1>9, <2>1 DEF CtlPublish
<1>10. CASE StopSignal
  <2>1. tgt' \in TargetType
    BY <1>10, TargetTypes DEF StopSignal
  <2> QED BY <1>6, <1>7, <1>10, <2>1, IdleTypes DEF StopSignal
<1>11. CASE KillSignal
  BY <1>6, <1>11, TargetTypes DEF KillSignal
<1>12. CASE KillRecheck
  <2>1. row' \in RowType
    BY <1>2, <1>12 DEF KillRecheck, Terminal, Errors
  <2> QED BY <1>6, <1>7, <1>12, <2>1, IdleTypes DEF KillRecheck
<1>13. CASE CtlApply
  <2>1. rd["ctl"] \in ReadType /\ rd["ctl"].out \in Reports
    BY DEF Readers, ReadType
  <2>2. row' \in RowType
    BY <1>13, <2>1, ApplyStatusAdvances DEF CtlApply, Advances, RowType
  <2> QED BY <1>13, <2>2, IdleTypes DEF CtlApply
<1>14. CASE CtlFails
  BY <1>14, IdleTypes DEF CtlFails
<1> QED BY <1>1, <1>3, <1>4, <1>5, <1>8, <1>9, <1>10, <1>11, <1>12, <1>13, <1>14
        DEF Control, Stop, Kill

\* Every step keeps the types.
LEMMA TypeStep == TypeOK /\ [Next]_vars => TypeOK'
<1> SUFFICES ASSUME TypeOK, [Next]_vars PROVE TypeOK'
  OBVIOUS
<1>1. CASE Shutdown
  BY <1>1 DEF Shutdown, TypeOK, zip, watch
<1>2. CASE Crash
  <2>2. /\ startup' \in StartupSteps /\ cancel' \in BOOLEAN /\ observer' \in BOOLEAN
        /\ mark' \in {"none", "seen", "lost"}
    BY <1>2 DEF Crash, StartupSteps, TypeOK
  <2>3. rd' \in [Readers -> ReadType]
    BY <1>2, IdleTypes DEF Crash
  <2> QED BY <1>2, <2>2, <2>3, IdleTypes DEF Crash, TypeOK, zip, watch, PrepSteps
<1>3. CASE UNCHANGED vars
  BY <1>3 DEF vars, TypeOK, zip, watch
<1> QED BY <1>1, <1>2, <1>3, TypeUploading, TypePreparation, TypeTarget,
           TypeReading, TypeObserving, TypeControl DEF Next

\* The row, the threads of the Core and the target keep their types, for every
\* source kind and any bounds.
THEOREM TypeCorrect == Spec => []TypeOK
<1>1. Init => TypeOK
  <2> SUFFICES ASSUME Init PROVE TypeOK
    OBVIOUS
  <2>1. row \in RowType
    BY DEF Init, RowType, RowStates, Phases, Errors
  <2>2. tgt \in TargetType
    BY DEF Init, TargetType, Sessions, Runners
  <2>3. rd \in [Readers -> ReadType] /\ obs \in ObsType /\ ctl \in CtlType
    BY IdleTypes DEF Init
  <2>4. /\ spool \in BOOLEAN /\ cancel \in BOOLEAN /\ observer \in BOOLEAN
        /\ startup \in StartupSteps /\ mark \in {"none", "seen", "lost"}
    BY DEF Init, StartupSteps
  <2> QED BY <2>1, <2>2, <2>3, <2>4, BudgetsAssumption
          DEF Init, TypeOK, PrepSteps, ScriptSteps, BudgetType
<1> QED BY <1>1, TypeStep, PTL DEF Spec

-----------------------------------------------------------------------------
(* Terminal outcomes *)

\* Only creation, upload expiry and deletion do more to the row than advance it.
LEMMA RowStep ==
  TypeOK /\ [Next]_vars =>
    Create \/ UploadExpires \/ DeleteRow \/ Advances(row, row')
<1> SUFFICES ASSUME TypeOK, [Next]_vars, ~Create, ~UploadExpires, ~DeleteRow
             PROVE  Advances(row, row')
  OBVIOUS
<1> USE DEF TypeOK, zip, watch
<1>1. row' \in RowType
  BY TypeStep
<1>2. ASSUME row'.st = row.st PROVE Advances(row, row')
  BY <1>1, <1>2 DEF Advances, RowType, RowStates
<1>3. ASSUME row' = row PROVE Advances(row, row')
  BY <1>2, <1>3
<1>4. CASE Uploading
  <2>1. row'.st = row.st
    BY <1>4 DEF Uploading, UploadBegin, UploadStored, UploadDone, UploadFails,
                TransitionPhase, RowType
  <2> QED BY <1>2, <2>1
<1>5. CASE Preparation
  <2>1. CASE PrepCopying \/ PrepMark \/ PrepAck
    <3>1. row'.st = row.st
      BY <2>1 DEF PrepCopying, PrepMark, PrepAck, Transition, RowType
    <3> QED BY <1>2, <3>1
  <2>2. CASE PrepReconciled
    <3> DEFINE new == ApplyStatus(row, row, rd["prep"].out)
    <3>1. rd["prep"].out \in Reports
      BY DEF Readers, ReadType
    <3>2. Advances(row, new)
      BY <3>1, ApplyStatusAdvances DEF RowType
    <3> HIDE DEF new
    <3>3. row' = new \/ row' = Transition(new, {"preparing"},
            [new EXCEPT !.err = "start_status_unknown",
                        !.ph = IF @ = "none" THEN "starting" ELSE @])
      BY <2>2 DEF PrepReconciled, new
    <3>4. row'.st = new.st
      BY <3>2, <3>3 DEF Transition, Advances, RowType
    <3> QED BY <1>1, <3>2, <3>4 DEF Advances
  <2>3. CASE PrepFail
    BY <2>3, PreparationFailedAdvances DEF PrepFail
  <2>4. CASE ~(PrepCopying \/ PrepMark \/ PrepAck \/ PrepReconciled \/ PrepFail)
    BY <1>3, <1>5, <2>4 DEF Preparation, Schedule, PrepBegin, PrepLayout, PrepCopy,
         PrepCommit, PrepCheck, PrepExec, PrepStatusUnknown, PrepError
  <2> QED BY <2>1, <2>2, <2>3, <2>4
<1>6. CASE Target
  BY <1>3, <1>6 DEF Target, ScriptCheckSession, ScriptNewSession, ScriptRespawn,
       ScriptEnds, ScriptKilled, RunnerSteps, Reboot, BootstrapState,
       BootstrapCheck, BootstrapClone, BootstrapCloneFails, BootstrapCommit,
       BootstrapRunning, RunnerCheck, RunnerRejects, RunnerState, RunnerLaunch,
       CommandEnds, RunnerComplete, RunnerPublish, RunnerExit, RunnerLosesRoot,
       RunnerStep
<1>7. CASE Reading
  BY <1>3, <1>7 DEF Reading, ReadOn, ReadFails, ReadSample, ReadResults, ReadState,
       ReadStop, ReadResample, ReadAgain, Read
<1>8. CASE Observing
  <2>1. CASE ObsApply
    <3>1. rd["obs"].out \in Reports
      BY DEF Readers, ReadType
    <3> QED BY <2>1, <3>1, ApplyObservationAdvances DEF ObsApply, ObsType
  <2>2. CASE StartupFail
    BY <2>2, PreparationFailedAdvances DEF StartupFail
  <2>3. CASE Bridge
    <3>1. row'.st = row.st
      BY <2>3 DEF Bridge, RowType
    <3> QED BY <1>2, <3>1
  <2>4. CASE ~(ObsApply \/ StartupFail \/ Bridge)
    BY <1>3, <1>8, <2>4 DEF Observing, Deletion, Reconcile, Poll, PollTerminal,
         StartupScan, ObsOffline, ReadBreaks, OtherReadBreaks, StartupLayout,
         StartupJudge, DeleteBegin, DeleteKill,
         DeleteRoot, DeleteFails
  <2> QED BY <2>1, <2>2, <2>3, <2>4
<1>9. CASE Control
  <2>1. CASE Stop \/ Kill
    <3>1. row'.st = row.st
      BY <2>1 DEF Stop, Kill, CtlBegin, RowType
    <3> QED BY <1>2, <3>1
  <2>2. ASSUME NEW st \in Terminal, NEW err \in Errors
        PROVE  Advances(row, Close(row, st, err))
    BY <2>2, CloseAdvances
  <2>3. Advances(row, row)
    BY DEF Advances, RowType, RowStates
  <2>4. CASE StopWaiting
    BY <2>2, <2>3, <2>4 DEF StopWaiting, Terminal, Errors
  <2>5. CASE StopMissing
    BY <2>2, <2>3, <2>5 DEF StopMissing, Terminal, Errors
  <2>6. CASE KillMissing
    BY <2>2, <2>3, <2>6 DEF KillMissing, Terminal, Errors
  <2>7. CASE KillRecheck
    BY <2>2, <2>3, <2>7 DEF KillRecheck, Terminal, Errors
  <2>8. CASE CtlApply
    <3>1. rd["ctl"].out \in Reports
      BY DEF Readers, ReadType
    <3> QED BY <2>8, <3>1, ApplyStatusAdvances DEF CtlApply, RowType
  <2>9. CASE CtlInspect \/ CtlPublish \/ StopSignal \/ KillSignal \/ CtlFails
    BY <1>3, <2>9 DEF CtlInspect, CtlPublish, StopSignal, KillSignal, CtlFails
  <2> QED BY <1>9, <2>1, <2>4, <2>5, <2>6, <2>7, <2>8, <2>9 DEF Control
<1>10. CASE Shutdown \/ Crash \/ UNCHANGED vars
  BY <1>3, <1>10 DEF Shutdown, Crash, vars
<1> QED BY <1>4, <1>5, <1>6, <1>7, <1>8, <1>9, <1>10 DEF Next

\* No observation, failure, request or crash rewrites a terminal outcome,
\* whatever the threads that decided it knew.
THEOREM TerminalStaysFinal == Spec => TerminalIsFinal
<1>1. TypeOK /\ [Next]_vars =>
        [row.st \in Terminal => row'.st \in {row.st, "deleted"}]_vars
  <2> SUFFICES ASSUME TypeOK, [Next]_vars, row.st \in Terminal
               PROVE  row'.st \in {row.st, "deleted"}
    OBVIOUS
  <2>1. ~Create /\ ~UploadExpires
    BY DEF Create, UploadExpires, Terminal
  <2>2. CASE DeleteRow
    BY <2>2 DEF DeleteRow, TypeOK, RowType
  <2>3. CASE Advances(row, row')
    BY <2>3 DEF Advances, Active, Terminal
  <2> QED BY <2>1, <2>2, <2>3, RowStep
<1> QED BY <1>1, TypeCorrect, PTL DEF Spec, TerminalIsFinal

-----------------------------------------------------------------------------
(* One execution of the command *)

Deleting == {"del_kill", "del_root", "del_row"}
InScript == {"new", "create", "respawn"}

\* A step that decides no start: no place that can hold a start gains one, no
\* preparation is begun or reaches its mark, and the work tree stays.
NoNewStart ==
  /\ kind' = kind /\ count'.runs = count.runs
  /\ upload = "idle" => upload' = "idle"
  /\ prep = "idle" => prep' = "idle"
  /\ prep' \in BeforeMark => prep \in BeforeMark
  /\ prep' = "mark" => prep = "mark"
  /\ prep' \in {"check", "exec"} => prep \in {"check", "exec"}
  /\ script' \in InScript => script \in InScript
  /\ tgt'.runner \in BeforeCommand => tgt.runner \in BeforeCommand
  /\ tgt.work => tgt'.work
  /\ obs'.pc \in Deleting => obs.pc \in Deleting \/ row.st \in Terminal

\* The row never becomes absent or active again.
RowOnward ==
  /\ row'.st = "absent" => row.st = "absent"
  /\ row'.st \in Active => row.st \in Active
  /\ row.st \in Terminal \cup {"deleted"} => row'.st \in Terminal \cup {"deleted"}

\* Every step but creation moves the row onward.
LEMMA RowMovesOn == TypeOK /\ [Next]_vars => Create \/ RowOnward
<1> SUFFICES ASSUME TypeOK, [Next]_vars, ~Create PROVE RowOnward
  OBVIOUS
<1>1. CASE UploadExpires \/ DeleteRow
  BY <1>1 DEF UploadExpires, DeleteRow, RowOnward, TypeOK, RowType, Active
<1>2. CASE Advances(row, row')
  BY <1>2 DEF Advances, RowOnward, Active, Terminal
<1> QED BY <1>1, <1>2, RowStep

\* Such a step keeps the account of starts.
LEMMA NoNewStartKeeps ==
  TypeOK /\ StartsOnce /\ NoNewStart /\ RowOnward => StartsOnce'
<1> SUFFICES ASSUME TypeOK, StartsOnce, NoNewStart, RowOnward
             PROVE  StartsOnce'
  OBVIOUS
<1>1. count.runs \in Nat
  BY DEF TypeOK
<1>2. Starts \in Nat /\ Starts' \in Nat /\ Starts' <= Starts
  BY <1>1 DEF Starts, NoNewStart, InScript
<1>3. Starts <= 1 => Starts' <= 1
  BY <1>2
<1>4. Starts = 0 => Starts' = 0
  BY <1>2
<1>5. Starts' > 0 => Starts > 0
  BY <1>2
<1> HIDE DEF Starts
<1> QED BY <1>3, <1>4, <1>5 DEF StartsOnce, NoNewStart, Deleting, RowOnward

\* The steps that may move or decide a start.
StartStep ==
  \/ UploadBegin \/ UploadDone \/ PrepLayout \/ PrepCommit \/ PrepMark \/ PrepExec
  \/ ScriptRespawn \/ RunnerLaunch \/ DeleteRoot

\* Every other step decides no start.
LEMMA OtherStepsStartNothing ==
  TypeOK /\ [Next]_vars => Create \/ StartStep \/ NoNewStart
<1> SUFFICES ASSUME TypeOK, [Next]_vars, ~Create, ~StartStep PROVE NoNewStart
  OBVIOUS
<1> USE DEF TypeOK, zip, watch, NoNewStart, StartStep, BeforeMark, BeforeCommand, Deleting,
            InScript
<1>1. CASE Uploading
  BY <1>1 DEF Uploading, UploadStored, UploadFails, UploadExpires
<1>2. CASE Preparation
  BY <1>2 DEF Preparation, Schedule, PrepBegin, PrepCopying, PrepCopy, PrepCheck,
       PrepAck, PrepStatusUnknown, PrepReconciled, PrepError, PrepFail
<1>3. /\ KillSession(tgt).runner \notin BeforeCommand
      /\ KillSession(tgt).work = tgt.work
      /\ RunnerDies(tgt).runner \notin BeforeCommand
      /\ RunnerDies(tgt).work = tgt.work
  BY DEF KillSession, RunnerDies, TargetType
<1>4. CASE Target
  <2>1. CASE ScriptCheckSession \/ ScriptEnds \/ ScriptKilled
    BY <2>1 DEF ScriptCheckSession, ScriptEnds, ScriptKilled
  <2>2. CASE ScriptNewSession
    BY <2>2 DEF ScriptNewSession, TargetType
  <2>3. CASE Reboot
    BY <1>3, <2>3 DEF Reboot
  <2>4. CASE RunnerSteps
    <3>1. ASSUME NEW pc, NEW t, RunnerStep(pc, t), tgt.work => t.work,
                 t.runner \in BeforeCommand => tgt.runner \in BeforeCommand
          PROVE  NoNewStart
      BY <3>1 DEF RunnerStep
    <3>2. ASSUME NEW result
          PROVE  /\ Refuse(result).runner \notin BeforeCommand
                 /\ Refuse(result).work = tgt.work
      BY DEF Refuse, RunnerDies, TargetType
    <3>3. CASE BootstrapState \/ BootstrapClone \/ BootstrapRunning
      BY <3>1, <3>3 DEF BootstrapState, BootstrapClone, BootstrapRunning, RunnerStep,
           TargetType
    <3>4. CASE BootstrapCheck \/ RunnerCheck
      BY <3>1, <3>2, <3>4 DEF BootstrapCheck, RunnerCheck, RunnerStep, TargetType
    <3>5. CASE BootstrapCloneFails \/ RunnerRejects
      BY <3>1, <3>2, <3>5 DEF BootstrapCloneFails, RunnerRejects
    <3>6. CASE BootstrapCommit
      BY <3>1, <3>2, <3>6 DEF BootstrapCommit, RunnerStep, TargetType
    <3>7. CASE RunnerState \/ CommandEnds \/ RunnerComplete
      BY <3>1, <3>7 DEF RunnerState, CommandEnds, RunnerComplete, RunnerStep, TargetType
    <3>8. CASE RunnerPublish
      BY <3>8 DEF RunnerPublish, TargetType
    <3>9. CASE RunnerExit
      BY <1>3, <3>1, <3>9 DEF RunnerExit
    <3>10. CASE RunnerLosesRoot
      BY <1>3, <3>10 DEF RunnerLosesRoot
    <3> QED BY <2>4, <3>3, <3>4, <3>5, <3>6, <3>7, <3>8, <3>9, <3>10
            DEF RunnerSteps
  <2> QED BY <1>4, <2>1, <2>2, <2>3, <2>4 DEF Target
<1>5. CASE Reading
  BY <1>5 DEF Reading, ReadOn, ReadFails, ReadSample, ReadResults, ReadState,
       ReadStop, ReadResample, ReadAgain, Read
<1>6. CASE Observing
  <2>1. CASE Reconcile \/ Poll \/ StartupScan
    BY <2>1 DEF Reconcile, Poll, StartupScan, ObsBegin
  <2>2. CASE PollTerminal \/ ObsOffline
    BY <2>2 DEF PollTerminal, ObsOffline, IdleObs, ObsType
  <2>8. CASE StartupLayout \/ StartupJudge \/ StartupFail
    BY <2>8 DEF StartupLayout, StartupJudge, StartupFail
  <2>9. CASE ReadBreaks \/ OtherReadBreaks
    BY <2>9 DEF ReadBreaks, OtherReadBreaks, IdleObs
  <2>3. CASE DeleteFails \/ DeleteRow
    <3>1. IdleObs.pc \notin Deleting
      BY DEF IdleObs
    <3>3. CASE DeleteFails
      BY <3>1, <3>3 DEF DeleteFails
    <3>4. CASE DeleteRow
      BY <3>1, <3>4 DEF DeleteRow
    <3> QED BY <2>3, <3>3, <3>4
  <2>4. CASE ObsApply
    <3>1. obs'.pc \notin Deleting
      BY <2>4 DEF ObsApply, IdleObs, ObsType
    <3> QED BY <2>4, <3>1 DEF ObsApply
  <2>5. CASE Bridge
    <3>1. tgt'.runner = tgt.runner /\ tgt'.work = tgt.work
      BY <2>5 DEF Bridge, TargetType
    <3> QED BY <2>5, <3>1 DEF Bridge, IdleObs
  <2>6. CASE DeleteBegin
    BY <2>6 DEF DeleteBegin
  <2>7. CASE DeleteKill
    BY <1>3, <2>7 DEF DeleteKill
  <2> QED BY <1>6, <2>1, <2>2, <2>3, <2>4, <2>5, <2>6, <2>7, <2>8, <2>9
          DEF Observing, Deletion
<1>7. CASE Control
  <2>1. \A t \in Interrupted(tgt) :
          /\ t.work = tgt.work
          /\ t.runner \in BeforeCommand => tgt.runner \in BeforeCommand
    BY <1>3 DEF Interrupted
  <2>2. CASE Stop \/ Kill \/ StopWaiting \/ CtlInspect \/ KillRecheck \/ CtlApply
             \/ CtlFails
    BY <2>2 DEF Stop, Kill, CtlBegin, StopWaiting, CtlInspect, KillRecheck, CtlApply,
         CtlFails
  <2>3. CASE StopMissing \/ StopSignal
    <3>1. tgt' \in Interrupted(tgt) \/ tgt' = tgt
      BY <2>3 DEF StopMissing, StopSignal
    <3> QED BY <2>1, <2>3, <3>1 DEF StopMissing, StopSignal
  <2>4. CASE KillMissing \/ KillSignal
    BY <1>3, <2>4 DEF KillMissing, KillSignal
  <2>5. CASE CtlPublish
    BY <2>5 DEF CtlPublish, TargetType
  <2> QED BY <1>7, <2>2, <2>3, <2>4, <2>5 DEF Control
<1>8. CASE Shutdown \/ UNCHANGED vars
  BY <1>8 DEF Shutdown, vars
<1>9. CASE Crash
  BY <1>9 DEF Crash, IdleObs
<1> QED BY <1>1, <1>2, <1>4, <1>5, <1>6, <1>7, <1>8, <1>9 DEF Next

\* Every step keeps the account of starts.
LEMMA StartsStep == TypeOK /\ StartsOnce /\ [Next]_vars => StartsOnce'
<1> SUFFICES ASSUME TypeOK, StartsOnce, [Next]_vars PROVE StartsOnce'
  OBVIOUS
<1>1. /\ row \in RowType /\ kind \in SourceKinds /\ tgt \in TargetType
      /\ count.runs \in Nat /\ count \in [crashes: Nat, reboots: Nat, stops: Nat, kills: Nat,
                                          uploads: Nat, breaks: Nat, runs: Nat]
  BY DEF TypeOK
<1>2. CASE NoNewStart /\ ~Create
  BY <1>2, NoNewStartKeeps, RowMovesOn
<1> USE DEF StartsOnce, Starts, BeforeMark, BeforeCommand, zip, watch
<1>3. CASE Create
  BY <1>1, <1>3 DEF Create, RowType, Active, Terminal, SourceKinds
<1>4. CASE StartStep /\ ~Create
  <2>1. RowOnward
    BY <1>4, RowMovesOn
  <2> USE DEF RowOnward
  <2>2. CASE UploadBegin
    BY <1>1, <2>1, <2>2 DEF UploadBegin
  <2>3. CASE UploadDone
    <3>1. /\ kind = "archive" /\ prep' \in {prep, "new"} /\ upload' = "idle"
          /\ row.st = "preparing"
      BY <2>3 DEF UploadDone
    <3>2. Starts \in Nat /\ Starts' \in Nat /\ Starts' <= Starts
      BY <1>1, <2>3 DEF UploadDone
    <3>3. row'.st # "absent" /\ tgt' = tgt /\ obs' = obs /\ kind' = kind
      BY <2>1, <2>3, <3>1 DEF UploadDone
    <3> HIDE DEF Starts
    <3> QED BY <2>1, <3>1, <3>2, <3>3 DEF Active
  <2>4. CASE PrepLayout
    <3>1. tgt'.runner = tgt.runner /\ tgt'.work = tgt.work
      BY <1>1, <2>4 DEF PrepLayout, TargetType
    <3> QED BY <1>1, <2>1, <2>4, <3>1 DEF PrepLayout, SourceKinds
  <2>5. CASE PrepCommit
    <3>1. tgt'.runner = tgt.runner /\ (tgt.work => tgt'.work)
          /\ (prep' = "mark" => ~tgt.work /\ tgt'.work)
      BY <1>1, <2>5 DEF PrepCommit, TargetType
    <3>2. /\ prep = "commit" /\ prep' \in {"fail", "mark"}
          /\ UNCHANGED <<kind, row, upload, script, obs, count>>
      BY <2>5 DEF PrepCommit
    <3> QED BY <1>1, <2>1, <3>1, <3>2
  <2>6. CASE PrepMark
    <3>1. CASE prep' = "check"
      <4>1. row.st = "preparing" /\ row'.st = "preparing"
        BY <1>1, <2>6, <3>1 DEF PrepMark, RowType
      <4>2. Starts = 0
        BY <2>6, <4>1 DEF PrepMark, Active
      <4> QED BY <1>1, <2>1, <2>6, <3>1, <4>1, <4>2 DEF PrepMark
    <3>2. CASE prep' = "fail"
      BY <1>1, <2>1, <2>6, <3>2 DEF PrepMark
    <3> QED BY <2>6, <3>1, <3>2 DEF PrepMark
  <2>7. CASE PrepExec
    BY <1>1, <2>1, <2>7 DEF PrepExec
  <2>8. CASE ScriptRespawn
    <3>1. tgt'.work = tgt.work
      BY <1>1, <2>8 DEF ScriptRespawn, RunnerDies, TargetType
    <3> QED BY <1>1, <2>1, <2>8, <3>1 DEF ScriptRespawn
  <2>9. CASE RunnerLaunch
    <3>1. tgt'.work = tgt.work /\ tgt'.runner = "command"
          /\ count'.runs = count.runs + 1
      BY <1>1, <2>9 DEF RunnerLaunch, TargetType
    <3> QED BY <1>1, <2>1, <2>9, <3>1 DEF RunnerLaunch
  <2>10. CASE DeleteRoot
    <3>1. row.st \in Terminal \cup {"deleted"} /\ row' = row
      BY <2>10 DEF DeleteRoot
    <3>2. tgt'.runner = tgt.runner
      BY <2>10 DEF DeleteRoot
    <3> QED BY <1>1, <2>10, <3>1, <3>2 DEF DeleteRoot, Terminal, Active
  <2> QED BY <1>4, <2>2, <2>3, <2>4, <2>5, <2>6, <2>7, <2>8, <2>9, <2>10
          DEF StartStep
<1> QED BY <1>2, <1>3, <1>4, OtherStepsStartNothing

\* The account of starts is an invariant.
THEOREM StartsAccounted == Spec => []StartsOnce
<1>1. Init => StartsOnce
  BY DEF Init, StartsOnce, Starts, BeforeMark, BeforeCommand, IdleObs, Active
<1> QED BY <1>1, TypeCorrect, StartsStep, PTL DEF Spec

\* The command of a run is executed at most once, however many acknowledgements,
\* Core processes, sessions and uploads are lost or repeated around its start.
THEOREM CommandRunsAtMostOnce == Spec => []CommandRunsOnce
<1>1. TypeOK /\ StartsOnce => CommandRunsOnce
  <2> SUFFICES ASSUME TypeOK, StartsOnce PROVE CommandRunsOnce
    OBVIOUS
  <2>1. count.runs \in Nat
    BY DEF TypeOK
  <2> QED BY <2>1 DEF StartsOnce, Starts, CommandRunsOnce
<1> QED BY <1>1, TypeCorrect, StartsAccounted, PTL

-----------------------------------------------------------------------------
(* The invariant behind the truth of the rows *)

\* A launch script that has not respawned the pane yet.
Launching == script \in InScript

\* The runner clones the source.
InBootstrap == {"git_state", "git_check", "git_clone", "git_commit", "git_running"}

\* The runner process exists.
RunnerLive == tgt.runner \notin {"none", "gone"}

\* No runner was ever started and no record of one exists.
Unstarted ==
  /\ tgt.runner = "none"
  /\ tgt.state = "none" /\ tgt.prepres = "none" /\ tgt.compl = "none"
  /\ count.runs = 0

\* The run has nothing on the target and no thread prepares it.
Untouched ==
  /\ Unstarted /\ prep = "idle" /\ script = "none" /\ tgt.sess = "none"
  /\ ~tgt.layout /\ ~tgt.work /\ ~tgt.stop

\* The start is decided once, and it is in one place at a time: the preparation,
\* then the launch script, then the runner.
OneStart ==
  /\ prep \in BeforeMark \cup {"check", "exec"} =>
       Unstarted /\ script = "none"
  /\ prep = "fail" => ~Launching /\ tgt.runner = "none" /\ count.runs = 0
  /\ Launching \/ script = "err" => Unstarted

\* A ZIP is received before anything is done with it, and once.
OneUpload ==
  /\ kind # "archive" => upload = "idle" /\ row.ph # "waiting_upload"
  /\ row.st = "absent" =>
       /\ Untouched /\ upload = "idle" /\ startup = "off" /\ mark = "none"
       /\ rd = [p \in Readers |-> IdleRead] /\ obs = IdleObs /\ ctl = IdleCtl
  /\ upload # "idle" => Untouched
  /\ row.st \in Active /\ row.ph = "waiting_upload" => Untouched
  /\ obs.pc = "read" => obs.ph # "waiting_upload"
  /\ startup # "off" \/ obs.mode = "startup" \/ mark = "lost" =>
       /\ prep = "idle" /\ upload = "idle"
       /\ row.st \in Active => row.ph # "waiting_upload"

\* What is on the target is in the run's directory, which is there as long as the
\* run is active.
InDirectory ==
  /\ ~tgt.layout => /\ ~tgt.work /\ ~tgt.stop /\ tgt.state = "none"
                    /\ tgt.prepres = "none" /\ tgt.compl = "none"
  /\ tgt.runner = "command" => tgt.layout
  /\ row.st \in Active =>
       /\ prep \in {"copy", "commit", "mark", "check", "exec", "wait", "recon"} => tgt.layout
       /\ prep = "copying" /\ kind # "archive" => tgt.layout
       /\ script # "none" \/ tgt.sess # "none" \/ tgt.runner # "none" => tgt.layout
       /\ row.st = "running" => tgt.layout
       /\ obs.pc = "read" /\ obs.st = "running" => tgt.layout
       /\ ctl.pc # "idle" /\ ctl.st = "running" => tgt.layout
       /\ ctl.pc \in {"publish", "signal", "recheck", "read"} => tgt.layout

\* The runner lives in a pane, and while the run is active in the run window.
InPane ==
  /\ RunnerLive <=> tgt.sess \in {"run", "hidden"}
  /\ row.st \in Active => tgt.sess \notin {"bare", "hidden"}

\* Each record is written by the step of the runner that it tells of, once.
Recorded ==
  /\ tgt.compl # "none" => tgt.runner \in {"exit", "gone"} /\ count.runs = 1
  /\ tgt.prepres # "none" => tgt.runner = "gone" /\ count.runs = 0
  /\ tgt.state # "none" => tgt.runner # "none"
  /\ tgt.state = "running" => tgt.runner \notin InBootstrap
  /\ tgt.runner \in {"none"} \cup BeforeCommand => count.runs = 0
  /\ tgt.runner \in {"command", "complete", "pub_finished", "pub_stopped", "exit"} =>
       count.runs = 1
  /\ count.runs <= 1

\* The source tree is whole before anything can run in it.
WholeFirst ==
  /\ kind # "git" /\ tgt.layout /\ (\/ prep \in {"mark", "check", "exec"}
                                     \/ Launching \/ tgt.runner \in BeforeCommand)
       => tgt.work
  /\ tgt.layout /\ tgt.runner \in {"git_running", "check", "state", "launch"} => tgt.work
  /\ kind # "git" => tgt.runner \notin InBootstrap

\* Every sign of a stop was preceded by a request that the row remembers.
StopAsked ==
  tgt.stop \/ tgt.compl = "stopped" \/ tgt.prepres = "stopped" \/ tgt.runner = "pub_stopped"
  \/ ctl.pc # "idle" \/ (\E p \in Readers : rd[p].out = "stopped")
    => row.stopReq

\* A read reports nothing before it is done, and samples the pane again only when
\* it was not live.
InProgress ==
  \A p \in Readers :
    /\ rd[p].step # "done" => rd[p].out = "none"
    /\ rd[p].step \in {"resample", "reread"} => ~rd[p].live

\* What a read has learned of an active run is still so when it is applied.
ReadsTrue ==
  row.st \in Active => \A p \in Readers :
    LET r == rd[p] IN
    /\ r.step \in {"results", "state", "stop", "resample", "reread"} => tgt.layout
    /\ r.live => r.exists
    /\ r.step = "resample" => tgt.runner # "none"
    /\ r.state # "none" => tgt.state # "none"
    /\ r.state = "running" => tgt.state = "running"
    /\ r.step = "reread" => tgt.runner = "gone"
    /\ p = "obs" /\ obs.pc = "read" /\ r.out = "missing" => obs.st # "running"
    /\ r.out \in Terminal \cup {"running", "cloning", "preparing"} => tgt.layout
    /\ r.out = "running" => tgt.state = "running"
    /\ r.out = "cloning" => tgt.state # "none" /\ r.exists
    /\ r.out = "finished" => tgt.compl = "finished"
    /\ r.out = "failed" => tgt.runner = "gone"
    /\ r.out = "lost" => tgt.runner = "gone" /\ tgt.compl = "none"
    /\ r.out = "stopped" => tgt.stop \/ tgt.runner \in {"exit", "gone"}

\* The start is over: none is pending and no runner may start the command.
Over ==
  /\ prep \notin {"check", "exec"} /\ ~Launching
  /\ row.st = "preparing" => prep \notin BeforeMark
  /\ tgt.runner \notin BeforeCommand \cup {"command"}

\* A stop request or the loss of the directory waits for whatever still starts.
Refused == IF tgt.layout THEN tgt.stop ELSE prep \notin BeforeMark

\* No command runs and none will.
Doomed ==
  Over \/ (Refused /\ tgt.runner \in {"none", "gone", "git_state", "git_check", "check"})

\* The last sample of a read found no session.
MissedSession(r) == ~r.exists /\ r.step \notin {"off", "sample", "failed"}

\* The startup scan fails a preparation only if nothing of it may still start, or
\* if its poll found no session of an ambiguous start and the mark is gone.
StartupDoomed ==
  row.st = "preparing" =>
    /\ startup = "fail" => mark # "seen"
    /\ startup \in {"judge", "fail"} /\ mark = "none" => Doomed
    /\ row.err # "start_status_unknown" /\ obs.pc = "read" /\ obs.mode = "startup"
       /\ MissedSession(rd["obs"]) => Doomed

\* A start that may still happen is marked ambiguous in the row; whoever is about
\* to close the run knows that it does not. When the scan has lost the mark, the
\* launch script has done its part.
Decided ==
  /\ row.st = "preparing" /\ Launching => row.err = "start_status_unknown"
  /\ row.st = "preparing" /\ prep \in {"check", "exec"} => row.err = "start_status_unknown"
  /\ row.st \in Active /\ ctl.pc \in {"signal", "recheck"} => tgt.stop
  /\ row.st \in Active /\ ctl.pc \in {"recheck", "read"} => Doomed
  /\ StartupDoomed
  /\ mark = "lost" => ~Launching

\* A closed run is closed for a reason that stays true.
ClosedRow ==
  /\ row.st \in Terminal \cup {"deleted"} => Over \/ Refused \/ mark = "lost"
  /\ row.st = "failed" => Doomed \/ mark = "lost"
  /\ row.st = "deleted" => Doomed
  /\ row.st = "stopped" /\ row.err = "killed" => Doomed
  /\ row.st \in {"finished", "lost"} => tgt.runner \in {"exit", "gone"}
  /\ row.st = "finished" /\ tgt.layout => tgt.compl = "finished"
  /\ row.st = "lost" => tgt.runner = "gone" /\ tgt.compl = "none"
  /\ row.st = "stopped" /\ ~row.stopReq => row.err = "cancelled" /\ count.runs = 0 /\ Over

\* Only a closed run is deleted, and its directory after its session.
Closed ==
  /\ ClosedRow
  /\ obs.pc \in {"del_root", "del_row"} => Doomed
  /\ obs.pc \in Deleting => row.st \in Terminal

\* What makes RowIsTrue and the refinement inductive.
RunInv ==
  /\ OneStart /\ OneUpload /\ InDirectory /\ InPane /\ Recorded /\ WholeFirst
  /\ StopAsked /\ InProgress /\ ReadsTrue /\ Decided /\ Closed

-----------------------------------------------------------------------------
(* What an update may do to the fields of the row *)

\* A row that is moved on keeps the memory of a stop request and its Workspace,
\* and gets no other phase than its own, the one its reader saw, or cloning.
Carries(r, seen, new) ==
  /\ new.stopReq = r.stopReq
  /\ new.ph \in {r.ph, seen.ph, "none", "cloning"}

\* _apply_remote_status, by what was reported.
LEMMA ApplyStatusCases ==
  ASSUME NEW r \in RowType, NEW seen, NEW out \in Reports
  PROVE  LET new == ApplyStatus(r, seen, out) IN
         /\ Carries(r, seen, new)
         /\ r.st \notin Active => new = r
         /\ new.st # r.st => out = new.st /\ new.st # "preparing"
         /\ new.err # r.err => out \in {"running", "cloning"} \/ new.st \in Terminal
         /\ new.st # r.st /\ new.st = "stopped" => new.err = "none"
<1> DEFINE new == ApplyStatus(r, seen, out)
<1>1. CASE seen.st \in Terminal \/ out \in {"none", "missing", "pane_only"}
  <2>1. new = r
    BY <1>1 DEF ApplyStatus, Terminal
  <2> QED BY <2>1 DEF Carries
<1>2. CASE seen.st \notin Terminal /\ out = "cloning"
  <2>1. new = Transition(r, {"preparing"}, [r EXCEPT !.ph = "cloning", !.err = "none"])
    BY <1>2 DEF ApplyStatus, Terminal
  <2> QED BY <1>2, <2>1 DEF Transition, Carries, RowType, Active, Terminal
<1>3. CASE seen.st \notin Terminal /\ out = "preparing"
  <2>1. new = Transition(r, {"preparing"}, [r EXCEPT !.ph = seen.ph])
    BY <1>3 DEF ApplyStatus, Terminal
  <2> QED BY <1>3, <2>1 DEF Transition, Carries, RowType, Active, Terminal
<1>4. CASE seen.st \notin Terminal /\ out = "running"
  <2>1. new = Transition(r, Active, [r EXCEPT !.st = "running", !.ph = "none",
                                              !.err = "none"])
    BY <1>4 DEF ApplyStatus, Terminal
  <2> QED BY <1>4, <2>1 DEF Transition, Carries, RowType, Active, Terminal
<1>5. CASE seen.st \notin Terminal /\ out \in Terminal
  <2>1. new = Close(r, out, IF out = "failed" THEN "other" ELSE "none")
    BY <1>5 DEF ApplyStatus, Terminal
  <2> QED BY <1>5, <2>1 DEF Close, Transition, Carries, RowType, Active, Terminal
<1> QED BY <1>1, <1>2, <1>3, <1>4, <1>5 DEF Reports, Terminal

\* _apply_remote_observation, by what was reported.
LEMMA ApplyObservationCases ==
  ASSUME NEW r \in RowType, NEW seen, NEW out \in Reports
  PROVE  LET new == ApplyObservation(r, seen, out) IN
         /\ Carries(r, seen, new)
         /\ r.st \notin Active => new = r
         /\ new.st # r.st =>
              /\ new.st # "preparing"
              /\ out = new.st \/ (out = "missing" /\ seen.st = "running" /\ new.st = "lost")
         /\ new.err # r.err => out \in {"running", "cloning"} \/ new.st \in Terminal
         /\ new.st # r.st /\ new.st = "stopped" => new.err = "none"
<1>1. /\ "lost" \in Reports /\ Carries(r, seen, r)
  BY DEF Reports, Terminal, Carries
<1>2. CASE out = "missing" /\ seen.st = "running"
  <2>1. ApplyObservation(r, seen, out) = ApplyStatus(r, seen, "lost")
    BY <1>2 DEF ApplyObservation
  <2> HIDE DEF Reports
  <2>2. LET new == ApplyStatus(r, seen, "lost") IN
          /\ Carries(r, seen, new)
          /\ r.st \notin Active => new = r
          /\ new.st # r.st => "lost" = new.st /\ new.st # "preparing"
          /\ new.err # r.err => "lost" \in {"running", "cloning"} \/ new.st \in Terminal
    BY <1>1, ApplyStatusCases
  <2> QED BY <1>2, <2>1, <2>2
<1>3. CASE (out = "missing" /\ seen.st # "running") \/ out = "pane_only"
  <2>1. ApplyObservation(r, seen, out) = r
    BY <1>3 DEF ApplyObservation
  <2> QED BY <1>1, <2>1
<1>4. CASE out \notin {"missing", "pane_only"}
  <2>1. ApplyObservation(r, seen, out) = ApplyStatus(r, seen, out)
    BY <1>4 DEF ApplyObservation
  <2> QED BY <2>1, ApplyStatusCases
<1> QED BY <1>2, <1>3, <1>4

\* A start is decided once: OneStart is kept.
LEMMA OneStartStep == TypeOK /\ RunInv /\ [Next]_vars => OneStart'
<1> SUFFICES ASSUME TypeOK, RunInv, [Next]_vars PROVE OneStart'
  OBVIOUS
<1> USE DEF TypeOK, RunInv, OneStart, Unstarted, Launching, InScript, BeforeMark, zip, watch
<1>1. CASE Uploading
  BY <1>1 DEF Uploading, UploadBegin, UploadStored, UploadDone, UploadFails, UploadExpires,
     OneUpload, Untouched
<1>2. CASE Preparation
  BY <1>2 DEF Preparation, Create, Schedule, PrepBegin, PrepLayout, PrepCopying, PrepCopy,
     PrepCommit, PrepMark, PrepCheck, PrepExec, PrepAck, PrepStatusUnknown, PrepReconciled,
     PrepError, PrepFail, TargetType, OneUpload, Untouched
<1>3. CASE Target
  BY <1>3 DEF Target, ScriptCheckSession, ScriptNewSession, ScriptRespawn, ScriptEnds,
     ScriptKilled, Reboot, RunnerSteps, BootstrapState, BootstrapCheck, BootstrapClone,
     BootstrapCloneFails, BootstrapCommit, BootstrapRunning, RunnerCheck, RunnerRejects,
     RunnerState, RunnerLaunch, CommandEnds, RunnerComplete, RunnerPublish, RunnerExit,
     RunnerLosesRoot, RunnerStep, TargetType, KillSession, RunnerDies, Refuse, BeforeCommand
<1>4. CASE Reading
  BY <1>4 DEF Reading, ReadOn, ReadFails, ReadSample, ReadResults, ReadState,
       ReadStop, ReadResample, ReadAgain, Read
<1>5. CASE Observing
  <2>1. CASE Bridge
    <3>1. tgt'.runner = tgt.runner /\ tgt'.state = tgt.state /\ tgt'.compl = tgt.compl
          /\ tgt'.prepres = tgt.prepres
      BY <2>1 DEF Bridge, TargetType
    <3> QED BY <2>1, <3>1 DEF Bridge
  <2>2. CASE DeleteKill
    BY <2>2 DEF DeleteKill, KillSession, TargetType
  <2>3. CASE DeleteRoot
    BY <2>3 DEF DeleteRoot, TargetType
  <2>4. CASE Observing /\ ~Bridge /\ ~DeleteKill /\ ~DeleteRoot
    BY <2>4 DEF Observing, Deletion, Reconcile, Poll, PollTerminal, StartupScan, ObsApply,
         ObsOffline, StartupLayout, StartupJudge, StartupFail, ReadBreaks, OtherReadBreaks,
         DeleteBegin, DeleteFails, DeleteRow
  <2> QED BY <1>5, <2>1, <2>2, <2>3, <2>4
<1>6. CASE Control
  BY <1>6 DEF Control, Stop, Kill, CtlBegin, StopWaiting, StopMissing, KillMissing,
     CtlInspect, CtlPublish, StopSignal, KillSignal, KillRecheck, CtlApply, CtlFails,
     KillSession, Interrupted, RunnerDies, TargetType, InPane, RunnerLive
<1>7. CASE Shutdown \/ Crash \/ UNCHANGED vars
  BY <1>7 DEF Shutdown, Crash, vars
<1> QED BY <1>1, <1>2, <1>3, <1>4, <1>5, <1>6, <1>7 DEF Next

-----------------------------------------------------------------------------
(* One upload *)

\* The upload comes first, once: OneUpload is kept.
LEMMA OneUploadStep ==
  Pages # "all" /\ TypeOK /\ RunInv /\ [Next]_vars => OneUpload'
<1> SUFFICES ASSUME Pages # "all", TypeOK, RunInv, [Next]_vars PROVE OneUpload'
  OBVIOUS
<1> USE DEF RunInv, OneUpload, Untouched, Unstarted, zip, watch
<1>0. /\ row \in RowType /\ tgt \in TargetType /\ obs \in ObsType
      /\ rd["prep"].out \in Reports /\ rd["obs"].out \in Reports
      /\ rd["ctl"].out \in Reports /\ kind \in SourceKinds
      /\ count \in [crashes: Nat, reboots: Nat, stops: Nat, kills: Nat, uploads: Nat,
                    breaks: Nat, runs: Nat]
  BY DEF TypeOK, Readers, ReadType
<1>1. CASE Uploading
  <2>1. CASE UploadBegin
    BY <1>0, <2>1 DEF UploadBegin, TransitionPhase, RowType, Active
  <2>2. CASE UploadStored
    BY <1>0, <2>2 DEF UploadStored
  <2>3. CASE UploadDone
    <3>1. row'.st = "preparing" /\ row'.ph = "checking"
      BY <1>0, <2>3 DEF UploadDone, TransitionPhase, RowType
    <3> QED BY <1>0, <2>3, <3>1 DEF UploadDone, IdleObs, Active
  <2>4. CASE UploadFails
    <3>1. row'.st = row.st
      BY <1>0, <2>4 DEF UploadFails, TransitionPhase, RowType
    <3> QED BY <1>0, <2>4, <3>1 DEF UploadFails, Active
  <2>5. CASE UploadExpires
    <3>1. row'.st = "deleted"
      BY <1>0, <2>5 DEF UploadExpires, RowType
    <3> QED BY <1>0, <2>5, <3>1 DEF UploadExpires, Active
  <2> QED BY <1>1, <2>1, <2>2, <2>3, <2>4, <2>5 DEF Uploading
<1>2. CASE Preparation
  <2>1. CASE Create
    BY <1>0, <2>1 DEF Create, RowType, Active, IdleObs, SourceKinds
  <2>2. CASE PrepCopying \/ PrepMark \/ PrepAck \/ PrepFail
    <3>1. row'.ph \in {row.ph, "copying", "starting", "cloning", "none"}
          /\ (row'.st \in Active => row.st \in Active)
          /\ (row'.st = "absent" => row.st = "absent")
      BY <1>0, <2>2 DEF PrepCopying, PrepMark, PrepAck, PrepFail, PreparationFailed,
         Transition, RowType, Active
    <3> QED BY <1>0, <2>2, <3>1 DEF PrepCopying, PrepMark, PrepAck, PrepFail
  <2>3. CASE PrepReconciled
    <3> DEFINE new == ApplyStatus(row, row, rd["prep"].out)
    <3>1. Carries(row, row, new) /\ Advances(row, new)
      BY <1>0, ApplyStatusCases, ApplyStatusAdvances DEF RowType
    <3> HIDE DEF new
    <3>2. row'.st = new.st /\ row'.ph \in {new.ph, "starting"}
      BY <2>3, <3>1 DEF PrepReconciled, new, Transition, RowType, Advances
    <3>3. row'.ph = "waiting_upload" => row.ph = "waiting_upload"
      BY <3>1, <3>2 DEF Carries
    <3>4. row'.st \in Active => row.st \in Active
      BY <3>1, <3>2 DEF Advances
    <3>5. row'.st = "absent" => row.st = "absent"
      BY <3>1, <3>2 DEF Advances, Active, Terminal
    <3>6. prep = "recon"
      BY <2>3 DEF PrepReconciled
    <3> QED BY <2>3, <3>3, <3>4, <3>5, <3>6 DEF PrepReconciled
  <2>4. CASE PrepLayout \/ PrepCommit
    BY <2>4 DEF PrepLayout, PrepCommit
  <2>5. CASE Schedule \/ PrepBegin \/ PrepCopy \/ PrepCheck \/ PrepExec
             \/ PrepStatusUnknown \/ PrepError
    BY <2>5 DEF Schedule, PrepBegin, PrepCopy, PrepCheck, PrepExec, PrepStatusUnknown,
       PrepError
  <2> QED BY <1>2, <2>1, <2>2, <2>3, <2>4, <2>5 DEF Preparation
<1>3. CASE Target
  BY <1>3 DEF Target, ScriptCheckSession, ScriptNewSession, ScriptRespawn, ScriptEnds,
     ScriptKilled, Reboot, RunnerSteps, BootstrapState, BootstrapCheck, BootstrapClone,
     BootstrapCloneFails, BootstrapCommit, BootstrapRunning, RunnerCheck, RunnerRejects,
     RunnerState, RunnerLaunch, CommandEnds, RunnerComplete, RunnerPublish, RunnerExit,
     RunnerLosesRoot, RunnerStep
<1>4. CASE Reading
  BY <1>4 DEF Reading, ReadOn, ReadFails, ReadSample, ReadResults, ReadState,
       ReadStop, ReadResample, ReadAgain, Read, IdleRead, Readers
<1>5. CASE Observing
  <2>1. CASE ObsApply
    <3> DEFINE new == ApplyObservation(row, obs, rd["obs"].out)
    <3>1. Carries(row, obs, new) /\ Advances(row, new) /\ row' = new
      BY <1>0, <2>1, ApplyObservationCases, ApplyObservationAdvances
         DEF ObsApply, ObsType
    <3> HIDE DEF new
    <3>2. obs' \in {[obs EXCEPT !.pc = "bridge"], IdleObs}
      BY <2>1 DEF ObsApply
    <3>3. obs'.pc # "read" /\ obs'.mode \in {obs.mode, "none"}
      BY <1>0, <3>2 DEF ObsType, IdleObs
    <3>4. obs.pc = "read" /\ row.st # "absent"
      BY <2>1 DEF ObsApply, IdleObs
    <3>5. row'.st # "absent" /\ (row'.st \in Active => row.st \in Active)
      BY <1>0, <3>1, <3>4 DEF Advances, Active, Terminal, RowType, RowStates
    <3>6. row'.ph = "waiting_upload" => row.ph = "waiting_upload"
      BY <3>1, <3>4 DEF Carries
    <3>7. \/ startup' # "off" \/ obs'.mode = "startup" \/ mark' = "lost"
          => \/ startup # "off" \/ obs.mode = "startup" \/ mark = "lost"
      BY <2>1, <3>3 DEF ObsApply
    <3>9. kind' = kind /\ UNCHANGED <<upload, tgt, prep, script>> /\ count' = count
      BY <2>1 DEF ObsApply
    <3> HIDE DEF IdleObs
    <3> QED BY <3>3, <3>5, <3>6, <3>7, <3>9
  <2>2. CASE Bridge
    BY <1>0, <2>2 DEF Bridge, IdleObs, RowType
  <2>3. CASE DeleteKill \/ DeleteRoot \/ DeleteRow
    <3>1. row.st # "absent"
      BY <2>3 DEF DeleteKill, DeleteRoot, DeleteRow, IdleObs
    <3>a. row'.st # "absent"
      BY <1>0, <2>3, <3>1 DEF DeleteKill, DeleteRoot, DeleteRow, RowType
    <3>b. obs'.pc # "read"
      <4> HIDE DEF RunInv, OneUpload
      <4> QED BY <1>0, <2>3 DEF DeleteKill, DeleteRoot, DeleteRow, IdleObs, ObsType
    <3>2. obs'.mode \in {obs.mode, "none"}
      BY <1>0, <2>3 DEF DeleteKill, DeleteRoot, DeleteRow, IdleObs, ObsType
    <3>3. row' = row \/ (row'.st = "deleted" /\ row'.ph = row.ph)
      BY <1>0, <2>3 DEF DeleteKill, DeleteRoot, DeleteRow, RowType
    <3>4. Untouched => Untouched'
      BY <1>0, <2>3 DEF DeleteKill, DeleteRoot, DeleteRow, KillSession, TargetType
    <3>5. kind' = kind /\ UNCHANGED <<upload, prep, startup, mark>>
      BY <2>3 DEF DeleteKill, DeleteRoot, DeleteRow
    <3> HIDE DEF Untouched, IdleObs
    <3> QED BY <3>1, <3>a, <3>b, <3>2, <3>3, <3>4, <3>5 DEF Active
  <2>4. CASE Reconcile \/ Poll \/ StartupScan
    BY <1>0, <2>4, PagesAssumption DEF Reconcile, Poll, StartupScan, ObsBegin, Observable,
       Active
  <2>5. CASE PollTerminal \/ ObsOffline \/ DeleteBegin \/ DeleteFails
    <3>1. row.st # "absent"
      BY <1>0, <2>5 DEF PollTerminal, ObsOffline, DeleteBegin, DeleteFails, IdleObs, Terminal
    <3>2. obs'.pc # "read" /\ obs'.mode \in {obs.mode, "none"}
      BY <1>0, <2>5 DEF PollTerminal, ObsOffline, DeleteBegin, DeleteFails, IdleObs, ObsType
    <3>3. /\ kind' = kind /\ UNCHANGED <<row, upload, tgt, prep, script, mark, count>>
          /\ startup' # "off" => startup # "off" \/ obs.mode = "startup"
      BY <2>5 DEF PollTerminal, ObsOffline, DeleteBegin, DeleteFails
    <3> HIDE DEF IdleObs
    <3> QED BY <3>1, <3>2, <3>3
  <2>6. CASE StartupFail
    BY <1>0, <2>6 DEF StartupFail, PreparationFailed, Transition, RowType, Active
  <2>7. CASE StartupLayout \/ StartupJudge
    BY <1>0, <2>7 DEF StartupLayout, StartupJudge
  <2>8. CASE ReadBreaks \/ OtherReadBreaks
    <3>1. row.st # "absent" \/ obs' = obs
      BY <2>8 DEF ReadBreaks, OtherReadBreaks, IdleRead, Readers
    <3>2. obs' \in {obs, IdleObs} /\ rd' \in {rd, [rd EXCEPT !["obs"] = IdleRead]}
          /\ startup' \in {startup, "off"}
      BY <2>8 DEF ReadBreaks, OtherReadBreaks
    <3>3. kind' = kind /\ UNCHANGED <<row, upload, tgt, prep, script, mark, ctl>>
          /\ count'.runs = count.runs
      BY <1>0, <2>8 DEF ReadBreaks, OtherReadBreaks
    <3> QED BY <1>0, <3>1, <3>2, <3>3 DEF IdleObs, Readers
  <2> QED BY <1>5, <2>1, <2>2, <2>3, <2>4, <2>5, <2>6, <2>7, <2>8 DEF Observing, Deletion
<1>6. CASE Control
  <2>1. row.st # "absent"
    BY <1>6 DEF Control, Stop, Kill, CtlBegin, StopWaiting, StopMissing, KillMissing,
       CtlInspect, CtlPublish, StopSignal, KillSignal, KillRecheck, CtlApply, CtlFails,
       IdleCtl, Active
  <2>2. Untouched => Untouched'
    BY <1>0, <1>6 DEF Control, Stop, Kill, CtlBegin, StopWaiting, StopMissing, KillMissing,
       CtlInspect, CtlPublish, StopSignal, KillSignal, KillRecheck, CtlApply, CtlFails,
       KillSession, Interrupted, TargetType
  <2>3. kind' = kind /\ UNCHANGED <<upload, prep, startup, mark, obs>>
    BY <1>6 DEF Control, Stop, Kill, CtlBegin, StopWaiting, StopMissing, KillMissing,
       CtlInspect, CtlPublish, StopSignal, KillSignal, KillRecheck, CtlApply, CtlFails
  <2>4. row'.ph \in {row.ph, "none", "cloning"}
    <3>1. CASE CtlApply
      BY <1>0, <3>1, ApplyStatusCases DEF CtlApply, Carries
    <3>2. CASE Control /\ ~CtlApply
      BY <1>0, <3>2 DEF Control, Stop, Kill, CtlBegin, StopWaiting, StopMissing,
         KillMissing, CtlInspect, CtlPublish, StopSignal, KillSignal, KillRecheck,
         CtlFails, Close, Transition, RowType
    <3> QED BY <1>6, <3>1, <3>2
  <2>5. RowOnward
    BY <2>1, RowMovesOn DEF Create
  <2> HIDE DEF Untouched
  <2> QED BY <2>1, <2>2, <2>3, <2>4, <2>5 DEF RowOnward
<1>7. CASE Crash
  BY <1>0, <1>7 DEF Crash, Observable, IdleObs, IdleCtl, Active
<1>8. CASE Shutdown \/ UNCHANGED vars
  BY <1>8 DEF Shutdown, vars
<1> QED BY <1>1, <1>2, <1>3, <1>4, <1>5, <1>6, <1>7, <1>8 DEF Next

-----------------------------------------------------------------------------
(* The target moves on *)

\* What is on the target stays there, and each record is written once.
Onward ==
  /\ tgt.layout => tgt'.layout
  /\ tgt.work => tgt'.work
  /\ tgt.stop => tgt'.stop
  /\ tgt.state # "none" => tgt'.state # "none"
  /\ tgt.state = "running" => tgt'.state = "running"
  /\ tgt.compl # "none" => tgt'.compl = tgt.compl
  /\ tgt.prepres # "none" => tgt'.prepres = tgt.prepres
  /\ tgt.runner # "none" => tgt'.runner # "none"
  /\ tgt.runner = "exit" => tgt'.runner \in {"exit", "gone"}
  /\ tgt.runner = "gone" => tgt'.runner = "gone" /\ tgt'.compl = tgt.compl

\* Only the deletion of the run takes anything from the target.
LEMMA TargetOnward == TypeOK /\ RunInv /\ [Next]_vars /\ ~DeleteRoot => Onward
<1> SUFFICES ASSUME TypeOK, RunInv, [Next]_vars, ~DeleteRoot PROVE Onward
  OBVIOUS
<1>0. tgt \in TargetType
  BY DEF TypeOK
<1>1. CASE Target
  <2>1. CASE ScriptNewSession \/ ScriptRespawn \/ Reboot
    <3>1. CASE ScriptRespawn
      <4>1. tgt.runner = "none" /\ tgt.state = "none" /\ tgt.compl = "none"
            /\ tgt.prepres = "none"
        BY <3>1 DEF ScriptRespawn, RunInv, OneStart, Launching, InScript, Unstarted
      <4> QED BY <1>0, <3>1, <4>1 DEF Onward, ScriptRespawn, TargetType, RunnerDies
    <3>2. CASE ScriptNewSession \/ Reboot
      BY <1>0, <3>2 DEF Onward, ScriptNewSession, Reboot, TargetType, KillSession
    <3> QED BY <2>1, <3>1, <3>2
  <2>2. CASE BootstrapState \/ BootstrapRunning \/ RunnerState
    BY <1>0, <2>2 DEF Onward, BootstrapState, BootstrapRunning, RunnerState, RunnerStep,
       TargetType, RunInv, Recorded, InBootstrap
  <2>3. CASE BootstrapCheck \/ BootstrapCloneFails \/ BootstrapCommit \/ RunnerCheck
             \/ RunnerRejects
    <3>1. tgt.runner # "gone" /\ tgt.runner # "exit" /\ tgt.prepres = "none"
      BY <2>3 DEF BootstrapCheck, BootstrapCloneFails, BootstrapCommit, RunnerCheck,
         RunnerRejects, RunnerStep, RunInv, Recorded
    <3> QED BY <1>0, <2>3, <3>1 DEF Onward, BootstrapCheck, BootstrapCloneFails,
         BootstrapCommit, RunnerCheck, RunnerRejects, RunnerStep, TargetType, Refuse,
         RunnerDies
  <2>4. CASE RunnerPublish
    BY <1>0, <2>4 DEF Onward, RunnerPublish, TargetType, RunInv, Recorded
  <2>5. CASE BootstrapClone \/ RunnerLaunch \/ CommandEnds \/ RunnerComplete
             \/ RunnerExit \/ RunnerLosesRoot
    BY <1>0, <2>5 DEF Onward, BootstrapClone, RunnerLaunch, CommandEnds, RunnerComplete,
       RunnerExit, RunnerLosesRoot, RunnerStep, TargetType, RunnerDies
  <2>6. CASE ScriptCheckSession \/ ScriptEnds \/ ScriptKilled
    BY <2>6 DEF Onward, ScriptCheckSession, ScriptEnds, ScriptKilled
  <2> QED BY <1>1, <2>1, <2>2, <2>3, <2>4, <2>5, <2>6 DEF Target, RunnerSteps
<1>2. CASE Control
  <2>1. CASE StopMissing \/ StopSignal
    <3>1. tgt' = tgt \/ (tgt.sess = "run" /\ tgt' = RunnerDies(tgt))
      BY <2>1 DEF StopMissing, StopSignal, Interrupted
    <3>2. tgt.sess = "run" => tgt.runner # "none" /\ tgt.runner # "gone"
      BY DEF RunInv, InPane, RunnerLive
    <3> QED BY <1>0, <3>1, <3>2 DEF Onward, RunnerDies, TargetType
  <2>2. CASE KillMissing \/ KillSignal \/ CtlPublish
    BY <1>0, <2>2 DEF Onward, KillMissing, KillSignal, CtlPublish, KillSession, TargetType
  <2>3. CASE Control /\ ~StopMissing /\ ~StopSignal /\ ~KillMissing /\ ~KillSignal
             /\ ~CtlPublish
    <3>1. UNCHANGED tgt
      BY <2>3 DEF Control, Stop, Kill, CtlBegin, StopWaiting, CtlInspect, KillRecheck,
         CtlApply, CtlFails
    <3> QED BY <3>1 DEF Onward
  <2> QED BY <1>2, <2>1, <2>2, <2>3
<1>3. CASE PrepLayout \/ PrepCommit
  BY <1>0, <1>3 DEF Onward, PrepLayout, PrepCommit, TargetType
<1>4. CASE Bridge \/ DeleteKill
  BY <1>0, <1>4 DEF Onward, Bridge, DeleteKill, KillSession, TargetType
<1>5. CASE UNCHANGED tgt
  BY <1>0, <1>5 DEF Onward
<1>6. CASE Uploading
  <2>1. UNCHANGED tgt
    BY <1>6 DEF Uploading, UploadBegin, UploadStored, UploadDone, UploadFails, UploadExpires
  <2> QED BY <2>1, <1>5
<1>7. CASE Preparation /\ ~PrepLayout /\ ~PrepCommit
  <2>1. UNCHANGED tgt
    BY <1>7 DEF Preparation, Create, Schedule, PrepBegin, PrepCopying, PrepCopy, PrepMark,
       PrepCheck, PrepExec, PrepAck, PrepStatusUnknown, PrepReconciled, PrepError, PrepFail
  <2> QED BY <2>1, <1>5
<1>8. CASE Reading
  <2>1. UNCHANGED tgt
    BY <1>8 DEF Reading, ReadOn, ReadFails, ReadSample, ReadResults, ReadState,
       ReadStop, ReadResample, ReadAgain, Read
  <2> QED BY <2>1, <1>5
<1>9. CASE Observing /\ ~Bridge /\ ~DeleteKill
  <2>1. UNCHANGED tgt
    BY <1>9 DEF Observing, Deletion, Reconcile, Poll, PollTerminal, StartupScan, ObsApply,
         ObsOffline, StartupLayout, StartupJudge, StartupFail, ReadBreaks, OtherReadBreaks,
         DeleteBegin, DeleteFails, DeleteRow
  <2> QED BY <2>1, <1>5
<1>10. CASE Shutdown \/ Crash \/ UNCHANGED vars
  <2>1. UNCHANGED tgt
    BY <1>10 DEF Shutdown, Crash, vars
  <2> QED BY <2>1, <1>5
<1> QED BY <1>1, <1>2, <1>3, <1>4, <1>6, <1>7, <1>8, <1>9, <1>10 DEF Next

\* An active run keeps its directory: a deletion begins with a closed row.
LEMMA ActiveOnward ==
  TypeOK /\ RunInv /\ [Next]_vars /\ row'.st \in Active =>
    /\ ~DeleteRoot /\ Onward
    /\ row.st \in Active \/ Create
<1> SUFFICES ASSUME TypeOK, RunInv, [Next]_vars, row'.st \in Active
             PROVE  ~DeleteRoot /\ (row.st \in Active \/ Create)
  BY TargetOnward
<1>1. DeleteRoot => row.st \in Terminal /\ row' = row
  BY DEF RunInv, Closed, Deleting, DeleteRoot
<1>2. row.st \in Active \/ Create
  BY RowMovesOn DEF RowOnward
<1> QED BY <1>1, <1>2 DEF Active, Terminal

\* No other action touches the target.
LEMMA TargetOtherwise ==
  [Next]_vars /\ ~Target /\ ~Control /\ ~PrepLayout /\ ~PrepCommit /\ ~Bridge
    /\ ~DeleteKill /\ ~DeleteRoot => UNCHANGED tgt
<1>1. Uploading => UNCHANGED tgt
  BY DEF Uploading, UploadBegin, UploadStored, UploadDone, UploadFails, UploadExpires
<1>2. Preparation /\ ~PrepLayout /\ ~PrepCommit => UNCHANGED tgt
  BY DEF Preparation, Create, Schedule, PrepBegin, PrepCopying, PrepCopy, PrepMark,
     PrepCheck, PrepExec, PrepAck, PrepStatusUnknown, PrepReconciled, PrepError, PrepFail
<1>3. Reading => UNCHANGED tgt
  BY DEF Reading, ReadOn, ReadFails, ReadSample, ReadResults, ReadState, ReadStop,
     ReadResample, ReadAgain, Read
<1>4. Observing /\ ~Bridge /\ ~DeleteKill /\ ~DeleteRoot => UNCHANGED tgt
  BY DEF Observing, Deletion, Reconcile, Poll, PollTerminal, StartupScan, ObsApply,
     ObsOffline, StartupLayout, StartupJudge, StartupFail, ReadBreaks, OtherReadBreaks,
     Bridge, DeleteBegin, DeleteKill, DeleteRoot, DeleteFails, DeleteRow, ObsBegin
<1>5. Shutdown \/ Crash \/ UNCHANGED vars => UNCHANGED tgt
  BY DEF Shutdown, Crash, vars
<1> QED BY <1>1, <1>2, <1>3, <1>4, <1>5 DEF Next

-----------------------------------------------------------------------------
(* Panes, records and source trees *)

\* The runner lives in a pane: InPane is kept.
LEMMA InPaneStep == TypeOK /\ RunInv /\ [Next]_vars => InPane'
<1> SUFFICES ASSUME TypeOK, RunInv, [Next]_vars PROVE InPane'
  OBVIOUS
<1> USE DEF InPane, RunnerLive
<1>0. tgt \in TargetType /\ row \in RowType /\ InPane
  BY DEF TypeOK, RunInv
<1>a. row'.st \in Active => row.st \in Active \/ Create
  BY ActiveOnward
<1>b. Create => tgt' = tgt /\ tgt.sess = "none"
  BY DEF Create, RunInv, OneUpload, Untouched
<1>1. ASSUME UNCHANGED tgt PROVE InPane'
  BY <1>0, <1>1, <1>a, <1>b
<1>2. ASSUME tgt'.sess \in {"none", "dead"}, tgt'.runner \in {"none", "gone"} PROVE InPane'
  BY <1>2
<1>3. CASE Target
  <2>1. CASE ScriptNewSession
    BY <1>0, <1>a, <1>b, <2>1 DEF ScriptNewSession, TargetType
  <2>2. CASE ScriptRespawn
    <3>1. row.st \in Active => tgt.layout
      BY <2>2 DEF ScriptRespawn, RunInv, InDirectory
    <3>2. ~Create
      BY <2>2 DEF Create, RunInv, OneUpload, Untouched, ScriptRespawn
    <3> QED BY <1>0, <1>a, <2>2, <3>1, <3>2 DEF ScriptRespawn, TargetType, RunnerDies
  <2>3. CASE Reboot
    BY <1>0, <2>3 DEF Reboot, KillSession, TargetType
  <2>4. CASE RunnerSteps
    <3>1. RunnerLive
      BY <1>0, <2>4 DEF RunnerSteps, BootstrapState, BootstrapCheck, BootstrapClone,
         BootstrapCloneFails, BootstrapCommit, BootstrapRunning, RunnerCheck,
         RunnerRejects, RunnerState, RunnerLaunch, CommandEnds, RunnerComplete,
         RunnerPublish, RunnerExit, RunnerLosesRoot, RunnerStep
    <3>2. \/ tgt'.sess = tgt.sess /\ RunnerLive'
          \/ tgt' = RunnerDies(tgt)
          \/ \E x \in {"stopped", "failed"} : tgt' = Refuse(x)
      <4> HIDE DEF RunnerLive
      <4>1. CASE RunnerExit \/ RunnerLosesRoot
        BY <4>1 DEF RunnerExit, RunnerLosesRoot, RunnerStep
      <4>2. CASE BootstrapCheck \/ BootstrapCloneFails \/ BootstrapCommit \/ RunnerCheck
                 \/ RunnerRejects
        BY <1>0, <4>2 DEF RunnerSteps, BootstrapState, BootstrapCheck, BootstrapClone,
           BootstrapCloneFails, BootstrapCommit, BootstrapRunning, RunnerCheck,
           RunnerRejects, RunnerState, RunnerLaunch, CommandEnds, RunnerComplete,
           RunnerPublish, RunnerExit, RunnerLosesRoot, RunnerStep, TargetType, RunnerLive
      <4>3. CASE BootstrapState \/ BootstrapClone \/ BootstrapRunning \/ RunnerState
                 \/ RunnerLaunch \/ CommandEnds \/ RunnerComplete \/ RunnerPublish
        BY <1>0, <4>3 DEF RunnerSteps, BootstrapState, BootstrapCheck, BootstrapClone,
           BootstrapCloneFails, BootstrapCommit, BootstrapRunning, RunnerCheck,
           RunnerRejects, RunnerState, RunnerLaunch, CommandEnds, RunnerComplete,
           RunnerPublish, RunnerExit, RunnerLosesRoot, RunnerStep, TargetType, RunnerLive
      <4> QED BY <2>4, <4>1, <4>2, <4>3 DEF RunnerSteps
    <3>3. ~Create /\ UNCHANGED row
      BY <2>4, <3>1 DEF RunnerSteps, BootstrapState, BootstrapCheck, BootstrapClone,
         BootstrapCloneFails, BootstrapCommit, BootstrapRunning, RunnerCheck,
         RunnerRejects, RunnerState, RunnerLaunch, CommandEnds, RunnerComplete,
         RunnerPublish, RunnerExit, RunnerLosesRoot, RunnerStep, Create, RunInv,
         OneUpload, Untouched, Unstarted
    <3> QED BY <1>0, <3>1, <3>2, <3>3 DEF RunnerDies, Refuse, TargetType
  <2>5. CASE ScriptCheckSession \/ ScriptEnds \/ ScriptKilled
    BY <1>1, <2>5 DEF ScriptCheckSession, ScriptEnds, ScriptKilled
  <2> QED BY <1>3, <2>1, <2>2, <2>3, <2>4, <2>5 DEF Target
<1>4. CASE Control
  <2>1. CASE StopMissing \/ StopSignal
    <3>1. tgt' = tgt \/ (tgt.sess = "run" /\ tgt' = RunnerDies(tgt))
      BY <2>1 DEF StopMissing, StopSignal, Interrupted
    <3>2. RunnerDies(tgt).sess = "dead" \/ tgt.sess # "run"
      BY <1>0 DEF RunnerDies, TargetType
    <3> QED BY <1>0, <1>1, <1>2, <3>1, <3>2 DEF RunnerDies, TargetType
  <2>2. CASE KillMissing \/ KillSignal
    BY <1>0, <1>2, <2>2 DEF KillMissing, KillSignal, KillSession, TargetType
  <2>3. CASE CtlPublish
    <3>1. tgt'.sess = tgt.sess /\ tgt'.runner = tgt.runner /\ row' = row
      BY <1>0, <2>3 DEF CtlPublish, TargetType
    <3> QED BY <1>0, <3>1
  <2>4. CASE Control /\ ~StopMissing /\ ~StopSignal /\ ~KillMissing /\ ~KillSignal
             /\ ~CtlPublish
    BY <1>1, <2>4 DEF Control, Stop, Kill, CtlBegin, StopWaiting, StopMissing,
       KillMissing, CtlInspect, CtlPublish, StopSignal, KillSignal, KillRecheck, CtlApply,
       CtlFails
  <2> QED BY <1>4, <2>1, <2>2, <2>3, <2>4
<1>5. CASE PrepLayout \/ PrepCommit
  BY <1>0, <1>5 DEF PrepLayout, PrepCommit, TargetType
<1>6. CASE Bridge
  <2>1. tgt' = tgt \/ (tgt.sess = "none" => row.st \in Terminal)
    BY <1>6 DEF Bridge
  <2> QED BY <1>0, <1>6, <2>1 DEF Bridge, TargetType, RowType, Active, Terminal
<1>7. CASE DeleteKill \/ DeleteRoot
  <2>1. CASE DeleteKill
    BY <1>0, <2>1 DEF DeleteKill, KillSession, TargetType
  <2>2. CASE DeleteRoot
    <3>1. tgt'.sess = tgt.sess /\ tgt'.runner = tgt.runner /\ row' = row
      BY <1>0, <2>2 DEF DeleteRoot
    <3> QED BY <1>0, <3>1
  <2> QED BY <1>7, <2>1, <2>2
<1>8. CASE ~Target /\ ~Control /\ ~PrepLayout /\ ~PrepCommit /\ ~Bridge /\ ~DeleteKill
           /\ ~DeleteRoot
  <2>1. UNCHANGED tgt
    BY <1>8, TargetOtherwise
  <2> QED BY <1>1, <2>1
<1> QED BY <1>3, <1>4, <1>5, <1>6, <1>7, <1>8

\* The source kind is fixed at creation.
LEMMA SameKind == [Next]_vars => kind' = kind
<1>1. Uploading => kind' = kind
  BY DEF Uploading, UploadBegin, UploadStored, UploadDone, UploadFails, UploadExpires
<1>2. Preparation => kind' = kind
  BY DEF Preparation, Create, Schedule, PrepBegin, PrepLayout, PrepCopying, PrepCopy,
     PrepCommit, PrepMark, PrepCheck, PrepExec, PrepAck, PrepStatusUnknown,
     PrepReconciled, PrepError, PrepFail
<1>3. Target => kind' = kind
  BY DEF Target, ScriptCheckSession, ScriptNewSession, ScriptRespawn, ScriptEnds,
     ScriptKilled, Reboot, RunnerSteps, BootstrapState, BootstrapCheck, BootstrapClone,
     BootstrapCloneFails, BootstrapCommit, BootstrapRunning, RunnerCheck, RunnerRejects,
     RunnerState, RunnerLaunch, CommandEnds, RunnerComplete, RunnerPublish, RunnerExit,
     RunnerLosesRoot, RunnerStep
<1>4. Reading => kind' = kind
  BY DEF Reading, ReadOn, ReadFails, ReadSample, ReadResults, ReadState, ReadStop,
     ReadResample, ReadAgain, Read
<1>5. Observing => kind' = kind
  BY DEF Observing, Deletion, Reconcile, Poll, PollTerminal, StartupScan, ObsApply,
     ObsOffline, StartupLayout, StartupJudge, StartupFail, ReadBreaks, OtherReadBreaks,
     Bridge, DeleteBegin, DeleteKill, DeleteRoot, DeleteFails, DeleteRow, ObsBegin
<1>6. Control => kind' = kind
  BY DEF Control, Stop, Kill, CtlBegin, StopWaiting, StopMissing, KillMissing, CtlInspect,
     CtlPublish, StopSignal, KillSignal, KillRecheck, CtlApply, CtlFails
<1>7. Shutdown \/ Crash \/ UNCHANGED vars => kind' = kind
  BY DEF Shutdown, Crash, vars
<1> QED BY <1>1, <1>2, <1>3, <1>4, <1>5, <1>6, <1>7 DEF Next

\* Only a launch executes the command.
LEMMA RunsOtherwise == [Next]_vars /\ ~RunnerLaunch /\ TypeOK => count'.runs = count.runs
<1> SUFFICES ASSUME [Next]_vars, ~RunnerLaunch, TypeOK PROVE count'.runs = count.runs
  OBVIOUS
<1>0. count \in [crashes: Nat, reboots: Nat, stops: Nat, kills: Nat, uploads: Nat, breaks: Nat,
                 runs: Nat]
  BY DEF TypeOK
<1>1. Uploading => count'.runs = count.runs
  BY <1>0 DEF Uploading, UploadBegin, UploadStored, UploadDone, UploadFails, UploadExpires
<1>2. Preparation => count'.runs = count.runs
  BY DEF Preparation, Create, Schedule, PrepBegin, PrepLayout, PrepCopying, PrepCopy,
     PrepCommit, PrepMark, PrepCheck, PrepExec, PrepAck, PrepStatusUnknown,
     PrepReconciled, PrepError, PrepFail
<1>3. Target => count'.runs = count.runs
  BY <1>0 DEF Target, ScriptCheckSession, ScriptNewSession, ScriptRespawn, ScriptEnds,
     ScriptKilled, Reboot, RunnerSteps, BootstrapState, BootstrapCheck, BootstrapClone,
     BootstrapCloneFails, BootstrapCommit, BootstrapRunning, RunnerCheck, RunnerRejects,
     RunnerState, RunnerLaunch, CommandEnds, RunnerComplete, RunnerPublish, RunnerExit,
     RunnerLosesRoot, RunnerStep
<1>4. Reading => count'.runs = count.runs
  BY DEF Reading, ReadOn, ReadFails, ReadSample, ReadResults, ReadState, ReadStop,
     ReadResample, ReadAgain, Read
<1>5. Observing => count'.runs = count.runs
  BY <1>0 DEF Observing, Deletion, Reconcile, Poll, PollTerminal, StartupScan, ObsApply,
     ObsOffline, StartupLayout, StartupJudge, StartupFail, ReadBreaks, OtherReadBreaks,
     Bridge, DeleteBegin, DeleteKill, DeleteRoot, DeleteFails, DeleteRow, ObsBegin
<1>6. Control => count'.runs = count.runs
  BY <1>0 DEF Control, Stop, Kill, CtlBegin, StopWaiting, StopMissing, KillMissing,
     CtlInspect, CtlPublish, StopSignal, KillSignal, KillRecheck, CtlApply, CtlFails
<1>7. Shutdown \/ Crash \/ UNCHANGED vars => count'.runs = count.runs
  BY <1>0 DEF Shutdown, Crash, vars
<1> QED BY <1>1, <1>2, <1>3, <1>4, <1>5, <1>6, <1>7 DEF Next

\* Records are written in order, each once: Recorded is kept.
LEMMA RecordedStep == TypeOK /\ RunInv /\ [Next]_vars => Recorded'
<1> SUFFICES ASSUME TypeOK, RunInv, [Next]_vars PROVE Recorded'
  OBVIOUS
<1> USE DEF Recorded, InBootstrap, BeforeCommand
<1>0. /\ tgt \in TargetType /\ Recorded
      /\ count \in [crashes: Nat, reboots: Nat, stops: Nat, kills: Nat, uploads: Nat,
                    breaks: Nat, runs: Nat]
  BY DEF TypeOK, RunInv
<1>a. ~RunnerLaunch => count'.runs = count.runs
  BY RunsOtherwise
<1>1. ASSUME count'.runs = count.runs, tgt'.compl = tgt.compl, tgt'.state = tgt.state,
             tgt'.prepres = tgt.prepres, tgt'.runner = tgt.runner
      PROVE  Recorded'
  BY <1>0, <1>1
<1>2. ASSUME count'.runs = count.runs, tgt'.compl = tgt.compl, tgt'.state = tgt.state,
             tgt'.prepres = tgt.prepres, tgt'.runner = "gone"
      PROVE  Recorded'
  BY <1>0, <1>2
<1>3. ASSUME RunnerDies(tgt) = tgt', count'.runs = count.runs PROVE Recorded'
  BY <1>0, <1>2, <1>3 DEF RunnerDies, TargetType
<1>4. ASSUME KillSession(tgt) = tgt', count'.runs = count.runs PROVE Recorded'
  BY <1>0, <1>1, <1>2, <1>4 DEF KillSession, TargetType
<1>5. CASE Target
  <2>1. CASE ScriptNewSession
    BY <1>0, <1>1, <2>1 DEF ScriptNewSession, TargetType
  <2>2. CASE ScriptRespawn
    <3>1. Unstarted
      BY <2>2 DEF ScriptRespawn, RunInv, OneStart, Launching, InScript
    <3> QED BY <1>0, <2>2, <3>1 DEF Unstarted, ScriptRespawn, RunnerDies, TargetType
  <2>3. CASE Reboot
    BY <1>0, <1>4, <2>3 DEF Reboot
  <2>4. CASE BootstrapState \/ BootstrapClone \/ BootstrapRunning \/ RunnerState
    BY <1>0, <2>4 DEF RunnerSteps, BootstrapState, BootstrapCheck, BootstrapClone,
       BootstrapCloneFails, BootstrapCommit, BootstrapRunning, RunnerCheck, RunnerRejects,
       RunnerState, RunnerLaunch, CommandEnds, RunnerComplete, RunnerPublish, RunnerExit,
       RunnerLosesRoot, RunnerStep, TargetType
  <2>5. CASE BootstrapCheck \/ BootstrapCloneFails \/ BootstrapCommit \/ RunnerCheck
             \/ RunnerRejects
    BY <1>0, <2>5 DEF RunnerSteps, BootstrapState, BootstrapCheck, BootstrapClone,
       BootstrapCloneFails, BootstrapCommit, BootstrapRunning, RunnerCheck, RunnerRejects,
       RunnerState, RunnerLaunch, CommandEnds, RunnerComplete, RunnerPublish, RunnerExit,
       RunnerLosesRoot, RunnerStep, TargetType, Refuse, RunnerDies
  <2>6. CASE RunnerLaunch
    BY <1>0, <2>6 DEF RunnerLaunch, TargetType
  <2>7. CASE CommandEnds \/ RunnerComplete \/ RunnerPublish
    BY <1>0, <2>7 DEF RunnerSteps, BootstrapState, BootstrapCheck, BootstrapClone,
       BootstrapCloneFails, BootstrapCommit, BootstrapRunning, RunnerCheck, RunnerRejects,
       RunnerState, RunnerLaunch, CommandEnds, RunnerComplete, RunnerPublish, RunnerExit,
       RunnerLosesRoot, RunnerStep, TargetType
  <2>8. CASE RunnerExit \/ RunnerLosesRoot
    BY <1>3, <2>8 DEF RunnerExit, RunnerLosesRoot, RunnerStep
  <2>9. CASE ScriptCheckSession \/ ScriptEnds \/ ScriptKilled
    BY <1>0, <1>1, <2>9 DEF ScriptCheckSession, ScriptEnds, ScriptKilled
  <2> QED BY <1>5, <2>1, <2>2, <2>3, <2>4, <2>5, <2>6, <2>7, <2>8, <2>9
          DEF Target, RunnerSteps
<1>b. ~Target => count'.runs = count.runs
  BY <1>a DEF Target, RunnerSteps
<1>6. CASE Control /\ ~Target
  <2>1. CASE StopMissing \/ StopSignal
    BY <1>1, <1>3, <1>b, <1>6, <2>1 DEF StopMissing, StopSignal, Interrupted
  <2>2. CASE KillMissing \/ KillSignal
    BY <1>4, <1>b, <1>6, <2>2 DEF KillMissing, KillSignal
  <2>3. CASE CtlPublish
    BY <1>0, <1>1, <1>b, <1>6, <2>3 DEF CtlPublish
  <2>4. CASE Control /\ ~StopMissing /\ ~StopSignal /\ ~KillMissing /\ ~KillSignal
             /\ ~CtlPublish
    BY <1>1, <1>b, <1>6, <2>4 DEF Control, Stop, Kill, CtlBegin, StopWaiting, StopMissing,
       KillMissing, CtlInspect, CtlPublish, StopSignal, KillSignal, KillRecheck, CtlApply,
       CtlFails
  <2> QED BY <1>6, <2>1, <2>2, <2>3, <2>4
<1>7. CASE (PrepLayout \/ PrepCommit \/ Bridge) /\ ~Target
  BY <1>0, <1>1, <1>b, <1>7 DEF PrepLayout, PrepCommit, Bridge, TargetType
<1>8. CASE DeleteKill /\ ~Target
  BY <1>4, <1>b, <1>8 DEF DeleteKill
<1>9. CASE DeleteRoot /\ ~Target
  <2>1. tgt'.compl = "none" /\ tgt'.prepres = "none" /\ tgt'.state = "none"
        /\ tgt'.runner = tgt.runner
    BY <1>9 DEF DeleteRoot
  <2> QED BY <1>0, <1>b, <1>9, <2>1
<1>10. CASE ~Target /\ ~Control /\ ~PrepLayout /\ ~PrepCommit /\ ~Bridge /\ ~DeleteKill
            /\ ~DeleteRoot
  <2>1. UNCHANGED tgt
    BY <1>10, TargetOtherwise
  <2> QED BY <1>1, <1>b, <1>10, <2>1
<1> QED BY <1>5, <1>6, <1>7, <1>8, <1>9, <1>10

\* The tree is committed before the launch: WholeFirst is kept.
LEMMA WholeFirstStep == TypeOK /\ RunInv /\ [Next]_vars => WholeFirst'
<1> SUFFICES ASSUME TypeOK, RunInv, [Next]_vars PROVE WholeFirst'
  OBVIOUS
<1> USE DEF WholeFirst, InBootstrap, BeforeCommand, Launching, InScript
<1>0. /\ tgt \in TargetType /\ WholeFirst /\ kind \in SourceKinds
  BY DEF TypeOK, RunInv
<1>k. kind' = kind
  BY SameKind
<1>1. ASSUME tgt'.layout => tgt.layout, tgt.work => tgt'.work,
             tgt'.runner \in {tgt.runner, "gone"},
             prep' \in {"mark", "check", "exec"} => prep \in {"mark", "check", "exec"},
             Launching' => Launching \/ prep = "exec"
      PROVE  WholeFirst'
  BY <1>0, <1>1, <1>k
<1>2. CASE Preparation
  <2>1. CASE PrepLayout
    <3>1. Unstarted /\ script = "none"
      BY <2>1 DEF PrepLayout, RunInv, OneStart, BeforeMark
    <3>2. tgt'.runner = "none" /\ script' = "none" /\ prep' \notin {"check", "exec"}
          /\ (prep' = "mark" => kind = "git")
      BY <1>0, <2>1, <3>1 DEF PrepLayout, Unstarted, TargetType, SourceKinds
    <3> QED BY <1>k, <3>2
  <2>2. CASE PrepCommit
    <3>1. Unstarted /\ script = "none"
      BY <2>2 DEF PrepCommit, RunInv, OneStart, BeforeMark
    <3>2. tgt'.runner = "none" /\ script' = "none"
          /\ (prep' = "mark" => tgt'.work) /\ prep' \in {"fail", "mark"}
      BY <1>0, <2>2, <3>1 DEF PrepCommit, Unstarted, TargetType
    <3> QED BY <1>k, <3>2
  <2>3. CASE Preparation /\ ~PrepLayout /\ ~PrepCommit
    BY <1>1, <2>3 DEF Preparation, Create, Schedule, PrepBegin, PrepLayout, PrepCopying,
       PrepCopy, PrepCommit, PrepMark, PrepCheck, PrepExec, PrepAck, PrepStatusUnknown,
       PrepReconciled, PrepError, PrepFail
  <2> QED BY <1>2, <2>1, <2>2, <2>3
<1>3. CASE Target
  <2>1. CASE ScriptRespawn
    <3>1. /\ tgt'.layout = tgt.layout /\ tgt'.work = tgt.work /\ prep' = prep
          /\ ~Launching'
          /\ \/ tgt'.runner \in {tgt.runner, "gone"}
             \/ tgt'.runner = (IF kind = "git" THEN "git_state" ELSE "check")
      BY <1>0, <2>1 DEF ScriptRespawn, TargetType, RunnerDies
    <3>2. Launching
      BY <2>1 DEF ScriptRespawn
    <3> QED BY <1>0, <1>k, <3>1, <3>2
  <2>2. CASE BootstrapState \/ BootstrapCheck \/ BootstrapClone \/ BootstrapCloneFails
             \/ BootstrapCommit \/ BootstrapRunning
    <3>1. kind = "git"
      BY <1>0, <2>2 DEF RunnerSteps, BootstrapState, BootstrapCheck, BootstrapClone,
         BootstrapCloneFails, BootstrapCommit, BootstrapRunning, RunnerCheck,
         RunnerRejects, RunnerState, RunnerLaunch, CommandEnds, RunnerComplete,
         RunnerPublish, RunnerExit, RunnerLosesRoot, RunnerStep
    <3>2. /\ tgt'.layout = tgt.layout /\ (tgt.work => tgt'.work)
          /\ tgt'.runner \in {"git_running", "check"} => tgt'.work
          /\ tgt'.runner \notin {"state", "launch"}
      BY <1>0, <2>2 DEF RunnerSteps, BootstrapState, BootstrapCheck, BootstrapClone,
         BootstrapCloneFails, BootstrapCommit, BootstrapRunning, RunnerCheck,
         RunnerRejects, RunnerState, RunnerLaunch, CommandEnds, RunnerComplete,
         RunnerPublish, RunnerExit, RunnerLosesRoot, RunnerStep, TargetType, Refuse,
         RunnerDies
    <3> QED BY <1>k, <3>1, <3>2
  <2>3. CASE RunnerSteps /\ ~(BootstrapState \/ BootstrapCheck \/ BootstrapClone
               \/ BootstrapCloneFails \/ BootstrapCommit \/ BootstrapRunning)
    <3>1. /\ tgt'.layout = tgt.layout /\ tgt'.work = tgt.work
          /\ tgt'.runner \notin InBootstrap
          /\ tgt'.runner \in BeforeCommand =>
               tgt.runner \in {"check", "state"} /\ tgt'.runner \in {"state", "launch"}
          /\ prep' = prep /\ script' = script
      BY <1>0, <2>3 DEF RunnerSteps, BootstrapState, BootstrapCheck, BootstrapClone,
         BootstrapCloneFails, BootstrapCommit, BootstrapRunning, RunnerCheck,
         RunnerRejects, RunnerState, RunnerLaunch, CommandEnds, RunnerComplete,
         RunnerPublish, RunnerExit, RunnerLosesRoot, RunnerStep, TargetType, Refuse,
         RunnerDies
    <3> QED BY <1>0, <1>k, <3>1
  <2>4. CASE ScriptCheckSession \/ ScriptNewSession \/ ScriptEnds \/ ScriptKilled \/ Reboot
    BY <1>0, <1>1, <2>4 DEF ScriptCheckSession, ScriptNewSession, ScriptRespawn,
       ScriptEnds, ScriptKilled, Reboot, TargetType, KillSession
  <2> QED BY <1>3, <2>1, <2>2, <2>3, <2>4 DEF Target
<1>4. CASE Control
  BY <1>0, <1>1, <1>4 DEF Control, Stop, Kill, CtlBegin, StopWaiting, StopMissing,
     KillMissing, CtlInspect, CtlPublish, StopSignal, KillSignal, KillRecheck, CtlApply,
     CtlFails, KillSession, Interrupted, RunnerDies, TargetType
<1>5. CASE Uploading
  <2>1. CASE UploadDone
    <3>1. prep' \in {prep, "new"} /\ UNCHANGED <<tgt, script>>
      BY <2>1 DEF UploadDone
    <3> QED BY <1>1, <3>1
  <2>2. CASE Uploading /\ ~UploadDone
    BY <1>1, <2>2 DEF Uploading, UploadBegin, UploadStored, UploadDone, UploadFails,
       UploadExpires
  <2> QED BY <1>5, <2>1, <2>2
<1>6. CASE Reading
  BY <1>1, <1>6 DEF Reading, ReadOn, ReadFails, ReadSample, ReadResults, ReadState,
     ReadStop, ReadResample, ReadAgain, Read
<1>7. CASE Observing
  <2>1. CASE Bridge
    BY <1>0, <1>1, <2>1 DEF Bridge, TargetType
  <2>2. CASE DeleteKill
    BY <1>0, <1>1, <2>2 DEF DeleteKill, TargetType, KillSession
  <2>3. CASE DeleteRoot
    <3>1. ~tgt'.layout /\ tgt'.runner = tgt.runner
      BY <2>3 DEF DeleteRoot
    <3> QED BY <1>0, <1>k, <3>1
  <2>4. CASE Observing /\ ~Bridge /\ ~DeleteKill /\ ~DeleteRoot
    BY <1>1, <2>4 DEF Observing, Deletion, Reconcile, Poll, PollTerminal, StartupScan,
       ObsApply, ObsOffline, StartupLayout, StartupJudge, StartupFail, ReadBreaks,
       OtherReadBreaks, Bridge, DeleteBegin, DeleteKill, DeleteRoot, DeleteFails, DeleteRow,
       ObsBegin
  <2> QED BY <1>7, <2>1, <2>2, <2>3, <2>4
<1>8. CASE Shutdown \/ Crash \/ UNCHANGED vars
  BY <1>1, <1>8 DEF Shutdown, Crash, vars
<1> QED BY <1>2, <1>3, <1>4, <1>5, <1>6, <1>7, <1>8 DEF Next

-----------------------------------------------------------------------------
(* The directory *)

\* While an active run has no directory, nothing of it is on the target and
\* nobody believes it is.
NoDirectory ==
  /\ prep \notin {"copy", "commit", "mark", "check", "exec", "wait", "recon"}
  /\ prep = "copying" => kind = "archive"
  /\ script = "none" /\ tgt.sess = "none" /\ tgt.runner = "none"
  /\ row.st # "running"
  /\ obs.pc = "read" => obs.st # "running"
  /\ ctl.pc # "idle" => ctl.st # "running"
  /\ ctl.pc \notin {"publish", "signal", "recheck", "read"}

\* The preparation, the script and the requests of a run without a directory.
LEMMA NoDirectoryStep ==
  TypeOK /\ RunInv /\ [Next]_vars /\ row'.st \in Active /\ ~tgt'.layout => NoDirectory'
<1> SUFFICES ASSUME TypeOK, RunInv, [Next]_vars, row'.st \in Active, ~tgt'.layout
             PROVE  NoDirectory'
  OBVIOUS
<1>0. /\ tgt \in TargetType /\ kind \in SourceKinds /\ row \in RowType /\ obs \in ObsType
      /\ \A p \in Readers : rd[p].out \in Reports
  BY DEF TypeOK, ReadType
<1>a. Onward /\ ~DeleteRoot /\ (row.st \in Active \/ Create)
  BY ActiveOnward
<1>b. ~tgt.layout
  BY <1>a DEF Onward
<1>k. kind' = kind
  BY SameKind
<1>1. CASE Create
  BY <1>0, <1>1 DEF Create, RunInv, OneUpload, Untouched, Unstarted, IdleObs, IdleCtl,
     NoDirectory
<1>2. CASE row.st \in Active
  <2>1. NoDirectory
    BY <1>b, <1>2 DEF RunInv, InDirectory, NoDirectory
  <2>2. \A p \in Readers : rd[p].out # "running"
    BY <1>b, <1>2 DEF RunInv, ReadsTrue
  <2>t. tgt.stop = FALSE /\ tgt.compl = "none"
    BY <1>0, <1>b DEF RunInv, InDirectory, TargetType
  <2> HIDE DEF RunInv
  <2> USE DEF NoDirectory
  <2>3. CASE Uploading
    <3>1. CASE UploadDone
      <4>1. prep' \in {prep, "new"} /\ UNCHANGED <<tgt, script, obs, ctl>>
            /\ row'.st = row.st
        BY <1>0, <3>1 DEF UploadDone, TransitionPhase, RowType
      <4> QED BY <1>k, <2>1, <4>1
    <3>2. CASE Uploading /\ ~UploadDone
      <4>1. UNCHANGED <<tgt, prep, script, obs, ctl>> /\ row'.st \in {row.st, "deleted"}
        BY <1>0, <3>2 DEF Uploading, UploadBegin, UploadStored, UploadDone, UploadFails,
           UploadExpires, TransitionPhase, RowType
      <4> QED BY <1>k, <2>1, <4>1
    <3> QED BY <2>3, <3>1, <3>2
  <2>4. CASE Preparation
    <3>1. CASE PrepLayout
      BY <1>0, <3>1 DEF PrepLayout, TargetType
    <3>2. CASE PrepCopying \/ PrepFail
      BY <1>0, <1>k, <2>1, <3>2 DEF PrepCopying, PrepFail, PreparationFailed, Transition,
         RowType, Active
    <3>3. CASE Schedule \/ PrepBegin \/ PrepError
      BY <1>0, <1>k, <2>1, <3>3 DEF Schedule, PrepBegin, PrepError
    <3>4. CASE Preparation /\ ~PrepLayout /\ ~PrepCopying /\ ~PrepFail /\ ~Schedule
               /\ ~PrepBegin /\ ~PrepError /\ ~Create
      BY <2>1, <3>4 DEF Preparation, Create, Schedule, PrepBegin, PrepLayout, PrepCopying,
         PrepCopy, PrepCommit, PrepMark, PrepCheck, PrepExec, PrepAck, PrepStatusUnknown,
         PrepReconciled, PrepError, PrepFail
    <3>5. ~Create
      BY <1>2 DEF Create, Active
    <3> QED BY <2>4, <3>1, <3>2, <3>3, <3>4, <3>5
  <2>5. CASE Target
    BY <1>b, <1>k, <2>1, <2>5 DEF Target, ScriptCheckSession, ScriptNewSession,
       ScriptRespawn, ScriptEnds, ScriptKilled, Reboot, RunnerSteps, BootstrapState,
       BootstrapCheck, BootstrapClone, BootstrapCloneFails, BootstrapCommit,
       BootstrapRunning, RunnerCheck, RunnerRejects, RunnerState, RunnerLaunch,
       CommandEnds, RunnerComplete, RunnerPublish, RunnerExit, RunnerLosesRoot, RunnerStep
  <2>6. CASE Reading
    BY <1>k, <2>1, <2>6 DEF Reading, ReadOn, ReadFails, ReadSample, ReadResults,
       ReadState, ReadStop, ReadResample, ReadAgain, Read
  <2>7. CASE Observing
    <3>1. CASE ObsApply
      <4>1. row'.st # row.st => rd["obs"].out = row'.st \/ row'.st = "lost"
        <5>1. /\ "lost" \in Reports /\ rd["obs"].out \in Reports
          BY <1>0 DEF Reports, Terminal, Readers
        <5>2. row'.st # row.st => \/ rd["obs"].out = row'.st
                                  \/ rd["obs"].out = "missing" /\ obs.st = "running"
          BY <1>0, <3>1, <5>1, ApplyObservationCases DEF ObsApply
        <5> QED BY <2>1, <3>1, <5>2 DEF ObsApply
      <4>2. obs'.pc # "read" /\ UNCHANGED <<tgt, prep, script, ctl>>
        BY <1>0, <3>1 DEF ObsApply, ObsType, IdleObs
      <4> QED BY <1>k, <2>1, <2>2, <4>1, <4>2 DEF Readers
    <3>2. CASE Bridge
      BY <1>0, <1>b, <1>k, <2>1, <3>2 DEF Bridge, IdleObs
    <3>3. CASE DeleteKill
      BY <1>0, <1>k, <2>1, <3>3 DEF DeleteKill, KillSession, TargetType, ObsType
    <3>4. CASE StartupFail
      BY <1>0, <1>k, <2>1, <3>4 DEF StartupFail, PreparationFailed, Transition, RowType,
         Active
    <3>8. CASE StartupLayout \/ StartupJudge \/ ReadBreaks \/ OtherReadBreaks
      BY <1>k, <2>1, <3>8 DEF StartupLayout, StartupJudge, ReadBreaks, OtherReadBreaks,
         IdleObs
    <3>5. CASE DeleteRow
      BY <1>0, <3>5 DEF DeleteRow, RowType, Active
    <3>6. CASE Reconcile \/ Poll \/ StartupScan
      BY <1>0, <1>k, <2>1, <3>6 DEF Reconcile, Poll, StartupScan, ObsBegin, ObsType
    <3>7. CASE PollTerminal \/ ObsOffline \/ DeleteBegin \/ DeleteFails
      <4>1. obs'.pc # "read" /\ UNCHANGED <<row, tgt, prep, script, ctl>>
        BY <1>0, <3>7 DEF PollTerminal, ObsOffline, DeleteBegin, DeleteFails, IdleObs, ObsType
      <4> QED BY <1>k, <2>1, <4>1
    <3> QED BY <1>a, <2>7, <3>1, <3>2, <3>3, <3>4, <3>5, <3>6, <3>7, <3>8
            DEF Observing, Deletion
  <2>8. CASE Control
    <3>1. CASE Stop \/ Kill
      BY <1>0, <1>k, <2>1, <3>1 DEF Stop, Kill, CtlBegin, RowType
    <3>2. CASE StopWaiting \/ StopMissing \/ KillMissing
      <4>1. row'.st \in {row.st, "lost", "stopped"}
        BY <1>0, <3>2 DEF StopWaiting, StopMissing, KillMissing, Close, Transition, RowType
      <4>2. tgt'.sess = "none" /\ tgt'.runner = "none"
        BY <1>0, <2>1, <3>2 DEF StopWaiting, StopMissing, KillMissing, PaneLive, KillSession,
           TargetType
      <4> QED BY <1>k, <2>1, <3>2, <4>1, <4>2 DEF StopWaiting, StopMissing, KillMissing,
              IdleCtl, Active
    <3>3. CASE CtlFails
      BY <1>k, <2>1, <3>3 DEF CtlFails, IdleCtl
    <3>4. CASE CtlInspect \/ CtlPublish \/ StopSignal \/ KillSignal \/ KillRecheck \/ CtlApply
      BY <1>b, <2>1, <3>4 DEF CtlInspect, CtlPublish, StopSignal, KillSignal, KillRecheck,
         CtlApply
    <3> QED BY <2>8, <3>1, <3>2, <3>3, <3>4 DEF Control
  <2>9. CASE Shutdown \/ Crash \/ UNCHANGED vars
    BY <1>k, <2>1, <2>9 DEF Shutdown, Crash, vars, IdleObs, IdleCtl
  <2> QED BY <2>3, <2>4, <2>5, <2>6, <2>7, <2>8, <2>9 DEF Next
<1> QED BY <1>a, <1>1, <1>2

\* What is on the target is in the directory: InDirectory is kept.
LEMMA InDirectoryStep == TypeOK /\ RunInv /\ [Next]_vars => InDirectory'
<1> SUFFICES ASSUME TypeOK, RunInv, [Next]_vars PROVE InDirectory'
  OBVIOUS
<1>0. tgt \in TargetType /\ tgt' \in TargetType
  BY TypeStep DEF TypeOK
<1>1. row'.st \in Active /\ ~tgt'.layout => NoDirectory'
  BY NoDirectoryStep
<1>2. CASE DeleteRoot
  <2>1. Doomed
    BY <1>2 DEF DeleteRoot, RunInv, Closed
  <2>2. tgt.runner # "command"
    BY <2>1 DEF Doomed, Over
  <2> QED BY <1>1, <1>2, <2>2 DEF DeleteRoot, InDirectory, NoDirectory
<1>3. CASE ~DeleteRoot
  <2>1. Onward
    BY <1>3, TargetOnward
  <2> DEFINE Empty(t) == /\ ~t.layout => /\ ~t.work /\ ~t.stop /\ t.state = "none"
                                         /\ t.prepres = "none" /\ t.compl = "none"
                         /\ t.runner = "command" => t.layout
  <2>2. Empty(tgt)
    BY DEF RunInv, InDirectory
  <2>3. Empty(tgt')
    <3>1. CASE Target
      <4>1. CASE ScriptRespawn \/ ScriptNewSession \/ Reboot \/ ScriptCheckSession
                 \/ ScriptEnds \/ ScriptKilled
        BY <1>0, <2>2, <4>1 DEF ScriptCheckSession, ScriptNewSession, ScriptRespawn,
           ScriptEnds, ScriptKilled, Reboot, KillSession, RunnerDies, TargetType
      <4>2. CASE CommandEnds \/ RunnerExit \/ RunnerLosesRoot
        BY <1>0, <2>2, <4>2 DEF RunnerSteps, BootstrapState, BootstrapCheck,
           BootstrapClone, BootstrapCloneFails, BootstrapCommit, BootstrapRunning,
           RunnerCheck, RunnerRejects, RunnerState, RunnerLaunch, CommandEnds,
           RunnerComplete, RunnerPublish, RunnerExit, RunnerLosesRoot, RunnerStep,
           RunnerDies, TargetType
      <4>3. CASE RunnerSteps /\ ~CommandEnds /\ ~RunnerExit /\ ~RunnerLosesRoot
        <5>1. tgt.layout
          BY <4>3 DEF RunnerSteps, BootstrapState, BootstrapCheck, BootstrapClone,
             BootstrapCloneFails, BootstrapCommit, BootstrapRunning, RunnerCheck,
             RunnerRejects, RunnerState, RunnerLaunch, CommandEnds, RunnerComplete,
             RunnerPublish, RunnerExit, RunnerLosesRoot, RunnerStep
        <5> QED BY <2>1, <5>1 DEF Onward
      <4> QED BY <3>1, <4>1, <4>2, <4>3 DEF Target
    <3>2. CASE Control
      BY <1>0, <2>1, <2>2, <3>2 DEF Control, Stop, Kill, CtlBegin, StopWaiting,
         StopMissing, KillMissing, CtlInspect, CtlPublish, StopSignal, KillSignal,
         KillRecheck, CtlApply, CtlFails, KillSession, Interrupted, RunnerDies,
         TargetType, Onward
    <3>3. CASE PrepLayout \/ PrepCommit
      BY <1>0, <2>2, <3>3 DEF PrepLayout, PrepCommit, TargetType
    <3>4. CASE Bridge \/ DeleteKill
      <4>1. CASE Bridge
        BY <1>0, <2>2, <4>1 DEF Bridge, TargetType
      <4>2. CASE DeleteKill
        BY <1>0, <2>2, <4>2 DEF DeleteKill, KillSession, TargetType
      <4> QED BY <3>4, <4>1, <4>2
    <3>5. CASE ~Target /\ ~Control /\ ~PrepLayout /\ ~PrepCommit /\ ~Bridge /\ ~DeleteKill
      <4>1. UNCHANGED tgt
        BY <1>3, <3>5, TargetOtherwise
      <4> QED BY <2>2, <4>1
    <3> QED BY <3>1, <3>2, <3>3, <3>4, <3>5
  <2> QED BY <1>1, <2>3 DEF InDirectory, NoDirectory
<1> QED BY <1>2, <1>3

-----------------------------------------------------------------------------
(* Stop requests *)

\* The row never forgets a request, and only a request adds one.
LEMMA RequestStays ==
  TypeOK /\ [Next]_vars => row'.stopReq = row.stopReq \/ ((Stop \/ Kill) /\ row'.stopReq)
<1> SUFFICES ASSUME TypeOK, [Next]_vars
             PROVE  row'.stopReq = row.stopReq \/ ((Stop \/ Kill) /\ row'.stopReq)
  OBVIOUS
<1>0. row \in RowType /\ obs \in ObsType /\ \A p \in Readers : rd[p].out \in Reports
  BY DEF TypeOK, ReadType
<1>1. CASE Uploading
  BY <1>0, <1>1 DEF Uploading, UploadBegin, UploadStored, UploadDone, UploadFails,
     UploadExpires, TransitionPhase, RowType
<1>2. CASE PrepReconciled
  <2>1. row \in RowType /\ rd["prep"].out \in Reports
    BY <1>0 DEF Readers
  <2> DEFINE new == ApplyStatus(row, row, rd["prep"].out)
  <2>2. new \in RowType /\ new.stopReq = row.stopReq
    BY <2>1, ApplyStatusCases, ApplyStatusAdvances DEF Carries, Advances, RowType
  <2>3. row' \in {new, Transition(new, {"preparing"},
                      [new EXCEPT !.err = "start_status_unknown",
                                  !.ph = IF @ = "none" THEN "starting" ELSE @])}
    BY <1>2 DEF PrepReconciled
  <2> QED BY <2>2, <2>3 DEF Transition, RowType
<1>3. CASE Preparation /\ ~PrepReconciled
  BY <1>0, <1>3 DEF Preparation, Create, Schedule, PrepBegin, PrepLayout, PrepCopying,
     PrepCopy, PrepCommit, PrepMark, PrepCheck, PrepExec, PrepAck, PrepStatusUnknown,
     PrepReconciled, PrepError, PrepFail, Transition, PreparationFailed, RowType
<1>4. CASE Target
  BY <1>4 DEF Target, ScriptCheckSession, ScriptNewSession, ScriptRespawn, ScriptEnds,
     ScriptKilled, Reboot, RunnerSteps, BootstrapState, BootstrapCheck, BootstrapClone,
     BootstrapCloneFails, BootstrapCommit, BootstrapRunning, RunnerCheck, RunnerRejects,
     RunnerState, RunnerLaunch, CommandEnds, RunnerComplete, RunnerPublish, RunnerExit,
     RunnerLosesRoot, RunnerStep
<1>5. CASE Reading
  BY <1>5 DEF Reading, ReadOn, ReadFails, ReadSample, ReadResults, ReadState, ReadStop,
     ReadResample, ReadAgain, Read
<1>6. CASE ObsApply
  BY <1>0, <1>6, ApplyObservationCases DEF ObsApply, Carries, Readers
<1>7. CASE Observing /\ ~ObsApply
  BY <1>0, <1>7 DEF Observing, Deletion, Reconcile, Poll, PollTerminal, StartupScan,
     ObsApply, ObsOffline, StartupLayout, StartupJudge, StartupFail, ReadBreaks,
     OtherReadBreaks, Bridge, DeleteBegin, DeleteKill, DeleteRoot, DeleteFails, DeleteRow,
     ObsBegin, PreparationFailed, Transition, RowType
<1>8. CASE CtlApply
  BY <1>0, <1>8, ApplyStatusCases DEF CtlApply, Carries, Readers
<1>9. CASE Control /\ ~CtlApply
  BY <1>0, <1>9 DEF Control, Stop, Kill, CtlBegin, StopWaiting, StopMissing, KillMissing,
     CtlInspect, CtlPublish, StopSignal, KillSignal, KillRecheck, CtlApply, CtlFails,
     Close, Transition, RowType
<1>10. CASE Shutdown \/ Crash \/ UNCHANGED vars
  BY <1>10 DEF Shutdown, Crash, vars
<1> QED BY <1>1, <1>2, <1>3, <1>4, <1>5, <1>6, <1>7, <1>8, <1>9, <1>10 DEF Next

\* Nothing is stopped that nobody asked to stop: StopAsked is kept.
LEMMA StopAskedStep == TypeOK /\ RunInv /\ [Next]_vars => StopAsked'
<1> SUFFICES ASSUME TypeOK, RunInv, [Next]_vars, ~row'.stopReq PROVE StopAsked'
  BY DEF StopAsked
<1> DEFINE Unasked(t, c, r) ==
      /\ ~t.stop /\ t.compl # "stopped" /\ t.prepres # "stopped" /\ t.runner # "pub_stopped"
      /\ c.pc = "idle" /\ \A p \in Readers : r[p].out # "stopped"
<1>0. tgt \in TargetType /\ rd \in [Readers -> ReadType]
  BY DEF TypeOK
<1>1. ~Stop /\ ~Kill
  BY DEF Stop, Kill, CtlBegin, TypeOK, RowType
<1>2. Unasked(tgt, ctl, rd)
  <2>1. ~row.stopReq
    BY <1>1, RequestStays
  <2> QED BY <2>1 DEF RunInv, StopAsked
<1> SUFFICES Unasked(tgt', ctl', rd')
  BY DEF StopAsked
<1>3. CASE Uploading \/ Shutdown \/ Crash \/ UNCHANGED vars
  <2>1. CASE Uploading \/ Shutdown \/ UNCHANGED vars
    <3>1. UNCHANGED <<tgt, ctl, rd>>
      BY <2>1 DEF Uploading, UploadBegin, UploadStored, UploadDone, UploadFails,
         UploadExpires, Shutdown, vars
    <3> QED BY <1>2, <3>1
  <2>2. CASE Crash
    BY <1>2, <2>2 DEF Crash, IdleRead, IdleCtl
  <2> QED BY <1>3, <2>1, <2>2
<1>4. CASE Preparation
  BY <1>0, <1>2, <1>4 DEF Preparation, Create, Schedule, PrepBegin, PrepLayout,
     PrepCopying, PrepCopy, PrepCommit, PrepMark, PrepCheck, PrepExec, PrepAck,
     PrepStatusUnknown, PrepReconciled, PrepError, PrepFail, IdleRead, TargetType
<1>5. CASE Target
  <2>1. CASE ScriptNewSession \/ ScriptRespawn \/ Reboot \/ ScriptCheckSession \/ ScriptEnds
             \/ ScriptKilled
    BY <1>0, <1>2, <2>1 DEF ScriptCheckSession, ScriptNewSession, ScriptRespawn,
       ScriptEnds, ScriptKilled, Reboot, KillSession, RunnerDies, TargetType
  <2>2. CASE RunnerSteps
    <3>1. /\ ~tgt'.stop /\ tgt'.compl # "stopped" /\ tgt'.prepres # "stopped"
          /\ tgt'.runner # "pub_stopped"
      BY <1>0, <1>2, <2>2 DEF RunnerSteps, BootstrapState, BootstrapCheck, BootstrapClone,
         BootstrapCloneFails, BootstrapCommit, BootstrapRunning, RunnerCheck,
         RunnerRejects, RunnerState, RunnerLaunch, CommandEnds, RunnerComplete,
         RunnerPublish, RunnerExit, RunnerLosesRoot, RunnerStep, Refuse, RunnerDies,
         TargetType
    <3>2. UNCHANGED <<ctl, rd>>
      BY <2>2 DEF RunnerSteps, BootstrapState, BootstrapCheck, BootstrapClone,
         BootstrapCloneFails, BootstrapCommit, BootstrapRunning, RunnerCheck,
         RunnerRejects, RunnerState, RunnerLaunch, CommandEnds, RunnerComplete,
         RunnerPublish, RunnerExit, RunnerLosesRoot, RunnerStep
    <3> QED BY <1>2, <3>1, <3>2
  <2> QED BY <1>5, <2>1, <2>2 DEF Target
<1>6. CASE Reading
  <2> PICK p \in Readers : ReadOn(p) \/ ReadFails(p)
    BY <1>6 DEF Reading
  <2>1. UNCHANGED <<tgt, ctl>> /\ \E r : rd' = [rd EXCEPT ![p] = r]
    BY DEF ReadOn, ReadFails, ReadSample, ReadResults, ReadState, ReadStop, ReadResample,
       ReadAgain, Read
  <2>2. rd[p] \in ReadType /\ rd[p].out # "stopped"
    BY <1>0, <1>2
  <2>3. rd'[p].out # "stopped"
    <3>0. CASE ReadFails(p)
      BY <1>0, <2>2, <3>0 DEF ReadFails, IdleRead
    <3>1. CASE ReadSample(p)
      <4> DEFINE r == [rd[p] EXCEPT !.live = PaneLive(tgt), !.exists = tgt.sess # "none"]
      <4>1. rd'[p] = IF tgt.layout THEN [r EXCEPT !.step = "results"]
                     ELSE Done(r, IF r.live THEN "pane_only" ELSE "missing")
        BY <1>0, <3>1 DEF ReadSample, Read
      <4> QED BY <2>2, <4>1 DEF Done, IdleRead, ReadType
    <3>2. CASE ReadResults(p)
      BY <1>0, <1>2, <2>2, <3>2 DEF ReadResults, Read, Done, IdleRead, ReadType, TargetType
    <3>3. CASE ReadState(p)
      BY <1>0, <2>2, <3>3 DEF ReadState, Read, Done, IdleRead, LivePhase, ReadType, TargetType
    <3>6. CASE ReadResample(p)
      <4> DEFINE r == [rd[p] EXCEPT !.exists = tgt.sess # "none"]
      <4>1. rd'[p] = IF PaneLive(tgt) THEN Done(r, LivePhase(rd[p].state))
                     ELSE [r EXCEPT !.step = "reread"]
        BY <1>0, <3>6 DEF ReadResample, Read
      <4> QED BY <2>2, <4>1 DEF Done, IdleRead, LivePhase, ReadType
    <3>4. CASE ReadStop(p)
      BY <1>0, <1>2, <2>2, <3>4 DEF ReadStop, Read, Done, IdleRead, ReadType
    <3>5. CASE ReadAgain(p)
      BY <1>0, <1>2, <2>2, <3>5 DEF ReadAgain, Read, Done, IdleRead, ReadType, TargetType
    <3> QED BY <3>0, <3>1, <3>2, <3>3, <3>4, <3>5, <3>6 DEF ReadOn
  <2> QED BY <1>0, <1>2, <2>1, <2>3
<1>7. CASE Observing
  <2>1. UNCHANGED ctl /\ (UNCHANGED rd \/ \E r \in {"off", "sample"} :
                            rd' = [rd EXCEPT !["obs"] = [IdleRead EXCEPT !.step = r]])
    <3>1. IdleRead = [IdleRead EXCEPT !.step = "off"]
      BY DEF IdleRead
    <3>2. CASE ObsApply \/ ObsOffline \/ ReadBreaks
      BY <3>1, <3>2 DEF ObsApply, ObsOffline, ReadBreaks
    <3>3. CASE Reconcile \/ Poll \/ StartupScan
      BY <3>3 DEF Reconcile, Poll, StartupScan, ObsBegin
    <3>4. CASE \/ PollTerminal \/ StartupLayout \/ StartupJudge \/ StartupFail
               \/ OtherReadBreaks \/ Bridge \/ Deletion
      BY <3>4 DEF Deletion, PollTerminal, StartupLayout, StartupJudge, StartupFail,
         OtherReadBreaks, Bridge, DeleteBegin, DeleteKill, DeleteRoot, DeleteFails,
         DeleteRow
    <3> QED BY <1>7, <3>2, <3>3, <3>4 DEF Observing
  <2>2. \A p \in Readers : rd'[p].out # "stopped"
    BY <1>0, <1>2, <2>1 DEF IdleRead
  <2>3. /\ ~tgt'.stop /\ tgt'.compl # "stopped" /\ tgt'.prepres # "stopped"
        /\ tgt'.runner # "pub_stopped"
    <3>1. CASE Bridge
      BY <1>0, <1>2, <3>1 DEF Bridge, TargetType
    <3>2. CASE DeleteKill
      BY <1>0, <1>2, <3>2 DEF DeleteKill, KillSession, TargetType
    <3>3. CASE DeleteRoot
      BY <1>2, <3>3 DEF DeleteRoot
    <3>4. CASE Observing /\ ~Bridge /\ ~DeleteKill /\ ~DeleteRoot
      BY <1>2, <3>4 DEF Observing, Deletion, Reconcile, Poll, PollTerminal, StartupScan,
         ObsApply, ObsOffline, StartupLayout, StartupJudge, StartupFail, ReadBreaks,
         OtherReadBreaks, Bridge, DeleteBegin, DeleteKill, DeleteRoot, DeleteFails,
         DeleteRow, ObsBegin
    <3> QED BY <1>7, <3>1, <3>2, <3>3, <3>4
  <2> QED BY <1>2, <2>1, <2>2, <2>3
<1>8. CASE Control
  BY <1>1, <1>2, <1>8 DEF Control, Stop, Kill, CtlBegin, StopWaiting, StopMissing,
     KillMissing, CtlInspect, CtlPublish, StopSignal, KillSignal, KillRecheck, CtlApply,
     CtlFails, IdleCtl
<1> QED BY <1>3, <1>4, <1>5, <1>6, <1>7, <1>8 DEF Next

\* Between the steps of a read its record only begins or ends.
LEMMA RdOtherwise ==
  [Next]_vars /\ ~Reading /\ ~Crash =>
    \/ rd' = rd
    \/ \E p \in Readers : rd' = [rd EXCEPT ![p] = [IdleRead EXCEPT !.step = "sample"]]
    \/ \E p \in Readers : rd' = [rd EXCEPT ![p] = IdleRead]
<1>1. Uploading \/ Shutdown \/ UNCHANGED vars => rd' = rd
  BY DEF Uploading, UploadBegin, UploadStored, UploadDone, UploadFails, UploadExpires,
     Shutdown, vars
<1>2. Target => rd' = rd
  BY DEF Target, ScriptCheckSession, ScriptNewSession, ScriptRespawn, ScriptEnds,
     ScriptKilled, Reboot, RunnerSteps, BootstrapState, BootstrapCheck, BootstrapClone,
     BootstrapCloneFails, BootstrapCommit, BootstrapRunning, RunnerCheck, RunnerRejects,
     RunnerState, RunnerLaunch, CommandEnds, RunnerComplete, RunnerPublish, RunnerExit,
     RunnerLosesRoot, RunnerStep
<1>3. PrepStatusUnknown => rd' = [rd EXCEPT !["prep"] = [IdleRead EXCEPT !.step = "sample"]]
  BY DEF PrepStatusUnknown
<1>4. PrepReconciled => rd' = [rd EXCEPT !["prep"] = IdleRead]
  BY DEF PrepReconciled
<1>5. Preparation /\ ~PrepStatusUnknown /\ ~PrepReconciled => rd' = rd
  BY DEF Preparation, Create, Schedule, PrepBegin, PrepLayout, PrepCopying, PrepCopy,
     PrepCommit, PrepMark, PrepCheck, PrepExec, PrepAck, PrepStatusUnknown,
     PrepReconciled, PrepError, PrepFail
<1>6. Reconcile \/ Poll \/ StartupScan =>
        rd' = rd \/ rd' = [rd EXCEPT !["obs"] = [IdleRead EXCEPT !.step = "sample"]]
  BY DEF Reconcile, Poll, StartupScan, ObsBegin
<1>7. ObsApply \/ ObsOffline \/ ReadBreaks => rd' = [rd EXCEPT !["obs"] = IdleRead]
  BY DEF ObsApply, ObsOffline, ReadBreaks
<1>8. Observing /\ ~Reconcile /\ ~Poll /\ ~StartupScan /\ ~ObsApply /\ ~ObsOffline
        /\ ~ReadBreaks => rd' = rd
  BY DEF Observing, Deletion, PollTerminal, StartupLayout, StartupJudge, StartupFail,
     OtherReadBreaks, Bridge, DeleteBegin, DeleteKill, DeleteRoot, DeleteFails, DeleteRow
<1>9. CtlApply => rd' = [rd EXCEPT !["ctl"] = IdleRead]
  BY DEF CtlApply
<1>10. CtlInspect \/ StopSignal =>
         rd' = rd \/ rd' = [rd EXCEPT !["ctl"] = [IdleRead EXCEPT !.step = "sample"]]
  BY DEF CtlInspect, StopSignal, CtlReads
<1>11. KillRecheck =>
         rd' = rd \/ rd' = [rd EXCEPT !["ctl"] = [IdleRead EXCEPT !.step = "sample"]]
  BY DEF KillRecheck, CtlReads
<1>12. Control /\ ~CtlApply /\ ~CtlInspect /\ ~StopSignal /\ ~KillRecheck => rd' = rd
  BY DEF Control, Stop, Kill, CtlBegin, StopWaiting, StopMissing, KillMissing, CtlPublish,
     KillSignal, CtlFails
<1>13. "prep" \in Readers /\ "obs" \in Readers /\ "ctl" \in Readers
  BY DEF Readers
<1> QED BY <1>1, <1>2, <1>3, <1>4, <1>5, <1>6, <1>7, <1>8, <1>9, <1>10, <1>11, <1>12, <1>13
        DEF Next

\* A read goes on as it should: InProgress is kept.
LEMMA InProgressStep == TypeOK /\ RunInv /\ [Next]_vars => InProgress'
<1> SUFFICES ASSUME TypeOK, RunInv, [Next]_vars PROVE InProgress'
  OBVIOUS
<1> DEFINE Fresh(r) == /\ r.step # "done" => r.out = "none"
                       /\ r.step \in {"resample", "reread"} => ~r.live
<1>0. rd \in [Readers -> ReadType] /\ \A p \in Readers : Fresh(rd[p])
  BY DEF TypeOK, RunInv, InProgress
<1>1. ASSUME NEW p, NEW s \in {"off", "sample", "failed"},
             rd' = [rd EXCEPT ![p] = [IdleRead EXCEPT !.step = s]]
      PROVE  InProgress'
  BY <1>0, <1>1 DEF IdleRead, InProgress
<1>2. ASSUME rd' = rd PROVE InProgress'
  BY <1>0, <1>2 DEF InProgress
<1>i. IdleRead = [IdleRead EXCEPT !.step = "off"]
  BY DEF IdleRead
<1>3. CASE Reading
  <2> PICK p \in Readers : ReadOn(p) \/ ReadFails(p)
    BY <1>3 DEF Reading
  <2>0. Fresh(rd[p]) /\ rd[p] \in ReadType
    BY <1>0
  <2>d. \A r, out : Fresh(Done(r, out))
    BY DEF Done, IdleRead
  <2>a. ASSUME NEW r, rd' = [rd EXCEPT ![p] = r], Fresh(r) PROVE InProgress'
    BY <1>0, <2>a DEF InProgress
  <2>1. CASE ReadFails(p)
    BY <1>1, <2>1 DEF ReadFails
  <2>2. CASE ReadSample(p)
    <3> DEFINE r == [rd[p] EXCEPT !.live = PaneLive(tgt), !.exists = tgt.sess # "none"]
               new == IF tgt.layout THEN [r EXCEPT !.step = "results"]
                      ELSE Done(r, IF r.live THEN "pane_only" ELSE "missing")
    <3>1. rd' = [rd EXCEPT ![p] = new] /\ rd[p].step = "sample"
      BY <2>2 DEF ReadSample, Read
    <3>2. Fresh([r EXCEPT !.step = "results"])
      BY <2>0, <3>1 DEF ReadType
    <3>3. Fresh(new)
      BY <2>d, <3>2
    <3> HIDE DEF new
    <3> QED BY <2>a, <3>1, <3>3
  <2>3. CASE ReadResults(p)
    <3> DEFINE new == CASE tgt.compl # "none" -> Done(rd[p], tgt.compl)
      [] tgt.compl = "none" /\ tgt.prepres # "none" -> Done(rd[p], tgt.prepres)
      [] tgt.compl = "none" /\ tgt.prepres = "none" ->
           [rd[p] EXCEPT !.step = "state"]
    <3>1. rd' = [rd EXCEPT ![p] = new] /\ rd[p].step = "results"
      BY <2>3 DEF ReadResults, Read
    <3>2. Fresh([rd[p] EXCEPT !.step = "state"])
      BY <2>0, <3>1 DEF ReadType
    <3>3. Fresh(new)
      BY <2>d, <3>2
    <3> HIDE DEF new
    <3> QED BY <2>a, <3>1, <3>3
  <2>4. CASE ReadState(p)
    <3> DEFINE next == [rd[p] EXCEPT !.state = tgt.state,
                           !.step = IF tgt.state = "none" THEN "stop"
                                    ELSE "resample"]
               new == CASE rd[p].live -> Done(rd[p], LivePhase(tgt.state))
                        [] ~rd[p].live -> next
    <3>1. rd' = [rd EXCEPT ![p] = new] /\ rd[p].step = "state"
      BY <2>4 DEF ReadState, Read
    <3>2. ~rd[p].live => Fresh(next)
      BY <2>0, <3>1 DEF ReadType
    <3>3. Fresh(new)
      BY <2>d, <3>2
    <3> HIDE DEF new
    <3> QED BY <2>a, <3>1, <3>3
  <2>5. CASE ReadStop(p) \/ ReadAgain(p)
    <3>1. \E out : rd' = [rd EXCEPT ![p] = Done(rd[p], out)]
      BY <2>5 DEF ReadStop, ReadAgain, Read
    <3> QED BY <2>a, <2>d, <3>1
  <2>6. CASE ReadResample(p)
    <3> DEFINE r == [rd[p] EXCEPT !.exists = tgt.sess # "none"]
               new == IF PaneLive(tgt) THEN Done(r, LivePhase(rd[p].state))
                      ELSE [r EXCEPT !.step = "reread"]
    <3>1. rd' = [rd EXCEPT ![p] = new] /\ rd[p].step = "resample"
      BY <2>6 DEF ReadResample, Read
    <3>2. Fresh([r EXCEPT !.step = "reread"])
      BY <2>0, <3>1 DEF ReadType
    <3>3. Fresh(new)
      BY <2>d, <3>2
    <3> HIDE DEF new
    <3> QED BY <2>a, <3>1, <3>3
  <2> QED BY <2>1, <2>2, <2>3, <2>4, <2>5, <2>6 DEF ReadOn
<1>4. CASE Crash
  BY <1>4 DEF Crash, IdleRead, InProgress
<1>5. CASE ~Reading /\ ~Crash
  BY <1>1, <1>2, <1>5, <1>i, RdOtherwise
<1> QED BY <1>3, <1>4, <1>5

-----------------------------------------------------------------------------
(* Reads *)

\* What record r of a read says is so on target t.
ReadTrue(t, r) ==
  /\ r.step \in {"results", "state", "stop", "resample", "reread"} => t.layout
  /\ r.live => r.exists
  /\ r.step = "resample" => t.runner # "none"
  /\ r.state # "none" => t.state # "none"
  /\ r.state = "running" => t.state = "running"
  /\ r.step = "reread" => t.runner = "gone"
  /\ r.out \in Terminal \cup {"running", "cloning", "preparing"} => t.layout
  /\ r.out = "running" => t.state = "running"
  /\ r.out = "cloning" => t.state # "none" /\ r.exists
  /\ r.out = "finished" => t.compl = "finished"
  /\ r.out = "failed" => t.runner = "gone"
  /\ r.out = "lost" => t.runner = "gone" /\ t.compl = "none"
  /\ r.out = "stopped" => t.stop \/ t.runner \in {"exit", "gone"}

\* ReadsTrue, reader by reader.
LEMMA ReadsTrueIs ==
  ReadsTrue <=> (row.st \in Active =>
    /\ \A p \in Readers : ReadTrue(tgt, rd[p])
    /\ obs.pc = "read" /\ rd["obs"].out = "missing" => obs.st # "running")
BY DEF ReadsTrue, ReadTrue, Readers

\* A true read stays true while the target moves on.
LEMMA ReadTrueStays ==
  ASSUME NEW r, Onward, ReadTrue(tgt, r) PROVE ReadTrue(tgt', r)
BY DEF Onward, ReadTrue

\* A read that has learned nothing is true.
LEMMA EmptyReadTrue ==
  ASSUME NEW t, NEW s \in {"off", "sample", "failed"}
  PROVE  ReadTrue(t, [IdleRead EXCEPT !.step = s])
BY DEF ReadTrue, IdleRead, Terminal

\* What a reader learns in a step is true at that step.
LEMMA ReadLearnsTrue ==
  ASSUME TypeOK, RunInv, row.st \in Active, NEW p \in Readers, ReadOn(p) \/ ReadFails(p)
  PROVE  ReadTrue(tgt, rd'[p])
<1>0. tgt \in TargetType /\ rd \in [Readers -> ReadType] /\ rd[p] \in ReadType
  BY DEF TypeOK
<1>t. ReadTrue(tgt, rd[p])
  BY ReadsTrueIs DEF RunInv
<1>i. /\ rd[p].step # "done" => rd[p].out = "none"
      /\ rd[p].step \in {"resample", "reread"} => ~rd[p].live
  BY DEF RunInv, InProgress
<1>r. Recorded
  BY DEF RunInv
<1>1. CASE ReadFails(p)
  BY <1>0, <1>1, EmptyReadTrue DEF ReadFails
<1>2. CASE ReadSample(p)
  <2> DEFINE r == [rd[p] EXCEPT !.live = PaneLive(tgt), !.exists = tgt.sess # "none"]
  <2>1. rd'[p] = IF tgt.layout THEN [r EXCEPT !.step = "results"]
                 ELSE Done(r, IF r.live THEN "pane_only" ELSE "missing")
    BY <1>0, <1>2 DEF ReadSample, Read
  <2>2. PaneLive(tgt) => tgt.sess # "none"
    BY DEF PaneLive
  <2>3. CASE tgt.layout
    <3>1. /\ rd'[p].step = "results" /\ rd'[p].out = rd[p].out
          /\ rd'[p].state = rd[p].state /\ (rd'[p].live => rd'[p].exists)
          /\ rd[p].out = "cloning" => rd'[p].exists
      BY <1>0, <1>t, <2>1, <2>2, <2>3, <1>2, <1>i DEF ReadType, ReadSample, Read
    <3> QED BY <1>t, <2>3, <3>1 DEF ReadTrue
  <2>4. CASE ~tgt.layout
    <3>1. /\ rd'[p].step = "done" /\ rd'[p].out \in {"pane_only", "missing"}
          /\ rd'[p].state = "none" /\ ~rd'[p].live
      BY <2>1, <2>4 DEF Done, IdleRead
    <3> QED BY <3>1 DEF ReadTrue, Terminal
  <2> QED BY <2>3, <2>4
<1>3. CASE ReadResults(p)
  <2>1. rd[p].step = "results"
    BY <1>3 DEF ReadResults, Read
  <2>2. CASE tgt.compl = "none" /\ tgt.prepres = "none"
    <3>1. rd'[p] = [rd[p] EXCEPT !.step = "state"]
      BY <1>0, <1>3, <2>2 DEF ReadResults, Read
    <3> QED BY <1>0, <1>t, <2>1, <3>1 DEF ReadTrue, ReadType
  <2>3. CASE tgt.compl # "none"
    <3>1. rd'[p] = Done(rd[p], tgt.compl)
      BY <1>0, <1>3, <2>3 DEF ReadResults, Read
    <3> QED BY <1>0, <1>r, <1>t, <2>1, <2>3, <3>1
            DEF ReadTrue, ReadType, Done, IdleRead, TargetType, Recorded, Terminal
  <2>4. CASE tgt.compl = "none" /\ tgt.prepres # "none"
    <3>1. rd'[p] = Done(rd[p], tgt.prepres)
      BY <1>0, <1>3, <2>4 DEF ReadResults, Read
    <3> QED BY <1>0, <1>r, <1>t, <2>1, <2>4, <3>1
            DEF ReadTrue, ReadType, Done, IdleRead, TargetType, Recorded, Terminal
  <2> QED BY <2>2, <2>3, <2>4
<1>4. CASE ReadState(p)
  <2>1. rd[p].step = "state" /\ tgt.layout
    BY <1>4, <1>t DEF ReadState, Read, ReadTrue
  <2>2. CASE rd[p].live
    <3>1. rd'[p] = Done(rd[p], LivePhase(tgt.state))
      BY <1>0, <1>4, <2>2 DEF ReadState, Read
    <3> QED BY <1>0, <1>t, <2>1, <2>2, <3>1
            DEF ReadTrue, Done, IdleRead, LivePhase, TargetType, ReadType, Terminal
  <2>3. CASE ~rd[p].live
    <3>1. rd'[p] = [rd[p] EXCEPT !.state = tgt.state,
                           !.step = IF tgt.state = "none" THEN "stop" ELSE "resample"]
      BY <1>0, <1>4, <2>3 DEF ReadState, Read
    <3> QED BY <1>0, <1>r, <1>t, <2>1, <2>3, <3>1
            DEF ReadTrue, TargetType, ReadType, Recorded
  <2> QED BY <2>2, <2>3
<1>5. CASE ReadStop(p)
  <2>1. rd'[p] = Done(rd[p], IF tgt.stop THEN "stopped" ELSE "preparing") /\ tgt.layout
    BY <1>0, <1>5, <1>t DEF ReadStop, Read, ReadTrue
  <2> QED BY <2>1 DEF ReadTrue, Done, IdleRead, Terminal
<1>6. CASE ReadResample(p)
  <2> DEFINE r == [rd[p] EXCEPT !.exists = tgt.sess # "none"]
  <2>1. /\ rd'[p] = IF PaneLive(tgt) THEN Done(r, LivePhase(rd[p].state))
                    ELSE [r EXCEPT !.step = "reread"]
        /\ rd[p].step = "resample"
    BY <1>0, <1>6 DEF ReadResample, Read
  <2>2. CASE PaneLive(tgt)
    <3>1. /\ rd'[p].step = "done" /\ rd'[p].state = "none" /\ ~rd'[p].live /\ rd'[p].exists
          /\ rd'[p].out = LivePhase(rd[p].state)
      BY <1>0, <2>1, <2>2 DEF Done, IdleRead, ReadType, PaneLive
    <3> QED BY <1>0, <1>t, <2>1, <3>1 DEF ReadTrue, LivePhase, ReadType, Terminal
  <2>3. CASE ~PaneLive(tgt)
    <3>1. tgt.runner = "gone"
      BY <1>0, <1>t, <2>1, <2>3 DEF ReadTrue, RunInv, InPane, RunnerLive, PaneLive, TargetType
    <3>2. /\ rd'[p].step = "reread" /\ rd'[p].state = rd[p].state /\ rd'[p].live = rd[p].live
          /\ rd'[p].out = rd[p].out
      BY <1>0, <2>1, <2>3 DEF ReadType
    <3>3. ~rd[p].live /\ rd[p].out = "none"
      BY <2>1, <1>i
    <3> QED BY <1>t, <2>1, <3>1, <3>2, <3>3 DEF ReadTrue, Terminal
  <2> QED BY <2>2, <2>3
<1>7. CASE ReadAgain(p)
  <2>1. tgt.layout /\ tgt.runner = "gone"
    BY <1>t, <1>7 DEF ReadAgain, Read, ReadTrue
  <2>2. /\ rd'[p].step = "done" /\ rd'[p].state = "none" /\ ~rd'[p].live
        /\ rd'[p].out \notin {"running", "cloning"}
        /\ rd'[p].out = "finished" => tgt.compl = "finished"
        /\ rd'[p].out = "lost" => tgt.compl = "none"
    BY <1>0, <1>7 DEF ReadAgain, Read, Done, IdleRead, TargetType
  <2> QED BY <2>1, <2>2 DEF ReadTrue
<1> QED BY <1>1, <1>2, <1>3, <1>4, <1>5, <1>6, <1>7 DEF ReadOn

\* The observer's read belongs to the row it saw when it took the lock.
LEMMA ObsReadBegins ==
  TypeOK /\ [Next]_vars /\ obs'.pc = "read" =>
    obs' = obs \/ (rd'["obs"] = [IdleRead EXCEPT !.step = "sample"] /\ row.st \in Active)
<1> SUFFICES ASSUME TypeOK, [Next]_vars, obs'.pc = "read"
             PROVE  obs' = obs \/ ( /\ rd'["obs"] = [IdleRead EXCEPT !.step = "sample"]
                                    /\ row.st \in Active)
  OBVIOUS
<1>0. rd \in [Readers -> ReadType] /\ "obs" \in Readers /\ obs \in ObsType
  BY DEF TypeOK, Readers
<1>1. CASE Uploading \/ Shutdown \/ UNCHANGED vars
  BY <1>1 DEF Uploading, UploadBegin, UploadStored, UploadDone, UploadFails,
     UploadExpires, Shutdown, vars
<1>8. CASE Crash
  BY <1>8 DEF Crash, IdleObs
<1>2. CASE Preparation
  BY <1>2 DEF Preparation, Create, Schedule, PrepBegin, PrepLayout, PrepCopying, PrepCopy,
     PrepCommit, PrepMark, PrepCheck, PrepExec, PrepAck, PrepStatusUnknown,
     PrepReconciled, PrepError, PrepFail
<1>3. CASE Target \/ Reading
  BY <1>3 DEF Target, ScriptCheckSession, ScriptNewSession, ScriptRespawn, ScriptEnds,
     ScriptKilled, Reboot, RunnerSteps, BootstrapState, BootstrapCheck, BootstrapClone,
     BootstrapCloneFails, BootstrapCommit, BootstrapRunning, RunnerCheck, RunnerRejects,
     RunnerState, RunnerLaunch, CommandEnds, RunnerComplete, RunnerPublish, RunnerExit,
     RunnerLosesRoot, RunnerStep, Reading, ReadOn, ReadFails, ReadSample, ReadResults,
     ReadState, ReadStop, ReadResample, ReadAgain, Read
<1>4. CASE Reconcile \/ Poll \/ StartupScan
  BY <1>0, <1>4 DEF Reconcile, Poll, StartupScan, ObsBegin, Observable
<1>5. CASE ObsApply
  BY <1>0, <1>5 DEF ObsApply, IdleObs, ObsType
<1>6. CASE Deletion \/ PollTerminal
  BY <1>0, <1>6 DEF Deletion, DeleteBegin, DeleteKill, DeleteRoot, DeleteFails, DeleteRow,
     PollTerminal, IdleObs, ObsType
<1>9. CASE ObsOffline \/ ReadBreaks \/ OtherReadBreaks \/ StartupLayout \/ StartupJudge
           \/ StartupFail \/ Bridge
  <2>1. obs' \in {IdleObs, obs}
    BY <1>9 DEF ObsOffline, ReadBreaks, OtherReadBreaks, StartupLayout, StartupJudge,
       StartupFail, Bridge
  <2> QED BY <2>1 DEF IdleObs
<1>7. CASE Control
  BY <1>7 DEF Control, Stop, Kill, CtlBegin, StopWaiting, StopMissing, KillMissing,
     CtlInspect, CtlPublish, StopSignal, KillSignal, KillRecheck, CtlApply, CtlFails
<1> QED BY <1>1, <1>2, <1>3, <1>4, <1>5, <1>6, <1>7, <1>8, <1>9 DEF Next, Observing

\* What was read of an active run stays so until it is applied: ReadsTrue is kept.
LEMMA ReadsTrueStep == TypeOK /\ RunInv /\ [Next]_vars => ReadsTrue'
<1> SUFFICES ASSUME TypeOK, RunInv, [Next]_vars, row'.st \in Active
             PROVE  /\ \A p \in Readers : ReadTrue(tgt', rd'[p])
                    /\ obs'.pc = "read" /\ rd'["obs"].out = "missing" =>
                         obs'.st # "running"
  BY DEF ReadsTrue, ReadTrue, Readers
<1>0. rd \in [Readers -> ReadType] /\ tgt \in TargetType /\ "obs" \in Readers
  BY DEF TypeOK, Readers
<1>1. Onward /\ (row.st \in Active \/ Create)
  BY ActiveOnward
<1>i. IdleRead = [IdleRead EXCEPT !.step = "off"]
  BY DEF IdleRead
<1>2. CASE Create
  <2>1. rd' = [p \in Readers |-> IdleRead] /\ obs' = IdleObs
    BY <1>2 DEF Create, RunInv, OneUpload
  <2>2. \A p \in Readers : ReadTrue(tgt', rd'[p])
    BY <1>i, <2>1, EmptyReadTrue
  <2> QED BY <2>1, <2>2 DEF IdleObs
<1>3. CASE row.st \in Active
  <2>1. /\ \A p \in Readers : ReadTrue(tgt, rd[p])
        /\ obs.pc = "read" /\ rd["obs"].out = "missing" => obs.st # "running"
    BY <1>3, ReadsTrueIs DEF RunInv
  <2>2. \A p \in Readers : ReadTrue(tgt, rd'[p])
    <3>1. CASE Reading
      <4> PICK p \in Readers : ReadOn(p) \/ ReadFails(p)
        BY <3>1 DEF Reading
      <4>1. \E r : rd' = [rd EXCEPT ![p] = r]
        BY DEF ReadOn, ReadFails, ReadSample, ReadResults, ReadState, ReadStop,
           ReadResample, ReadAgain, Read
      <4>2. ReadTrue(tgt, rd'[p])
        BY <1>3, ReadLearnsTrue
      <4> QED BY <1>0, <2>1, <4>1, <4>2
    <3>2. CASE Crash
      BY <1>i, <3>2, EmptyReadTrue DEF Crash
    <3>3. CASE ~Reading /\ ~Crash
      <4>1. \A p \in Readers : rd'[p] \in {rd[p], IdleRead, [IdleRead EXCEPT !.step = "sample"]}
        BY <1>0, <3>3, RdOtherwise
      <4> QED BY <1>i, <2>1, <4>1, EmptyReadTrue
    <3> QED BY <3>1, <3>2, <3>3
  <2>3. \A p \in Readers : ReadTrue(tgt', rd'[p])
    BY <1>1, <2>2, ReadTrueStays
  <2>4. ASSUME obs'.pc = "read", rd'["obs"].out = "missing" PROVE obs'.st # "running"
    <3>1. obs' = obs
      BY <2>4, ObsReadBegins DEF IdleRead
    <3>2. CASE rd["obs"].out = "missing"
      BY <2>1, <2>4, <3>1, <3>2
    <3>3. CASE rd["obs"].out # "missing"
      <4>1. Reading
        BY <1>0, <2>4, <3>3, RdOtherwise DEF IdleRead, Crash
      <4> PICK p \in Readers : ReadOn(p) \/ ReadFails(p)
        BY <4>1 DEF Reading
      <4>2. p = "obs"
        BY <1>0, <2>4, <3>3 DEF ReadOn, ReadFails, ReadSample, ReadResults, ReadState,
           ReadStop, ReadResample, ReadAgain, Read
      <4>3. ReadSample("obs")
        <5>1. rd["obs"] \in ReadType
          BY <1>0
        <5>2. ~ReadFails("obs")
          BY <1>0, <2>4 DEF ReadFails, IdleRead
        <5>3. ~ReadResults("obs")
          <6>1. ReadResults("obs") =>
                  rd'["obs"] \in {Done(rd["obs"], tgt.compl), Done(rd["obs"], tgt.prepres),
                                  [rd["obs"] EXCEPT !.step = "state"]}
            BY <1>0 DEF ReadResults, Read
          <6> QED BY <1>0, <2>4, <3>3, <5>1, <6>1 DEF Done, IdleRead, ReadType, TargetType
        <5>4. ~ReadState("obs")
          <6>1. ReadState("obs") =>
                  rd'["obs"] \in {Done(rd["obs"], LivePhase(tgt.state)),
                                  [rd["obs"] EXCEPT !.state = tgt.state,
                                     !.step = IF tgt.state = "none" THEN "stop"
                                              ELSE "resample"]}
            BY <1>0 DEF ReadState, Read
          <6> QED BY <1>0, <2>4, <3>3, <5>1, <6>1
                  DEF Done, IdleRead, LivePhase, ReadType, TargetType
        <5>5. ~ReadStop("obs")
          BY <1>0, <2>4 DEF ReadStop, Read, Done, IdleRead
        <5>6. ~ReadResample("obs")
          <6> DEFINE r == [rd["obs"] EXCEPT !.exists = tgt.sess # "none"]
          <6>1. ReadResample("obs") =>
                  rd'["obs"] = IF PaneLive(tgt) THEN Done(r, LivePhase(rd["obs"].state))
                               ELSE [r EXCEPT !.step = "reread"]
            BY <1>0 DEF ReadResample, Read
          <6> QED BY <2>4, <3>3, <5>1, <6>1 DEF Done, IdleRead, LivePhase, ReadType
        <5>7. ~ReadAgain("obs")
          BY <1>0, <2>4 DEF ReadAgain, Read, Done, IdleRead, TargetType
        <5> QED BY <4>2, <5>2, <5>3, <5>4, <5>5, <5>6, <5>7 DEF ReadOn
      <4>4. ~tgt.layout
        <5>1. rd["obs"] \in ReadType
          BY <1>0
        <5> DEFINE r == [rd["obs"] EXCEPT !.live = PaneLive(tgt),
                                          !.exists = tgt.sess # "none"]
        <5>2. tgt.layout => rd'["obs"] = [r EXCEPT !.step = "results"]
          BY <1>0, <4>3 DEF ReadSample, Read
        <5> QED BY <2>4, <3>3, <5>1, <5>2 DEF ReadType
      <4> QED BY <1>3, <2>4, <3>1, <4>4 DEF RunInv, InDirectory
    <3> QED BY <3>2, <3>3
  <2> QED BY <2>3, <2>4
<1> QED BY <1>1, <1>2, <1>3

\* Only the preparation makes the directory.
LEMMA LayoutOtherwise ==
  TypeOK /\ [Next]_vars /\ ~PrepLayout /\ tgt'.layout => tgt.layout
<1> SUFFICES ASSUME TypeOK, [Next]_vars, ~PrepLayout, tgt'.layout PROVE tgt.layout
  OBVIOUS
<1>0. tgt \in TargetType
  BY DEF TypeOK
<1>1. CASE Target
  BY <1>0, <1>1 DEF Target, ScriptCheckSession, ScriptNewSession, ScriptRespawn,
     ScriptEnds, ScriptKilled, Reboot, RunnerSteps, BootstrapState, BootstrapCheck,
     BootstrapClone, BootstrapCloneFails, BootstrapCommit, BootstrapRunning, RunnerCheck,
     RunnerRejects, RunnerState, RunnerLaunch, CommandEnds, RunnerComplete, RunnerPublish,
     RunnerExit, RunnerLosesRoot, RunnerStep, KillSession, Refuse, RunnerDies, TargetType
<1>2. CASE Control
  BY <1>0, <1>2 DEF Control, Stop, Kill, CtlBegin, StopWaiting, StopMissing, KillMissing,
     CtlInspect, CtlPublish, StopSignal, KillSignal, KillRecheck, CtlApply, CtlFails,
     KillSession, Interrupted, RunnerDies, TargetType
<1>3. CASE PrepCommit \/ Bridge \/ DeleteRoot
  BY <1>0, <1>3 DEF PrepCommit, Bridge, DeleteRoot, TargetType
<1>4. CASE DeleteKill
  BY <1>0, <1>4 DEF DeleteKill, KillSession, TargetType
<1>5. CASE ~Target /\ ~Control /\ ~PrepCommit /\ ~Bridge /\ ~DeleteKill /\ ~DeleteRoot
  BY <1>5, TargetOtherwise
<1> QED BY <1>1, <1>2, <1>3, <1>4, <1>5

-----------------------------------------------------------------------------
(* Starts that will not happen *)

\* A run is in preparation only from its creation on.
LEMMA PreparingStays ==
  TypeOK /\ [Next]_vars /\ row'.st = "preparing" => row.st = "preparing" \/ Create
<1> SUFFICES ASSUME TypeOK, [Next]_vars, row'.st = "preparing", ~Create
             PROVE  row.st = "preparing"
  OBVIOUS
<1>0. row \in RowType /\ obs \in ObsType
      /\ rd["prep"].out \in Reports /\ rd["obs"].out \in Reports /\ rd["ctl"].out \in Reports
  BY DEF TypeOK, ReadType, Readers
<1>1. CASE Uploading
  BY <1>0, <1>1 DEF Uploading, UploadBegin, UploadStored, UploadDone, UploadFails,
     UploadExpires, TransitionPhase, RowType
<1>2. CASE PrepReconciled
  <2> DEFINE new == ApplyStatus(row, row, rd["prep"].out)
  <2>1. new \in RowType /\ (new.st # row.st => new.st # "preparing")
    <3>1. Advances(row, new)
      BY <1>0, ApplyStatusAdvances DEF RowType
    <3>2. new.st # row.st => new.st # "preparing"
      BY <1>0, ApplyStatusCases
    <3> QED BY <3>1, <3>2 DEF Advances
  <2>2. row' \in {new, Transition(new, {"preparing"},
                      [new EXCEPT !.err = "start_status_unknown",
                                  !.ph = IF @ = "none" THEN "starting" ELSE @])}
    BY <1>2 DEF PrepReconciled
  <2> HIDE DEF new
  <2> QED BY <2>1, <2>2 DEF Transition, RowType
<1>3. CASE Preparation /\ ~PrepReconciled
  BY <1>0, <1>3 DEF Preparation, Create, Schedule, PrepBegin, PrepLayout, PrepCopying,
     PrepCopy, PrepCommit, PrepMark, PrepCheck, PrepExec, PrepAck, PrepStatusUnknown,
     PrepReconciled, PrepError, PrepFail, Transition, PreparationFailed, RowType
<1>4. CASE Target
  BY <1>4 DEF Target, ScriptCheckSession, ScriptNewSession, ScriptRespawn, ScriptEnds,
     ScriptKilled, Reboot, RunnerSteps, BootstrapState, BootstrapCheck, BootstrapClone,
     BootstrapCloneFails, BootstrapCommit, BootstrapRunning, RunnerCheck, RunnerRejects,
     RunnerState, RunnerLaunch, CommandEnds, RunnerComplete, RunnerPublish, RunnerExit,
     RunnerLosesRoot, RunnerStep
<1>5. CASE Reading
  BY <1>5 DEF Reading, ReadOn, ReadFails, ReadSample, ReadResults, ReadState, ReadStop,
     ReadResample, ReadAgain, Read
<1>6. CASE ObsApply
  BY <1>0, <1>6, ApplyObservationCases DEF ObsApply
<1>7. CASE Observing /\ ~ObsApply
  BY <1>0, <1>7 DEF Observing, Deletion, Reconcile, Poll, PollTerminal, StartupScan,
     ObsApply, ObsOffline, StartupLayout, StartupJudge, StartupFail, ReadBreaks,
     OtherReadBreaks, Bridge, DeleteBegin, DeleteKill, DeleteRoot, DeleteFails, DeleteRow,
     ObsBegin, PreparationFailed, Transition, RowType
<1>8. CASE CtlApply
  BY <1>0, <1>8, ApplyStatusCases DEF CtlApply
<1>9. CASE Control /\ ~CtlApply
  BY <1>0, <1>9 DEF Control, Stop, Kill, CtlBegin, StopWaiting, StopMissing, KillMissing,
     CtlInspect, CtlPublish, StopSignal, KillSignal, KillRecheck, CtlApply, CtlFails,
     Close, Transition, RowType
<1>10. CASE Shutdown \/ Crash \/ UNCHANGED vars
  BY <1>10 DEF Shutdown, Crash, vars
<1> QED BY <1>1, <1>2, <1>3, <1>4, <1>5, <1>6, <1>7, <1>8, <1>9, <1>10 DEF Next

\* Only a launch starts the command.
LEMMA CommandOtherwise ==
  TypeOK /\ [Next]_vars /\ ~RunnerLaunch /\ tgt'.runner = "command" =>
    tgt.runner = "command"
<1> SUFFICES ASSUME TypeOK, [Next]_vars, ~RunnerLaunch, tgt'.runner = "command"
             PROVE  tgt.runner = "command"
  OBVIOUS
<1>0. tgt \in TargetType
  BY DEF TypeOK
<1>1. CASE Target
  <2>1. ~RunnerSteps
    BY <1>0 DEF RunnerSteps, BootstrapState, BootstrapCheck, BootstrapClone,
       BootstrapCloneFails, BootstrapCommit, BootstrapRunning, RunnerCheck, RunnerRejects,
       RunnerState, RunnerLaunch, CommandEnds, RunnerComplete, RunnerPublish, RunnerExit,
       RunnerLosesRoot, RunnerStep, Refuse, RunnerDies, TargetType
  <2> QED BY <1>0, <1>1, <2>1 DEF Target, ScriptCheckSession, ScriptNewSession,
     ScriptRespawn, ScriptEnds, ScriptKilled, Reboot, KillSession, RunnerDies, TargetType
<1>2. CASE Control
  BY <1>0, <1>2 DEF Control, Stop, Kill, CtlBegin, StopWaiting, StopMissing, KillMissing,
     CtlInspect, CtlPublish, StopSignal, KillSignal, KillRecheck, CtlApply, CtlFails,
     KillSession, Interrupted, RunnerDies, TargetType
<1>3. CASE PrepLayout \/ PrepCommit
  BY <1>0, <1>3 DEF PrepLayout, PrepCommit, TargetType
<1>4. CASE Bridge
  BY <1>0, <1>4 DEF Bridge, TargetType
<1>5. CASE DeleteKill
  BY <1>0, <1>5 DEF DeleteKill, KillSession, TargetType
<1>6. CASE DeleteRoot
  BY <1>6 DEF DeleteRoot
<1>7. CASE ~Target /\ ~Control /\ ~PrepLayout /\ ~PrepCommit /\ ~Bridge /\ ~DeleteKill
           /\ ~DeleteRoot
  <2>1. UNCHANGED tgt
    BY <1>7, TargetOtherwise
  <2> QED BY <2>1
<1> QED BY <1>1, <1>2, <1>3, <1>4, <1>5, <1>6, <1>7

\* A start that is over does not come back.
LEMMA OverStays ==
  TypeOK /\ RunInv /\ [Next]_vars /\ ~Create /\ ~UploadDone /\ Over => Over'
<1> SUFFICES ASSUME TypeOK, RunInv, [Next]_vars, ~Create, ~UploadDone, Over PROVE Over'
  OBVIOUS
<1>0. tgt \in TargetType /\ row \in RowType
  BY DEF TypeOK
<1>1. row'.st = "preparing" => row.st = "preparing"
  BY PreparingStays
<1>2. CASE NoNewStart /\ ~RunnerLaunch
  <2>1. tgt'.runner # "command"
    BY <1>2, CommandOtherwise DEF Over
  <2> QED BY <1>1, <1>2, <2>1 DEF Over, NoNewStart, Launching
<1>3. CASE UploadBegin
  BY <1>1, <1>3 DEF Over, UploadBegin, Launching
<1>4. CASE PrepLayout \/ PrepCommit
  <2>1. tgt'.runner = tgt.runner /\ script' = script /\ prep' \notin {"check", "exec"}
        /\ prep \in BeforeMark
    <3>1. CASE PrepLayout
      BY <1>0, <3>1 DEF PrepLayout, TargetType, BeforeMark, TypeOK, SourceKinds
    <3>2. CASE PrepCommit
      BY <1>0, <3>2 DEF PrepCommit, TargetType, BeforeMark
    <3> QED BY <1>4, <3>1, <3>2
  <2> QED BY <1>1, <2>1 DEF Over, Launching
<1>5. CASE PrepMark
  BY <1>1, <1>5 DEF Over, PrepMark, Launching, BeforeMark
<1>6. CASE PrepExec \/ ScriptRespawn \/ RunnerLaunch
  BY <1>6 DEF Over, PrepExec, ScriptRespawn, RunnerLaunch, Launching, InScript, BeforeCommand
<1>7. CASE DeleteRoot
  BY <1>1, <1>7 DEF Over, DeleteRoot, Launching
<1> QED BY <1>2, <1>3, <1>4, <1>5, <1>6, <1>7, OtherStepsStartNothing DEF StartStep

\* A run that is refused stays refused while its directory stays.
LEMMA RefusedStays ==
  TypeOK /\ RunInv /\ [Next]_vars /\ ~Create /\ ~UploadDone /\ ~DeleteRoot /\ Refused
    => Refused'
<1> SUFFICES ASSUME TypeOK, RunInv, [Next]_vars, ~Create, ~UploadDone, ~DeleteRoot, Refused
             PROVE  Refused'
  OBVIOUS
<1>0. tgt \in TargetType
  BY DEF TypeOK
<1>1. tgt.layout => tgt'.layout
  BY TargetOnward DEF Onward
<1>2. tgt.stop => tgt'.stop
  BY TargetOnward DEF Onward
<1>3. CASE tgt.layout
  BY <1>1, <1>2, <1>3 DEF Refused
<1>4. CASE ~tgt.layout
  <2>1. prep \notin BeforeMark
    BY <1>4 DEF Refused
  <2>2. prep' \notin BeforeMark
    <3>1. CASE NoNewStart
      BY <2>1, <3>1 DEF NoNewStart
    <3>2. CASE StartStep
      BY <2>1, <3>2 DEF StartStep, UploadBegin, PrepLayout, PrepCommit, PrepMark, PrepExec,
         ScriptRespawn, RunnerLaunch, BeforeMark
    <3> QED BY <3>1, <3>2, OtherStepsStartNothing
  <2>3. ~tgt'.layout
    <3>1. ~PrepLayout
      BY <2>1 DEF PrepLayout, BeforeMark
    <3> QED BY <1>0, <1>4, <3>1, LayoutOtherwise
  <2> QED BY <2>2, <2>3 DEF Refused
<1> QED BY <1>3, <1>4

\* A doomed run stays doomed.
LEMMA DoomedStays ==
  TypeOK /\ RunInv /\ [Next]_vars /\ ~Create /\ ~UploadDone /\ Doomed => Doomed'
<1> SUFFICES ASSUME TypeOK, RunInv, [Next]_vars, ~Create, ~UploadDone, Doomed PROVE Doomed'
  OBVIOUS
<1> DEFINE Early == {"none", "gone", "git_state", "git_check", "check"}
<1>0. tgt \in TargetType
  BY DEF TypeOK
<1>1. CASE Over
  BY <1>1, OverStays DEF Doomed
<1>2. CASE Refused /\ tgt.runner \in Early /\ DeleteRoot
  <2>1. CASE prep \in BeforeMark
    <3>1. Unstarted /\ script = "none"
      BY <2>1 DEF RunInv, OneStart
    <3>2. row.st \in Terminal
      BY <1>2 DEF RunInv, Closed, DeleteRoot, Deleting
    <3>3. Over
      BY <2>1, <3>1, <3>2 DEF Over, Unstarted, Launching, InScript, BeforeMark, BeforeCommand,
         Terminal
    <3> QED BY <3>3, OverStays DEF Doomed
  <2>2. CASE prep \notin BeforeMark
    <3>1. ~tgt'.layout /\ tgt'.runner = tgt.runner /\ prep' = prep
      BY <1>2 DEF DeleteRoot
    <3> QED BY <1>2, <2>2, <3>1 DEF Doomed, Refused
  <2> QED BY <2>1, <2>2
<1>3. CASE Refused /\ tgt.runner \in Early /\ ~DeleteRoot
  <2>1. Refused'
    BY <1>3, RefusedStays
  <2>2. tgt'.runner \in Early
    <3>1. tgt.layout => tgt.stop
      BY <1>3 DEF Refused
    <3>2. CASE Target
      <4>1. CASE ScriptRespawn
        BY <1>0, <1>3, <4>1 DEF ScriptRespawn, RunnerDies, TargetType
      <4>2. CASE ScriptCheckSession \/ ScriptNewSession \/ ScriptEnds \/ ScriptKilled \/ Reboot
        BY <1>0, <1>3, <4>2 DEF ScriptCheckSession, ScriptNewSession, ScriptRespawn,
           ScriptEnds, ScriptKilled, Reboot, KillSession, TargetType
      <4>3. CASE RunnerSteps
        BY <1>0, <1>3, <3>1, <4>3 DEF RunnerSteps, BootstrapState, BootstrapCheck,
           BootstrapClone, BootstrapCloneFails, BootstrapCommit, BootstrapRunning,
           RunnerCheck, RunnerRejects, RunnerState, RunnerLaunch, CommandEnds,
           RunnerComplete, RunnerPublish, RunnerExit, RunnerLosesRoot, RunnerStep, Refuse,
           RunnerDies, TargetType
      <4> QED BY <3>2, <4>1, <4>2, <4>3 DEF Target
    <3>3. CASE Control
      BY <1>0, <1>3, <3>3 DEF Control, Stop, Kill, CtlBegin, StopWaiting, StopMissing,
         KillMissing, CtlInspect, CtlPublish, StopSignal, KillSignal, KillRecheck,
         CtlApply, CtlFails, KillSession, Interrupted, RunnerDies, TargetType
    <3>4. CASE PrepLayout \/ PrepCommit \/ Bridge
      BY <1>0, <1>3, <3>4 DEF PrepLayout, PrepCommit, Bridge, TargetType
    <3>5. CASE DeleteKill
      BY <1>0, <1>3, <3>5 DEF DeleteKill, KillSession, TargetType
    <3>6. CASE ~Target /\ ~Control /\ ~PrepLayout /\ ~PrepCommit /\ ~Bridge /\ ~DeleteKill
      BY <1>3, <3>6, TargetOtherwise
    <3> QED BY <3>2, <3>3, <3>4, <3>5, <3>6
  <2> QED BY <2>1, <2>2 DEF Doomed
<1> QED BY <1>1, <1>2, <1>3 DEF Doomed

\* The row of a run in preparation loses its ambiguity when the start is
\* acknowledged or the target reports what became of it.
LEMMA AmbiguityEnds ==
  TypeOK /\ RunInv /\ [Next]_vars /\ row.st = "preparing" /\ row'.st = "preparing"
    /\ row.err = "start_status_unknown" /\ row'.err # "start_status_unknown" =>
    \/ PrepAck
    \/ PrepReconciled /\ tgt.state # "none"
    \/ ObsApply /\ tgt.state # "none" /\ rd["obs"].exists
    \/ CtlApply /\ tgt.state # "none"
<1> SUFFICES ASSUME TypeOK, RunInv, [Next]_vars, row.st = "preparing",
                    row'.st = "preparing", row.err = "start_status_unknown",
                    row'.err # "start_status_unknown", ~PrepAck
             PROVE  \/ PrepReconciled /\ tgt.state # "none"
                    \/ ObsApply /\ tgt.state # "none" /\ rd["obs"].exists
                    \/ CtlApply /\ tgt.state # "none"
  OBVIOUS
<1>0. row \in RowType /\ obs \in ObsType
      /\ rd["prep"].out \in Reports /\ rd["obs"].out \in Reports /\ rd["ctl"].out \in Reports
  BY DEF TypeOK, ReadType, Readers
<1>r. \A p \in Readers : /\ rd[p].out \in {"running", "cloning"} => tgt.state # "none"
                         /\ rd[p].out = "cloning" => rd[p].exists
  BY DEF RunInv, ReadsTrue, Active
<1>1. ~Uploading
  BY <1>0 DEF Uploading, UploadBegin, UploadStored, UploadDone, UploadFails,
     UploadExpires, TransitionPhase, RowType
<1>2. CASE PrepReconciled
  <2> DEFINE new == ApplyStatus(row, row, rd["prep"].out)
  <2>1. /\ new \in RowType
        /\ new.err # row.err => rd["prep"].out \in {"running", "cloning"}
                                \/ new.st \in Terminal
    <3>1. Advances(row, new)
      BY <1>0, ApplyStatusAdvances DEF RowType
    <3>2. new.err # row.err => rd["prep"].out \in {"running", "cloning"} \/ new.st \in Terminal
      BY <1>0, ApplyStatusCases
    <3> QED BY <3>1, <3>2 DEF Advances
  <2>2. row' \in {new, Transition(new, {"preparing"},
                      [new EXCEPT !.err = "start_status_unknown",
                                  !.ph = IF @ = "none" THEN "starting" ELSE @])}
    BY <1>2 DEF PrepReconciled
  <2> HIDE DEF new
  <2>3. row'.st = new.st /\ row'.err \in {new.err, "start_status_unknown"}
    BY <2>1, <2>2 DEF Transition, RowType
  <2> QED BY <1>2, <1>r, <2>1, <2>3 DEF Terminal, Readers
<1>3. CASE Preparation /\ ~PrepReconciled
  <2>1. ~Create
    BY DEF Create
  <2> QED BY <1>0, <1>3, <2>1 DEF Preparation, Create, Schedule, PrepBegin, PrepLayout,
     PrepCopying, PrepCopy, PrepCommit, PrepMark, PrepCheck, PrepExec, PrepAck,
     PrepStatusUnknown, PrepReconciled, PrepError, PrepFail, Transition,
     PreparationFailed, RowType
<1>4. ~Target /\ ~Reading
  BY DEF Target, ScriptCheckSession, ScriptNewSession, ScriptRespawn, ScriptEnds,
     ScriptKilled, Reboot, RunnerSteps, BootstrapState, BootstrapCheck, BootstrapClone,
     BootstrapCloneFails, BootstrapCommit, BootstrapRunning, RunnerCheck, RunnerRejects,
     RunnerState, RunnerLaunch, CommandEnds, RunnerComplete, RunnerPublish, RunnerExit,
     RunnerLosesRoot, RunnerStep, Reading, ReadOn, ReadFails, ReadSample, ReadResults,
     ReadState, ReadStop, ReadResample, ReadAgain, Read
<1>5. CASE ObsApply
  <2>1. row' = ApplyObservation(row, obs, rd["obs"].out)
    BY <1>5 DEF ObsApply
  <2>2. rd["obs"].out \in {"running", "cloning"} \/ row'.st \in Terminal
    BY <1>0, <2>1, ApplyObservationCases
  <2>3. rd["obs"].out # "running"
    <3>1. row'.st # row.st \/ rd["obs"].out # "running"
      BY <1>0, <2>1 DEF ApplyObservation, ApplyStatus, Transition, Active, Terminal, RowType,
         RunInv, Closed
    <3> QED BY <3>1
  <2> QED BY <1>5, <1>r, <2>2, <2>3 DEF Readers, Terminal
<1>6. CASE Observing /\ ~ObsApply
  BY <1>0, <1>6 DEF Observing, Deletion, Reconcile, Poll, PollTerminal, StartupScan,
     ObsApply, ObsOffline, StartupLayout, StartupJudge, StartupFail, ReadBreaks,
     OtherReadBreaks, Bridge, DeleteBegin, DeleteKill, DeleteRoot, DeleteFails, DeleteRow,
     ObsBegin, PreparationFailed, Transition, RowType
<1>7. CASE CtlApply
  <2>1. rd["ctl"].out \in {"running", "cloning"} \/ row'.st \in Terminal
    BY <1>0, <1>7, ApplyStatusCases DEF CtlApply
  <2> QED BY <1>7, <1>r, <2>1 DEF Readers, Terminal
<1>8. CASE Control /\ ~CtlApply
  BY <1>0, <1>8 DEF Control, Stop, Kill, CtlBegin, StopWaiting, StopMissing, KillMissing,
     CtlInspect, CtlPublish, StopSignal, KillSignal, KillRecheck, CtlApply, CtlFails,
     Close, Transition, RowType
<1>9. CASE Shutdown \/ Crash \/ UNCHANGED vars
  BY <1>9 DEF Shutdown, Crash, vars
<1> QED BY <1>1, <1>2, <1>3, <1>4, <1>5, <1>6, <1>7, <1>8, <1>9 DEF Next

\* Only the requests and a crash move a request on.
LEMMA CtlOtherwise == [Next]_vars /\ ~Control /\ ~Crash => ctl' = ctl
<1>1. Uploading \/ Shutdown \/ UNCHANGED vars => ctl' = ctl
  BY DEF Uploading, UploadBegin, UploadStored, UploadDone, UploadFails, UploadExpires,
     Shutdown, vars
<1>2. Preparation => ctl' = ctl
  BY DEF Preparation, Create, Schedule, PrepBegin, PrepLayout, PrepCopying, PrepCopy,
     PrepCommit, PrepMark, PrepCheck, PrepExec, PrepAck, PrepStatusUnknown,
     PrepReconciled, PrepError, PrepFail
<1>3. Target => ctl' = ctl
  BY DEF Target, ScriptCheckSession, ScriptNewSession, ScriptRespawn, ScriptEnds,
     ScriptKilled, Reboot, RunnerSteps, BootstrapState, BootstrapCheck, BootstrapClone,
     BootstrapCloneFails, BootstrapCommit, BootstrapRunning, RunnerCheck, RunnerRejects,
     RunnerState, RunnerLaunch, CommandEnds, RunnerComplete, RunnerPublish, RunnerExit,
     RunnerLosesRoot, RunnerStep
<1>4. Reading => ctl' = ctl
  BY DEF Reading, ReadOn, ReadFails, ReadSample, ReadResults, ReadState, ReadStop,
     ReadResample, ReadAgain, Read
<1>5. Observing => ctl' = ctl
  BY DEF Observing, Deletion, Reconcile, Poll, PollTerminal, StartupScan, ObsApply,
     ObsOffline, StartupLayout, StartupJudge, StartupFail, ReadBreaks, OtherReadBreaks,
     Bridge, DeleteBegin, DeleteKill, DeleteRoot, DeleteFails, DeleteRow, ObsBegin
<1> QED BY <1>1, <1>2, <1>3, <1>4, <1>5 DEF Next

\* A runner that has come and gone settles the start.
LEMMA SpentIsOver ==
  RunInv /\ tgt.runner \in {"complete", "pub_finished", "pub_stopped", "exit", "gone"} => Over
BY DEF RunInv, OneStart, Over, Unstarted, BeforeMark, BeforeCommand, Launching, InScript

\* A run without a pane, whose start is decided and asked to stop, does not start.
LEMMA NoPaneNoRunner ==
  RunInv /\ TypeOK /\ row.st \in Active /\ tgt.sess \notin {"run"} =>
    tgt.runner \in {"none", "gone"}
BY DEF RunInv, InPane, RunnerLive, TypeOK, TargetType

\* A run that is still to be uploaded is not yet followed by anyone.
LEMMA UploadDoneUntouched ==
  RunInv /\ UploadDone =>
    /\ Untouched /\ row.st = "preparing"
    /\ obs.mode # "startup" /\ ctl.pc \notin {"publish", "signal", "recheck", "read"}
BY DEF RunInv, OneUpload, UploadDone, InDirectory, Untouched, Active

\* A start is decided by the mark, and from there the script is launched.
LEMMA LaunchingBegins ==
  TypeOK /\ RunInv /\ [Next]_vars /\ (Launching' \/ prep' \in {"check", "exec"}) =>
    PrepMark \/ Launching \/ prep \in {"check", "exec"}
<1> SUFFICES ASSUME TypeOK, RunInv, [Next]_vars, Launching' \/ prep' \in {"check", "exec"},
                    ~PrepMark
             PROVE  Launching \/ prep \in {"check", "exec"}
  OBVIOUS
<1>1. ~Create
  BY DEF Create, RunInv, OneUpload, Untouched, Launching, InScript
<1>2. CASE NoNewStart
  BY <1>2 DEF NoNewStart, Launching
<1>3. CASE StartStep
  <2>1. CASE UploadBegin \/ ScriptRespawn \/ RunnerLaunch \/ DeleteRoot
    BY <2>1 DEF UploadBegin, ScriptRespawn, RunnerLaunch, DeleteRoot, Launching, InScript
  <2>2. CASE UploadDone
    <3>1. prep' \in {prep, "new"} /\ script' = script
      BY <2>2 DEF UploadDone
    <3> QED BY <3>1 DEF Launching
  <2>3. CASE PrepLayout
    BY <2>3 DEF PrepLayout, Launching, TypeOK, SourceKinds
  <2>4. CASE PrepCommit \/ PrepExec
    BY <2>4 DEF PrepCommit, PrepExec, Launching
  <2> QED BY <1>3, <2>1, <2>2, <2>3, <2>4 DEF StartStep
<1> QED BY <1>1, <1>2, <1>3, OtherStepsStartNothing

\* A start whose script has not run yet keeps the row ambiguous, and stops are
\* published before anything is killed: Decided's first parts are kept.
LEMMA AmbiguousStep ==
  TypeOK /\ RunInv /\ [Next]_vars /\ row'.st = "preparing"
    /\ (Launching' \/ prep' \in {"check", "exec"}) => row'.err = "start_status_unknown"
<1> SUFFICES ASSUME TypeOK, RunInv, [Next]_vars, row'.st = "preparing",
                    Launching' \/ prep' \in {"check", "exec"},
                    row'.err # "start_status_unknown"
             PROVE  FALSE
  OBVIOUS
<1>0. row \in RowType
  BY DEF TypeOK
<1>1. ~Create
  BY DEF Create, RunInv, OneUpload, Untouched, Launching, InScript
<1>2. row.st = "preparing"
  BY <1>1, PreparingStays
<1>3. ~PrepMark
  <2> SUFFICES ASSUME PrepMark PROVE FALSE
    OBVIOUS
  <2>1. CASE prep' = "check"
    BY <1>0, <2>1 DEF PrepMark, RowType
  <2>2. CASE prep' # "check"
    <3>1. Launching /\ prep = "mark"
      BY <2>2 DEF PrepMark, Launching
    <3> QED BY <3>1 DEF RunInv, OneStart, BeforeMark, Launching, InScript
  <2> QED BY <2>1, <2>2
<1>4. Launching \/ prep \in {"check", "exec"}
  BY <1>3, LaunchingBegins
<1>5. row.err = "start_status_unknown" /\ tgt.state = "none" /\ (~Launching => prep # "wait")
  BY <1>2, <1>4 DEF RunInv, Decided, OneStart, Unstarted
<1>6. PrepAck
  BY <1>2, <1>5, AmbiguityEnds
<1>7. prep = "wait" /\ ~Launching
  BY <1>6 DEF PrepAck, Launching, InScript
<1> QED BY <1>5, <1>7

\* The stop is published before the session is killed or given up.
LEMMA SignalledStep ==
  TypeOK /\ RunInv /\ [Next]_vars /\ row'.st \in Active =>
    /\ ctl'.pc \in {"signal", "recheck"} => tgt'.stop
    /\ ctl'.pc \in {"recheck", "read"} => Doomed'
<1> SUFFICES ASSUME TypeOK, RunInv, [Next]_vars, row'.st \in Active
             PROVE  /\ ctl'.pc \in {"signal", "recheck"} => tgt'.stop
                    /\ ctl'.pc \in {"recheck", "read"} => Doomed'
  OBVIOUS
<1>0. tgt \in TargetType /\ row \in RowType /\ ctl \in CtlType
  BY DEF TypeOK
<1>1. CASE Create
  BY <1>1 DEF Create, RunInv, OneUpload, IdleCtl
<1>2. CASE ~Create
  <2>1. row.st \in Active /\ Onward
    BY <1>2, ActiveOnward
  <2>2. /\ ctl.pc \in {"signal", "recheck"} => tgt.stop
        /\ ctl.pc \in {"recheck", "read"} => Doomed
        /\ ctl.pc \in {"publish", "signal", "recheck", "read"} => tgt.layout
    BY <2>1 DEF RunInv, Decided, InDirectory
  <2>3. CASE UploadDone
    <3>1. ctl' = ctl
      BY <2>3 DEF UploadDone
    <3> QED BY <2>3, <3>1, UploadDoneUntouched
  <2>4. Doomed /\ ~UploadDone => Doomed'
    BY <1>2, DoomedStays
  <2>5. CASE ctl'.pc = ctl.pc /\ ~UploadDone
    BY <2>1, <2>2, <2>4, <2>5 DEF Onward
  <2>6. CASE CtlPublish
    BY <1>0, <2>6 DEF CtlPublish, TargetType, CtlType
  <2>7. CASE KillSignal
    <3>1. tgt'.stop /\ tgt'.layout /\ tgt'.runner \in {"none", "gone"}
      BY <1>0, <2>2, <2>7 DEF KillSignal, KillSession, TargetType
    <3> QED BY <3>1 DEF Doomed, Refused
  <2>8. CASE StopSignal
    <3>1. ctl'.pc = "idle" \/ (ctl'.pc = "read" /\ ~RunPane(tgt) /\ tgt' = tgt)
      BY <1>0, <2>8 DEF StopSignal, IdleCtl, CtlType
    <3>2. ~RunPane(tgt) => tgt.runner \in {"none", "gone"}
      BY <2>1, NoPaneNoRunner DEF RunPane
    <3>3. ctl.pc = "signal"
      BY <2>8 DEF StopSignal
    <3>4. CASE tgt' = tgt /\ ~RunPane(tgt)
      BY <2>2, <3>2, <3>3, <3>4, <3>1 DEF Doomed, Refused
    <3> QED BY <3>1, <3>4
  <2>9. CASE CtlInspect
    <3>1. \/ ctl'.pc = "publish"
          \/ ctl'.pc = "read" /\ tgt.compl # "none"
      BY <1>0, <2>9 DEF CtlInspect, CtlType
    <3>2. tgt.compl # "none" => Over
      BY SpentIsOver DEF RunInv, Recorded
    <3>3. ~UploadDone
      <4>1. ctl.pc = "remote"
        BY <2>9 DEF CtlInspect
      <4> QED BY <3>1, <4>1 DEF UploadDone
    <3> QED BY <2>4, <3>1, <3>2, <3>3 DEF Doomed
  <2>10. CASE KillRecheck
    <3>1. ctl'.pc \in {"idle", "read"} /\ ctl.pc = "recheck" /\ UNCHANGED <<tgt, upload>>
      BY <1>0, <2>10 DEF KillRecheck, IdleCtl, CtlType, zip, watch
    <3>2. ~UploadDone
      BY <3>1 DEF UploadDone
    <3> QED BY <2>2, <2>4, <3>1, <3>2
  <2>11. CASE Stop \/ Kill \/ StopWaiting \/ StopMissing \/ KillMissing \/ CtlApply \/ CtlFails
              \/ Crash
    <3>1. ctl'.pc \in {"idle", "waiting", "remote"}
      BY <2>11 DEF Stop, Kill, CtlBegin, StopWaiting, StopMissing, KillMissing, CtlApply,
         CtlFails, Crash, IdleCtl
    <3> QED BY <3>1
  <2>12. CASE ~Control /\ ~Crash /\ ~UploadDone
    <3>1. ctl' = ctl
      BY <2>12, CtlOtherwise
    <3> QED BY <2>5, <2>12, <3>1
  <2> QED BY <2>3, <2>6, <2>7, <2>8, <2>9, <2>10, <2>11, <2>12 DEF Control
<1> QED BY <1>1, <1>2

\* The steps that the startup scan or its mark may move with.
ScanStep ==
  \/ StartupScan \/ ObsApply \/ ObsOffline \/ ReadBreaks \/ OtherReadBreaks
  \/ StartupLayout \/ StartupJudge \/ StartupFail \/ Crash

\* Every other step leaves them alone.
LEMMA ScanOtherwise ==
  [Next]_vars /\ ~ScanStep => startup' = startup /\ mark' = mark
<1> SUFFICES ASSUME [Next]_vars, ~ScanStep PROVE startup' = startup /\ mark' = mark
  OBVIOUS
<1> USE DEF watch
<1>1. CASE Uploading \/ Shutdown \/ UNCHANGED vars
  BY <1>1 DEF Uploading, UploadBegin, UploadStored, UploadDone, UploadFails, UploadExpires,
     Shutdown, vars
<1>2. CASE Preparation
  BY <1>2 DEF Preparation, Create, Schedule, PrepBegin, PrepLayout, PrepCopying, PrepCopy,
     PrepCommit, PrepMark, PrepCheck, PrepExec, PrepAck, PrepStatusUnknown,
     PrepReconciled, PrepError, PrepFail
<1>3. CASE Target
  BY <1>3 DEF Target, ScriptCheckSession, ScriptNewSession, ScriptRespawn, ScriptEnds,
     ScriptKilled, Reboot, RunnerSteps, BootstrapState, BootstrapCheck, BootstrapClone,
     BootstrapCloneFails, BootstrapCommit, BootstrapRunning, RunnerCheck, RunnerRejects,
     RunnerState, RunnerLaunch, CommandEnds, RunnerComplete, RunnerPublish, RunnerExit,
     RunnerLosesRoot, RunnerStep
<1>4. CASE Reading
  BY <1>4 DEF Reading, ReadOn, ReadFails, ReadSample, ReadResults, ReadState, ReadStop,
     ReadResample, ReadAgain, Read
<1>5. CASE Observing
  BY <1>5 DEF ScanStep, Observing, Deletion, Reconcile, Poll, PollTerminal, Bridge,
     DeleteBegin, DeleteKill, DeleteRoot, DeleteFails, DeleteRow
<1>6. CASE Control
  BY <1>6 DEF Control, Stop, Kill, CtlBegin, StopWaiting, StopMissing, KillMissing,
     CtlInspect, CtlPublish, StopSignal, KillSignal, KillRecheck, CtlApply, CtlFails
<1> QED BY <1>1, <1>2, <1>3, <1>4, <1>5, <1>6 DEF Next, ScanStep

\* The scan comes to its verdict after its read or its look for the directory.
LEMMA VerdictBegins ==
  TypeOK /\ [Next]_vars =>
    /\ row.st = "preparing" /\ startup' = "fail" /\ mark' = "seen" =>
         startup = "fail" /\ mark = "seen"
    /\ startup' \in {"judge", "fail"} /\ mark' = "none" =>
         \/ startup \in {"judge", "fail"} /\ mark = "none"
         \/ StartupLayout /\ ~tgt.layout
         \/ /\ ObsApply /\ obs.mode = "startup" /\ row'.err # "start_status_unknown"
            /\ MissedSession(rd["obs"])
    /\ mark' = "lost" =>
         \/ mark = "lost"
         \/ StartupJudge /\ row.st = "preparing" /\ row.err # "start_status_unknown"
<1> SUFFICES ASSUME TypeOK, [Next]_vars
             PROVE  /\ row.st = "preparing" /\ startup' = "fail" /\ mark' = "seen" =>
                         startup = "fail" /\ mark = "seen"
                    /\ startup' \in {"judge", "fail"} /\ mark' = "none" =>
                         \/ startup \in {"judge", "fail"} /\ mark = "none"
                         \/ StartupLayout /\ ~tgt.layout
                         \/ /\ ObsApply /\ obs.mode = "startup"
                            /\ row'.err # "start_status_unknown"
                            /\ MissedSession(rd["obs"])
                    /\ mark' = "lost" =>
                         \/ mark = "lost"
                         \/ /\ StartupJudge /\ row.st = "preparing"
                            /\ row.err # "start_status_unknown"
  OBVIOUS
<1>0. startup \in StartupSteps /\ mark \in {"none", "seen", "lost"}
  BY DEF TypeOK
<1>1. CASE ~ScanStep
  BY <1>1, ScanOtherwise
<1>2. CASE ObsApply
  BY <1>0, <1>2 DEF ObsApply, MissedSession
<1>3. CASE StartupLayout
  BY <1>0, <1>3 DEF StartupLayout
<1>4. CASE StartupJudge
  <2>1. CASE row.err = "start_status_unknown"
    BY <1>4, <2>1 DEF StartupJudge
  <2>2. CASE row.err # "start_status_unknown"
    BY <1>0, <1>4, <2>2 DEF StartupJudge
  <2> QED BY <2>1, <2>2
<1>5. CASE StartupFail \/ StartupScan \/ Crash
  BY <1>0, <1>5 DEF StartupFail, StartupScan, Crash
<1>6. CASE ObsOffline \/ ReadBreaks \/ OtherReadBreaks
  BY <1>0, <1>6 DEF ObsOffline, ReadBreaks, OtherReadBreaks
<1> QED BY <1>1, <1>2, <1>3, <1>4, <1>5, <1>6 DEF ScanStep

\* A read that now finds no session had found none before, or there is none.
LEMMA SessionMissed ==
  ASSUME TypeOK, RunInv, NEW p \in Readers, ReadOn(p) \/ ReadFails(p), MissedSession(rd'[p])
  PROVE  MissedSession(rd[p]) \/ tgt.sess = "none"
<1>0. rd \in [Readers -> ReadType] /\ rd[p] \in ReadType
  BY DEF TypeOK
<1>1. ~ReadFails(p)
  BY <1>0 DEF ReadFails, MissedSession, IdleRead
<1>2. CASE ReadSample(p)
  <2> DEFINE r == [rd[p] EXCEPT !.live = PaneLive(tgt), !.exists = tgt.sess # "none"]
  <2>1. rd'[p] = IF tgt.layout THEN [r EXCEPT !.step = "results"]
                 ELSE Done(r, IF r.live THEN "pane_only" ELSE "missing")
    BY <1>0, <1>2 DEF ReadSample, Read
  <2> QED BY <1>0, <2>1 DEF Done, IdleRead, ReadType, MissedSession
<1>3. CASE ReadResults(p)
  <2>1. rd'[p] \in {Done(rd[p], tgt.compl), Done(rd[p], tgt.prepres),
                    [rd[p] EXCEPT !.step = "state"]} /\ rd[p].step = "results"
    BY <1>0, <1>3 DEF ReadResults, Read
  <2> QED BY <1>0, <2>1 DEF Done, IdleRead, ReadType, MissedSession
<1>4. CASE ReadState(p)
  <2>1. /\ rd'[p] \in {Done(rd[p], LivePhase(tgt.state)),
                       [rd[p] EXCEPT !.state = tgt.state,
                          !.step = IF tgt.state = "none" THEN "stop" ELSE "resample"]}
        /\ rd[p].step = "state"
    BY <1>0, <1>4 DEF ReadState, Read
  <2> QED BY <1>0, <2>1 DEF Done, IdleRead, ReadType, MissedSession
<1>5. CASE ReadStop(p) \/ ReadAgain(p)
  <2>1. rd[p].step \in {"stop", "reread"} /\ \E out : rd'[p] = Done(rd[p], out)
    BY <1>0, <1>5 DEF ReadStop, ReadAgain, Read
  <2> QED BY <2>1 DEF Done, IdleRead, MissedSession
<1>6. CASE ReadResample(p)
  <2> DEFINE r == [rd[p] EXCEPT !.exists = tgt.sess # "none"]
  <2>1. rd'[p] = IF PaneLive(tgt) THEN Done(r, LivePhase(rd[p].state))
                 ELSE [r EXCEPT !.step = "reread"]
    BY <1>0, <1>6 DEF ReadResample, Read
  <2> QED BY <1>0, <2>1 DEF Done, IdleRead, ReadType, MissedSession
<1> QED BY <1>1, <1>2, <1>3, <1>4, <1>5, <1>6 DEF ReadOn

\* StartupDoomed is kept.
LEMMA StartupDoomedStep == TypeOK /\ RunInv /\ [Next]_vars => StartupDoomed'
<1> SUFFICES ASSUME TypeOK, RunInv, [Next]_vars, row'.st = "preparing" PROVE StartupDoomed'
  BY DEF StartupDoomed
<1>0. row \in RowType /\ obs \in ObsType /\ "obs" \in Readers /\ rd \in [Readers -> ReadType]
  BY DEF TypeOK, Readers
<1>1. CASE Create
  <2>1. startup' = "off" /\ obs' = IdleObs
    BY <1>1 DEF Create, RunInv, OneUpload, watch
  <2> QED BY <2>1 DEF StartupDoomed, IdleObs
<1>2. CASE ~Create
  <2>1. row.st = "preparing" /\ row.st \in Active
    BY <1>2, PreparingStays DEF Active
  <2>2. /\ startup = "fail" => mark # "seen"
        /\ startup \in {"judge", "fail"} /\ mark = "none" => Doomed
        /\ row.err # "start_status_unknown" /\ obs.pc = "read" /\ obs.mode = "startup"
           /\ MissedSession(rd["obs"]) => Doomed
    BY <2>1 DEF RunInv, Decided, StartupDoomed
  <2>3. startup # "off" \/ obs.mode = "startup" => prep = "idle" /\ upload = "idle"
    BY DEF RunInv, OneUpload
  <2>4. (startup # "off" \/ obs.mode = "startup") /\ Doomed => Doomed'
    <3>1. upload = "idle" => ~UploadDone
      BY DEF UploadDone
    <3> QED BY <1>2, <2>3, <3>1, DoomedStays
  <2>5. obs.mode = "startup" /\ row'.err # "start_status_unknown" =>
          \/ row.err # "start_status_unknown"
          \/ ObsApply /\ rd["obs"].exists
          \/ Doomed
    <3>1. obs.mode = "startup" => ~PrepAck /\ ~PrepReconciled
      BY <2>3 DEF PrepAck, PrepReconciled
    <3>2. CtlApply => Doomed
      BY <2>1 DEF CtlApply, RunInv, Decided
    <3> QED BY <2>1, <3>1, <3>2, AmbiguityEnds
  <2>6. startup' = "fail" => mark' # "seen"
    BY <2>1, <2>2, VerdictBegins
  <2>7. ASSUME startup' \in {"judge", "fail"}, mark' = "none" PROVE Doomed'
    <3>1. CASE startup \in {"judge", "fail"} /\ mark = "none"
      BY <2>2, <2>4, <3>1
    <3>2. CASE StartupLayout /\ ~tgt.layout
      <4>1. startup = "layout"
        BY <3>2 DEF StartupLayout
      <4>2. tgt.runner = "none" /\ script = "none" /\ prep = "idle"
        BY <2>1, <2>3, <3>2, <4>1 DEF RunInv, InDirectory
      <4>3. Over
        BY <4>2 DEF Over, Launching, InScript, BeforeMark, BeforeCommand
      <4> QED BY <2>4, <4>1, <4>3 DEF Doomed
    <3>3. CASE ObsApply /\ obs.mode = "startup" /\ row'.err # "start_status_unknown"
               /\ MissedSession(rd["obs"])
      <4>1. obs.pc = "read" /\ ~rd["obs"].exists
        BY <3>3 DEF ObsApply, MissedSession
      <4> QED BY <2>2, <2>4, <2>5, <3>3, <4>1
    <3> QED BY <2>7, <3>1, <3>2, <3>3, VerdictBegins
  <2>8. ASSUME row'.err # "start_status_unknown", obs'.pc = "read", obs'.mode = "startup",
               MissedSession(rd'["obs"])
        PROVE  Doomed'
    <3>1. obs' = obs
      BY <2>8, ObsReadBegins DEF MissedSession, IdleRead
    <3>2. ~ObsApply
      BY <1>0, <2>8 DEF ObsApply, IdleObs, ObsType
    <3>3. row.err # "start_status_unknown" \/ Doomed
      BY <2>5, <2>8, <3>1, <3>2
    <3>4. Doomed => Doomed'
      BY <2>4, <2>8, <3>1
    <3>5. MissedSession(rd["obs"]) => Doomed'
      BY <2>2, <2>8, <3>1, <3>3, <3>4
    <3>6. CASE Reading
      <4> PICK p \in Readers : ReadOn(p) \/ ReadFails(p)
        BY <3>6 DEF Reading
      <4>1. CASE p = "obs"
        <5>1. MissedSession(rd["obs"]) \/ tgt.sess = "none"
          BY <2>8, <4>1, SessionMissed
        <5>2. tgt.sess = "none" => tgt.runner \in {"none", "gone"}
          BY <2>1, NoPaneNoRunner
        <5>3. row.err # "start_status_unknown" => ~Launching
          BY <2>1 DEF RunInv, Decided
        <5>4. prep = "idle"
          BY <2>3, <2>8, <3>1
        <5>5. row.err # "start_status_unknown" /\ tgt.runner \in {"none", "gone"} => Over
          BY <5>3, <5>4 DEF Over, BeforeMark, BeforeCommand
        <5> QED BY <3>3, <3>4, <3>5, <5>1, <5>2, <5>5 DEF Doomed
      <4>2. CASE p # "obs"
        <5>1. rd'["obs"] = rd["obs"]
          BY <1>0, <4>2 DEF ReadOn, ReadFails, ReadSample, ReadResults, ReadState, ReadStop,
             ReadResample, ReadAgain, Read
        <5> QED BY <2>8, <3>5, <5>1
      <4> QED BY <4>1, <4>2
    <3>7. CASE Crash
      BY <2>8, <3>7 DEF Crash, IdleObs
    <3>8. CASE ~Reading /\ ~Crash
      <4>1. rd'["obs"] \in {rd["obs"], IdleRead, [IdleRead EXCEPT !.step = "sample"]}
        BY <1>0, <3>8, RdOtherwise
      <4> QED BY <2>8, <3>5, <4>1 DEF MissedSession, IdleRead
    <3> QED BY <3>6, <3>7, <3>8
  <2> QED BY <2>6, <2>7, <2>8 DEF StartupDoomed
<1> QED BY <1>1, <1>2

\* When the scan has lost the mark, the launch script has done its part.
LEMMA LostStep == TypeOK /\ RunInv /\ [Next]_vars /\ mark' = "lost" => ~Launching'
<1> SUFFICES ASSUME TypeOK, RunInv, [Next]_vars, mark' = "lost", Launching' PROVE FALSE
  OBVIOUS
<1>1. ~Launching /\ prep = "idle"
  <2>1. CASE mark = "lost"
    BY <2>1 DEF RunInv, Decided, OneUpload
  <2>2. CASE StartupJudge /\ row.st = "preparing" /\ row.err # "start_status_unknown"
    <3>1. startup = "judge"
      BY <2>2 DEF StartupJudge
    <3> QED BY <2>2, <3>1 DEF RunInv, Decided, OneUpload
  <2> QED BY <2>1, <2>2, VerdictBegins
<1>2. ~PrepMark
  BY <1>1 DEF PrepMark
<1> QED BY <1>1, <1>2, LaunchingBegins

\* Decided is kept.
LEMMA DecidedStep == TypeOK /\ RunInv /\ [Next]_vars => Decided'
<1> SUFFICES ASSUME TypeOK, RunInv, [Next]_vars PROVE Decided'
  OBVIOUS
<1>1. row'.st = "preparing" /\ (Launching' \/ prep' \in {"check", "exec"}) =>
        row'.err = "start_status_unknown"
  BY AmbiguousStep
<1>2. row'.st \in Active =>
        /\ ctl'.pc \in {"signal", "recheck"} => tgt'.stop
        /\ ctl'.pc \in {"recheck", "read"} => Doomed'
  BY SignalledStep
<1>3. StartupDoomed' /\ (mark' = "lost" => ~Launching')
  BY StartupDoomedStep, LostStep
<1> QED BY <1>1, <1>2, <1>3 DEF Decided

-----------------------------------------------------------------------------
(* Closed runs *)

\* A closed row changes only by its deletion.
LEMMA ClosedRowKept ==
  TypeOK /\ RunInv /\ [Next]_vars /\ row.st \in Terminal \cup {"deleted"} =>
    /\ row'.st = row.st \/ (DeleteRow /\ row'.st = "deleted")
    /\ row'.err = row.err /\ row'.stopReq = row.stopReq
<1> SUFFICES ASSUME TypeOK, RunInv, [Next]_vars, row.st \in Terminal \cup {"deleted"}
             PROVE  /\ row'.st = row.st \/ (DeleteRow /\ row'.st = "deleted")
                    /\ row'.err = row.err /\ row'.stopReq = row.stopReq
  OBVIOUS
<1>0. row \in RowType /\ obs \in ObsType /\ row.st \notin Active
      /\ rd["prep"].out \in Reports /\ rd["obs"].out \in Reports /\ rd["ctl"].out \in Reports
  BY DEF TypeOK, ReadType, Readers, Active, Terminal
<1>1. CASE Uploading
  BY <1>0, <1>1 DEF Uploading, UploadBegin, UploadStored, UploadDone, UploadFails,
     UploadExpires, TransitionPhase, RowType, Active
<1>2. CASE PrepReconciled
  <2> DEFINE new == ApplyStatus(row, row, rd["prep"].out)
  <2>1. new = row
    BY <1>0, ApplyStatusCases
  <2>2. row' \in {new, Transition(new, {"preparing"},
                      [new EXCEPT !.err = "start_status_unknown",
                                  !.ph = IF @ = "none" THEN "starting" ELSE @])}
    BY <1>2 DEF PrepReconciled
  <2> HIDE DEF new
  <2> QED BY <1>0, <2>1, <2>2 DEF Transition, Active
<1>3. CASE Preparation /\ ~PrepReconciled
  BY <1>0, <1>3 DEF Preparation, Create, Schedule, PrepBegin, PrepLayout, PrepCopying,
     PrepCopy, PrepCommit, PrepMark, PrepCheck, PrepExec, PrepAck, PrepStatusUnknown,
     PrepReconciled, PrepError, PrepFail, Transition, PreparationFailed, RowType, Active,
     Terminal
<1>4. CASE Target
  BY <1>4 DEF Target, ScriptCheckSession, ScriptNewSession, ScriptRespawn, ScriptEnds,
     ScriptKilled, Reboot, RunnerSteps, BootstrapState, BootstrapCheck, BootstrapClone,
     BootstrapCloneFails, BootstrapCommit, BootstrapRunning, RunnerCheck, RunnerRejects,
     RunnerState, RunnerLaunch, CommandEnds, RunnerComplete, RunnerPublish, RunnerExit,
     RunnerLosesRoot, RunnerStep
<1>5. CASE Reading
  BY <1>5 DEF Reading, ReadOn, ReadFails, ReadSample, ReadResults, ReadState, ReadStop,
     ReadResample, ReadAgain, Read
<1>6. CASE ObsApply
  BY <1>0, <1>6, ApplyObservationCases DEF ObsApply
<1>7. CASE Observing /\ ~ObsApply
  <2>1. CASE DeleteRow
    BY <1>0, <2>1 DEF DeleteRow, RowType
  <2>2. CASE StartupFail
    BY <1>0, <2>2 DEF StartupFail, PreparationFailed, Transition, Active
  <2>3. CASE Bridge
    BY <1>0, <2>3 DEF Bridge, RowType
  <2>4. CASE Observing /\ ~ObsApply /\ ~DeleteRow /\ ~StartupFail /\ ~Bridge
    BY <2>4 DEF Observing, Deletion, Reconcile, Poll, PollTerminal, StartupScan, ObsApply,
       ObsOffline, StartupLayout, StartupJudge, StartupFail, ReadBreaks, OtherReadBreaks,
       Bridge, DeleteBegin, DeleteKill, DeleteRoot, DeleteFails, DeleteRow, ObsBegin
  <2> QED BY <1>7, <2>1, <2>2, <2>3, <2>4
<1>8. CASE CtlApply
  BY <1>0, <1>8, ApplyStatusCases DEF CtlApply
<1>9. CASE Control /\ ~CtlApply
  BY <1>0, <1>9 DEF Control, Stop, Kill, CtlBegin, StopWaiting, StopMissing, KillMissing,
     CtlInspect, CtlPublish, StopSignal, KillSignal, KillRecheck, CtlApply, CtlFails,
     Close, Transition
<1>10. CASE Shutdown \/ Crash \/ UNCHANGED vars
  BY <1>10 DEF Shutdown, Crash, vars
<1> QED BY <1>1, <1>2, <1>3, <1>4, <1>5, <1>6, <1>7, <1>8, <1>9, <1>10 DEF Next

\* What is said of a closed run stays true.
LEMMA ClosedRowStays ==
  TypeOK /\ RunInv /\ [Next]_vars /\ row.st \in Terminal \cup {"deleted"} => ClosedRow'
<1> SUFFICES ASSUME TypeOK, RunInv, [Next]_vars, row.st \in Terminal \cup {"deleted"}
             PROVE  ClosedRow'
  OBVIOUS
<1>0. tgt \in TargetType
  BY DEF TypeOK
<1>1. /\ row'.st = row.st \/ (DeleteRow /\ row'.st = "deleted")
      /\ row'.err = row.err /\ row'.stopReq = row.stopReq
  BY ClosedRowKept
<1>2. ~Create /\ ~UploadDone
  BY DEF Create, UploadDone, Terminal
<1>3. ClosedRow /\ (obs.pc \in {"del_root", "del_row"} => Doomed)
  BY DEF RunInv, Closed
<1>4. Over => Over'
  BY <1>2, OverStays
<1>5. Doomed => Doomed'
  BY <1>2, DoomedStays
<1>6. Over \/ Refused => Over' \/ Refused'
  <2>1. CASE DeleteRoot
    BY <1>3, <1>5, <2>1 DEF DeleteRoot, Doomed
  <2>2. CASE ~DeleteRoot
    BY <1>2, <1>4, <2>2, RefusedStays
  <2> QED BY <2>1, <2>2
<1>7. DeleteRow => Doomed
  BY <1>3 DEF DeleteRow
<1>l. mark = "lost" => mark' = "lost"
  <2>1. row'.st # "preparing"
    BY <1>1 DEF Terminal
  <2>2. CASE ~ScanStep
    BY <2>2, ScanOtherwise
  <2>3. CASE ObsApply
    BY <2>1, <2>3 DEF ObsApply
  <2>4. CASE Crash
    BY <2>4 DEF Crash, Active, Terminal
  <2>5. CASE StartupJudge
    BY <2>5 DEF StartupJudge
  <2>6. CASE StartupScan \/ ObsOffline \/ ReadBreaks \/ OtherReadBreaks \/ StartupLayout
             \/ StartupFail
    BY <2>6 DEF StartupScan, ObsOffline, ReadBreaks, OtherReadBreaks, StartupLayout,
       StartupFail
  <2> QED BY <2>2, <2>3, <2>4, <2>5, <2>6 DEF ScanStep
<1>8. /\ row'.st \in Terminal \cup {"deleted"} => Over' \/ Refused' \/ mark' = "lost"
      /\ row'.st = "failed" => Doomed' \/ mark' = "lost"
      /\ row'.st = "deleted" => Doomed'
      /\ row'.st = "stopped" /\ row'.err = "killed" => Doomed'
  BY <1>1, <1>3, <1>5, <1>6, <1>7, <1>l DEF ClosedRow
<1>9. /\ tgt.runner = "gone" => tgt'.runner = "gone"
      /\ tgt.runner = "exit" => tgt'.runner \in {"exit", "gone"}
  <2>1. CASE DeleteRoot
    BY <2>1 DEF DeleteRoot
  <2>2. CASE ~DeleteRoot
    BY <2>2, TargetOnward DEF Onward
  <2> QED BY <2>1, <2>2
<1>10. row'.st \in {"finished", "lost"} => tgt'.runner \in {"exit", "gone"}
  BY <1>1, <1>3, <1>9 DEF ClosedRow
<1>11. row'.st = "finished" /\ tgt'.layout => tgt'.compl = "finished"
  <2> SUFFICES ASSUME row'.st = "finished", tgt'.layout PROVE tgt'.compl = "finished"
    OBVIOUS
  <2>1. row.st = "finished" /\ tgt.runner \in {"exit", "gone"} /\ ~DeleteRoot
    BY <1>1, <1>3 DEF ClosedRow, DeleteRoot
  <2>2. ~PrepLayout
    BY <2>1 DEF PrepLayout, RunInv, OneStart, BeforeMark, Unstarted
  <2>3. tgt.compl = "finished"
    BY <1>3, <2>1, <2>2, LayoutOtherwise DEF ClosedRow
  <2> QED BY <2>1, <2>3, TargetOnward DEF Onward
<1>12. row'.st = "lost" => tgt'.runner = "gone" /\ tgt'.compl = "none"
  <2> SUFFICES ASSUME row'.st = "lost" PROVE tgt'.runner = "gone" /\ tgt'.compl = "none"
    OBVIOUS
  <2>1. tgt.runner = "gone" /\ tgt.compl = "none"
    BY <1>1, <1>3 DEF ClosedRow
  <2>2. CASE DeleteRoot
    BY <1>9, <2>1, <2>2 DEF DeleteRoot
  <2>3. CASE ~DeleteRoot
    BY <2>1, <2>3, TargetOnward DEF Onward
  <2> QED BY <2>2, <2>3
<1>13. row'.st = "stopped" /\ ~row'.stopReq =>
         row'.err = "cancelled" /\ count'.runs = 0 /\ Over'
  <2> SUFFICES ASSUME row'.st = "stopped", ~row'.stopReq
               PROVE  row'.err = "cancelled" /\ count'.runs = 0 /\ Over'
    OBVIOUS
  <2>1. row.err = "cancelled" /\ count.runs = 0 /\ Over
    BY <1>1, <1>3 DEF ClosedRow
  <2>2. ~RunnerLaunch
    BY <2>1 DEF RunnerLaunch, Over, BeforeCommand
  <2> QED BY <1>1, <1>4, <2>1, <2>2, RunsOtherwise
<1> QED BY <1>8, <1>10, <1>11, <1>12, <1>13 DEF ClosedRow

\* Only an active run is closed.
LEMMA ClosesActive ==
  TypeOK /\ RunInv /\ [Next]_vars /\ row'.st \in Terminal \cup {"deleted"} =>
    row.st # "absent"
<1> SUFFICES ASSUME TypeOK, RunInv, [Next]_vars, row.st = "absent"
             PROVE  row'.st \notin Terminal \cup {"deleted"}
  OBVIOUS
<1>0. row \in RowType
  BY DEF TypeOK
<1>1. ~UploadExpires /\ ~DeleteRow
  BY DEF UploadExpires, DeleteRow, RunInv, Closed, Deleting, Terminal
<1>2. CASE Create
  BY <1>0, <1>2 DEF Create, RowType, Terminal
<1>3. CASE Advances(row, row')
  BY <1>3 DEF Advances, Active, Terminal
<1> QED BY <1>1, <1>2, <1>3, RowStep

\* Deletion goes step by step.
LEMMA DeletingBegins ==
  TypeOK /\ [Next]_vars /\ obs'.pc \in Deleting =>
    obs' = obs \/ DeleteBegin \/ DeleteKill \/ DeleteRoot
<1> SUFFICES ASSUME TypeOK, [Next]_vars, obs'.pc \in Deleting, obs' # obs
             PROVE  DeleteBegin \/ DeleteKill \/ DeleteRoot
  OBVIOUS
<1> USE DEF Deleting
<1>0. obs \in ObsType
  BY DEF TypeOK
<1>1. ~Uploading /\ ~Shutdown /\ ~UNCHANGED vars
  BY DEF Uploading, UploadBegin, UploadStored, UploadDone, UploadFails, UploadExpires,
     Shutdown, vars
<1>2. ~Crash
  BY DEF Crash, IdleObs
<1>3. ~Preparation
  BY DEF Preparation, Create, Schedule, PrepBegin, PrepLayout, PrepCopying, PrepCopy,
     PrepCommit, PrepMark, PrepCheck, PrepExec, PrepAck, PrepStatusUnknown,
     PrepReconciled, PrepError, PrepFail
<1>4. ~Target /\ ~Reading
  BY DEF Target, ScriptCheckSession, ScriptNewSession, ScriptRespawn, ScriptEnds,
     ScriptKilled, Reboot, RunnerSteps, BootstrapState, BootstrapCheck, BootstrapClone,
     BootstrapCloneFails, BootstrapCommit, BootstrapRunning, RunnerCheck, RunnerRejects,
     RunnerState, RunnerLaunch, CommandEnds, RunnerComplete, RunnerPublish, RunnerExit,
     RunnerLosesRoot, RunnerStep, Reading, ReadOn, ReadFails, ReadSample, ReadResults,
     ReadState, ReadStop, ReadResample, ReadAgain, Read
<1>5. ~Reconcile /\ ~Poll /\ ~StartupScan
  BY DEF Reconcile, Poll, StartupScan, ObsBegin
<1>6. ~PollTerminal /\ ~StartupLayout /\ ~StartupJudge /\ ~StartupFail /\ ~OtherReadBreaks
  BY <1>0 DEF PollTerminal, StartupLayout, StartupJudge, StartupFail, OtherReadBreaks,
     ObsType
<1>8. ~ObsOffline /\ ~ReadBreaks /\ ~Bridge /\ ~DeleteFails /\ ~DeleteRow
  <2>1. ObsOffline \/ ReadBreaks \/ Bridge \/ DeleteFails \/ DeleteRow => obs' = IdleObs
    BY DEF ObsOffline, ReadBreaks, Bridge, DeleteFails, DeleteRow
  <2> QED BY <2>1 DEF IdleObs
<1>9. ~ObsApply
  BY <1>0 DEF ObsApply, IdleObs, ObsType
<1>10. ~Control
  BY DEF Control, Stop, Kill, CtlBegin, StopWaiting, StopMissing, KillMissing, CtlInspect,
     CtlPublish, StopSignal, KillSignal, KillRecheck, CtlApply, CtlFails
<1> QED BY <1>1, <1>2, <1>3, <1>4, <1>5, <1>6, <1>8, <1>9, <1>10
        DEF Next, Observing, Deletion

\* The verdict of a read is true of the run that it closes.
LEMMA ReportCloses ==
  ASSUME RunInv, TypeOK, row.st \in Active, NEW p \in Readers, rd[p].out \in Terminal,
         UNCHANGED <<tgt, script>>, prep' \in {prep, "idle"}, row'.st = rd[p].out,
         row'.err \in {"none", "other"}, row'.stopReq = row.stopReq
  PROVE  ClosedRow'
<1>0. tgt \in TargetType
  BY DEF TypeOK
<1>1. /\ tgt.layout
      /\ rd[p].out = "finished" => tgt.compl = "finished"
      /\ rd[p].out = "failed" => tgt.runner = "gone"
      /\ rd[p].out = "lost" => tgt.runner = "gone" /\ tgt.compl = "none"
      /\ rd[p].out = "stopped" => tgt.stop \/ tgt.runner \in {"exit", "gone"}
  BY DEF RunInv, ReadsTrue
<1>2. rd[p].out = "stopped" => row.stopReq
  BY DEF RunInv, StopAsked
<1>3. rd[p].out = "finished" => tgt.runner \in {"exit", "gone"}
  BY <1>1 DEF RunInv, Recorded
<1>4. tgt.runner \in {"exit", "gone"} => Over'
  <2>1. tgt.runner \in {"exit", "gone"} => Over
    BY SpentIsOver
  <2> QED BY <2>1 DEF Over, Launching, BeforeMark, Terminal
<1>5. Over' => Doomed'
  BY DEF Doomed
<1>6. tgt.stop => Refused'
  BY <1>1 DEF Refused
<1>7. rd[p].out \in {"finished", "failed", "lost", "stopped"}
  BY DEF Terminal
<1> QED BY <1>1, <1>2, <1>3, <1>4, <1>5, <1>6, <1>7 DEF ClosedRow

\* A run that is closed although it never started does not start any more.
LEMMA UnstartedCloses ==
  ASSUME Over', row'.st \in {"stopped", "failed", "deleted"},
         row'.st = "stopped" => \/ row'.stopReq
                                \/ row'.err = "cancelled" /\ count'.runs = 0
  PROVE  ClosedRow'
BY DEF ClosedRow, Doomed, Terminal

\* What a run is closed with is true.
LEMMA ClosingStep ==
  TypeOK /\ RunInv /\ [Next]_vars /\ row.st \notin Terminal \cup {"deleted"} => ClosedRow'
<1> SUFFICES ASSUME TypeOK, RunInv, [Next]_vars, row.st \notin Terminal \cup {"deleted"},
                    row'.st \in Terminal \cup {"deleted"}
             PROVE  ClosedRow'
  BY DEF ClosedRow, Terminal
<1>0. row \in RowType /\ obs \in ObsType /\ tgt \in TargetType /\ ctl \in CtlType
      /\ rd["prep"].out \in Reports /\ rd["obs"].out \in Reports /\ rd["ctl"].out \in Reports
  BY DEF TypeOK, ReadType, Readers
<1>1. row'.st # row.st
  OBVIOUS
<1>2. row.st \in Active
  BY <1>0, ClosesActive DEF RowType, RowStates
<1>3. Untouched => Over \/ row.st = "preparing"
  BY DEF Untouched, Unstarted, Over, Launching, InScript, BeforeMark, BeforeCommand
<1>4. CASE Uploading
  <2>1. UploadExpires
    BY <1>0, <1>1, <1>4 DEF Uploading, UploadBegin, UploadStored, UploadDone, UploadFails,
       UploadExpires, TransitionPhase, RowType
  <2>2. Untouched /\ row'.st = "deleted"
    BY <1>0, <1>2, <2>1 DEF UploadExpires, RunInv, OneUpload, RowType
  <2>3. Over'
    BY <2>1, <2>2 DEF UploadExpires, Untouched, Unstarted, Over, Launching, InScript,
       BeforeMark, BeforeCommand
  <2> QED BY <2>2, <2>3, UnstartedCloses
<1>5. CASE PrepReconciled
  <2> DEFINE new == ApplyStatus(row, row, rd["prep"].out)
  <2>1. new.st # row.st => rd["prep"].out = new.st
    BY <1>0, ApplyStatusCases
  <2>a. new \in RowType /\ new.stopReq = row.stopReq
    BY <1>0, ApplyStatusCases, ApplyStatusAdvances DEF Carries, Advances, RowType
  <2>2. row' \in {new, Transition(new, {"preparing"},
                      [new EXCEPT !.err = "start_status_unknown",
                                  !.ph = IF @ = "none" THEN "starting" ELSE @])}
    BY <1>5 DEF PrepReconciled
  <2>e. rd["prep"].out \in Terminal => new.err \in {"none", "other"} \/ new = row
    BY <1>0 DEF ApplyStatus, Close, Transition, RowType, Terminal
  <2> HIDE DEF new
  <2>3. row'.st = new.st /\ row'.stopReq = row.stopReq
        /\ (row' = new \/ new.st = "preparing")
    BY <2>a, <2>2 DEF Transition, RowType
  <2>4. new.st # row.st /\ new # row
    BY <1>1, <2>3
  <2>5. rd["prep"].out \in Terminal
    <3>1. "deleted" \notin Reports
      BY DEF Reports, Terminal
    <3> QED BY <1>0, <2>1, <2>3, <2>4, <3>1
  <2>6. row'.err \in {"none", "other"}
    BY <2>1, <2>3, <2>4, <2>5, <2>e DEF Terminal
  <2>7. UNCHANGED <<tgt, script>> /\ prep' = "idle"
    BY <1>5 DEF PrepReconciled
  <2> QED BY <1>2, <2>1, <2>3, <2>4, <2>5, <2>6, <2>7, ReportCloses DEF Readers
<1>6. CASE Preparation /\ ~PrepReconciled
  <2>1. PrepFail
    BY <1>0, <1>1, <1>2, <1>6 DEF Preparation, Create, Schedule, PrepBegin, PrepLayout,
       PrepCopying, PrepCopy, PrepCommit, PrepMark, PrepCheck, PrepExec, PrepAck,
       PrepStatusUnknown, PrepReconciled, PrepError, PrepFail, Transition, RowType,
       Active, Terminal
  <2>2. ~Launching /\ tgt.runner = "none" /\ count.runs = 0
    BY <2>1 DEF PrepFail, RunInv, OneStart
  <2>3. row.st = "preparing" /\ row'.st \in {"stopped", "failed"}
        /\ (row'.st = "stopped" => row'.err = "cancelled")
    BY <1>0, <1>1, <2>1 DEF PrepFail, PreparationFailed, Transition, RowType
  <2>4. Over' /\ count'.runs = 0
    BY <2>1, <2>2 DEF PrepFail, Over, Launching, BeforeMark, BeforeCommand
  <2> QED BY <2>3, <2>4, UnstartedCloses
<1>7. CASE Target \/ Reading
  BY <1>1, <1>7 DEF Target, ScriptCheckSession, ScriptNewSession, ScriptRespawn,
     ScriptEnds, ScriptKilled, Reboot, RunnerSteps, BootstrapState, BootstrapCheck,
     BootstrapClone, BootstrapCloneFails, BootstrapCommit, BootstrapRunning, RunnerCheck,
     RunnerRejects, RunnerState, RunnerLaunch, CommandEnds, RunnerComplete, RunnerPublish,
     RunnerExit, RunnerLosesRoot, RunnerStep, Reading, ReadOn, ReadFails, ReadSample,
     ReadResults, ReadState, ReadStop, ReadResample, ReadAgain, Read
<1>8. CASE ObsApply
  <2>1. row' = ApplyObservation(row, obs, rd["obs"].out)
    BY <1>8 DEF ObsApply
  <2>2. rd["obs"].out = "missing" => obs.st # "running"
    BY <1>2, <1>8 DEF RunInv, ReadsTrue, ObsApply, Readers
  <2>3. rd["obs"].out = row'.st
    BY <1>0, <1>1, <2>1, <2>2, ApplyObservationCases
  <2>4. rd["obs"].out \in Terminal
    BY <1>0, <2>3 DEF Reports, Terminal
  <2>5. row'.stopReq = row.stopReq
    BY <1>0, <2>1, ApplyObservationCases DEF Carries
  <2>6. row'.err \in {"none", "other"}
    <3>1. row' = ApplyStatus(row, obs, rd["obs"].out)
      BY <2>1, <2>4 DEF ApplyObservation, Terminal
    <3>2. ApplyStatus(row, obs, rd["obs"].out).err \in {"none", "other"}
          \/ ApplyStatus(row, obs, rd["obs"].out) = row
      BY <1>0, <2>4 DEF ApplyStatus, Close, Transition, RowType, Terminal
    <3> QED BY <1>1, <3>1, <3>2
  <2>7. UNCHANGED <<tgt, script, prep>>
    BY <1>8 DEF ObsApply
  <2> QED BY <1>2, <2>3, <2>4, <2>5, <2>6, <2>7, ReportCloses DEF Readers
<1>9. CASE Observing /\ ~ObsApply
  <2>1. CASE StartupFail
    <3>1. /\ row.st = "preparing" /\ startup = "fail" /\ mark' = mark
          /\ row'.st = "failed"
      BY <1>0, <1>1, <2>1 DEF StartupFail, PreparationFailed, Transition, RowType
    <3>2. mark = "lost" \/ Doomed
      <4>1. mark \in {"none", "seen", "lost"}
        BY DEF TypeOK
      <4> QED BY <3>1, <4>1 DEF RunInv, Decided, StartupDoomed
    <3>3. ~Create /\ ~UploadDone
      BY <1>1, <1>0, <3>1 DEF Create, UploadDone, TransitionPhase, RowType
    <3>4. mark' = "lost" \/ Doomed'
      BY <3>1, <3>2, <3>3, DoomedStays
    <3>5. mark' = "lost" \/ Over' \/ Refused'
      BY <3>4 DEF Doomed
    <3> QED BY <3>1, <3>4, <3>5 DEF ClosedRow, Terminal
  <2>2. ~DeleteRow
    BY DEF DeleteRow, RunInv, Closed, Deleting
  <2>3. CASE Observing /\ ~ObsApply /\ ~StartupFail /\ ~DeleteRow
    BY <1>0, <1>1, <2>3 DEF Observing, Deletion, Reconcile, Poll, PollTerminal, StartupScan,
       ObsOffline, StartupLayout, StartupJudge, ReadBreaks, OtherReadBreaks, Bridge,
       DeleteBegin, DeleteKill, DeleteRoot, DeleteFails, ObsBegin, RowType
  <2> QED BY <1>9, <2>1, <2>2, <2>3
<1>10. CASE CtlApply
  <2>1. row' = ApplyStatus(row, row, rd["ctl"].out)
    BY <1>10 DEF CtlApply
  <2>2. rd["ctl"].out = row'.st /\ row'.stopReq = row.stopReq
    BY <1>0, <1>1, <2>1, ApplyStatusCases DEF Carries
  <2>3. rd["ctl"].out \in Terminal
    BY <1>0, <2>2 DEF Reports, Terminal
  <2>4. row'.err \in {"none", "other"}
    <3>1. ApplyStatus(row, row, rd["ctl"].out).err \in {"none", "other"}
          \/ ApplyStatus(row, row, rd["ctl"].out) = row
      BY <1>0, <2>3 DEF ApplyStatus, Close, Transition, RowType, Terminal
    <3> QED BY <1>1, <2>1, <3>1
  <2>5. UNCHANGED <<tgt, script, prep>>
    BY <1>10 DEF CtlApply
  <2> QED BY <1>2, <2>2, <2>3, <2>4, <2>5, ReportCloses DEF Readers
<1>11. CASE Control /\ ~CtlApply
  <2>a. ~Stop /\ ~Kill
    BY <1>0, <1>1 DEF Stop, Kill, CtlBegin, RowType
  <2>s. ctl.pc # "idle" => row.stopReq
    BY DEF RunInv, StopAsked
  <2>1. CASE StopWaiting
    <3>1. row.ph = "waiting_upload" /\ row'.st = "stopped" /\ row'.stopReq
      BY <1>0, <1>1, <2>1, <2>s DEF StopWaiting, Close, Transition, RowType
    <3>2. Untouched
      BY <1>2, <3>1 DEF RunInv, OneUpload
    <3>3. Over'
      BY <2>1, <3>2 DEF StopWaiting, Untouched, Unstarted, Over, Launching, InScript,
         BeforeMark, BeforeCommand
    <3> QED BY <3>1, <3>3, UnstartedCloses
  <2>2. CASE StopMissing \/ KillMissing
    <3>1. ~tgt.layout /\ ctl.pc = "remote"
      BY <2>2 DEF StopMissing, KillMissing
    <3>2. /\ tgt.sess = "none" /\ tgt.runner = "none" /\ script = "none"
          /\ ctl.st # "running" /\ prep \notin {"check", "exec"}
      BY <1>2, <3>1 DEF RunInv, InDirectory
    <3>3. row'.st = "stopped" /\ row'.stopReq
      BY <1>0, <1>1, <2>2, <2>s, <3>1, <3>2 DEF StopMissing, KillMissing, PaneLive, Close,
         Transition, RowType
    <3>4. /\ tgt'.runner = "none" /\ script' = "none" /\ prep' = prep
      BY <1>0, <2>2, <3>2 DEF StopMissing, KillMissing, PaneLive, KillSession, TargetType
    <3>5. Over'
      BY <3>2, <3>3, <3>4 DEF Over, Launching, InScript, BeforeCommand
    <3> QED BY <3>3, <3>5, UnstartedCloses
  <2>3. CASE KillRecheck
    <3>1. /\ ctl.pc = "recheck" /\ row'.st = "stopped" /\ row'.stopReq
      BY <1>0, <1>1, <2>3, <2>s DEF KillRecheck, Close, Transition, RowType
    <3>2. Doomed
      BY <1>2, <3>1 DEF RunInv, Decided
    <3>3. ~Create /\ ~UploadDone
      BY <1>1, <1>0, <3>1 DEF Create, UploadDone, TransitionPhase, RowType
    <3>4. Doomed'
      BY <3>2, <3>3, DoomedStays
    <3>5. Over' \/ Refused'
      BY <3>4 DEF Doomed
    <3> QED BY <3>1, <3>4, <3>5 DEF ClosedRow
  <2>4. CASE CtlInspect \/ CtlPublish \/ StopSignal \/ KillSignal \/ CtlFails
    BY <1>1, <2>4 DEF CtlInspect, CtlPublish, StopSignal, KillSignal, CtlFails
  <2> QED BY <1>11, <2>a, <2>1, <2>2, <2>3, <2>4 DEF Control
<1>12. CASE Shutdown \/ Crash \/ UNCHANGED vars
  BY <1>1, <1>12 DEF Shutdown, Crash, vars
<1> QED BY <1>4, <1>5, <1>6, <1>7, <1>8, <1>9, <1>10, <1>11, <1>12 DEF Next

\* Closed is kept.
LEMMA ClosedStep == TypeOK /\ RunInv /\ [Next]_vars => Closed'
<1> SUFFICES ASSUME TypeOK, RunInv, [Next]_vars PROVE Closed'
  OBVIOUS
<1>0. obs \in ObsType /\ tgt \in TargetType
  BY DEF TypeOK
<1>1. ClosedRow'
  BY ClosedRowStays, ClosingStep
<1>2. /\ ClosedRow
      /\ obs.pc \in {"del_root", "del_row"} => Doomed
      /\ obs.pc \in Deleting => row.st \in Terminal
  BY DEF RunInv, Closed
<1>3. ASSUME obs'.pc \in Deleting
      PROVE  row'.st \in Terminal /\ (obs'.pc \in {"del_root", "del_row"} => Doomed')
  <2>1. CASE obs' = obs
    <3>1. row.st \in Terminal
      BY <1>2, <1>3, <2>1
    <3>2. ~DeleteRow
      BY <1>3, <2>1 DEF DeleteRow, IdleObs, Deleting
    <3>3. row'.st = row.st
      BY <3>1, <3>2, ClosedRowKept
    <3>4. ~Create /\ ~UploadDone
      BY <3>1 DEF Create, UploadDone, Terminal
    <3> QED BY <1>2, <2>1, <3>1, <3>3, <3>4, DoomedStays
  <2>2. CASE DeleteBegin
    BY <1>0, <2>2 DEF DeleteBegin, ObsType
  <2>3. CASE DeleteKill
    <3>1. row' = row /\ row.st \in Terminal
      BY <1>2, <2>3 DEF DeleteKill, Deleting
    <3>2. tgt'.runner \in {"none", "gone"} /\ tgt'.layout = tgt.layout /\ tgt'.stop = tgt.stop
          /\ prep' = prep /\ script' = script
      BY <1>0, <2>3 DEF DeleteKill, KillSession, TargetType
    <3>3. Over \/ Refused \/ (prep = "idle" /\ ~Launching)
      BY <1>2, <3>1 DEF ClosedRow, RunInv, OneUpload, Decided
    <3>4. Doomed'
      BY <3>1, <3>2, <3>3 DEF Doomed, Over, Refused, Launching, BeforeMark, BeforeCommand,
         Terminal
    <3> QED BY <3>1, <3>4
  <2>4. CASE DeleteRoot
    <3>1. row' = row /\ row.st \in Terminal /\ Doomed
      BY <1>2, <2>4 DEF DeleteRoot, Deleting
    <3>2. ~Create /\ ~UploadDone
      BY <3>1 DEF Create, UploadDone, Terminal
    <3> QED BY <3>1, <3>2, DoomedStays
  <2> QED BY <1>3, <2>1, <2>2, <2>3, <2>4, DeletingBegins
<1> QED BY <1>1, <1>3 DEF Closed, Deleting

-----------------------------------------------------------------------------
(* What a row says is true *)

\* RunInv holds in the initial states.
LEMMA RunInvInit == Init => RunInv
<1> SUFFICES ASSUME Init PROVE RunInv
  OBVIOUS
<1>1. /\ row.st = "absent" /\ row.ph = "none" /\ row.stopReq = FALSE
      /\ tgt = [layout |-> FALSE, work |-> FALSE, stop |-> FALSE, state |-> "none",
                prepres |-> "none", compl |-> "none", sess |-> "none", runner |-> "none"]
      /\ upload = "idle" /\ prep = "idle" /\ script = "none"
      /\ startup = "off" /\ mark = "none"
      /\ rd = [p \in Readers |-> IdleRead] /\ obs = IdleObs /\ ctl = IdleCtl
      /\ count.runs = 0
  BY DEF Init
<1>2. OneStart /\ OneUpload
  BY <1>1 DEF OneStart, OneUpload, Untouched, Unstarted, Launching, InScript, BeforeMark,
     IdleObs
<1>3. InDirectory /\ InPane /\ Recorded /\ WholeFirst
  BY <1>1 DEF InDirectory, InPane, RunnerLive, Recorded, WholeFirst, InBootstrap,
     BeforeCommand, Launching, InScript, Active
<1>4. StopAsked /\ InProgress /\ ReadsTrue
  BY <1>1 DEF StopAsked, InProgress, ReadsTrue, IdleRead, IdleCtl, Active
<1>5. Decided /\ Closed
  BY <1>1 DEF Decided, StartupDoomed, Closed, ClosedRow, Deleting, Active, Terminal, IdleObs,
     Launching, InScript
<1> QED BY <1>2, <1>3, <1>4, <1>5 DEF RunInv

\* RunInv is inductive when pages are opened only of runs that do not wait for
\* their upload.
THEOREM RunInvariant == Pages # "all" => (Spec => []RunInv)
<1> SUFFICES ASSUME Pages # "all" PROVE Spec => []RunInv
  OBVIOUS
<1>1. TypeOK /\ RunInv /\ [Next]_vars => RunInv'
  <2> SUFFICES ASSUME TypeOK, RunInv, [Next]_vars PROVE RunInv'
    OBVIOUS
  <2>1. OneStart' /\ OneUpload'
    BY OneStartStep, OneUploadStep
  <2>2. InDirectory' /\ InPane' /\ Recorded' /\ WholeFirst'
    BY InDirectoryStep, InPaneStep, RecordedStep, WholeFirstStep
  <2>3. StopAsked' /\ InProgress' /\ ReadsTrue'
    BY StopAskedStep, InProgressStep, ReadsTrueStep
  <2>4. Decided' /\ Closed'
    BY DecidedStep, ClosedStep
  <2> QED BY <2>1, <2>2, <2>3, <2>4 DEF RunInv
<1> QED BY <1>1, RunInvInit, TypeCorrect, PTL DEF Spec

\* A closed row tells the truth about the run, and keeps telling it whatever a
\* launch script, a preparation or another request still does.
THEOREM RowsTellTheTruth == Pages # "all" => (Spec => []RowIsTrue)
<1> SUFFICES ASSUME Pages # "all" PROVE Spec => []RowIsTrue
  OBVIOUS
<1>1. RunInv => RowIsTrue
  <2> SUFFICES ASSUME RunInv PROVE RowIsTrue
    OBVIOUS
  <2>1. Doomed => ~CommandLive
    BY DEF Doomed, Over, CommandLive
  <2>2. ClosedRow
    BY DEF RunInv, Closed
  <2> QED BY <2>1, <2>2 DEF RowIsTrue, ReportedOutcomeIsTrue, DeletedIsSilent, ClosedRow,
          CommandLive
<1> QED BY <1>1, RunInvariant, PTL

-----------------------------------------------------------------------------
(* The abstract run *)

\* What RunLife sees of the target.
Work == IF tgt.work THEN "whole" ELSE "none"
Cmd == CASE count.runs = 0 -> "no"
         [] count.runs > 0 /\ CommandLive -> "yes"
         [] count.runs > 0 /\ ~CommandLive -> IF tgt.layout THEN "over" ELSE "gone"
Record == IF tgt.compl # "none" THEN tgt.compl ELSE tgt.prepres
Mapped == <<Work, Cmd, Record>>

\* A step of the target that RunLife does not see.
Unseen ==
  /\ tgt'.work = tgt.work /\ tgt'.compl = tgt.compl /\ tgt'.prepres = tgt.prepres
  /\ count'.runs = count.runs
  /\ count.runs > 0 => /\ tgt'.layout = tgt.layout
                       /\ tgt'.runner = "command" <=> tgt.runner = "command"

\* It is a stutter of the abstract run.
LEMMA UnseenStutters == TypeOK /\ Unseen => UNCHANGED Mapped
BY DEF Unseen, Mapped, Work, Cmd, Record, CommandLive, TypeOK

\* When a runner dies, its command ends.
LEMMA DeathIsEnd ==
  TypeOK /\ RunInv /\ count'.runs = count.runs
    /\ tgt'.work = tgt.work /\ tgt'.layout = tgt.layout /\ tgt'.compl = tgt.compl
    /\ tgt'.prepres = tgt.prepres /\ tgt'.runner # "command" =>
    Life!Next \/ UNCHANGED Mapped
<1> SUFFICES ASSUME TypeOK, RunInv, count'.runs = count.runs, tgt'.work = tgt.work,
                    tgt'.layout = tgt.layout, tgt'.compl = tgt.compl,
                    tgt'.prepres = tgt.prepres, tgt'.runner # "command"
             PROVE  Life!Next \/ UNCHANGED Mapped
  OBVIOUS
<1>1. CASE tgt.runner = "command"
  <2>1. count.runs = 1 /\ tgt.layout
    BY <1>1 DEF RunInv, Recorded, InDirectory
  <2>2. Cmd = "yes" /\ Cmd' = "over" /\ Work' = Work /\ Record' = Record
    BY <1>1, <2>1 DEF Cmd, CommandLive, Work, Record
  <2>3. Life!End
    BY <2>2 DEF Life!End, Cmd, Work, Record
  <2> QED BY <2>3 DEF Life!Next
<1>2. CASE tgt.runner # "command"
  BY <1>2, UnseenStutters DEF Unseen
<1> QED BY <1>1, <1>2

\* The records are refused, or the tree committed, before anything ran.
LEMMA NothingRan ==
  RunInv /\ TypeOK /\ tgt.runner \in {"none"} \cup BeforeCommand /\ tgt.runner # "gone" =>
    Cmd = "no" /\ Record = "none"
BY DEF RunInv, Recorded, Cmd, Record, BeforeCommand, TypeOK, TargetType

\* The runner's refusal is the run's.
LEMMA RefusalIsRefuse ==
  ASSUME RunInv, TypeOK, tgt.runner \in BeforeCommand, count'.runs = count.runs,
         NEW x \in {"stopped", "failed"}, tgt' = Refuse(x)
  PROVE  Life!Next
<1>1. Cmd = "no" /\ Record = "none" /\ count.runs = 0 /\ tgt.compl = "none"
  BY NothingRan DEF BeforeCommand, RunInv, Recorded
<1>2. tgt'.work = tgt.work /\ tgt'.compl = tgt.compl /\ tgt'.prepres = x
  BY DEF Refuse, RunnerDies, TypeOK, TargetType
<1>3. Work' = Work /\ Cmd' = Cmd /\ Record' = x
  BY <1>1, <1>2 DEF Work, Cmd, Record
<1>4. Life!Refuse
  BY <1>1, <1>3 DEF Life!Refuse, Cmd, Work, Record
<1> QED BY <1>4 DEF Life!Next

\* The tree becomes whole before anything ran.
LEMMA CommitIsCommit ==
  ASSUME RunInv, TypeOK, tgt.runner \in {"none"} \cup BeforeCommand,
         count'.runs = count.runs, tgt'.work, tgt'.compl = tgt.compl,
         tgt'.prepres = tgt.prepres
  PROVE  Life!Next \/ UNCHANGED Mapped
<1>1. Cmd = "no" /\ count.runs = 0
  BY NothingRan DEF BeforeCommand, RunInv, Recorded
<1>2. CASE tgt.work
  BY <1>1, <1>2, UnseenStutters DEF Unseen, TypeOK, TargetType, Mapped, Work, Cmd, Record
<1>3. CASE ~tgt.work
  <2>1. Work = "none" /\ Work' = "whole" /\ Cmd' = Cmd /\ Record' = Record
    BY <1>1, <1>3 DEF Work, Cmd, Record
  <2>2. Life!Commit
    BY <1>1, <2>1 DEF Life!Commit, Cmd, Work, Record
  <2> QED BY <2>2 DEF Life!Next
<1> QED BY <1>2, <1>3

\* Every step of the target is a step of the abstract run or is not seen in it.
LEMMA TargetLives == TypeOK /\ RunInv /\ Target => Life!Next \/ UNCHANGED Mapped
<1> SUFFICES ASSUME TypeOK, RunInv, Target PROVE Life!Next \/ UNCHANGED Mapped
  OBVIOUS
<1>0. /\ tgt \in TargetType
      /\ count \in [crashes: Nat, reboots: Nat, stops: Nat, kills: Nat, uploads: Nat,
                    breaks: Nat, runs: Nat]
  BY DEF TypeOK
<1>a. ~RunnerLaunch => count'.runs = count.runs
  <2>1. [Next]_vars
    BY DEF Next
  <2> QED BY <2>1, RunsOtherwise
<1> HIDE DEF Mapped
<1>1. CASE ScriptCheckSession \/ ScriptNewSession \/ ScriptEnds \/ ScriptKilled
  <2>1. Unseen
    BY <1>0, <1>1 DEF ScriptCheckSession, ScriptNewSession, ScriptEnds, ScriptKilled, Unseen,
       TargetType
  <2> QED BY <2>1, UnseenStutters
<1>2. CASE ScriptRespawn
  <2>1. count.runs = 0
    BY <1>2 DEF ScriptRespawn, RunInv, OneStart, Launching, InScript, Unstarted
  <2>2. tgt'.work = tgt.work /\ tgt'.compl = tgt.compl /\ tgt'.prepres = tgt.prepres
        /\ count' = count
    BY <1>0, <1>2 DEF ScriptRespawn, TargetType, RunnerDies
  <2>3. Unseen
    BY <1>0, <2>1, <2>2 DEF Unseen
  <2> QED BY <2>3, UnseenStutters
<1>3. CASE Reboot
  <2>1. /\ tgt'.work = tgt.work /\ tgt'.layout = tgt.layout /\ tgt'.compl = tgt.compl
        /\ tgt'.prepres = tgt.prepres /\ tgt'.runner # "command"
        /\ count'.runs = count.runs
    BY <1>0, <1>3 DEF Reboot, KillSession, TargetType
  <2> QED BY <2>1, DeathIsEnd
<1>4. CASE BootstrapState \/ BootstrapClone \/ BootstrapRunning \/ RunnerState
           \/ RunnerComplete
  <2>1. Unseen
    BY <1>0, <1>4 DEF RunnerSteps, BootstrapState, BootstrapCheck, BootstrapClone,
       BootstrapCloneFails, BootstrapCommit, BootstrapRunning, RunnerCheck, RunnerRejects,
       RunnerState, RunnerLaunch, CommandEnds, RunnerComplete, RunnerPublish, RunnerExit,
       RunnerLosesRoot, RunnerStep, Unseen, TargetType
  <2> QED BY <2>1, UnseenStutters
<1>5. CASE BootstrapCheck \/ BootstrapCloneFails \/ RunnerCheck \/ RunnerRejects
  <2>1. tgt.runner \in BeforeCommand /\ count'.runs = count.runs
    BY <1>5 DEF BootstrapCheck, BootstrapCloneFails, RunnerCheck, RunnerRejects, RunnerStep,
       BeforeCommand
  <2>2. \/ \E x \in {"stopped", "failed"} : tgt' = Refuse(x)
        \/ \E x \in {"git_clone", "state"} : tgt' = [tgt EXCEPT !.runner = x]
    BY <1>5 DEF BootstrapCheck, BootstrapCloneFails, RunnerCheck, RunnerRejects, RunnerStep
  <2>3. CASE \E x \in {"stopped", "failed"} : tgt' = Refuse(x)
    BY <2>1, <2>3, RefusalIsRefuse
  <2>4. CASE \E x \in {"git_clone", "state"} : tgt' = [tgt EXCEPT !.runner = x]
    <3>1. Unseen
      BY <1>0, <2>1, <2>4 DEF Unseen, TargetType, BeforeCommand
    <3> QED BY <3>1, UnseenStutters
  <2> QED BY <2>2, <2>3, <2>4
<1>6. CASE BootstrapCommit
  <2>1. tgt.runner \in BeforeCommand /\ count'.runs = count.runs
    BY <1>6 DEF BootstrapCommit, RunnerStep, BeforeCommand
  <2>2. \/ tgt' = Refuse("stopped")
        \/ tgt' = [tgt EXCEPT !.work = TRUE, !.runner = "git_running"]
    BY <1>6 DEF BootstrapCommit, RunnerStep
  <2>3. CASE tgt' = Refuse("stopped")
    BY <2>1, <2>3, RefusalIsRefuse
  <2>4. CASE tgt' = [tgt EXCEPT !.work = TRUE, !.runner = "git_running"]
    <3>1. tgt'.work /\ tgt'.compl = tgt.compl /\ tgt'.prepres = tgt.prepres
      BY <1>0, <2>4 DEF TargetType
    <3> QED BY <2>1, <3>1, CommitIsCommit
  <2> QED BY <2>2, <2>3, <2>4
<1>7. CASE RunnerLaunch
  <2>1. /\ tgt.runner = "launch" /\ tgt.work
    BY <1>7 DEF RunnerLaunch, RunInv, WholeFirst
  <2>2. Cmd = "no" /\ Record = "none" /\ count.runs = 0
    BY <2>1, NothingRan DEF BeforeCommand, RunInv, Recorded
  <2>3. /\ tgt'.work = tgt.work /\ tgt'.compl = tgt.compl /\ tgt'.prepres = tgt.prepres
        /\ tgt'.runner = "command" /\ count'.runs = 1
    BY <1>0, <1>7, <2>2 DEF RunnerLaunch, TargetType
  <2>4. Work = "whole" /\ Work' = Work /\ Record' = Record /\ Cmd' = "yes"
    BY <2>1, <2>3 DEF Work, Record, Cmd, CommandLive
  <2>5. Life!Launch
    BY <2>2, <2>4 DEF Life!Launch, Work, Record, Cmd
  <2> QED BY <2>5 DEF Life!Next
<1>8. CASE CommandEnds \/ RunnerExit \/ RunnerLosesRoot
  <2>1. /\ tgt'.work = tgt.work /\ tgt'.layout = tgt.layout /\ tgt'.compl = tgt.compl
        /\ tgt'.prepres = tgt.prepres /\ tgt'.runner # "command"
        /\ count'.runs = count.runs
    BY <1>0, <1>8 DEF RunnerSteps, BootstrapState, BootstrapCheck, BootstrapClone,
       BootstrapCloneFails, BootstrapCommit, BootstrapRunning, RunnerCheck, RunnerRejects,
       RunnerState, RunnerLaunch, CommandEnds, RunnerComplete, RunnerPublish, RunnerExit,
       RunnerLosesRoot, RunnerStep, RunnerDies, TargetType
  <2> QED BY <2>1, DeathIsEnd
<1>9. CASE RunnerPublish
  <2>1. /\ tgt.compl = "none" /\ tgt.prepres = "none" /\ count.runs = 1 /\ tgt.layout
        /\ tgt.runner # "command"
    BY <1>9 DEF RunnerPublish, RunInv, Recorded
  <2>2. /\ tgt'.work = tgt.work /\ tgt'.layout = tgt.layout /\ tgt'.runner # "command"
        /\ tgt'.compl \in {"finished", "stopped"} /\ count'.runs = count.runs
    BY <1>0, <1>9 DEF RunnerPublish, TargetType
  <2>3. Cmd = "over" /\ Cmd' = Cmd /\ Record = "none" /\ Work' = Work
        /\ Record' \in {"finished", "stopped"}
    BY <2>1, <2>2 DEF Cmd, Record, Work, CommandLive
  <2>4. Life!Publish
    BY <2>3 DEF Life!Publish, Work, Record, Cmd
  <2> QED BY <2>4 DEF Life!Next
<1> QED BY <1>1, <1>2, <1>3, <1>4, <1>5, <1>6, <1>7, <1>8, <1>9 DEF Target, RunnerSteps

\* Every step of the system is a step of the abstract run or is not seen in it.
LEMMA LifeStep == TypeOK /\ RunInv /\ [Next]_vars => Life!Next \/ UNCHANGED Mapped
<1> SUFFICES ASSUME TypeOK, RunInv, [Next]_vars PROVE Life!Next \/ UNCHANGED Mapped
  OBVIOUS
<1>0. tgt \in TargetType
  BY DEF TypeOK
<1> HIDE DEF Mapped
<1>1. CASE Target
  BY <1>1, TargetLives
<1>r. ~Target => count'.runs = count.runs
  BY RunsOtherwise DEF Target, RunnerSteps
<1>2. CASE (StopMissing \/ StopSignal) /\ ~Target
  <2>1. tgt' = tgt \/ tgt' = RunnerDies(tgt)
    BY <1>2 DEF StopMissing, StopSignal, Interrupted
  <2>2. CASE tgt' = tgt
    <3>1. Unseen
      BY <1>2, <1>r, <2>2 DEF Unseen
    <3> QED BY <3>1, UnseenStutters
  <2>3. CASE tgt' = RunnerDies(tgt)
    <3>1. /\ tgt'.work = tgt.work /\ tgt'.layout = tgt.layout /\ tgt'.compl = tgt.compl
          /\ tgt'.prepres = tgt.prepres /\ tgt'.runner # "command"
      BY <1>0, <2>3 DEF RunnerDies, TargetType
    <3> QED BY <1>2, <1>r, <3>1, DeathIsEnd
  <2> QED BY <2>1, <2>2, <2>3
<1>3. CASE (KillMissing \/ KillSignal \/ DeleteKill) /\ ~Target
  <2>1. tgt' = KillSession(tgt)
    BY <1>3 DEF KillMissing, KillSignal, DeleteKill
  <2>2. /\ tgt'.work = tgt.work /\ tgt'.layout = tgt.layout /\ tgt'.compl = tgt.compl
        /\ tgt'.prepres = tgt.prepres /\ tgt'.runner # "command"
    BY <1>0, <2>1 DEF KillSession, TargetType
  <2> QED BY <1>3, <1>r, <2>2, DeathIsEnd
<1>4. CASE (CtlPublish \/ Bridge) /\ ~Target
  <2>1. Unseen
    BY <1>0, <1>4, <1>r DEF CtlPublish, Bridge, Unseen, TargetType
  <2> QED BY <2>1, UnseenStutters
<1>5. CASE PrepLayout /\ ~Target
  <2>1. count.runs = 0
    BY <1>5 DEF PrepLayout, RunInv, OneStart, BeforeMark, Unstarted
  <2>2. Unseen
    BY <1>0, <1>5, <1>r, <2>1 DEF PrepLayout, Unseen, TargetType
  <2> QED BY <2>2, UnseenStutters
<1>6. CASE PrepCommit /\ ~Target
  <2>1. tgt' = tgt \/ tgt' = [tgt EXCEPT !.work = TRUE]
    BY <1>6 DEF PrepCommit
  <2>2. CASE tgt' = tgt
    <3>1. Unseen
      BY <1>6, <1>r, <2>2 DEF Unseen
    <3> QED BY <3>1, UnseenStutters
  <2>3. CASE tgt' = [tgt EXCEPT !.work = TRUE]
    <3>1. tgt'.work /\ tgt'.compl = tgt.compl /\ tgt'.prepres = tgt.prepres
      BY <1>0, <2>3 DEF TargetType
    <3>2. tgt.runner = "none"
      BY <1>6 DEF PrepCommit, RunInv, OneStart, BeforeMark, Unstarted
    <3> QED BY <1>6, <1>r, <3>1, <3>2, CommitIsCommit
  <2> QED BY <2>1, <2>2, <2>3
<1>7. CASE DeleteRoot /\ ~Target
  <2>1. Doomed
    BY <1>7 DEF DeleteRoot, RunInv, Closed
  <2>2. tgt.runner # "command"
    BY <2>1 DEF Doomed, Over
  <2>3. /\ ~tgt'.work /\ tgt'.compl = "none" /\ tgt'.prepres = "none" /\ ~tgt'.layout
        /\ tgt'.runner = tgt.runner
    BY <1>7 DEF DeleteRoot
  <2>4. count.runs \in Nat
    BY DEF TypeOK
  <2>5. /\ Cmd # "yes" /\ Work' = "none" /\ Record' = "none"
        /\ Cmd' = "gone" \/ (Cmd = "no" /\ Cmd' = "no")
    BY <1>7, <1>r, <2>2, <2>3, <2>4 DEF Cmd, Work, Record, CommandLive
  <2>6. Life!Delete
    BY <2>5 DEF Life!Delete, Work, Record, Cmd
  <2> QED BY <2>6 DEF Life!Next
<1>8. CASE /\ ~Target /\ ~StopMissing /\ ~StopSignal /\ ~KillMissing /\ ~KillSignal
           /\ ~CtlPublish /\ ~PrepLayout /\ ~PrepCommit /\ ~Bridge /\ ~DeleteKill
           /\ ~DeleteRoot
  <2>1. tgt' = tgt
    <3>1. CASE Control
      BY <1>8, <3>1 DEF Control, Stop, Kill, CtlBegin, StopWaiting, CtlInspect, KillRecheck,
         CtlApply, CtlFails
    <3> QED BY <1>8, <3>1, TargetOtherwise
  <2>2. Unseen
    BY <1>8, <1>r, <2>1 DEF Unseen
  <2> QED BY <2>2, UnseenStutters
<1> QED BY <1>1, <1>2, <1>3, <1>4, <1>5, <1>6, <1>7, <1>8

\* The SSH target implements the abstract run, for every source kind and any
\* number of crashes, reboots, stops, kills and lost acknowledgements.
THEOREM TargetImplementsRunLife == Pages # "all" => (Spec => ImplementsRunLife)
<1> SUFFICES ASSUME Pages # "all" PROVE Spec => ImplementsRunLife
  OBVIOUS
<1>1. Init => Life!Init
  BY DEF Init, Life!Init
<1>2. TypeOK /\ RunInv /\ [Next]_vars => [Life!Next]_(Life!vars)
  BY LifeStep DEF Life!vars, Mapped, Work, Cmd, Record
<1> QED BY <1>1, <1>2, TypeCorrect, RunInvariant, PTL DEF Spec, ImplementsRunLife, Life!Spec

=============================================================================
