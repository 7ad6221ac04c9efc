------------------------ MODULE TerminalBridgeProofs ------------------------
(***************************************************************************)
(* Proofs about TerminalBridge for any number of connections, sizes,       *)
(* frames and faults, on every backend.                                    *)
(*                                                                         *)
(* The bridges use the registry of TerminalControl only through its        *)
(* operations (BridgeImplementsRegistry), so what is proved of the registry *)
(* holds of them. Their own invariant, BridgeInv, says who holds the two   *)
(* locks and whose plan is registered: a frame in hand holds the input      *)
(* lock, a plan is that of the frame in hand, and on the Core nothing can   *)
(* outdate it. GridInv adds which views may size the shared window: a job   *)
(* gives a view influence only for a plan in hand or for a bridge that      *)
(* leaves, whose view is killed.                                            *)
(***************************************************************************)
EXTENDS TerminalBridge, TerminalControlProofs, FiniteSetTheorems

-----------------------------------------------------------------------------
(* The invariant *)

\* Where a bridge can be: Handling a frame, before it, or on its way out.
Ended == {"leaving", "closing", "killing", "unregister", "gone"}
Pcs == Handling \cup Ended \cup
       {"new", "setup", "ensured", "spawn", "attach", "attached", "idle", "enter"}
CoreJobs == {"on", "off", "promote", "recheck", "freeze"}
AgentJobs == {"asked", "marked", "sizing", "boot"}
Conns == [pc : Pcs, frame : Frames, size : Sizes \cup {NoSize},
          view : Sizes \cup {NoSize}, active : BOOLEAN, cut : BOOLEAN]

\* A script over SSH is given up at the cost of a fault.
LateBounded == \A c \in Clients, s \in Scripts : late[c][s] + left.faults <= MaxFaults

\* The types, with those of a bridge and its job; only a frame with a size
\* reaches a resize.
BridgeTypes ==
  /\ BridgeTypeOK
  /\ conn \in [Clients -> Conns]
  /\ job \in [Clients -> {"none"} \cup CoreJobs \cup AgentJobs]
  /\ left \in [frames : Nat, faults : 0 .. MaxFaults]
  /\ \A c \in Clients : conn[c].pc \in Handling \ {"deliver"} => conn[c].size \in Sizes
  /\ LateBounded

\* Each backend has its own bridge and its own jobs.
Placed ==
  \A c \in Clients :
    /\ conn[c].pc \in {"attach", "attached", "ask", "answer", "answered", "demoting",
                       "closing"} => backend = "node"
    /\ conn[c].pc \in {"setup", "spawn", "role", "size", "wait", "applied", "freeze",
                       "boot_off", "commit", "unregister"} => OnCore
    /\ conn[c].pc = "ensured" => backend # "local"
    /\ job[c] \in CoreJobs => OnCore
    /\ job[c] \in AgentJobs => backend = "node"

\* A job works for a bridge that waits for it or has ended.
Working ==
  \A c \in Clients :
    job[c] # "none" => conn[c].pc \in Ended \cup (Waiting \ {"wait"})

\* A frame is handled under the input lock; input under it is the controller's.
Locked ==
  \A c \in Clients : /\ conn[c].pc \in Handling <=> lock = c
                     /\ lock = c /\ IsInput(conn[c].frame) => controller = c

\* The registered plan is that of the frame in hand, from its begin_resize to its
\* commit or abort; on the Core it stays current.
Planned ==
  plan # NoPlan =>
    /\ lock = plan.client
    /\ conn[lock].pc \notin {"begin", "deliver"}
    /\ OnCore => PlanCurrent

\* The grid lock is held by one promotion.
GridLocked == \A c \in Clients : job[c] \in {"promote", "recheck"} <=> gridLock = c

-----------------------------------------------------------------------------
(* The grid *)

NoFaults == left.faults = MaxFaults
Leaving == {c \in Clients : conn[c].pc \in {"leaving", "closing", "killing"}}

\* At most one view sizes the window for the bridges.
OneSizer == \A a, b \in sizers \ strays : a = b

\* Only bridges between their setup and their end have a view.
Viewed == \A c \in views : conn[c].pc \notin {"new", "ensured", "setup", "spawn", "attach",
                                              "unregister", "gone"}

\* A plan on the Core is that of the owner of the grid, and it has not reached the
\* backend while the view is given its role.
PlanOwns ==
  plan # NoPlan =>
    /\ OnCore => inputOwner = plan.client \/ (inputOwner = NoClient /\ bootOwner = plan.client)
    /\ conn[plan.client].pc = "role" => ~planApplied
    /\ ~plan.apply => applied = [client |-> plan.client, size |-> plan.size]

\* A view gets influence for a plan, unless its bridge has ended.
FitsPlan(c) ==
  /\ job[c] \in {"on", "promote", "recheck"} => conn[c].pc \in Ended \/ Mine(c)
  /\ job[c] \in AgentJobs /\ want[c] # "off" =>
       conn[c].pc \in Ended \/ (Mine(c) /\ conn[c].pc = "answer")
  /\ conn[c].pc = "role" => job[c] # "none" \/ out[c] \in {"ok", "failed"}
  /\ conn[c].pc = "role" => job[c] # "freeze" /\ (Mine(c) => job[c] # "off")
  /\ conn[c].pc \in {"answer", "answered"} => (Mine(c) <=> want[c] # "off")
  /\ conn[c].pc = "demoting" => want[c] = "off"
  /\ job[c] = "boot" => want[c] = "boot"
ForPlan == \A c \in Clients : FitsPlan(c)

\* The view of the plan in hand has been given the grid.
Taken(c) ==
  \/ conn[c].pc \in {"size", "wait", "applied", "freeze", "boot_off", "commit", "answered"}
  \/ conn[c].pc = "role" /\ (job[c] = "recheck" \/ (job[c] = "none" /\ out[c] = "ok"))
  \/ conn[c].pc = "answer" /\ (job[c] \in {"marked", "sizing", "boot"}
                               \/ (job[c] = "none" /\ out[c] \in {"ok", "closed"}))

\* The view was refused the grid, or gave it back.
Refused(c) ==
  \/ conn[c].pc = "role" /\ job[c] = "none" /\ out[c] = "failed"
  \/ conn[c].pc \in {"answer", "answered"} /\ job[c] = "none" /\ out[c] = "retry"
  \/ conn[c].pc \in {"answer", "answered"} /\ job[c] = "none" /\ out[c] = "ok" /\ want[c] = "boot"
  \/ conn[c].pc = "demoting" /\ (job[c] \in {"marked", "sizing"} \/ (job[c] = "none" /\ out[c] = "ok"))

\* The agent knows the role of the view.
Known(c) ==
  /\ \/ job[c] \in {"sizing", "boot"} /\ want[c] # "off"
     \/ conn[c].pc \in {"answer", "answered"} /\ job[c] = "none" /\ out[c] = "ok" /\ want[c] = "on"
     => active[c]
  /\ conn[c].pc = "demoting" /\ job[c] = "asked" => active[c] \/ c \notin sizers

\* Without faults, whoever sizes the window has the role on record; a plan that
\* was given the grid shares it with nobody but bridges that leave; and a view that
\* stays has a plan in hand or the committed size.
OnRecord ==
  OnCore => /\ sizers \subseteq {owner} \cup Leaving
            /\ \A c \in Clients : job[c] = "recheck" => owner = c
TakenAlone == \A c \in Clients : Mine(c) /\ Taken(c) => sizers \subseteq {c} \cup Leaving
RefusedOut == \A c \in Clients : Refused(c) => c \notin sizers
AllKnown == \A c \in Clients : Known(c)
Committed == \A c \in sizers : \/ c \in Leaving \/ Mine(c)
                               \/ applied = NoResize \/ applied.client = c
Sizing == NoFaults => OnRecord /\ TakenAlone /\ RefusedOut /\ AllKnown /\ Committed

-----------------------------------------------------------------------------
(* Steps *)

\* The steps of one bridge: those outside a resize, those of a resize, and those
\* of its job.
Attends(c) ==
  \/ LocalConnect(c) \/ RemoteEnsure(c) \/ LocalSetup(c) \/ LocalSetupFails(c)
  \/ RemoteRegister(c) \/ SshSpawn(c) \/ SshSpawnFails(c) \/ AgentAttach(c)
  \/ NodeAttachFails(c) \/ NodeAttached(c)
  \/ Claim(c) \/ Deny(c) \/ Admit(c) \/ Deliver(c)
  \/ Cut(c) \/ Forget(c) \/ KillView(c) \/ Leave(c) \/ AgentClose(c)
Adjusts(c) ==
  \/ Begin(c)
  \/ OnCore /\ (\/ Synced(c) \/ SetSize(c) \/ GridSized(c) \/ GridNotSized(c) \/ Applied(c)
                \/ Frozen(c) \/ BootDemoted(c) \/ Commit(c))
  \/ backend = "node" /\ (\/ NodeSkip(c) \/ NodeAsk(c) \/ NodeApplied(c) \/ NodeAnswered(c)
                          \/ NodeDemoted(c))
Serves(c) ==
  \/ OnCore /\ (RoleOn(c) \/ Promote(c) \/ Recheck(c) \/ RoleOff(c) \/ Freeze(c))
  \/ AgentRefuses(c) \/ AgentRole(c) \/ AgentMark(c) \/ AgentSized(c) \/ AgentNotSized(c)
  \/ AgentBoot(c)

\* The steps of scripts that the Core gave up on.
Lates == \E c \in Clients : LateScripts(c)

\* They change nothing but the tmux views, and no view of a script that the Core
\* still waits for.
LEMMA LateSteps ==
  ASSUME Lates
  PROVE  /\ UNCHANGED <<vars, backend, conn, lock, job, out, want, owner, gridLock, active,
                        closed, consume, fresh, alive, views, left>>
         /\ sizers' \ strays' \subseteq sizers \ strays
BY DEF Lates, LateScripts, LatePeer, LateOn, LateOff, LateFreeze, Demoted, work, roles, streams

\* These are all steps.
LEMMA BridgeSteps ==
  ASSUME BridgeNext
  PROVE  \/ OpenPage \/ TmuxDies \/ Lates
         \/ \E c \in Clients, f \in Frames, s \in Sizes \cup {NoSize} : Receive(c, f, s)
         \/ \E c \in Clients : Attends(c) \/ Adjusts(c) \/ Serves(c)
<1> USE DEF Attends, Adjusts, Serves
<1>1. CASE OpenPage \/ TmuxDies \/ Lates
  BY <1>1
<1>2. CASE ~(OpenPage \/ TmuxDies \/ Lates)
  <2>1. PICK c \in Clients : \/ Connecting(c) \/ Attaching(c) \/ Receiving(c) \/ Cut(c)
                             \/ LocalBridge(c) \/ SshBridge(c) \/ NodeBridge(c)
    BY <1>2 DEF BridgeNext
  <2>2. CASE Connecting(c) \/ Attaching(c) \/ Cut(c)
    BY <2>2 DEF Connecting, Attaching
  <2>3. CASE Receiving(c)
    BY <2>3 DEF Receiving
  <2>4. CASE LocalBridge(c) \/ SshBridge(c)
    <3>0. ~LateScripts(c)
      BY <1>2 DEF Lates
    <3>1. OnCore
      BY <2>4, <3>0 DEF LocalBridge, SshBridge, LocalInput, LocalResizing, LocalThreads,
                  LocalLeaving,
                  SshInput, SshResizing, SshThreads, SshLeaving, OnCore
    <3>2. Input(c) \/ CoreResizing(c) \/ CoreThreads(c) \/ CoreLeaving(c)
      BY <2>4, <3>0 DEF LocalBridge, SshBridge, LocalInput, LocalResizing, LocalThreads,
                  LocalLeaving,
                  SshInput, SshResizing, SshThreads, SshLeaving
    <3> QED BY <3>1, <3>2 DEF Input, CoreResizing, CoreThreads, CoreLeaving
  <2>5. CASE NodeBridge(c)
    BY <2>5 DEF NodeBridge, NodeInput, Input, NodeResizing, NodeLeaving, Agent
  <2> QED BY <2>1, <2>2, <2>3, <2>4, <2>5
<1> QED BY <1>1, <1>2

\* A step that leaves the registry alone.
Silent ==
  \/ TmuxDies \/ Lates
  \/ \E c \in Clients, f \in Frames, s \in Sizes \cup {NoSize} : Receive(c, f, s)
  \/ \E c \in Clients :
       \/ LocalSetupFails(c) \/ SshSpawn(c) \/ NodeAttachFails(c) \/ Deny(c) \/ Deliver(c)
       \/ SetSize(c) \/ GridSized(c) \/ NodeAsk(c) \/ Forget(c) \/ KillView(c) \/ AgentClose(c)
       \/ RoleOn(c) \/ Promote(c) \/ Recheck(c) \/ RoleOff(c) \/ Freeze(c)
       \/ AgentAttach(c) \/ AgentRefuses(c) \/ AgentRole(c) \/ AgentMark(c)
       \/ AgentSized(c) \/ AgentNotSized(c) \/ AgentBoot(c)

\* Silent steps leave the registry alone.
LEMMA SilentSteps == ASSUME Silent PROVE UNCHANGED vars
BY LateSteps
   DEF Silent, TmuxDies, Receive, LocalSetupFails, SshSpawn, NodeAttachFails, Deny, Deliver,
       SetSize, GridSized, RoleOn, Promote, Recheck, RoleOff, Freeze, NodeAsk, AgentAttach,
       NodeEnsure, AgentRefuses, AgentRole, AgentMark, AgentSized, AgentNotSized, AgentBoot,
       AgentClose, Forget, KillView

\* Every other step performs at most one operation of the registry.
LEMMA RegistrySteps ==
  ASSUME BridgeTypes, BridgeNext
  PROVE  [Next]_vars
<1>1. CASE Silent
  BY <1>1, SilentSteps
<1>2. CASE OpenPage
  <2>1. MarkGridFresh(NoClient) \/ UNCHANGED vars
    BY <1>2 DEF OpenPage, LocalEnsure, SshEnsure, NodeEnsure, EnsureOnCore
  <2> QED BY <2>1 DEF Next
<1>3. ASSUME NEW c \in Clients,
             LocalConnect(c) \/ RemoteRegister(c) \/ SshSpawnFails(c) \/ Leave(c)
      PROVE  [Next]_vars
  <2>1. Register(c) \/ Unregister(c)
    BY <1>3 DEF LocalConnect, RemoteRegister, SshSpawnFails, Leave
  <2> QED BY <2>1 DEF Next
<1>4. ASSUME NEW c \in Clients, LocalSetup(c) \/ RemoteEnsure(c) PROVE [Next]_vars
  <2>1. MarkGridFresh(NoClient) \/ UNCHANGED vars
    BY <1>4 DEF LocalSetup, RemoteEnsure, LocalEnsure, SshEnsure, NodeEnsure, EnsureOnCore
  <2> QED BY <2>1 DEF Next
<1>5. ASSUME NEW c \in Clients, NodeAttached(c) PROVE [Next]_vars
  <2>1. MarkGridFresh(c) \/ MarkGridExisting \/ UNCHANGED vars
    BY <1>5 DEF NodeAttached
  <2> QED BY <2>1 DEF Next
<1>6. ASSUME NEW c \in Clients, Claim(c) \/ Admit(c) PROVE [Next]_vars
  <2>1. ClaimControl(c) \/ MarkInput(c) \/ UNCHANGED vars
    BY <1>6 DEF Claim, Admit
  <2> QED BY <2>1 DEF Next
<1>7. ASSUME NEW c \in Clients, Begin(c) PROVE [Next]_vars
  <2>1. conn[c].size \in Sizes
    BY <1>7 DEF BridgeTypes, Begin, Handling
  <2>2. BeginResize(c, conn[c].size) \/ UNCHANGED vars
    BY <1>7 DEF Begin
  <2> QED BY <2>1, <2>2 DEF Next
<1>8. ASSUME NEW c \in Clients,
             \/ Synced(c) \/ GridNotSized(c) \/ Applied(c) \/ Frozen(c) \/ BootDemoted(c)
             \/ Commit(c) \/ NodeSkip(c) \/ NodeApplied(c) \/ NodeAnswered(c)
             \/ NodeDemoted(c) \/ Cut(c)
      PROVE  [Next]_vars
  <2>1. ResizeApplied \/ CommitResize \/ AbortResize \/ UNCHANGED vars
    BY <1>8 DEF Synced, GridNotSized, Frozen, BootDemoted, NodeAnswered, NodeDemoted, Fail,
                GiveUp, Mine, Applied, Commit, NodeSkip, NodeApplied, Cut
  <2> QED BY <2>1 DEF Next
<1> QED BY <1>1, <1>2, <1>3, <1>4, <1>5, <1>6, <1>7, <1>8, BridgeSteps DEF Silent, Attends,
     Adjusts, Serves

-----------------------------------------------------------------------------
(* Types *)

\* A bridge that goes on changes nothing but where it is.
LEMMA Goes ==
  ASSUME conn \in [Clients -> Conns], NEW c \in Clients, NEW p \in Pcs, Go(c, p)
  PROVE  /\ conn' \in [Clients -> Conns]
         /\ \A d \in Clients : d # c => conn'[d] = conn[d]
         /\ conn'[c].pc = p /\ conn'[c].frame = conn[c].frame /\ conn'[c].size = conn[c].size
         /\ conn'[c].view = conn[c].view /\ conn'[c].active = conn[c].active
         /\ conn'[c].cut = conn[c].cut
BY DEF Go, Conns

\* A bridge that is done with its frame has none in hand.
LEMMA Finishes ==
  ASSUME conn \in [Clients -> Conns], NEW c \in Clients, NEW p \in Pcs, Done(c, p)
  PROVE  /\ conn' \in [Clients -> Conns]
         /\ \A d \in Clients : d # c => conn'[d] = conn[d]
         /\ conn'[c].pc = p /\ conn'[c].frame = "claim"
         /\ conn'[c].view = conn[c].view /\ conn'[c].active = conn[c].active
         /\ conn'[c].cut = conn[c].cut
BY DEF Done, Conns, Frames

\* Every bridge keeps its type, and only a frame with a size is on its way
\* through a resize.
LEMMA ConnTypeStep ==
  ASSUME BridgeTypes, BridgeNext
  PROVE  /\ conn' \in [Clients -> Conns]
         /\ \A c \in Clients : conn'[c].pc \in Handling \ {"deliver"} => conn'[c].size \in Sizes
<1> USE DEF BridgeTypes, Handling, Waiting, Pcs, Ended
<1> DEFINE G == /\ conn' \in [Clients -> Conns]
                /\ \A c \in Clients :
                     conn'[c].pc \in Handling \ {"deliver"} => conn'[c].size \in Sizes
<1>0. \A d \in Clients : conn[d] \in Conns
  OBVIOUS
<1>1. CASE UNCHANGED conn
  BY <1>1
<1>2. ASSUME NEW c \in Clients, NEW p \in Pcs, Go(c, p),
             p \in Handling \ {"deliver"} => conn[c].size \in Sizes
      PROVE  G
  BY <1>2, Goes
<1>3. ASSUME NEW c \in Clients, NEW p \in Pcs \ Handling, Done(c, p) PROVE G
  BY <1>3, Finishes
<1>4. ASSUME NEW c \in Clients, NEW f \in Frames, NEW s \in Sizes \cup {NoSize}, Receive(c, f, s)
      PROVE  G
  <2>1. conn' = [conn EXCEPT ![c] = [conn[c] EXCEPT !.pc = "enter", !.frame = f, !.size = s]]
    BY <1>4 DEF Receive
  <2>2. [conn[c] EXCEPT !.pc = "enter", !.frame = f, !.size = s] \in Conns
    BY <1>0 DEF Conns
  <2>3. conn'[c].pc = "enter" /\ \A d \in Clients : d # c => conn'[d] = conn[d]
    BY <2>1, <1>0 DEF Conns
  <2> QED BY <2>1, <2>2, <2>3
<1>5. ASSUME NEW c \in Clients, SetSize(c) PROVE G
  <2>1. conn[c].size \in Sizes /\ conn[c].view \in Sizes \cup {NoSize}
    BY <1>5 DEF SetSize, Conns
  <2>2. PICK p \in {"deliver", "wait", "applied"} :
          conn' = [conn EXCEPT ![c].view = conn[c].size, ![c].pc = p]
    <3>1. CASE ~Mine(c)
      BY <1>5, <3>1 DEF SetSize
    <3>2. CASE Mine(c) /\ plan.apply
      BY <1>5, <3>2 DEF SetSize
    <3>3. CASE Mine(c) /\ ~plan.apply
      BY <1>5, <3>3 DEF SetSize
    <3> QED BY <3>1, <3>2, <3>3
  <2>3. conn' = [conn EXCEPT ![c] = [conn[c] EXCEPT !.view = conn[c].size, !.pc = p]]
    BY <2>2
  <2>4. [conn[c] EXCEPT !.view = conn[c].size, !.pc = p] \in Conns
    BY <1>0, <2>1 DEF Conns
  <2>5. conn'[c].size = conn[c].size /\ \A d \in Clients : d # c => conn'[d] = conn[d]
    BY <2>3, <1>0 DEF Conns
  <2> QED BY <2>1, <2>3, <2>4, <2>5
<1>6. ASSUME NEW c \in Clients, NodeAnswered(c) PROVE G
  <2>1. CASE Fail(c)
    BY <2>1, <1>3 DEF Fail
  <2>2. CASE GiveUp(c)
    BY <2>2, <1>2 DEF GiveUp
  <2>3. CASE ~Fail(c) /\ ~GiveUp(c)
    <3>1. conn[c].pc \in {"answer", "answered"} /\ conn[c].size \in Sizes
      BY <1>6 DEF NodeAnswered
    <3>2. PICK p \in {"deliver", "demoting"}, b \in BOOLEAN :
            conn' = [conn EXCEPT ![c].active = b, ![c].view = conn[c].size, ![c].pc = p]
      <4>1. (want[c] = "on") \in BOOLEAN
        OBVIOUS
      <4>2. CASE Mine(c) /\ ~PlanCurrent
        BY <1>6, <2>3, <4>1, <4>2 DEF NodeAnswered
      <4>3. CASE ~(Mine(c) /\ ~PlanCurrent)
        BY <1>6, <2>3, <4>1, <4>3 DEF NodeAnswered
      <4> QED BY <4>2, <4>3
    <3> QED BY <3>1, <3>2 DEF Conns
  <2> QED BY <2>1, <2>2, <2>3
<1>7. ASSUME NEW c \in Clients, NodeDemoted(c) PROVE G
  <2>1. CASE Fail(c)
    BY <2>1, <1>3 DEF Fail
  <2>2. CASE ~Fail(c)
    BY <1>7, <2>2 DEF NodeDemoted, Conns
  <2> QED BY <2>1, <2>2
<1>8. ASSUME NEW c \in Clients, Cut(c) PROVE G
  <2>1. CASE Done(c, "leaving")
    BY <2>1, <1>3
  <2>2. CASE conn' = [conn EXCEPT ![c].cut = TRUE]
    <3>1. conn' = [conn EXCEPT ![c] = [conn[c] EXCEPT !.cut = TRUE]]
      BY <2>2
    <3>2. [conn[c] EXCEPT !.cut = TRUE] \in Conns
      BY <1>0 DEF Conns
    <3>3. \A d \in Clients : conn'[d].pc = conn[d].pc /\ conn'[d].size = conn[d].size
      BY <3>1, <1>0 DEF Conns
    <3> QED BY <3>1, <3>2, <3>3
  <2> QED BY <1>8, <2>1, <2>2 DEF Cut
<1>9. ASSUME NEW c \in Clients,
             \/ LocalConnect(c) \/ RemoteEnsure(c) \/ LocalSetup(c) \/ LocalSetupFails(c)
             \/ RemoteRegister(c) \/ SshSpawn(c) \/ SshSpawnFails(c)
             \/ NodeAttachFails(c) \/ NodeAttached(c) \/ AgentAttach(c)
             \/ Forget(c) \/ KillView(c) \/ Leave(c) \/ AgentClose(c)
             \/ Commit(c) \/ NodeSkip(c)
      PROVE  G
  <2>1. PICK p \in Pcs \ (Handling \ {"deliver"}) : Go(c, p)
    BY <1>9 DEF LocalConnect, RemoteEnsure, LocalSetup, LocalSetupFails, RemoteRegister,
                SshSpawn, SshSpawnFails, NodeAttachFails, NodeAttached, AgentAttach,
                Forget, KillView, Leave, AgentClose, Commit, NodeSkip
  <2> QED BY <2>1, <1>2
<1>10. ASSUME NEW c \in Clients, Claim(c) \/ Deny(c) \/ Deliver(c) PROVE G
  <2>1. Done(c, "idle") \/ Done(c, "leaving")
    BY <1>10 DEF Claim, Deny, Deliver
  <2> QED BY <2>1, <1>3
<1>11. ASSUME NEW c \in Clients, Admit(c) PROVE G
  <2>1. conn[c].size \in Sizes \cup {NoSize}
    BY <1>0 DEF Conns
  <2>2. CASE conn[c].size = NoSize
    BY <1>11, <2>2, <1>2 DEF Admit
  <2>3. CASE conn[c].size # NoSize
    BY <1>11, <2>1, <2>3, <1>2 DEF Admit
  <2> QED BY <2>2, <2>3
<1>12. ASSUME NEW c \in Clients,
              \/ Begin(c) \/ Synced(c) \/ GridSized(c) \/ GridNotSized(c) \/ Applied(c)
              \/ Frozen(c) \/ BootDemoted(c) \/ NodeAsk(c) \/ NodeApplied(c)
       PROVE  G
  <2>1. conn[c].size \in Sizes
    BY <1>12 DEF Begin, Synced, GridSized, GridNotSized, Applied, Frozen, BootDemoted, NodeAsk,
                 NodeApplied
  <2>2. Done(c, "leaving") \/ \E p \in Handling : Go(c, p)
    BY <1>12 DEF Begin, Synced, GridSized, GridNotSized, Applied, Frozen, BootDemoted, NodeAsk,
                 NodeApplied, Fail, GiveUp
  <2> QED BY <2>1, <2>2, <1>2, <1>3
<1>13. CASE OpenPage \/ TmuxDies \/ Lates
  BY <1>13, <1>1, LateSteps DEF OpenPage, TmuxDies
<1>14. ASSUME NEW c \in Clients,
              \/ RoleOn(c) \/ Promote(c) \/ Recheck(c) \/ RoleOff(c) \/ Freeze(c)
              \/ AgentRefuses(c) \/ AgentRole(c) \/ AgentMark(c)
              \/ AgentSized(c) \/ AgentNotSized(c) \/ AgentBoot(c)
       PROVE  G
  <2>1. UNCHANGED conn
    BY <1>14 DEF RoleOn, Promote, Recheck, RoleOff, Freeze, AgentRefuses, AgentRole, AgentMark,
                 AgentSized, AgentNotSized, AgentBoot
  <2> QED BY <2>1, <1>1
<1> HIDE DEF BridgeTypes
<1> QED BY <1>4, <1>5, <1>6, <1>7, <1>8, <1>9, <1>10, <1>11, <1>12, <1>13, <1>14, BridgeSteps
     DEF Attends, Adjusts, Serves

\* Every job, answer and request keeps its type; faults are only used up.
LEMMA WorkTypeStep ==
  ASSUME BridgeTypes, BridgeNext
  PROVE  /\ job' \in [Clients -> {"none"} \cup CoreJobs \cup AgentJobs]
         /\ out' \in [Clients -> {"none", "ok", "failed", "retry", "raised", "closed"}]
         /\ want' \in [Clients -> {"on", "boot", "off"}]
         /\ left' \in [frames : Nat, faults : 0 .. MaxFaults]
<1> USE DEF BridgeTypes, BridgeTypeOK, work, roles, streams, tmux, CoreJobs, AgentJobs
<1> DEFINE J == job' \in [Clients -> {"none"} \cup CoreJobs \cup AgentJobs]
           O == out' \in [Clients -> {"none", "ok", "failed", "retry", "raised", "closed"}]
           W == want' \in [Clients -> {"on", "boot", "off"}]
           L == left' \in [frames : Nat, faults : 0 .. MaxFaults]
<1>1. UNCHANGED left => L
  OBVIOUS
<1>2. Fault => L
  BY FrameAssumption DEF Fault
<1>3. UNCHANGED work => J /\ O /\ W
  OBVIOUS
<1>4. ASSUME NEW c \in Clients, NEW j \in CoreJobs \cup AgentJobs, Start(c, j) PROVE J /\ O
  BY <1>4 DEF Start
<1>5. ASSUME NEW c \in Clients, NEW o \in {"ok", "failed", "retry", "raised", "closed"},
             Return(c, o)
      PROVE  J /\ O
  BY <1>5 DEF Return
<1>6. ASSUME NEW c \in Clients, NEW j \in CoreJobs \cup AgentJobs, job' = [job EXCEPT ![c] = j],
             UNCHANGED out
      PROVE  J /\ O
  BY <1>6
<1>7. ASSUME NEW c \in Clients, NEW f \in Frames, NEW s \in Sizes \cup {NoSize}, Receive(c, f, s)
      PROVE  J /\ O /\ W /\ L
  BY <1>7, FrameAssumption DEF Receive
<1>8. CASE OpenPage \/ TmuxDies \/ Lates
  BY <1>8, <1>1, <1>2, LateSteps DEF OpenPage, TmuxDies
<1>9. ASSUME NEW c \in Clients,
             \/ LocalConnect(c) \/ RemoteEnsure(c) \/ LocalSetup(c) \/ LocalSetupFails(c)
             \/ RemoteRegister(c) \/ SshSpawn(c) \/ SshSpawnFails(c)
             \/ NodeAttachFails(c) \/ NodeAttached(c) \/ AgentAttach(c) \/ Cut(c)
             \/ Claim(c) \/ Deny(c) \/ Admit(c) \/ Deliver(c)
             \/ Forget(c) \/ KillView(c) \/ Leave(c) \/ AgentClose(c)
      PROVE  J /\ O /\ W /\ L
  <2>1. UNCHANGED work
    BY <1>9 DEF LocalConnect, RemoteEnsure, LocalSetup, LocalSetupFails, RemoteRegister,
                SshSpawn, SshSpawnFails, NodeAttachFails, NodeAttached, AgentAttach, Cut,
                Claim, Deny, Admit, Deliver, Forget, KillView, Leave, AgentClose
  <2>2. UNCHANGED left \/ Fault
    BY <1>9 DEF LocalConnect, RemoteEnsure, LocalSetup, LocalSetupFails, RemoteRegister,
                SshSpawn, SshSpawnFails, NodeAttachFails, NodeAttached, AgentAttach, Cut,
                Claim, Deny, Admit, Deliver, Forget, KillView, Leave, AgentClose, Breaks, CallFails
  <2> QED BY <2>1, <2>2, <1>1, <1>2, <1>3
<1>10. ASSUME NEW c \in Clients,
              \/ Synced(c) \/ SetSize(c) \/ GridSized(c) \/ GridNotSized(c) \/ Commit(c)
              \/ NodeSkip(c) \/ NodeApplied(c) \/ NodeDemoted(c)
       PROVE  J /\ O /\ W /\ L
  <2>1. UNCHANGED work
    BY <1>10 DEF Synced, SetSize, GridSized, GridNotSized, Commit, NodeSkip, NodeApplied,
                 NodeDemoted, Fail, GiveUp
  <2>2. UNCHANGED left \/ Fault
    BY <1>10 DEF Synced, SetSize, GridSized, GridNotSized, Commit, NodeSkip, NodeApplied,
                 NodeDemoted, Fail, GiveUp, Breaks, CallFails
  <2> QED BY <2>1, <2>2, <1>1, <1>2, <1>3
<1>11. ASSUME NEW c \in Clients,
              Begin(c) \/ Applied(c) \/ Frozen(c) \/ BootDemoted(c)
       PROVE  J /\ O /\ W /\ L
  <2>1. UNCHANGED left /\ UNCHANGED want
    BY <1>11 DEF Begin, Applied, Frozen, BootDemoted, Fail
  <2>2. \/ UNCHANGED work
        \/ \E j \in {"on", "off", "freeze"} : Start(c, j)
    BY <1>11, <2>1 DEF Begin, Applied, Frozen, BootDemoted, Fail
  <2> QED BY <2>1, <2>2, <1>1, <1>3, <1>4
<1>12. ASSUME NEW c \in Clients, NodeAsk(c) PROVE J /\ O /\ W /\ L
  <2>1. W
    BY <1>12 DEF NodeAsk
  <2>2. Start(c, "asked") /\ UNCHANGED left
    BY <1>12 DEF NodeAsk
  <2> QED BY <2>1, <2>2, <1>1, <1>4
<1>13. ASSUME NEW c \in Clients, NodeAnswered(c) PROVE J /\ O /\ W /\ L
  <2>1. UNCHANGED left
    BY <1>13 DEF NodeAnswered, GiveUp
  <2>2. UNCHANGED work \/ (Start(c, "asked") /\ want' = [want EXCEPT ![c] = "off"])
    BY <1>13 DEF NodeAnswered, Fail, GiveUp
  <2>3. Start(c, "asked") /\ want' = [want EXCEPT ![c] = "off"] => J /\ O /\ W
    BY <1>4
  <2> QED BY <2>1, <2>2, <2>3, <1>1, <1>3
<1>14. ASSUME NEW c \in Clients,
              \/ RoleOn(c) \/ Promote(c) \/ Recheck(c) \/ RoleOff(c) \/ Freeze(c)
              \/ AgentRefuses(c) \/ AgentRole(c) \/ AgentMark(c)
              \/ AgentSized(c) \/ AgentNotSized(c) \/ AgentBoot(c)
       PROVE  J /\ O /\ W /\ L
  <2>1. UNCHANGED want
    BY <1>14 DEF RoleOn, Promote, Recheck, RoleOff, Freeze, AgentRefuses, AgentRole, AgentMark,
                 AgentSized, AgentNotSized, AgentBoot
  <2>2. UNCHANGED left \/ Fault
    BY <1>14 DEF RoleOn, Promote, Recheck, RoleOff, Freeze, AgentRefuses, AgentRole, AgentMark,
                 AgentSized, AgentNotSized, AgentBoot, Breaks, CallFails
  <2>3. \/ \E o \in {"ok", "failed", "retry", "raised", "closed"} : Return(c, o)
        \/ \E j \in {"promote", "recheck", "marked", "sizing", "boot"} :
             job' = [job EXCEPT ![c] = j] /\ UNCHANGED out
    BY <1>14 DEF RoleOn, Promote, Recheck, RoleOff, Freeze, AgentRefuses, AgentRole, AgentMark,
                 AgentSized, AgentNotSized, AgentBoot
  <2> QED BY <2>1, <2>2, <2>3, <1>1, <1>2, <1>5, <1>6
<1> HIDE DEF BridgeTypes
<1> QED BY <1>7, <1>8, <1>9, <1>10, <1>11, <1>12, <1>13, <1>14, BridgeSteps DEF Attends,
     Adjusts, Serves

\* Every other variable keeps its type, and views that size the window exist.
LEMMA PlainTypeStep ==
  ASSUME BridgeTypes, BridgeNext
  PROVE  /\ backend' = backend
         /\ lock' \in Clients \cup {NoClient}
         /\ owner' \in Clients \cup {NoClient} /\ gridLock' \in Clients \cup {NoClient}
         /\ consume' \subseteq Clients /\ views' \subseteq Clients /\ sizers' \subseteq views'
         /\ strays' \subseteq sizers'
         /\ fresh' \in BOOLEAN /\ alive' \in BOOLEAN /\ frozen' \in BOOLEAN
         /\ active' \in [Clients -> BOOLEAN] /\ closed' \in [Clients -> BOOLEAN]
<1> USE DEF BridgeTypes, BridgeTypeOK, work, roles, streams, tmux
<1> DEFINE P == /\ backend' = backend
                /\ lock' \in Clients \cup {NoClient}
                /\ owner' \in Clients \cup {NoClient} /\ gridLock' \in Clients \cup {NoClient}
                /\ consume' \subseteq Clients /\ views' \subseteq Clients
                /\ sizers' \subseteq views' /\ strays' \subseteq sizers'
                /\ fresh' \in BOOLEAN /\ alive' \in BOOLEAN /\ frozen' \in BOOLEAN
                /\ active' \in [Clients -> BOOLEAN] /\ closed' \in [Clients -> BOOLEAN]
<1>0. CASE Lates
  <2>1. PICK c \in Clients : LatePeer(c) \/ LateOn(c) \/ LateOff(c) \/ LateFreeze(c)
    BY <1>0 DEF Lates, LateScripts
  <2>2. frozen' \in BOOLEAN
    <3>1. (frozen \/ alive) \in BOOLEAN /\ FALSE \in BOOLEAN
      OBVIOUS
    <3> QED BY <2>1, <3>1 DEF LatePeer, LateOn, LateOff, LateFreeze, Demoted
  <2>3. sizers' \subseteq views /\ strays' \subseteq sizers'
    BY <2>1 DEF LatePeer, LateOn, LateOff, LateFreeze, Demoted
  <2> QED BY <1>0, <2>2, <2>3, LateSteps
<1>1. CASE OpenPage \/ TmuxDies
  <2>1. frozen' \in BOOLEAN /\ alive' \in BOOLEAN /\ fresh' \in BOOLEAN
    BY <1>1, Zenon DEF OpenPage, TmuxDies, LocalEnsure, SshEnsure, NodeEnsure, EnsureOnCore
  <2> QED BY <1>1, <2>1 DEF OpenPage, TmuxDies, LocalEnsure, SshEnsure, NodeEnsure,
                            EnsureOnCore
<1>2. ASSUME NEW c \in Clients, NEW f \in Frames, NEW s \in Sizes \cup {NoSize}, Receive(c, f, s)
      PROVE  P
  BY <1>2 DEF Receive
<1>3. ASSUME NEW c \in Clients,
             RemoteEnsure(c) \/ LocalSetup(c) \/ AgentAttach(c)
      PROVE  P
  <2>1. frozen' \in BOOLEAN /\ alive' \in BOOLEAN /\ fresh' \in BOOLEAN
    <3>1. (frozen /\ alive) \in BOOLEAN /\ (fresh \/ ~alive) \in BOOLEAN /\ TRUE \in BOOLEAN
      OBVIOUS
    <3> QED BY <1>3, <3>1 DEF RemoteEnsure, LocalSetup, AgentAttach, LocalEnsure, SshEnsure,
                              NodeEnsure, EnsureOnCore
  <2>2. consume' \subseteq Clients
    BY <1>3 DEF RemoteEnsure, LocalSetup, AgentAttach
  <2> QED BY <1>3, <2>1, <2>2 DEF RemoteEnsure, LocalSetup, AgentAttach, AttachView,
                                  LocalEnsure,
                                  SshEnsure, NodeEnsure, EnsureOnCore
<1>4. ASSUME NEW c \in Clients,
             \/ LocalConnect(c) \/ LocalSetupFails(c) \/ RemoteRegister(c)
             \/ SshSpawn(c) \/ SshSpawnFails(c) \/ NodeAttachFails(c) \/ NodeAttached(c)
             \/ Claim(c) \/ Deny(c) \/ Admit(c) \/ Deliver(c) \/ Leave(c) \/ Cut(c)
      PROVE  P
  BY <1>4 DEF LocalConnect, LocalSetupFails, RemoteRegister, SshSpawn, SshSpawnFails,
              AttachView,
              NodeAttachFails, NodeAttached, Claim, Deny, Admit, Deliver, Leave, Cut
<1>5. ASSUME NEW c \in Clients,
             \/ Begin(c) \/ Synced(c) \/ SetSize(c) \/ GridSized(c) \/ GridNotSized(c)
             \/ Applied(c) \/ Frozen(c) \/ BootDemoted(c) \/ Commit(c)
             \/ NodeSkip(c) \/ NodeAsk(c) \/ NodeApplied(c) \/ NodeAnswered(c) \/ NodeDemoted(c)
      PROVE  P
  BY <1>5 DEF Begin, Synced, SetSize, GridSized, GridNotSized, Applied, Frozen, BootDemoted,
              Commit, NodeSkip, NodeAsk, NodeApplied, NodeAnswered, NodeDemoted, Fail, GiveUp
<1>6. ASSUME NEW c \in Clients, PromotedPartly(c) PROVE sizers' \subseteq sizers \cup ({c} \cap views)
  BY <1>6 DEF PromotedPartly
<1>7. ASSUME NEW c \in Clients,
             RoleOn(c) \/ Promote(c) \/ Recheck(c) \/ RoleOff(c)
      PROVE  P
  BY <1>6, <1>7 DEF RoleOn, Promote, Recheck, RoleOff, Promoted, PromotedPartly, Demoted,
                    Release
<1>8. ASSUME NEW c \in Clients, Freeze(c) \/ Forget(c) \/ KillView(c) \/ AgentClose(c) PROVE P
  <2>1. frozen' \in BOOLEAN
    <3>1. (frozen \/ (active[c] /\ c \in sizers)) \in BOOLEAN /\ TRUE \in BOOLEAN
      OBVIOUS
    <3> QED BY <1>8, <3>1 DEF Freeze, Forget, KillView, AgentClose
  <2> QED BY <1>8, <2>1 DEF Freeze, Forget, KillView, AgentClose
<1>9. ASSUME NEW c \in Clients, AgentRefuses(c) \/ AgentRole(c) PROVE P
  BY <1>6, <1>9 DEF AgentRefuses, AgentRole, Promoted, PromotedPartly, Demoted
<1>10. ASSUME NEW c \in Clients, AgentMark(c) PROVE P
  <2>1. active' \in [Clients -> BOOLEAN]
    <3>1. (want[c] # "off") \in BOOLEAN
      OBVIOUS
    <3> QED BY <1>10, <3>1 DEF AgentMark
  <2> QED BY <1>10, <2>1 DEF AgentMark
<1>11. ASSUME NEW c \in Clients, AgentSized(c) PROVE P
  <2>1. fresh' \in BOOLEAN
    <3>1. (fresh /\ c \notin consume) \in BOOLEAN
      OBVIOUS
    <3> QED BY <1>11, <3>1 DEF AgentSized
  <2> QED BY <1>11, <2>1 DEF AgentSized
<1>12. ASSUME NEW c \in Clients, AgentNotSized(c) \/ AgentBoot(c) PROVE P
  <2>1. frozen' \in BOOLEAN
    <3>1. (frozen \/ c \in sizers) \in BOOLEAN
      OBVIOUS
    <3> QED BY <1>12, <3>1 DEF AgentNotSized, AgentBoot, Demoted
  <2>2. active' \in [Clients -> BOOLEAN] /\ closed' \in [Clients -> BOOLEAN]
    BY <1>12 DEF AgentNotSized, AgentBoot
  <2> QED BY <1>12, <2>1, <2>2 DEF AgentNotSized, AgentBoot, Demoted
<1> HIDE DEF BridgeTypes
<1> QED BY <1>0, <1>1, <1>2, <1>3, <1>4, <1>5, <1>7, <1>8, <1>9, <1>10, <1>11, <1>12, BridgeSteps
     DEF Attends, Adjusts, Serves

\* A fault pays for every script that is given up.
LEMMA LateStep ==
  ASSUME BridgeTypes, [BridgeNext]_all
  PROVE  /\ late' \in [Clients -> [Scripts -> Nat]]
         /\ LateBounded'
<1> USE DEF tmux, LateBounded
<1>1. /\ late \in [Clients -> [Scripts -> 0 .. MaxFaults]] /\ MaxFaults \in Nat
      /\ left \in [frames : Nat, faults : 0 .. MaxFaults] /\ LateBounded
  BY FrameAssumption DEF BridgeTypes, BridgeTypeOK
<1> DEFINE Q == late' \in [Clients -> [Scripts -> Nat]] /\ LateBounded'
<1>2. ASSUME UNCHANGED late, UNCHANGED left \/ Fault \/ left' = [left EXCEPT !.frames = @ - 1]
      PROVE  Q
  BY <1>1, <1>2 DEF Fault
<1>3. ASSUME NEW c \in Clients, NEW s \in Scripts, Fault, late' = [late EXCEPT ![c][s] = @ + 1]
      PROVE  Q
  BY <1>1, <1>3 DEF Fault
<1>4. ASSUME NEW c \in Clients, NEW s \in Scripts, NEW u \in BOOLEAN, CallFails(c, s, u)
      PROVE  Q
  BY <1>2, <1>3, <1>4 DEF CallFails, Breaks
<1> HIDE DEF Q
<1>5. CASE OpenPage \/ TmuxDies
  <2>1. UNCHANGED late /\ (UNCHANGED left \/ Fault)
    BY <1>5 DEF OpenPage, TmuxDies
  <2> QED BY <1>2, <2>1 DEF Q
<1>6. ASSUME NEW c \in Clients, LateScripts(c) PROVE Q
  <2>1. \A s \in Scripts : late[c][s] \in Nat
    BY <1>1
  <2>2. PICK s \in Scripts : late[c][s] > 0 /\ (UNCHANGED late \/ late' = [late EXCEPT ![c][s] = @ - 1])
    BY <1>6 DEF LateScripts, LatePeer, LateOn, LateOff, LateFreeze, ScriptEnds, Scripts
  <2>3. UNCHANGED left
    BY <1>6 DEF LateScripts, LatePeer, LateOn, LateOff, LateFreeze
  <2>4. CASE UNCHANGED late
    BY <1>2, <2>3, <2>4
  <2>5. CASE late' = [late EXCEPT ![c][s] = @ - 1]
    <3>1. late[c][s] - 1 \in Nat
      BY <2>1, <2>2
    <3>2. late' \in [Clients -> [Scripts -> Nat]]
      BY <1>1, <2>5, <3>1
    <3>3. LateBounded'
      BY <1>1, <2>1, <2>3, <2>5, <3>1
    <3> QED BY <3>2, <3>3 DEF Q
  <2> QED BY <2>2, <2>4, <2>5
<1>7. ASSUME NEW c \in Clients, NEW f \in Frames, NEW s \in Sizes \cup {NoSize}, Receive(c, f, s)
      PROVE  Q
  BY <1>2, <1>7 DEF Receive
<1>8. ASSUME NEW c \in Clients, Attends(c) PROVE Q
  <2>1. CASE Forget(c)
    BY <1>2, <1>4, <2>1 DEF Forget, Scripts
  <2>2. CASE ~Forget(c)
    BY <1>2, <1>8, <2>2
       DEF Attends, LocalConnect, RemoteEnsure, LocalSetup, LocalSetupFails, RemoteRegister,
           SshSpawn, SshSpawnFails, NodeAttachFails, NodeAttached, AgentAttach, Cut,
           Claim, Deny, Admit, Deliver, KillView, Leave, AgentClose, Breaks
  <2> QED BY <2>1, <2>2
<1>9. ASSUME NEW c \in Clients, Adjusts(c) PROVE Q
  BY <1>2, <1>9
     DEF Adjusts, Begin, Synced, SetSize, GridSized, GridNotSized, Applied, Frozen,
         BootDemoted,
         Commit, NodeSkip, NodeAsk, NodeApplied, NodeAnswered, NodeDemoted, Fail, GiveUp, Breaks
<1>10. ASSUME NEW c \in Clients, Serves(c) PROVE Q
  <2>2. CASE RoleOn(c)
    BY <1>2, <1>4, <2>2 DEF RoleOn, Demoted, Scripts
  <2>3. CASE Promote(c)
    BY <1>2, <1>4, <2>3 DEF Promote, Promoted, Scripts
  <2>4. CASE Recheck(c) \/ RoleOff(c)
    BY <1>2, <1>4, <2>4 DEF Recheck, RoleOff, Demoted, Scripts
  <2>5. CASE Freeze(c)
    BY <1>2, <1>4, <2>5 DEF Freeze, Scripts
  <2>6. CASE AgentRefuses(c) \/ AgentRole(c) \/ AgentMark(c)
    BY <1>2, <2>6 DEF AgentRefuses, AgentRole, AgentMark, Promoted, Demoted, Breaks
  <2>7. CASE AgentSized(c) \/ AgentNotSized(c) \/ AgentBoot(c)
    BY <1>2, <2>7 DEF AgentSized, AgentNotSized, AgentBoot, Demoted, Breaks
  <2> QED BY <1>10, <2>2, <2>3, <2>4, <2>5, <2>6, <2>7 DEF Serves
<1>11. CASE UNCHANGED all
  <2>1. UNCHANGED late /\ UNCHANGED left
    BY <1>11 DEF all, bvars
  <2> QED BY <1>2, <2>1 DEF Q
<1> QED BY <1>5, <1>6, <1>7, <1>8, <1>9, <1>10, <1>11, BridgeSteps DEF Lates, Q

\* Every step keeps the types.
LEMMA BridgeTypeStep ==
  ASSUME BridgeTypes, [BridgeNext]_all
  PROVE  BridgeTypes'
<1>1. CASE BridgeNext
  <2>1. TypeOK'
    BY <1>1, RegistrySteps, TypeStep DEF BridgeTypes, BridgeTypeOK
  <2>2. backend' \in Backends
    BY <1>1, PlainTypeStep DEF BridgeTypes, BridgeTypeOK
  <2>3. \A c \in Clients : /\ conn'[c].frame \in Frames
                           /\ conn'[c].size \in Sizes \cup {NoSize}
                           /\ conn'[c].view \in Sizes \cup {NoSize}
    BY <1>1, ConnTypeStep DEF Conns
  <2>4. late' \in [Clients -> [Scripts -> 0 .. MaxFaults]] /\ LateBounded'
    BY <1>1, LateStep, WorkTypeStep, FrameAssumption DEF LateBounded
  <2> QED BY <1>1, <2>1, <2>2, <2>3, <2>4, ConnTypeStep, WorkTypeStep, PlainTypeStep
          DEF BridgeTypes, BridgeTypeOK
<1>2. CASE UNCHANGED all
  BY <1>2 DEF all, bvars, vars, control, boot, resize, history, work, roles, streams, tmux,
              BridgeTypes, BridgeTypeOK, TypeOK, Frames, Conns,
              Plans, Resizes, tmux, LateBounded
<1> QED BY <1>1, <1>2

\* The first state has the types.
LEMMA BridgeTypeInit == ASSUME BridgeInit PROVE BridgeTypes
<1>1. TypeOK
  <2>1. /\ bootPending \in BOOLEAN /\ bootApplied \in BOOLEAN /\ planApplied \in BOOLEAN
    BY DEF BridgeInit, Init
  <2> QED BY <2>1 DEF BridgeInit, Init, TypeOK
<1>2. /\ fresh \in BOOLEAN /\ alive \in BOOLEAN /\ frozen \in BOOLEAN
      /\ active \in [Clients -> BOOLEAN] /\ closed \in [Clients -> BOOLEAN]
  BY DEF BridgeInit
<1>3. left \in [frames : Nat, faults : 0 .. MaxFaults]
  BY FrameAssumption DEF BridgeInit
<1>4. Idle \in Conns
  BY DEF Idle, Conns, Pcs, Frames
<1>5. late \in [Clients -> [Scripts -> 0 .. MaxFaults]] /\ LateBounded /\ strays = {}
  BY FrameAssumption DEF BridgeInit, LateBounded
<1> QED BY <1>1, <1>2, <1>3, <1>4, <1>5
        DEF BridgeInit, BridgeTypes, BridgeTypeOK, Idle, Frames, Handling, Waiting

-----------------------------------------------------------------------------
(* Bridges, jobs and the input lock *)

\* Each backend keeps to its own bridge and jobs.
LEMMA PlacedStep ==
  ASSUME BridgeTypes, Placed, BridgeNext
  PROVE  Placed'
<1> USE DEF Placed, CoreJobs, AgentJobs, work, roles, streams, tmux
<1>1. /\ conn \in [Clients -> Conns] /\ backend' = backend /\ backend \in {"local", "ssh", "node"}
      /\ job \in [Clients -> {"none"} \cup CoreJobs \cup AgentJobs]
  BY PlainTypeStep, BackendAssumption DEF BridgeTypes, BridgeTypeOK
<1>2. OnCore' = OnCore /\ (OnCore <=> backend # "node")
  BY <1>1 DEF OnCore
<1> DEFINE At(c) == /\ conn'[c].pc \in {"attach", "attached", "ask", "answer", "answered",
                                        "demoting", "closing"} => backend = "node"
                    /\ conn'[c].pc \in {"setup", "spawn", "role", "size", "wait", "applied",
                                        "freeze", "boot_off", "commit", "unregister"} => OnCore
                    /\ conn'[c].pc = "ensured" => backend # "local"
           Its(c) == /\ job'[c] \in CoreJobs => OnCore
                     /\ job'[c] \in AgentJobs => backend = "node"
           OnlyHere(c) == \A d \in Clients : d # c => conn'[d] = conn[d] /\ job'[d] = job[d]
<1>3. ASSUME NEW c \in Clients, OnlyHere(c), At(c), Its(c) PROVE Placed'
  BY <1>1, <1>2, <1>3
<1> HIDE DEF At, Its, OnlyHere
<1>4. CASE OpenPage \/ TmuxDies \/ Lates
  BY <1>1, <1>2, <1>4, LateSteps DEF OpenPage, TmuxDies
<1>5. ASSUME NEW c \in Clients, NEW f \in Frames, NEW s \in Sizes \cup {NoSize}, Receive(c, f, s)
      PROVE  Placed'
  <2>1. OnlyHere(c) /\ At(c) /\ Its(c)
    BY <1>1, <1>5 DEF Receive, Conns, At, Its, OnlyHere
  <2> QED BY <1>3, <2>1
<1>6. ASSUME NEW c \in Clients, Attends(c)
      PROVE  Placed'
  <2>1. OnlyHere(c) /\ At(c) /\ Its(c)
    BY <1>1, <1>2, <1>6
       DEF Attends, LocalConnect, RemoteEnsure, LocalSetup, LocalSetupFails, RemoteRegister,
                SshSpawn, SshSpawnFails, NodeAttachFails, NodeAttached, AgentAttach, Cut,
                Claim, Deny, Admit, Deliver, Forget, KillView, Leave, AgentClose, Go, Done,
                LocalEnsure, SshEnsure, NodeEnsure, Conns, At, Its, OnlyHere
  <2> QED BY <1>3, <2>1
<1>7. ASSUME NEW c \in Clients, Adjusts(c)
      PROVE  Placed'
  <2>1. OnlyHere(c) /\ At(c) /\ Its(c)
    BY <1>1, <1>2, <1>7
       DEF Adjusts, Begin, Synced, SetSize, GridSized, GridNotSized, Applied, Frozen,
           BootDemoted,
           Commit, NodeSkip, NodeAsk, NodeApplied, NodeAnswered, NodeDemoted, Fail, GiveUp,
           Go, Done, Start, Conns, At, Its, OnlyHere
  <2> QED BY <1>3, <2>1
<1>8. ASSUME NEW c \in Clients, Serves(c)
      PROVE  Placed'
  <2>1. OnlyHere(c) /\ At(c) /\ Its(c)
    BY <1>1, <1>2, <1>8
       DEF Serves, RoleOn, Promote, Recheck, RoleOff, Freeze, AgentRefuses, AgentRole,
           AgentMark,
           AgentSized, AgentNotSized, AgentBoot, Return, At, Its, OnlyHere
  <2> QED BY <1>3, <2>1
<1> QED BY <1>4, <1>5, <1>6, <1>7, <1>8, BridgeSteps

\* A job works for a bridge that waits for it or has ended.
LEMMA WorkingStep ==
  ASSUME BridgeTypes, Placed, Working, BridgeNext
  PROVE  Working'
<1> USE DEF Working, Waiting, Ended, work, roles, streams, tmux
<1>1. /\ conn \in [Clients -> Conns]
      /\ job \in [Clients -> {"none"} \cup CoreJobs \cup AgentJobs]
  BY DEF BridgeTypes
<1> DEFINE Fits(c) == job'[c] # "none" => conn'[c].pc \in Ended \cup (Waiting \ {"wait"})
           OnlyHere(c) == \A d \in Clients : d # c => conn'[d] = conn[d] /\ job'[d] = job[d]
<1>3. ASSUME NEW c \in Clients, OnlyHere(c), Fits(c) PROVE Working'
  BY <1>1, <1>3
<1> HIDE DEF Fits, OnlyHere
<1>4. CASE OpenPage \/ TmuxDies \/ Lates
  BY <1>1, <1>4, LateSteps DEF OpenPage, TmuxDies
<1>5. ASSUME NEW c \in Clients, NEW f \in Frames, NEW s \in Sizes \cup {NoSize}, Receive(c, f, s)
      PROVE  Working'
  <2>1. OnlyHere(c) /\ Fits(c)
    BY <1>1, <1>5 DEF Receive, Conns, Fits, OnlyHere
  <2> QED BY <1>3, <2>1
<1>6. ASSUME NEW c \in Clients, Attends(c)
      PROVE  Working'
  <2>1. OnlyHere(c) /\ Fits(c)
    BY <1>1, <1>6
       DEF Attends, LocalConnect, RemoteEnsure, LocalSetup, LocalSetupFails, RemoteRegister,
                SshSpawn, SshSpawnFails, NodeAttachFails, NodeAttached, AgentAttach, Cut,
                Claim, Deny, Admit, Deliver, Forget, KillView, Leave, AgentClose, Go, Done,
                Conns, Fits, OnlyHere
  <2> QED BY <1>3, <2>1
<1>7. ASSUME NEW c \in Clients, Adjusts(c)
      PROVE  Working'
  <2>1. OnlyHere(c) /\ Fits(c)
    BY <1>1, <1>7
       DEF Adjusts, Begin, Synced, SetSize, GridSized, GridNotSized, Applied, Frozen,
           BootDemoted,
           Commit, NodeSkip, NodeAsk, NodeApplied, NodeAnswered, NodeDemoted, Fail, GiveUp,
           Go, Done, Start, Conns, Fits, OnlyHere
  <2> QED BY <1>3, <2>1
<1>8. ASSUME NEW c \in Clients, Serves(c)
      PROVE  Working'
  <2>1. OnlyHere(c) /\ Fits(c)
    BY <1>1, <1>8
       DEF Serves, RoleOn, Promote, Recheck, RoleOff, Freeze, AgentRefuses, AgentRole,
           AgentMark,
           AgentSized, AgentNotSized, AgentBoot, Return, Fits, OnlyHere
  <2> QED BY <1>3, <2>1
<1> QED BY <1>4, <1>5, <1>6, <1>7, <1>8, BridgeSteps

\* A frame is handled under the input lock, and input by the controller: nobody
\* takes control, and no controller leaves, while its input is handled.
LEMMA LockedStep ==
  ASSUME BridgeTypes, OwnersConnected, Placed, Locked, BridgeNext
  PROVE  Locked'
<1> USE DEF Locked, Handling, Waiting, work, roles, streams, tmux, vars, control, boot, resize,
            history
<1>1. /\ conn \in [Clients -> Conns] /\ lock \in Clients \cup {NoClient} /\ NoClient \notin Clients
      /\ controller \in Clients \cup {NoClient} /\ clients \in Seq(Clients)
      /\ NoPlan \notin Plans /\ NoResize \notin Resizes
  BY ClientAssumption DEF BridgeTypes, BridgeTypeOK, TypeOK, Plans, Resizes
<1>2. clients = <<>> => controller = NoClient
  BY DEF OwnersConnected, Connected, Range
<1> DEFINE OnlyHere(c) == \A d \in Clients : d # c => conn'[d] = conn[d]
<1>3. ASSUME NEW c \in Clients, OnlyHere(c),
             conn'[c].pc \in Handling <=> lock' = c,
             lock' = c /\ IsInput(conn'[c].frame) => controller' = c,
             \A d \in Clients : d # c => (lock' = d <=> lock = d)
                                         /\ (controller = d /\ lock = d => controller' = d)
      PROVE  Locked'
  BY <1>1, <1>3
<1>4. CASE OpenPage \/ TmuxDies \/ Lates
  BY <1>1, <1>4, LateSteps DEF OpenPage, TmuxDies, LocalEnsure, SshEnsure, NodeEnsure, EnsureOnCore,
                    MarkGridFresh
<1>5. ASSUME NEW c \in Clients, NEW f \in Frames, NEW s \in Sizes \cup {NoSize}, Receive(c, f, s)
      PROVE  Locked'
  BY <1>1, <1>5 DEF Receive, Conns
<1>6. ASSUME NEW c \in Clients,
             \/ LocalSetup(c) \/ LocalSetupFails(c) \/ RemoteEnsure(c) \/ SshSpawn(c)
             \/ NodeAttachFails(c) \/ NodeAttached(c) \/ AgentAttach(c)
             \/ Forget(c) \/ KillView(c) \/ AgentClose(c)
      PROVE  Locked'
  <2>1. /\ OnlyHere(c) /\ conn[c].pc \notin Handling /\ conn'[c].pc \notin Handling
        /\ lock' = lock
    BY <1>1, <1>6
       DEF LocalSetup, LocalSetupFails, RemoteEnsure, SshSpawn, NodeAttachFails, NodeAttached,
           AgentAttach, Forget, KillView, AgentClose, Go, Conns
  <2>2. controller' = controller
    BY <1>6
       DEF LocalSetup, LocalSetupFails, RemoteEnsure, SshSpawn, NodeAttachFails, NodeAttached,
           AgentAttach, Forget, KillView, AgentClose, LocalEnsure, SshEnsure, NodeEnsure,
           EnsureOnCore, MarkGridFresh, MarkGridExisting
  <2> QED BY <1>1, <2>1, <2>2
<1>7. ASSUME NEW c \in Clients, LocalConnect(c) \/ RemoteRegister(c) PROVE Locked'
  <2>1. /\ OnlyHere(c) /\ conn[c].pc \notin Handling /\ conn'[c].pc \notin Handling
        /\ lock' = lock /\ (controller # NoClient => controller' = controller)
    BY <1>1, <1>2, <1>7 DEF LocalConnect, RemoteRegister, Register, Go, Conns
  <2> QED BY <1>1, <2>1
<1>8. ASSUME NEW c \in Clients, SshSpawnFails(c) \/ Leave(c) PROVE Locked'
  <2>1. /\ OnlyHere(c) /\ conn[c].pc \notin Handling /\ conn'[c].pc \notin Handling
        /\ lock' = lock
    BY <1>1, <1>8 DEF SshSpawnFails, Leave, Go, Conns
  <2>2. controller # c => controller' = controller
    BY <1>8 DEF SshSpawnFails, Leave, Unregister, UnregisterAt
  <2> QED BY <1>1, <2>1, <2>2
<1>9. ASSUME NEW c \in Clients, Claim(c) \/ Deny(c) \/ Admit(c) PROVE Locked'
  <2>1. lock = NoClient /\ OnlyHere(c)
    BY <1>1, <1>9 DEF Claim, Deny, Admit, Go, Done
  <2>2. CASE Claim(c) \/ Deny(c)
    <3>1. lock' = lock /\ conn'[c].pc = "idle"
      BY <1>1, <2>2 DEF Claim, Deny, Done, Conns
    <3> QED BY <1>1, <2>1, <3>1
  <2>3. CASE Admit(c)
    <3>1. lock' = c /\ conn'[c].pc \in {"deliver", "begin"} /\ conn'[c].frame = conn[c].frame
          /\ controller' = controller
      BY <1>1, <2>3 DEF Admit, Go, Conns, MarkInput
    <3> QED BY <1>1, <2>1, <2>3, <3>1 DEF Admit
  <2> QED BY <1>9, <2>2, <2>3
<1>10. ASSUME NEW c \in Clients, Deliver(c) \/ Cut(c) \/ Adjusts(c) PROVE Locked'
  <2>1. controller' = controller
    <3>1. UNCHANGED vars \/ AbortResize \/ CommitResize \/ ResizeApplied
          \/ BeginResize(c, conn[c].size)
      BY <1>10 DEF Deliver, Cut, Adjusts, Begin, Synced, SetSize, GridSized, GridNotSized,
                   Applied,
                   Frozen, BootDemoted, Commit, NodeSkip, NodeAsk, NodeApplied, NodeAnswered,
                   NodeDemoted, Fail, GiveUp
    <3> QED BY <3>1 DEF AbortResize, CommitResize, ResizeApplied, BeginResize
  <2>2. /\ OnlyHere(c)
        /\ \/ /\ conn'[c].pc \in Handling <=> conn[c].pc \in Handling
              /\ conn'[c].frame = conn[c].frame /\ lock' = lock
           \/ conn'[c].pc = "leaving" /\ conn[c].pc \notin Handling /\ lock' = lock
           \/ conn'[c].pc \notin Handling /\ conn[c].pc \in Handling /\ lock' = NoClient
    <3>1. CASE Deliver(c)
      BY <1>1, <3>1 DEF Deliver, Done, Conns
    <3>2. CASE Cut(c)
      <4>1. CASE conn[c].pc \in Waiting \cup {"deliver"} /\ ~Shielded(c)
        BY <1>1, <3>2, <4>1 DEF Cut, Done, Conns
      <4>2. CASE conn[c].pc \in {"idle", "enter"}
        BY <1>1, <3>2, <4>2 DEF Cut, Done, Conns
      <4>3. CASE conn[c].pc \in Waiting \cup {"deliver"} /\ Shielded(c)
        BY <1>1, <3>2, <4>3 DEF Cut, Conns
      <4> QED BY <3>2, <4>1, <4>2, <4>3 DEF Cut
    <3>3. CASE Begin(c) \/ (OnCore /\ (\/ Synced(c) \/ SetSize(c) \/ GridSized(c) \/ GridNotSized(c)
                                       \/ Applied(c) \/ Frozen(c) \/ BootDemoted(c) \/ Commit(c)))
      BY <1>1, <3>3
         DEF Begin, Synced, SetSize, GridSized, GridNotSized, Applied, Frozen, BootDemoted,
             Commit, Fail, GiveUp, Go, Done, Conns
    <3>4. CASE NodeSkip(c) \/ NodeAsk(c) \/ NodeApplied(c) \/ NodeAnswered(c) \/ NodeDemoted(c)
      BY <1>1, <3>4
         DEF NodeSkip, NodeAsk, NodeApplied, NodeAnswered, NodeDemoted, Fail, GiveUp, Go, Done,
             Conns
    <3> QED BY <1>10, <3>1, <3>2, <3>3, <3>4 DEF Adjusts
  <2> QED BY <1>1, <2>1, <2>2
<1>11. ASSUME NEW c \in Clients, Serves(c) PROVE Locked'
  <2>1. UNCHANGED <<conn, lock, controller>>
    BY <1>11
       DEF Serves, RoleOn, Promote, Recheck, RoleOff, Freeze, AgentRefuses, AgentRole,
           AgentMark,
           AgentSized, AgentNotSized, AgentBoot
  <2> QED BY <2>1
<1> QED BY <1>4, <1>5, <1>6, <1>7, <1>8, <1>9, <1>10, <1>11, BridgeSteps DEF Attends

\* The grid lock is held by the one job that gives a view its influence.
LEMMA GridLockedStep ==
  ASSUME BridgeTypes, Working, GridLocked, BridgeNext
  PROVE  GridLocked'
<1> USE DEF GridLocked, work, roles, streams, tmux
<1>1. /\ job \in [Clients -> {"none"} \cup CoreJobs \cup AgentJobs]
      /\ gridLock \in Clients \cup {NoClient} /\ NoClient \notin Clients
  BY ClientAssumption DEF BridgeTypes, BridgeTypeOK
<1>2. ASSUME UNCHANGED <<job, gridLock>> PROVE GridLocked'
  BY <1>2
<1>3. CASE OpenPage \/ TmuxDies \/ Lates
  BY <1>2, <1>3, LateSteps DEF OpenPage, TmuxDies
<1>4. ASSUME NEW c \in Clients, NEW f \in Frames, NEW s \in Sizes \cup {NoSize}, Receive(c, f, s)
      PROVE  GridLocked'
  BY <1>2, <1>4 DEF Receive
<1>5. ASSUME NEW c \in Clients, Attends(c) PROVE GridLocked'
  <2>1. UNCHANGED <<job, gridLock>>
    BY <1>5
       DEF Attends, LocalConnect, RemoteEnsure, LocalSetup, LocalSetupFails, RemoteRegister,
           SshSpawn, SshSpawnFails, NodeAttachFails, NodeAttached, AgentAttach, Cut,
           Claim, Deny, Admit, Deliver, Forget, KillView, Leave, AgentClose
  <2> QED BY <2>1, <1>2
<1>6. ASSUME NEW c \in Clients, Adjusts(c) PROVE GridLocked'
  <2>1. gridLock' = gridLock
    BY <1>6
       DEF Adjusts, Begin, Synced, SetSize, GridSized, GridNotSized, Applied, Frozen,
           BootDemoted,
           Commit, NodeSkip, NodeAsk, NodeApplied, NodeAnswered, NodeDemoted, Fail, GiveUp
  <2>2. job' = job \/ (job[c] = "none" /\ \E j \in {"on", "off", "freeze", "asked"} : Start(c, j))
    BY <1>6
       DEF Adjusts, Begin, Synced, SetSize, GridSized, GridNotSized, Applied, Frozen,
           BootDemoted,
           Commit, NodeSkip, NodeAsk, NodeApplied, NodeAnswered, NodeDemoted, Fail, GiveUp,
           Working, Ended, Waiting
  <2> QED BY <1>1, <2>1, <2>2 DEF Start
<1>7. ASSUME NEW c \in Clients, Serves(c) PROVE GridLocked'
  <2>1. CASE RoleOn(c)
    BY <1>1, <2>1 DEF RoleOn, Return
  <2>2. CASE Promote(c) \/ Recheck(c)
    BY <1>1, <2>2 DEF Promote, Recheck, Return, Release
  <2>3. CASE ~(RoleOn(c) \/ Promote(c) \/ Recheck(c))
    <3>1. /\ gridLock' = gridLock /\ job[c] \notin {"promote", "recheck"}
          /\ \E j \in {"none", "marked", "sizing", "boot"} : job' = [job EXCEPT ![c] = j]
      BY <1>7, <2>3
         DEF Serves, RoleOff, Freeze, AgentRefuses, AgentRole, AgentMark, AgentSized,
             AgentNotSized, AgentBoot, Return
    <3> QED BY <1>1, <3>1
  <2> QED BY <2>1, <2>2, <2>3
<1> QED BY <1>3, <1>4, <1>5, <1>6, <1>7, BridgeSteps

-----------------------------------------------------------------------------
(* The resize plan *)

\* What other connections do to the registry leaves a registered plan what it
\* was: a plan that is current stays current.
LEMMA PlanStands ==
  ASSUME TypeOK, OwnersConnected, plan # NoPlan,
         \/ \E c \in Clients : Register(c)
         \/ \E c \in Clients : c # plan.client /\ Unregister(c)
         \/ MarkGridFresh(NoClient)
         \/ UNCHANGED vars
  PROVE  /\ plan' = plan /\ planApplied' = planApplied
         /\ inputOwner = plan.client => inputOwner' = plan.client
         /\ inputOwner = NoClient /\ bootOwner = plan.client =>
              inputOwner' = NoClient /\ bootOwner' = plan.client
         /\ PlanCurrent => PlanCurrent'
         /\ \A z \in Sizes : applied = [client |-> plan.client, size |-> z] => applied' = applied
<1> USE DEF vars, control, boot, resize, history
<1>1. /\ clients \in Seq(Clients) /\ plan \in Plans /\ plan.client \in Clients
      /\ plan.boot \in BOOLEAN /\ NoClient \notin Clients /\ NoResize \notin Resizes
  BY ClientAssumption DEF TypeOK, Plans, Resizes
<1>2. ASSUME NEW c \in Clients, Register(c)
      PROVE  /\ Connected \subseteq Connected' /\ plan' = plan /\ planApplied' = planApplied
             /\ inputOwner' = inputOwner /\ bootOwner' = bootOwner /\ inputRev' = inputRev
             /\ applied' = applied
  BY <1>1, <1>2, AppendKeeps DEF Register, Connected
<1>3. ASSUME NEW c \in Clients, c # plan.client, Unregister(c)
      PROVE  /\ plan' = plan /\ planApplied' = planApplied /\ inputRev' = inputRev
             /\ plan.client \in Connected => plan.client \in Connected'
             /\ inputOwner = plan.client => inputOwner' = inputOwner
             /\ inputOwner = NoClient => inputOwner' = NoClient
             /\ bootOwner = plan.client => bootOwner' = bootOwner
             /\ \A z \in Sizes :
                  applied = [client |-> plan.client, size |-> z] => applied' = applied
  <2>1. PICK i \in DOMAIN clients : UnregisterAt(c, i)
    BY <1>3 DEF Unregister
  <2>2. plan.client \in Connected => plan.client \in Connected' /\ Without(i) # <<>>
    <3>1. \A x \in Connected : x # c => x \in Range(Without(i))
      BY <1>1, <2>1, RemoveAtKeeps DEF Without, UnregisterAt, Connected
    <3>2. clients' = Without(i) /\ Range(<<>>) = {}
      BY <2>1 DEF UnregisterAt, Range
    <3> QED BY <1>3, <3>1, <3>2 DEF Connected
  <2>3. /\ plan' = plan /\ planApplied' = planApplied /\ inputRev' = inputRev
        /\ inputOwner = NoClient => inputOwner' = NoClient
    BY <2>1 DEF UnregisterAt
  <2>4. CASE plan.client \in Connected
    <3>1. /\ inputOwner = plan.client => inputOwner' = inputOwner
          /\ bootOwner = plan.client => bootOwner' = bootOwner
      BY <1>3, <2>1, <2>2, <2>4 DEF UnregisterAt
    <3>2. ASSUME NEW z \in Sizes, applied = [client |-> plan.client, size |-> z]
          PROVE  applied' = applied
      BY <1>1, <1>3, <2>1, <2>2, <2>4, <3>2 DEF UnregisterAt, Resizes
    <3> QED BY <2>2, <2>3, <2>4, <3>1, <3>2
  <2>5. CASE plan.client \notin Connected
    <3>1. inputOwner # plan.client /\ bootOwner # plan.client
      BY <1>1, <2>5 DEF OwnersConnected
    <3>2. ASSUME NEW z \in Sizes PROVE applied # [client |-> plan.client, size |-> z]
      BY <1>1, <2>5 DEF OwnersConnected, Resizes
    <3> QED BY <2>3, <2>5, <3>1, <3>2
  <2> QED BY <2>4, <2>5
<1>4. ASSUME MarkGridFresh(NoClient)
      PROVE  /\ Connected' = Connected /\ plan' = plan /\ planApplied' = planApplied
             /\ inputOwner' = inputOwner /\ bootOwner' = bootOwner /\ inputRev' = inputRev
             /\ applied' = applied
  <2>1. NoClient \notin Connected
    BY <1>1 DEF Connected, Range
  <2> QED BY <1>4, <2>1 DEF MarkGridFresh, Connected
<1>5. CASE UNCHANGED vars
  BY <1>5 DEF PlanCurrent, Connected
<1> QED BY <1>2, <1>3, <1>4, <1>5 DEF PlanCurrent

\* A plan that is begun is that of the owner of the grid, and current.
LEMMA PlanBegins ==
  ASSUME TypeOK, OwnersConnected, NEW c \in Clients, NEW z \in Sizes, BeginResize(c, z)
  PROVE  /\ plan' # NoPlan /\ plan'.client = c /\ PlanCurrent'
         /\ inputOwner' = c \/ (inputOwner' = NoClient /\ bootOwner' = c)
         /\ ~plan'.apply => applied' = [client |-> c, size |-> plan'.size]
<1> USE DEF vars, control, boot, resize, history
<1>1. plan' \in Plans /\ NoPlan \notin Plans /\ NoClient \notin Clients
  BY ClientAssumption DEF BeginResize, Plans, TypeOK
<1>2. plan'.client = c /\ plan'.rev = inputRev /\ plan'.boot = (bootOwner = c)
      /\ plan'.size = z /\ plan'.apply = (applied # [client |-> c, size |-> z])
  BY DEF BeginResize
<1>3. UNCHANGED <<clients, inputOwner, bootOwner, inputRev, applied>>
  BY DEF BeginResize
<1>4. \/ inputOwner = c /\ c \in Connected
      \/ inputOwner = NoClient /\ bootOwner = c /\ c \in Connected
  BY <1>1 DEF BeginResize, ResizeOwner, OwnersConnected
<1> QED BY <1>1, <1>2, <1>3, <1>4 DEF PlanCurrent, Connected

\* A registered plan is always that of the frame in hand, whose bridge holds the
\* input lock; on the Core nothing outdates it before its bridge commits or
\* aborts it.
LEMMA PlannedStep ==
  ASSUME BridgeTypes, OwnersConnected, BootstrapAccounting, Placed, Locked, Planned, PlanOwns,
         BridgeNext
  PROVE  Planned' /\ PlanOwns'
<1> USE DEF Handling, Waiting, work, roles, streams, tmux, vars, control, boot, resize, history
<1> DEFINE Q == Planned' /\ PlanOwns'
<1>1. /\ conn \in [Clients -> Conns] /\ lock \in Clients \cup {NoClient} /\ NoClient \notin Clients
      /\ plan \in Plans \cup {NoPlan} /\ NoPlan \notin Plans /\ TypeOK
      /\ plan # NoPlan => plan.client \in Clients /\ plan.size \in Sizes
      /\ backend' = backend /\ OnCore' = OnCore
  BY ClientAssumption, PlainTypeStep DEF BridgeTypes, BridgeTypeOK, TypeOK, Plans, OnCore
<1>2. CASE plan' = NoPlan
  BY <1>2 DEF Planned, PlanOwns
<1> DEFINE Stands == \/ \E c \in Clients : Register(c)
                     \/ \E c \in Clients : c # plan.client /\ Unregister(c)
                     \/ MarkGridFresh(NoClient)
                     \/ UNCHANGED vars
<1>3. ASSUME plan # NoPlan, Stands, lock' = lock, conn'[lock].pc \notin {"begin", "deliver"},
             conn'[lock].pc = "role" => conn[lock].pc = "role"
      PROVE  Q
  <2>1. lock = plan.client
    BY <1>3 DEF Planned
  <2> QED BY <1>1, <1>3, <2>1, PlanStands DEF Planned, PlanOwns
<1>4. ASSUME plan # NoPlan, Stands, lock' = lock, NEW c \in Clients, c # lock,
             \A d \in Clients : d # c => conn'[d] = conn[d]
      PROVE  Q
  <2>1. conn'[lock] = conn[lock]
    BY <1>1, <1>4 DEF Planned
  <2> QED BY <1>3, <1>4, <2>1 DEF Planned
<1> HIDE DEF Q
<1>5. CASE OpenPage \/ TmuxDies \/ Lates
  <2>1. Stands /\ lock' = lock /\ conn' = conn
    BY <1>5, LateSteps DEF OpenPage, TmuxDies, LocalEnsure, SshEnsure, NodeEnsure, EnsureOnCore
  <2>2. plan = NoPlan => plan' = NoPlan
    BY <1>5, LateSteps DEF OpenPage, TmuxDies, LocalEnsure, SshEnsure, NodeEnsure, EnsureOnCore,
                MarkGridFresh
  <2> QED BY <1>2, <1>3, <2>1, <2>2 DEF Q, Planned
<1>6. ASSUME NEW c \in Clients, NEW f \in Frames, NEW s \in Sizes \cup {NoSize}, Receive(c, f, s)
      PROVE  Q
  <2>1. /\ UNCHANGED vars /\ lock' = lock /\ lock # c
        /\ \A d \in Clients : d # c => conn'[d] = conn[d]
    BY <1>1, <1>6 DEF Receive, Locked
  <2> QED BY <1>2, <1>4, <2>1 DEF Q
<1>7. ASSUME NEW c \in Clients,
             \/ LocalConnect(c) \/ RemoteEnsure(c) \/ LocalSetup(c) \/ LocalSetupFails(c)
             \/ RemoteRegister(c) \/ SshSpawn(c) \/ SshSpawnFails(c) \/ AgentAttach(c)
             \/ NodeAttachFails(c) \/ Forget(c) \/ KillView(c) \/ Leave(c) \/ AgentClose(c)
      PROVE  Q
  <2>1. conn[c].pc \notin Handling /\ lock' = lock /\ \A d \in Clients : d # c => conn'[d] = conn[d]
    BY <1>1, <1>7
       DEF LocalConnect, RemoteEnsure, LocalSetup, LocalSetupFails, RemoteRegister, SshSpawn,
           SshSpawnFails, AgentAttach, NodeAttachFails, Forget, KillView, Leave, AgentClose, Go
  <2>2. c # lock
    BY <2>1, <1>1 DEF Locked
  <2>3. Register(c) \/ Unregister(c) \/ MarkGridFresh(NoClient) \/ UNCHANGED vars
    BY <1>7
       DEF LocalConnect, RemoteEnsure, LocalSetup, LocalSetupFails, RemoteRegister, SshSpawn,
           SshSpawnFails, AgentAttach, NodeAttachFails, Forget, KillView, Leave, AgentClose,
           LocalEnsure, SshEnsure, NodeEnsure, EnsureOnCore
  <2>4. plan = NoPlan => plan' = NoPlan
    BY <2>3 DEF Register, Unregister, UnregisterAt, MarkGridFresh
  <2>5. plan # NoPlan => Stands
    BY <2>2, <2>3 DEF Planned
  <2> QED BY <1>2, <1>4, <2>1, <2>2, <2>4, <2>5 DEF Q
<1>8. ASSUME NEW c \in Clients, NodeAttached(c) PROVE Q
  <2>1. /\ conn[c].pc = "attached" /\ lock' = lock /\ ~OnCore
        /\ \A d \in Clients : d # c => conn'[d] = conn[d]
    BY <1>1, <1>8 DEF NodeAttached, Go, Placed, OnCore
  <2>2. c # lock
    BY <2>1, <1>1 DEF Locked
  <2>3. UNCHANGED <<plan, planApplied, applied>>
    BY <1>8 DEF NodeAttached, MarkGridFresh, MarkGridExisting
  <2> QED BY <1>1, <1>2, <2>1, <2>2, <2>3 DEF Q, Planned, PlanOwns
<1>9. ASSUME NEW c \in Clients, Claim(c) \/ Deny(c) \/ Admit(c) PROVE Q
  <2>1. plan = NoPlan
    BY <1>1, <1>9 DEF Claim, Deny, Admit, Planned
  <2>2. plan' = plan
    BY <1>9 DEF Claim, Deny, Admit, ClaimControl, MarkInput
  <2> QED BY <1>2, <2>1, <2>2 DEF Q
<1>10. ASSUME NEW c \in Clients, Serves(c) PROVE Q
  <2>1. UNCHANGED vars /\ UNCHANGED <<lock, conn>>
    BY <1>10
       DEF Serves, RoleOn, Promote, Recheck, RoleOff, Freeze, AgentRefuses, AgentRole,
           AgentMark,
           AgentSized, AgentNotSized, AgentBoot
  <2> QED BY <1>2, <1>3, <2>1 DEF Q, Planned
<1>11. ASSUME NEW c \in Clients, conn[c].pc \in Handling,
              UNCHANGED vars \/ AbortResize \/ CommitResize, Mine(c) => AbortResize \/ CommitResize
       PROVE  Q
  <2>1. plan # NoPlan => Mine(c)
    BY <1>1, <1>11 DEF Planned, Locked, Mine
  <2>2. plan' = NoPlan
    BY <1>11, <2>1 DEF AbortResize, CommitResize
  <2> QED BY <1>2, <2>2 DEF Q
<1>12. ASSUME NEW c \in Clients, conn[c].pc \in Handling \ {"begin", "deliver"}, UNCHANGED vars,
              lock' = lock,
              conn'[c].pc \notin {"role", "begin"},
              ~Mine(c) \/ conn'[c].pc # "deliver"
       PROVE  Q
  <2>1. lock = c
    BY <1>1, <1>12 DEF Locked
  <2>2. plan # NoPlan => Mine(c)
    BY <2>1 DEF Planned, Mine
  <2> QED BY <1>2, <1>3, <1>12, <2>1, <2>2 DEF Q
<1>13. ASSUME NEW c \in Clients, Fail(c) \/ GiveUp(c), conn[c].pc \in Handling PROVE Q
  BY <1>11, <1>13 DEF Fail, GiveUp
<1>14. ASSUME NEW c \in Clients, conn[c].pc \in Handling, ResizeApplied, lock' = lock,
              conn'[c].pc \notin {"role", "begin", "deliver"}
       PROVE  Q
  <2>1. lock = c
    BY <1>1, <1>14 DEF Locked
  <2>2. /\ UNCHANGED <<plan, applied, clients, inputOwner, bootOwner, inputRev>>
    BY <1>14 DEF ResizeApplied
  <2>3. PlanCurrent' <=> PlanCurrent
    BY <2>2 DEF PlanCurrent, Connected
  <2> QED BY <1>1, <1>2, <1>14, <2>1, <2>2, <2>3 DEF Q, Planned, PlanOwns
<1>15. ASSUME NEW c \in Clients, Begin(c) PROVE Q
  <2>1. conn[c].pc = "begin" /\ lock = c /\ lock' = c /\ plan = NoPlan
        /\ conn[c].size \in Sizes
    BY <1>1, <1>15 DEF Begin, Locked, Planned, BridgeTypes
  <2>2. conn'[c].pc \in {"role", "ask"}
    BY <1>1, <1>15 DEF Begin, Go, Conns
  <2>3. CASE BeginResize(c, conn[c].size)
    <3>1. planApplied' = FALSE
      BY <2>1, <2>3 DEF BeginResize, BootstrapAccounting, BridgeTypes, BridgeTypeOK, TypeOK
    <3>2. /\ plan' # NoPlan /\ plan'.client = c /\ PlanCurrent'
          /\ inputOwner' = c \/ (inputOwner' = NoClient /\ bootOwner' = c)
          /\ ~plan'.apply => applied' = [client |-> c, size |-> plan'.size]
      BY <1>1, <2>1, <2>3, PlanBegins
    <3> QED BY <1>1, <2>1, <2>2, <3>1, <3>2 DEF Q, Planned, PlanOwns
  <2>4. CASE UNCHANGED vars
    BY <1>2, <2>1, <2>4 DEF Q
  <2> QED BY <1>15, <2>3, <2>4 DEF Begin
<1>16. ASSUME NEW c \in Clients, Deliver(c) PROVE Q
  <2>1. plan = NoPlan /\ plan' = plan
    BY <1>1, <1>16 DEF Deliver, Locked, Planned
  <2> QED BY <1>2, <2>1 DEF Q
<1>17. ASSUME NEW c \in Clients, Cut(c) PROVE Q
  <2>1. CASE conn[c].pc \in Waiting \cup {"deliver"} /\ ~Shielded(c)
    BY <1>11, <1>17, <2>1 DEF Cut
  <2>2. CASE ~(conn[c].pc \in Waiting \cup {"deliver"} /\ ~Shielded(c))
    <3>1. UNCHANGED vars /\ lock' = lock
      BY <1>17, <2>2 DEF Cut
    <3>2. CASE conn[c].pc \in {"idle", "enter"}
      <4>1. c # lock /\ \A d \in Clients : d # c => conn'[d] = conn[d]
        BY <1>1, <1>17, <3>2 DEF Cut, Done, Locked
      <4> QED BY <1>2, <1>4, <3>1, <4>1 DEF Q
    <3>3. CASE conn' = [conn EXCEPT ![c].cut = TRUE]
      <4>1. \A d \in Clients : conn'[d].pc = conn[d].pc
        BY <1>1, <3>3 DEF Conns
      <4> QED BY <1>1, <1>2, <1>3, <3>1, <4>1 DEF Q, Planned
    <3> QED BY <1>17, <2>2, <3>2, <3>3 DEF Cut
  <2> QED BY <2>1, <2>2
<1>18. ASSUME NEW c \in Clients,
              Synced(c) \/ SetSize(c) \/ GridSized(c) \/ GridNotSized(c)
       PROVE  Q
  <2>1. conn[c].pc \in Handling \ {"begin", "deliver"}
    BY <1>18 DEF Synced, SetSize, GridSized, GridNotSized
  <2>2. CASE Fail(c) \/ GiveUp(c)
    BY <1>13, <2>1, <2>2
  <2>3. CASE ~(Fail(c) \/ GiveUp(c))
    <3>1. UNCHANGED vars /\ lock' = lock
      BY <1>18, <2>3 DEF Synced, SetSize, GridSized, GridNotSized
    <3>2. conn'[c].pc \notin {"role", "begin"} /\ (~Mine(c) \/ conn'[c].pc # "deliver")
      BY <1>1, <1>18, <2>3 DEF Synced, SetSize, GridSized, GridNotSized, Go, Conns
    <3> QED BY <1>12, <2>1, <3>1, <3>2
  <2> QED BY <2>2, <2>3
<1>19. ASSUME NEW c \in Clients,
              Applied(c) \/ Frozen(c) \/ BootDemoted(c) \/ Commit(c)
       PROVE  Q
  <2>1. conn[c].pc \in Handling \ {"begin", "deliver"}
    BY <1>19 DEF Applied, Frozen, BootDemoted, Commit
  <2>2. CASE Fail(c)
    BY <1>13, <2>1, <2>2
  <2>3. CASE Applied(c)
    <3>1. ResizeApplied /\ lock' = lock /\ conn'[c].pc \notin {"role", "begin", "deliver"}
      BY <1>1, <2>3 DEF Applied, Go, Conns
    <3> QED BY <1>14, <2>1, <3>1
  <2>4. CASE (Frozen(c) \/ BootDemoted(c)) /\ ~Fail(c)
    <3>1. UNCHANGED vars /\ lock' = lock
      BY <2>4 DEF Frozen, BootDemoted
    <3>2. conn'[c].pc \notin {"role", "begin", "deliver"}
      BY <1>1, <2>4 DEF Frozen, BootDemoted, Go, Conns
    <3> QED BY <1>12, <2>1, <3>1, <3>2
  <2>5. CASE Commit(c)
    BY <1>11, <2>1, <2>5 DEF Commit
  <2> QED BY <1>19, <2>2, <2>3, <2>4, <2>5
<1>20. ASSUME NEW c \in Clients,
              NodeSkip(c) \/ NodeAsk(c) \/ NodeApplied(c)
       PROVE  Q
  <2>1. conn[c].pc \in Handling \ {"begin", "deliver"}
    BY <1>20 DEF NodeSkip, NodeAsk, NodeApplied
  <2>2. CASE NodeSkip(c)
    BY <1>11, <2>1, <2>2 DEF NodeSkip
  <2>3. CASE NodeAsk(c)
    <3>1. UNCHANGED vars /\ lock' = lock /\ conn'[c].pc = "answer"
      BY <1>1, <2>3 DEF NodeAsk, Go, Conns
    <3> QED BY <1>12, <2>1, <3>1
  <2>4. CASE NodeApplied(c)
    <3>1. ResizeApplied /\ lock' = lock /\ conn'[c].pc = "answered"
      BY <1>1, <2>4 DEF NodeApplied, Go, Conns
    <3> QED BY <1>14, <2>1, <3>1
  <2> QED BY <1>20, <2>2, <2>3, <2>4
<1>21. ASSUME NEW c \in Clients, NodeAnswered(c) \/ NodeDemoted(c) PROVE Q
  <2>1. conn[c].pc \in Handling \ {"begin", "deliver"}
    BY <1>21 DEF NodeAnswered, NodeDemoted
  <2>2. CASE Fail(c) \/ GiveUp(c)
    BY <1>13, <2>1, <2>2
  <2>3. CASE NodeDemoted(c) /\ ~Fail(c)
    BY <1>11, <2>1, <2>3 DEF NodeDemoted
  <2>4. CASE NodeAnswered(c) /\ ~Fail(c) /\ ~GiveUp(c)
    <3>1. CASE CommitResize
      BY <1>11, <2>1, <3>1
    <3>2. CASE ~CommitResize
      <4>1. UNCHANGED vars /\ lock' = lock
        BY <2>4, <3>2 DEF NodeAnswered
      <4>2. conn'[c].pc \notin {"role", "begin"} /\ (~Mine(c) \/ conn'[c].pc # "deliver")
        BY <1>1, <2>4, <3>2 DEF NodeAnswered, Conns
      <4> QED BY <1>12, <2>1, <4>1, <4>2
    <3> QED BY <3>1, <3>2
  <2> QED BY <1>21, <2>2, <2>3, <2>4
<1> QED BY <1>5, <1>6, <1>7, <1>8, <1>9, <1>10, <1>15, <1>16, <1>17, <1>18, <1>19, <1>20, <1>21,
           BridgeSteps DEF Attends, Adjusts, Q

-----------------------------------------------------------------------------
(* Bridges and the registry *)

\* The invariant of the bridges.
BridgeInv == /\ BridgeTypes /\ OwnersConnected /\ BootstrapAccounting
             /\ Placed /\ Working /\ Locked /\ GridLocked /\ Planned /\ PlanOwns

\* It holds when no browser has connected.
LEMMA BridgeInvInit == ASSUME BridgeInit PROVE BridgeInv
<1>1. BridgeTypes
  BY BridgeTypeInit
<1>2. OwnersConnected /\ BootstrapAccounting /\ Planned /\ PlanOwns
  BY DEF BridgeInit, Init, OwnersConnected, BootstrapAccounting, UnusedBootstrap, Planned,
         PlanOwns
<1>3. \A c \in Clients : conn[c].pc = "new" /\ job[c] = "none" /\ c # lock /\ c # gridLock
  BY ClientAssumption DEF BridgeInit, Idle
<1>4. Placed /\ Working /\ Locked /\ GridLocked
  BY <1>3 DEF Placed, Working, Locked, GridLocked, CoreJobs, AgentJobs, Handling, Waiting
<1> QED BY <1>1, <1>2, <1>4 DEF BridgeInv

\* Every step keeps it.
LEMMA BridgeInvStep ==
  ASSUME BridgeInv, [BridgeNext]_all
  PROVE  BridgeInv'
<1> USE DEF BridgeInv
<1>1. BridgeTypes'
  BY BridgeTypeStep
<1>2. CASE BridgeNext
  <2>1. [Next]_vars /\ TypeOK
    BY <1>2, RegistrySteps DEF BridgeTypes, BridgeTypeOK
  <2> QED BY <1>1, <1>2, <2>1, OwnersStep, BootstrapStep, PlacedStep, WorkingStep, LockedStep,
             GridLockedStep, PlannedStep
<1>3. CASE UNCHANGED all
  <2>1. OwnersConnected' /\ BootstrapAccounting'
    BY <1>3, RegistrySteps, OwnersStep, BootstrapStep
       DEF BridgeTypes, BridgeTypeOK, all
  <2>2. Planned' /\ PlanOwns'
    BY <1>3 DEF all, bvars, vars, control, boot, resize, history, Planned, PlanOwns,
                PlanCurrent, Connected, OnCore
  <2>3. Placed' /\ Working' /\ Locked' /\ GridLocked'
    BY <1>3 DEF all, bvars, vars, control, boot, resize, history, work, roles, streams, tmux,
                Placed, Working, Locked, GridLocked, OnCore
  <2> QED BY <1>1, <2>1, <2>2, <2>3
<1> QED BY <1>2, <1>3

\* The bridges, their threads and the agent use the registry only through its
\* operations: they implement it.
THEOREM BridgeImplementsRegistry == BridgeSpec => Spec
<1>1. BridgeInit => Init
  BY DEF BridgeInit
<1>2. BridgeInv /\ [BridgeNext]_all => [Next]_vars
  BY RegistrySteps DEF BridgeInv, all
<1>3. BridgeInit => BridgeInv
  BY BridgeInvInit
<1>4. BridgeInv /\ [BridgeNext]_all => BridgeInv'
  BY BridgeInvStep
<1> QED BY <1>1, <1>2, <1>3, <1>4, PTL DEF BridgeSpec, Spec

\* Every variable of the bridges, their threads and the agent keeps its type, for
\* any connections, sizes, frames and faults.
THEOREM BridgeTypeCorrect == BridgeSpec => []BridgeTypeOK
<1>1. BridgeInv => BridgeTypeOK
  BY DEF BridgeInv, BridgeTypes
<1>3. BridgeInit => BridgeInv
  BY BridgeInvInit
<1>4. BridgeInv /\ [BridgeNext]_all => BridgeInv'
  BY BridgeInvStep
<1> QED BY <1>1, <1>3, <1>4, PTL DEF BridgeSpec

\* Admitted input finishes before control passes on, and no cancelled, failed or
\* stale frame leaves a lock or a plan behind.
THEOREM AdmittedInputFinishes == BridgeSpec => []AdmittedFinishes
<1>1. BridgeInv => AdmittedFinishes
  <2> SUFFICES ASSUME BridgeInv PROVE AdmittedFinishes
    OBVIOUS
  <2>1. gridLock \in Clients \cup {NoClient}
    BY DEF BridgeInv, BridgeTypes, BridgeTypeOK
  <2> QED BY <2>1 DEF BridgeInv, AdmittedFinishes, Locked, Planned, GridLocked
<1>3. BridgeInit => BridgeInv
  BY BridgeInvInit
<1>4. BridgeInv /\ [BridgeNext]_all => BridgeInv'
  BY BridgeInvStep
<1> QED BY <1>1, <1>3, <1>4, PTL DEF BridgeSpec

\* Hence, whatever the bridges do, control, grid ownership, bootstrap ownership
\* and the committed size never outlive a connection, a new grid is bootstrapped
\* at most once, and every change of the controller is revised.
THEOREM BridgesKeepRegistry ==
  BridgeSpec => []OwnersConnected /\ []BootstrapOnce /\ ControlRevised
BY BridgeImplementsRegistry, OwnersStayConnected, BootstrapAtMostOnce, ControlIsRevised

-----------------------------------------------------------------------------
(* One bridge at a time *)

\* Only the bridge that holds the input lock registers or gives up a plan.
LEMMA PlanMoves ==
  ASSUME BridgeInv, NEW c \in Clients, Attends(c) \/ Adjusts(c) \/ Serves(c)
  PROVE  \/ plan' = plan
         \/ Begin(c) /\ plan = NoPlan /\ plan'.client = c
         \/ Mine(c) /\ plan' = NoPlan
<1> USE DEF vars, control, boot, resize, history
<1>1. CASE Begin(c)
  <2>1. plan = NoPlan /\ NoPlan \notin Plans
    BY <1>1, ClientAssumption
       DEF Begin, BridgeInv, Locked, Planned, Handling, Waiting, Plans, BridgeTypes,
           BridgeTypeOK
  <2>2. CASE UNCHANGED vars
    BY <2>2
  <2>3. CASE BeginResize(c, conn[c].size)
    BY <2>1, <2>3, <1>1 DEF BeginResize
  <2> QED BY <1>1, <2>2, <2>3 DEF Begin
<1>2. CASE Fail(c) \/ GiveUp(c)
  BY <1>2 DEF Fail, GiveUp, AbortResize
<1>3. CASE /\ \/ Synced(c) \/ SetSize(c) \/ GridSized(c) \/ GridNotSized(c) \/ Applied(c)
              \/ Frozen(c) \/ BootDemoted(c) \/ NodeAsk(c) \/ NodeApplied(c)
              \/ Deliver(c) \/ Cut(c)
           /\ ~(Fail(c) \/ GiveUp(c))
  <2>1. UNCHANGED vars \/ ResizeApplied \/ (Mine(c) /\ AbortResize)
    BY <1>3 DEF Synced, SetSize, GridSized, GridNotSized, Applied, Frozen, BootDemoted,
                NodeAsk,
                NodeApplied, Deliver, Cut
  <2> QED BY <2>1 DEF ResizeApplied, AbortResize
<1>4. CASE /\ \/ Commit(c) \/ NodeSkip(c) \/ NodeAnswered(c) \/ NodeDemoted(c)
           /\ ~(Fail(c) \/ GiveUp(c))
  <2>1. UNCHANGED vars \/ CommitResize \/ AbortResize
    BY <1>4 DEF Commit, NodeSkip, NodeAnswered, NodeDemoted
  <2>2. CASE CommitResize \/ AbortResize
    <3>1. plan # NoPlan /\ plan' = NoPlan
      BY <2>2 DEF CommitResize, AbortResize, PlanCurrent
    <3>2. conn[c].pc \in Handling
      BY <1>4 DEF Commit, NodeSkip, NodeAnswered, NodeDemoted, Handling, Waiting
    <3> QED BY <3>1, <3>2 DEF Mine, BridgeInv, Locked, Planned
  <2> QED BY <2>1, <2>2
<1>5. CASE \/ LocalConnect(c) \/ RemoteEnsure(c) \/ LocalSetup(c) \/ LocalSetupFails(c)
           \/ RemoteRegister(c) \/ SshSpawn(c) \/ SshSpawnFails(c) \/ AgentAttach(c)
           \/ NodeAttachFails(c) \/ NodeAttached(c) \/ Claim(c) \/ Deny(c) \/ Admit(c)
           \/ Forget(c) \/ KillView(c) \/ Leave(c) \/ AgentClose(c)
  <2>1. \/ UNCHANGED vars \/ Register(c) \/ Unregister(c) \/ MarkGridFresh(NoClient)
        \/ MarkGridFresh(c) \/ MarkGridExisting \/ ClaimControl(c) \/ MarkInput(c)
    BY <1>5
       DEF LocalConnect, RemoteEnsure, LocalSetup, LocalSetupFails, RemoteRegister, SshSpawn,
           SshSpawnFails, AgentAttach, NodeAttachFails, NodeAttached, Claim, Deny, Admit,
           Forget,
           KillView, Leave, AgentClose, LocalEnsure, SshEnsure, NodeEnsure, EnsureOnCore
  <2> QED BY <2>1 DEF Register, Unregister, UnregisterAt, MarkGridFresh, MarkGridExisting,
                      ClaimControl, MarkInput
<1>6. CASE Serves(c)
  BY <1>6
     DEF Serves, RoleOn, Promote, Recheck, RoleOff, Freeze, AgentRefuses, AgentRole, AgentMark,
         AgentSized, AgentNotSized, AgentBoot
<1> QED BY <1>1, <1>2, <1>3, <1>4, <1>5, <1>6 DEF Attends, Adjusts

\* A step of one bridge leaves the others where they are, with their plans.
LEMMA OneMoves ==
  ASSUME BridgeInv, BridgeNext, NEW c \in Clients, Attends(c) \/ Adjusts(c) \/ Serves(c)
  PROVE  /\ \A d \in Clients \ {c} :
              /\ conn'[d] = conn[d] /\ job'[d] = job[d] /\ out'[d] = out[d]
              /\ want'[d] = want[d] /\ active'[d] = active[d]
              /\ Mine(d)' = Mine(d)
         /\ backend' = backend /\ conn' \in [Clients -> Conns]
<1> USE DEF work, roles, streams, tmux
<1>1. /\ backend' = backend /\ conn' \in [Clients -> Conns]
      /\ conn \in [Clients -> Conns]
      /\ job \in [Clients -> {"none"} \cup CoreJobs \cup AgentJobs]
      /\ out \in [Clients -> {"none", "ok", "failed", "retry", "raised", "closed"}]
      /\ want \in [Clients -> {"on", "boot", "off"}] /\ active \in [Clients -> BOOLEAN]
  BY PlainTypeStep, ConnTypeStep DEF BridgeInv, BridgeTypes, BridgeTypeOK
<1>2. ASSUME NEW d \in Clients \ {c} PROVE Mine(d)' = Mine(d)
  BY PlanMoves DEF Mine
<1> DEFINE Same == \A d \in Clients \ {c} :
                     /\ conn'[d] = conn[d] /\ job'[d] = job[d] /\ out'[d] = out[d]
                     /\ want'[d] = want[d] /\ active'[d] = active[d]
<1>3. CASE Attends(c)
  <2>1. UNCHANGED <<job, out, want, active>>
    BY <1>3
       DEF Attends, LocalConnect, RemoteEnsure, LocalSetup, LocalSetupFails, RemoteRegister,
           SshSpawn, SshSpawnFails, NodeAttachFails, NodeAttached, AgentAttach, Cut,
           Claim, Deny, Admit, Deliver, Forget, KillView, Leave, AgentClose
  <2>2. \A d \in Clients \ {c} : conn'[d] = conn[d]
    BY <1>1, <1>3
       DEF Attends, LocalConnect, RemoteEnsure, LocalSetup, LocalSetupFails, RemoteRegister,
           SshSpawn, SshSpawnFails, NodeAttachFails, NodeAttached, AgentAttach, Cut,
           Claim, Deny, Admit, Deliver, Forget, KillView, Leave, AgentClose, Go, Done
  <2> QED BY <1>1, <1>2, <2>1, <2>2
<1>4. CASE Adjusts(c)
  <2>1. UNCHANGED active
    BY <1>4
       DEF Adjusts, Begin, Synced, SetSize, GridSized, GridNotSized, Applied, Frozen,
           BootDemoted,
           Commit, NodeSkip, NodeAsk, NodeApplied, NodeAnswered, NodeDemoted, Fail, GiveUp
  <2>2. \A d \in Clients \ {c} : conn'[d] = conn[d]
    BY <1>1, <1>4
       DEF Adjusts, Begin, Synced, SetSize, GridSized, GridNotSized, Applied, Frozen,
           BootDemoted,
           Commit, NodeSkip, NodeAsk, NodeApplied, NodeAnswered, NodeDemoted, Fail, GiveUp, Go,
           Done
  <2>3. \A d \in Clients \ {c} : job'[d] = job[d] /\ out'[d] = out[d] /\ want'[d] = want[d]
    BY <1>1, <1>4
       DEF Adjusts, Begin, Synced, SetSize, GridSized, GridNotSized, Applied, Frozen,
           BootDemoted,
           Commit, NodeSkip, NodeAsk, NodeApplied, NodeAnswered, NodeDemoted, Fail, GiveUp,
           Start
  <2> QED BY <1>1, <1>2, <2>1, <2>2, <2>3
<1>5. CASE Serves(c)
  <2>1. UNCHANGED <<conn, want>>
    BY <1>5
       DEF Serves, RoleOn, Promote, Recheck, RoleOff, Freeze, AgentRefuses, AgentRole,
           AgentMark,
           AgentSized, AgentNotSized, AgentBoot
  <2>2. \A d \in Clients \ {c} : job'[d] = job[d] /\ out'[d] = out[d] /\ active'[d] = active[d]
    BY <1>1, <1>5
       DEF Serves, RoleOn, Promote, Recheck, RoleOff, Freeze, AgentRefuses, AgentRole,
           AgentMark,
           AgentSized, AgentNotSized, AgentBoot, Return
  <2> QED BY <1>1, <1>2, <2>1, <2>2
<1> QED BY <1>3, <1>4, <1>5

-----------------------------------------------------------------------------
(* The views that size the window *)

\* A step that is not a promotion takes influence away at most.
LEMMA SizersGiven ==
  ASSUME BridgeInv, BridgeNext, ~Lates
  PROVE  \/ sizers' \subseteq sizers
         \/ \E c \in Clients : /\ (OnCore /\ Promote(c)) \/ (AgentRole(c) /\ want[c] # "off")
                               /\ sizers' \subseteq {c} /\ c \in views
<1> USE DEF work, roles, streams, tmux
<1>1. CASE OpenPage \/ TmuxDies \/ Lates
  BY <1>1, LateSteps DEF OpenPage, TmuxDies
<1>2. ASSUME NEW c \in Clients, NEW f \in Frames, NEW s \in Sizes \cup {NoSize}, Receive(c, f, s)
      PROVE  sizers' = sizers
  BY <1>2 DEF Receive
<1>3. ASSUME NEW c \in Clients, Attends(c) PROVE sizers' \subseteq sizers
  BY <1>3
     DEF Attends, LocalConnect, RemoteEnsure, LocalSetup, LocalSetupFails, RemoteRegister,
         SshSpawn, SshSpawnFails, NodeAttachFails, NodeAttached, AgentAttach, Cut,
         Claim, Deny, Admit, Deliver, Forget, KillView, Leave, AgentClose
<1>4. ASSUME NEW c \in Clients, Adjusts(c) PROVE sizers' = sizers
  BY <1>4
     DEF Adjusts, Begin, Synced, SetSize, GridSized, GridNotSized, Applied, Frozen,
         BootDemoted,
         Commit, NodeSkip, NodeAsk, NodeApplied, NodeAnswered, NodeDemoted, Fail, GiveUp
<1>5. ASSUME NEW c \in Clients, PromotedPartly(c)
      PROVE  sizers' \subseteq sizers \/ (sizers' \subseteq {c} /\ c \in views)
  BY <1>5 DEF PromotedPartly
<1>6. ASSUME NEW c \in Clients, Serves(c)
      PROVE  \/ sizers' \subseteq sizers
             \/ /\ (OnCore /\ Promote(c)) \/ (AgentRole(c) /\ want[c] # "off")
                /\ sizers' \subseteq {c} /\ c \in views
  <2>1. CASE OnCore /\ Promote(c)
    BY <1>5, <2>1 DEF Promote, Promoted
  <2>2. CASE AgentRole(c)
    BY <1>5, <2>2 DEF AgentRole, Promoted, Demoted
  <2>3. CASE ~(OnCore /\ Promote(c)) /\ ~AgentRole(c)
    BY <1>6, <2>3
       DEF Serves, RoleOn, Recheck, RoleOff, Freeze, AgentRefuses, AgentMark, AgentSized,
           AgentNotSized, AgentBoot, Demoted
  <2> QED BY <2>1, <2>2, <2>3
<1> QED BY <1>1, <1>2, <1>3, <1>4, <1>6, BridgeSteps

\* No view keeps influence beside one that is promoted, and the only other view
\* that gets any is a stray.
LEMMA OneSizerStep ==
  ASSUME BridgeInv, OneSizer, BridgeNext
  PROVE  OneSizer'
<1> USE DEF work, roles, streams, tmux
<1> DEFINE Own == sizers \ strays
<1>1. ASSUME Own' \subseteq Own \/ \E c \in Clients : sizers' \subseteq {c}
      PROVE  OneSizer'
  BY <1>1 DEF OneSizer
<1>2. CASE OpenPage \/ TmuxDies \/ Lates
  BY <1>1, <1>2, LateSteps DEF OpenPage, TmuxDies
<1>3. ASSUME NEW c \in Clients, NEW f \in Frames, NEW s \in Sizes \cup {NoSize}, Receive(c, f, s)
      PROVE  OneSizer'
  BY <1>1, <1>3 DEF Receive
<1>4. ASSUME NEW c \in Clients, Attends(c) \/ Adjusts(c) PROVE OneSizer'
  BY <1>1, <1>4
     DEF Attends, LocalConnect, RemoteEnsure, LocalSetup, LocalSetupFails, RemoteRegister,
         SshSpawn, SshSpawnFails, NodeAttachFails, NodeAttached, AgentAttach, Cut,
         Claim, Deny, Admit, Deliver, Forget, KillView, Leave, AgentClose,
         Adjusts, Begin, Synced, SetSize, GridSized, GridNotSized, Applied, Frozen,
         BootDemoted,
         Commit, NodeSkip, NodeAsk, NodeApplied, NodeAnswered, NodeDemoted, Fail, GiveUp
<1>5. ASSUME NEW c \in Clients, PromotedPartly(c) PROVE OneSizer'
  BY <1>1, <1>5 DEF PromotedPartly
<1>6. ASSUME NEW c \in Clients, Serves(c) PROVE OneSizer'
  <2>1. CASE Promote(c) \/ AgentRole(c)
    BY <1>1, <1>5, <2>1 DEF Promote, AgentRole, Promoted, Demoted
  <2>2. CASE ~(Promote(c) \/ AgentRole(c))
    BY <1>1, <1>6, <2>2
       DEF Serves, RoleOn, Recheck, RoleOff, Freeze, AgentRefuses, AgentMark, AgentSized,
           AgentNotSized, AgentBoot, Demoted
  <2> QED BY <2>1, <2>2
<1> QED BY <1>2, <1>3, <1>4, <1>6, BridgeSteps

\* Only bridges between their setup and their end have a view.
LEMMA ViewedStep ==
  ASSUME BridgeInv, Viewed, BridgeNext
  PROVE  Viewed'
<1> USE DEF Viewed, work, roles, streams, tmux
<1>1. conn \in [Clients -> Conns] /\ views \subseteq Clients
  BY DEF BridgeInv, BridgeTypes, BridgeTypeOK
<1>2. CASE OpenPage \/ TmuxDies \/ Lates
  BY <1>2, LateSteps DEF OpenPage, TmuxDies
<1>3. ASSUME NEW c \in Clients, NEW f \in Frames, NEW s \in Sizes \cup {NoSize}, Receive(c, f, s)
      PROVE  Viewed'
  BY <1>1, <1>3 DEF Receive, Conns
<1>4. ASSUME NEW c \in Clients, Attends(c) PROVE Viewed'
  <2>1. \A d \in Clients \ {c} : conn'[d] = conn[d] /\ (d \in views' => d \in views)
    BY <1>4, <1>1, OneMoves
       DEF Attends, LocalConnect, RemoteEnsure, LocalSetup, LocalSetupFails, RemoteRegister,
           SshSpawn, SshSpawnFails, NodeAttachFails, NodeAttached, AgentAttach, Cut,
           Claim, Deny, Admit, Deliver, Forget, KillView, Leave, AgentClose, AttachView
  <2>2. c \in views' => conn'[c].pc \notin {"new", "ensured", "setup", "spawn", "attach",
                                            "unregister", "gone"}
    BY <1>4, <1>1
       DEF Attends, LocalConnect, RemoteEnsure, LocalSetup, LocalSetupFails, RemoteRegister,
           SshSpawn, SshSpawnFails, NodeAttachFails, NodeAttached, AgentAttach, Cut,
           Claim, Deny, Admit, Deliver, Forget, KillView, Leave, AgentClose, AttachView, Go,
           Done,
           Conns
  <2>3. views' \subseteq Clients
    BY <1>4, PlainTypeStep DEF BridgeInv
  <2> QED BY <2>1, <2>2, <2>3
<1>5. ASSUME NEW c \in Clients, Adjusts(c) PROVE Viewed'
  <2>1. views' = views
    BY <1>5
       DEF Adjusts, Begin, Synced, SetSize, GridSized, GridNotSized, Applied, Frozen,
           BootDemoted,
           Commit, NodeSkip, NodeAsk, NodeApplied, NodeAnswered, NodeDemoted, Fail, GiveUp
  <2>2. conn'[c].pc \in Handling \cup {"leaving"}
    BY <1>5, <1>1
       DEF Adjusts, Begin, Synced, SetSize, GridSized, GridNotSized, Applied, Frozen,
           BootDemoted,
           Commit, NodeSkip, NodeAsk, NodeApplied, NodeAnswered, NodeDemoted, Fail, GiveUp, Go,
           Done, Conns, Handling, Waiting
  <2> QED BY <1>1, <1>5, <2>1, <2>2, OneMoves DEF Handling, Waiting
<1>6. ASSUME NEW c \in Clients, Serves(c) PROVE Viewed'
  <2>1. UNCHANGED <<conn, views>>
    BY <1>6
       DEF Serves, RoleOn, Promote, Recheck, RoleOff, Freeze, AgentRefuses, AgentRole,
           AgentMark,
           AgentSized, AgentNotSized, AgentBoot
  <2> QED BY <2>1
<1> QED BY <1>2, <1>3, <1>4, <1>5, <1>6, BridgeSteps

\* A view gets influence for a plan that its bridge still has in hand, unless the
\* bridge has ended.
LEMMA ForPlanStep ==
  ASSUME BridgeInv, ForPlan, BridgeNext
  PROVE  ForPlan'
<1> USE DEF work, roles, streams, tmux, CoreJobs, AgentJobs
<1>1. /\ conn \in [Clients -> Conns]
      /\ job \in [Clients -> {"none"} \cup CoreJobs \cup AgentJobs]
      /\ out \in [Clients -> {"none", "ok", "failed", "retry", "raised", "closed"}]
      /\ want \in [Clients -> {"on", "boot", "off"}]
      /\ OnCore <=> backend # "node"
  BY BackendAssumption DEF BridgeInv, BridgeTypes, BridgeTypeOK, OnCore
<1>2. \A d \in Clients : FitsPlan(d)
  BY DEF ForPlan, FitsPlan
<1>3. ASSUME NEW c \in Clients, Attends(c) \/ Adjusts(c) \/ Serves(c), FitsPlan(c)'
      PROVE  ForPlan'
  <2>1. \A d \in Clients \ {c} : FitsPlan(d)'
    BY <1>1, <1>2, <1>3, OneMoves DEF FitsPlan
  <2> QED BY <1>3, <2>1 DEF FitsPlan, ForPlan
<1>4. CASE OpenPage \/ TmuxDies \/ Lates
  <2>1. UNCHANGED <<conn, job, out, want, plan>>
    BY <1>4, LateSteps DEF OpenPage, TmuxDies, LocalEnsure, SshEnsure, NodeEnsure, EnsureOnCore,
                MarkGridFresh, vars, control, boot, resize, history
  <2> QED BY <2>1 DEF ForPlan, FitsPlan, Mine
<1>5. ASSUME NEW c \in Clients, NEW f \in Frames, NEW s \in Sizes \cup {NoSize}, Receive(c, f, s)
      PROVE  ForPlan'
  <2>1. UNCHANGED <<job, out, want, plan>>
    BY <1>5 DEF Receive, vars, control, boot, resize, history
  <2>2. /\ conn[c].pc = "idle" /\ conn'[c].pc = "enter"
        /\ \A d \in Clients \ {c} : conn'[d] = conn[d]
    BY <1>1, <1>5 DEF Receive, Conns
  <2>3. job[c] = "none"
    BY <1>1, <2>2 DEF BridgeInv, Working, Ended, Waiting
  <2> QED BY <1>1, <2>1, <2>2, <2>3 DEF ForPlan, FitsPlan, Mine
<1>6. ASSUME NEW c \in Clients, Attends(c) PROVE ForPlan'
  <2>1. UNCHANGED <<job, out, want>>
    BY <1>6
       DEF Attends, LocalConnect, RemoteEnsure, LocalSetup, LocalSetupFails, RemoteRegister,
           SshSpawn, SshSpawnFails, NodeAttachFails, NodeAttached, AgentAttach, Cut,
           Claim, Deny, Admit, Deliver, Forget, KillView, Leave, AgentClose
  <2>2. CASE conn'[c].pc \in Ended
    BY <1>1, <1>2, <1>3, <1>6, <2>1, <2>2 DEF FitsPlan, Ended
  <2>3. CASE conn'[c].pc \notin Ended \cup Waiting
    <3>1. job'[c] = "none"
      BY <2>3, WorkingStep DEF BridgeInv, Working, Ended, Waiting
    <3>2. conn'[c].pc # "answered"
      BY <1>1, <1>6
         DEF Attends, LocalConnect, RemoteEnsure, LocalSetup, LocalSetupFails, RemoteRegister,
             SshSpawn, SshSpawnFails, NodeAttachFails, NodeAttached, AgentAttach, Cut,
             Claim, Deny, Admit, Deliver, Forget, KillView, Leave, AgentClose, Go, Done, Conns,
             Waiting
    <3> QED BY <1>1, <1>3, <1>6, <2>3, <3>1, <3>2 DEF FitsPlan, Ended, Waiting
  <2>4. CASE conn'[c].pc \in Waiting
    <3>1. Cut(c) /\ conn' = [conn EXCEPT ![c].cut = TRUE] /\ UNCHANGED vars
      BY <1>1, <1>6, <2>4
         DEF Attends, LocalConnect, RemoteEnsure, LocalSetup, LocalSetupFails, RemoteRegister,
             SshSpawn, SshSpawnFails, NodeAttachFails, NodeAttached, AgentAttach, Cut,
             Claim, Deny, Admit, Deliver, Forget, KillView, Leave, AgentClose, Go, Done, Conns,
             Waiting
    <3>2. conn'[c].pc = conn[c].pc /\ Mine(c)' = Mine(c)
      BY <1>1, <3>1 DEF Conns, Mine, vars, control, boot, resize, history
    <3> QED BY <1>2, <1>3, <1>6, <2>1, <3>2 DEF FitsPlan
  <2> QED BY <2>2, <2>3, <2>4
<1>7. ASSUME NEW c \in Clients, Adjusts(c) PROVE ForPlan'
  <2>1. conn[c].pc \in Handling /\ conn[c].pc \notin Ended
    BY <1>7
       DEF Adjusts, Begin, Synced, SetSize, GridSized, GridNotSized, Applied, Frozen,
           BootDemoted,
           Commit, NodeSkip, NodeAsk, NodeApplied, NodeAnswered, NodeDemoted, Handling,
           Waiting,
           Ended
  <2>2. CASE Begin(c)
    <3>1. CASE OnCore
      <4>1. conn'[c].pc = "role" /\ job'[c] = (IF Mine(c)' THEN "on" ELSE "off")
        BY <1>1, <2>2, <3>1 DEF Begin, Start, Go, Conns, Mine
      <4> QED BY <1>3, <1>7, <4>1 DEF FitsPlan
    <3>2. CASE ~OnCore
      <4>1. conn'[c].pc = "ask" /\ job' = job /\ out' = out /\ conn[c].pc = "begin"
        BY <1>1, <2>2, <3>2 DEF Begin, Go, Conns
      <4>2. job[c] = "none"
        BY <1>1, <4>1 DEF BridgeInv, Working, Ended, Waiting
      <4> QED BY <1>3, <1>7, <4>1, <4>2 DEF FitsPlan
    <3> QED BY <3>1, <3>2
  <2>3. CASE Fail(c) \/ GiveUp(c)
    <3>1. conn'[c].pc \in {"leaving", "deliver"} /\ job' = job
      BY <1>1, <2>3 DEF Fail, GiveUp, Go, Done, Conns
    <3>2. CASE conn'[c].pc = "leaving"
      BY <1>1, <1>3, <1>7, <3>1, <3>2, <2>1, <1>2, <2>3 DEF FitsPlan, Ended, Fail, GiveUp
    <3>3. CASE conn'[c].pc = "deliver"
      <4>1. job'[c] = "none"
        BY WorkingStep, <3>3 DEF BridgeInv, Working, Ended, Waiting
      <4> QED BY <1>1, <1>3, <1>7, <3>3, <4>1 DEF FitsPlan, Ended
    <3> QED BY <3>1, <3>2, <3>3
  <2>4. CASE /\ Synced(c) \/ SetSize(c) \/ GridSized(c) \/ GridNotSized(c) \/ Commit(c) \/ NodeSkip(c)
                \/ NodeDemoted(c)
             /\ ~(Fail(c) \/ GiveUp(c))
    <3>1. conn'[c].pc \in {"size", "deliver", "wait", "applied"}
      BY <1>1, <2>4 DEF Synced, SetSize, GridSized, GridNotSized, Commit, NodeSkip,
                        NodeDemoted,
                        Go, Conns
    <3>2. job'[c] = "none"
      BY WorkingStep, <3>1 DEF BridgeInv, Working, Ended, Waiting
    <3> QED BY <1>1, <1>3, <1>7, <3>1, <3>2 DEF FitsPlan, Ended
  <2>5. CASE (Applied(c) \/ Frozen(c) \/ BootDemoted(c)) /\ ~Fail(c)
    <3>1. conn'[c].pc \in {"freeze", "boot_off", "commit"}
          /\ job'[c] \in {"freeze", "off", "none"}
      BY <1>1, <2>5 DEF Applied, Frozen, BootDemoted, Go, Start, Conns, BridgeInv, Working,
                        Ended,
                        Waiting
    <3> QED BY <1>3, <1>7, <3>1 DEF FitsPlan, Ended
  <2>6. CASE NodeAsk(c)
    <3>1. conn'[c].pc = "answer" /\ job'[c] = "asked" /\ plan' = plan
          /\ (want'[c] # "off" <=> Mine(c)) /\ want'[c] \in {"on", "boot", "off"}
      BY <1>1, <2>6 DEF NodeAsk, Start, Go, Conns, vars, control, boot, resize, history
    <3>2. Mine(c)' = Mine(c)
      BY <3>1 DEF Mine
    <3> QED BY <1>3, <1>7, <3>1, <3>2 DEF FitsPlan
  <2>7. CASE NodeApplied(c)
    <3>1. conn'[c].pc = "answered" /\ conn[c].pc = "answer" /\ UNCHANGED <<job, out, want>>
          /\ plan' = plan /\ job[c] = "none"
      BY <1>1, <2>7 DEF NodeApplied, ResizeApplied, Go, Conns
    <3>2. Mine(c)' = Mine(c)
      BY <3>1 DEF Mine
    <3> QED BY <1>2, <1>3, <1>7, <3>1, <3>2 DEF FitsPlan
  <2>8. CASE NodeAnswered(c) /\ ~Fail(c) /\ ~GiveUp(c)
    <3>1. conn'[c].pc \in {"deliver", "demoting"}
      BY <1>1, <2>8 DEF NodeAnswered, Conns
    <3>2. CASE conn'[c].pc = "deliver"
      <4>1. job'[c] = "none"
        BY WorkingStep, <3>2 DEF BridgeInv, Working, Ended, Waiting
      <4> QED BY <1>1, <1>3, <1>7, <3>2, <4>1 DEF FitsPlan, Ended
    <3>3. CASE conn'[c].pc = "demoting"
      <4>1. Mine(c) /\ ~PlanCurrent
        BY <1>1, <2>8, <3>3 DEF NodeAnswered, Conns
      <4>2. job'[c] = "asked" /\ want'[c] = "off"
        BY <1>1, <2>8, <4>1 DEF NodeAnswered, CommitResize, Start
      <4> QED BY <1>3, <1>7, <3>3, <4>2 DEF FitsPlan
    <3> QED BY <3>1, <3>2, <3>3
  <2> QED BY <1>7, <2>2, <2>3, <2>4, <2>5, <2>6, <2>7, <2>8 DEF Adjusts
<1>8. ASSUME NEW c \in Clients, Serves(c) PROVE ForPlan'
  <2>1. UNCHANGED <<conn, want, plan>>
    BY <1>8
       DEF Serves, RoleOn, Promote, Recheck, RoleOff, Freeze, AgentRefuses, AgentRole,
           AgentMark,
           AgentSized, AgentNotSized, AgentBoot, vars, control, boot, resize, history
  <2>2. Mine(c)' = Mine(c)
    BY <2>1 DEF Mine
  <2>3. CASE OnCore
    <3>1. job[c] \notin AgentJobs
      BY <1>1, <2>3 DEF BridgeInv, Placed
    <3>2. \/ job'[c] = "none" /\ out'[c] \in {"ok", "failed"}
          \/ job[c] \in {"on", "promote"} /\ job'[c] \in {"promote", "recheck"}
      BY <1>1, <1>8, <2>3, <3>1
         DEF Serves, RoleOn, Promote, Recheck, RoleOff, Freeze, AgentRefuses, AgentRole,
             AgentMark, AgentSized, AgentNotSized, AgentBoot, Return
    <3> QED BY <1>2, <1>3, <1>8, <2>1, <2>2, <3>1, <3>2 DEF FitsPlan
  <2>4. CASE ~OnCore
    <3>1. job[c] \in AgentJobs /\ job'[c] \in AgentJobs \cup {"none"}
          /\ (job'[c] = "boot" => want[c] = "boot")
      BY <1>1, <1>8, <2>4
         DEF Serves, AgentRefuses, AgentRole, AgentMark, AgentSized, AgentNotSized, AgentBoot,
             Return
    <3>2. conn[c].pc # "role"
      BY <1>1, <2>4 DEF BridgeInv, Placed
    <3> QED BY <1>2, <1>3, <1>8, <2>1, <2>2, <3>1, <3>2 DEF FitsPlan
  <2> QED BY <2>3, <2>4
<1> QED BY <1>4, <1>5, <1>6, <1>7, <1>8, BridgeSteps

-----------------------------------------------------------------------------
(* Who sizes the window while nothing fails *)

\* A bridge that leaves keeps its influence until its view is killed.
LEMMA LeavingStep ==
  ASSUME BridgeInv, BridgeNext, NEW d \in Leaving
  PROVE  d \in Leaving' \/ d \notin sizers'
<1> USE DEF Leaving, work, roles, streams, tmux
<1>1. conn \in [Clients -> Conns]
  BY DEF BridgeInv, BridgeTypes
<1>2. CASE OpenPage \/ TmuxDies \/ Lates
  BY <1>2, LateSteps DEF OpenPage, TmuxDies
<1>3. ASSUME NEW c \in Clients, NEW f \in Frames, NEW s \in Sizes \cup {NoSize}, Receive(c, f, s)
      PROVE  d \in Leaving'
  BY <1>1, <1>3 DEF Receive, Conns
<1>4. ASSUME NEW c \in Clients, Attends(c) PROVE d \in Leaving' \/ d \notin sizers'
  <2>1. CASE d # c
    BY <1>4, <2>1, OneMoves
  <2>2. CASE d = c
    BY <1>1, <1>4, <2>2
       DEF Attends, LocalConnect, RemoteEnsure, LocalSetup, LocalSetupFails, RemoteRegister,
           SshSpawn, SshSpawnFails, NodeAttachFails, NodeAttached, AgentAttach, Cut,
           Claim, Deny, Admit, Deliver, Forget, KillView, Leave, AgentClose, Go, Done, Conns,
           BridgeInv, Placed, OnCore, Waiting
  <2> QED BY <2>1, <2>2
<1>5. ASSUME NEW c \in Clients, Adjusts(c) PROVE d \in Leaving'
  <2>1. conn[c].pc \in Handling /\ conn[d].pc \notin Handling
    BY <1>5
       DEF Adjusts, Begin, Synced, SetSize, GridSized, GridNotSized, Applied, Frozen,
           BootDemoted,
           Commit, NodeSkip, NodeAsk, NodeApplied, NodeAnswered, NodeDemoted, Handling, Waiting
  <2> QED BY <1>5, <2>1, OneMoves
<1>6. ASSUME NEW c \in Clients, Serves(c) PROVE d \in Leaving'
  <2>1. UNCHANGED conn
    BY <1>6
       DEF Serves, RoleOn, Promote, Recheck, RoleOff, Freeze, AgentRefuses, AgentRole,
           AgentMark,
           AgentSized, AgentNotSized, AgentBoot
  <2> QED BY <2>1
<1> QED BY <1>2, <1>3, <1>4, <1>5, <1>6, BridgeSteps

\* Faults are never given back, and without one no script was given up.
LEMMA FaultFree ==
  ASSUME BridgeInv, BridgeNext, NoFaults'
  PROVE  NoFaults /\ ~Fault /\ ~Lates
<1>1. left \in [frames : Nat, faults : 0 .. MaxFaults] /\ MaxFaults \in Nat
  BY FrameAssumption DEF BridgeInv, BridgeTypes
<1>2. left'.faults = left.faults \/ Fault
  <2>1. CASE OpenPage \/ TmuxDies \/ Lates
    BY <2>1, LateSteps DEF OpenPage, TmuxDies
  <2>2. ASSUME NEW c \in Clients, NEW f \in Frames, NEW s \in Sizes \cup {NoSize}, Receive(c, f, s)
        PROVE  left'.faults = left.faults
    BY <1>1, <2>2 DEF Receive
  <2>3. ASSUME NEW c \in Clients, Attends(c) PROVE UNCHANGED left \/ Fault
    BY <2>3
       DEF Attends, LocalConnect, RemoteEnsure, LocalSetup, LocalSetupFails, RemoteRegister,
           SshSpawn, SshSpawnFails, NodeAttachFails, NodeAttached, AgentAttach, Cut,
           Claim, Deny, Admit, Deliver, Forget, KillView, Leave, AgentClose, Breaks, CallFails
  <2>4. ASSUME NEW c \in Clients, Adjusts(c) PROVE UNCHANGED left \/ Fault
    BY <2>4
       DEF Adjusts, Begin, Synced, SetSize, GridSized, GridNotSized, Applied, Frozen,
           BootDemoted,
           Commit, NodeSkip, NodeAsk, NodeApplied, NodeAnswered, NodeDemoted, Fail, GiveUp,
           Breaks, CallFails
  <2>5. ASSUME NEW c \in Clients, Serves(c) PROVE UNCHANGED left \/ Fault
    BY <2>5
       DEF Serves, RoleOn, Promote, Recheck, RoleOff, Freeze, AgentRefuses, AgentRole,
           AgentMark,
           AgentSized, AgentNotSized, AgentBoot, Breaks, CallFails
  <2> QED BY <2>1, <2>2, <2>3, <2>4, <2>5, BridgeSteps
<1>3. Fault => left'.faults < left.faults
  BY <1>1 DEF Fault
<1>4. ASSUME NoFaults, NEW c \in Clients PROVE ~LateScripts(c)
  <2>1. \A s \in Scripts : late[c][s] <= 0
    BY <1>1, <1>4 DEF BridgeInv, BridgeTypes, BridgeTypeOK, LateBounded, NoFaults
  <2>2. \A s \in Scripts : late[c][s] \in Nat
    BY <1>1 DEF BridgeInv, BridgeTypes, BridgeTypeOK
  <2> QED BY <2>1, <2>2 DEF LateScripts, LatePeer, LateOn, LateOff, LateFreeze, ScriptEnds,
                            Scripts
<1> QED BY <1>1, <1>2, <1>3, <1>4 DEF NoFaults, Lates

\* The role on record is that of the promotion in hand.
LEMMA RecheckStep ==
  ASSUME BridgeInv, OnRecord, BridgeNext, ~Fault, OnCore, NEW d \in Clients, job'[d] = "recheck"
  PROVE  owner' = d
<1> USE DEF work, roles, streams, tmux
<1>1. /\ job \in [Clients -> {"none"} \cup CoreJobs \cup AgentJobs]
      /\ conn \in [Clients -> Conns] /\ NoClient \notin Clients
      /\ \A c \in Clients : job[c] \in {"promote", "recheck"} <=> gridLock = c
      /\ \A c \in Clients : job[c] \notin AgentJobs
  BY ClientAssumption DEF BridgeInv, BridgeTypes, GridLocked, Placed, OnCore
<1>2. job[d] = "recheck" => owner = d /\ gridLock = d
  BY <1>1 DEF OnRecord
<1>3. CASE OpenPage \/ TmuxDies \/ Lates
  BY <1>2, <1>3, LateSteps DEF OpenPage, TmuxDies
<1>4. ASSUME NEW c \in Clients, NEW f \in Frames, NEW s \in Sizes \cup {NoSize}, Receive(c, f, s)
      PROVE  owner' = d
  BY <1>2, <1>4 DEF Receive
<1>5. ASSUME NEW c \in Clients, Attends(c) PROVE owner' = d
  <2>1. UNCHANGED job /\ (owner' = owner \/ Forget(c))
    BY <1>5
       DEF Attends, LocalConnect, RemoteEnsure, LocalSetup, LocalSetupFails, RemoteRegister,
           SshSpawn, SshSpawnFails, NodeAttachFails, NodeAttached, AgentAttach, Cut,
           Claim, Deny, Admit, Deliver, Forget, KillView, Leave, AgentClose
  <2> QED BY <1>1, <1>2, <2>1 DEF Forget
<1>6. ASSUME NEW c \in Clients, Adjusts(c) PROVE owner' = d
  <2>1. UNCHANGED owner
    BY <1>6
       DEF Adjusts, Begin, Synced, SetSize, GridSized, GridNotSized, Applied, Frozen,
           BootDemoted,
           Commit, NodeSkip, NodeAsk, NodeApplied, NodeAnswered, NodeDemoted, Fail, GiveUp
  <2>2. \A e \in Clients : job'[e] \in {job[e], "on", "off", "freeze", "asked"}
    BY <1>1, <1>6
       DEF Adjusts, Begin, Synced, SetSize, GridSized, GridNotSized, Applied, Frozen,
           BootDemoted,
           Commit, NodeSkip, NodeAsk, NodeApplied, NodeAnswered, NodeDemoted, Fail, GiveUp,
           Start
  <2> QED BY <1>2, <2>1, <2>2
<1>7. ASSUME NEW c \in Clients, Serves(c) PROVE owner' = d
  <2>1. RoleOn(c) \/ Promote(c) \/ Recheck(c) \/ RoleOff(c) \/ Freeze(c)
    BY <1>1, <1>7 DEF Serves, AgentRefuses, AgentRole, AgentMark, AgentSized, AgentNotSized,
                      AgentBoot, AgentJobs
  <2>2. CASE RoleOn(c) \/ RoleOff(c)
    BY <1>1, <1>2, <2>2 DEF RoleOn, RoleOff, Return
  <2>3. CASE Promote(c)
    BY <1>1, <1>2, <2>3 DEF Promote, Return
  <2>4. CASE Recheck(c) \/ Freeze(c)
    <3>1. job'[c] = "none" /\ \A e \in Clients \ {c} : job'[e] = job[e]
      BY <1>1, <2>4 DEF Recheck, Freeze, Return
    <3>2. c # d /\ gridLock = d
      BY <3>1, <1>2
    <3>3. Freeze(c)
      BY <1>1, <2>4, <3>2 DEF Recheck
    <3> QED BY <1>2, <3>1, <3>2, <3>3 DEF Freeze
  <2> QED BY <2>1, <2>2, <2>3, <2>4
<1> QED BY <1>3, <1>4, <1>5, <1>6, <1>7, BridgeSteps

\* On the Core the view with influence is the one on record, or its bridge leaves.
LEMMA OnRecordStep ==
  ASSUME BridgeInv, OnRecord, BridgeNext, ~Fault, ~Lates
  PROVE  OnRecord'
<1> USE DEF OnRecord, work, roles, streams, tmux
<1>0. OnCore' => \A c \in Clients : job'[c] = "recheck" => owner' = c
  BY RecheckStep, PlainTypeStep DEF BridgeInv, OnCore
<1> SUFFICES ASSUME OnCore', NEW d \in sizers', d \notin Leaving'
             PROVE  d = owner'
  BY <1>0
<1>1. /\ OnCore /\ conn \in [Clients -> Conns] /\ sizers \subseteq Clients /\ d \in Clients
      /\ sizers \subseteq {owner} \cup Leaving /\ Leaving \subseteq Clients
  BY PlainTypeStep DEF BridgeInv, BridgeTypes, BridgeTypeOK, OnCore, Leaving
<1>2. d \in sizers => d = owner
  BY <1>1, LeavingStep
<1>3. CASE OpenPage \/ TmuxDies \/ Lates
  BY <1>2, <1>3, LateSteps DEF OpenPage, TmuxDies
<1>4. ASSUME NEW c \in Clients, NEW f \in Frames, NEW s \in Sizes \cup {NoSize}, Receive(c, f, s)
      PROVE  d = owner'
  BY <1>2, <1>4 DEF Receive
<1>5. ASSUME NEW c \in Clients, Attends(c) PROVE d = owner'
  <2>1. d \in sizers
    BY <1>5
       DEF Attends, LocalConnect, RemoteEnsure, LocalSetup, LocalSetupFails, RemoteRegister,
           SshSpawn, SshSpawnFails, NodeAttachFails, NodeAttached, AgentAttach, Cut,
           Claim, Deny, Admit, Deliver, Forget, KillView, Leave, AgentClose
  <2>2. CASE Forget(c)
    <3>1. c \in Leaving'
      BY <1>1, <2>2 DEF Forget, Go, Conns, Leaving
    <3> QED BY <1>2, <2>1, <2>2, <3>1 DEF Forget
  <2>3. CASE ~Forget(c)
    <3>1. owner' = owner
      BY <1>5, <2>3
         DEF Attends, LocalConnect, RemoteEnsure, LocalSetup, LocalSetupFails, RemoteRegister,
             SshSpawn, SshSpawnFails, NodeAttachFails, NodeAttached, AgentAttach, Cut,
             Claim, Deny, Admit, Deliver, KillView, Leave, AgentClose
    <3> QED BY <1>2, <2>1, <3>1
  <2> QED BY <2>2, <2>3
<1>6. ASSUME NEW c \in Clients, Adjusts(c) PROVE d = owner'
  <2>1. UNCHANGED <<sizers, owner>>
    BY <1>6
       DEF Adjusts, Begin, Synced, SetSize, GridSized, GridNotSized, Applied, Frozen,
           BootDemoted,
           Commit, NodeSkip, NodeAsk, NodeApplied, NodeAnswered, NodeDemoted, Fail, GiveUp
  <2> QED BY <1>2, <2>1
<1>7. ASSUME NEW c \in Clients, Serves(c) PROVE d = owner'
  <2>1. job[c] \notin AgentJobs
    BY <1>1 DEF BridgeInv, Placed, OnCore
  <2>2. RoleOn(c) \/ Promote(c) \/ Recheck(c) \/ RoleOff(c) \/ Freeze(c)
    BY <1>7, <2>1 DEF Serves, AgentRefuses, AgentRole, AgentMark, AgentSized, AgentNotSized,
                      AgentBoot, AgentJobs
  <2>3. CASE RoleOn(c)
    BY <1>2, <2>3 DEF RoleOn, Demoted
  <2>4. CASE Promote(c)
    BY <1>2, <2>4 DEF Promote, Promoted, CallFails, Breaks
  <2>5. CASE Recheck(c) \/ RoleOff(c)
    <3>1. owner = c \/ UNCHANGED <<sizers, owner>>
      BY <1>1, <2>5 DEF Recheck, RoleOff
    <3> QED BY <1>2, <2>5, <3>1 DEF Recheck, RoleOff, Demoted
  <2>6. CASE Freeze(c)
    BY <1>2, <2>6 DEF Freeze
  <2> QED BY <2>2, <2>3, <2>4, <2>5, <2>6
<1> QED BY <1>3, <1>4, <1>5, <1>6, <1>7, BridgeSteps

\* Influence is new only for a view whose plan is in hand or whose bridge leaves.
LEMMA NewSizer ==
  ASSUME BridgeInv, Viewed, ForPlan, BridgeNext, ~Lates, NEW y \in sizers', y \notin sizers
  PROVE  y \in Clients /\ (y \in Leaving' \/ (Mine(y) /\ plan' = plan))
<1>1. PICK c \in Clients : /\ (OnCore /\ Promote(c)) \/ (AgentRole(c) /\ want[c] # "off")
                           /\ sizers' \subseteq {c} /\ c \in views
  BY SizersGiven
<1>2. y = c /\ conn' = conn /\ plan' = plan
  BY <1>1 DEF Promote, AgentRole, vars, control, boot, resize, history
<1>3. job[c] = "promote" \/ (job[c] = "asked" /\ want[c] # "off")
  BY <1>1 DEF Promote, AgentRole
<1>4. conn[c].pc \in Ended \/ Mine(c)
  BY <1>3 DEF ForPlan, FitsPlan, AgentJobs
<1>5. conn[c].pc \in Ended => c \in Leaving
  BY <1>1 DEF Viewed, Leaving, Ended
<1> QED BY <1>2, <1>4, <1>5 DEF Leaving

\* A plan on the Core that has not reached the backend is that of the owner of
\* the grid.
LEMMA PlannedCanResize ==
  ASSUME BridgeInv, OnCore, NEW c \in Clients, Mine(c), conn[c].pc = "role"
  PROVE  CanResize(c)
<1>1. ~bootApplied
  BY DEF BridgeInv, PlanOwns, BootstrapAccounting, Mine
<1>2. inputOwner = c \/ (inputOwner = NoClient /\ bootOwner = c)
  BY DEF BridgeInv, PlanOwns, Mine
<1>3. NoClient \notin Clients /\ NoClient \notin Connected
  BY ClientAssumption DEF BridgeInv, BridgeTypes, BridgeTypeOK, TypeOK, Connected, Range
<1> QED BY <1>1, <1>2, <1>3 DEF BridgeInv, OwnersConnected, CanResize, ResizeOwner

\* A plan that was given the grid shares it with no bridge that stays.
LEMMA TakenAloneStep ==
  ASSUME BridgeInv, Viewed, ForPlan, OnRecord, TakenAlone, BridgeNext, ~Fault, ~Lates
  PROVE  TakenAlone'
<1> USE DEF work, roles, streams, tmux
<1>1. /\ conn \in [Clients -> Conns]
      /\ job \in [Clients -> {"none"} \cup CoreJobs \cup AgentJobs]
      /\ out \in [Clients -> {"none", "ok", "failed", "retry", "raised", "closed"}]
      /\ want \in [Clients -> {"on", "boot", "off"}]
      /\ sizers \subseteq Clients
      /\ OnCore <=> backend # "node"
  BY BackendAssumption DEF BridgeInv, BridgeTypes, BridgeTypeOK, OnCore
<1> SUFFICES ASSUME NEW d \in Clients, Mine(d)', Taken(d)', NEW y \in sizers', y \notin Leaving'
             PROVE  y = d
  BY DEF TakenAlone
<1>2. CASE y \notin sizers
  BY <1>2, NewSizer DEF Mine
<1>3. CASE y \in sizers /\ Mine(d) /\ Taken(d)
  BY <1>3, LeavingStep DEF TakenAlone
<1>4. CASE y \in sizers /\ ~(Mine(d) /\ Taken(d))
  <2>1. y \notin Leaving
    BY <1>4, LeavingStep
  <2>2. CASE OpenPage \/ TmuxDies \/ Lates
    <3>1. UNCHANGED <<conn, job, out, plan>>
      BY <2>2, LateSteps DEF OpenPage, TmuxDies, LocalEnsure, SshEnsure, NodeEnsure, EnsureOnCore,
                  MarkGridFresh, vars, control, boot, resize, history
    <3> QED BY <1>4, <3>1 DEF Mine, Taken
  <2>3. ASSUME NEW c \in Clients, NEW f \in Frames, NEW s \in Sizes \cup {NoSize}, Receive(c, f, s)
        PROVE  y = d
    <3>1. UNCHANGED <<job, out, plan>> /\ conn'[c].pc = "enter"
          /\ \A e \in Clients \ {c} : conn'[e] = conn[e]
      BY <1>1, <2>3 DEF Receive, Conns, vars, control, boot, resize, history
    <3> QED BY <1>4, <3>1 DEF Mine, Taken
  <2>4. ASSUME NEW c \in Clients, Attends(c) \/ Adjusts(c) \/ Serves(c), c # d
        PROVE  y = d
    BY <1>4, <2>4, OneMoves DEF Taken
  <2>5. CASE Attends(d) /\ ~Adjusts(d)
    <3>1. UNCHANGED <<job, out>>
      BY <2>5
         DEF Attends, LocalConnect, RemoteEnsure, LocalSetup, LocalSetupFails, RemoteRegister,
             SshSpawn, SshSpawnFails, NodeAttachFails, NodeAttached, AgentAttach, Cut,
             Claim, Deny, Admit, Deliver, Forget, KillView, Leave, AgentClose
    <3>2. conn'[d].pc \in Waiting \cup {"size", "applied", "commit", "answered"}
          => conn'[d].pc = conn[d].pc
      BY <1>1, <2>5
         DEF Attends, LocalConnect, RemoteEnsure, LocalSetup, LocalSetupFails, RemoteRegister,
             SshSpawn, SshSpawnFails, NodeAttachFails, NodeAttached, AgentAttach, Cut,
             Claim, Deny, Admit, Deliver, Forget, KillView, Leave, AgentClose, Go, Done, Conns,
             Waiting
    <3>3. Mine(d)
      BY <2>5, PlanMoves DEF Mine, Attends, Adjusts
    <3> QED BY <1>4, <3>1, <3>2, <3>3 DEF Taken, Waiting
  <2>6. CASE Adjusts(d)
    <3>1. Taken(d) /\ ~Begin(d)
      <4>1. CASE Begin(d) \/ NodeAsk(d)
        BY <1>1, <2>6, <4>1 DEF Begin, NodeAsk, Start, Go, Conns, Taken
      <4>2. CASE Fail(d) \/ GiveUp(d)
        BY <1>1, <4>2 DEF Fail, GiveUp, Go, Done, Conns, Taken
      <4>3. CASE /\ \/ Synced(d) \/ SetSize(d) \/ GridSized(d) \/ GridNotSized(d) \/ Applied(d)
                    \/ Frozen(d) \/ BootDemoted(d) \/ Commit(d)
                 /\ ~(Fail(d) \/ GiveUp(d))
        BY <1>1, <4>3
           DEF Synced, SetSize, GridSized, GridNotSized, Applied, Frozen, BootDemoted, Commit,
               Begin,
               Taken
      <4>4. CASE (NodeSkip(d) \/ NodeDemoted(d)) /\ ~(Fail(d) \/ GiveUp(d))
        BY <1>1, <4>4 DEF NodeSkip, NodeDemoted, Go, Conns, Taken
      <4>5. CASE NodeApplied(d)
        BY <4>5 DEF NodeApplied, Taken, Begin
      <4>6. CASE NodeAnswered(d) /\ ~(Fail(d) \/ GiveUp(d))
        BY <1>1, <4>6 DEF NodeAnswered, Conns, Taken
      <4> QED BY <2>6, <4>1, <4>2, <4>3, <4>4, <4>5, <4>6 DEF Adjusts
    <3>2. Mine(d)
      BY <2>6, <3>1, PlanMoves DEF Mine
    <3> QED BY <1>4, <3>1, <3>2
  <2>7. CASE Serves(d)
    <3>1. conn' = conn /\ plan' = plan /\ want' = want
      BY <2>7
         DEF Serves, RoleOn, Promote, Recheck, RoleOff, Freeze, AgentRefuses, AgentRole,
             AgentMark,
             AgentSized, AgentNotSized, AgentBoot, vars, control, boot, resize, history
    <3>2. Mine(d)
      BY <3>1 DEF Mine
    <3>3. ~Taken(d)
      BY <1>4, <3>2
    <3>4. conn[d].pc \in {"role", "answer"}
      BY <3>1, <3>3 DEF Taken
    <3>5. CASE conn[d].pc = "role"
      <4>1. OnCore /\ job[d] \notin AgentJobs /\ job[d] \notin {"off", "freeze"}
        BY <1>1, <3>2, <3>5 DEF BridgeInv, Placed, ForPlan, FitsPlan, OnCore
      <4>2. RoleOn(d) \/ Promote(d) \/ Recheck(d)
        BY <2>7, <4>1 DEF Serves, AgentRefuses, AgentRole, AgentMark, AgentSized,
                          AgentNotSized,
                          AgentBoot, AgentJobs, RoleOff, Freeze
      <4>3. CASE RoleOn(d)
        <5>1. CanResize(d)
          BY <3>2, <3>5, <4>1, PlannedCanResize
        <5>2. owner = d
          BY <1>1, <3>1, <3>5, <4>3, <5>1 DEF RoleOn, Taken
        <5> QED BY <1>4, <2>1, <4>1, <5>2 DEF OnRecord
      <4>4. CASE Promote(d)
        BY <1>1, <3>1, <3>5, <4>4 DEF Promote, Promoted, Return, Taken
      <4>5. CASE Recheck(d)
        BY <3>3, <3>5, <4>5 DEF Recheck, Taken
      <4> QED BY <4>2, <4>3, <4>4, <4>5
    <3>6. CASE conn[d].pc = "answer"
      <4>1. ~OnCore /\ want[d] # "off" /\ job[d] \notin CoreJobs
        BY <1>1, <3>2, <3>6 DEF BridgeInv, Placed, ForPlan, FitsPlan, OnCore
      <4>2. job[d] \notin {"marked", "sizing", "boot"}
        BY <3>3, <3>6 DEF Taken
      <4>3. AgentRefuses(d) \/ AgentRole(d)
        BY <2>7, <4>1, <4>2 DEF Serves, AgentMark, AgentSized, AgentNotSized, AgentBoot
      <4>4. CASE AgentRefuses(d)
        BY <1>1, <3>1, <3>6, <4>4 DEF AgentRefuses, Return, Taken
      <4>5. CASE AgentRole(d)
        BY <1>1, <3>1, <3>6, <4>1, <4>5 DEF AgentRole, Promoted, Return, Taken
      <4> QED BY <4>3, <4>4, <4>5
    <3> QED BY <3>4, <3>5, <3>6
  <2> QED BY <2>2, <2>3, <2>4, <2>5, <2>6, <2>7, BridgeSteps
<1> QED BY <1>2, <1>3, <1>4

\* A step of one bridge gives influence to no other view.
LEMMA SizersOf ==
  ASSUME BridgeInv, NEW c \in Clients, Attends(c) \/ Adjusts(c) \/ Serves(c)
  PROVE  sizers' \subseteq sizers \cup {c}
<1> USE DEF work, roles, streams, tmux
<1>1. CASE Attends(c) \/ Adjusts(c)
  BY <1>1
     DEF Attends, LocalConnect, RemoteEnsure, LocalSetup, LocalSetupFails, RemoteRegister,
         SshSpawn, SshSpawnFails, NodeAttachFails, NodeAttached, AgentAttach, Cut,
         Claim, Deny, Admit, Deliver, Forget, KillView, Leave, AgentClose,
         Adjusts, Begin, Synced, SetSize, GridSized, GridNotSized, Applied, Frozen,
         BootDemoted,
         Commit, NodeSkip, NodeAsk, NodeApplied, NodeAnswered, NodeDemoted, Fail, GiveUp
<1>2. PromotedPartly(c) => sizers' \subseteq sizers \cup {c}
  BY DEF PromotedPartly
<1>3. CASE Serves(c)
  BY <1>2, <1>3
     DEF Serves, RoleOn, Promote, Recheck, RoleOff, Freeze, AgentRefuses, AgentRole, AgentMark,
         AgentSized, AgentNotSized, AgentBoot, Promoted, Demoted
<1> QED BY <1>1, <1>3

\* A view whose resize is given up has no influence, and the agent knows which
\* of its views have it.
LEMMA RefusedStep ==
  ASSUME BridgeInv, Viewed, ForPlan, RefusedOut, AllKnown, BridgeNext, ~Fault, ~Lates
  PROVE  RefusedOut' /\ AllKnown'
<1> USE DEF work, roles, streams, tmux
<1>1. /\ conn \in [Clients -> Conns]
      /\ job \in [Clients -> {"none"} \cup CoreJobs \cup AgentJobs]
      /\ out \in [Clients -> {"none", "ok", "failed", "retry", "raised", "closed"}]
      /\ want \in [Clients -> {"on", "boot", "off"}]
      /\ active \in [Clients -> BOOLEAN]
      /\ sizers \subseteq Clients /\ sizers \subseteq views
      /\ OnCore <=> backend # "node"
  BY BackendAssumption DEF BridgeInv, BridgeTypes, BridgeTypeOK, OnCore
<1> SUFFICES ASSUME NEW d \in Clients
             PROVE  (Refused(d)' => d \notin sizers') /\ Known(d)'
  BY DEF RefusedOut, AllKnown
<1>2. (Refused(d) => d \notin sizers) /\ Known(d)
  BY DEF RefusedOut, AllKnown
<1>3. CASE OpenPage \/ TmuxDies \/ Lates
  <2>1. UNCHANGED <<conn, job, out, want, active>> /\ sizers' \subseteq sizers
    BY <1>3, LateSteps DEF OpenPage, TmuxDies
  <2> QED BY <1>2, <2>1 DEF Refused, Known
<1>4. ASSUME NEW c \in Clients, NEW f \in Frames, NEW s \in Sizes \cup {NoSize}, Receive(c, f, s)
      PROVE  (Refused(d)' => d \notin sizers') /\ Known(d)'
  <2>1. UNCHANGED <<job, out, want, active, sizers>> /\ conn'[c].pc = "enter"
        /\ \A e \in Clients \ {c} : conn'[e] = conn[e]
    BY <1>1, <1>4 DEF Receive, Conns
  <2> QED BY <1>2, <2>1 DEF Refused, Known
<1>5. ASSUME NEW c \in Clients, Attends(c) \/ Adjusts(c) \/ Serves(c), c # d
      PROVE  (Refused(d)' => d \notin sizers') /\ Known(d)'
  BY <1>2, <1>5, OneMoves, SizersOf DEF Refused, Known
<1>6. CASE Attends(d)
  <2>1. UNCHANGED <<job, out, want, active>> /\ sizers' \subseteq sizers
    BY <1>6
       DEF Attends, LocalConnect, RemoteEnsure, LocalSetup, LocalSetupFails, RemoteRegister,
           SshSpawn, SshSpawnFails, NodeAttachFails, NodeAttached, AgentAttach, Cut,
           Claim, Deny, Admit, Deliver, Forget, KillView, Leave, AgentClose
  <2>2. conn'[d].pc \in {"role", "answer", "answered", "demoting"} => conn'[d].pc = conn[d].pc
    BY <1>1, <1>6
       DEF Attends, LocalConnect, RemoteEnsure, LocalSetup, LocalSetupFails, RemoteRegister,
           SshSpawn, SshSpawnFails, NodeAttachFails, NodeAttached, AgentAttach, Cut,
           Claim, Deny, Admit, Deliver, Forget, KillView, Leave, AgentClose, Go, Done, Conns
  <2> QED BY <1>2, <2>1, <2>2 DEF Refused, Known
<1>7. CASE Adjusts(d)
  <2>1. UNCHANGED <<sizers, active>>
    BY <1>7
       DEF Adjusts, Begin, Synced, SetSize, GridSized, GridNotSized, Applied, Frozen,
           BootDemoted,
           Commit, NodeSkip, NodeAsk, NodeApplied, NodeAnswered, NodeDemoted, Fail, GiveUp
  <2>2. CASE Begin(d)
    <3>1. \/ conn'[d].pc = "role" /\ job'[d] \in {"on", "off"}
          \/ conn'[d].pc = "ask" /\ job' = job /\ want' = want
      BY <1>1, <2>2 DEF Begin, Start, Go, Conns
    <3> QED BY <1>2, <2>1, <3>1 DEF Refused, Known
  <2>3. CASE NodeAsk(d)
    <3>1. conn'[d].pc = "answer" /\ job'[d] = "asked"
      BY <1>1, <2>3 DEF NodeAsk, Start, Go, Conns
    <3> QED BY <3>1 DEF Refused, Known
  <2>4. CASE /\ \/ Fail(d) \/ GiveUp(d) \/ Synced(d) \/ SetSize(d) \/ GridSized(d) \/ GridNotSized(d)
                \/ Commit(d) \/ NodeSkip(d) \/ NodeDemoted(d)
    <3>1. UNCHANGED <<job, want>>
      BY <2>4 DEF Fail, GiveUp, Synced, SetSize, GridSized, GridNotSized, Commit, NodeSkip,
                  NodeDemoted
    <3>2. conn'[d].pc \notin {"role", "answer", "answered", "demoting"}
      BY <1>1, <2>4
         DEF Fail, GiveUp, Synced, SetSize, GridSized, GridNotSized, Commit, NodeSkip,
             NodeDemoted,
             Go, Done, Conns
    <3> QED BY <1>2, <2>1, <3>1, <3>2 DEF Refused, Known
  <2>5. CASE (Applied(d) \/ Frozen(d) \/ BootDemoted(d)) /\ ~Fail(d)
    <3>1. conn'[d].pc \in {"freeze", "boot_off", "commit"} /\ want' = want
          /\ job'[d] \in {job[d], "freeze", "off"}
      BY <1>1, <2>5 DEF Applied, Frozen, BootDemoted, Go, Start, Conns
    <3> QED BY <1>2, <2>1, <3>1 DEF Refused, Known
  <2>6. CASE NodeApplied(d)
    <3>1. conn'[d].pc = "answered" /\ conn[d].pc = "answer" /\ UNCHANGED <<job, out, want>>
      BY <1>1, <2>6 DEF NodeApplied, Go, Conns
    <3> QED BY <1>2, <2>1, <3>1 DEF Refused, Known
  <2>7. CASE NodeAnswered(d) /\ ~Fail(d) /\ ~GiveUp(d)
    <3>1. conn'[d].pc \in {"deliver", "demoting"} /\ job[d] = "none" /\ out[d] = "ok"
          /\ conn[d].pc \in {"answer", "answered"}
      BY <1>1, <2>7 DEF NodeAnswered, Conns
    <3>2. CASE conn'[d].pc = "deliver"
      <4>1. job'[d] = "none"
        BY WorkingStep, <3>2 DEF BridgeInv, Working, Ended, Waiting
      <4> QED BY <3>2, <4>1 DEF Refused, Known
    <3>3. CASE conn'[d].pc = "demoting"
      <4>1. Mine(d) /\ ~PlanCurrent
        BY <1>1, <2>7, <3>3 DEF NodeAnswered, Conns
      <4>2. job'[d] = "asked" /\ want'[d] = "off"
        BY <1>1, <2>7, <4>1 DEF NodeAnswered, CommitResize, Start
      <4>3. want[d] \in {"on", "boot"}
        BY <1>1, <3>1, <4>1 DEF ForPlan, FitsPlan
      <4>4. active[d] \/ d \notin sizers
        BY <1>2, <3>1, <4>3 DEF Refused, Known
      <4> QED BY <2>1, <3>3, <4>2, <4>4 DEF Refused, Known
    <3> QED BY <3>1, <3>2, <3>3
  <2> QED BY <1>7, <2>2, <2>3, <2>4, <2>5, <2>6, <2>7 DEF Adjusts
<1>8. CASE Serves(d)
  <2>1. conn' = conn /\ want' = want
    BY <1>8
       DEF Serves, RoleOn, Promote, Recheck, RoleOff, Freeze, AgentRefuses, AgentRole,
           AgentMark,
           AgentSized, AgentNotSized, AgentBoot
  <2>2. CASE OnCore
    <3>1. job[d] \notin AgentJobs /\ conn[d].pc \notin {"answer", "answered", "demoting"}
      BY <1>1, <2>2 DEF BridgeInv, Placed, OnCore
    <3>2. RoleOn(d) \/ Promote(d) \/ Recheck(d) \/ RoleOff(d) \/ Freeze(d)
      BY <1>8, <3>1 DEF Serves, AgentRefuses, AgentRole, AgentMark, AgentSized, AgentNotSized,
                        AgentBoot, AgentJobs
    <3>3. job'[d] \in {"none", "promote", "recheck"}
      BY <1>1, <3>2 DEF RoleOn, Promote, Recheck, RoleOff, Freeze, Return
    <3>4. Known(d)'
      BY <2>1, <3>1, <3>3 DEF Known
    <3>5. ASSUME conn[d].pc = "role", job'[d] = "none", out'[d] = "failed" PROVE d \notin sizers'
      <4>1. ~Freeze(d)
        BY <3>5 DEF ForPlan, FitsPlan, Freeze
      <4>2. CASE RoleOn(d) \/ RoleOff(d)
        BY <1>1, <3>5, <4>2 DEF RoleOn, RoleOff, Return, Breaks, CallFails
      <4>3. CASE Promote(d) \/ Recheck(d)
        BY <1>1, <3>5, <4>3 DEF Promote, Recheck, Return, Breaks, CallFails
      <4> QED BY <3>2, <4>1, <4>2, <4>3
    <3> QED BY <2>1, <3>1, <3>4, <3>5 DEF Refused
  <2>3. CASE ~OnCore
    <3>1. job[d] \notin CoreJobs /\ conn[d].pc # "role"
      BY <1>1, <2>3 DEF BridgeInv, Placed, OnCore
    <3>2. CASE AgentRefuses(d)
      BY <1>1, <2>1, <3>1, <3>2 DEF AgentRefuses, Return, Refused, Known
    <3>3. CASE AgentRole(d)
      <4>1. \/ job'[d] = "marked" /\ want[d] # "off"
            \/ job'[d] = "marked" /\ want[d] = "off" /\ active[d] /\ d \notin sizers'
            \/ job'[d] = "marked" /\ want[d] = "off" /\ ~active[d] /\ sizers' = sizers
            \/ job'[d] = "none" /\ out'[d] = "raised"
            \/ job'[d] = "none" /\ out'[d] = "retry" /\ want[d] # "off" /\ d \notin sizers'
        BY <1>1, <3>3 DEF AgentRole, Return, Breaks, CallFails, Promoted, PromotedPartly, Demoted
      <4>2. job[d] = "asked" /\ active' = active
        BY <3>3 DEF AgentRole
      <4>3. conn[d].pc = "demoting" => want[d] = "off" /\ (active[d] \/ d \notin sizers)
        BY <1>2, <4>2 DEF ForPlan, FitsPlan, Known
      <4> QED BY <2>1, <3>1, <4>1, <4>2, <4>3 DEF Refused, Known
    <3>4. CASE AgentMark(d)
      BY <1>1, <1>2, <2>1, <3>1, <3>4 DEF AgentMark, Refused, Known
    <3>5. CASE AgentSized(d)
      <4>1. /\ job[d] = "sizing" /\ active' = active /\ sizers' = sizers
            /\ \/ job'[d] = "boot" /\ want[d] = "boot"
               \/ job'[d] = "none" /\ want[d] # "boot"
        BY <1>1, <3>5 DEF AgentSized, Return
      <4>2. conn[d].pc = "demoting" => want[d] = "off"
        BY DEF ForPlan, FitsPlan
      <4> QED BY <1>1, <1>2, <2>1, <3>1, <4>1, <4>2, <3>5 DEF AgentSized, Return, Refused,
           Known
    <3>6. CASE AgentNotSized(d)
      <4>1. job'[d] = "none" /\ (out'[d] = "raised" \/ (out'[d] = "retry" /\ d \notin sizers'))
        BY <1>1, <3>6 DEF AgentNotSized, Return, Demoted
      <4> QED BY <2>1, <3>1, <4>1 DEF Refused, Known
    <3>7. CASE AgentBoot(d)
      <4>1. want[d] = "boot" /\ conn[d].pc # "demoting"
        BY <3>7 DEF AgentBoot, ForPlan, FitsPlan
      <4>2. job'[d] = "none" /\ (out'[d] = "closed" \/ (out'[d] = "ok" /\ d \notin sizers'))
        BY <1>1, <3>7 DEF AgentBoot, Return
      <4> QED BY <2>1, <3>1, <4>1, <4>2 DEF Refused, Known
    <3> QED BY <1>8, <2>3, <3>2, <3>3, <3>4, <3>5, <3>6, <3>7 DEF Serves
  <2> QED BY <2>2, <2>3
<1> QED BY <1>3, <1>4, <1>5, <1>6, <1>7, <1>8, BridgeSteps

\* The committed size changes with a disconnect, or with the commit of a plan that
\* was given the grid.
LEMMA AppliedMoves ==
  ASSUME BridgeInv, NEW c \in Clients, Attends(c) \/ Adjusts(c) \/ Serves(c)
  PROVE  \/ applied' = applied \/ applied' = NoResize
         \/ Mine(c) /\ Taken(c) /\ applied' # NoResize /\ applied'.client = c
<1> USE DEF vars, control, boot, resize, history
<1>1. CASE Serves(c)
  BY <1>1
     DEF Serves, RoleOn, Promote, Recheck, RoleOff, Freeze, AgentRefuses, AgentRole, AgentMark,
         AgentSized, AgentNotSized, AgentBoot
<1>2. CASE Attends(c)
  <2>1. \/ UNCHANGED vars \/ Register(c) \/ Unregister(c) \/ MarkGridFresh(NoClient)
        \/ MarkGridFresh(c) \/ MarkGridExisting \/ ClaimControl(c) \/ MarkInput(c) \/ AbortResize
    BY <1>2
       DEF Attends, LocalConnect, RemoteEnsure, LocalSetup, LocalSetupFails, RemoteRegister,
           SshSpawn, SshSpawnFails, NodeAttachFails, NodeAttached, AgentAttach, Cut,
           Claim, Deny, Admit, Deliver, Forget, KillView, Leave, AgentClose,
           LocalEnsure, SshEnsure, NodeEnsure, EnsureOnCore
  <2> QED BY <2>1 DEF Register, Unregister, UnregisterAt, MarkGridFresh, MarkGridExisting,
                      ClaimControl, MarkInput, AbortResize
<1>3. CASE Adjusts(c)
  <2>1. \/ UNCHANGED vars \/ BeginResize(c, conn[c].size) \/ AbortResize \/ ResizeApplied
        \/ CommitResize
    BY <1>3
       DEF Adjusts, Begin, Synced, SetSize, GridSized, GridNotSized, Applied, Frozen,
           BootDemoted,
           Commit, NodeSkip, NodeAsk, NodeApplied, NodeAnswered, NodeDemoted, Fail, GiveUp
  <2>2. CASE ~CommitResize
    BY <2>1, <2>2 DEF BeginResize, AbortResize, ResizeApplied
  <2>3. CASE CommitResize
    <3>1. plan \in Plans /\ NoResize \notin Resizes /\ NoPlan \notin Plans
      BY <2>3, ClientAssumption
         DEF CommitResize, PlanCurrent, BridgeInv, BridgeTypes, BridgeTypeOK, TypeOK, Plans,
             Resizes
    <3>2. applied' = [client |-> plan.client, size |-> plan.size]
      BY <2>3 DEF CommitResize
    <3>3. conn[c].pc \in Handling
      BY <1>3
         DEF Adjusts, Begin, Synced, SetSize, GridSized, GridNotSized, Applied, Frozen,
             BootDemoted, Commit, NodeSkip, NodeAsk, NodeApplied, NodeAnswered, NodeDemoted,
             Handling, Waiting
    <3>4. Mine(c)
      BY <2>3, <3>3 DEF CommitResize, PlanCurrent, BridgeInv, Locked, Planned, Mine
    <3>5. applied' # NoResize /\ applied'.client = c
      BY <3>1, <3>2, <3>4 DEF Mine, Plans, Resizes
    <3>6. CASE Commit(c)
      BY <3>4, <3>5, <3>6 DEF Commit, Taken
    <3>7. CASE NodeAnswered(c)
      <4>1. CASE AbortResize
        BY <4>1 DEF AbortResize
      <4>2. CASE ~AbortResize
        <5>1. plan # NoPlan /\ plan' = NoPlan
          BY <2>3 DEF CommitResize, PlanCurrent
        <5>2. out[c] = "ok" /\ job[c] = "none"
          BY <3>4, <3>7, <4>2 DEF NodeAnswered, Fail, GiveUp
        <5>3. conn[c].pc = "answered"
          BY <3>4, <3>7, <5>2 DEF NodeAnswered
        <5> QED BY <3>4, <3>5, <5>3 DEF Taken
      <4> QED BY <4>1, <4>2
    <3>8. CASE NodeSkip(c)
      BY <3>2, <3>4, <3>8 DEF NodeSkip, BridgeInv, PlanOwns, Mine
    <3>9. CASE ~(Commit(c) \/ NodeAnswered(c) \/ NodeSkip(c))
      <4>1. plan' # NoPlan \/ AbortResize \/ UNCHANGED vars
        BY <1>3, <3>9, <2>3
           DEF Adjusts, Begin, Synced, SetSize, GridSized, GridNotSized, Applied, Frozen,
               BootDemoted, NodeAsk, NodeApplied, NodeDemoted, Fail, GiveUp, BeginResize,
               ResizeApplied, CommitResize, PlanCurrent
      <4>2. plan' = NoPlan /\ plan # NoPlan
        BY <2>3 DEF CommitResize, PlanCurrent
      <4> QED BY <4>1, <4>2 DEF AbortResize
    <3> QED BY <3>6, <3>7, <3>8, <3>9
  <2> QED BY <2>2, <2>3
<1> QED BY <1>1, <1>2, <1>3

\* A bridge that gives up its plan and stays has no influence, or the committed
\* size.
LEMMA PlanDropped ==
  ASSUME BridgeInv, RefusedOut, NEW c \in sizers, c \in Clients, Attends(c) \/ Adjusts(c),
         Mine(c), plan' = NoPlan, conn' \in [Clients -> Conns]
  PROVE  c \in Leaving' \/ (applied' # NoResize /\ applied'.client = c)
<1> USE DEF vars, control, boot, resize, history
<1>1. conn \in [Clients -> Conns] /\ ~Refused(c) /\ plan # NoPlan
  BY DEF BridgeInv, BridgeTypes, RefusedOut, Mine
<1>2. CASE Fail(c) \/ Done(c, "leaving")
  BY <1>1, <1>2 DEF Fail, Done, Conns, Leaving
<1>3. CASE Attends(c) /\ ~Done(c, "leaving")
  <2>1. \/ UNCHANGED plan \/ Cut(c)
    BY <1>3
       DEF Attends, LocalConnect, RemoteEnsure, LocalSetup, LocalSetupFails, RemoteRegister,
           SshSpawn, SshSpawnFails, NodeAttachFails, NodeAttached, AgentAttach,
           Claim, Deny, Admit, Deliver, Forget, KillView, Leave, AgentClose,
           LocalEnsure, SshEnsure, NodeEnsure, EnsureOnCore, Register, Unregister,
           UnregisterAt,
           MarkGridFresh, MarkGridExisting, ClaimControl, MarkInput
  <2>2. Cut(c) => UNCHANGED plan
    BY <1>1, <1>3 DEF Cut, Waiting
  <2> QED BY <1>1, <2>1, <2>2
<1>4. CASE GiveUp(c) /\ Synced(c)
  BY <1>1, <1>4 DEF Synced, GiveUp, Go, Conns, Refused
<1>5. CASE GiveUp(c) /\ NodeAnswered(c) /\ ~Fail(c) /\ ~CommitResize
  <2>1. conn[c].pc \in {"answer", "answered"} /\ job[c] = "none"
    BY <1>5 DEF NodeAnswered
  <2>2. out[c] = "retry" \/ UNCHANGED vars
    BY <1>5 DEF NodeAnswered
  <2> QED BY <1>1, <2>1, <2>2 DEF Refused
<1>6. CASE CommitResize
  <2>1. applied' = [client |-> plan.client, size |-> plan.size]
    BY <1>6 DEF CommitResize
  <2>2. plan \in Plans /\ NoResize \notin Resizes
    BY <1>1, ClientAssumption DEF BridgeInv, BridgeTypes, BridgeTypeOK, TypeOK, Resizes
  <2> QED BY <2>1, <2>2 DEF Mine, Plans, Resizes
<1>7. CASE NodeDemoted(c) /\ ~Fail(c)
  BY <1>1, <1>7 DEF NodeDemoted, Refused
<1>8. CASE NodeSkip(c) /\ ~CommitResize
  <2>1. ~plan.apply /\ AbortResize /\ plan.client = c
    BY <1>8 DEF NodeSkip, Mine
  <2>2. applied = [client |-> c, size |-> plan.size] /\ applied' = applied
    BY <1>1, <2>1 DEF BridgeInv, PlanOwns, AbortResize
  <2>3. plan \in Plans /\ NoResize \notin Resizes
    BY <1>1, ClientAssumption DEF BridgeInv, BridgeTypes, BridgeTypeOK, TypeOK, Resizes
  <2> QED BY <2>2, <2>3 DEF Plans, Resizes
<1>9. CASE Adjusts(c) /\ ~Fail(c) /\ ~GiveUp(c) /\ ~CommitResize /\ ~NodeDemoted(c) /\ ~NodeSkip(c)
  <2>1. UNCHANGED vars \/ ResizeApplied \/ BeginResize(c, conn[c].size)
    BY <1>9
       DEF Adjusts, Begin, Synced, SetSize, GridSized, GridNotSized, Applied, Frozen,
           BootDemoted, Commit, NodeAsk, NodeApplied, NodeAnswered
  <2> QED BY <1>1, <2>1 DEF ResizeApplied, BeginResize
<1>10. CASE Adjusts(c) /\ GiveUp(c) /\ ~Synced(c) /\ ~NodeAnswered(c)
  <2>1. conn'[c].pc = "deliver" /\ AbortResize
    BY <1>1, <1>10 DEF GiveUp, Go, Conns
  <2>2. Commit(c) \/ NodeSkip(c) \/ NodeDemoted(c) \/ UNCHANGED vars \/ Begin(c) \/ Applied(c)
        \/ NodeApplied(c) \/ Fail(c)
    BY <1>10
       DEF Adjusts, SetSize, GridSized, GridNotSized, Frozen, BootDemoted, NodeAsk
  <2>3. CASE Commit(c)
    BY <2>3, <1>6 DEF Commit
  <2>4. CASE Begin(c) \/ Applied(c) \/ NodeApplied(c)
    BY <1>1, <2>1, <2>4 DEF Begin, Applied, NodeApplied, Go, Conns
  <2> QED BY <1>1, <1>2, <1>6, <1>7, <1>8, <2>2, <2>3, <2>4
<1> QED BY <1>2, <1>3, <1>4, <1>5, <1>6, <1>7, <1>8, <1>9, <1>10

\* A view that stays with influence has a plan in hand or the committed size.
LEMMA CommittedStep ==
  ASSUME BridgeInv, Viewed, ForPlan, TakenAlone, RefusedOut, Committed, BridgeNext, ~Lates
  PROVE  Committed'
<1> SUFFICES ASSUME NEW y \in sizers', y \notin Leaving', ~Mine(y)'
             PROVE  applied' = NoResize \/ applied'.client = y
  BY DEF Committed
<1>1. y \in sizers /\ y \notin Leaving /\ y \in Clients
  BY NewSizer, LeavingStep, PlainTypeStep DEF Mine, BridgeInv
<1>2. Mine(y) \/ applied = NoResize \/ applied.client = y
  BY <1>1 DEF Committed
<1>3. CASE OpenPage \/ TmuxDies \/ Lates
  <2>1. UNCHANGED <<plan, applied>>
    BY <1>3, LateSteps DEF OpenPage, TmuxDies, LocalEnsure, SshEnsure, NodeEnsure, EnsureOnCore,
                MarkGridFresh, vars, control, boot, resize, history
  <2> QED BY <1>2, <2>1 DEF Mine
<1>4. ASSUME NEW c \in Clients, NEW f \in Frames, NEW s \in Sizes \cup {NoSize}, Receive(c, f, s)
      PROVE  applied' = NoResize \/ applied'.client = y
  <2>1. UNCHANGED <<plan, applied>>
    BY <1>4 DEF Receive, vars, control, boot, resize, history
  <2> QED BY <1>2, <2>1 DEF Mine
<1>5. ASSUME NEW c \in Clients, Attends(c) \/ Adjusts(c) \/ Serves(c)
      PROVE  applied' = NoResize \/ applied'.client = y
  <2>1. CASE Mine(c) /\ Taken(c) /\ applied' # NoResize /\ applied'.client = c
    BY <1>1, <2>1 DEF TakenAlone
  <2>2. CASE applied' = applied /\ ~Mine(y)
    BY <1>2, <2>2
  <2>3. CASE applied' = applied /\ Mine(y)
    <3>1. c = y
      BY <1>1, <1>5, <2>3, OneMoves
    <3>2. plan' = NoPlan /\ ~Serves(c)
      <4>1. Mine(y) /\ plan # NoPlan /\ plan' # plan
        BY <2>3 DEF Mine
      <4>2. Serves(c) => plan' = plan
        BY DEF Serves, RoleOn, Promote, Recheck, RoleOff, Freeze, AgentRefuses, AgentRole,
               AgentMark, AgentSized, AgentNotSized, AgentBoot, vars, control, boot, resize,
               history
      <4> QED BY <1>5, <4>1, <4>2, PlanMoves
    <3>3. conn' \in [Clients -> Conns]
      BY ConnTypeStep DEF BridgeInv
    <3> QED BY <1>1, <1>5, <2>3, <3>1, <3>2, <3>3, PlanDropped
  <2> QED BY <1>5, <2>1, <2>2, <2>3, AppliedMoves
<1> QED BY <1>3, <1>4, <1>5, BridgeSteps

-----------------------------------------------------------------------------
(* The grid has one owner *)

\* The invariant of the grid.
GridInv == BridgeInv /\ OneSizer /\ Viewed /\ ForPlan /\ Sizing

\* It holds when no browser has connected.
LEMMA GridInvInit == ASSUME BridgeInit PROVE GridInv
<1>1. BridgeInv
  BY BridgeInvInit
<1>2. \A c \in Clients : conn[c].pc = "new" /\ job[c] = "none"
  BY DEF BridgeInit, Idle
<1>3. views = {} /\ sizers = {} /\ plan = NoPlan
  BY DEF BridgeInit, Init
<1> QED BY <1>1, <1>2, <1>3
        DEF GridInv, OneSizer, Viewed, ForPlan, FitsPlan, Sizing, OnRecord, TakenAlone,
            RefusedOut, AllKnown,
            Committed, Mine, Known, AgentJobs

\* Every step keeps it.
LEMMA GridInvStep ==
  ASSUME GridInv, [BridgeNext]_all
  PROVE  GridInv'
<1> USE DEF GridInv
<1>1. BridgeInv'
  BY BridgeInvStep
<1>2. CASE BridgeNext
  <2>1. ASSUME NoFaults' PROVE NoFaults /\ ~Fault /\ ~Lates
    BY <1>2, <2>1, FaultFree
  <2>2. Sizing'
    BY <1>2, <2>1, OnRecordStep, TakenAloneStep, RefusedStep, CommittedStep DEF Sizing
  <2> QED BY <1>1, <1>2, <2>2, OneSizerStep, ViewedStep, ForPlanStep
<1>3. CASE UNCHANGED all
  <2>1. UNCHANGED <<backend, conn, job, out, want, owner, active, views, sizers, strays, left,
                    plan, applied>>
    BY <1>3 DEF all, bvars, vars, control, boot, resize, history, work, roles, streams, tmux
  <2>2. OneSizer' /\ Viewed' /\ ForPlan'
    BY <2>1 DEF OneSizer, Viewed, ForPlan, FitsPlan, Mine
  <2>3. Leaving' = Leaving /\ NoFaults' = NoFaults /\ OnCore' = OnCore
        /\ \A c \in Clients : /\ Mine(c)' = Mine(c) /\ Taken(c)' = Taken(c)
                              /\ Refused(c)' = Refused(c) /\ Known(c)' = Known(c)
    BY <2>1 DEF Leaving, NoFaults, OnCore, Mine, Taken, Refused, Known
  <2>4. ASSUME NoFaults PROVE OnRecord' /\ TakenAlone' /\ RefusedOut' /\ AllKnown'
    BY <2>1, <2>3, <2>4 DEF Sizing, OnRecord, TakenAlone, RefusedOut, AllKnown
  <2>5. ASSUME NoFaults PROVE Committed'
    BY <2>1, <2>3, <2>5 DEF Sizing, Committed, Mine
  <2> QED BY <1>1, <2>2, <2>3, <2>4, <2>5 DEF Sizing
<1> QED BY <1>2, <1>3

\* At most one view sizes the shared window, apart from those that a script over SSH
\* took the role for after the Core had given it up, and when nothing is under way
\* and nothing failed it is the view whose resize was committed last, whatever was
\* cancelled, went stale or was overtaken.
THEOREM OneOwnerOfGrid == BridgeSpec => []GridHasOneOwner
<1>1. GridInv => GridHasOneOwner
  <2> SUFFICES ASSUME GridInv PROVE GridHasOneOwner
    OBVIOUS
  <2>1. Cardinality(sizers \ strays) <= 1
    <3>1. CASE sizers \ strays = {}
      BY <3>1, FS_EmptySet
    <3>2. CASE sizers \ strays # {}
      <4>1. PICK c \in sizers \ strays : sizers \ strays = {c}
        BY <3>2 DEF GridInv, OneSizer
      <4> QED BY <4>1, FS_Singleton
    <3> QED BY <3>1, <3>2
  <2>2. ASSUME Quiet, left.faults = MaxFaults, applied # NoResize, NEW c \in sizers
        PROVE  c = applied.client
    <3>1. c \in Clients /\ NoClient \notin Clients
      BY ClientAssumption DEF GridInv, BridgeInv, BridgeTypes, BridgeTypeOK
    <3>2. c \notin Leaving
      BY <2>2 DEF Quiet, Leaving
    <3>3. ~Mine(c)
      BY <2>2, <3>1 DEF Quiet, Mine, GridInv, BridgeInv, Planned
    <3> QED BY <2>2, <3>2, <3>3 DEF GridInv, Sizing, NoFaults, Committed
  <2> QED BY <2>1, <2>2 DEF GridHasOneOwner
<1>2. BridgeInit => GridInv
  BY GridInvInit
<1>3. GridInv /\ [BridgeNext]_all => GridInv'
  BY GridInvStep
<1> QED BY <1>1, <1>2, <1>3, PTL DEF BridgeSpec

=============================================================================
