--------------------------- MODULE TerminalBridge ---------------------------
(***************************************************************************)
(* The browser connections of one terminal, on a local, an SSH or a Node   *)
(* Workspace. A bridge registers its connection with TerminalControl,      *)
(* attaches a tmux view of its own to the shared window, and handles one   *)
(* frame at a time under the terminal's input lock: a frame may claim      *)
(* control, resize the view or carry input. A resize by the owner of the   *)
(* grid makes its view the only one that sizes the window.                 *)
(*                                                                         *)
(* Every step of the registry is an action of TerminalControl. The blocking *)
(* calls of a bridge run in threads (in tasks of the agent on a Node) that *)
(* go on when the bridge that waits for them is cancelled.                 *)
(***************************************************************************)
EXTENDS TerminalControl

CONSTANTS
  Backends,    \* explored, a subset of {"local", "ssh", "node"}
  NoSize,
  MaxFrames,   \* bound: frames received from browsers
  MaxFaults    \* bound: failing tmux commands, SSH calls, and losses of tmux

ASSUME BackendAssumption == Backends \subseteq {"local", "ssh", "node"}
ASSUME FrameAssumption == /\ MaxFrames \in Nat /\ MaxFaults \in Nat
                          /\ NoSize \notin Sizes

VARIABLES
  backend,
  conn,      \* per connection: where its bridge is, the frame in hand, its
             \* last viewport, the Core's grid_active, whether it was cancelled
  lock,      \* the holder of the terminal's input lock
  job,       \* the thread or agent task that works for a connection
  out,       \* what it answered
  want,      \* the role that a terminal.resize request asks for
  owner,     \* _browser_grid_owners
  gridLock,  \* the holder of the grid lock
  active,    \* TerminalAgentStream.grid_active
  closed,    \* TerminalAgentStream.closed
  consume,   \* streams that use the fresh window up (grid_resize_applied)
  fresh,     \* the agent's _fresh_grid_windows holds the window
  alive,     \* the tmux window exists
  views,     \* attached views
  sizers,    \* views without ignore-size
  frozen,    \* the window has an explicit size
  late,      \* scripts over SSH that the Core gave up on and that still run
  strays,    \* views that such a script made sizers, history for the properties
  left       \* frames and faults left

roles   == <<owner, gridLock>>
streams == <<active, closed, consume, fresh>>
tmux    == <<alive, views, sizers, frozen, late, strays>>
work    == <<job, out, want>>
bvars   == <<backend, conn, lock, work, roles, streams, tmux, left>>
all     == <<vars, bvars>>

Frames == {"claim", "resize", "input", "typed", "command"}
Idle == [pc |-> "new", frame |-> "claim", size |-> NoSize, view |-> NoSize,
         active |-> FALSE, cut |-> FALSE]

OnCore == backend \in {"local", "ssh"}
Mine(c) == plan # NoPlan /\ plan.client = c
CanResize(c) == ResizeOwner = c
Go(c, p) == conn' = [conn EXCEPT ![c].pc = p]
Done(c, p) == conn' = [conn EXCEPT ![c].pc = p, ![c].frame = "claim", ![c].size = NoSize]
Start(c, j) == job' = [job EXCEPT ![c] = j] /\ out' = [out EXCEPT ![c] = "none"]
Return(c, o) == job' = [job EXCEPT ![c] = "none"] /\ out' = [out EXCEPT ![c] = o]
Fault == left.faults > 0 /\ left' = [left EXCEPT !.faults = @ - 1]
Breaks(unavoidable) == (unavoidable /\ UNCHANGED left) \/ Fault

\* A call to tmux fails. Over SSH it may time out instead: _exec gives the channel
\* up, and the script goes on.
Scripts == {"on", "off", "freeze"}
CallFails(c, s, unavoidable) ==
  \/ Breaks(unavoidable) /\ UNCHANGED late
  \/ backend = "ssh" /\ Fault /\ late' = [late EXCEPT ![c][s] = @ + 1]

BridgeInit ==
  /\ Init
  /\ backend \in Backends
  /\ conn = [c \in Clients |-> Idle]
  /\ lock = NoClient
  /\ job = [c \in Clients |-> "none"]
  /\ out = [c \in Clients |-> "none"]
  /\ want = [c \in Clients |-> "off"]
  /\ owner = NoClient /\ gridLock = NoClient
  /\ active = [c \in Clients |-> FALSE]
  /\ closed = [c \in Clients |-> FALSE]
  /\ consume = {} /\ fresh = FALSE
  /\ alive = FALSE /\ views = {} /\ sizers = {} /\ frozen = FALSE
  /\ late = [c \in Clients |-> [s \in Scripts |-> 0]] /\ strays = {}
  /\ left = [frames |-> MaxFrames, faults |-> MaxFaults]

-----------------------------------------------------------------------------
(* Connecting *)

\* ensure_workspace: a window that lives on in any session of the Workspace,
\* browser views included, is kept; otherwise a new one is created with the size
\* policy "latest" and marked fresh.
EnsureOnCore ==
  /\ alive' = TRUE
  /\ frozen' = (frozen /\ alive)
  /\ IF alive THEN UNCHANGED vars ELSE MarkGridFresh(NoClient)
  /\ UNCHANGED fresh
LocalEnsure == backend = "local" /\ EnsureOnCore
SshEnsure == backend = "ssh" /\ EnsureOnCore

\* The agent keeps the fresh windows itself.
NodeEnsure ==
  /\ backend = "node"
  /\ alive' = TRUE
  /\ frozen' = (frozen /\ alive)
  /\ fresh' = (fresh \/ ~alive)
  /\ UNCHANGED vars

\* The page of the terminal is opened.
OpenPage ==
  /\ ~alive
  /\ LocalEnsure \/ SshEnsure \/ NodeEnsure
  /\ UNCHANGED <<backend, conn, lock, work, roles, active, closed, consume, views,
                 sizers, late, strays, left>>

\* TerminalManager.bridge registers first and ensures the Workspace afterwards.
LocalConnect(c) ==
  /\ backend = "local" /\ conn[c].pc = "new"
  /\ Register(c)
  /\ Go(c, "setup")
  /\ UNCHANGED <<backend, lock, work, roles, streams, tmux, left>>

\* The view of a connection is attached without influence on the size of the window.
AttachView(c) == views' = views \cup {c}

\* _setup_browser_terminal
LocalSetup(c) ==
  /\ conn[c].pc = "setup" /\ LocalEnsure
  /\ AttachView(c)
  /\ Go(c, "idle")
  /\ UNCHANGED <<backend, lock, work, roles, active, closed, consume, sizers, late,
                 strays, left>>

LocalSetupFails(c) ==
  /\ conn[c].pc = "setup" /\ Fault
  /\ Go(c, "leaving")
  /\ UNCHANGED <<vars, backend, lock, work, roles, streams, tmux>>

\* SSHBackend.bridge and RemoteAccess.bridge ensure the Workspace first.
RemoteEnsure(c) ==
  /\ conn[c].pc = "new"
  /\ SshEnsure \/ NodeEnsure
  /\ Go(c, "ensured")
  /\ UNCHANGED <<backend, lock, work, roles, active, closed, consume, views, sizers,
                 late, strays, left>>

RemoteRegister(c) ==
  /\ conn[c].pc = "ensured"
  /\ Register(c)
  /\ Go(c, IF backend = "ssh" THEN "spawn" ELSE "attach")
  /\ UNCHANGED <<backend, lock, work, roles, streams, tmux, left>>

\* _spawn_ssh_tmux_client; the client that is started creates the view.
SshSpawn(c) ==
  /\ conn[c].pc = "spawn"
  /\ IF alive THEN AttachView(c) ELSE UNCHANGED views
  /\ Go(c, "idle")
  /\ UNCHANGED <<vars, backend, lock, work, roles, streams, alive, sizers, frozen, late,
                 strays, left>>

SshSpawnFails(c) ==
  /\ conn[c].pc = "spawn" /\ Fault
  /\ Unregister(c)
  /\ owner' = IF owner = c THEN NoClient ELSE owner
  /\ Go(c, "gone")
  /\ UNCHANGED <<backend, lock, work, gridLock, streams, tmux>>

\* The agent's _terminal_attach: whether the window is fresh is read before the
\* view is created and answered after it.
AgentAttach(c) ==
  /\ conn[c].pc = "attach" /\ NodeEnsure
  /\ consume' = IF fresh' THEN consume \cup {c} ELSE consume
  /\ AttachView(c)
  /\ Go(c, "attached")
  /\ UNCHANGED <<backend, lock, work, roles, active, closed, sizers, late, strays, left>>

NodeAttachFails(c) ==
  /\ conn[c].pc = "attach" /\ Breaks(~alive)
  /\ Go(c, "leaving")
  /\ UNCHANGED <<vars, backend, lock, work, roles, streams, tmux>>

\* The Core takes over what the agent said of the window.
NodeAttached(c) ==
  /\ conn[c].pc = "attached"
  /\ IF c \in consume THEN MarkGridFresh(c)
     ELSE MarkGridExisting \/ (~bootPending /\ bootOwner = NoClient /\ UNCHANGED vars)
  /\ Go(c, "idle")
  /\ UNCHANGED <<backend, lock, work, roles, streams, tmux, left>>

-----------------------------------------------------------------------------
(* Frames *)

\* browser_to_input received a frame and waits for the input lock. A frame of
\* raw bytes is one that was typed, with the size of the last viewport.
Receive(c, f, s) ==
  /\ conn[c].pc = "idle" /\ left.frames > 0
  /\ f = "claim" => s = NoSize
  /\ f = "resize" => s # NoSize
  /\ conn' = [conn EXCEPT ![c].pc = "enter", ![c].frame = f, ![c].size = s]
  /\ left' = [left EXCEPT !.frames = @ - 1]
  /\ UNCHANGED <<vars, backend, lock, work, roles, streams, tmux>>

IsInput(f) == f \in {"input", "typed", "command"}

\* Mutant: control is transferred without the input lock.
ClaimUnlocked(c) ==
  /\ conn[c].pc = "enter" /\ conn[c].frame = "claim"
  /\ ClaimControl(c) \/ (controller = c /\ UNCHANGED vars)
  /\ Done(c, "idle")
  /\ UNCHANGED <<backend, lock, work, roles, streams, tmux, left>>

Claim(c) ==
  /\ conn[c].pc = "enter" /\ lock = NoClient /\ conn[c].frame = "claim"
  /\ ClaimControl(c) \/ (controller = c /\ UNCHANGED vars)
  /\ Done(c, "idle")
  /\ UNCHANGED <<backend, lock, work, roles, streams, tmux, left>>

\* Input of a connection that does not control the terminal is refused.
Deny(c) ==
  /\ conn[c].pc = "enter" /\ lock = NoClient
  /\ IsInput(conn[c].frame) /\ controller # c
  /\ Done(c, "idle")
  /\ UNCHANGED <<vars, backend, lock, work, roles, streams, tmux, left>>

\* Admission. Input that the user really typed makes the connection the owner
\* of the grid; a frame without a size goes straight to the terminal.
Admit(c) ==
  /\ conn[c].pc = "enter" /\ lock = NoClient
  /\ conn[c].frame # "claim"
  /\ IsInput(conn[c].frame) => controller = c
  /\ IF conn[c].frame \in {"typed", "command"} THEN MarkInput(c)
     ELSE UNCHANGED vars
  /\ lock' = c
  /\ Go(c, IF conn[c].size = NoSize THEN "deliver" ELSE "begin")
  /\ UNCHANGED <<backend, work, roles, streams, tmux, left>>

\* The input is written to the PTY, or sent to the Node; a command whose pane
\* is gone is refused instead. The write ends before the lock is released, and
\* so does all of a command.
Deliver(c) ==
  /\ conn[c].pc = "deliver"
  /\ lock' = NoClient
  /\ Done(c, IF conn[c].cut THEN "leaving" ELSE "idle")
  /\ UNCHANGED <<vars, backend, work, roles, streams, tmux, left>>

-----------------------------------------------------------------------------
(* Resizing, on the Core (local and SSH) *)

\* begin_resize; the thread gets the view into the role the plan asks for.
Begin(c) ==
  /\ conn[c].pc = "begin"
  /\ \/ BeginResize(c, conn[c].size)
     \/ ~(CanResize(c) /\ plan = NoPlan) /\ UNCHANGED vars
  /\ Go(c, IF OnCore THEN "role" ELSE "ask")
  /\ IF OnCore THEN Start(c, IF plan' # NoPlan /\ plan'.client = c THEN "on" ELSE "off")
     ELSE UNCHANGED <<job, out>>
  /\ UNCHANGED <<backend, lock, want, roles, streams, tmux, left>>

\* An exception ends the bridge: the plan is aborted, the lock released.
Fail(c) ==
  /\ IF Mine(c) THEN AbortResize ELSE UNCHANGED vars
  /\ lock' = NoClient
  /\ Done(c, "leaving")
  /\ UNCHANGED <<backend, work, roles, streams, tmux>>

\* The resize is given up but the frame is not.
GiveUp(c) ==
  /\ IF Mine(c) THEN AbortResize ELSE UNCHANGED vars
  /\ Go(c, "deliver")
  /\ UNCHANGED <<backend, lock, work, roles, streams, tmux, left>>

\* apply_browser_resize goes on when the role was synchronised; a view that
\* could not change its role is not resized. The code also handles a plan that
\* is not current any more here and at its commit. That cannot be: every change
\* of the registry that outdates a plan needs the input lock, which the bridge of
\* the plan holds (AdmittedFinishes).
Synced(c) ==
  /\ conn[c].pc = "role" /\ job[c] = "none"
  /\ \/ out[c] = "failed" /\ GiveUp(c)
     \/ /\ out[c] = "ok" /\ Go(c, "size")
        /\ UNCHANGED <<vars, backend, lock, work, roles, streams, tmux, left>>

\* The PTY gets its size; a plan that needs it waits for the grid.
SetSize(c) ==
  /\ conn[c].pc = "size"
  /\ conn' = [conn EXCEPT ![c].view = conn[c].size,
                          ![c].pc = IF ~Mine(c) THEN "deliver"
                                    ELSE IF plan.apply THEN "wait" ELSE "applied"]
  /\ UNCHANGED <<vars, backend, lock, work, roles, streams, tmux, left>>

\* wait_tmux_browser_grid_size; of several views tmux follows any.
GridSized(c) ==
  /\ conn[c].pc = "wait" /\ c \in sizers
  /\ Go(c, "applied")
  /\ UNCHANGED <<vars, backend, lock, work, roles, streams, tmux, left>>

GridNotSized(c) ==
  /\ conn[c].pc = "wait" /\ Breaks(sizers # {c} \/ frozen)
  /\ Fail(c)

\* resize_applied; a bootstrap fixes the size of the new grid.
Applied(c) ==
  /\ conn[c].pc = "applied"
  /\ ResizeApplied
  /\ IF plan.boot THEN Go(c, "freeze") /\ Start(c, "freeze")
     ELSE Go(c, "commit") /\ UNCHANGED <<job, out>>
  /\ UNCHANGED <<backend, lock, want, roles, streams, tmux, left>>

Frozen(c) ==
  /\ conn[c].pc = "freeze" /\ job[c] = "none"
  /\ \/ out[c] = "failed" /\ Fail(c) /\ UNCHANGED left
     \/ /\ out[c] = "ok"
        /\ Go(c, "boot_off") /\ Start(c, "off")
        /\ UNCHANGED <<vars, backend, lock, want, roles, streams, tmux, left>>

BootDemoted(c) ==
  /\ conn[c].pc = "boot_off" /\ job[c] = "none"
  /\ \/ out[c] = "failed" /\ Fail(c) /\ UNCHANGED left
     \/ /\ out[c] = "ok"
        /\ Go(c, "commit")
        /\ UNCHANGED <<vars, backend, lock, work, roles, streams, tmux, left>>

Commit(c) ==
  /\ conn[c].pc = "commit"
  /\ CommitResize
  /\ Go(c, "deliver")
  /\ UNCHANGED <<backend, lock, work, roles, streams, tmux, left>>

-----------------------------------------------------------------------------
(* The threads of the Core *)

\* Mutant: the other views keep their influence.
PromotedAlso(c) == sizers' = sizers \cup {c} /\ frozen' = FALSE /\ strays' = {}

\* set_tmux_browser_view_grid_resize with enabled: every other view loses its
\* influence before this one gets it. A failure leaves any part done.
Promoted(c) == sizers' = {c} /\ frozen' = FALSE /\ strays' = {}
PromotedPartly(c) ==
  /\ sizers' \in {S \in SUBSET sizers : S \cap {c} = sizers \cap {c}} \cup {{c} \cap views}
  /\ strays' = strays \cap sizers'
  /\ UNCHANGED frozen
Demoted(c) == sizers' = sizers \ {c} /\ strays' = strays \ {c} /\ UNCHANGED frozen

Release(c) == gridLock' = IF gridLock = c THEN NoClient ELSE gridLock

\* _sync_browser_grid_role, enabled: takes the grid lock and looks.
RoleOn(c) ==
  /\ job[c] = "on" /\ gridLock = NoClient
  /\ IF CanResize(c)
     THEN IF owner = c THEN Return(c, "ok") /\ UNCHANGED <<roles, tmux, left>>
          ELSE /\ job' = [job EXCEPT ![c] = "promote"]
               /\ gridLock' = c
               /\ UNCHANGED <<out, owner, tmux, left>>
     ELSE /\ \/ /\ c \in views /\ Demoted(c)
                /\ owner' = IF owner = c THEN NoClient ELSE owner
                /\ Return(c, "ok") /\ UNCHANGED <<late, left>>
             \/ /\ CallFails(c, "off", c \notin views) /\ Return(c, "failed")
                /\ UNCHANGED <<sizers, frozen, strays, owner>>
          /\ UNCHANGED <<gridLock, alive, views>>
  /\ UNCHANGED <<vars, backend, conn, lock, want, streams>>

Promote(c) ==
  /\ job[c] = "promote"
  /\ \/ /\ c \in views /\ Promoted(c)
        /\ owner' = c
        /\ job' = [job EXCEPT ![c] = "recheck"]
        /\ UNCHANGED <<out, gridLock, late, left>>
     \/ /\ c \notin views /\ Release(c) /\ Return(c, "failed")
        /\ UNCHANGED <<sizers, frozen, late, strays, owner, left>>
     \/ /\ CallFails(c, "on", FALSE) /\ PromotedPartly(c) /\ Release(c)
        /\ Return(c, "failed")
        /\ UNCHANGED owner
  /\ UNCHANGED <<vars, backend, conn, lock, want, streams, alive, views>>

\* The view may have lost the grid while tmux was at work.
Recheck(c) ==
  /\ job[c] = "recheck" /\ Release(c)
  /\ \/ /\ CanResize(c) /\ Return(c, "ok")
        /\ UNCHANGED <<sizers, frozen, late, strays, owner, left>>
     \/ /\ ~CanResize(c) /\ c \in views /\ Demoted(c) /\ owner' = NoClient
        /\ Return(c, "ok") /\ UNCHANGED <<late, left>>
     \/ /\ ~CanResize(c) /\ CallFails(c, "off", c \notin views)
        /\ Return(c, "failed") /\ UNCHANGED <<sizers, frozen, strays, owner>>
  /\ UNCHANGED <<vars, backend, conn, lock, want, streams, alive, views>>

\* _sync_browser_grid_role, disabled: only the owner has to be demoted.
RoleOff(c) ==
  /\ job[c] = "off" /\ gridLock = NoClient
  /\ \/ owner # c /\ Return(c, "ok") /\ UNCHANGED <<sizers, frozen, late, strays, owner, left>>
     \/ /\ owner = c /\ c \in views /\ Demoted(c) /\ owner' = NoClient
        /\ Return(c, "ok") /\ UNCHANGED <<late, left>>
     \/ /\ owner = c /\ CallFails(c, "off", c \notin views)
        /\ Return(c, "failed") /\ UNCHANGED <<sizers, frozen, strays, owner>>
  /\ UNCHANGED <<vars, backend, conn, lock, want, gridLock, streams, alive, views>>

\* freeze_tmux_window_size, outside the grid lock.
Freeze(c) ==
  /\ job[c] = "freeze"
  /\ \/ alive /\ frozen' = TRUE /\ Return(c, "ok") /\ UNCHANGED <<late, left>>
     \/ CallFails(c, "freeze", ~alive) /\ Return(c, "failed") /\ UNCHANGED frozen
  /\ UNCHANGED <<vars, backend, conn, lock, want, roles, streams, alive, views, sizers,
                 strays>>

-----------------------------------------------------------------------------
(* Scripts over SSH that the Core gave up on *)

\* The script ends, with its last command or because its view is gone.
ScriptEnds(c, s) == late[c][s] > 0 /\ late' = [late EXCEPT ![c][s] = @ - 1]

\* _set_ssh_browser_view_grid_resize with enabled: the other views one by one,
\* then the view itself, while no lock is held for the script any more.
LatePeer(c) ==
  /\ late[c]["on"] > 0
  /\ \E d \in sizers \ {c} : Demoted(d)
  /\ UNCHANGED <<vars, backend, conn, lock, work, roles, streams, alive, views, late, left>>

LateOn(c) ==
  /\ ScriptEnds(c, "on")
  /\ IF c \in views
     THEN /\ sizers' = sizers \cup {c} /\ strays' = strays \cup {c}
          /\ frozen' = FALSE
     ELSE UNCHANGED <<sizers, strays, frozen>>
  /\ UNCHANGED <<vars, backend, conn, lock, work, roles, streams, alive, views, left>>

LateOff(c) ==
  /\ ScriptEnds(c, "off") /\ Demoted(c)
  /\ UNCHANGED <<vars, backend, conn, lock, work, roles, streams, alive, views, left>>

LateFreeze(c) ==
  /\ ScriptEnds(c, "freeze") /\ frozen' = (frozen \/ alive)
  /\ UNCHANGED <<vars, backend, conn, lock, work, roles, streams, alive, views, sizers,
                 strays, left>>

LateScripts(c) == LatePeer(c) \/ LateOn(c) \/ LateOff(c) \/ LateFreeze(c)

-----------------------------------------------------------------------------
(* Resizing, on a Node *)

\* A view that already is what the plan asks for needs no request.
NodeSkip(c) ==
  /\ conn[c].pc = "ask"
  /\ Mine(c) = conn[c].active /\ conn[c].view = conn[c].size
  /\ Mine(c) => ~plan.apply
  /\ IF Mine(c) THEN CommitResize \/ (~PlanCurrent /\ AbortResize) ELSE UNCHANGED vars
  /\ Go(c, "deliver")
  /\ UNCHANGED <<backend, lock, work, roles, streams, tmux, left>>

\* request_resize: terminal.resize with the next revision.
NodeAsk(c) ==
  /\ conn[c].pc = "ask"
  /\ \/ Mine(c) # conn[c].active \/ conn[c].view # conn[c].size
     \/ Mine(c) /\ plan.apply
  /\ want' = [want EXCEPT ![c] = IF ~Mine(c) THEN "off"
                                 ELSE IF plan.boot THEN "boot" ELSE "on"]
  /\ Start(c, "asked")
  /\ Go(c, "answer")
  /\ UNCHANGED <<vars, backend, lock, roles, streams, tmux, left>>

\* TerminalAgentStream.resize: a closed stream and a bootstrap of a window that
\* is not fresh any more are refused.
AgentRefuses(c) ==
  /\ job[c] = "asked"
  /\ closed[c] \/ (want[c] = "boot" /\ c \notin consume)
  /\ Return(c, "raised")
  /\ UNCHANGED <<vars, backend, conn, lock, want, roles, streams, tmux, left>>

\* The view gets its role in a thread; the agent's lock serialises the tmux
\* commands of all views. A view that cannot be demoted is closed.
AgentRole(c) ==
  /\ job[c] = "asked" /\ ~closed[c]
  /\ want[c] = "boot" => c \in consume
  /\ \/ /\ want[c] # "off" /\ c \in views /\ Promoted(c)
        /\ job' = [job EXCEPT ![c] = "marked"] /\ UNCHANGED <<out, closed, left>>
     \/ /\ want[c] # "off" /\ Breaks(c \notin views)
        /\ (c \notin views /\ UNCHANGED <<sizers, frozen, strays>>) \/ PromotedPartly(c)
        /\ Return(c, "retry") /\ UNCHANGED closed
     \/ /\ want[c] = "off" /\ active[c] /\ c \in views /\ Demoted(c)
        /\ job' = [job EXCEPT ![c] = "marked"] /\ UNCHANGED <<out, closed, left>>
     \/ /\ want[c] = "off" /\ active[c] /\ Breaks(c \notin views)
        /\ Return(c, "raised") /\ closed' = [closed EXCEPT ![c] = TRUE]
        /\ UNCHANGED <<sizers, frozen, strays>>
     \/ /\ want[c] = "off" /\ ~active[c]
        /\ job' = [job EXCEPT ![c] = "marked"]
        /\ UNCHANGED <<out, closed, sizers, frozen, strays, left>>
  /\ UNCHANGED <<vars, backend, conn, lock, want, roles, active, consume, fresh, alive,
                 views, late>>

AgentMark(c) ==
  /\ job[c] = "marked"
  /\ active' = [active EXCEPT ![c] = want[c] # "off"]
  /\ job' = [job EXCEPT ![c] = "sizing"]
  /\ UNCHANGED <<vars, backend, conn, lock, out, want, roles, closed, consume, fresh,
                 tmux, left>>

\* The viewport is set and the grid awaited; the fresh window is used up.
AgentSized(c) ==
  /\ job[c] = "sizing" /\ ~closed[c]
  /\ want[c] # "off" => c \in sizers
  /\ IF want[c] = "off" THEN UNCHANGED <<fresh, consume>>
     ELSE /\ fresh' = (fresh /\ c \notin consume)
          /\ consume' = consume \ {c}
  /\ IF want[c] = "boot" THEN job' = [job EXCEPT ![c] = "boot"] /\ UNCHANGED out
     ELSE Return(c, "ok")
  /\ UNCHANGED <<vars, backend, conn, lock, want, roles, active, closed, tmux, left>>

\* The grid did not follow: the view is demoted again, or closed if it cannot be.
AgentNotSized(c) ==
  /\ job[c] = "sizing"
  /\ Breaks(closed[c] \/ (want[c] # "off" /\ (c \notin sizers \/ frozen)))
  /\ IF active[c] /\ c \in views /\ ~closed[c]
     THEN \/ /\ Demoted(c) /\ active' = [active EXCEPT ![c] = FALSE]
             /\ Return(c, "retry") /\ UNCHANGED closed
          \/ /\ closed' = [closed EXCEPT ![c] = TRUE]
             /\ Return(c, "raised") /\ UNCHANGED <<sizers, frozen, strays, active>>
     ELSE /\ closed' = [closed EXCEPT ![c] = TRUE]
          /\ Return(c, "raised") /\ UNCHANGED <<sizers, frozen, strays, active>>
  /\ UNCHANGED <<vars, backend, conn, lock, want, roles, consume, fresh, alive, views, late>>

\* A bootstrap fixes the size of the window and gives the role back; when either
\* fails the stream is closed.
AgentBoot(c) ==
  /\ job[c] = "boot"
  /\ \/ /\ c \in views /\ frozen' = (frozen \/ c \in sizers)
        /\ sizers' = sizers \ {c} /\ strays' = strays \ {c}
        /\ active' = [active EXCEPT ![c] = FALSE]
        /\ Return(c, "ok") /\ UNCHANGED <<closed, left>>
     \/ /\ Breaks(c \notin views)
        /\ closed' = [closed EXCEPT ![c] = TRUE]
        /\ Return(c, "closed") /\ UNCHANGED <<sizers, frozen, strays, active>>
  /\ UNCHANGED <<vars, backend, conn, lock, want, roles, consume, fresh, alive, views, late>>

Agent(c) == AgentAttach(c) \/ AgentRefuses(c) \/ AgentRole(c) \/ AgentMark(c)
            \/ AgentSized(c) \/ AgentNotSized(c) \/ AgentBoot(c)

\* The answer says that the shared grid was resized.
NodeApplied(c) ==
  /\ conn[c].pc = "answer" /\ job[c] = "none"
  /\ Mine(c) /\ out[c] \in {"ok", "closed"}
  /\ ResizeApplied
  /\ Go(c, "answered")
  /\ UNCHANGED <<backend, lock, work, roles, streams, tmux, left>>

\* What the Core makes of the answer: an error ends the bridge unless it may be
\* retried; a plan that went stale meanwhile is demoted by another request.
NodeAnswered(c) ==
  /\ job[c] = "none"
  /\ \/ conn[c].pc = "answered"
     \/ conn[c].pc = "answer" /\ ~(Mine(c) /\ out[c] \in {"ok", "closed"})
  /\ \/ out[c] \in {"raised", "closed"} /\ Fail(c) /\ UNCHANGED left
     \/ out[c] = "retry" /\ GiveUp(c)
     \/ /\ out[c] = "ok"
        /\ conn' = [conn EXCEPT ![c].active = (want[c] = "on"), ![c].view = conn[c].size,
                                ![c].pc = IF Mine(c) /\ ~PlanCurrent THEN "demoting"
                                          ELSE "deliver"]
        /\ IF ~Mine(c) THEN UNCHANGED <<vars, work>>
           ELSE \/ CommitResize /\ UNCHANGED work
                \/ /\ ~PlanCurrent /\ UNCHANGED vars
                   /\ Start(c, "asked") /\ want' = [want EXCEPT ![c] = "off"]
        /\ UNCHANGED <<backend, lock, roles, streams, tmux, left>>

NodeDemoted(c) ==
  /\ conn[c].pc = "demoting" /\ job[c] = "none"
  /\ \/ out[c] # "ok" /\ Fail(c) /\ UNCHANGED left
     \/ /\ out[c] = "ok" /\ AbortResize
        /\ conn' = [conn EXCEPT ![c].active = FALSE, ![c].pc = "deliver"]
        /\ UNCHANGED <<backend, lock, work, roles, streams, tmux, left>>

-----------------------------------------------------------------------------
(* The end of a connection *)

Waiting == {"role", "wait", "freeze", "boot_off", "answer", "demoting"}

\* complete_terminal_command shields a command; the PTY's writer completes what it
\* began. The stream to a Node is cancelled between two chunks of an input.
Shielded(c) == conn[c].frame = "command" \/ (conn[c].pc = "deliver" /\ OnCore)

\* The browser leaves, the output of the terminal ends or the session expires.
\* What is shielded is completed, anything else is cancelled where it waits: its
\* plan is aborted and its lock released, its thread goes on.
Cut(c) ==
  /\ ~conn[c].cut
  /\ \/ /\ conn[c].pc \in {"idle", "enter"}
        /\ Done(c, "leaving") /\ UNCHANGED <<vars, lock>>
     \/ /\ conn[c].pc \in Waiting \cup {"deliver"} /\ ~Shielded(c)
        /\ IF Mine(c) THEN AbortResize ELSE UNCHANGED vars
        /\ lock' = NoClient
        /\ Done(c, "leaving")
     \/ /\ conn[c].pc \in Waiting \cup {"deliver"} /\ Shielded(c)
        /\ conn' = [conn EXCEPT ![c].cut = TRUE] /\ UNCHANGED <<vars, lock>>
  /\ UNCHANGED <<backend, work, roles, streams, tmux, left>>

\* _release_browser_terminal: the owner of the grid leaves it at a fixed size,
\* as far as tmux can be reached.
Forget(c) ==
  /\ OnCore /\ conn[c].pc = "leaving" /\ gridLock = NoClient
  /\ \/ owner # c /\ UNCHANGED <<owner, frozen, late, left>>
     \/ /\ owner = c /\ owner' = NoClient /\ alive /\ frozen' = TRUE
        /\ UNCHANGED <<late, left>>
     \/ /\ owner = c /\ owner' = NoClient /\ CallFails(c, "freeze", ~alive)
        /\ UNCHANGED frozen
  /\ Go(c, "killing")
  /\ UNCHANGED <<vars, backend, lock, work, gridLock, streams, alive, views, sizers, strays>>

KillView(c) ==
  /\ conn[c].pc = "killing"
  /\ views' = views \ {c} /\ sizers' = sizers \ {c} /\ strays' = strays \ {c}
  /\ Go(c, IF OnCore THEN "unregister" ELSE "gone")
  /\ UNCHANGED <<vars, backend, lock, work, roles, streams, alive, frozen, late, left>>

\* On a Node the registry forgets the connection before its stream is closed.
Leave(c) ==
  /\ conn[c].pc = IF OnCore THEN "unregister" ELSE "leaving"
  /\ Unregister(c)
  /\ Go(c, IF OnCore THEN "gone" ELSE "closing")
  /\ UNCHANGED <<backend, lock, work, roles, streams, tmux, left>>

\* TerminalAgentStream.close: an active view that still has its role fixes the
\* size of the window before it goes.
AgentClose(c) ==
  /\ conn[c].pc = "closing"
  /\ closed' = [closed EXCEPT ![c] = TRUE]
  /\ frozen' = (frozen \/ (active[c] /\ c \in sizers))
  /\ Go(c, "killing")
  /\ UNCHANGED <<vars, backend, lock, work, roles, active, consume, fresh, alive, views,
                 sizers, late, strays, left>>

\* The tmux server dies with every view; the outputs of the bridges end.
TmuxDies ==
  /\ alive /\ Fault
  /\ alive' = FALSE /\ views' = {} /\ sizers' = {} /\ frozen' = FALSE /\ strays' = {}
  /\ UNCHANGED <<vars, backend, conn, lock, work, roles, streams, late>>

-----------------------------------------------------------------------------

Connecting(c) == LocalConnect(c) \/ RemoteEnsure(c)
Attaching(c) == LocalSetup(c) \/ LocalSetupFails(c) \/ RemoteRegister(c) \/ SshSpawn(c)
                \/ SshSpawnFails(c) \/ NodeAttachFails(c) \/ NodeAttached(c)
Receiving(c) == \E f \in Frames, s \in Sizes \cup {NoSize} : Receive(c, f, s)

\* browser_to_input, of each backend.
Input(c) == Claim(c) \/ Deny(c) \/ Admit(c) \/ Deliver(c)
LocalInput(c) == backend = "local" /\ Input(c)
SshInput(c) == backend = "ssh" /\ Input(c)
NodeInput(c) == backend = "node" /\ Input(c)

\* apply_browser_resize, of each backend.
CoreResizing(c) == Begin(c) \/ Synced(c) \/ SetSize(c) \/ GridSized(c) \/ GridNotSized(c)
                   \/ Applied(c) \/ Frozen(c) \/ BootDemoted(c) \/ Commit(c)
LocalResizing(c) == backend = "local" /\ CoreResizing(c)
SshResizing(c) == backend = "ssh" /\ CoreResizing(c)
NodeResizing(c) == Begin(c) \/ NodeSkip(c) \/ NodeAsk(c) \/ NodeApplied(c)
                   \/ NodeAnswered(c) \/ NodeDemoted(c)

\* The end of a bridge, of each backend.
CoreLeaving(c) == Forget(c) \/ KillView(c) \/ Leave(c)
LocalLeaving(c) == backend = "local" /\ CoreLeaving(c)
SshLeaving(c) == backend = "ssh" /\ CoreLeaving(c)
NodeLeaving(c) == backend = "node" /\ (Leave(c) \/ AgentClose(c) \/ KillView(c))

\* What to_thread runs, of each backend.
CoreThreads(c) == RoleOn(c) \/ Promote(c) \/ Recheck(c) \/ RoleOff(c) \/ Freeze(c)
LocalThreads(c) == backend = "local" /\ CoreThreads(c)
SshThreads(c) == backend = "ssh" /\ CoreThreads(c)

LocalBridge(c) == LocalInput(c) \/ LocalResizing(c) \/ LocalThreads(c) \/ LocalLeaving(c)
SshBridge(c) == SshInput(c) \/ SshResizing(c) \/ SshThreads(c) \/ SshLeaving(c)
                \/ LateScripts(c)
NodeBridge(c) == NodeInput(c) \/ (backend = "node" /\ NodeResizing(c)) \/ Agent(c)
                 \/ NodeLeaving(c)

BridgeNext ==
  \/ OpenPage \/ TmuxDies
  \/ \E c \in Clients : \/ Connecting(c) \/ Attaching(c) \/ Receiving(c) \/ Cut(c)
                        \/ LocalBridge(c) \/ SshBridge(c) \/ NodeBridge(c)

BridgeSpec == BridgeInit /\ [][BridgeNext]_all

-----------------------------------------------------------------------------
(* Properties *)

\* Every variable keeps its type, those of the registry included.
BridgeTypeOK ==
  /\ TypeOK
  /\ backend \in Backends
  /\ lock \in Clients \cup {NoClient}
  /\ owner \in Clients \cup {NoClient} /\ gridLock \in Clients \cup {NoClient}
  /\ consume \subseteq Clients /\ views \subseteq Clients /\ sizers \subseteq views
  /\ strays \subseteq sizers /\ late \in [Clients -> [Scripts -> 0 .. MaxFaults]]
  /\ fresh \in BOOLEAN /\ alive \in BOOLEAN /\ frozen \in BOOLEAN
  /\ active \in [Clients -> BOOLEAN] /\ closed \in [Clients -> BOOLEAN]
  /\ want \in [Clients -> {"on", "boot", "off"}]
  /\ out \in [Clients -> {"none", "ok", "failed", "retry", "raised", "closed"}]
  /\ \A c \in Clients : /\ conn[c].frame \in Frames
                         /\ conn[c].size \in Sizes \cup {NoSize}
                         /\ conn[c].view \in Sizes \cup {NoSize}

Handling == Waiting \cup {"begin", "size", "applied", "commit", "ask", "answered",
                         "deliver"}

\* Admitted input finishes before control passes to another connection: a frame
\* that is being handled has the input lock and, if it carries input, its
\* connection still controls the terminal. No cancelled, failed or stale frame
\* leaves a lock or a resize plan behind that would keep every later one out.
AdmittedFinishes ==
  /\ \A c \in Clients : conn[c].pc \in Handling <=> lock = c
  /\ \A c \in Clients : lock = c /\ IsInput(conn[c].frame) => controller = c
  /\ plan # NoPlan => lock = plan.client /\ (OnCore => PlanCurrent)
  /\ gridLock # NoClient => job[gridLock] \in {"promote", "recheck"}

\* Nothing is under way.
Quiet == lock = NoClient /\ \A c \in Clients : /\ job[c] = "none"
                                              /\ conn[c].pc \in {"new", "idle", "gone"}

\* At most one view sizes the shared window, whatever calls fail, apart from views
\* that a script over SSH took the role for after the Core had given it up; and when
\* nothing is under way and nothing failed it is the view of the connection whose
\* resize was committed last: whatever was cancelled, went stale or was overtaken
\* gave its role back.
GridHasOneOwner ==
  /\ Cardinality(sizers \ strays) <= 1
  /\ Quiet /\ left.faults = MaxFaults /\ applied # NoResize => sizers \subseteq {applied.client}

\* All views share one grid, and one view determines its size. Over SSH they need
\* not: a promotion that timed out is completed by its script after another view
\* was promoted.
OneViewSizes == Cardinality(sizers) <= 1

=============================================================================
