--------------------------- MODULE TerminalControl ---------------------------
(***************************************************************************)
(* The registry of one terminal's browser connections kept by              *)
(* TerminalControl: who may type, who may resize the shared tmux grid, and *)
(* the one resize that may be in progress. Every operation is atomic: the  *)
(* class runs it under its threading.Lock. Bridges may call the operations *)
(* in any order; TerminalBridge says in which order they do.               *)
(*                                                                         *)
(* At most one plan is registered at a time. An operation on a plan that   *)
(* is not the registered one changes nothing, so only the registered plan  *)
(* is kept, with applied tokens reduced to a flag of that plan.            *)
(***************************************************************************)
EXTENDS Naturals, Sequences, FiniteSets, SequencesExt

CONSTANTS
  Clients,     \* connection ids; every connection draws a new one
  Sizes,       \* grid sizes
  NoClient, NoPlan, NoResize

ASSUME ClientAssumption ==
  /\ NoClient \notin Clients
  /\ NoPlan \notin [client: Clients, size: Sizes, rev: Nat, boot: BOOLEAN,
                    apply: BOOLEAN]
  /\ NoResize \notin [client: Clients, size: Sizes]

VARIABLES
  clients,      \* connected clients, oldest first
  used,         \* ids drawn so far
  controller,   \* the client that may type
  controlRev,   \* control revision shown to browsers
  inputOwner,   \* the client whose input was admitted last
  bootPending,  \* the grid is new and not sized by a browser yet
  bootOwner,    \* the client that may size the new grid before any input
  inputRev,     \* number of admitted inputs
  applied,      \* the last committed resize
  plan,         \* the resize in progress
  planApplied,  \* the plan reached the terminal's backend
  bootApplied,  \* a bootstrap plan reached it and is not committed
  grids,        \* history: grids created
  boots         \* history: bootstrap resizes that reached the backend

control == <<controller, controlRev>>
boot    == <<bootPending, bootOwner, bootApplied>>
resize  == <<applied, plan, planApplied>>
history == <<grids, boots>>
vars == <<clients, used, control, inputOwner, boot, inputRev, resize, history>>

Plans   == [client: Clients, size: Sizes, rev: Nat, boot: BOOLEAN,
            apply: BOOLEAN]
Resizes == [client: Clients, size: Sizes]

Connected == Range(clients)

Init ==
  /\ clients = <<>> /\ used = {}
  /\ controller = NoClient /\ controlRev = 0
  /\ inputOwner = NoClient /\ inputRev = 0
  /\ bootPending = FALSE /\ bootOwner = NoClient /\ bootApplied = FALSE
  /\ applied = NoResize /\ plan = NoPlan /\ planApplied = FALSE
  /\ grids = 0 /\ boots = 0

-----------------------------------------------------------------------------
(* Operations *)

\* The first client of a terminal controls it; a new grid without any owner is
\* offered to the client that connects.
Register(c) ==
  /\ c \notin used
  /\ used' = used \cup {c}
  /\ clients' = Append(clients, c)
  /\ IF clients = <<>>
     THEN controller' = c /\ controlRev' = controlRev + 1
     ELSE UNCHANGED control
  /\ bootOwner' = IF /\ bootPending /\ inputOwner = NoClient
                     /\ bootOwner = NoClient /\ plan = NoPlan
                  THEN c ELSE bootOwner
  /\ UNCHANGED <<inputOwner, bootPending, bootApplied, inputRev, resize,
                 history>>

\* Mutant: the revision only counts claims that displace a controller.
ClaimControlSilent(c) ==
  /\ c \in Connected /\ controller # c
  /\ controller' = c
  /\ controlRev' = IF controller = NoClient THEN controlRev ELSE controlRev + 1
  /\ inputOwner' = NoClient
  /\ UNCHANGED <<clients, used, boot, inputRev, resize, history>>

\* Control moves to a connected client; the previous controller's input no
\* longer owns the grid.
ClaimControl(c) ==
  /\ c \in Connected /\ controller # c
  /\ controller' = c
  /\ controlRev' = controlRev + 1
  /\ inputOwner' = NoClient
  /\ UNCHANGED <<clients, used, boot, inputRev, resize, history>>

\* A tmux grid was created, by the bridge of client c or by nobody in
\* particular (NoClient).
MarkGridFresh(c) ==
  /\ grids' = grids + 1
  /\ bootPending' = TRUE
  /\ bootOwner' = IF /\ c \in Connected /\ inputOwner = NoClient
                     /\ bootOwner = NoClient
                  THEN c ELSE bootOwner
  /\ UNCHANGED <<clients, used, control, inputOwner, bootApplied, inputRev,
                 resize, boots>>

\* Real input ends the bootstrap and makes its client the owner of the grid.
MarkInput(c) ==
  /\ c \in Connected
  /\ inputOwner' = c
  /\ bootPending' = FALSE /\ bootOwner' = NoClient
  /\ inputRev' = inputRev + 1
  /\ UNCHANGED <<clients, used, control, bootApplied, resize, history>>

\* The backend says that the new grid was sized before this connection.
MarkGridExisting ==
  /\ bootPending \/ bootOwner # NoClient
  /\ bootPending' = FALSE /\ bootOwner' = NoClient
  /\ UNCHANGED <<clients, used, control, inputOwner, bootApplied, inputRev,
                 resize, history>>

\* _resize_owner
ResizeOwner ==
  IF inputOwner \in Connected THEN inputOwner
  ELSE IF bootOwner \in Connected /\ ~bootApplied THEN bootOwner ELSE NoClient

\* Mutant: the plan keeps the bootstrap owner instead of whether it is c.
BeginResizeOwner(c, s) ==
  /\ c \in Clients /\ ResizeOwner = c /\ plan = NoPlan
  /\ plan' = [client |-> c, size |-> s, rev |-> inputRev, boot |-> bootOwner,
              apply |-> applied # [client |-> c, size |-> s]]
  /\ UNCHANGED <<clients, used, control, inputOwner, boot, inputRev, applied,
                 planApplied, history>>

\* One plan at a time, for the owner of the grid; whether it is a bootstrap and
\* whether the backend needs the resize is decided here.
BeginResize(c, s) ==
  /\ c \in Clients /\ ResizeOwner = c /\ plan = NoPlan
  /\ plan' = [client |-> c, size |-> s, rev |-> inputRev,
              boot |-> bootOwner = c,
              apply |-> applied # [client |-> c, size |-> s]]
  /\ UNCHANGED <<clients, used, control, inputOwner, boot, inputRev, applied,
                 planApplied, history>>

\* _plan_current, for the registered plan.
PlanCurrent ==
  /\ plan # NoPlan
  /\ plan.client \in Connected
  /\ plan.client = IF plan.boot THEN bootOwner ELSE inputOwner
  /\ plan.rev = inputRev

\* Mutant: an applied bootstrap leaves the grid pending until its commit.
ResizeAppliedPending ==
  /\ plan # NoPlan
  /\ planApplied' = TRUE
  /\ bootApplied' = (bootApplied \/ plan.boot)
  /\ boots' = IF plan.boot /\ ~planApplied THEN boots + 1 ELSE boots
  /\ UNCHANGED <<clients, used, control, inputOwner, bootOwner, inputRev,
                 bootPending, applied, plan, grids>>

\* The backend was resized: even a stale bootstrap plan uses the new grid up.
ResizeApplied ==
  /\ plan # NoPlan
  /\ planApplied' = TRUE
  /\ bootPending' = (bootPending /\ ~plan.boot)
  /\ bootApplied' = (bootApplied \/ plan.boot)
  /\ boots' = IF plan.boot /\ ~planApplied THEN boots + 1 ELSE boots
  /\ UNCHANGED <<clients, used, control, inputOwner, bootOwner, inputRev,
                 applied, plan, grids>>

\* Only a plan that is still current and reached the backend is recorded.
CommitResize ==
  /\ PlanCurrent
  /\ plan.apply => planApplied
  /\ plan.boot => bootApplied
  /\ applied' = [client |-> plan.client, size |-> plan.size]
  /\ plan' = NoPlan /\ planApplied' = FALSE
  /\ IF plan.boot
     THEN bootPending' = FALSE /\ bootOwner' = NoClient /\ bootApplied' = FALSE
     ELSE UNCHANGED boot
  /\ UNCHANGED <<clients, used, control, inputOwner, inputRev, history>>

\* A bootstrap that reached the backend is not offered again; one that did not
\* goes to the oldest client.
AbortResize ==
  /\ plan # NoPlan
  /\ plan' = NoPlan /\ planApplied' = FALSE
  /\ IF plan.boot /\ bootApplied
     THEN bootOwner' = NoClient /\ bootApplied' = FALSE
     ELSE /\ bootOwner' = IF bootPending /\ bootOwner = NoClient /\ clients # <<>>
                          THEN clients[1] ELSE bootOwner
          /\ UNCHANGED bootApplied
  /\ UNCHANGED <<clients, used, control, inputOwner, bootPending, inputRev,
                 applied, history>>

\* The connections other than the i-th.
Without(i) == RemoveAt(clients, i)

\* Mutant: a controller that disconnects keeps the terminal.
UnregisterAtKeepsControl(c, i) ==
  /\ clients[i] = c
  /\ clients' = Without(i)
  /\ inputOwner' = IF inputOwner = c THEN NoClient ELSE inputOwner
  /\ bootOwner' = IF bootOwner = c THEN NoClient ELSE bootOwner
  /\ applied' = IF applied # NoResize /\ applied.client = c THEN NoResize
                ELSE applied
  /\ UNCHANGED <<used, control, bootPending, bootApplied, inputRev, plan,
                 planApplied, history>>

\* A client leaves: it takes its control, its ownership and its committed size
\* with it. Nobody controls the terminal until somebody claims it.
UnregisterAt(c, i) ==
  /\ clients[i] = c
  /\ clients' = Without(i)
  /\ IF controller = c
     THEN controller' = NoClient /\ controlRev' = controlRev + 1
     ELSE UNCHANGED control
  /\ IF Without(i) = <<>>
     THEN inputOwner' = NoClient /\ bootOwner' = NoClient /\ applied' = NoResize
     ELSE /\ inputOwner' = IF inputOwner = c THEN NoClient ELSE inputOwner
          /\ bootOwner' = IF bootOwner # c THEN bootOwner
                          ELSE IF bootPending /\ plan = NoPlan
                          THEN Without(i)[1] ELSE NoClient
          /\ applied' = IF applied # NoResize /\ applied.client = c
                        THEN NoResize ELSE applied
  /\ UNCHANGED <<used, bootPending, bootApplied, inputRev, plan, planApplied,
                 history>>

Unregister(c) == \E i \in DOMAIN clients : UnregisterAt(c, i)

Next ==
  \/ \E c \in Clients : \/ Register(c) \/ ClaimControl(c) \/ MarkInput(c)
                        \/ Unregister(c)
  \/ \E c \in Clients \cup {NoClient} : MarkGridFresh(c)
  \/ \E c \in Clients, s \in Sizes : BeginResize(c, s)
  \/ MarkGridExisting \/ ResizeApplied \/ CommitResize \/ AbortResize

Spec == Init /\ [][Next]_vars

-----------------------------------------------------------------------------
(* Properties *)

\* Every variable keeps its type; in particular a plan records whether it is a
\* bootstrap, not for whom (TerminalResizePlan).
TypeOK ==
  /\ clients \in Seq(Clients)
  /\ used \subseteq Clients
  /\ controller \in Clients \cup {NoClient}
  /\ controlRev \in Nat
  /\ inputOwner \in Clients \cup {NoClient}
  /\ bootPending \in BOOLEAN
  /\ bootOwner \in Clients \cup {NoClient}
  /\ inputRev \in Nat
  /\ applied \in Resizes \cup {NoResize}
  /\ plan \in Plans \cup {NoPlan}
  /\ planApplied \in BOOLEAN
  /\ bootApplied \in BOOLEAN
  /\ grids \in Nat /\ boots \in Nat

\* Control, grid ownership, bootstrap ownership and the committed size never
\* survive the connection they were given to, whatever order registrations,
\* claims, inputs, plans and disconnects come in (unregister).
OwnersConnected ==
  /\ controller # NoClient => controller \in Connected
  /\ inputOwner # NoClient => inputOwner \in Connected
  /\ bootOwner # NoClient => bootOwner \in Connected
  /\ applied # NoResize => applied.client \in Connected

\* A newly created grid is sized by at most one bootstrap resize, even when the
\* plan goes stale, is aborted after it was applied, or its client leaves
\* (resize_applied, abort_resize: "must never reopen the same fresh grid").
BootstrapOnce == boots <= grids

\* What makes BootstrapOnce inductive. An unapplied bootstrap plan and a
\* pending grid stand for one more bootstrap that may come; the bootstrap is
\* marked applied exactly while an applied bootstrap plan is registered.
UnusedBootstrap == bootPending \/ (plan # NoPlan /\ plan.boot /\ ~planApplied)
BootstrapAccounting ==
  /\ IF UnusedBootstrap THEN boots + 1 <= grids ELSE boots <= grids
  /\ bootApplied <=> plan # NoPlan /\ plan.boot /\ planApplied
  /\ planApplied => plan # NoPlan
  /\ bootOwner # NoClient => bootPending \/ bootApplied

\* Browsers order control messages by revision: a change of controller always
\* increases it, so a viewer can never hold a stale controller under the
\* current revision (control_state).
ControlRevised == [][controller' # controller => controlRev' > controlRev]_vars

=============================================================================
