-------------------------- MODULE WorkspaceWindows --------------------------
(***************************************************************************)
(* The tmux windows of one Workspace, their rows in terminals, and the     *)
(* requests that work on both: a page that brings the rows up to date, a   *)
(* terminal that is created or closed, a saved command that is run in its  *)
(* slot, an editor that is opened on a file.  Commands and the editor are  *)
(* wrappers that mark their window themselves once they run.               *)
(*                                                                         *)
(* One lock per Workspace covers commands and the editor: in the Core on   *)
(* "local" and "ssh", in the agent on "node".  On this machine it covers   *)
(* the listing of windows together with its way into the rows as well;     *)
(* over SSH and from a Node a listing may reach the rows late.  Over SSH   *)
(* the launch is a script that goes on when the channel breaks; a Node     *)
(* finishes what it has begun.                                             *)
(***************************************************************************)
EXTENDS Naturals, Sequences, FiniteSets, Functions

CONSTANTS
  Requests,  \* 1 .. n: requests, in the order in which they arrive
  Commands,  \* saved commands of the slot
  Budgets    \* the histories explored: the backend, which requests and how many,
             \* and the lost calls, Core crashes and failing tmux commands it meets

Backends == {"local", "ssh", "node"}
Ops == {"page", "create", "close", "command", "editor"}
BudgetType == [backend: Backends, ops: SUBSET Ops, requests: Nat,
               losses: Nat, crashes: Nat, fails: Nat]

ASSUME RequestsAssumption ==
  IsFiniteSet(Requests) /\ Requests = 1 .. Cardinality(Requests)
ASSUME CommandsAssumption == "none" \notin Commands
ASSUME WindowBudgets == Budgets \subseteq BudgetType

VARIABLES
  backend,  \* where the Workspace lives
  req,      \* the requests
  lock,     \* the request that holds the Workspace's lock, or 0
  at,       \* the window at every index of the session, or 0
  wins,     \* every window ever created
  rows,     \* the rows in terminals
  ids,      \* row ids given out so far
  claims,   \* workspace_command_claims: the command of every claimed launch
  runs,     \* how often the command of a launch was started
  astray,   \* a launch was given up that may still go on
  left      \* what is left of the budget

vars == <<backend, req, lock, at, wins, rows, ids, claims, runs, astray, left>>
tmux == <<at, wins>>
table == <<rows, ids>>
ghost == <<runs, astray>>

RequestType ==
  [op: Ops \cup {"none"},
   pc: {"idle", "lock", "list1", "sync1", "look", "detach", "open", "respawn", "poll",
        "clean", "list2", "sync2", "make", "insert", "check", "kill", "drop", "done"},
   launch: Requests \cup {0},     \* the launch identity in the form
   win: Nat,                      \* the window it works on
   row: Nat,                      \* the row it was asked for
   made: BOOLEAN,                 \* it created its window
   seen: Seq(Nat),                \* the windows it listed
   heard: BOOLEAN]                \* the Core still waits for the answer

WindowType ==
  [name: {"shell", "run", "history", "vim"},
   pc: {"shell", "begin", "mark", "command", "settling", "opening", "vim", "dead", "gone"},
   run: Requests \cup {0},        \* the launch its process was started with
   slot: BOOLEAN, launch: Requests \cup {0},
   state: {"none", "running", "settling", "shell"},
   editor: BOOLEAN]

Arrived(o) == [op |-> o, pc |-> "idle", launch |-> 0, win |-> 0, row |-> 0,
               made |-> FALSE, seen |-> <<>>, heard |-> TRUE]
Window(n, p, l) == [name |-> n, pc |-> p, run |-> l, slot |-> FALSE, launch |-> 0,
                    state |-> "none", editor |-> FALSE]

\* A Workspace with two shells.
Init ==
  /\ \E b \in Budgets : backend = b.backend /\ left = b
  /\ req = [q \in Requests |-> Arrived("none")]
  /\ lock = 0
  /\ at = <<1, 2>> \o [i \in Requests |-> 0]
  /\ wins = <<Window("shell", "shell", 0), Window("shell", "shell", 0)>>
  /\ rows = {[id |-> 1, win |-> 1, name |-> "shell"], [id |-> 2, win |-> 2, name |-> "shell"]}
  /\ ids = 2
  /\ claims = [q \in Requests |-> "none"]
  /\ runs = [q \in Requests |-> 0]
  /\ astray = FALSE

-----------------------------------------------------------------------------
(* tmux *)

Up(w) == w \in Range(at)

\* list-windows: in the order of their indexes.
Listing ==
  LET shown[i \in 0 .. Len(at)] ==
        IF i = 0 THEN <<>>
        ELSE IF at[i] = 0 THEN shown[i - 1] ELSE Append(shown[i - 1], at[i])
  IN shown[Len(at)]

\* new-window takes the lowest free index.
Open(window) ==
  /\ wins' = Append(wins, window)
  /\ \E i \in DOMAIN at :
       /\ at[i] = 0 /\ \A j \in 1 .. (i - 1) : at[j] # 0
       /\ at' = [at EXCEPT ![i] = Len(wins) + 1]

Shut(w) ==
  /\ at' = [i \in DOMAIN at |-> IF at[i] = w THEN 0 ELSE at[i]]
  /\ wins' = [wins EXCEPT ![w].pc = "gone"]

-----------------------------------------------------------------------------
(* Rows *)

Oldest(R) == {r \in R : \A s \in R : r.id <= s.id}

\* The row a listed window gets, of those no earlier window got: its own, the oldest
\* of its name, or the oldest.
RowFor(w, free) ==
  LET own  == {r \in free : r.win = w}
      same == {r \in free : r.name = wins[w].name}
  IN IF own # {} THEN own ELSE IF same # {} THEN Oldest(same) ELSE Oldest(free)

\* reconcile_terminals: the rows of the listed windows, in the order of the list.
Assigned(seen) ==
  LET got[i \in 0 .. Len(seen)] ==
        IF i = 0 THEN {}
        ELSE got[i - 1] \cup
             {[id |-> r.id, win |-> seen[i], name |-> wins[seen[i]].name] :
                r \in RowFor(seen[i], {r \in rows : \A g \in got[i - 1] : g.id # r.id})}
  IN got[Len(seen)]

Reconcile(seen) ==
  LET kept  == Assigned(seen)
      fresh == {w \in Range(seen) : \A r \in kept : r.win # w}
      Number(w) == ids + Cardinality({v \in fresh : v <= w})
  IN /\ rows' = kept \cup {[id |-> Number(w), win |-> w, name |-> wins[w].name] :
                             w \in fresh}
     /\ ids' = ids + Cardinality(fresh)

-----------------------------------------------------------------------------
(* Requests *)

Go(q, p) == req' = [req EXCEPT ![q].pc = p]
Release(q) == lock' = IF lock = q THEN 0 ELSE lock
\* The request is answered, with a terminal or with an error.
Finish(q) == req' = [req EXCEPT ![q] = [Arrived(@.op) EXCEPT !.pc = "done"]] /\ Release(q)

Arrives(q, o) ==
  /\ req[q].pc = "idle" /\ \A p \in 1 .. (q - 1) : req[p].pc # "idle"
  /\ q <= left.requests /\ o \in left.ops

Page(q) ==
  /\ Arrives(q, "page")
  /\ req' = [req EXCEPT ![q] = [Arrived("page") EXCEPT !.pc = "list1"]]
  /\ UNCHANGED <<backend, lock, tmux, table, claims, ghost, left>>

Create(q) ==
  /\ Arrives(q, "create")
  /\ req' = [req EXCEPT ![q] = [Arrived("create") EXCEPT !.pc = "list1"]]
  /\ UNCHANGED <<backend, lock, tmux, table, claims, ghost, left>>

Close(q) ==
  /\ Arrives(q, "close")
  /\ \E r \in rows : req' = [req EXCEPT ![q] =
       [Arrived("close") EXCEPT !.pc = IF backend = "node" THEN "check" ELSE "list1",
                                !.row = r.id, !.win = r.win]]
  /\ UNCHANGED <<backend, lock, tmux, table, claims, ghost, left>>

Editor(q) ==
  /\ Arrives(q, "editor")
  /\ req' = [req EXCEPT ![q] = [Arrived("editor") EXCEPT !.pc = "lock"]]
  /\ UNCHANGED <<backend, lock, tmux, table, claims, ghost, left>>

\* Mutant: a launch that was claimed before is dispatched once more.
ClaimAlways(q, l, c) ==
  /\ req' = [req EXCEPT ![q] = [Arrived("command") EXCEPT !.pc = "lock", !.launch = l]]
  /\ claims' = [claims EXCEPT ![l] = IF @ = "none" THEN c ELSE @]

\* claim_workspace_command: every launch identity is dispatched once.
Claim(q, l, c) ==
  IF claims[l] = "none"
  THEN /\ req' = [req EXCEPT ![q] = [Arrived("command") EXCEPT !.pc = "lock", !.launch = l]]
       /\ claims' = [claims EXCEPT ![l] = c]
  ELSE /\ req' = [req EXCEPT ![q] = [Arrived("command") EXCEPT !.pc = "done"]]
       /\ UNCHANGED claims

\* A form with a launch identity of its own, or one that was submitted before.
Command(q) ==
  /\ Arrives(q, "command")
  /\ \E l \in 1 .. q, c \in Commands : Claim(q, l, c)
  /\ UNCHANGED <<backend, lock, tmux, table, ghost, left>>

\* Mutant: every request has a lock of its own.
LockedAlone(q) == lock' = q

\* _workspace_command_lock
Locked(q) == lock \in {0, q} /\ lock' = q

TakeLock(q) ==
  /\ req[q].pc = "lock" /\ Locked(q) /\ Go(q, "list1")
  /\ UNCHANGED <<backend, tmux, table, claims, ghost, left>>

Slotted == {w \in Range(at) \ {0} : wins[w].slot}
Editing == {w \in Range(at) \ {0} : wins[w].editor}
Holds(q) == req[q].op \in {"command", "editor"}

\* What follows the first listing, and its way into the rows.
Then(q) == IF req[q].op = "page" THEN "done" ELSE IF req[q].op = "create" THEN "make"
           ELSE IF req[q].op = "close" THEN "kill" ELSE "look"

\* ensure_workspace, its listing: a session without windows is created first.
List(q) ==
  /\ IF Listing = <<>>
     THEN Open(Window("shell", "shell", 0)) ELSE UNCHANGED tmux
  /\ LET seen == IF Listing = <<>> THEN <<Len(wins) + 1>> ELSE Listing
         next == IF req[q].pc = "list2" THEN "sync2"
                 ELSE IF backend = "node" /\ req[q].op # "page" THEN Then(q)
                 ELSE "sync1"
     IN req' = [req EXCEPT ![q].seen = seen, ![q].pc = next]
  /\ UNCHANGED <<backend, table, claims, ghost, left>>

LocalList(q) == backend = "local" /\ Locked(q) /\ List(q)
SshList(q) == backend = "ssh" /\ UNCHANGED lock /\ List(q)
\* At its end an agent's request looks for its window; a close only for any at all.
Missing(q) ==
  /\ backend = "node" /\ req[q].pc = "list2"
  /\ IF req[q].op = "close" THEN Listing = <<>> ELSE req[q].win \notin Range(Listing)

\* The agent releases its lock with the answer.
NodeList(q) ==
  /\ backend = "node" /\ ~Missing(q)
  /\ IF req[q].pc = "list2" THEN Release(q) ELSE UNCHANGED lock
  /\ List(q)
Lists(q) == req[q].pc \in {"list1", "list2"}
            /\ (LocalList(q) \/ SshList(q) \/ NodeList(q))

\* ensure_workspace, its way into the rows.
Sync(q) ==
  /\ req[q].pc \in {"sync1", "sync2"}
  /\ Reconcile(req[q].seen)
  /\ IF req[q].pc = "sync2" \/ Then(q) = "done" THEN Finish(q)
     ELSE Go(q, Then(q)) /\ (IF Holds(q) THEN UNCHANGED lock ELSE Release(q))
  /\ UNCHANGED <<backend, tmux, claims, ghost, left>>

-----------------------------------------------------------------------------
(* create and close *)

Make(q) ==
  /\ req[q].pc = "make"
  /\ Open(Window("shell", "shell", 0))
  /\ req' = [req EXCEPT ![q].pc = IF backend = "node" THEN "list2" ELSE "insert",
                        ![q].win = Len(wins) + 1]
  /\ UNCHANGED <<backend, lock, table, claims, ghost, left>>

\* Store.create_terminal, unless another request's listing brought the window into
\* the rows already: tmux_window is unique.
Insert(q) ==
  /\ req[q].pc = "insert"
  /\ IF \E r \in rows : r.win = req[q].win THEN UNCHANGED table
     ELSE /\ rows' = rows \cup {[id |-> ids + 1, win |-> req[q].win, name |-> "shell"]}
          /\ ids' = ids + 1
  /\ Finish(q)
  /\ UNCHANGED <<backend, tmux, claims, ghost, left>>

\* An agent refuses to close the last window.
Check(q) ==
  /\ req[q].pc = "check"
  /\ IF Up(req[q].win) /\ Len(Listing) > 1 THEN Go(q, "kill") /\ UNCHANGED lock
     ELSE Finish(q)
  /\ UNCHANGED <<backend, tmux, table, claims, ghost, left>>

\* kill-window
Kill(q) ==
  /\ req[q].pc = "kill"
  /\ IF Up(req[q].win)
     THEN /\ Shut(req[q].win)
          /\ Go(q, IF backend = "node" THEN "list2" ELSE "drop") /\ UNCHANGED lock
     ELSE Finish(q) /\ UNCHANGED tmux
  /\ UNCHANGED <<backend, table, claims, ghost, left>>

\* Store.delete_terminal
Drop(q) ==
  /\ req[q].pc = "drop"
  /\ rows' = {r \in rows : r.id # req[q].row}
  /\ Go(q, "list2")
  /\ UNCHANGED <<backend, lock, tmux, ids, claims, ghost, left>>

-----------------------------------------------------------------------------
(* run_workspace_command and open_terminal_editor *)

\* The terminal that is there already is the answer; from a Node it comes with
\* the listing.
Answer(q) ==
  IF backend = "node" THEN Go(q, "sync2") /\ Release(q) ELSE Finish(q)

\* Mutant: a window whose command still runs is started over.
BusyNever(w) == wins[w].state = "settling"

Busy(w) == wins[w].state \in {"running", "settling"}

\* The slot's window, if there is one; two of them are an error.
LookForCommand(q) ==
  /\ req[q].op = "command"
  /\ \/ Slotted = {} /\ Go(q, "open") /\ UNCHANGED lock
     \/ Cardinality(Slotted) > 1 /\ Finish(q)
     \/ \E w \in Slotted :
          /\ Slotted = {w}
          /\ LET same == claims[wins[w].launch] = claims[req[q].launch]
             IN IF w \notin Range(req[q].seen) THEN Finish(q)
                ELSE IF same /\ (Busy(w) \/ wins[w].launch = req[q].launch) THEN Answer(q)
                ELSE /\ req' = [req EXCEPT ![q].win = w,
                                           ![q].pc = IF same THEN "respawn" ELSE "detach"]
                     /\ UNCHANGED lock
  /\ UNCHANGED tmux

\* The window that shows the file; a dead one makes way.
LookForEditor(q) ==
  /\ req[q].op = "editor"
  /\ IF Editing = {} THEN Go(q, "open") /\ UNCHANGED <<lock, tmux>>
     ELSE \E w \in Editing :
            IF wins[w].pc = "dead" THEN Shut(w) /\ Go(q, "open") /\ UNCHANGED lock
            ELSE /\ IF w \in Range(req[q].seen) THEN Answer(q) ELSE Finish(q)
                 /\ UNCHANGED tmux

Look(q) ==
  /\ req[q].pc = "look"
  /\ LookForCommand(q) \/ LookForEditor(q)
  /\ UNCHANGED <<backend, table, claims, ghost, left>>

\* Mutant: the state option gets the name of the window.
DetachNamed(q) ==
  /\ req[q].pc = "detach"
  /\ wins' = [wins EXCEPT ![req[q].win].slot = FALSE, ![req[q].win].state = "history"]
  /\ Go(q, "open")
  /\ UNCHANGED <<backend, lock, at, table, claims, ghost, left>>

\* clear_tmux_workspace_command_identity: the window keeps its command and leaves
\* the slot.
Detach(q) ==
  /\ req[q].pc = "detach"
  /\ wins' = [wins EXCEPT ![req[q].win].slot = FALSE, ![req[q].win].launch = 0,
                          ![req[q].win].state = "none", ![req[q].win].name = "history"]
  /\ Go(q, "open")
  /\ UNCHANGED <<backend, lock, at, table, claims, ghost, left>>

OpenWrapper(q) ==
  /\ req[q].pc = "open"
  /\ Open(IF req[q].op = "command" THEN Window("run", "begin", req[q].launch)
          ELSE Window("vim", "opening", 0))
  /\ req' = [req EXCEPT ![q].pc = "poll", ![q].win = Len(wins) + 1, ![q].made = TRUE]
  /\ UNCHANGED <<backend, lock, table, claims, ghost, left>>

\* respawn-pane -k
Respawn(q) ==
  /\ req[q].pc = "respawn"
  /\ IF Up(req[q].win)
     THEN /\ wins' = [wins EXCEPT ![req[q].win].pc = "begin",
                                  ![req[q].win].run = req[q].launch]
          /\ Go(q, "poll") /\ UNCHANGED lock
     ELSE Finish(q) /\ UNCHANGED wins
  /\ UNCHANGED <<backend, at, table, claims, ghost, left>>

\* workspace_command_record_is_ready, or the editor's mark
Ready(q) ==
  LET w == req[q].win
  IN /\ Up(w)
     /\ IF req[q].op = "editor" THEN wins[w].editor
        ELSE wins[w].slot /\ wins[w].launch = req[q].launch

\* A script over SSH that nobody waits for just ends.
Poll(q) ==
  /\ req[q].pc = "poll" /\ Ready(q)
  /\ IF backend = "ssh" /\ ~req[q].heard THEN Finish(q) ELSE Go(q, "list2") /\ UNCHANGED lock
  /\ UNCHANGED <<backend, tmux, table, claims, ghost, left>>

\* Mutant: the error leaves the lock taken.
TimeoutLocked(q) ==
  /\ req[q].pc = "poll"
  /\ IF req[q].made THEN Go(q, "clean") /\ UNCHANGED <<lock, astray>>
     ELSE Go(q, "done") /\ astray' = TRUE /\ UNCHANGED lock
  /\ UNCHANGED <<backend, tmux, table, claims, runs, left>>

\* The wrapper did not come up in WORKSPACE_COMMAND_READY_TIMEOUT_SECONDS. A window
\* that was there before is left as it is.
Timeout(q) ==
  /\ req[q].pc = "poll"
  /\ IF req[q].made THEN Go(q, "clean") /\ UNCHANGED <<lock, astray>>
     ELSE Finish(q) /\ astray' = TRUE
  /\ UNCHANGED <<backend, tmux, table, claims, runs, left>>

\* A new window is killed, if tmux can be reached.
Clean(q) ==
  /\ req[q].pc = "clean"
  /\ IF Up(req[q].win) THEN Shut(req[q].win) ELSE UNCHANGED tmux
  /\ Finish(q)
  /\ UNCHANGED <<backend, table, claims, ghost, left>>

-----------------------------------------------------------------------------
(* The wrappers *)

\* WORKSPACE_COMMAND_WRAPPER: first the state,
WrapperState(w) ==
  /\ wins[w].pc = "begin"
  /\ wins' = [wins EXCEPT ![w].pc = "mark", ![w].state = "running"]
  /\ UNCHANGED <<backend, req, lock, at, table, claims, ghost, left>>

\* then the launch and, last, the slot; then the command.
WrapperBind(w) ==
  /\ wins[w].pc = "mark"
  /\ wins' = [wins EXCEPT ![w].pc = "command", ![w].slot = TRUE, ![w].launch = wins[w].run]
  /\ runs' = [runs EXCEPT ![wins[w].run] = @ + 1]
  /\ UNCHANGED <<backend, req, lock, at, table, claims, astray, left>>

CommandEnds(w) ==
  /\ wins[w].pc = "command"
  /\ wins' = [wins EXCEPT ![w].pc = "settling", ![w].state = "settling"]
  /\ UNCHANGED <<backend, req, lock, at, table, claims, ghost, left>>

\* The shell's first prompt, if the window still belongs to this launch.
WrapperPrompt(w) ==
  /\ wins[w].pc = "settling"
  /\ wins' = [wins EXCEPT ![w].pc = "shell",
                          ![w].state = IF wins[w].launch = wins[w].run THEN "shell" ELSE @]
  /\ UNCHANGED <<backend, req, lock, at, table, claims, ghost, left>>

\* TERMINAL_EDITOR_WRAPPER
EditorMarks(w) ==
  /\ wins[w].pc = "opening"
  /\ wins' = [wins EXCEPT ![w].pc = "vim", ![w].editor = TRUE]
  /\ UNCHANGED <<backend, req, lock, at, table, claims, ghost, left>>

\* The user leaves the editor; with remain-on-exit the dead pane stays.
EditorExits(w) ==
  /\ wins[w].pc = "vim"
  /\ \/ Shut(w)
     \/ wins' = [wins EXCEPT ![w].pc = "dead"] /\ UNCHANGED at
  /\ UNCHANGED <<backend, req, lock, table, claims, ghost, left>>

-----------------------------------------------------------------------------
(* Faults *)

Launching == {"open", "respawn", "poll", "clean"}
\* Steps in the Core alone, after a remote answer.
AtCore == {"sync1", "sync2", "insert", "drop"}

\* A tmux command fails: the request ends with the error.
Fails(q) ==
  /\ left.fails > 0
  /\ req[q].pc \in {"list1", "list2", "look", "detach", "open", "respawn", "make", "check",
                   "kill"}
  /\ left' = [left EXCEPT !.fails = @ - 1]
  /\ wins' \in {wins} \cup (IF req[q].pc = "detach"
                            THEN {[wins EXCEPT ![req[q].win].slot = FALSE]} ELSE {})
  /\ Finish(q)
  /\ UNCHANGED <<backend, at, table, claims, ghost>>

\* The kill is not checked: the window of a launch that timed out is left.
CleanFails(q) ==
  /\ req[q].pc = "clean" /\ left.fails > 0
  /\ left' = [left EXCEPT !.fails = @ - 1]
  /\ Finish(q) /\ astray' = TRUE
  /\ UNCHANGED <<backend, tmux, table, claims, runs>>

\* Nobody waits for the request any more: the script of a launch over SSH goes on
\* without the lock, an agent finishes what it has begun.
Abandoned(q) ==
  IF req[q].pc \in {"idle", "done"} THEN req[q]
  ELSE IF \/ backend = "node" /\ req[q].pc \notin AtCore
          \/ backend = "ssh" /\ req[q].pc \in Launching THEN [req[q] EXCEPT !.heard = FALSE]
  ELSE [Arrived(req[q].op) EXCEPT !.pc = "done"]

\* An agent's answer to nobody.
Unheard(q) ==
  /\ backend = "node" /\ ~req[q].heard /\ req[q].pc \in AtCore
  /\ Finish(q)
  /\ UNCHANGED <<backend, tmux, table, claims, ghost, left>>

\* A remote call is lost.
Loses(q) ==
  /\ backend # "local" /\ left.losses > 0
  /\ req[q].heard /\ req[q].pc \notin AtCore \cup {"idle", "lock", "done"}
  /\ left' = [left EXCEPT !.losses = @ - 1]
  /\ req' = [req EXCEPT ![q] = Abandoned(q)]
  /\ IF backend = "ssh" THEN Release(q) ELSE UNCHANGED lock
  /\ astray' = (astray \/ (backend = "ssh" /\ req[q].pc \in Launching))
  /\ UNCHANGED <<backend, tmux, table, claims, runs>>

\* The Core dies and starts again.
Crash ==
  /\ left.crashes > 0
  /\ left' = [left EXCEPT !.crashes = @ - 1]
  /\ req' = [q \in Requests |-> Abandoned(q)]
  /\ IF backend = "node" THEN UNCHANGED lock ELSE lock' = 0
  /\ astray' = (astray \/ (backend # "node" /\ \E q \in Requests : req[q].pc \in Launching))
  /\ UNCHANGED <<backend, tmux, table, claims, runs>>

-----------------------------------------------------------------------------

Arrival(q) == Page(q) \/ Create(q) \/ Close(q) \/ Command(q) \/ Editor(q)

\* An agent that misses the window answers with an error, which leaves the rows as
\* they are; only the editor's listing creates a session that is gone.
Misses(q) ==
  /\ Missing(q)
  /\ IF req[q].op = "editor" /\ Listing = <<>>
     THEN Open(Window("shell", "shell", 0)) ELSE UNCHANGED tmux
  /\ Finish(q)
  /\ UNCHANGED <<backend, table, claims, ghost, left>>

Terminals(q) == Make(q) \/ Insert(q) \/ Check(q) \/ Kill(q) \/ Drop(q) \/ Misses(q)
LocalTerminals(q) == backend = "local" /\ Terminals(q)
SshTerminals(q) == backend = "ssh" /\ Terminals(q)
NodeTerminals(q) == backend = "node" /\ Terminals(q)

Launch(q) == \/ Look(q) \/ Detach(q) \/ OpenWrapper(q) \/ Respawn(q)
             \/ Poll(q) \/ Timeout(q) \/ Clean(q)
LaunchOf(q, op) == req[q].op = op /\ Launch(q)
LocalCommand(q) == backend = "local" /\ LaunchOf(q, "command")
SshCommand(q) == backend = "ssh" /\ LaunchOf(q, "command")
NodeCommand(q) == backend = "node" /\ LaunchOf(q, "command")
LocalEditor(q) == backend = "local" /\ LaunchOf(q, "editor")
SshEditor(q) == backend = "ssh" /\ LaunchOf(q, "editor")
NodeEditor(q) == backend = "node" /\ LaunchOf(q, "editor")

\* A step of the request itself; what nobody hears stays out of the rows.
Step(q) ==
  \/ TakeLock(q) \/ Lists(q) \/ Unheard(q)
  \/ req[q].heard /\ Sync(q)
  \/ LocalTerminals(q) \/ SshTerminals(q) \/ NodeTerminals(q)
  \/ LocalCommand(q) \/ SshCommand(q) \/ NodeCommand(q)
  \/ LocalEditor(q) \/ SshEditor(q) \/ NodeEditor(q)

Wrapper(w) == \/ WrapperState(w) \/ WrapperBind(w) \/ WrapperPrompt(w) \/ EditorMarks(w)

Next == \/ \E q \in Requests : Arrival(q) \/ Step(q) \/ Fails(q) \/ CleanFails(q) \/ Loses(q)
        \/ \E w \in DOMAIN wins : Wrapper(w) \/ CommandEnds(w) \/ EditorExits(w)
        \/ Crash

Spec == Init /\ [][Next]_vars

\* The threads of the Core and of the agent, and the scripts over SSH, go on.
LiveSpec == Spec /\ \A q \in Requests : WF_vars(Step(q))

-----------------------------------------------------------------------------
(* Properties *)

\* Type invariant.
TypeOK ==
  /\ backend \in Backends
  /\ req \in [Requests -> RequestType]
  /\ lock \in Requests \cup {0}
  /\ Range(at) \subseteq 0 .. Len(wins)
  /\ Range(wins) \subseteq WindowType
  /\ \A r, s \in rows : r.win = s.win \/ r.id = s.id => r = s
  /\ \A r \in rows : r.id \in 1 .. ids /\ r.win \in DOMAIN wins
  /\ claims \in [Requests -> Commands \cup {"none"}]
  /\ astray \in BOOLEAN

\* The command of a submitted form is started at most once, whoever submits the
\* form again, whatever is lost, times out or dies on the way
\* (claim_workspace_command, run_workspace_command).
LaunchOnce == \A l \in Requests : runs[l] <= 1

\* No request starts a command over or closes it while it runs, except to close
\* its terminal, or to clean up the launch that the window was made for; as long
\* as no launch was given up that may still go on (_run_workspace_command_locked).
RunningUndisturbed ==
  [][\A w \in DOMAIN wins : wins[w].pc = "command" /\ ~astray' =>
       \/ wins'[w].pc \in {"command", "settling"}
       \/ \E q \in Requests : req[q].win = w /\ req[q].pc \in {"kill", "clean"}]_vars

\* The slot has one window and the file one editor: with two of them every
\* later launch would fail (parse_tmux_workspace_command_records).
OneWindowEach ==
  ~astray => Cardinality(Slotted) <= 1 /\ Cardinality(Editing) <= 1

\* The Workspace's lock belongs to a request that is under way: no error path and
\* no crash keeps it, which would stop every later launch (_workspace_command_lock).
LockOwned == lock # 0 => req[lock].pc \notin {"idle", "done"}

\* A row belongs to one window as long as that window lives: "without churning
\* stable row IDs" (reconcile_terminals).
RowsKeepTheirWindow ==
  [][\A r \in rows, s \in rows' : r.id = s.id /\ r.win # s.win => ~Up(r.win)]_vars
=============================================================================
