---------------------------- MODULE FileRunProofs ----------------------------
(***************************************************************************)
(* Proofs about FileRun, for any number of runs and any history of lost    *)
(* calls, crashes, losses of tmux, interrupts, kills and edits: one active *)
(* run, what is claimed is what runs on a Node, a run that is reported     *)
(* ended does not run, and reports are true.                               *)
(*                                                                         *)
(* The invariant has two parts.  Base holds in every history: it says      *)
(* which records a wrapper can have left at its step (Written), and what   *)
(* can have been written since an inspection looked (Unread).  Quiet is    *)
(* about the histories in which no launch is astray (Told): where the      *)
(* launch and its window are (Placed, Bound), what the holder of the lock  *)
(* knows of the run by its step (Looked), and that every report, also the  *)
(* one that is on its way into the row, is true for good (Outcome).        *)
(***************************************************************************)
EXTENDS FileRun, FiniteSetTheorems, TLAPS

-----------------------------------------------------------------------------
(* The inductive invariant.                                                 *)

\* The steps at which the launch of the run is known to be over.
Past == {"prepare", "windows", "pane", "state", "force", "apply", "mark", "send", "marker"}
Running(r) == wrapper[r].pc \notin {"none", "gone"}

\* The holder of the lock has an active run.
Held ==
  /\ th.pc = "idle" => th = Idle
  /\ th.pc # "idle" => th.run \in Runs /\ row[th.run] \in Active
  /\ th.pc \in {"confirm", "dispatch"} =>
       script[th.run].pc = "none" /\ ~meta[th.run].force /\ th.op = "start"
  /\ th.pc = "wait" => script[th.run].pc # "none" /\ th.op = "start"
  /\ th.pc = "force" => ~th.live
  /\ th.pc \in {"send", "marker"} => meta[th.run].stop
  /\ th.pc \in {"pane", "mark", "send"} => th.win \in Windows

\* A run that is not claimed has nothing, and its pane stands for its launch.
Known(r) ==
  /\ row[r] = "absent" => /\ script[r].pc = "none" /\ ~meta[r].force
                          /\ src.sealed[r] = 0 /\ src.ran[r] = 0
  /\ wrapper[r].pc # "none" <=> script[r].pc = "ok"
  /\ script[r].told => script[r].pc \in {"ok", "err"}
  /\ Shows(r) => script[r].pc = "ok"

\* A Node seals what was claimed and runs what it sealed.
Sealed(r) ==
  backend = "node" => /\ src.sealed[r] \in {0, src.claimed[r]}
                      /\ src.ran[r] \in {0, src.claimed[r]}

\* The records of a wrapper by its step.
Written(r) ==
  /\ meta[r].state => wrapper[r].pc \notin {"none", "check", "state"}
  /\ meta[r].compl # "none" => wrapper[r].pc \in {"exit", "gone"}
  /\ meta[r].prepare => /\ wrapper[r].pc \in {"exit", "gone"}
                        /\ ~meta[r].state /\ meta[r].compl = "none"
  /\ meta[r].compl = "stopped" => wrapper[r].sig /\ meta[r].stop
  /\ wrapper[r].pc = "gone" <=> wrapper[r].exit # "none"

\* What a record that was not there may have become: the pane is not yet dead, or
\* died within the grace period. Or that period ended during this very look.
Late(r) == wrapper[r].pc = "exit" \/ (wrapper[r].pc = "gone" /\ wrapper[r].fresh)
Unread ==
  /\ th.pc \in {"prepare", "windows", "pane", "state", "force"} =>
       meta[th.run].compl = "none" \/ Late(th.run) \/ th.run \in hist.hasty
  /\ th.pc \in {"windows", "pane", "state", "force"} =>
       ~meta[th.run].prepare \/ Late(th.run) \/ th.run \in hist.hasty

Base == TypeOK /\ OneActive /\ Held /\ Unread
        /\ \A r \in Runs : Known(r) /\ Sealed(r) /\ Written(r)

\* The state is true of the run, and stays so.
Outcome(r, st) ==
  /\ st \in Terminal => /\ ~Launching(r)
                        /\ \/ wrapper[r].pc \in {"none", "exit", "gone"}
                           \/ st = "failed" /\ r \in hist.blind
  /\ st = "finished" =>
       \/ meta[r].compl = "finished"
       \/ wrapper[r].exit = "code" /\ (meta[r].compl = "none" \/ r \in hist.hasty)
  /\ st = "stopped" => /\ meta[r].stop
                       /\ \/ wrapper[r].sig
                          \/ wrapper[r].exit # "code" /\ wrapper[r].pc \in {"none", "gone"}
  /\ st = "failed" /\ Shows(r) /\ r \notin hist.blind \cup hist.hasty =>
       \/ ~meta[r].state
       \/ meta[r].compl = "none" /\ wrapper[r].exit = "signal"
  /\ st = "lost" /\ Shows(r) /\ r \notin hist.hasty => meta[r].compl = "none" /\ ~meta[r].prepare

OneSlot ==
  \A v, w \in Windows : wins[v].role = "file_run" /\ wins[w].role = "file_run" => v = w

\* A launch has the only slot, whose program is gone.
Placed(r) ==
  Launching(r) =>
    /\ script[r].win \in Windows
    /\ \A v \in Windows : wins[v].role = "file_run" => v = script[r].win
    /\ wins[script[r].win].pane \in Runs => wrapper[wins[script[r].win].pane].pc = "gone"
    /\ script[r].pc \in {"identity", "respawn"} => wins[script[r].win].role # "shell"
    /\ script[r].pc = "respawn" /\ wins[script[r].win].role # "none"
         => wins[script[r].win].run = r
    /\ backend # "node" => th.pc = "wait" /\ th.run = r

\* A wrapper runs in the slot, and the slot of an active run shows its wrapper.
Bound(r) ==
  /\ Running(r) => \E w \in Windows : BoundTo(w, r) /\ wins[w].pane = r
  /\ row[r] \in Active => \A w \in Windows :
       /\ script[r].pc = "ok" /\ BoundTo(w, r) => wins[w].pane = r
       /\ wins[w].pane = r => BoundTo(w, r)

\* What an inspection has seen of the pane.
PaneSeen(r) ==
  \/ wins[th.win].pane = r
  \/ ~Running(r) /\ ~Shows(r) /\ (script[r].pc = "ok" => wins[th.win].pane \notin Runs)
DeadSeen(r) ==
  /\ ~Running(r)
  /\ script[r].pc = "ok" /\ th.exit # "none" => th.exit = wrapper[r].exit
  /\ Shows(r) => th.exit = wrapper[r].exit

Looked(r) ==
  /\ th.pc \in Past => ~Launching(r)
  /\ th.pc = "pane" => PaneSeen(r)
  /\ th.pc \in {"state", "force"} /\ ~th.live => DeadSeen(r)
  /\ th.pc = "force" => th.st = meta[r].state
  /\ th.pc = "apply" => Outcome(r, th.rep) /\ (th.rep = "lost" => Outcome(r, "failed"))
  /\ th.pc = "marker" \/ (th.sent /\ th.op = "kill") => Outcome(r, "stopped")

True(r) == /\ Outcome(r, row[r]) /\ Placed(r) /\ Bound(r)
           /\ meta[r].force => Outcome(r, "stopped")

Quiet == OneSlot /\ Looked(th.run) /\ \A r \in Runs : True(r)

IInv == Base /\ (Told => Quiet)

-----------------------------------------------------------------------------
(* Types.                                                                   *)

Pcs == {"idle", "confirm", "dispatch", "wait", "apply", "list", "mark", "send", "marker"}
         \cup Reading
Whys == {"none", "start_ok", "start_err", "reconcile", "observe", "before", "after"}
Exits == {"none", "code", "signal"}
Steps == {"none", "check", "state", "trap", "program", "report", "exit", "gone"}
History == [blind: SUBSET Runs, hasty: SUBSET Runs]
Budget == [runs: Nat, losses: Nat, crashes: Nat, reboots: Nat, stops: Nat, kills: Nat,
           edits: Nat]

\* A new inspection.
LEMMA ReadIs ==
  ASSUME NEW t \in ThreadType, NEW why \in Whys
  PROVE  /\ Read(t, why) \in ThreadType
         /\ Read(t, why).pc = "completion" /\ Read(t, why).why = why
         /\ Read(t, why).run = t.run /\ Read(t, why).op = t.op /\ Read(t, why).sent = t.sent
<1>1. Read(t, why) \in ThreadType
  <2> DEFINE a == [t EXCEPT !.pc = "completion", !.why = why, !.win = 0]
             b == [a EXCEPT !.live = FALSE, !.exit = "none"]
             c == [b EXCEPT !.st = FALSE, !.rep = "none"]
  <2>1. a \in ThreadType
    BY DEF ThreadType, Whys, Reading
  <2>2. b \in ThreadType
    <3> HIDE DEF a
    <3> QED BY <2>1 DEF ThreadType
  <2>3. c \in ThreadType
    <3> HIDE DEF b
    <3> QED BY <2>2 DEF ThreadType, Reports
  <2>4. Read(t, why) = c
    BY DEF Read
  <2> QED BY <2>3, <2>4
<1>2. Read(t, why).pc = "completion" /\ Read(t, why).why = why
  BY DEF ThreadType, Read
<1>3. Read(t, why).run = t.run /\ Read(t, why).op = t.op /\ Read(t, why).sent = t.sent
  BY DEF ThreadType, Read
<1> QED BY <1>1, <1>2, <1>3

\* Nobody holds the lock.
LEMMA IdleIs ==
  /\ Idle \in ThreadType
  /\ Idle.pc = "idle" /\ Idle.run = NoRun /\ Idle.op = "none" /\ ~Idle.sent
BY DEF ThreadType, Idle, Reading, Reports, Terminal

\* A process group that is killed, or interrupted.
LEMMA KilledIs ==
  ASSUME NEW p \in WrapperType
  PROVE  /\ Killed(p) \in WrapperType
         /\ Killed(p).sig = p.sig
         /\ p.pc \in {"none", "gone"} => Killed(p) = p
         /\ p.pc \notin {"none", "gone"} =>
              Killed(p).pc = "gone" /\ Killed(p).exit = "signal" /\ Killed(p).fresh
BY DEF WrapperType, Killed

LEMMA InterruptedIs ==
  ASSUME NEW p \in WrapperType
  PROVE  /\ Interrupted(p) \in WrapperType
         /\ p.sig => Interrupted(p).sig
         /\ p.pc \in {"none", "gone"} => Interrupted(p) = p
         /\ p.pc \notin {"none", "gone", "program"} =>
              /\ Interrupted(p).pc = "gone" /\ Interrupted(p).exit = "signal"
              /\ Interrupted(p).fresh
         /\ p.pc = "program" =>
              /\ Interrupted(p).pc = "program" /\ Interrupted(p).exit = p.exit
              /\ Interrupted(p).fresh = p.fresh
<1>1. CASE p.pc = "program"
  BY <1>1 DEF WrapperType, Interrupted
<1>2. CASE p.pc # "program"
  BY <1>2, KilledIs DEF Interrupted
<1> QED BY <1>1, <1>2

\* Windows are counted by numbers.
LEMMA WindowsAreNumbers == Windows \subseteq Nat /\ 0 \notin Windows
BY FS_CardinalityType, RunsAssumption DEF Windows

-----------------------------------------------------------------------------
(* What steps leave as it is.                                               *)

\* A launch that is over stays over, and a wrapper that can write no record any
\* more neither writes one nor comes back.
Calmer(r) ==
  ~Launching(r) =>
    /\ ~Launching(r)'
    /\ Shows(r)' => Shows(r)
    /\ (r \in hist.blind => r \in hist'.blind) /\ (r \in hist.hasty => r \in hist'.hasty)
    /\ wrapper[r].pc \in {"none", "exit", "gone"} =>
         /\ wrapper'[r].pc \in {"none", "exit", "gone"}
         /\ meta'[r].compl = meta[r].compl /\ meta'[r].state = meta[r].state
         /\ meta'[r].prepare = meta[r].prepare
         /\ meta[r].stop => meta'[r].stop
         /\ wrapper[r].sig => wrapper'[r].sig
         /\ wrapper[r].pc \in {"none", "gone"} =>
              wrapper'[r].pc = wrapper[r].pc /\ wrapper'[r].exit = wrapper[r].exit

\* What is true of a run stays true.
LEMMA OutcomeKept ==
  ASSUME NEW r \in Runs, NEW st, Calmer(r), Outcome(r, st), Written(r)
  PROVE  Outcome(r, st)'
<1>1. CASE st \notin Terminal
  BY <1>1 DEF Outcome, Terminal
<1>2. CASE st = "failed" /\ r \in hist.blind
  BY <1>2 DEF Outcome, Calmer, Terminal
<1>3. CASE st \in Terminal /\ ~(st = "failed" /\ r \in hist.blind)
  <2>1. ~Launching(r) /\ wrapper[r].pc \in {"none", "exit", "gone"}
    BY <1>3 DEF Outcome
  <2>2. /\ ~Launching(r)'
        /\ Shows(r)' => Shows(r)
        /\ r \in hist.blind => r \in hist'.blind
        /\ r \in hist.hasty => r \in hist'.hasty
        /\ wrapper'[r].pc \in {"none", "exit", "gone"}
        /\ meta'[r].compl = meta[r].compl /\ meta'[r].state = meta[r].state
        /\ meta'[r].prepare = meta[r].prepare
        /\ meta[r].stop => meta'[r].stop
        /\ wrapper[r].sig => wrapper'[r].sig
        /\ wrapper[r].pc \in {"none", "gone"} =>
              wrapper'[r].pc = wrapper[r].pc /\ wrapper'[r].exit = wrapper[r].exit
    BY <2>1 DEF Calmer
  <2>3. wrapper[r].exit \in {"code", "signal"} => wrapper[r].pc = "gone"
    BY DEF Written
  <2>4. (st = "finished" =>
           \/ meta[r].compl = "finished"
           \/ wrapper[r].exit = "code" /\ (meta[r].compl = "none" \/ r \in hist.hasty))'
    BY <2>2, <2>3 DEF Outcome
  <2>5. (st = "stopped" => /\ meta[r].stop
                           /\ \/ wrapper[r].sig
                              \/ wrapper[r].exit # "code" /\ wrapper[r].pc \in {"none", "gone"})'
    BY <2>2, <2>3 DEF Outcome
  <2>6. (st = "failed" /\ Shows(r) /\ r \notin hist.blind \cup hist.hasty =>
           \/ ~meta[r].state
           \/ meta[r].compl = "none" /\ wrapper[r].exit = "signal")'
    BY <2>2, <2>3 DEF Outcome
  <2>7. (st = "lost" /\ Shows(r) /\ r \notin hist.hasty => meta[r].compl = "none" /\ ~meta[r].prepare)'
    BY <2>2, <2>3 DEF Outcome
  <2> QED BY <2>2, <2>4, <2>5, <2>6, <2>7 DEF Outcome
<1> QED BY <1>1, <1>2, <1>3

\* The state of a row, and of a report, by its value.
LEMMA OutcomeOfRow ==
  ASSUME NEW r \in Runs, NEW st, Outcome(r, st)', row'[r] = st
  PROVE  Outcome(r, row[r])'
BY DEF Outcome

LEMMA OutcomeOfReport ==
  ASSUME NEW r \in Runs, NEW st, Outcome(r, st)', th'.rep = st
  PROVE  Outcome(r, th.rep)'
BY DEF Outcome

LEMMA RowKept ==
  ASSUME NEW r \in Runs, Calmer(r), Outcome(r, row[r]), Written(r), row'[r] = row[r]
  PROVE  Outcome(r, row[r])'
<1>1. PICK st : st = row[r]
  OBVIOUS
<1>2. Outcome(r, st)'
  BY <1>1, OutcomeKept
<1> QED BY <1>1, <1>2, OutcomeOfRow

\* Histories in which a launch is astray are not told again.
LEMMA ToldBefore ==
  ASSUME backend' = backend,
         \A r \in Runs : script[r].pc # "none" =>
           /\ script'[r].pc # "none"
           /\ script'[r].told => script[r].told \/ (th.pc = "wait" /\ th.run = r),
         th'.pc = "wait" => \/ th.pc = "wait" /\ th'.run = th.run
                            \/ script[th'.run].pc = "none",
         Told'
  PROVE  Told
BY DEF Told

\* A new inspection forgets that the grace period ended during an earlier one.
HistoryKept == \/ hist' = hist
               \/ th.pc # "idle" /\ hist' = [hist EXCEPT !.hasty = @ \ {th.run}]

\* The holder of the lock moves on, and nothing else changes.
LEMMA ThreadMoves ==
  ASSUME IInv, UNCHANGED <<backend, src, row, script, wins, wrapper, meta>>, HistoryKept,
         TypeOK', Held', Unread',
         th'.pc = "wait" => th.pc = "wait" /\ th'.run = th.run,
         Told /\ Quiet => Looked(th.run)',
         Told /\ Quiet /\ th.pc = "wait" /\ Launching(th.run) =>
           backend = "node" \/ (th'.pc = "wait" /\ th'.run = th.run)
  PROVE  IInv'
<1>1. Base'
  <2>1. OneActive'
    BY DEF IInv, Base, OneActive
  <2>2. \A r \in Runs : Known(r)' /\ Sealed(r)' /\ Written(r)'
    BY DEF IInv, Base, Known, Sealed, Written, Shows
  <2> QED BY <2>1, <2>2 DEF Base
<1>2. ASSUME Told' PROVE Quiet'
  <2>1. Told
    BY <1>2, ToldBefore
  <2>2. Quiet
    BY <2>1 DEF IInv
  <2>3. OneSlot'
    BY <2>2 DEF Quiet, OneSlot
  <2>4. ASSUME NEW r \in Runs PROVE True(r)'
    <3>1. (meta[r].force => Outcome(r, "stopped"))'
      BY <2>2 DEF Quiet, True, Outcome, Launching, Shows, Terminal
    <3>0. Outcome(r, row[r])'
      <4>1. CASE row[r] \in Active
        BY <4>1 DEF Outcome, Active, Terminal
      <4>2. CASE row[r] \notin Active
        <5>1. hist.blind = hist'.blind /\ (r \in hist'.hasty <=> r \in hist.hasty)
          BY <4>2 DEF HistoryKept, IInv, Base, Held, TypeOK
        <5> QED BY <2>2, <5>1 DEF Quiet, True, Outcome, Launching, Shows
      <4> QED BY <4>1, <4>2
    <3>2. Placed(r)'
      BY <2>1, <2>2 DEF Quiet, True, Placed, Launching
    <3>3. Bound(r)'
      BY <2>2 DEF Quiet, True, Bound, Running, BoundTo
    <3> QED BY <3>0, <3>1, <3>2, <3>3 DEF True
  <2> QED BY <2>1, <2>2, <2>3, <2>4 DEF Quiet
<1> QED BY <1>1, <1>2 DEF IInv

\* Wrappers move on, by themselves or because they are killed.
LEMMA WrapperMoves ==
  ASSUME IInv, UNCHANGED <<backend, row, th, script, wins>>,
         TypeOK', Unread',
         \A r \in Runs :
           /\ Sealed(r)' /\ Written(r)' /\ Calmer(r)
           /\ meta'[r].force = meta[r].force /\ (meta[r].stop => meta'[r].stop)
           /\ wrapper'[r].pc = "none" <=> wrapper[r].pc = "none"
           /\ wrapper[r].pc = "gone" => wrapper'[r].pc = "gone"
           /\ row[r] = "absent" => src'.sealed[r] = 0 /\ src'.ran[r] = 0
  PROVE  IInv'
<1>1. Base'
  <2>1. OneActive'
    BY DEF IInv, Base, OneActive
  <2>2. \A r \in Runs : Known(r)'
    BY DEF IInv, Base, Known, Shows
  <2>3. Held'
    <3>1. Held
      BY DEF IInv, Base
    <3>2. th.pc # "idle" => th.run \in Runs
      BY <3>1 DEF Held
    <3> QED BY <3>1, <3>2 DEF Held
  <2> QED BY <2>1, <2>2, <2>3 DEF Base
<1>2. ASSUME Told' PROVE Quiet'
  <2>1. Told
    BY <1>2, ToldBefore
  <2>2. Quiet
    BY <2>1 DEF IInv
  <2>3. OneSlot'
    BY <2>2 DEF Quiet, OneSlot
  <2>4. ASSUME NEW r \in Runs PROVE True(r)'
    <3>1. Outcome(r, row[r])'
      BY <2>2, RowKept DEF Quiet, True, IInv, Base
    <3>2. meta'[r].force => Outcome(r, "stopped")'
      BY <2>2, OutcomeKept DEF Quiet, True, IInv, Base
    <3>3. Placed(r)'
      BY <2>2 DEF Quiet, True, Placed, Launching
    <3>4. Bound(r)'
      BY <2>2 DEF Quiet, True, Bound, Running, BoundTo
    <3> QED BY <3>1, <3>2, <3>3, <3>4 DEF True
  <2>5. Looked(th.run)'
    <3>0. CASE th.pc = "idle"
      <4>1. th'.pc = "idle" /\ ~th'.sent
        BY <3>0, IdleIs DEF IInv, Base, Held
      <4> QED BY <4>1 DEF Looked, Past
    <3>1. CASE th.pc # "idle"
      <4> PICK r \in Runs : r = th.run
        BY <3>1 DEF IInv, Base, Held
      <4>1. Looked(r) /\ Calmer(r) /\ Written(r) /\ th'.run = r
        BY <2>2 DEF Quiet, IInv, Base
      <4>2. PICK rep : rep = th.rep
        OBVIOUS
      <4>3. th.pc = "apply" => Outcome(r, th.rep)' /\ (th.rep = "lost" => Outcome(r, "failed"))'
        BY <4>1, <4>2, OutcomeKept, OutcomeOfReport DEF Looked
      <4>4. th.pc = "marker" \/ (th.sent /\ th.op = "kill") => Outcome(r, "stopped")'
        BY <4>1, OutcomeKept DEF Looked
      <4>5. th.pc \in Past => ~Launching(r)'
        BY <4>1 DEF Looked, Launching
      <4>6. ~Running(r) /\ ~Launching(r) =>
               /\ ~Running(r)' /\ wrapper'[r].exit = wrapper[r].exit
               /\ meta'[r].state = meta[r].state
        BY <4>1 DEF Calmer, Running
      <4>7. th.pc = "pane" => PaneSeen(r)'
        BY <4>1, <4>6 DEF Looked, PaneSeen, Past, Shows
      <4>8. th.pc \in {"state", "force"} /\ ~th.live => DeadSeen(r)'
        BY <4>1, <4>6 DEF Looked, DeadSeen, Past, Shows
      <4>9. th.pc = "force" => th.st = meta'[r].state
        BY <4>1, <4>6 DEF Looked, DeadSeen, Past, IInv, Base, Held
      <4>10. Looked(r)'
        BY <4>3, <4>4, <4>5, <4>7, <4>8, <4>9 DEF Looked
      <4> QED BY <4>1, <4>10
    <3> QED BY <3>0, <3>1
  <2> QED BY <2>3, <2>4, <2>5 DEF Quiet
<1> QED BY <1>1, <1>2 DEF IInv

-----------------------------------------------------------------------------
(* Inspections and requests.                                                *)

\* The other parts of the type invariant.
LEMMA ThreadTyped ==
  ASSUME TypeOK, UNCHANGED <<backend, src, row, script, wins, wrapper, meta>>,
         observer' \in {observer, TRUE, FALSE}, HistoryKept,
         th' \in ThreadType, left' \in Budget
  PROVE  TypeOK'
<1>1. hist' \in History
  BY DEF TypeOK, History, HistoryKept
<1> QED BY <1>1 DEF TypeOK, Budget, History

\* Less is left of the budget.
LEMMA BudgetTyped ==
  ASSUME TypeOK, NEW k \in {"losses", "crashes", "reboots", "stops", "kills", "edits"},
         left[k] > 0, left' = [left EXCEPT ![k] = @ - 1]
  PROVE  left' \in Budget
BY DEF TypeOK, Budget

\* A step after which nothing is known of the launch, but what was known of a kill.
LEMMA LooksAnew ==
  ASSUME UNCHANGED <<script, wins, wrapper, meta>>,
         th'.pc \notin Past, ~th'.sent \/ (th'.run = th.run /\ th'.sent = th.sent /\ th'.op = th.op),
         Looked(th.run)
  PROVE  Looked(th.run)'
<1>1. CASE ~th'.sent
  BY <1>1 DEF Looked, Past
<1>2. CASE th'.run = th.run /\ th'.sent = th.sent /\ th'.op = th.op
  <2>1. th'.sent /\ th'.op = "kill" => Outcome(th.run, "stopped")
    BY <1>2 DEF Looked
  <2> DEFINE r == th.run
  <2>2. th'.run = r
    BY <1>2
  <2>3. Outcome(r, "stopped") => Outcome(r, "stopped")'
    BY <2>2 DEF Outcome, Launching, Shows
  <2> QED BY <2>1, <2>2, <2>3 DEF Looked, Past
<1> QED BY <1>1, <1>2

\* Whoever takes the lock, or goes on to a new inspection, keeps the invariant.
LEMMA LooksKept ==
  ASSUME IInv, UNCHANGED <<backend, hist, src, row, script, wins, wrapper, meta>>,
         observer' \in {observer, TRUE, FALSE},
         th' \in ThreadType, left' \in Budget,
         th'.pc \in {"idle", "completion", "list", "dispatch"},
         th'.pc = "idle" => th' = Idle,
         th'.pc # "idle" => th'.run \in Runs /\ row[th'.run] \in Active,
         th'.pc = "dispatch" => th.pc = "confirm" /\ th'.run = th.run /\ th'.op = "start",
         ~th'.sent \/ (th'.run = th.run /\ th'.sent = th.sent /\ th'.op = th.op),
         backend = "node" \/ th.pc # "wait" \/ (Told => ~Launching(th.run))
  PROVE  IInv'
<1>0. HistoryKept
  BY DEF HistoryKept
<1>1. TypeOK'
  BY <1>0, ThreadTyped DEF IInv, Base
<1>2. Held'
  BY DEF IInv, Base, Held
<1>3. Unread'
  BY DEF Unread
<1>4. Told /\ Quiet => Looked(th.run)'
  BY LooksAnew DEF Quiet, Past
<1>5. th'.pc # "wait"
  OBVIOUS
<1> QED BY <1>0, <1>1, <1>2, <1>3, <1>4, <1>5, ThreadMoves

\* The holder of the lock by its step.
LEMMA Holder ==
  ASSUME IInv, th.pc # "idle"
  PROVE  th.run \in Runs /\ row[th.run] \in Active /\ th \in ThreadType /\ left \in Budget
BY DEF IInv, Base, Held, TypeOK, Budget

\* An observer, a stop or a kill takes the lock.
LEMMA TakesLock ==
  ASSUME IInv, NEW r \in Runs, Reconcile(r) \/ Observe(r) \/ Stop(r) \/ Kill(r)
  PROVE  IInv'
<1>0. th = Idle /\ row[r] \in Active /\ UNCHANGED <<backend, observer, hist, src, row, script, wins, wrapper, meta>>
  BY DEF Reconcile, Observe, Stop, Kill
<1>1. left' \in Budget
  BY BudgetTyped DEF Reconcile, Observe, Stop, Kill, IInv, Base, TypeOK, Budget
<1>2. PICK op \in {"reconcile", "stop", "kill"}, why \in Whys :
        th' = Read([Idle EXCEPT !.op = op, !.run = r], why)
  BY DEF Reconcile, Observe, Stop, Kill, Whys
<1> DEFINE t == [Idle EXCEPT !.op = op, !.run = r]
<1>3. t \in ThreadType /\ t.run = r /\ ~t.sent
  BY IdleIs DEF ThreadType
<1>4. th' \in ThreadType /\ th'.pc = "completion" /\ th'.run = r /\ ~th'.sent
  <2>1. th' = Read(t, why)
    BY <1>2
  <2> HIDE DEF t
  <2>2. /\ Read(t, why) \in ThreadType /\ Read(t, why).pc = "completion"
        /\ Read(t, why).run = t.run /\ Read(t, why).sent = t.sent
    BY <1>3, ReadIs
  <2> QED BY <2>1, <2>2, <1>3
<1>5. th.pc # "wait"
  BY <1>0, IdleIs
<1> QED BY <1>0, <1>1, <1>4, <1>5, LooksKept

\* The lock is released, with nothing else.
LEMMA ControlFailsKept ==
  ASSUME IInv, ControlFails
  PROVE  IInv'
<1>1. th.pc # "wait" /\ th' = Idle
      /\ UNCHANGED <<backend, observer, hist, src, row, script, wins, wrapper, meta>>
  BY DEF ControlFails
<1>2. left' \in Budget
  BY BudgetTyped DEF ControlFails, Loses, Lose, IInv, Base
<1> QED BY <1>1, <1>2, IdleIs, LooksKept

\* A report is on its way into the row.
LEMMA ReportKept ==
  ASSUME IInv, UNCHANGED <<backend, observer, src, row, script, wins, wrapper, meta, left>>,
         th.pc \in Reading, NEW rep \in Reports, Report(rep), HistoryKept,
         hist' = hist \/ (rep \in {"finished", "stopped"} /\ meta[th.run].compl = rep),
         Told /\ Quiet => /\ ~Launching(th.run)
                          /\ Outcome(th.run, rep)
                          /\ rep = "lost" => Outcome(th.run, "failed")
  PROVE  IInv'
<1>0. th.pc # "idle" /\ th.pc # "wait"
  BY DEF Reading
<1> PICK r \in Runs : r = th.run
  BY <1>0, Holder
<1>1. th' \in ThreadType /\ th'.pc = "apply" /\ th'.rep = rep /\ th'.run = r
      /\ th'.sent = th.sent /\ th'.op = th.op
  BY <1>0, Holder DEF Report, ThreadType
<1>2. TypeOK' /\ Held' /\ Unread'
  BY <1>0, <1>1, Holder, ThreadTyped DEF IInv, Base, Held, Unread
<1>3. ASSUME Told, Quiet PROVE Looked(th.run)'
  <2>1. hist' = hist => \A st : Outcome(r, st) => Outcome(r, st)'
    BY DEF Outcome, Launching, Shows
  <2>0. Outcome(r, "stopped") => Outcome(r, "stopped")'
    BY DEF Outcome, Launching, Shows, Terminal
  <2>2. Outcome(r, th.rep)' /\ (th'.rep = "lost" => Outcome(r, "failed")')
    <3>1. CASE hist' = hist
      <4>1. Outcome(r, rep)'
        BY <1>3, <2>1, <3>1
      <4> QED BY <1>1, <1>3, <2>1, <3>1, <4>1 DEF Outcome
    <3>2. CASE rep = "stopped"
      BY <1>1, <1>3, <2>0, <3>2 DEF Outcome
    <3>3. CASE rep = "finished" /\ meta[r].compl = rep
      BY <1>1, <1>3, <3>3 DEF Outcome, Launching, Shows, Terminal
    <3> QED BY <3>1, <3>2, <3>3
  <2>3. th'.sent /\ th'.op = "kill" => Outcome(r, "stopped")'
    BY <1>1, <1>3, <2>0 DEF Quiet, Looked
  <2>4. ~Launching(r)'
    BY <1>3 DEF Launching
  <2>5. Looked(r)'
    BY <1>1, <2>2, <2>3, <2>4 DEF Looked
  <2> QED BY <1>1, <2>5
<1> QED BY <1>0, <1>1, <1>2, <1>3, ThreadMoves

\* An inspection goes on.
LEMMA ReadGoesOn ==
  ASSUME IInv, UNCHANGED <<backend, observer, src, row, script, wins, wrapper, meta, left>>,
         HistoryKept, th.pc \in Reading, th' \in ThreadType,
         th'.pc \in {"prepare", "windows", "pane", "state", "force"},
         th'.run = th.run, th'.sent = th.sent, th'.op = th.op,
         th'.pc = "force" => ~th'.live, th'.pc = "pane" => th'.win \in Windows,
         Unread',
         Told /\ Quiet => /\ ~Launching(th.run)
                          /\ th'.pc = "pane" => PaneSeen(th.run)'
                          /\ th'.pc \in {"state", "force"} /\ ~th'.live => DeadSeen(th.run)'
                          /\ th'.pc = "force" => th'.st = meta[th.run].state
  PROVE  IInv'
<1>0. th.pc # "idle" /\ th.pc # "wait"
  BY DEF Reading
<1> PICK r \in Runs : r = th.run
  BY <1>0, Holder
<1>2. TypeOK' /\ Held'
  BY <1>0, Holder, ThreadTyped DEF IInv, Base, Held
<1>3. ASSUME Told, Quiet PROVE Looked(th.run)'
  <2>1. Outcome(r, "stopped") => Outcome(r, "stopped")'
    BY DEF Outcome, Launching, Shows
  <2>3. th'.sent /\ th'.op = "kill" => Outcome(r, "stopped")'
    BY <1>3, <2>1 DEF Quiet, Looked
  <2>4. ~Launching(r)'
    BY <1>3 DEF Launching
  <2>6. th'.pc = "pane" => PaneSeen(r)'
    BY <1>3 DEF PaneSeen
  <2>7. th'.pc \in {"state", "force"} /\ ~th'.live => DeadSeen(r)'
    BY <1>3 DEF DeadSeen
  <2>8. th'.pc = "force" => th'.st = meta'[r].state
    BY <1>3
  <2>5. Looked(r)'
    BY <2>3, <2>4, <2>6, <2>7, <2>8 DEF Looked
  <2> QED BY <2>5
<1> QED BY <1>0, <1>2, <1>3, ThreadMoves

\* Two windows in the order in which tmux lists them are not the same.
LEMMA SlotIs ==
  ASSUME OneSlot, NEW w \in Windows, wins[w].role = "file_run"
  PROVE  IsSlot(w)
BY WindowsAreNumbers DEF OneSlot, IsSlot

\* A launch under way is that of the run whose lock is held.
LEMMA LaunchingIsActive ==
  ASSUME IInv, Told, NEW r \in Runs, Launching(r)
  PROVE  row[r] \in Active /\ script[r].pc # "none" /\ ~Shows(r) /\ wrapper[r].pc = "none"
<1>1. True(r) /\ Known(r)
  BY DEF IInv, Quiet, Base
<1>2. row[r] \notin Terminal
  BY <1>1 DEF True, Outcome
<1>3. script[r].pc # "none" /\ script[r].pc # "ok"
  BY DEF Launching
<1>4. row[r] \in RowStates
  BY DEF IInv, Base, TypeOK
<1> QED BY <1>1, <1>2, <1>3, <1>4 DEF RowStates, Known

\* The records are looked at first: completion.json.
LEMMA ReadCompletionKept ==
  ASSUME IInv, ReadCompletion, UNCHANGED <<backend, observer, src, row, script, wins, wrapper, meta, left>>
  PROVE  IInv'
<1>0. th.pc = "completion" /\ NodeFree /\ th.pc \in Reading
  BY DEF ReadCompletion, Reading
<1>5. HistoryKept
  BY <1>0 DEF ReadCompletion, HistoryKept
<1> PICK r \in Runs : r = th.run
  BY <1>0, Holder
<1>1. Written(r) /\ meta[r] \in MetaType /\ th \in ThreadType
  BY DEF IInv, Base, TypeOK
<1>2. Told /\ Quiet => ~Launching(r)
  BY <1>0 DEF NodeFree, Quiet, True, Placed
<1>3. CASE meta[r].compl # "none"
  <2>1. Report(meta[r].compl) /\ meta[r].compl \in {"finished", "stopped"}
    BY <1>1, <1>3 DEF ReadCompletion, MetaType
  <2>2. PICK rep \in {"finished", "stopped"} : rep = meta[r].compl
    BY <2>1
  <2>3. Told /\ Quiet => Outcome(r, rep)
    BY <1>1, <1>2, <2>2 DEF Outcome, Written
  <2>4. rep \in Reports /\ rep # "lost" /\ Report(rep)
    BY <2>1, <2>2 DEF Reports, Terminal
  <2> QED BY <1>0, <1>2, <1>5, <2>2, <2>3, <2>4, ReportKept
<1>4. CASE meta[r].compl = "none"
  <2>1. th' = [th EXCEPT !.pc = "prepare"]
    BY <1>4 DEF ReadCompletion
  <2>2. th' \in ThreadType /\ th'.pc = "prepare" /\ th'.run = th.run /\ th'.sent = th.sent
        /\ th'.op = th.op
    BY <1>1, <2>1 DEF ThreadType, Reading
  <2>3. Unread'
    BY <1>4, <2>2 DEF Unread
  <2> QED BY <1>0, <1>2, <1>5, <2>2, <2>3, ReadGoesOn
<1> QED BY <1>3, <1>4

\* prepare.json.
LEMMA ReadPrepareKept ==
  ASSUME IInv, ReadPrepare, UNCHANGED <<backend, observer, hist, src, row, script, wins, wrapper, meta, left>>
  PROVE  IInv'
<1>0. th.pc = "prepare" /\ th.pc \in Reading /\ th.pc \in Past
  BY DEF ReadPrepare, Reading, Past
<1> PICK r \in Runs : r = th.run
  BY <1>0, Holder
<1>1. Written(r) /\ meta[r] \in MetaType /\ th \in ThreadType
  BY DEF IInv, Base, TypeOK
<1>2. Told /\ Quiet => ~Launching(r)
  BY <1>0 DEF Quiet, Looked
<1>3. CASE meta[r].prepare
  <2>1. Report("failed")
    BY <1>3 DEF ReadPrepare
  <2>2. Told /\ Quiet => Outcome(r, "failed")
    BY <1>1, <1>2, <1>3 DEF Outcome, Written
  <2>3. "failed" \in Reports
    BY DEF Reports, Terminal
  <2> QED BY <1>0, <1>2, <2>1, <2>2, <2>3, ReportKept DEF HistoryKept
<1>4. CASE ~meta[r].prepare
  <2>1. th' = [th EXCEPT !.pc = "windows"]
    BY <1>4 DEF ReadPrepare
  <2>2. th' \in ThreadType /\ th'.pc = "windows" /\ th'.run = th.run /\ th'.sent = th.sent
        /\ th'.op = th.op
    BY <1>1, <2>1 DEF ThreadType, Reading
  <2>3. Unread'
    BY <1>0, <1>4, <2>2 DEF Unread, Late, IInv, Base
  <2> QED BY <1>0, <1>2, <2>2, <2>3, ReadGoesOn DEF HistoryKept
<1> QED BY <1>3, <1>4

\* The list of windows: a slot that shows another run, or none, means that the run
\* has no wrapper any more.
LEMMA ReadWindowsKept ==
  ASSUME IInv, ReadWindows, UNCHANGED <<backend, observer, hist, src, row, script, wins, wrapper, meta, left>>
  PROVE  IInv'
<1>0. th.pc = "windows" /\ th.pc \in Reading /\ th.pc \in Past
  BY DEF ReadWindows, Reading, Past
<1> PICK r \in Runs : r = th.run
  BY <1>0, Holder
<1>1. Written(r) /\ Known(r) /\ th \in ThreadType /\ row[r] \in Active /\ wrapper[r] \in WrapperType
  BY <1>0, Holder DEF IInv, Base, TypeOK
<1>2. Told /\ Quiet => ~Launching(r) /\ Bound(r)
  BY <1>0 DEF Quiet, Looked, True
<1>3. CASE \E w \in Windows : IsSlot(w) /\ wins[w].run = r
  <2>1. PICK w \in Windows : IsSlot(w) /\ th' = [th EXCEPT !.pc = "pane", !.win = w]
    BY <1>3 DEF ReadWindows
  <2>2. th' \in ThreadType /\ th'.pc = "pane" /\ th'.run = th.run /\ th'.sent = th.sent
        /\ th'.op = th.op /\ th'.win = w
    BY <1>1, <2>1 DEF ThreadType, Reading
  <2>3. wins[w].run = r
    BY <1>3, <2>1, WindowsAreNumbers DEF IsSlot
  <2>4. ASSUME Told, Quiet PROVE PaneSeen(r)'
    <3>1. CASE script[r].pc = "ok"
      BY <1>1, <1>2, <2>1, <2>2, <2>3, <2>4, <3>1 DEF Bound, BoundTo, IsSlot, PaneSeen
    <3>2. CASE script[r].pc # "ok"
      BY <1>1, <2>2, <3>2 DEF Known, Running, PaneSeen, Shows
    <3> QED BY <3>1, <3>2
  <2>5. Unread'
    BY <1>0, <2>2 DEF Unread, Late, IInv, Base
  <2> QED BY <1>0, <1>2, <2>2, <2>4, <2>5, ReadGoesOn DEF HistoryKept
<1>4. CASE ~\E w \in Windows : IsSlot(w) /\ wins[w].run = r
  <2>1. Report("lost") /\ "lost" \in Reports
    BY <1>4 DEF ReadWindows, Reports, Terminal
  <2>2. ASSUME Told, Quiet
        PROVE  Outcome(r, "lost") /\ Outcome(r, "failed")
    <3>1. \A w \in Windows : ~BoundTo(w, r)
      BY <1>4, <2>2, SlotIs DEF Quiet, BoundTo
    <3>2. ~Running(r) /\ ~Shows(r)
      BY <1>1, <1>2, <2>2, <3>1 DEF Bound, Shows
    <3> QED BY <1>2, <2>2, <3>2 DEF Outcome, Running, Terminal
  <2> QED BY <1>0, <1>2, <2>1, <2>2, ReportKept DEF HistoryKept
<1> QED BY <1>3, <1>4

\* The pane of the slot.
LEMMA ReadPaneKept ==
  ASSUME IInv, ReadPane, UNCHANGED <<backend, observer, hist, src, row, script, wins, wrapper, meta, left>>
  PROVE  IInv'
<1>0. th.pc = "pane" /\ th.pc \in Reading /\ th.pc \in Past
  BY DEF ReadPane, Reading, Past
<1> PICK r \in Runs : r = th.run
  BY <1>0, Holder
<1>1. /\ Written(r) /\ Known(r) /\ th \in ThreadType /\ row[r] \in Active
      /\ wrapper \in [Runs -> WrapperType] /\ th.win \in Windows /\ wins[th.win] \in WindowType
  BY <1>0, Holder DEF IInv, Base, TypeOK, Held
<1>2. Told /\ Quiet => ~Launching(r) /\ Bound(r) /\ PaneSeen(r)
  BY <1>0 DEF Quiet, Looked, True
<1> DEFINE p == wins[th.win].pane
           x == IF p \in Runs THEN wrapper[p].exit ELSE "none"
<1>3. th' = [th EXCEPT !.pc = "state", !.live = PaneLive(th.win), !.exit = x]
  BY DEF ReadPane
<1>4. x \in Exits /\ PaneLive(th.win) \in BOOLEAN
  BY <1>1 DEF WrapperType, Exits, PaneLive
<1>5. th' \in ThreadType /\ th'.pc = "state" /\ th'.run = th.run /\ th'.sent = th.sent
      /\ th'.op = th.op /\ th'.exit = x /\ th'.live = PaneLive(th.win)
  <2> DEFINE live == PaneLive(th.win)
  <2>1. /\ th' = [th EXCEPT !.pc = "state", !.live = live, !.exit = x] /\ th \in ThreadType
        /\ x \in {"none", "code", "signal"} /\ live \in BOOLEAN
    BY <1>1, <1>3, <1>4 DEF Exits
  <2> HIDE DEF x, live
  <2>2. "state" \in Reading
    BY DEF Reading
  <2>3. th' \in ThreadType /\ th'.pc = "state" /\ th'.run = th.run /\ th'.sent = th.sent
        /\ th'.op = th.op /\ th'.exit = x /\ th'.live = live
    BY <2>1, <2>2 DEF ThreadType
  <2> QED BY <2>3 DEF live
<1>6. ASSUME Told, Quiet, ~PaneLive(th.win) PROVE DeadSeen(r)'
  <2>1. CASE p = r
    <3>1. wins[th.win].role = "file_run"
      BY <1>1, <1>2, <1>6, <2>1 DEF Bound, BoundTo
    <3>2. wrapper[r].pc = "gone"
      BY <1>6, <2>1, <3>1 DEF PaneLive
    <3> QED BY <1>5, <2>1, <3>2 DEF DeadSeen, Running
  <2>2. CASE p # r
    BY <1>2, <1>5, <1>6, <2>2 DEF PaneSeen, DeadSeen, Running, Shows
  <2> QED BY <2>1, <2>2
<1>7. Unread'
  BY <1>0, <1>5 DEF Unread, Late, IInv, Base
<1> QED BY <1>0, <1>2, <1>5, <1>6, <1>7, ReadGoesOn DEF HistoryKept

\* state.json.
LEMMA ReadStateKept ==
  ASSUME IInv, ReadState, UNCHANGED <<backend, observer, hist, src, row, script, wins, wrapper, meta, left>>
  PROVE  IInv'
<1>0. th.pc = "state" /\ th.pc \in Reading /\ th.pc \in Past
  BY DEF ReadState, Reading, Past
<1> PICK r \in Runs : r = th.run
  BY <1>0, Holder
<1>1. th \in ThreadType /\ meta[r] \in MetaType
  BY <1>0, Holder DEF IInv, Base, TypeOK
<1>2. Told /\ Quiet => ~Launching(r)
  BY <1>0 DEF Quiet, Looked
<1>3. CASE th.live
  <2>1. PICK rep \in {"running", "preparing"} : Report(rep)
    BY <1>3 DEF ReadState
  <2>2. rep \in Reports /\ Outcome(r, rep) /\ rep # "lost"
    BY DEF Reports, Outcome, Terminal
  <2> QED BY <1>0, <1>2, <2>1, <2>2, ReportKept DEF HistoryKept
<1>4. CASE ~th.live
  <2> DEFINE s == meta[r].state
  <2>1. th' = [th EXCEPT !.pc = "force", !.st = s] /\ s \in BOOLEAN
    BY <1>1, <1>4 DEF ReadState, MetaType
  <2>2. th' \in ThreadType /\ th'.pc = "force" /\ th'.run = th.run /\ th'.sent = th.sent
        /\ th'.op = th.op /\ th'.exit = th.exit /\ th'.live = th.live /\ th'.st = s
    <3> HIDE DEF s
    <3> QED BY <1>1, <2>1 DEF ThreadType, Reading
  <2>3. Told /\ Quiet => DeadSeen(r)'
    BY <1>0, <1>4, <2>2 DEF Quiet, Looked, DeadSeen, Running, Shows
  <2>4. Unread'
    BY <1>0, <2>2 DEF Unread, Late, IInv, Base
  <2> QED BY <1>0, <1>2, <1>4, <2>2, <2>3, <2>4, ReadGoesOn DEF HistoryKept
<1> QED BY <1>3, <1>4

\* The marker of a kill, the grace period and the exit status decide.
LEMMA ReadForceKept ==
  ASSUME IInv, ReadForce, UNCHANGED <<backend, observer, hist, src, row, script, wins, wrapper, meta, left>>
  PROVE  IInv'
<1>0. th.pc = "force" /\ th.pc \in Reading /\ th.pc \in Past
  BY DEF ReadForce, Reading, Past
<1> PICK r \in Runs : r = th.run
  BY <1>0, Holder
<1>1. /\ th \in ThreadType /\ meta[r] \in MetaType /\ wrapper[r] \in WrapperType
      /\ Known(r) /\ Written(r) /\ ~th.live
  BY <1>0, Holder DEF IInv, Base, TypeOK, Held
<1>2. Told /\ Quiet => ~Launching(r) /\ DeadSeen(r) /\ th.st = meta[r].state
  BY <1>0, <1>1 DEF Quiet, Looked
<1> DEFINE exited == th.st /\ th.exit = "code"
<1>3. CASE meta[r].force
  <2>1. Report("stopped") /\ "stopped" \in Reports
    BY <1>3 DEF ReadForce, Reports, Terminal
  <2>2. Told /\ Quiet => Outcome(r, "stopped")
    BY <1>3 DEF Quiet, True
  <2> QED BY <1>0, <1>2, <2>1, <2>2, ReportKept DEF HistoryKept
<1>4. CASE ~meta[r].force /\ wrapper[r].fresh
  <2>1. PICK rep \in {"running", "preparing"} : Report(rep)
    BY <1>4 DEF ReadForce
  <2>2. rep \in Reports /\ Outcome(r, rep) /\ rep # "lost"
    BY DEF Reports, Outcome, Terminal
  <2> QED BY <1>0, <1>2, <2>1, <2>2, ReportKept DEF HistoryKept
<1>5. CASE ~meta[r].force /\ ~wrapper[r].fresh
  <2>1. /\ exited => Report("finished")
        /\ ~exited => Report("lost")
    BY <1>1, <1>5 DEF ReadForce
  <2>2. ASSUME Told, Quiet
        PROVE  /\ ~Running(r) /\ ~Launching(r)
               /\ r \notin hist.hasty => meta[r].compl = "none" /\ ~meta[r].prepare
    BY <1>0, <1>1, <1>2, <1>5, <2>2 DEF Unread, Late, DeadSeen, Running, IInv, Base
  <2>3. "finished" \in Reports /\ "lost" \in Reports
    BY DEF Reports, Terminal
  <2>4. CASE exited
    <3>1. ASSUME Told, Quiet PROVE Outcome(r, "finished")
      <4>1. script[r].pc = "ok"
        BY <1>1, <1>2, <2>4, <3>1 DEF Written, Known
      <4>2. wrapper[r].exit = "code"
        BY <1>2, <2>4, <3>1, <4>1 DEF DeadSeen
      <4> QED BY <2>2, <3>1, <4>2 DEF Outcome, Running
    <3> QED BY <1>0, <1>2, <2>1, <2>3, <2>4, <3>1, ReportKept DEF HistoryKept
  <2>5. CASE ~exited
    <3>1. ASSUME Told, Quiet PROVE Outcome(r, "lost") /\ Outcome(r, "failed")
      <4>1. Outcome(r, "lost")
        BY <2>2, <3>1 DEF Outcome, Running
      <4>2. ASSUME Shows(r), meta[r].state PROVE wrapper[r].exit = "signal"
        <5>1. th.exit = wrapper[r].exit /\ th.exit # "code"
          BY <1>2, <2>5, <3>1, <4>2 DEF DeadSeen
        <5>2. wrapper[r].pc = "gone"
          BY <1>1, <2>2, <3>1, <4>2 DEF Written, Running
        <5> QED BY <1>1, <5>1, <5>2 DEF Written, WrapperType
      <4> QED BY <2>2, <3>1, <4>1, <4>2 DEF Outcome, Running
    <3> QED BY <1>0, <1>2, <2>1, <2>3, <2>5, <3>1, ReportKept DEF HistoryKept
  <2> QED BY <2>4, <2>5
<1> QED BY <1>1, <1>3, <1>4, <1>5 DEF MetaType

-----------------------------------------------------------------------------
(* The wrapper.                                                             *)

\* A step of the wrapper of r that leaves the windows and the sources alone.
LEMMA WrapperStepKept ==
  ASSUME IInv, NEW r \in Runs, NEW v \in WrapperType, NEW m \in MetaType,
         UNCHANGED <<backend, observer, hist, row, th, script, wins, src>>, left' \in Budget,
         wrapper' = [wrapper EXCEPT ![r] = v], meta' = [meta EXCEPT ![r] = m],
         Running(r), v.pc # "none",
         wrapper[r].pc = "exit" =>
           /\ v.pc \in {"exit", "gone"}
           /\ m.compl = meta[r].compl /\ m.state = meta[r].state /\ m.prepare = meta[r].prepare,
         m.stop = meta[r].stop /\ m.force = meta[r].force, wrapper[r].sig => v.sig,
         Written(r)',
         v.pc = "gone" => v.fresh,
         meta[r].compl = m.compl \/ v.pc \in {"exit", "gone"},
         meta[r].prepare = m.prepare \/ v.pc \in {"exit", "gone"}
  PROVE  IInv'
<1>1. /\ wrapper'[r] = v /\ meta'[r] = m
      /\ \A q \in Runs : q # r => wrapper'[q] = wrapper[q] /\ meta'[q] = meta[q]
  BY DEF IInv, Base, TypeOK
<1>2. TypeOK'
  BY DEF IInv, Base, TypeOK, Budget
<1>3. Unread'
  <2>1. CASE th.pc = "idle"
    BY <2>1 DEF Unread
  <2>2. CASE th.pc # "idle"
    <3> PICK q \in Runs : q = th.run
      BY <2>2, Holder
    <3>1. CASE q # r
      BY <1>1, <3>1 DEF Unread, Late, IInv, Base
    <3>2. CASE q = r
      <4>1. Late(r) => Late(r)'
        BY <1>1 DEF Late, Running
      <4>2. (m.compl = meta[r].compl \/ Late(r)') /\ (m.prepare = meta[r].prepare \/ Late(r)')
        BY <1>1 DEF Late
      <4> QED BY <1>1, <3>2, <4>1, <4>2 DEF Unread, IInv, Base
    <3> QED BY <3>1, <3>2
  <2> QED BY <2>1, <2>2
<1>4. ASSUME NEW q \in Runs
      PROVE  /\ Sealed(q)' /\ Written(q)' /\ Calmer(q)
             /\ meta'[q].force = meta[q].force /\ (meta[q].stop => meta'[q].stop)
             /\ wrapper'[q].pc = "none" <=> wrapper[q].pc = "none"
             /\ wrapper[q].pc = "gone" => wrapper'[q].pc = "gone"
             /\ row[q] = "absent" => src'.sealed[q] = 0 /\ src'.ran[q] = 0
  <2>1. Sealed(q)' /\ (row[q] = "absent" => src'.sealed[q] = 0 /\ src'.ran[q] = 0)
    BY DEF IInv, Base, Sealed, Known
  <2>2. CASE q # r
    <3>1. wrapper'[q] = wrapper[q] /\ meta'[q] = meta[q] /\ Written(q)
      BY <1>1, <2>2 DEF IInv, Base
    <3> QED BY <2>1, <3>1 DEF Written, Calmer, Launching, Shows
  <2>3. CASE q = r
    BY <1>1, <2>1, <2>3 DEF Running, Calmer, Launching, Shows
  <2> QED BY <2>2, <2>3
<1> QED BY <1>2, <1>3, <1>4, WrapperMoves

\* The records are written, or not.
LEMMA WrapperRecordsKept ==
  ASSUME IInv, NEW r \in Runs,
         WrapperCheck(r) \/ WrapperState(r) \/ WrapperReport(r) \/ WrapperExit(r) \/ ProgramEnds(r)
  PROVE  IInv'
<1>0. /\ UNCHANGED <<backend, observer, hist, row, th, script, wins, src, left>>
      /\ wrapper[r] \in WrapperType /\ meta[r] \in MetaType /\ left' \in Budget
      /\ wrapper \in [Runs -> WrapperType] /\ meta \in [Runs -> MetaType]
      /\ Written(r)
  BY DEF WrapperCheck, WrapperState, WrapperReport, WrapperExit, ProgramEnds, IInv, Base, TypeOK,
         Budget
<1> DEFINE W == wrapper[r]
           M == meta[r]
<1>1. ASSUME NEW m \in MetaType, NEW v \in WrapperType,
             wrapper' = [wrapper EXCEPT ![r] = v], meta' = [meta EXCEPT ![r] = m]
      PROVE  wrapper'[r] = v /\ meta'[r] = m
  BY <1>0, <1>1
<1>2. CASE WrapperCheck(r)
  <2>1. PICK m \in {M, [M EXCEPT !.prepare = TRUE]}, pc \in {"state", "exit"} :
          /\ wrapper' = [wrapper EXCEPT ![r] = [W EXCEPT !.pc = pc]]
          /\ meta' = [meta EXCEPT ![r] = m]
          /\ pc = "state" => m = M
    <3>1. CASE wrapper' = [wrapper EXCEPT ![r].pc = "state"] /\ UNCHANGED meta
      BY <1>0, <3>1
    <3>2. CASE /\ wrapper' = [wrapper EXCEPT ![r].pc = "exit"]
               /\ meta' \in {meta, [meta EXCEPT ![r].prepare = TRUE]}
      BY <1>0, <3>2
    <3> QED BY <1>2, <3>1, <3>2 DEF WrapperCheck
  <2>2. PICK v : v = [W EXCEPT !.pc = pc]
    OBVIOUS
  <2>3. v \in WrapperType /\ m \in MetaType
    BY <1>0, <2>1, <2>2 DEF WrapperType, MetaType
  <2>4. /\ v.pc = pc /\ v.sig = W.sig /\ v.exit = W.exit
        /\ m.compl = M.compl /\ m.state = M.state /\ m.stop = M.stop /\ m.force = M.force
        /\ pc = "state" => m.prepare = M.prepare
    BY <1>0, <2>1, <2>2 DEF WrapperType, MetaType
  <2>5. W.pc = "check"
    BY <1>2 DEF WrapperCheck
  <2>6. Written(r)'
    BY <1>0, <1>1, <2>1, <2>2, <2>3, <2>4, <2>5 DEF Written
  <2> QED BY <1>0, <2>1, <2>2, <2>3, <2>4, <2>5, <2>6, WrapperStepKept DEF Running
<1>3. CASE WrapperState(r)
  <2>1. PICK m \in {M, [M EXCEPT !.state = TRUE]}, pc \in {"trap", "exit"} :
          /\ wrapper' = [wrapper EXCEPT ![r] = [W EXCEPT !.pc = pc]]
          /\ meta' = [meta EXCEPT ![r] = m]
          /\ pc = "exit" => m = M
    <3>1. CASE wrapper' = [wrapper EXCEPT ![r].pc = "exit"] /\ UNCHANGED meta
      BY <1>0, <3>1
    <3>2. CASE /\ wrapper' = [wrapper EXCEPT ![r].pc = "trap"]
               /\ meta' = [meta EXCEPT ![r].state = TRUE]
      BY <1>0, <3>2
    <3> QED BY <1>3, <3>1, <3>2 DEF WrapperState
  <2>2. PICK v : v = [W EXCEPT !.pc = pc]
    OBVIOUS
  <2>3. v \in WrapperType /\ m \in MetaType
    BY <1>0, <2>1, <2>2 DEF WrapperType, MetaType
  <2>4. /\ v.pc = pc /\ v.sig = W.sig /\ v.exit = W.exit
        /\ m.compl = M.compl /\ m.prepare = M.prepare /\ m.stop = M.stop /\ m.force = M.force
    BY <1>0, <2>1, <2>2 DEF WrapperType, MetaType
  <2>5. W.pc = "state"
    BY <1>3 DEF WrapperState
  <2>6. Written(r)'
    BY <1>0, <1>1, <2>1, <2>2, <2>3, <2>4, <2>5 DEF Written
  <2> QED BY <1>0, <2>1, <2>2, <2>3, <2>4, <2>5, <2>6, WrapperStepKept DEF Running
<1>4. CASE WrapperReport(r)
  <2>1. PICK m \in {M, [M EXCEPT !.compl = IF W.sig /\ M.stop THEN "stopped" ELSE "finished"]} :
          /\ wrapper' = [wrapper EXCEPT ![r] = [W EXCEPT !.pc = "exit"]]
          /\ meta' = [meta EXCEPT ![r] = m]
    <3>1. wrapper' = [wrapper EXCEPT ![r] = [W EXCEPT !.pc = "exit"]]
      BY <1>0, <1>4 DEF WrapperReport
    <3>2. CASE UNCHANGED meta
      BY <1>0, <3>1, <3>2
    <3>3. CASE meta' = [meta EXCEPT ![r].compl = IF W.sig /\ M.stop THEN "stopped"
                                                 ELSE "finished"]
      BY <1>0, <3>1, <3>3
    <3> QED BY <1>4, <3>2, <3>3 DEF WrapperReport
  <2>2. PICK v : v = [W EXCEPT !.pc = "exit"]
    OBVIOUS
  <2>3. v \in WrapperType /\ m \in MetaType
    BY <1>0, <2>1, <2>2 DEF WrapperType, MetaType
  <2>4. /\ v.pc = "exit" /\ v.sig = W.sig /\ v.exit = W.exit
        /\ m.state = M.state /\ m.prepare = M.prepare /\ m.stop = M.stop /\ m.force = M.force
        /\ m.compl = "stopped" => M.compl = "stopped" \/ (W.sig /\ M.stop)
    BY <1>0, <2>1, <2>2 DEF WrapperType, MetaType
  <2>5. W.pc = "report"
    BY <1>4 DEF WrapperReport
  <2>6. Written(r)'
    BY <1>0, <1>1, <2>1, <2>2, <2>3, <2>4, <2>5 DEF Written
  <2> QED BY <1>0, <2>1, <2>2, <2>3, <2>4, <2>5, <2>6, WrapperStepKept DEF Running
<1>5. CASE WrapperExit(r) \/ ProgramEnds(r)
  <2>1. PICK v \in WrapperType :
          /\ wrapper' = [wrapper EXCEPT ![r] = v]
          /\ v.sig = W.sig
          /\ \/ W.pc = "exit" /\ v.pc = "gone" /\ v.exit = "code" /\ v.fresh
             \/ W.pc = "program" /\ v.pc = "report" /\ v.exit = W.exit
    <3>1. CASE WrapperExit(r)
      <4> DEFINE v == [W EXCEPT !.pc = "gone", !.exit = "code", !.fresh = TRUE]
      <4>1. v \in WrapperType /\ v.sig = W.sig /\ v.pc = "gone" /\ v.exit = "code" /\ v.fresh
        BY <1>0 DEF WrapperType
      <4>2. wrapper' = [wrapper EXCEPT ![r] = v] /\ W.pc = "exit"
        BY <1>0, <3>1 DEF WrapperExit
      <4> HIDE DEF v
      <4> QED BY <4>1, <4>2
    <3>2. CASE ProgramEnds(r)
      <4> DEFINE v == [W EXCEPT !.pc = "report"]
      <4>1. v \in WrapperType /\ v.sig = W.sig /\ v.pc = "report" /\ v.exit = W.exit
        BY <1>0 DEF WrapperType
      <4>2. wrapper' = [wrapper EXCEPT ![r] = v] /\ W.pc = "program"
        BY <1>0, <3>2 DEF ProgramEnds
      <4> HIDE DEF v
      <4> QED BY <4>1, <4>2
    <3> QED BY <1>5, <3>1, <3>2
  <2>2. PICK m : m = M /\ m \in MetaType
    BY <1>0
  <2>3. meta' = [meta EXCEPT ![r] = m]
    BY <1>0, <1>5, <2>2 DEF WrapperExit, ProgramEnds
  <2>4. Written(r)'
    BY <1>0, <1>1, <2>1, <2>2, <2>3 DEF Written
  <2> QED BY <1>0, <2>1, <2>2, <2>3, <2>4, WrapperStepKept DEF Running
<1> QED BY <1>2, <1>3, <1>4, <1>5

\* What a signal does to a wrapper's promises.
LEMMA StruckIs ==
  ASSUME IInv, NEW q \in Runs, UNCHANGED <<script, meta, hist>>, Shows(q)' => Shows(q),
         wrapper'[q] \in {wrapper[q], Killed(wrapper[q]), Interrupted(wrapper[q])}
  PROVE  /\ wrapper'[q] \in WrapperType /\ Written(q)' /\ Calmer(q)
         /\ wrapper'[q].pc = "none" <=> wrapper[q].pc = "none"
         /\ wrapper[q].pc = "gone" => wrapper'[q] = wrapper[q]
         /\ Late(q) => Late(q)'
<1>1. wrapper[q] \in WrapperType /\ Written(q)
  BY DEF IInv, Base, TypeOK
<1> DEFINE p == wrapper[q]
           n == wrapper'[q]
<1>2. /\ n \in WrapperType /\ (p.sig => n.sig)
      /\ p.pc \in {"none", "gone"} => n = p
      /\ p.pc \notin {"none", "gone"} =>
           \/ n = p
           \/ n.pc = "gone" /\ n.exit = "signal" /\ n.fresh
           \/ p.pc = "program" /\ n.pc = "program" /\ n.exit = p.exit
  BY <1>1, KilledIs, InterruptedIs
<1>3. Written(q)'
  BY <1>1, <1>2 DEF Written
<1>4. Calmer(q)
  BY <1>2 DEF Calmer, Launching
<1> QED BY <1>2, <1>3, <1>4 DEF Late

\* C-c is typed.
LEMMA TypedInterruptKept ==
  ASSUME IInv, NEW r \in Runs, TypedInterrupt(r)
  PROVE  IInv'
<1>0. /\ UNCHANGED <<backend, observer, hist, src, row, th, script, wins, meta>>
      /\ wrapper' = [wrapper EXCEPT ![r] = Interrupted(wrapper[r])]
  BY DEF TypedInterrupt
<1>1. left' \in Budget
  BY BudgetTyped DEF TypedInterrupt, IInv, Base
<1>2. \A q \in Runs : wrapper'[q] \in {wrapper[q], Killed(wrapper[q]), Interrupted(wrapper[q])}
  BY <1>0 DEF IInv, Base, TypeOK
<1>3. ASSUME NEW q \in Runs
      PROVE  /\ wrapper'[q] \in WrapperType /\ Written(q)' /\ Calmer(q)
             /\ wrapper'[q].pc = "none" <=> wrapper[q].pc = "none"
             /\ wrapper[q].pc = "gone" => wrapper'[q] = wrapper[q]
             /\ Late(q) => Late(q)'
  BY <1>0, <1>2, StruckIs DEF Shows
<1>4. TypeOK'
  BY <1>0, <1>1, <1>3 DEF IInv, Base, TypeOK, Budget
<1>5. Unread'
  BY <1>0, <1>3, Holder DEF IInv, Base, Unread
<1>6. \A q \in Runs : Sealed(q)' /\ (row[q] = "absent" => src'.sealed[q] = 0 /\ src'.ran[q] = 0)
  BY <1>0 DEF IInv, Base, Sealed, Known
<1> QED BY <1>0, <1>3, <1>4, <1>5, <1>6, WrapperMoves

\* The grace period ends; if the run is being inspected, this is on record.
LEMMA GraceExpiresKept ==
  ASSUME IInv, NEW r \in Runs, GraceExpires(r)
  PROVE  IInv'
<1>0. /\ UNCHANGED <<backend, observer, src, row, th, script, wins, meta, left>>
      /\ wrapper' = [wrapper EXCEPT ![r].fresh = FALSE]
      /\ wrapper \in [Runs -> WrapperType]
  BY DEF GraceExpires, IInv, Base, TypeOK
<1>1. \A q \in Runs : /\ wrapper'[q].pc = wrapper[q].pc /\ wrapper'[q].exit = wrapper[q].exit
                      /\ wrapper'[q].sig = wrapper[q].sig
                      /\ q # r => wrapper'[q] = wrapper[q]
  BY <1>0 DEF WrapperType
<1>5. /\ hist' \in History /\ hist'.blind = hist.blind
      /\ \A q \in Runs : q \in hist.hasty => q \in hist'.hasty
      /\ LookedAt(r) => r \in hist'.hasty
  BY DEF GraceExpires, IInv, Base, TypeOK, History
<1>2. TypeOK'
  <2>1. [wrapper[r] EXCEPT !.fresh = FALSE] \in WrapperType
    BY <1>0 DEF WrapperType
  <2>2. wrapper' \in [Runs -> WrapperType]
    BY <1>0, <2>1
  <2> QED BY <1>0, <1>5, <2>2 DEF IInv, Base, TypeOK, History
<1>3. Unread'
  <2>1. CASE th.pc = "idle"
    BY <1>0, <2>1 DEF Unread
  <2>2. CASE th.pc # "idle"
    <3> PICK q \in Runs : q = th.run
      BY <2>2, Holder
    <3>1. CASE q # r
      BY <1>0, <1>1, <1>5, <3>1 DEF Unread, Late, IInv, Base
    <3>2. CASE q = r /\ th.pc \in {"prepare", "windows", "pane", "state", "force"}
      <4>1. r \in hist'.hasty
        BY <1>5, <3>2 DEF LookedAt, Reading
      <4> QED BY <1>0, <3>2, <4>1 DEF Unread
    <3>3. CASE th.pc \notin {"prepare", "windows", "pane", "state", "force"}
      BY <1>0, <3>3 DEF Unread
    <3> QED BY <3>1, <3>2, <3>3
  <2> QED BY <2>1, <2>2
<1>4. ASSUME NEW q \in Runs
      PROVE  /\ Sealed(q)' /\ Written(q)' /\ Calmer(q)
             /\ row[q] = "absent" => src'.sealed[q] = 0 /\ src'.ran[q] = 0
  <2>1. Sealed(q)' /\ (row[q] = "absent" => src'.sealed[q] = 0 /\ src'.ran[q] = 0)
    BY <1>0 DEF IInv, Base, Sealed, Known
  <2>2. Written(q)'
    BY <1>0, <1>1 DEF IInv, Base, Written
  <2>3. Calmer(q)
    BY <1>0, <1>1, <1>5 DEF Calmer, Launching, Shows
  <2> QED BY <2>1, <2>2, <2>3
<1> QED BY <1>0, <1>1, <1>2, <1>3, <1>4, WrapperMoves

\* The file is edited, the observer dies, or nothing happens.
LEMMA EditKept ==
  ASSUME IInv, Edit \/ ObserverDies \/ UNCHANGED vars
  PROVE  IInv'
<1>0. /\ UNCHANGED <<backend, hist, row, th, script, wins, wrapper, meta>>
      /\ observer' \in BOOLEAN
      /\ src'.claimed = src.claimed /\ src'.sealed = src.sealed /\ src'.ran = src.ran
      /\ src' \in [now: Nat, claimed: [Runs -> Nat], sealed: [Runs -> Nat], ran: [Runs -> Nat]]
  <2>1. CASE Edit
    BY <2>1 DEF Edit, IInv, Base, TypeOK
  <2>2. CASE ObserverDies \/ UNCHANGED vars
    BY <2>2 DEF ObserverDies, vars, IInv, Base, TypeOK
  <2> QED BY <2>1, <2>2
<1>1. left' \in Budget
  <2>1. CASE Edit
    BY <2>1, BudgetTyped DEF Edit, IInv, Base
  <2>2. CASE UNCHANGED vars
    BY <2>2 DEF vars, IInv, Base, TypeOK, Budget
  <2>3. CASE ObserverDies
    BY <2>3, BudgetTyped DEF ObserverDies, Loses, Lose, IInv, Base
  <2> QED BY <2>1, <2>2, <2>3
<1>2. TypeOK'
  BY <1>0, <1>1 DEF IInv, Base, TypeOK, Budget
<1>3. Unread'
  BY <1>0 DEF IInv, Base, Unread, Late
<1>4. ASSUME NEW q \in Runs
      PROVE  /\ Sealed(q)' /\ Written(q)' /\ Calmer(q)
             /\ row[q] = "absent" => src'.sealed[q] = 0 /\ src'.ran[q] = 0
  BY <1>0 DEF IInv, Base, Sealed, Known, Written, Calmer, Launching, Shows
<1> QED BY <1>0, <1>2, <1>3, <1>4, WrapperMoves

\* The program starts, on a Node from what was sealed.
LEMMA WrapperTrapKept ==
  ASSUME IInv, NEW r \in Runs, WrapperTrap(r)
  PROVE  IInv'
<1> DEFINE x == IF backend = "node" THEN src.sealed[r] ELSE src.now
<1>0. /\ UNCHANGED <<backend, observer, hist, row, th, script, wins, meta, left>>
      /\ wrapper' = [wrapper EXCEPT ![r].pc = "program"] /\ wrapper[r].pc = "trap"
      /\ wrapper \in [Runs -> WrapperType] /\ Known(r) /\ Written(r)
      /\ src' = [src EXCEPT !.ran[r] = x]
      /\ src \in [now: Nat, claimed: [Runs -> Nat], sealed: [Runs -> Nat], ran: [Runs -> Nat]]
  BY DEF WrapperTrap, IInv, Base, TypeOK
<1>1. /\ src' \in [now: Nat, claimed: [Runs -> Nat], sealed: [Runs -> Nat], ran: [Runs -> Nat]]
      /\ src'.claimed = src.claimed /\ src'.sealed = src.sealed /\ src'.ran[r] = x
      /\ \A q \in Runs : q # r => src'.ran[q] = src.ran[q]
  <2>1. x \in Nat
    BY <1>0
  <2> HIDE DEF x
  <2> QED BY <1>0, <2>1
<1>2. /\ \A q \in Runs : q # r => wrapper'[q] = wrapper[q]
      /\ wrapper'[r] \in WrapperType /\ wrapper'[r].pc = "program"
      /\ wrapper'[r].exit = wrapper[r].exit /\ wrapper'[r].sig = wrapper[r].sig
  BY <1>0 DEF WrapperType
<1>3. TypeOK'
  BY <1>0, <1>1, <1>2 DEF IInv, Base, TypeOK
<1>4. Unread'
  <2>1. ASSUME NEW q \in Runs PROVE Late(q) => Late(q)'
    BY <1>0, <1>2 DEF Late
  <2> QED BY <1>0, <2>1, Holder DEF IInv, Base, Unread
<1>5. ASSUME NEW q \in Runs
      PROVE  /\ Sealed(q)' /\ Written(q)' /\ Calmer(q)
             /\ wrapper'[q].pc = "none" <=> wrapper[q].pc = "none"
             /\ wrapper[q].pc = "gone" => wrapper'[q].pc = "gone"
             /\ row[q] = "absent" => src'.sealed[q] = 0 /\ src'.ran[q] = 0
  <2>0. Sealed(q) /\ Known(q) /\ Written(q)
    BY DEF IInv, Base
  <2>1. CASE q # r
    BY <1>0, <1>1, <1>2, <2>0, <2>1 DEF Sealed, Known, Written, Calmer, Launching, Shows
  <2>2. CASE q = r
    <3>1. Sealed(r)'
      BY <1>0, <1>1, <2>0, <2>2 DEF Sealed
    <3>2. Written(r)'
      BY <1>0, <1>2, <2>0, <2>2 DEF Written
    <3>3. Calmer(r)
      BY <1>0, <1>2, <2>2 DEF Calmer, Launching, Shows
    <3>4. row[r] # "absent"
      BY <1>0 DEF Known
    <3> QED BY <1>0, <1>2, <2>2, <3>1, <3>2, <3>3, <3>4
  <2> QED BY <2>1, <2>2
<1> QED BY <1>0, <1>2, <1>3, <1>4, <1>5, WrapperMoves

-----------------------------------------------------------------------------
(* Control: stop and kill.                                                  *)

\* The window to be controlled is looked for, or the new look begins.
LEMMA ControlListKept ==
  ASSUME IInv, ControlList
  PROVE  IInv'
<1>0. /\ th.pc = "list" /\ NodeFree
      /\ UNCHANGED <<backend, observer, hist, src, row, script, wins, wrapper, meta, left>>
  BY DEF ControlList
<1> PICK r \in Runs : r = th.run
  BY <1>0, Holder
<1>1. row[r] \in Active /\ th \in ThreadType /\ left' \in Budget
  BY <1>0, Holder
<1>2. Told /\ Quiet => ~Launching(r)
  BY <1>0 DEF NodeFree, Quiet, True, Placed
<1>3. CASE th' = Read(th, "after")
  BY <1>0, <1>1, <1>3, ReadIs, LooksKept DEF Whys
<1>4. CASE \E w \in Windows : th' = [th EXCEPT !.pc = "mark", !.win = w]
  <2> PICK w \in Windows : th' = [th EXCEPT !.pc = "mark", !.win = w]
    BY <1>4
  <2>1. /\ th' \in ThreadType /\ th'.pc = "mark" /\ th'.run = r /\ th'.sent = th.sent
        /\ th'.op = th.op /\ th'.win = w
    BY <1>1 DEF ThreadType
  <2>2. TypeOK' /\ Held' /\ Unread'
    BY <1>0, <1>1, <2>1, ThreadTyped DEF IInv, Base, Held, Unread, HistoryKept
  <2>3. ASSUME Told, Quiet PROVE Looked(th.run)'
    <3>1. Outcome(r, "stopped") => Outcome(r, "stopped")'
      BY <1>0 DEF Outcome, Launching, Shows
    <3>2. th'.sent /\ th'.op = "kill" => Outcome(r, "stopped")'
      BY <2>1, <2>3, <3>1 DEF Quiet, Looked
    <3>3. ~Launching(r)'
      BY <1>0, <1>2, <2>3 DEF Launching
    <3>4. Looked(r)'
      BY <2>1, <3>2, <3>3 DEF Looked
    <3> QED BY <2>1, <3>4
  <2> QED BY <1>0, <2>1, <2>2, <2>3, ThreadMoves DEF HistoryKept
<1> QED BY <1>3, <1>4 DEF ControlList

\* A step of stop or kill that writes a record of the run, or hits processes.
LEMMA ControlMoves ==
  ASSUME IInv, th.pc \in {"mark", "send", "marker"}, NEW r \in Runs, r = th.run,
         UNCHANGED <<backend, observer, hist, src, row, script, left>>,
         TypeOK', Held',
         th'.pc \notin {"wait", "pane", "apply", "prepare", "windows", "state", "force"},
         \A q \in Runs :
           /\ Written(q)' /\ Calmer(q) /\ (meta[q].stop => meta'[q].stop)
           /\ meta'[q].force => meta[q].force \/ q = r
           /\ wrapper'[q].pc = "none" <=> wrapper[q].pc = "none"
           /\ wrapper[q].pc = "gone" => wrapper'[q].pc = "gone",
         \A w \in Windows :
           /\ wins'[w].role = wins[w].role /\ wins'[w].run = wins[w].run
           /\ wins'[w].pane \in Runs <=> wins[w].pane \in Runs
           /\ wins[w].pane \in Runs => wins'[w].pane = wins[w].pane,
         Told /\ Quiet /\ meta'[r].force => Outcome(r, "stopped")',
         Told /\ Quiet => Looked(th.run)'
  PROVE  IInv'
<1>0. th.pc # "wait" /\ th.pc # "idle"
  OBVIOUS
<1>1. \A q \in Runs : Shows(q)' <=> Shows(q)
  BY DEF Shows
<1>2. Base'
  <2>1. OneActive' /\ Unread'
    BY DEF IInv, Base, OneActive, Unread
  <2>2. \A q \in Runs : Known(q)' /\ Sealed(q)'
    <3> TAKE q \in Runs
    <3>1. Known(q) /\ Sealed(q)
      BY DEF IInv, Base
    <3>2. row[th.run] \in Active
      BY <1>0, Holder
    <3>3. meta'[q].force /\ row[q] = "absent" => meta[q].force
      BY <3>2 DEF Active
    <3>4. Sealed(q)'
      BY <3>1 DEF Sealed
    <3>5. Known(q)'
      BY <1>1, <3>1, <3>3 DEF Known
    <3> QED BY <3>4, <3>5
  <2> QED BY <2>1, <2>2 DEF Base
<1>3. ASSUME Told' PROVE Quiet'
  <2>1. Told
    BY <1>0, <1>3, ToldBefore
  <2>2. Quiet
    BY <2>1 DEF IInv
  <2>3. OneSlot'
    BY <2>2 DEF Quiet, OneSlot
  <2>4. ASSUME NEW q \in Runs PROVE True(q)'
    <3>1. Outcome(q, row[q])'
      BY <2>2, RowKept DEF Quiet, True, IInv, Base
    <3>2. (meta[q].force => Outcome(q, "stopped"))'
      <4>1. CASE q = r
        BY <2>1, <2>2, <4>1
      <4>2. CASE q # r
        BY <2>2, <4>2, OutcomeKept DEF Quiet, True, IInv, Base
      <4> QED BY <4>1, <4>2
    <3>3. Placed(q)'
      <4>1. ~Launching(q) \/ backend = "node"
        BY <1>0, <2>2 DEF Quiet, True, Placed
      <4> QED BY <2>2, <4>1 DEF Quiet, True, Placed, Launching
    <3>4. Bound(q)'
      BY <2>2 DEF Quiet, True, Bound, Running, BoundTo
    <3> QED BY <3>1, <3>2, <3>3, <3>4 DEF True
  <2> QED BY <2>1, <2>2, <2>3, <2>4 DEF Quiet
<1> QED BY <1>2, <1>3 DEF IInv

\* stop-requested-at is written.
LEMMA ControlMarkKept ==
  ASSUME IInv, ControlMark
  PROVE  IInv'
<1>0. /\ th.pc = "mark" /\ th.pc # "idle" /\ th.pc \in Past
      /\ UNCHANGED <<backend, observer, hist, src, row, script, wins, wrapper, left>>
      /\ meta' = [meta EXCEPT ![th.run].stop = TRUE] /\ th' = [th EXCEPT !.pc = "send"]
  BY DEF ControlMark, Past
<1> PICK r \in Runs : r = th.run
  BY <1>0, Holder
<1>1. /\ row[r] \in Active /\ th \in ThreadType /\ th.win \in Windows
      /\ meta \in [Runs -> MetaType] /\ TypeOK
  BY <1>0, Holder DEF IInv, Base, TypeOK, Held
<1>2. /\ th' \in ThreadType /\ th'.pc = "send" /\ th'.run = r /\ th'.sent = th.sent
      /\ th'.op = th.op /\ th'.win = th.win
  BY <1>0, <1>1 DEF ThreadType
<1>3. \A q \in Runs : /\ meta'[q] \in MetaType /\ meta'[q].compl = meta[q].compl
                      /\ meta'[q].state = meta[q].state /\ meta'[q].prepare = meta[q].prepare
                      /\ meta'[q].force = meta[q].force /\ (meta[q].stop => meta'[q].stop)
  BY <1>0, <1>1 DEF MetaType
<1>4. meta'[r].stop
  BY <1>0, <1>1 DEF MetaType
<1>5. ASSUME NEW q \in Runs PROVE Written(q)' /\ Calmer(q)
  <2>1. Written(q)
    BY DEF IInv, Base
  <2>2. Written(q)'
    BY <1>0, <1>3, <2>1 DEF Written
  <2>3. Calmer(q)
    BY <1>0, <1>3 DEF Calmer, Launching, Shows
  <2> QED BY <2>2, <2>3
<1>6. TypeOK'
  BY <1>0, <1>1, <1>2, <1>3 DEF TypeOK
<1>7. Held'
  BY <1>0, <1>1, <1>2, <1>4 DEF Held
<1>8. Told /\ Quiet /\ meta'[r].force => Outcome(r, "stopped")'
  BY <1>3, <1>5, OutcomeKept DEF Quiet, True, IInv, Base
<1>9. ASSUME Told, Quiet PROVE Looked(th.run)'
  <2>1. Looked(r)
    BY <1>9 DEF Quiet
  <2>2. th'.sent /\ th'.op = "kill" => Outcome(r, "stopped")'
    BY <1>2, <1>5, <2>1, OutcomeKept DEF Looked, IInv, Base
  <2>3. ~Launching(r)'
    BY <1>0, <2>1 DEF Looked, Launching
  <2>4. Looked(r)'
    BY <1>2, <2>2, <2>3 DEF Looked
  <2> QED BY <1>2, <2>4
<1> QED BY <1>0, <1>2, <1>3, <1>5, <1>6, <1>7, <1>8, <1>9, ControlMoves

\* force-stopped is written.
LEMMA ControlMarkerKept ==
  ASSUME IInv, ControlMarker
  PROVE  IInv'
<1>0. /\ th.pc = "marker" /\ th.pc # "idle" /\ th.pc \in Past
      /\ UNCHANGED <<backend, observer, hist, src, row, script, wins, wrapper, left>>
      /\ meta' = [meta EXCEPT ![th.run].force = TRUE]
      /\ th' = Read([th EXCEPT !.sent = TRUE], "after")
  BY DEF ControlMarker, Past
<1> PICK r \in Runs : r = th.run
  BY <1>0, Holder
<1>1. /\ row[r] \in Active /\ th \in ThreadType
      /\ meta \in [Runs -> MetaType] /\ TypeOK
  BY <1>0, Holder DEF IInv, Base, TypeOK
<1>2. th' \in ThreadType /\ th'.pc = "completion" /\ th'.run = r /\ th'.op = th.op
  <2> DEFINE t == [th EXCEPT !.sent = TRUE]
  <2>1. t \in ThreadType /\ t.run = r /\ t.op = th.op
    BY <1>1 DEF ThreadType
  <2>2. th' = Read(t, "after") /\ "after" \in Whys
    BY <1>0 DEF Whys
  <2> HIDE DEF t
  <2> QED BY <2>1, <2>2, ReadIs
<1>3. \A q \in Runs : /\ meta'[q] \in MetaType /\ meta'[q].compl = meta[q].compl
                      /\ meta'[q].state = meta[q].state /\ meta'[q].prepare = meta[q].prepare
                      /\ meta'[q].stop = meta[q].stop
                      /\ (meta'[q].force => meta[q].force \/ q = r)
  BY <1>0, <1>1 DEF MetaType
<1>5. ASSUME NEW q \in Runs PROVE Written(q)' /\ Calmer(q)
  <2>1. Written(q)
    BY DEF IInv, Base
  <2>2. Written(q)'
    BY <1>0, <1>3, <2>1 DEF Written
  <2>3. Calmer(q)
    BY <1>0, <1>3 DEF Calmer, Launching, Shows
  <2> QED BY <2>2, <2>3
<1>6. TypeOK'
  BY <1>0, <1>1, <1>2, <1>3 DEF TypeOK
<1>7. Held'
  BY <1>0, <1>1, <1>2 DEF Held
<1>8. Told /\ Quiet => Outcome(r, "stopped")'
  BY <1>0, <1>5, OutcomeKept DEF Quiet, Looked, IInv, Base
<1>9. ASSUME Told, Quiet PROVE Looked(th.run)'
  <2>4. Looked(r)'
    BY <1>2, <1>8, <1>9 DEF Looked, Past
  <2> QED BY <1>2, <2>4
<1>10. Told /\ Quiet /\ meta'[r].force => Outcome(r, "stopped")'
  BY <1>8
<1>11. \A q \in Runs : /\ meta'[q].stop = meta[q].stop /\ wrapper'[q] = wrapper[q]
                       /\ (meta'[q].force => meta[q].force \/ q = r)
  BY <1>0, <1>3
<1>12. UNCHANGED <<backend, observer, hist, src, row, script, left>> /\ UNCHANGED wins
  BY <1>0
<1>13. th.pc \in {"mark", "send", "marker"} /\ r = th.run
  BY <1>0
<1> QED BY ONLY IInv, <1>2, <1>5, <1>6, <1>7, <1>9, <1>10, <1>11, <1>12, <1>13, ControlMoves

\* The signal is sent, if the window is still the run's.
LEMMA ControlSendKept ==
  ASSUME IInv, ControlSend
  PROVE  IInv'
<1>0. /\ th.pc = "send" /\ th.pc # "idle" /\ th.pc \in Past
      /\ UNCHANGED <<backend, observer, hist, src, row, script, meta, left>>
  BY DEF ControlSend, Past
<1> PICK r \in Runs : r = th.run
  BY <1>0, Holder
<1>1. /\ row[r] \in Active /\ th \in ThreadType /\ th.win \in Windows /\ meta[r].stop
      /\ wrapper \in [Runs -> WrapperType] /\ wins \in [Windows -> WindowType] /\ TypeOK
      /\ left \in Budget
  BY <1>0, Holder DEF IInv, Base, TypeOK, Held
<1> DEFINE w == th.win
           p == wins[w].pane
<1>2. CASE ~BoundTo(w, r) \/ (th.op = "kill" /\ ~PaneLive(w))
  <2>1. th' = Read(th, "after") /\ UNCHANGED <<wins, wrapper>>
    BY <1>2 DEF ControlSend
  <2> QED BY <1>0, <1>1, <2>1, ReadIs, LooksKept DEF Whys
<1>3. CASE th.op = "stop" /\ BoundTo(w, r)
  <2>1. /\ wrapper' = IF p \in Runs THEN [wrapper EXCEPT ![p] = Interrupted(@)] ELSE wrapper
        /\ th' = Read([th EXCEPT !.sent = TRUE], "after") /\ UNCHANGED wins
    BY <1>3 DEF ControlSend
  <2>2. th' \in ThreadType /\ th'.pc = "completion" /\ th'.run = r /\ th'.op = "stop"
    <3> DEFINE t == [th EXCEPT !.sent = TRUE]
    <3>1. t \in ThreadType /\ t.run = r /\ t.op = "stop"
      BY <1>1, <1>3 DEF ThreadType
    <3>2. th' = Read(t, "after") /\ "after" \in Whys
      BY <2>1 DEF Whys
    <3> HIDE DEF t
    <3> QED BY <3>1, <3>2, ReadIs
  <2>3. \A q \in Runs : wrapper'[q] \in {wrapper[q], Killed(wrapper[q]), Interrupted(wrapper[q])}
    BY <1>1, <2>1
  <2>4. ASSUME NEW q \in Runs
        PROVE  /\ wrapper'[q] \in WrapperType /\ Written(q)' /\ Calmer(q)
               /\ wrapper'[q].pc = "none" <=> wrapper[q].pc = "none"
               /\ wrapper[q].pc = "gone" => wrapper'[q].pc = "gone"
    BY <1>0, <2>1, <2>3, StruckIs DEF Shows
  <2>5. wrapper' \in [Runs -> WrapperType]
    BY <1>1, <2>1, <2>4
  <2>6. TypeOK'
    BY <1>0, <1>1, <2>1, <2>2, <2>5 DEF TypeOK
  <2>7. Held'
    BY <1>0, <1>1, <2>2 DEF Held
  <2>8. Told /\ Quiet /\ meta'[r].force => Outcome(r, "stopped")'
    BY <1>0, <2>4, OutcomeKept DEF Quiet, True, IInv, Base
  <2>9. Told /\ Quiet => Looked(th.run)'
    BY <2>2 DEF Looked, Past
  <2> QED BY <1>0, <2>1, <2>2, <2>4, <2>6, <2>7, <2>8, <2>9, ControlMoves
<1>4. CASE th.op = "kill" /\ BoundTo(w, r) /\ PaneLive(w)
  <2>1. /\ wrapper' = IF p \in Runs THEN [wrapper EXCEPT ![p] = Killed(@)]
                      ELSE [wrapper EXCEPT ![r].fresh = TRUE]
        /\ wins' = IF p \in Runs THEN wins ELSE [wins EXCEPT ![w].pane = "dead"]
        /\ th' = [th EXCEPT !.pc = "marker"]
    BY <1>4 DEF ControlSend
  <2>2. th' \in ThreadType /\ th'.pc = "marker" /\ th'.run = r /\ th'.op = "kill"
    BY <1>1, <1>4, <2>1 DEF ThreadType
  <2>3. /\ wins' \in [Windows -> WindowType]
        /\ \A v \in Windows :
             /\ wins'[v].role = wins[v].role /\ wins'[v].run = wins[v].run
             /\ wins'[v].pane \in Runs <=> wins[v].pane \in Runs
             /\ wins[v].pane \in Runs => wins'[v].pane = wins[v].pane
    BY <1>1, <2>1, PanesAssumption DEF WindowType
  <2>4. ASSUME NEW q \in Runs
        PROVE  /\ wrapper'[q] \in WrapperType /\ Written(q)' /\ Calmer(q)
               /\ wrapper'[q].pc = "none" <=> wrapper[q].pc = "none"
               /\ wrapper[q].pc = "gone" => wrapper'[q].pc = "gone"
    <3>0. Shows(q)' => Shows(q)
      BY <2>3 DEF Shows
    <3>1. CASE p \in Runs
      <4>1. wrapper'[q] \in {wrapper[q], Killed(wrapper[q]), Interrupted(wrapper[q])}
        BY <1>1, <2>1, <3>1
      <4> QED BY <1>0, <3>0, <4>1, StruckIs
    <3>2. CASE p \notin Runs
      <4>1. /\ wrapper'[q] \in WrapperType /\ wrapper'[q].pc = wrapper[q].pc
            /\ wrapper'[q].exit = wrapper[q].exit /\ wrapper'[q].sig = wrapper[q].sig
        BY <1>1, <2>1, <3>2 DEF WrapperType
      <4>2. Written(q)'
        BY <1>0, <4>1 DEF IInv, Base, Written
      <4>3. Calmer(q)
        BY <1>0, <3>0, <4>1 DEF Calmer, Launching
      <4> QED BY <4>1, <4>2, <4>3
    <3> QED BY <3>1, <3>2
  <2>5. wrapper' \in [Runs -> WrapperType]
    BY <1>1, <2>1, <2>4
  <2>6. TypeOK'
    BY <1>0, <1>1, <2>2, <2>3, <2>5 DEF TypeOK
  <2>7. Held'
    BY <1>0, <1>1, <2>2 DEF Held
  <2>8. Told /\ Quiet /\ meta'[r].force => Outcome(r, "stopped")'
    BY <1>0, <2>4, OutcomeKept DEF Quiet, True, IInv, Base
  <2>9. ASSUME Told, Quiet PROVE Looked(th.run)'
    <3>1. ~Launching(r) /\ Bound(r) /\ Known(r) /\ Written(r)
      BY <1>0, <2>9 DEF Quiet, Looked, True, IInv, Base
    <3>2. ~Launching(r)'
      BY <1>0, <3>1 DEF Launching
    <3>3. wrapper'[r].exit # "code" /\ wrapper'[r].pc \in {"none", "gone"}
      <4>1. CASE script[r].pc = "ok"
        <5>1. p = r
          BY <1>1, <1>4, <3>1, <4>1 DEF Bound
        <5>2. wrapper[r].pc \notin {"none", "gone"}
          BY <1>4, <3>1, <4>1, <5>1, PanesAssumption DEF PaneLive, Known
        <5>3. wrapper'[r] = Killed(wrapper[r])
          BY <1>1, <2>1, <5>1
        <5> QED BY <1>1, <5>2, <5>3, KilledIs
      <4>2. CASE script[r].pc # "ok"
        <5>1. wrapper[r].pc = "none" /\ wrapper[r].exit = "none"
          BY <1>1, <3>1, <4>2 DEF Known, Written, WrapperType
        <5>2. p # r
          BY <1>1, <3>1, <4>2 DEF Known, Shows
        <5>3. wrapper'[r].pc = wrapper[r].pc /\ wrapper'[r].exit = wrapper[r].exit
          BY <1>1, <2>1, <5>2 DEF WrapperType
        <5> QED BY <5>1, <5>3
      <4> QED BY <4>1, <4>2
    <3>4. Outcome(r, "stopped")'
      BY <1>0, <1>1, <3>2, <3>3 DEF Outcome
    <3>5. Looked(r)'
      BY <2>2, <3>2, <3>4 DEF Looked
    <3> QED BY <2>2, <3>5
  <2> QED BY <1>0, <2>2, <2>3, <2>4, <2>6, <2>7, <2>8, <2>9, ControlMoves
<1> QED BY <1>2, <1>3, <1>4 DEF ControlSend


-----------------------------------------------------------------------------
(* The row is written.                                                      *)

\* The holder of the lock lets go or goes on, with or without a new state in its
\* row; the steps of launches and wrappers are what they were.
LEMMA RowMoves ==
  ASSUME IInv, UNCHANGED <<backend, wins, meta>>, TypeOK',
         \A q \in Runs : /\ q \in hist.blind => q \in hist'.blind
                         /\ q \in hist.hasty => q \in hist'.hasty,
         NEW r \in Runs, r = th.run, th.pc # "idle",
         \A q \in Runs :
           /\ script'[q].pc = script[q].pc /\ script'[q].win = script[q].win
           /\ script'[q].told =>
                script[q].told \/ (q = r /\ th.pc = "wait" /\ script[q].pc \in {"ok", "err"})
           /\ wrapper'[q].pc = wrapper[q].pc /\ wrapper'[q].exit = wrapper[q].exit
           /\ wrapper'[q].sig = wrapper[q].sig
           /\ Sealed(q)' /\ (row[q] = "absent" => src'.sealed[q] = 0 /\ src'.ran[q] = 0)
           /\ q # r => row'[q] = row[q],
         NEW st \in Active \cup Terminal, row'[r] = st,
         th'.pc \in {"idle", "completion", "list", "dispatch"},
         th'.pc = "idle" => th' = Idle,
         th'.pc # "idle" => th'.run = r /\ st \in Active,
         th'.pc = "dispatch" => th.pc = "confirm" /\ th'.op = "start",
         ~th'.sent \/ (th'.run = r /\ th'.sent = th.sent /\ th'.op = th.op),
         backend = "local" /\ th.pc = "wait" => ~Launching(r),
         Told /\ Quiet => Outcome(r, st) \/ Outcome(r, st)'
  PROVE  IInv'
<1>0. row[r] \in Active
  BY Holder
<1>1. \A q \in Runs : Shows(q)' <=> Shows(q)
  BY DEF Shows
<1>2. \A q \in Runs : Launching(q)' <=> Launching(q)
  BY DEF Launching
<1>3. \A q \in Runs : Calmer(q)
  <2> TAKE q \in Runs
  <2>1. /\ wrapper'[q].pc = wrapper[q].pc /\ wrapper'[q].exit = wrapper[q].exit
        /\ wrapper'[q].sig = wrapper[q].sig
    OBVIOUS
  <2>3. /\ q \in hist.blind => q \in hist'.blind
        /\ q \in hist.hasty => q \in hist'.hasty
    OBVIOUS
  <2>2. (Shows(q)' <=> Shows(q)) /\ (Launching(q)' <=> Launching(q)) /\ meta' = meta
    BY <1>1, <1>2
  <2> QED BY ONLY <2>1, <2>2, <2>3 DEF Calmer
<1>4. Base'
  <2>1. OneActive'
    BY <1>0 DEF IInv, Base, OneActive
  <2>2. Held'
    BY <1>0 DEF IInv, Base, Held
  <2>3. Unread'
    BY DEF Unread
  <2>4. ASSUME NEW q \in Runs PROVE Known(q)' /\ Written(q)'
    <3>1. Known(q) /\ Written(q)
      BY DEF IInv, Base
    <3>2. row'[q] = "absent" => row[q] = "absent"
      BY DEF Active, Terminal
    <3>3. Known(q)'
      BY <1>1, <3>1, <3>2 DEF Known
    <3>4. Written(q)'
      BY <3>1 DEF Written
    <3> QED BY <3>3, <3>4
  <2> QED BY <2>1, <2>2, <2>3, <2>4 DEF Base
<1>5. ASSUME Told' PROVE Quiet'
  <2>1. Told
    BY <1>5, ToldBefore
  <2>2. Quiet
    BY <2>1 DEF IInv
  <2>3. OneSlot'
    BY <2>2 DEF Quiet, OneSlot
  <2>4. backend # "node" => \A q \in Runs : ~Launching(q)
    <3> SUFFICES ASSUME backend # "node", NEW q \in Runs, Launching(q) PROVE FALSE
      OBVIOUS
    <3>1. th.pc = "wait" /\ q = r
      BY <2>2 DEF Quiet, True, Placed
    <3>2. CASE backend = "ssh"
      <4>1. script'[q].pc = "none" \/ script'[q].told
        BY <1>5, <3>2 DEF Told
      <4>2. script[q].pc \in {"none", "ok", "err"}
        BY <4>1 DEF IInv, Base, Known
      <4> QED BY <4>2 DEF Launching
    <3>3. CASE backend = "local"
      BY <3>1, <3>3
    <3> QED BY <3>2, <3>3 DEF IInv, Base, TypeOK, Backends
  <2>5. Looked(th.run)'
    <3>1. CASE ~th'.sent
      BY <3>1 DEF Looked, Past
    <3>2. CASE th'.run = r /\ th'.sent = th.sent /\ th'.op = th.op
      <4>1. th'.sent /\ th'.op = "kill" => Outcome(r, "stopped")
        BY <2>2, <3>2 DEF Quiet, Looked
      <4>2. Outcome(r, "stopped") => Outcome(r, "stopped")'
        BY <1>3, OutcomeKept DEF IInv, Base
      <4>3. Looked(r)'
        BY <4>1, <4>2 DEF Looked, Past
      <4> QED BY <3>2, <4>3
    <3> QED BY <3>1, <3>2
  <2>6. ASSUME NEW q \in Runs PROVE True(q)'
    <3>0. True(q) /\ Written(q)
      BY <2>2 DEF Quiet, IInv, Base
    <3>1. Outcome(q, row[q])'
      <4>1. CASE q = r
        <5>1. Outcome(r, st)'
          BY <1>3, <2>1, <2>2, OutcomeKept DEF IInv, Base
        <5> QED BY <4>1, <5>1, OutcomeOfRow
      <4>2. CASE q # r
        BY <1>3, <3>0, <4>2, RowKept DEF True
      <4> QED BY <4>1, <4>2
    <3>2. meta'[q].force => Outcome(q, "stopped")'
      BY <1>3, <3>0, OutcomeKept DEF True
    <3>3. Placed(q)'
      BY <1>2, <2>4, <3>0 DEF True, Placed
    <3>4. Bound(q)'
      BY <1>0, <3>0 DEF True, Bound, Running, BoundTo
    <3> QED BY <3>1, <3>2, <3>3, <3>4 DEF True
  <2> QED BY <2>3, <2>5, <2>6 DEF Quiet
<1> QED BY <1>4, <1>5 DEF IInv

\* What the rest of the state is when only the row and the lock move.
LEMMA OnlyTheRow ==
  ASSUME IInv, UNCHANGED <<backend, observer, hist, src, script, wins, wrapper, meta>>,
         NEW r \in Runs, NEW st \in Active \cup Terminal, row' = [row EXCEPT ![r] = st],
         th' \in ThreadType, left' \in Budget
  PROVE  /\ TypeOK' /\ row'[r] = st
         /\ \A q \in Runs :
              /\ Sealed(q)' /\ (row[q] = "absent" => src'.sealed[q] = 0 /\ src'.ran[q] = 0)
              /\ q # r => row'[q] = row[q]
<1>1. row' \in [Runs -> RowStates] /\ row'[r] = st /\ \A q \in Runs \ {r} : row'[q] = row[q]
  BY DEF IInv, Base, TypeOK, RowStates
<1>2. TypeOK'
  BY <1>1 DEF IInv, Base, TypeOK, Budget
<1>3. \A q \in Runs : Sealed(q)' /\ (row[q] = "absent" => src'.sealed[q] = 0 /\ src'.ran[q] = 0)
  BY DEF IInv, Base, Sealed, Known
<1> QED BY <1>1, <1>2, <1>3

\* A run whose launch was never begun has nothing to contradict a failure.
LEMMA FailedIsTrue ==
  ASSUME IInv, th.pc \in {"confirm", "dispatch"}
  PROVE  /\ th.run \in Runs /\ row[th.run] \in Active
         /\ Outcome(th.run, "failed")
         /\ Transition(th.run, {"preparing"}, "failed") \in Active \cup Terminal
         /\ Outcome(th.run, Transition(th.run, {"preparing"}, "failed"))
<1> PICK r \in Runs : r = th.run
  BY Holder
<1>1. row[r] \in Active /\ script[r].pc = "none" /\ Known(r) /\ Written(r) /\ wrapper[r] \in WrapperType
  BY Holder DEF IInv, Base, Held, TypeOK
<1>2. wrapper[r].pc = "none" /\ ~Shows(r)
  BY <1>1 DEF Known
<1>3. Outcome(r, "failed")
  BY <1>1, <1>2 DEF Outcome, Launching
<1>4. Outcome(r, row[r])
  BY <1>1 DEF Outcome, Active, Terminal
<1>5. Transition(r, {"preparing"}, "failed") \in {row[r], "failed"}
  BY DEF Transition
<1>6. Outcome(r, Transition(r, {"preparing"}, "failed"))
  BY <1>3, <1>4 DEF Transition
<1> QED BY <1>1, <1>3, <1>5, <1>6 DEF Terminal

\* The second inspection: the source is still the claimed one, or the start fails.
LEMMA ConfirmKept ==
  ASSUME IInv, Confirm
  PROVE  IInv'
<1>0. /\ th.pc = "confirm" /\ th.pc # "idle" /\ th.pc # "wait"
      /\ UNCHANGED <<backend, observer, hist, src, script, wins, wrapper, meta, left>>
  BY DEF Confirm
<1> PICK r \in Runs : r = th.run
  BY <1>0, Holder
<1>1. row[r] \in Active /\ th \in ThreadType /\ left' \in Budget /\ th.op = "start"
  BY <1>0, Holder DEF IInv, Base, Held
<1>2. CASE th' = [th EXCEPT !.pc = "dispatch"] /\ UNCHANGED row
  <2>1. /\ th' \in ThreadType /\ th'.pc = "dispatch" /\ th'.run = r /\ th'.sent = th.sent
        /\ th'.op = th.op
    BY <1>1, <1>2 DEF ThreadType
  <2> QED BY <1>0, <1>1, <1>2, <2>1, LooksKept
<1>3. CASE StartRefused
  <2>1. PICK st : st = Transition(r, {"preparing"}, "failed")
    OBVIOUS
  <2>2. st \in Active \cup Terminal /\ Outcome(r, st)
    BY <1>0, <2>1, FailedIsTrue
  <2>3. row' = [row EXCEPT ![r] = st] /\ th' = Idle
    BY <1>3, <2>1 DEF StartRefused
  <2>4. TypeOK' /\ row'[r] = st
        /\ \A q \in Runs :
              /\ Sealed(q)' /\ (row[q] = "absent" => src'.sealed[q] = 0 /\ src'.ran[q] = 0)
              /\ q # r => row'[q] = row[q]
    BY <1>0, <1>1, <2>2, <2>3, IdleIs, OnlyTheRow
  <2> QED BY <1>0, <2>2, <2>3, <2>4, IdleIs, RowMoves
<1> QED BY <1>2, <1>3 DEF Confirm

\* The report reaches the row.
LEMMA ApplyKept ==
  ASSUME IInv, Apply
  PROVE  IInv'
<1>0. /\ th.pc = "apply" /\ th.pc # "idle" /\ th.pc # "wait" /\ th.pc \in Past
      /\ UNCHANGED <<backend, observer, hist, src, script, wins, wrapper, meta, left>>
  BY DEF Apply, Past
<1> PICK r \in Runs : r = th.run
  BY <1>0, Holder
<1>1. row[r] \in Active /\ th \in ThreadType /\ left' \in Budget /\ th.rep \in Reports
  BY <1>0, Holder DEF ThreadType
<1>2. PICK st : st = IF th.why = "start_err" /\ th.rep = "lost"
                     THEN Transition(r, {"preparing"}, "failed")
                     ELSE ForceStopped(Observed(r, th.rep))
  OBVIOUS
<1>3. /\ row' = [row EXCEPT ![r] = st]
      /\ th' = IF th.why = "before" /\ st \in Active THEN [th EXCEPT !.pc = "list"] ELSE Idle
  BY <1>2 DEF Apply
<1>4. \/ st = row[r]
      \/ st = "failed" /\ th.rep = "lost"
      \/ st = th.rep /\ th.rep \notin {"none", "preparing"}
      \/ st = "stopped" /\ th.op = "kill" /\ th.sent
  BY <1>1, <1>2 DEF Transition, Observed, ForceStopped
<1>5. st \in Active \cup Terminal
  BY <1>1, <1>4 DEF Reports, Active, Terminal
<1>6. ASSUME Told, Quiet PROVE Outcome(r, st)
  <2>1. Outcome(r, row[r]) /\ Looked(r)
    BY <1>6 DEF Quiet, True
  <2>2. CASE st = row[r]
    BY <2>1, <2>2
  <2>3. CASE st = "failed" /\ th.rep = "lost"
    BY <1>0, <2>1, <2>3 DEF Looked
  <2>4. CASE st = th.rep
    BY <1>0, <2>1, <2>4 DEF Looked
  <2>5. CASE st = "stopped" /\ th.op = "kill" /\ th.sent
    BY <2>1, <2>5 DEF Looked
  <2> QED BY <1>4, <2>2, <2>3, <2>4, <2>5
<1>7. /\ th' \in ThreadType /\ th'.pc \in {"idle", "list"}
      /\ th'.pc = "idle" => th' = Idle /\ ~th'.sent
      /\ th'.pc = "list" => th'.run = r /\ st \in Active /\ th'.sent = th.sent /\ th'.op = th.op
  <2>1. CASE th' = Idle
    BY <2>1, IdleIs
  <2>2. CASE th' = [th EXCEPT !.pc = "list"] /\ st \in Active
    BY <1>1, <2>2 DEF ThreadType
  <2> QED BY <1>3, <2>1, <2>2
<1>8. TypeOK' /\ row'[r] = st
      /\ \A q \in Runs :
            /\ Sealed(q)' /\ (row[q] = "absent" => src'.sealed[q] = 0 /\ src'.ran[q] = 0)
            /\ q # r => row'[q] = row[q]
  BY <1>0, <1>1, <1>3, <1>5, <1>7, OnlyTheRow
<1> QED BY <1>0, <1>5, <1>6, <1>7, <1>8, RowMoves

\* The machine cannot be asked.
LEMMA ReadFailsKept ==
  ASSUME IInv, ReadFails
  PROVE  IInv'
<1>0. /\ th.pc \in Reading /\ th.pc # "idle" /\ th.pc # "wait"
      /\ UNCHANGED <<backend, observer, hist, src, script, wins, wrapper, meta>>
  BY DEF ReadFails, Reading
<1> PICK r \in Runs : r = th.run
  BY <1>0, Holder
<1>1. row[r] \in Active /\ th \in ThreadType
  BY <1>0, Holder
<1>2. left' \in Budget
  BY BudgetTyped DEF ReadFails, Loses, Lose, IInv, Base
<1>3. PICK st : st = ForceStopped(row[r])
  OBVIOUS
<1>4. /\ row' = [row EXCEPT ![r] = st]
      /\ th' = IF th.why = "before" THEN [th EXCEPT !.pc = "list"] ELSE Idle
  BY <1>3 DEF ReadFails
<1>5. \/ st = row[r]
      \/ st = "stopped" /\ th.op = "kill" /\ th.sent /\ th.why = "after"
  BY <1>3 DEF ForceStopped
<1>6. st \in Active \cup Terminal /\ (th.why = "before" => st \in Active)
  BY <1>1, <1>5 DEF Active, Terminal
<1>7. ASSUME Told, Quiet PROVE Outcome(r, st)
  <2>1. Outcome(r, row[r]) /\ Looked(r)
    BY <1>7 DEF Quiet, True
  <2> QED BY <1>5, <2>1 DEF Looked
<1>8. /\ th' \in ThreadType /\ th'.pc \in {"idle", "list"}
      /\ th'.pc = "idle" => th' = Idle /\ ~th'.sent
      /\ th'.pc = "list" => th'.run = r /\ st \in Active /\ th'.sent = th.sent /\ th'.op = th.op
  <2>1. CASE th' = Idle
    BY <2>1, IdleIs
  <2>2. CASE th' = [th EXCEPT !.pc = "list"] /\ st \in Active
    BY <1>1, <2>2 DEF ThreadType
  <2> QED BY <1>4, <1>6, <2>1, <2>2
<1>9. TypeOK' /\ row'[r] = st
      /\ \A q \in Runs :
            /\ Sealed(q)' /\ (row[q] = "absent" => src'.sealed[q] = 0 /\ src'.ran[q] = 0)
            /\ q # r => row'[q] = row[q]
  BY <1>0, <1>2, <1>4, <1>6, <1>8, OnlyTheRow
<1> QED BY <1>0, <1>6, <1>7, <1>8, <1>9, RowMoves

\* What a start does after an error, remote or local.
LEMMA ErrorIs ==
  ASSUME IInv, StartError, th.pc # "idle"
  PROVE  /\ th' \in ThreadType /\ th'.pc \in {"idle", "completion"}
         /\ th'.pc = "idle" => th' = Idle /\ ~th'.sent
         /\ th'.pc # "idle" => th'.run = th.run /\ th'.sent = th.sent /\ th'.op = th.op
                               /\ row' = [row EXCEPT ![th.run] = row[th.run]]
         /\ ~Remote => th' = Idle
                       /\ row' = [row EXCEPT ![th.run] = Transition(th.run, {"preparing"}, "failed")]
         /\ Remote => th'.pc = "completion" /\ UNCHANGED row
<1>1. th \in ThreadType /\ "start_err" \in Whys /\ row \in [Runs -> RowStates]
  BY Holder DEF Whys, IInv, Base, TypeOK
<1>2. CASE Remote
  <2>1. th' = Read(th, "start_err") /\ UNCHANGED row
    BY <1>2 DEF StartError
  <2>2. row' = [row EXCEPT ![th.run] = row[th.run]]
    BY <1>1, <2>1
  <2> QED BY <1>1, <1>2, <2>1, <2>2, ReadIs
<1>3. CASE ~Remote
  BY <1>3, IdleIs DEF StartError, StartRefused
<1> QED BY <1>2, <1>3

\* The status of a launch is lost: its run is looked for.
LEMMA UnacknowledgedKept ==
  ASSUME IInv, Unacknowledged
  PROVE  IInv'
<1>0. /\ th.pc = "wait" /\ Remote /\ StartError
      /\ UNCHANGED <<backend, observer, hist, src, script, wins, wrapper, meta>>
  BY DEF Unacknowledged, Loses
<1> PICK r \in Runs : r = th.run
  BY <1>0, Holder
<1>1. row[r] \in Active /\ backend # "local"
  BY <1>0, Holder DEF Remote
<1>2. left' \in Budget
  BY BudgetTyped DEF Unacknowledged, Loses, Lose, IInv, Base
<1>3. /\ th' \in ThreadType /\ th'.pc = "completion" /\ th'.run = r /\ th'.sent = th.sent
      /\ th'.op = th.op /\ UNCHANGED row
  BY <1>0, ErrorIs
<1>4. TypeOK'
  BY <1>0, <1>2, <1>3, ThreadTyped DEF IInv, Base, HistoryKept
<1>5. \A q \in Runs : Sealed(q)' /\ (row[q] = "absent" => src'.sealed[q] = 0 /\ src'.ran[q] = 0)
  BY <1>0 DEF IInv, Base, Sealed, Known
<1>6. Told /\ Quiet => Outcome(r, row[r])
  BY DEF Quiet, True
<1>7. PICK st \in Active : st = row[r]
  BY <1>1
<1>8. row'[r] = st /\ \A q \in Runs : row'[q] = row[q]
  BY <1>3, <1>7
<1> QED BY <1>0, <1>1, <1>3, <1>4, <1>5, <1>6, <1>7, <1>8, RowMoves

\* The launch is over and the Core is told.
LEMMA StartedKept ==
  ASSUME IInv, NEW found, Started(found), backend = "local" => found
  PROVE  IInv'
<1>0. /\ th.pc = "wait" /\ script[th.run].pc \in {"ok", "err"}
      /\ script' = [script EXCEPT ![th.run].told = TRUE]
      /\ UNCHANGED <<backend, observer, hist, src, wins, wrapper, meta, left>>
  BY DEF Started
<1> PICK r \in Runs : r = th.run
  BY <1>0, Holder
<1>1. /\ row[r] \in Active /\ th \in ThreadType /\ TypeOK
      /\ script \in [Runs -> ScriptType] /\ row \in [Runs -> RowStates]
  BY <1>0, Holder DEF IInv, Base, TypeOK
<1>2. /\ script' \in [Runs -> ScriptType]
      /\ \A q \in Runs : /\ script'[q].pc = script[q].pc /\ script'[q].win = script[q].win
                         /\ script'[q].told => script[q].told \/ q = r
  BY <1>0, <1>1 DEF ScriptType
<1>3. PICK st : st = IF ~Remote /\ ~(script[r].pc = "ok" /\ found)
                     THEN Transition(r, {"preparing"}, "failed") ELSE row[r]
  OBVIOUS
<1>4. /\ th' \in ThreadType /\ th'.pc \in {"idle", "completion"}
      /\ th'.pc = "idle" => th' = Idle /\ ~th'.sent
      /\ th'.pc # "idle" => th'.run = r /\ th'.sent = th.sent /\ th'.op = th.op /\ st = row[r]
      /\ row' = [row EXCEPT ![r] = st]
  <2>1. CASE script[r].pc = "ok" /\ found
    <3>1. th' = Read(th, "start_ok") /\ "start_ok" \in Whys /\ UNCHANGED row /\ st = row[r]
      BY <1>3, <2>1 DEF Started, Whys
    <3>2. row' = [row EXCEPT ![r] = st]
      BY <1>1, <3>1
    <3> QED BY <1>1, <3>1, <3>2, ReadIs
  <2>2. CASE ~(script[r].pc = "ok" /\ found)
    <3>1. StartError
      BY <2>2 DEF Started
    <3>2. CASE Remote
      <4>1. st = row[r]
        BY <1>3, <3>2
      <4> QED BY <1>0, <1>1, <3>1, <3>2, <4>1, ErrorIs
    <3>3. CASE ~Remote
      <4>1. st = Transition(r, {"preparing"}, "failed")
        BY <1>3, <2>2, <3>3
      <4>2. th' = Idle /\ row' = [row EXCEPT ![r] = st]
        BY <1>0, <3>1, <3>3, <4>1, ErrorIs
      <4> QED BY <4>2, IdleIs
    <3> QED BY <3>2, <3>3
  <2> QED BY <2>1, <2>2
<1>5. st = row[r] \/ (st = "failed" /\ row[r] = "preparing" /\ backend = "local" /\ ~(script[r].pc = "ok" /\ found))
  BY <1>3 DEF Transition, Remote
<1>6. st \in Active \cup Terminal
  BY <1>1, <1>5 DEF Terminal
<1>7. row' \in [Runs -> RowStates] /\ row'[r] = st /\ \A q \in Runs : q # r => row'[q] = row[q]
  BY <1>1, <1>4, <1>6 DEF RowStates
<1>8. TypeOK'
  BY <1>0, <1>1, <1>2, <1>4, <1>7 DEF TypeOK
<1>9. \A q \in Runs : Sealed(q)' /\ (row[q] = "absent" => src'.sealed[q] = 0 /\ src'.ran[q] = 0)
  BY <1>0 DEF IInv, Base, Sealed, Known
<1>10. ~Launching(r)
  BY <1>0 DEF Launching
<1>11. \A q \in Runs : /\ wrapper'[q].pc = wrapper[q].pc /\ wrapper'[q].exit = wrapper[q].exit
                       /\ wrapper'[q].sig = wrapper[q].sig
  BY <1>0
<1>12. ASSUME Told, Quiet PROVE Outcome(r, st)
  <2>1. CASE st = row[r]
    BY <1>12, <2>1 DEF Quiet, True
  <2>2. CASE st = "failed" /\ script[r].pc # "ok"
    <3>1. wrapper[r].pc = "none" /\ ~Shows(r)
      BY <2>2 DEF IInv, Base, Known
    <3> QED BY <1>10, <2>2, <3>1 DEF Outcome
  <2> QED BY <1>5, <2>1, <2>2
<1>13. \A q \in Runs :
         /\ script'[q].pc = script[q].pc /\ script'[q].win = script[q].win
         /\ script'[q].told =>
              script[q].told \/ (q = r /\ th.pc = "wait" /\ script[q].pc \in {"ok", "err"})
  BY <1>0, <1>2
<1>14. th'.pc # "idle" => st \in Active
  BY <1>1, <1>4
<1>15. UNCHANGED <<backend, hist, wins, meta>> /\ th.pc # "idle"
  BY <1>0
<1> QED BY ONLY IInv, r \in Runs, r = th.run, <1>4, <1>6, <1>7, <1>8, <1>9, <1>10, <1>11, <1>12,
           <1>13, <1>14, <1>15, RowMoves

\* A Node seals the claimed content, or nothing.
LEMMA SealsIs ==
  ASSUME IInv, backend' = backend, th.run \in Runs, row[th.run] \in Active,
         UNCHANGED src \/ NodeSeals
  PROVE  /\ src' \in [now: Nat, claimed: [Runs -> Nat], sealed: [Runs -> Nat], ran: [Runs -> Nat]]
         /\ \A q \in Runs : Sealed(q)' /\ (row[q] = "absent" => src'.sealed[q] = 0 /\ src'.ran[q] = 0)
<1> PICK r \in Runs : r = th.run
  OBVIOUS
<1>1. src \in [now: Nat, claimed: [Runs -> Nat], sealed: [Runs -> Nat], ran: [Runs -> Nat]]
  BY DEF IInv, Base, TypeOK
<1>2. \A q \in Runs : Sealed(q) /\ (row[q] = "absent" => src.sealed[q] = 0 /\ src.ran[q] = 0)
  BY DEF IInv, Base, Known
<1>3. CASE UNCHANGED src
  BY <1>1, <1>2, <1>3 DEF Sealed
<1>4. CASE NodeSeals
  <2>1. /\ src.now = src.claimed[r]
        /\ src' = [src EXCEPT !.sealed = [src.sealed EXCEPT ![r] = src.now]]
    BY <1>4 DEF NodeSeals
  <2> DEFINE f == [src.sealed EXCEPT ![r] = src.now]
  <2>2. f \in [Runs -> Nat] /\ f[r] = src.claimed[r] /\ \A q \in Runs \ {r} : f[q] = src.sealed[q]
    BY <1>1, <2>1
  <2>3. src' = [src EXCEPT !.sealed = f]
    BY <2>1
  <2> HIDE DEF f
  <2>4. /\ src' \in [now: Nat, claimed: [Runs -> Nat], sealed: [Runs -> Nat], ran: [Runs -> Nat]]
        /\ src'.sealed = f /\ src'.claimed = src.claimed /\ src'.ran = src.ran
    BY <1>1, <2>2, <2>3
  <2>5. \A q \in Runs : Sealed(q)'
    BY <1>2, <2>2, <2>4 DEF Sealed
  <2>6. \A q \in Runs : row[q] = "absent" => src'.sealed[q] = 0 /\ src'.ran[q] = 0
    BY <1>2, <2>2, <2>4 DEF Active
  <2> QED BY <2>4, <2>5, <2>6
<1> QED BY <1>3, <1>4

\* request-id is written and the dispatch fails: by an error that start() handles,
\* or by one that it does not.
LEMMA DispatchFailsKept ==
  ASSUME IInv, th.pc = "dispatch", WriteRequest,
         UNCHANGED <<backend, observer, hist, wins, script, meta>>, left' \in Budget,
         UNCHANGED src \/ (backend = "node" /\ NodeSeals),
         StartError \/ (th' = Idle /\ UNCHANGED row)
  PROVE  IInv'
<1>0. th.pc # "idle" /\ th.pc # "wait"
  OBVIOUS
<1> PICK r \in Runs : r = th.run
  BY <1>0, Holder
<1>1. /\ row[r] \in Active /\ th \in ThreadType /\ TypeOK
      /\ wrapper \in [Runs -> WrapperType] /\ row \in [Runs -> RowStates]
  BY <1>0, Holder DEF IInv, Base, TypeOK
<1>2. /\ wrapper' \in [Runs -> WrapperType]
      /\ \A q \in Runs : /\ wrapper'[q].pc = wrapper[q].pc /\ wrapper'[q].exit = wrapper[q].exit
                         /\ wrapper'[q].sig = wrapper[q].sig
  BY <1>1 DEF WriteRequest, WrapperType
<1>3. PICK st : st = IF th' = Idle /\ UNCHANGED row THEN row[r]
                     ELSE IF ~Remote THEN Transition(r, {"preparing"}, "failed") ELSE row[r]
  OBVIOUS
<1>4. /\ th' \in ThreadType /\ th'.pc \in {"idle", "completion"}
      /\ th'.pc = "idle" => th' = Idle /\ ~th'.sent
      /\ th'.pc # "idle" => th'.run = r /\ th'.sent = th.sent /\ th'.op = th.op /\ st = row[r]
      /\ row' = [row EXCEPT ![r] = st]
  <2>1. CASE th' = Idle /\ UNCHANGED row
    <3>1. st = row[r]
      BY <1>3, <2>1
    <3>2. row' = [row EXCEPT ![r] = st]
      BY <1>1, <2>1, <3>1
    <3> QED BY <2>1, <3>1, <3>2, IdleIs
  <2>2. CASE ~(th' = Idle /\ UNCHANGED row)
    <3>0. StartError
      BY <2>2
    <3>1. CASE Remote
      <4>1. st = row[r]
        BY <1>3, <3>1
      <4> QED BY <1>1, <3>0, <3>1, <4>1, ErrorIs
    <3>2. CASE ~Remote
      <4>1. st = Transition(r, {"preparing"}, "failed")
        BY <1>3, <2>2, <3>2
      <4>2. th' = Idle /\ row' = [row EXCEPT ![r] = st]
        BY <3>0, <3>2, <4>1, ErrorIs
      <4> QED BY <4>2, IdleIs
    <3> QED BY <3>1, <3>2
  <2> QED BY <2>1, <2>2
<1>5. st \in {row[r], Transition(r, {"preparing"}, "failed")}
  BY <1>3
<1>6. Outcome(r, row[r])
  BY <1>1 DEF Outcome, Active, Terminal
<1>7. st \in Active \cup Terminal /\ Outcome(r, st)
  BY <1>1, <1>5, <1>6, FailedIsTrue
<1>8. row' \in [Runs -> RowStates] /\ row'[r] = st /\ \A q \in Runs : q # r => row'[q] = row[q]
  BY <1>1, <1>4, <1>7 DEF RowStates
<1>9. /\ src' \in [now: Nat, claimed: [Runs -> Nat], sealed: [Runs -> Nat], ran: [Runs -> Nat]]
      /\ \A q \in Runs : Sealed(q)' /\ (row[q] = "absent" => src'.sealed[q] = 0 /\ src'.ran[q] = 0)
  BY <1>1, SealsIs
<1>10. TypeOK'
  BY <1>1, <1>2, <1>4, <1>8, <1>9 DEF TypeOK, Budget
<1>11. th'.pc # "idle" => st \in Active
  BY <1>1, <1>4
<1> QED BY <1>0, <1>2, <1>4, <1>7, <1>8, <1>9, <1>10, <1>11, RowMoves

\* Before a launch over SSH an error escapes from start().
LEMMA StartBreaksKept ==
  ASSUME IInv, StartBreaks
  PROVE  IInv'
<1>0. /\ th.pc \in {"confirm", "dispatch"} /\ th' = Idle
      /\ UNCHANGED <<backend, observer, hist, src, row, script, wins, meta>>
      /\ WriteRequest \/ UNCHANGED wrapper
  BY DEF StartBreaks
<1> PICK r \in Runs : r = th.run
  BY <1>0, Holder
<1>1. /\ row[r] \in Active /\ TypeOK /\ wrapper \in [Runs -> WrapperType]
  BY <1>0, Holder DEF IInv, Base, TypeOK
<1>2. /\ wrapper' \in [Runs -> WrapperType]
      /\ \A q \in Runs : /\ wrapper'[q].pc = wrapper[q].pc /\ wrapper'[q].exit = wrapper[q].exit
                         /\ wrapper'[q].sig = wrapper[q].sig
  <2>1. CASE WriteRequest
    BY <1>1, <2>1 DEF WriteRequest, WrapperType
  <2>2. CASE UNCHANGED wrapper
    BY <1>1, <2>2
  <2> QED BY <1>0, <2>1, <2>2
<1>3. left' \in Budget
  BY BudgetTyped DEF StartBreaks, Loses, Lose, IInv, Base
<1>4. TypeOK'
  BY <1>0, <1>1, <1>2, <1>3, IdleIs DEF TypeOK, Budget
<1>5. \A q \in Runs : Sealed(q)' /\ (row[q] = "absent" => src'.sealed[q] = 0 /\ src'.ran[q] = 0)
  BY <1>0 DEF IInv, Base, Sealed, Known
<1>6. PICK st \in Active : st = row[r]
  BY <1>1
<1>7. Outcome(r, st)
  BY <1>6 DEF Outcome, Active, Terminal
<1> QED BY <1>0, <1>2, <1>4, <1>5, <1>6, <1>7, IdleIs, RowMoves

\* An error that reconcile() does not know ends a look.
LEMMA ReadRaisesKept ==
  ASSUME IInv, ReadRaises
  PROVE  IInv'
<1>0. /\ th.pc \in Reading /\ th.pc # "idle" /\ th.pc # "wait"
      /\ UNCHANGED <<backend, observer, src, script, wins, wrapper, meta>>
      /\ backend = "local" => th.pc \in Past
  BY DEF ReadRaises, Reading, SftpReads, Past
<1> PICK r \in Runs : r = th.run
  BY <1>0, Holder
<1>1. row[r] \in Active /\ th \in ThreadType /\ TypeOK
  BY <1>0, Holder DEF IInv, Base
<1>2. left' \in Budget
  BY BudgetTyped DEF ReadRaises, Loses, Lose, IInv, Base
<1>3. CASE Remote \/ th.why # "start_ok"
  <2>1. hist' = hist
    BY <1>3 DEF ReadRaises, Remote
  <2>2. /\ th' \in ThreadType /\ th'.pc \in {"idle", "completion"}
        /\ th'.pc = "idle" => th' = Idle
        /\ th'.pc # "idle" => th'.run = r
        /\ ~th'.sent \/ (th'.run = r /\ th'.sent = th.sent /\ th'.op = th.op)
        /\ UNCHANGED row
    BY <1>0, <1>3, ErrorIs, IdleIs DEF ReadRaises
  <2> QED BY <1>0, <1>1, <1>2, <2>1, <2>2, LooksKept
<1>4. CASE ~Remote /\ th.why = "start_ok"
  <2>1. PICK st : st = Transition(r, {"preparing"}, "failed")
    OBVIOUS
  <2>2. th' = Idle /\ row' = [row EXCEPT ![r] = st] /\ backend = "local"
    BY <1>4, <2>1 DEF ReadRaises, StartError, StartRefused, Remote
  <2>3. hist' = [hist EXCEPT !.blind = @ \cup {r}]
    BY <1>4, <2>2 DEF ReadRaises
  <2>4. /\ hist' \in History /\ r \in hist'.blind
        /\ \A q \in Runs : /\ q \in hist.blind => q \in hist'.blind
                           /\ q \in hist.hasty => q \in hist'.hasty
    BY <1>1, <2>3 DEF TypeOK, History
  <2>5. st \in {row[r], "failed"} /\ st \in Active \cup Terminal
    BY <1>1, <2>1 DEF Transition, Terminal
  <2>6. /\ row' \in [Runs -> RowStates] /\ row'[r] = st
        /\ \A q \in Runs : q # r => row'[q] = row[q]
    BY <1>1, <2>2, <2>5 DEF TypeOK, RowStates
  <2>7. TypeOK'
    BY <1>0, <1>1, <1>2, <2>2, <2>4, <2>6, IdleIs DEF TypeOK, Budget, History
  <2>8. \A q \in Runs : Sealed(q)' /\ (row[q] = "absent" => src'.sealed[q] = 0 /\ src'.ran[q] = 0)
    BY <1>0 DEF IInv, Base, Sealed, Known
  <2>9. ASSUME Told, Quiet PROVE Outcome(r, st)'
    <3>1. ~Launching(r)'
      BY <1>0, <2>2, <2>9 DEF Quiet, Looked, Launching
    <3>2. Outcome(r, "failed")'
      BY <2>4, <3>1 DEF Outcome
    <3>3. st \in Active => Outcome(r, st)'
      BY DEF Outcome, Active, Terminal
    <3> QED BY <1>1, <2>5, <3>2, <3>3 DEF Outcome
  <2> QED BY <1>0, <2>2, <2>4, <2>5, <2>6, <2>7, <2>8, <2>9, IdleIs, RowMoves
<1> QED BY <1>3, <1>4

\* An error that nobody knows ends a look, and the observer with it.
LEMMA ReadBreaksKept ==
  ASSUME IInv, ReadBreaks
  PROVE  IInv'
<1>1. th.pc # "wait" /\ th' = Idle /\ observer' \in {observer, TRUE, FALSE}
      /\ UNCHANGED <<backend, hist, src, row, script, wins, wrapper, meta>>
  BY DEF ReadBreaks, SftpReads
<1>2. left' \in Budget
  BY BudgetTyped DEF ReadBreaks, Loses, Lose, IInv, Base
<1> QED BY <1>1, <1>2, IdleIs, LooksKept

\* A changed source is refused by the Node.
LEMMA NodeRefusesKept ==
  ASSUME IInv, th.pc = "dispatch", StartRefused,
         UNCHANGED <<backend, observer, hist, src, script, wins, wrapper, meta, left>>
  PROVE  IInv'
<1>0. th.pc # "idle" /\ th.pc # "wait"
  OBVIOUS
<1> PICK r \in Runs : r = th.run
  BY <1>0, Holder
<1>1. left' \in Budget
  BY <1>0, Holder
<1>2. PICK st : st = Transition(r, {"preparing"}, "failed")
  OBVIOUS
<1>3. st \in Active \cup Terminal /\ Outcome(r, st)
  BY <1>2, FailedIsTrue
<1>4. row' = [row EXCEPT ![r] = st] /\ th' = Idle
  BY <1>2 DEF StartRefused
<1>5. TypeOK' /\ row'[r] = st
      /\ \A q \in Runs :
            /\ Sealed(q)' /\ (row[q] = "absent" => src'.sealed[q] = 0 /\ src'.ran[q] = 0)
            /\ q # r => row'[q] = row[q]
  BY <1>1, <1>3, <1>4, IdleIs, OnlyTheRow
<1> QED BY <1>0, <1>3, <1>4, <1>5, IdleIs, RowMoves

-----------------------------------------------------------------------------
(* A run is claimed and launched.                                           *)

\* The claim makes one row active, when none is.
LEMMA StartKept ==
  ASSUME IInv, NEW r \in Runs, Start(r)
  PROVE  IInv'
<1>0. /\ th = Idle /\ row[r] = "absent" /\ \A q \in Runs : row[q] \notin Active
      /\ row' = [row EXCEPT ![r] = "preparing"]
      /\ src' = [src EXCEPT !.claimed = [src.claimed EXCEPT ![r] = src.now]]
      /\ th' = [Idle EXCEPT !.op = "start", !.run = r, !.pc = "confirm"]
      /\ UNCHANGED <<backend, observer, hist, script, wins, wrapper, meta, left>>
  BY DEF Start
<1>1. /\ TypeOK /\ row \in [Runs -> RowStates] /\ Known(r)
      /\ src \in [now: Nat, claimed: [Runs -> Nat], sealed: [Runs -> Nat], ran: [Runs -> Nat]]
  BY DEF IInv, Base, TypeOK
<1>2. /\ th' \in ThreadType /\ th'.op = "start" /\ th'.run = r /\ th'.pc = "confirm" /\ ~th'.sent
  BY <1>0, IdleIs DEF ThreadType
<1>3. /\ row' \in [Runs -> RowStates] /\ row'[r] = "preparing"
      /\ \A q \in Runs : q # r => row'[q] = row[q]
  BY <1>0, <1>1 DEF RowStates, Active
<1>4. /\ src' \in [now: Nat, claimed: [Runs -> Nat], sealed: [Runs -> Nat], ran: [Runs -> Nat]]
      /\ src'.sealed = src.sealed /\ src'.ran = src.ran
      /\ \A q \in Runs : q # r => src'.claimed[q] = src.claimed[q]
  <2> DEFINE f == [src.claimed EXCEPT ![r] = src.now]
  <2>1. f \in [Runs -> Nat] /\ \A q \in Runs \ {r} : f[q] = src.claimed[q]
    BY <1>1
  <2>2. src' = [src EXCEPT !.claimed = f]
    BY <1>0
  <2> HIDE DEF f
  <2>3. /\ src' \in [now: Nat, claimed: [Runs -> Nat], sealed: [Runs -> Nat], ran: [Runs -> Nat]]
        /\ src'.sealed = src.sealed /\ src'.ran = src.ran /\ src'.claimed = f
    BY <1>1, <2>1, <2>2
  <2> QED BY <2>1, <2>3
<1>5. script[r].pc = "none" /\ wrapper[r].pc = "none" /\ ~meta[r].force /\ ~Shows(r)
      /\ src.sealed[r] = 0 /\ src.ran[r] = 0
  BY <1>0, <1>1 DEF Known
<1>6. \A q \in Runs : /\ Shows(q)' <=> Shows(q)
                      /\ Launching(q)' <=> Launching(q)
  BY <1>0 DEF Shows, Launching
<1>7. Base'
  <2>1. TypeOK'
    BY <1>0, <1>1, <1>2, <1>3, <1>4 DEF TypeOK
  <2>2. OneActive'
    BY <1>0, <1>3 DEF OneActive
  <2>3. Held'
    BY <1>0, <1>2, <1>3, <1>5 DEF Held, Active
  <2>4. Unread'
    BY <1>2 DEF Unread
  <2>5. ASSUME NEW q \in Runs PROVE Known(q)' /\ Sealed(q)' /\ Written(q)'
    <3>1. Known(q) /\ Sealed(q) /\ Written(q)
      BY DEF IInv, Base
    <3>2. Known(q)'
      BY <1>0, <1>3, <1>4, <1>6, <3>1 DEF Known
    <3>3. Sealed(q)'
      BY <1>0, <1>4, <1>5, <3>1 DEF Sealed
    <3>4. Written(q)'
      BY <1>0, <3>1 DEF Written
    <3> QED BY <3>2, <3>3, <3>4
  <2> QED BY <2>1, <2>2, <2>3, <2>4, <2>5 DEF Base
<1>8. ASSUME Told' PROVE Quiet'
  <2>1. Told
    BY <1>0, <1>2, <1>8, IdleIs DEF Told
  <2>2. Quiet
    BY <2>1 DEF IInv
  <2>3. OneSlot'
    BY <1>0, <2>2 DEF Quiet, OneSlot
  <2>4. Looked(th.run)'
    BY <1>2 DEF Looked, Past
  <2>5. ASSUME NEW q \in Runs PROVE True(q)'
    <3>1. True(q)
      BY <2>2 DEF Quiet
    <3>2. \A st : Outcome(q, st) => Outcome(q, st)'
      BY <1>0, <1>6 DEF Outcome
    <3>3. Outcome(q, row[q])'
      <4>1. CASE q = r
        BY <1>3, <4>1 DEF Outcome, Terminal
      <4>2. CASE q # r
        <5>1. PICK st : st = row[q]
          OBVIOUS
        <5>2. Outcome(q, st)' /\ row'[q] = st
          BY <1>3, <3>1, <3>2, <4>2, <5>1 DEF True
        <5> QED BY <5>2, OutcomeOfRow
      <4> QED BY <4>1, <4>2
    <3>4. meta'[q].force => Outcome(q, "stopped")'
      BY <1>0, <3>1, <3>2 DEF True
    <3>5. Placed(q)'
      <4>1. Launching(q) => backend = "node"
        BY <1>0, <3>1, IdleIs DEF True, Placed
      <4> QED BY <1>0, <1>6, <3>1, <4>1 DEF True, Placed
    <3>6. Bound(q)'
      <4>1. (Running(q) => \E w \in Windows : BoundTo(w, q) /\ wins[w].pane = q)'
        BY <1>0, <3>1 DEF True, Bound, Running, BoundTo
      <4>2. CASE q = r
        BY <1>0, <1>5, <4>1, <4>2 DEF Bound, Shows
      <4>3. CASE q # r
        BY <1>0, <1>3, <4>1, <4>3 DEF Bound
      <4> QED BY <4>2, <4>3
    <3> QED BY <3>3, <3>4, <3>5, <3>6 DEF True
  <2> QED BY <2>3, <2>4, <2>5 DEF Quiet
<1> QED BY <1>7, <1>8 DEF IInv

\* request-id is written and the slot is taken: a slot whose pane is dead, or the
\* first free window.
LEMMA TakeSlotKept ==
  ASSUME IInv, th.pc = "dispatch", WriteRequest, TakeSlot, NodeFree,
         UNCHANGED <<backend, observer, hist, meta, left>>, UNCHANGED src \/ NodeSeals
  PROVE  IInv'
<1>0. th.pc # "idle" /\ th.pc # "wait"
  OBVIOUS
<1> PICK r \in Runs : r = th.run
  BY <1>0, Holder
<1>1. /\ row[r] \in Active /\ th \in ThreadType /\ TypeOK
      /\ wrapper \in [Runs -> WrapperType] /\ script \in [Runs -> ScriptType]
      /\ wins \in [Windows -> WindowType] /\ Known(r)
      /\ script[r].pc = "none" /\ ~meta[r].force /\ th.op = "start"
  BY <1>0, Holder DEF IInv, Base, TypeOK, Held
<1>2. wrapper[r].pc = "none" /\ ~Shows(r)
  BY <1>1 DEF Known
<1>3. /\ wrapper' \in [Runs -> WrapperType]
      /\ \A q \in Runs : /\ wrapper'[q].pc = wrapper[q].pc /\ wrapper'[q].exit = wrapper[q].exit
                         /\ wrapper'[q].sig = wrapper[q].sig
  BY <1>1 DEF WriteRequest, WrapperType
<1>4. /\ th' \in ThreadType /\ th'.pc = "wait" /\ th'.run = r /\ th'.op = "start"
      /\ UNCHANGED row
  BY <1>1 DEF TakeSlot, ThreadType
<1>5. PICK w \in Windows :
        \/ /\ IsSlot(w) /\ ~PaneLive(w)
           /\ script' = [script EXCEPT ![r] = [pc |-> "role", win |-> w, created |-> FALSE,
                                               prev |-> wins[w].run, told |-> FALSE]]
           /\ UNCHANGED wins
        \/ /\ \A v \in Windows : wins[v].role # "file_run"
           /\ wins[w].role = "none"
           /\ wins' = [wins EXCEPT ![w] = [role |-> "shell", run |-> NoRun, pane |-> "shell"]]
           /\ script' = [script EXCEPT ![r] = [pc |-> "role", win |-> w, created |-> TRUE,
                                               prev |-> NoRun, told |-> FALSE]]
  BY DEF TakeSlot
<1>6. /\ script' \in [Runs -> ScriptType]
      /\ script'[r].pc = "role" /\ script'[r].win = w /\ ~script'[r].told
      /\ \A q \in Runs : q # r => script'[q] = script[q]
  <2>1. wins[w].run \in Runs \cup {NoRun}
    BY <1>1 DEF WindowType
  <2>2. PICK n \in ScriptType : /\ script' = [script EXCEPT ![r] = n]
                                /\ n.pc = "role" /\ n.win = w /\ ~n.told
    <3> DEFINE a == [pc |-> "role", win |-> w, created |-> FALSE, prev |-> wins[w].run, told |-> FALSE]
               b == [pc |-> "role", win |-> w, created |-> TRUE, prev |-> NoRun, told |-> FALSE]
    <3>1. /\ a \in ScriptType /\ a.pc = "role" /\ a.win = w /\ ~a.told
          /\ b \in ScriptType /\ b.pc = "role" /\ b.win = w /\ ~b.told
      BY <2>1 DEF ScriptType
    <3>2. script' = [script EXCEPT ![r] = a] \/ script' = [script EXCEPT ![r] = b]
      BY <1>5
    <3> HIDE DEF a, b
    <3> QED BY <3>1, <3>2
  <2> QED BY <1>1, <2>2
<1>7. /\ wins' \in [Windows -> WindowType]
      /\ \A v \in Windows : /\ wins'[v].role = "file_run" <=> wins[v].role = "file_run"
                            /\ wins'[v].role = "file_run" => wins'[v] = wins[v]
                            /\ wins'[v].pane \in Runs => wins'[v].pane = wins[v].pane
                            /\ Told /\ Quiet /\ wins[v].role = "file_run" => v = w
  <2>1. CASE IsSlot(w) /\ UNCHANGED wins
    <3>1. ASSUME NEW v \in Windows, Quiet, wins[v].role = "file_run" PROVE v = w
      BY <2>1, <3>1 DEF IsSlot, Quiet, OneSlot
    <3> QED BY <1>1, <2>1, <3>1
  <2>2. CASE /\ \A v \in Windows : wins[v].role # "file_run"
             /\ wins' = [wins EXCEPT ![w] = [role |-> "shell", run |-> NoRun, pane |-> "shell"]]
    <3>1. [role |-> "shell", run |-> NoRun, pane |-> "shell"] \in WindowType
      BY DEF WindowType
    <3> QED BY <1>1, <2>2, <3>1, PanesAssumption
  <2> QED BY <1>5, <2>1, <2>2
<1>8. /\ src' \in [now: Nat, claimed: [Runs -> Nat], sealed: [Runs -> Nat], ran: [Runs -> Nat]]
      /\ \A q \in Runs : Sealed(q)' /\ (row[q] = "absent" => src'.sealed[q] = 0 /\ src'.ran[q] = 0)
  BY <1>1, SealsIs
<1>9. \A q \in Runs : Shows(q)' => Shows(q)
  BY <1>7 DEF Shows
<1>10. \A q \in Runs : q # r => Calmer(q)
  BY <1>3, <1>6, <1>9 DEF Calmer, Launching
<1>11. Base'
  <2>1. TypeOK'
    BY <1>1, <1>3, <1>4, <1>6, <1>7, <1>8 DEF TypeOK
  <2>2. OneActive'
    BY <1>4 DEF IInv, Base, OneActive
  <2>3. Held'
    BY <1>1, <1>4, <1>6 DEF Held
  <2>4. Unread'
    BY <1>4 DEF Unread
  <2>5. ASSUME NEW q \in Runs PROVE Known(q)' /\ Written(q)'
    <3>1. Known(q) /\ Written(q)
      BY DEF IInv, Base
    <3>2. Written(q)'
      BY <1>3, <3>1 DEF Written
    <3>3. Known(q)'
      <4>1. CASE q = r
        BY <1>1, <1>2, <1>3, <1>4, <1>6, <1>9, <4>1 DEF Known, Active
      <4>2. CASE q # r
        BY <1>3, <1>4, <1>6, <1>8, <1>9, <3>1, <4>2 DEF Known
      <4> QED BY <4>1, <4>2
    <3> QED BY <3>2, <3>3
  <2> QED BY <1>8, <2>1, <2>2, <2>3, <2>4, <2>5 DEF Base
<1>12. ASSUME Told' PROVE Quiet'
  <2>1. Told
    <3>1. \A q \in Runs : script[q].pc # "none" =>
            /\ script'[q].pc # "none"
            /\ script'[q].told => script[q].told \/ (th.pc = "wait" /\ th.run = q)
      BY <1>1, <1>6
    <3>2. th'.pc = "wait" => \/ th.pc = "wait" /\ th'.run = th.run
                            \/ script[th'.run].pc = "none"
      BY <1>1, <1>4
    <3> QED BY <1>12, <3>1, <3>2, ToldBefore
  <2>2. Quiet
    BY <2>1 DEF IInv
  <2>3. OneSlot'
    BY <1>7, <2>2 DEF Quiet, OneSlot
  <2>4. Looked(th.run)'
    BY <1>4 DEF Looked, Past
  <2>5. True(r)'
    <3>1. Outcome(r, row[r])'
      BY <1>1, <1>4 DEF Outcome, Active, Terminal
    <3>2. ~meta'[r].force
      BY <1>1
    <3>3. Placed(r)'
      <4>1. wins'[w].pane \in Runs => wrapper[wins'[w].pane].pc = "gone"
        BY <1>1, <1>5, PanesAssumption DEF PaneLive, IsSlot
      <4>2. wins'[w].pane \in Runs => wrapper'[wins'[w].pane].pc = "gone"
        BY <1>3, <4>1
      <4> QED BY <1>4, <1>6, <1>7, <2>1, <2>2, <4>2 DEF Placed
    <3>4. Bound(r)'
      BY <1>2, <1>3, <1>6, <1>9 DEF Bound, Running, Shows
    <3> QED BY <3>1, <3>2, <3>3, <3>4 DEF True
  <2>6. ASSUME NEW q \in Runs, q # r PROVE True(q)'
    <3>0. True(q) /\ Written(q) /\ Calmer(q)
      BY <1>10, <2>2, <2>6 DEF Quiet, IInv, Base
    <3>1. Outcome(q, row[q])'
      BY <1>4, <3>0, RowKept DEF True
    <3>2. meta'[q].force => Outcome(q, "stopped")'
      BY <3>0, OutcomeKept DEF True
    <3>3. Placed(q)'
      <4>1. ~Launching(q)
        BY <3>0 DEF True, Placed, NodeFree
      <4> QED BY <1>6, <2>6, <4>1 DEF Placed, Launching
    <3>4. Bound(q)'
      <4>1. row[q] \notin Active
        BY <1>1, <2>6 DEF IInv, Base, OneActive
      <4>2. Running(q)' => \E v \in Windows : BoundTo(v, q)' /\ wins'[v].pane = q
        BY <1>3, <1>7, <3>0 DEF True, Bound, Running, BoundTo
      <4> QED BY <1>4, <4>1, <4>2 DEF Bound
    <3> QED BY <3>1, <3>2, <3>3, <3>4 DEF True
  <2> QED BY <2>3, <2>4, <2>5, <2>6 DEF Quiet
<1> QED BY <1>11, <1>12 DEF IInv

-----------------------------------------------------------------------------
(* The launch.                                                              *)

\* While a launch is under way nothing else is, and the lock is held for its run or
\* for no run.
LEMMA AloneInTheSlot ==
  ASSUME IInv, Told, NEW r \in Runs, Launching(r)
  PROVE  /\ row[r] \in Active /\ ~meta[r].force /\ wrapper[r].pc = "none" /\ ~Shows(r)
         /\ \A q \in Runs : ~Running(q)
         /\ \A q \in Runs : q # r => row[q] \notin Active /\ ~Launching(q)
         /\ th.pc \notin Past /\ ~(th.sent /\ th.op = "kill")
<1>1. /\ Quiet /\ OneActive /\ Held /\ True(r) /\ Known(r)
      /\ row[r] \in Active /\ wrapper[r].pc = "none" /\ ~Shows(r)
  BY LaunchingIsActive DEF IInv, Base, Quiet
<1>2. ~Outcome(r, "stopped")
  BY DEF Outcome, Terminal
<1>3. ~meta[r].force
  BY <1>1, <1>2 DEF True
<1>4. ASSUME NEW q \in Runs PROVE ~Running(q)
  <2> SUFFICES ASSUME Running(q) PROVE FALSE
    OBVIOUS
  <2>1. PICK w \in Windows : BoundTo(w, q) /\ wins[w].pane = q
    BY <1>1 DEF Quiet, True, Bound
  <2>2. w = script[r].win
    BY <1>1, <2>1 DEF True, Placed, BoundTo
  <2>3. wrapper[q].pc = "gone"
    BY <1>1, <2>1, <2>2 DEF True, Placed
  <2> QED BY <2>3 DEF Running
<1>5. ASSUME NEW q \in Runs, q # r PROVE row[q] \notin Active /\ ~Launching(q)
  BY <1>1, <1>5, LaunchingIsActive DEF OneActive
<1>6. th.pc \notin Past /\ ~(th.sent /\ th.op = "kill")
  <2>1. CASE th.pc = "idle"
    BY <1>1, <2>1, IdleIs DEF Held, Past
  <2>2. CASE th.pc # "idle"
    <3>1. th.run = r
      BY <1>1, <2>2 DEF Held, OneActive
    <3>2. Looked(r)
      BY <1>1, <3>1 DEF Quiet
    <3> QED BY <1>2, <3>2 DEF Looked
  <2> QED BY <2>1, <2>2
<1> QED BY <1>1, <1>3, <1>4, <1>5, <1>6

\* A launch takes a step and has not respawned the pane.
LEMMA LaunchMoves ==
  ASSUME IInv, NEW r \in Runs, Launching(r),
         UNCHANGED <<backend, observer, hist, src, row, th, wrapper, meta, left>>, TypeOK',
         \A q \in Runs : q # r => script'[q] = script[q],
         script'[r].pc \notin {"none", "ok"}, script'[r].told = script[r].told,
         \A v \in Windows : /\ wins'[v].pane \in Runs => wins'[v].pane = wins[v].pane,
         Told /\ Quiet => OneSlot' /\ Placed(r)'
  PROVE  IInv'
<1>1. Known(r) /\ ~script[r].told /\ script[r].pc \notin {"none", "ok"}
  BY DEF IInv, Base, Known, Launching
<1>2. \A q \in Runs : Shows(q)' => Shows(q)
  BY DEF Shows
<1>3. Base'
  <2>1. OneActive' /\ Unread'
    <3>1. OneActive'
      BY DEF IInv, Base, OneActive
    <3>2. Unread'
      BY DEF IInv, Base, Unread, Late
    <3> QED BY <3>1, <3>2
  <2>2. Held'
    <3>1. Held
      BY DEF IInv, Base
    <3>2. th.pc # "idle" /\ th.run # r => script'[th.run] = script[th.run]
      BY <3>1 DEF Held
    <3>3. th.pc \in {"confirm", "dispatch"} => th.run # r
      BY <1>1, <3>1 DEF Held
    <3> QED BY <1>1, <3>1, <3>2, <3>3 DEF Held
  <2>3. ASSUME NEW q \in Runs PROVE Known(q)' /\ Sealed(q)' /\ Written(q)'
    <3>1. Known(q) /\ Sealed(q) /\ Written(q)
      BY DEF IInv, Base
    <3>2. Sealed(q)' /\ Written(q)'
      BY <3>1 DEF Sealed, Written
    <3>3. Known(q)'
      <4>1. CASE q = r
        BY <1>1, <1>2, <4>1 DEF Known
      <4>2. CASE q # r
        BY <1>2, <3>1, <4>2 DEF Known
      <4> QED BY <4>1, <4>2
    <3> QED BY <3>2, <3>3
  <2> QED BY <2>1, <2>2, <2>3 DEF Base
<1>4. ASSUME Told' PROVE Quiet'
  <2>1. Told
    BY <1>1, <1>4, ToldBefore
  <2>2. /\ row[r] \in Active /\ ~meta[r].force /\ wrapper[r].pc = "none" /\ ~Shows(r)
        /\ \A q \in Runs : ~Running(q)
        /\ \A q \in Runs : q # r => row[q] \notin Active /\ ~Launching(q)
        /\ th.pc \notin Past /\ ~(th.sent /\ th.op = "kill")
    BY <2>1, AloneInTheSlot
  <2>3. Quiet
    BY <2>1 DEF IInv
  <2>4. OneSlot' /\ Placed(r)'
    BY <2>1, <2>3
  <2>5. Looked(th.run)'
    BY <2>2 DEF Looked, Past
  <2>6. True(r)'
    <3>1. Outcome(r, row[r])'
      BY <2>2 DEF Outcome, Active, Terminal
    <3>2. Bound(r)'
      BY <1>2, <2>2 DEF Bound, Running, Shows
    <3> QED BY <2>2, <2>4, <3>1, <3>2 DEF True
  <2>7. ASSUME NEW q \in Runs, q # r PROVE True(q)'
    <3>1. Calmer(q)
      BY <1>2, <2>2, <2>7 DEF Calmer, Launching
    <3>2. Outcome(q, row[q])' /\ (meta'[q].force => Outcome(q, "stopped")')
      BY <2>3, <3>1, RowKept, OutcomeKept DEF Quiet, True, IInv, Base
    <3>3. Placed(q)'
      BY <2>2, <2>7 DEF Placed, Launching
    <3>4. Bound(q)'
      BY <2>2, <2>7 DEF Bound, Running
    <3> QED BY <3>2, <3>3, <3>4 DEF True
  <2> QED BY <2>4, <2>5, <2>6, <2>7 DEF Quiet
<1> QED BY <1>3, <1>4 DEF IInv

\* The script of one launch and one window change.
LEMMA LaunchTyped ==
  ASSUME IInv, NEW r \in Runs, NEW pc \in {"identity", "respawn", "err"},
         script' = [script EXCEPT ![r].pc = pc], wins' \in [Windows -> WindowType],
         UNCHANGED <<backend, observer, hist, src, row, th, wrapper, meta, left>>
  PROVE  /\ TypeOK'
         /\ script'[r].pc = pc /\ script'[r].told = script[r].told
         /\ script'[r].win = script[r].win
         /\ \A q \in Runs : q # r => script'[q] = script[q]
<1>1. TypeOK /\ script \in [Runs -> ScriptType]
  BY DEF IInv, Base, TypeOK
<1>2. /\ script' \in [Runs -> ScriptType]
      /\ script'[r].pc = pc /\ script'[r].told = script[r].told
      /\ script'[r].win = script[r].win
      /\ \A q \in Runs : q # r => script'[q] = script[q]
  BY <1>1 DEF ScriptType
<1>3. TypeOK'
  BY <1>1, <1>2 DEF TypeOK
<1> QED BY <1>2, <1>3

\* The window gets the role.
LEMMA RoleKept ==
  ASSUME IInv, NEW r \in Runs, Role(r)
  PROVE  IInv'
<1>0. /\ script[r].pc = "role" /\ Launching(r)
      /\ UNCHANGED <<backend, observer, hist, src, row, th, wrapper, meta, left>>
      /\ wins \in [Windows -> WindowType] /\ TypeOK
  BY DEF Role, Launching, IInv, Base, TypeOK
<1> DEFINE w == script[r].win
<1>1. CASE wins[w].role = "none"
  <2>1. script' = [script EXCEPT ![r].pc = "err"] /\ UNCHANGED wins
    BY <1>1 DEF Role
  <2>2. /\ TypeOK' /\ script'[r].pc = "err" /\ script'[r].told = script[r].told
        /\ \A q \in Runs : q # r => script'[q] = script[q]
    BY <1>0, <2>1, LaunchTyped
  <2>3. Told /\ Quiet => OneSlot' /\ Placed(r)'
    BY <2>1, <2>2 DEF Quiet, OneSlot, Placed, Launching
  <2> QED BY <1>0, <2>1, <2>2, <2>3, LaunchMoves
<1>2. CASE wins[w].role # "none"
  <2>1. /\ script' = [script EXCEPT ![r].pc = "identity"]
        /\ wins' = [wins EXCEPT ![w].role = "file_run"]
    BY <1>2 DEF Role
  <2>2. /\ wins' \in [Windows -> WindowType]
        /\ \A v \in Windows : /\ wins'[v].pane = wins[v].pane
                              /\ v # w => wins'[v].role = wins[v].role
                              /\ v = w => wins'[v].role = "file_run"
    BY <1>0, <2>1 DEF WindowType
  <2>3. /\ TypeOK' /\ script'[r].pc = "identity" /\ script'[r].told = script[r].told
        /\ script'[r].win = w
        /\ \A q \in Runs : q # r => script'[q] = script[q]
    BY <1>0, <2>1, <2>2, LaunchTyped
  <2>4. ASSUME Told, Quiet PROVE OneSlot' /\ Placed(r)'
    <3>1. Placed(r)
      BY <2>4 DEF Quiet, True
    <3> QED BY <1>0, <2>2, <2>3, <3>1 DEF OneSlot, Placed, Launching
  <2> QED BY <1>0, <2>2, <2>3, <2>4, LaunchMoves
<1> QED BY <1>1, <1>2

\* The window gets the run.
LEMMA IdentityKept ==
  ASSUME IInv, NEW r \in Runs, Identity(r)
  PROVE  IInv'
<1>0. /\ script[r].pc = "identity" /\ Launching(r)
      /\ UNCHANGED <<backend, observer, hist, src, row, th, wrapper, meta, left>>
      /\ wins \in [Windows -> WindowType] /\ TypeOK
  BY DEF Identity, Launching, IInv, Base, TypeOK
<1> DEFINE w == script[r].win
<1>1. CASE wins[w].role = "none"
  <2>1. script' = [script EXCEPT ![r].pc = "err"] /\ UNCHANGED wins
    BY <1>1 DEF Identity
  <2>2. /\ TypeOK' /\ script'[r].pc = "err" /\ script'[r].told = script[r].told
        /\ \A q \in Runs : q # r => script'[q] = script[q]
    BY <1>0, <2>1, LaunchTyped
  <2>3. Told /\ Quiet => OneSlot' /\ Placed(r)'
    BY <2>1, <2>2 DEF Quiet, OneSlot, Placed, Launching
  <2> QED BY <1>0, <2>1, <2>2, <2>3, LaunchMoves
<1>2. CASE wins[w].role # "none"
  <2>1. /\ script' = [script EXCEPT ![r].pc = "respawn"]
        /\ wins' = [wins EXCEPT ![w].run = r]
    BY <1>2 DEF Identity
  <2>2. /\ wins' \in [Windows -> WindowType]
        /\ \A v \in Windows : /\ wins'[v].pane = wins[v].pane
                              /\ wins'[v].role = wins[v].role
                              /\ v = w => wins'[v].run = r
    BY <1>0, <2>1 DEF WindowType
  <2>3. /\ TypeOK' /\ script'[r].pc = "respawn" /\ script'[r].told = script[r].told
        /\ script'[r].win = w
        /\ \A q \in Runs : q # r => script'[q] = script[q]
    BY <1>0, <2>1, <2>2, LaunchTyped
  <2>4. ASSUME Told, Quiet PROVE OneSlot' /\ Placed(r)'
    <3>1. Placed(r) /\ OneSlot
      BY <2>4 DEF Quiet, True
    <3> QED BY <1>0, <2>2, <2>3, <3>1 DEF OneSlot, Placed, Launching
  <2> QED BY <1>0, <2>2, <2>3, <2>4, LaunchMoves
<1> QED BY <1>1, <1>2

\* A tmux command failed, and the window may be taken back.
LEMMA RollbackKept ==
  ASSUME IInv, NEW r \in Runs, Launching(r), NEW mine \in BOOLEAN, RolledBack(r, mine)
  PROVE  IInv'
<1>0. /\ UNCHANGED <<backend, observer, hist, src, row, th, wrapper, meta, left>>
      /\ script' = [script EXCEPT ![r].pc = "err"]
      /\ wins \in [Windows -> WindowType] /\ script[r] \in ScriptType /\ TypeOK
  BY DEF RolledBack, IInv, Base, TypeOK
<1> DEFINE w == script[r].win
<1>1. /\ wins' \in [Windows -> WindowType]
      /\ \A v \in Windows : /\ wins'[v].pane \in Runs => wins'[v].pane = wins[v].pane
                            /\ wins'[v].role = "file_run" => wins[v].role = "file_run"
  <2>1. NoWindow \in WindowType /\ NoWindow.pane \notin Runs /\ NoWindow.role = "none"
    BY PanesAssumption DEF NoWindow, WindowType
  <2>2. CASE wins' = wins
    BY <1>0, <2>2
  <2>3. CASE wins' = [wins EXCEPT ![w] = NoWindow]
    BY <1>0, <2>1, <2>3
  <2>4. CASE wins' = [wins EXCEPT ![w].run = script[r].prev]
    <3>1. \A v \in Windows : [wins[v] EXCEPT !.run = script[r].prev] \in WindowType
      BY <1>0 DEF WindowType, ScriptType
    <3>2. \A v \in Windows : /\ wins[v] \in WindowType
                              /\ wins'[v] = IF v = w THEN [wins[v] EXCEPT !.run = script[r].prev]
                                            ELSE wins[v]
      BY <1>0, <2>4
    <3>3. \A v \in Windows : wins'[v].pane = wins[v].pane /\ wins'[v].role = wins[v].role
      BY <3>2 DEF WindowType
    <3> QED BY <1>0, <2>4, <3>1, <3>3
  <2> QED BY <2>2, <2>3, <2>4 DEF RolledBack
<1>2. /\ TypeOK' /\ script'[r].pc = "err" /\ script'[r].told = script[r].told
      /\ \A q \in Runs : q # r => script'[q] = script[q]
  BY <1>0, <1>1, LaunchTyped
<1>3. Told /\ Quiet => OneSlot' /\ Placed(r)'
  BY <1>1, <1>2 DEF Quiet, OneSlot, Placed, Launching
<1> QED BY <1>0, <1>1, <1>2, <1>3, LaunchMoves

\* The program of the slot is killed, and the wrapper of the run starts in its pane.
LEMMA RespawnKept ==
  ASSUME IInv, NEW r \in Runs, Respawn(r)
  PROVE  IInv'
<1> DEFINE w == script[r].win
           p == wins[w].pane
<1>0. /\ script[r].pc = "respawn" /\ Launching(r) /\ wins[w].role # "none"
      /\ wins' = [wins EXCEPT ![w].pane = r]
      /\ wrapper' = [q \in Runs |->
             IF q = r THEN [wrapper[r] EXCEPT !.pc = "check"]
             ELSE IF q = p THEN Killed(wrapper[q]) ELSE wrapper[q]]
      /\ script' = [script EXCEPT ![r].pc = "ok"]
      /\ UNCHANGED <<backend, observer, hist, src, row, th, meta, left>>
  BY DEF Respawn, Launching
<1>1. /\ wins \in [Windows -> WindowType] /\ script \in [Runs -> ScriptType] /\ TypeOK
      /\ wrapper \in [Runs -> WrapperType] /\ Known(r) /\ Written(r)
  BY DEF IInv, Base, TypeOK
<1>2. wrapper[r].pc = "none" /\ ~Shows(r) /\ ~script[r].told
  BY <1>0, <1>1 DEF Known
<1>3. /\ script' \in [Runs -> ScriptType]
      /\ script'[r].pc = "ok" /\ script'[r].told = script[r].told /\ script'[r].win = w
      /\ \A q \in Runs : q # r => script'[q] = script[q]
  BY <1>0, <1>1 DEF ScriptType
<1>4. /\ wins' \in [Windows -> WindowType]
      /\ \A v \in Windows : /\ wins'[v].role = wins[v].role /\ wins'[v].run = wins[v].run
                            /\ v # w => wins'[v].pane = wins[v].pane
                            /\ v = w => wins'[v].pane = r
  BY <1>0, <1>1 DEF WindowType
<1>5. /\ wrapper'[r] \in WrapperType /\ wrapper'[r].pc = "check"
      /\ wrapper'[r].exit = wrapper[r].exit /\ wrapper'[r].sig = wrapper[r].sig
  <2>1. wrapper'[r] = [wrapper[r] EXCEPT !.pc = "check"]
    BY <1>0
  <2> QED BY <1>1, <2>1 DEF WrapperType
<1>6. ASSUME NEW q \in Runs, q # r
      PROVE  /\ wrapper'[q] \in WrapperType /\ Written(q)' /\ Calmer(q)
             /\ wrapper'[q].pc = "none" <=> wrapper[q].pc = "none"
             /\ Late(q) => Late(q)'
             /\ Shows(q)' => Shows(q)
  <2>1. wrapper'[q] = wrapper[q] \/ wrapper'[q] = Killed(wrapper[q])
    BY <1>0, <1>6
  <2>2. Shows(q)' => Shows(q)
    BY <1>4, <1>6 DEF Shows
  <2>3. wrapper[q] \in WrapperType /\ Written(q)
    BY DEF IInv, Base, TypeOK
  <2>4. /\ wrapper'[q] \in WrapperType /\ wrapper'[q].sig = wrapper[q].sig
        /\ wrapper[q].pc \in {"none", "gone"} => wrapper'[q] = wrapper[q]
        /\ wrapper[q].pc \notin {"none", "gone"} =>
             \/ wrapper'[q] = wrapper[q]
             \/ wrapper'[q].pc = "gone" /\ wrapper'[q].exit = "signal" /\ wrapper'[q].fresh
    BY <2>1, <2>3, KilledIs
  <2>5. Written(q)'
    BY <1>0, <2>3, <2>4 DEF Written
  <2>6. Calmer(q)
    BY <1>0, <1>3, <1>6, <2>2, <2>4 DEF Calmer, Launching
  <2> QED BY <2>2, <2>4, <2>5, <2>6 DEF Late
<1>7. Base'
  <2>1. wrapper' \in [Runs -> WrapperType]
    BY <1>0, <1>5, <1>6
  <2>2. TypeOK'
    BY <1>0, <1>1, <1>3, <1>4, <2>1 DEF TypeOK
  <2>3. OneActive'
    BY <1>0 DEF IInv, Base, OneActive
  <2>4. Held'
    <3>1. Held
      BY DEF IInv, Base
    <3>2. th.pc # "idle" /\ th.run # r => script'[th.run] = script[th.run]
      BY <1>3, <3>1 DEF Held
    <3>3. th.pc \in {"confirm", "dispatch"} => th.run # r
      BY <1>0, <3>1 DEF Held
    <3> QED BY <1>0, <1>3, <3>1, <3>2, <3>3 DEF Held
  <2>5. Unread'
    <3>1. CASE th.pc = "idle"
      BY <1>0, <3>1 DEF Unread
    <3>2. CASE th.pc # "idle" /\ th.run = r
      <4>1. meta[r].compl = "none" /\ ~meta[r].prepare
        BY <1>1, <1>2 DEF Written
      <4> QED BY <1>0, <3>2, <4>1 DEF Unread
    <3>3. CASE th.pc # "idle" /\ th.run # r
      BY <1>0, <1>6, <3>3, Holder DEF Unread, IInv, Base
    <3> QED BY <3>1, <3>2, <3>3
  <2>6. Known(r)' /\ Sealed(r)' /\ Written(r)'
    <3>1. Known(r) /\ Sealed(r) /\ Written(r) /\ wrapper[r] \in WrapperType /\ row[r] # "absent"
      BY <1>0, <1>1 DEF IInv, Base, Known
    <3>2. Known(r)'
      BY <1>0, <1>3, <1>5, <3>1 DEF Known
    <3>3. Sealed(r)'
      BY <1>0, <3>1 DEF Sealed
    <3>4. Written(r)'
      BY <1>0, <1>2, <1>5, <3>1 DEF Written
    <3> QED BY <3>2, <3>3, <3>4
  <2>7. ASSUME NEW q \in Runs, q # r PROVE Known(q)' /\ Sealed(q)' /\ Written(q)'
    <3>1. Known(q) /\ Sealed(q)
      BY DEF IInv, Base
    <3>2. Sealed(q)'
      BY <1>0, <3>1 DEF Sealed
    <3>3. Known(q)'
      BY <1>0, <1>3, <1>6, <2>7, <3>1 DEF Known
    <3> QED BY <1>6, <2>7, <3>2, <3>3
  <2> QED BY <2>2, <2>3, <2>4, <2>5, <2>6, <2>7 DEF Base
<1>8. ASSUME Told' PROVE Quiet'
  <2>1. Told
    <3>1. \A q \in Runs : script[q].pc # "none" =>
            /\ script'[q].pc # "none"
            /\ script'[q].told => script[q].told
      BY <1>3
    <3> QED BY <1>0, <1>8, <3>1, ToldBefore
  <2>2. /\ row[r] \in Active /\ ~meta[r].force
        /\ \A q \in Runs : ~Running(q)
        /\ \A q \in Runs : q # r => row[q] \notin Active /\ ~Launching(q)
        /\ th.pc \notin Past /\ ~(th.sent /\ th.op = "kill")
    BY <1>0, <2>1, AloneInTheSlot
  <2>3. Quiet /\ Placed(r)
    BY <2>1 DEF IInv, Quiet, True
  <2>4. OneSlot'
    BY <1>4, <2>3 DEF Quiet, OneSlot
  <2>5. Looked(th.run)'
    BY <1>0, <2>2 DEF Looked, Past
  <2>6. True(r)'
    <3>1. Outcome(r, row[r])'
      BY <1>0, <2>2 DEF Outcome, Active, Terminal
    <3>2. Placed(r)'
      BY <1>3 DEF Placed, Launching
    <3>3. PICK slot \in Windows : slot = w
      BY <1>0, <2>3 DEF Placed
    <3>4. /\ wins[slot].role = "file_run" /\ wins[slot].run = r
          /\ \A v \in Windows : wins[v].role = "file_run" => v = slot
      BY <1>0, <1>1, <2>3, <3>3 DEF Placed, WindowType
    <3>5. Bound(r)'
      <4>1. BoundTo(slot, r)' /\ wins'[slot].pane = r
        BY <1>4, <3>3, <3>4 DEF BoundTo
      <4>2. ASSUME NEW v \in Windows, BoundTo(v, r)' PROVE wins'[v].pane = r
        BY <1>4, <3>3, <3>4, <4>2 DEF BoundTo
      <4>3. ASSUME NEW v \in Windows, wins'[v].pane = r PROVE BoundTo(v, r)'
        <5>1. wins[v].pane # r
          BY <1>2 DEF Shows
        <5>2. v = slot
          BY <1>4, <3>3, <4>3, <5>1
        <5> QED BY <4>1, <5>2
      <4> QED BY <4>1, <4>2, <4>3 DEF Bound
    <3>6. ~meta'[r].force
      BY <1>0, <2>2
    <3> QED BY <3>1, <3>2, <3>5, <3>6 DEF True
  <2>7. ASSUME NEW q \in Runs, q # r PROVE True(q)'
    <3>1. Calmer(q) /\ True(q) /\ Written(q)
      BY <1>6, <2>3, <2>7 DEF Quiet, IInv, Base
    <3>2. Outcome(q, row[q])' /\ (meta'[q].force => Outcome(q, "stopped")')
      BY <1>0, <3>1, RowKept, OutcomeKept DEF True
    <3>3. Placed(q)'
      BY <1>3, <2>2, <2>7 DEF Placed, Launching
    <3>4. Bound(q)'
      <4>1. wrapper[q].pc \in {"none", "gone"}
        BY <2>2 DEF Running
      <4>2. wrapper'[q].pc \in {"none", "gone"}
        BY <1>0, <1>1, <2>7, <4>1, KilledIs
      <4> QED BY <1>0, <2>2, <2>7, <4>2 DEF Bound, Running
    <3> QED BY <3>2, <3>3, <3>4 DEF True
  <2> QED BY <2>4, <2>5, <2>6, <2>7 DEF Quiet
<1> QED BY <1>7, <1>8 DEF IInv

-----------------------------------------------------------------------------
(* Crashes.                                                                 *)

\* The Core starts again: nobody holds the lock, and a local launch is over.
LEMMA CrashKept ==
  ASSUME IInv, Crash
  PROVE  IInv'
<1>0. /\ th' = Idle /\ th'.pc = "idle" /\ ~th'.sent
      /\ UNCHANGED <<backend, hist, src, row, wins, wrapper, meta>> /\ observer' = TRUE
      /\ script' = [q \in Runs |-> IF backend = "local" /\ Launching(q)
                                   THEN [script[q] EXCEPT !.pc = "err"] ELSE script[q]]
  BY IdleIs DEF Crash
<1>1. TypeOK /\ script \in [Runs -> ScriptType]
  BY DEF IInv, Base, TypeOK
<1>2. left' \in Budget
  BY BudgetTyped DEF Crash, IInv, Base
<1>3. ASSUME NEW q \in Runs
      PROVE  /\ script'[q] \in ScriptType
             /\ script'[q].told = script[q].told /\ script'[q].win = script[q].win
             /\ script'[q].pc = script[q].pc \/ (Launching(q) /\ script'[q].pc = "err")
             /\ backend = "local" => ~Launching(q)'
  <2>1. CASE backend = "local" /\ Launching(q)
    <3>1. script'[q] = [script[q] EXCEPT !.pc = "err"]
      BY <1>0, <2>1
    <3> QED BY <1>1, <2>1, <3>1 DEF ScriptType, Launching
  <2>2. CASE ~(backend = "local" /\ Launching(q))
    BY <1>0, <1>1, <2>2 DEF Launching
  <2> QED BY <2>1, <2>2
<1>4. \A q \in Runs : Calmer(q)
  <2> TAKE q \in Runs
  <2>1. ~Launching(q) => ~Launching(q)'
    BY <1>3 DEF Launching
  <2> QED BY <1>0, <2>1 DEF Calmer, Shows
<1>5. Base'
  <2>1. script' \in [Runs -> ScriptType]
    BY <1>0, <1>3
  <2>2. TypeOK'
    BY <1>0, <1>1, <1>2, <2>1, IdleIs DEF TypeOK, Budget
  <2>3. OneActive' /\ Held' /\ Unread'
    BY <1>0 DEF IInv, Base, OneActive, Held, Unread
  <2>4. ASSUME NEW q \in Runs PROVE Known(q)' /\ Sealed(q)' /\ Written(q)'
    <3>1. Known(q) /\ Sealed(q) /\ Written(q)
      BY DEF IInv, Base
    <3>2. Sealed(q)' /\ Written(q)'
      BY <1>0, <3>1 DEF Sealed, Written
    <3>3. /\ script'[q].pc = "ok" <=> script[q].pc = "ok"
          /\ script'[q].pc = "none" <=> script[q].pc = "none"
          /\ script[q].told => script'[q].pc = script[q].pc
      BY <1>3, <3>1 DEF Launching, Known
    <3>4. Known(q)'
      BY <1>0, <1>3, <3>1, <3>3 DEF Known, Shows
    <3> QED BY <3>2, <3>4
  <2> QED BY <2>2, <2>3, <2>4 DEF Base
<1>6. ASSUME Told' PROVE Quiet'
  <2>1. Told
    <3>1. \A q \in Runs : script[q].pc # "none" =>
            /\ script'[q].pc # "none"
            /\ script'[q].told => script[q].told
      BY <1>3
    <3> QED BY <1>0, <1>6, <3>1, ToldBefore
  <2>2. Quiet
    BY <2>1 DEF IInv
  <2>3. OneSlot'
    BY <1>0, <2>2 DEF Quiet, OneSlot
  <2>4. Looked(th.run)'
    BY <1>0 DEF Looked, Past
  <2>5. ASSUME NEW q \in Runs PROVE True(q)'
    <3>1. True(q) /\ Written(q) /\ Calmer(q)
      BY <1>4, <2>2 DEF Quiet, IInv, Base
    <3>2. Outcome(q, row[q])' /\ (meta'[q].force => Outcome(q, "stopped")')
      BY <1>0, <3>1, RowKept, OutcomeKept DEF True
    <3>3. Placed(q)'
      <4>1. CASE ~Launching(q)'
        BY <4>1 DEF Placed
      <4>2. CASE Launching(q)'
        <5>1. script'[q].pc = script[q].pc /\ Launching(q)
          BY <1>3, <4>2 DEF Launching
        <5>2. backend = "node"
          <6>1. backend # "local"
            BY <1>3, <4>2
          <6>2. backend # "ssh"
            <7>1. ~script[q].told /\ script[q].pc # "none"
              BY <5>1 DEF Launching, IInv, Base, Known
            <7> QED BY <1>0, <1>3, <1>6, <5>1, <7>1 DEF Told
          <6> QED BY <6>1, <6>2 DEF IInv, Base, TypeOK, Backends
        <5> QED BY <1>0, <1>3, <3>1, <5>1, <5>2 DEF True, Placed
      <4> QED BY <4>1, <4>2
    <3>4. Bound(q)'
      <4>1. script'[q].pc = "ok" => script[q].pc = "ok"
        BY <1>3
      <4> QED BY <1>0, <3>1, <4>1 DEF True, Bound, Running, BoundTo
    <3> QED BY <3>2, <3>3, <3>4 DEF True
  <2> QED BY <2>3, <2>4, <2>5 DEF Quiet
<1> QED BY <1>5, <1>6 DEF IInv

\* tmux is gone with its windows and their processes.
LEMMA RebootKept ==
  ASSUME IInv, Reboot
  PROVE  IInv'
<1>0. /\ UNCHANGED <<backend, observer, hist, src, row, th, script, meta>>
      /\ wins' = [w \in Windows |-> NoWindow]
      /\ wrapper' = [q \in Runs |-> Killed(wrapper[q])]
  BY DEF Reboot
<1>1. TypeOK /\ wrapper \in [Runs -> WrapperType]
  BY DEF IInv, Base, TypeOK
<1>2. left' \in Budget
  BY BudgetTyped DEF Reboot, IInv, Base
<1>3. /\ wins' \in [Windows -> WindowType]
      /\ \A w : wins'[w].pane \notin Runs \/ w \notin Windows
      /\ \A w \in Windows : wins'[w].role = "none" /\ wins'[w].pane \notin Runs
  BY <1>0, PanesAssumption DEF NoWindow, WindowType
<1>4. \A q \in Runs : ~Shows(q)'
  BY <1>3 DEF Shows
<1>5. ASSUME NEW q \in Runs
      PROVE  /\ wrapper'[q] \in WrapperType /\ Written(q)' /\ Calmer(q)
             /\ wrapper'[q].pc = "none" <=> wrapper[q].pc = "none"
             /\ wrapper[q].pc = "gone" => wrapper'[q] = wrapper[q]
             /\ Late(q) => Late(q)'
             /\ ~Running(q)'
  <2>1. wrapper'[q] = Killed(wrapper[q])
    BY <1>0
  <2>2. /\ wrapper'[q] \in WrapperType /\ Written(q)' /\ Calmer(q)
        /\ wrapper'[q].pc = "none" <=> wrapper[q].pc = "none"
        /\ wrapper[q].pc = "gone" => wrapper'[q] = wrapper[q]
        /\ Late(q) => Late(q)'
    BY <1>0, <1>4, <2>1, StruckIs
  <2>3. ~Running(q)'
    BY <1>1, <2>1, KilledIs DEF Running
  <2> QED BY <2>2, <2>3
<1>6. Base'
  <2>1. wrapper' \in [Runs -> WrapperType]
    BY <1>0, <1>5
  <2>2. TypeOK'
    BY <1>0, <1>1, <1>2, <1>3, <2>1 DEF TypeOK, Budget
  <2>3. OneActive' /\ Held'
    BY <1>0 DEF IInv, Base, OneActive, Held
  <2>4. Unread'
    BY <1>0, <1>5, Holder DEF IInv, Base, Unread
  <2>5. ASSUME NEW q \in Runs PROVE Known(q)' /\ Sealed(q)' /\ Written(q)'
    <3>1. Known(q) /\ Sealed(q)
      BY DEF IInv, Base
    <3> QED BY <1>0, <1>4, <1>5, <3>1 DEF Known, Sealed
  <2> QED BY <2>2, <2>3, <2>4, <2>5 DEF Base
<1>7. ASSUME Told' PROVE Quiet'
  <2>1. Told
    BY <1>0, <1>7 DEF Told
  <2>2. Quiet
    BY <2>1 DEF IInv
  <2>3. OneSlot'
    BY <1>3 DEF OneSlot
  <2>4. Looked(th.run)'
    <3>1. CASE th.pc = "idle"
      BY <1>0, <3>1, IdleIs DEF Looked, Past, IInv, Base, Held
    <3>2. CASE th.pc # "idle"
      <4> PICK r \in Runs : r = th.run
        BY <3>2, Holder
      <4>1. Looked(r) /\ Calmer(r) /\ Written(r) /\ th'.run = r
        BY <1>0, <1>5, <2>2 DEF Quiet, IInv, Base
      <4>2. PICK rep : rep = th.rep
        OBVIOUS
      <4>3. th.pc = "apply" => Outcome(r, th.rep)' /\ (th.rep = "lost" => Outcome(r, "failed"))'
        BY <1>0, <4>1, <4>2, OutcomeKept, OutcomeOfReport DEF Looked
      <4>4. th.pc = "marker" \/ (th.sent /\ th.op = "kill") => Outcome(r, "stopped")'
        BY <4>1, OutcomeKept DEF Looked
      <4>5. th.pc \in Past => ~Launching(r)'
        BY <1>0, <4>1 DEF Looked, Launching
      <4>6. ~Running(r) /\ ~Launching(r) =>
               wrapper'[r].exit = wrapper[r].exit /\ meta'[r].state = meta[r].state
        BY <4>1 DEF Calmer, Running
      <4>7. th.pc = "pane" => PaneSeen(r)'
        BY <1>0, <1>3, <1>4, <1>5 DEF PaneSeen, IInv, Base, Held
      <4>8. th.pc \in {"state", "force"} /\ ~th.live => DeadSeen(r)'
        BY <1>0, <1>4, <1>5, <4>1, <4>6 DEF Looked, DeadSeen, Past
      <4>9. th.pc = "force" => th.st = meta'[r].state
        BY <1>0, <4>1 DEF Looked
      <4>10. Looked(r)'
        BY <1>0, <4>3, <4>4, <4>5, <4>7, <4>8, <4>9 DEF Looked
      <4> QED BY <4>1, <4>10
    <3> QED BY <3>1, <3>2
  <2>5. ASSUME NEW q \in Runs PROVE True(q)'
    <3>1. True(q) /\ Written(q) /\ Calmer(q)
      BY <1>5, <2>2 DEF Quiet, IInv, Base
    <3>2. Outcome(q, row[q])' /\ (meta'[q].force => Outcome(q, "stopped")')
      BY <1>0, <3>1, RowKept, OutcomeKept DEF True
    <3>3. Placed(q)'
      BY <1>0, <1>3, <3>1 DEF True, Placed, Launching
    <3>4. Bound(q)'
      BY <1>3, <1>5 DEF Bound, BoundTo
    <3> QED BY <3>2, <3>3, <3>4 DEF True
  <2> QED BY <2>3, <2>4, <2>5 DEF Quiet
<1> QED BY <1>6, <1>7 DEF IInv

-----------------------------------------------------------------------------
(* Every step, and the invariants of the specification.                     *)

\* Nothing is claimed yet.
LEMMA InitHolds ==
  ASSUME Init
  PROVE  IInv
<1> USE DEF Init
<1>1. /\ \A r \in Runs :
           /\ row[r] = "absent" /\ script[r].pc = "none" /\ ~script[r].told
           /\ wrapper[r].pc = "none" /\ wrapper[r].exit = "none"
           /\ ~meta[r].state /\ ~meta[r].prepare /\ meta[r].compl = "none" /\ ~meta[r].force
           /\ src.sealed[r] = 0 /\ src.ran[r] = 0
      /\ \A w \in Windows : wins[w].role = "none" /\ wins[w].pane = "dead"
      /\ th = Idle /\ th.pc = "idle" /\ ~th.sent
  BY IdleIs DEF NoWindow
<1>2. TypeOK
  <2>1. PICK b \in Budgets :
          /\ backend = b.backend
          /\ left = [runs |-> b.runs, losses |-> b.losses, crashes |-> b.crashes,
                     reboots |-> b.reboots, stops |-> b.stops, kills |-> b.kills,
                     edits |-> b.edits]
    OBVIOUS
  <2>2. b \in BudgetType
    BY BudgetsAssumption
  <2>3. backend \in Backends
        /\ left \in [runs: Nat, losses: Nat, crashes: Nat, reboots: Nat, stops: Nat, kills: Nat,
                     edits: Nat]
    BY <2>1, <2>2 DEF BudgetType
  <2>4. /\ [pc |-> "none", win |-> 0, created |-> FALSE, prev |-> NoRun, told |-> FALSE] \in ScriptType
        /\ [pc |-> "none", sig |-> FALSE, exit |-> "none", fresh |-> FALSE] \in WrapperType
        /\ [state |-> FALSE, prepare |-> FALSE, compl |-> "none", stop |-> FALSE,
            force |-> FALSE] \in MetaType
        /\ NoWindow \in WindowType
    BY DEF ScriptType, WrapperType, MetaType, WindowType, NoWindow
  <2>5. /\ script \in [Runs -> ScriptType] /\ wrapper \in [Runs -> WrapperType]
        /\ meta \in [Runs -> MetaType] /\ wins \in [Windows -> WindowType]
        /\ row \in [Runs -> RowStates]
    BY <2>4 DEF RowStates
  <2>6. src \in [now: Nat, claimed: [Runs -> Nat], sealed: [Runs -> Nat], ran: [Runs -> Nat]]
    OBVIOUS
  <2> QED BY <2>3, <2>5, <2>6, IdleIs DEF TypeOK
<1>3. \A r \in Runs : ~Shows(r)
  BY <1>1, PanesAssumption DEF Shows
<1>4. Base
  <2>1. OneActive
    BY <1>1 DEF OneActive, Active
  <2>2. Held /\ Unread
    BY <1>1 DEF Held, Unread
  <2>3. \A r \in Runs : Known(r) /\ Sealed(r) /\ Written(r)
    BY <1>1, <1>3 DEF Known, Sealed, Written
  <2> QED BY <1>2, <2>1, <2>2, <2>3 DEF Base
<1>5. Quiet
  <2>1. OneSlot /\ Looked(th.run)
    BY <1>1 DEF OneSlot, Looked, Past
  <2>2. ASSUME NEW r \in Runs PROVE True(r)
    BY <1>1, <1>3 DEF True, Outcome, Placed, Bound, Launching, Running, Active, Terminal
  <2> QED BY <2>1, <2>2 DEF Quiet
<1> QED BY <1>4, <1>5 DEF IInv

\* An inspection, one call at a time.
LEMMA ReadStepKept ==
  ASSUME IInv, ReadStep
  PROVE  IInv'
<1>1. Inspection
  BY DEF ReadStep, LocalRead, SshRead, NodeRead
<1> QED BY <1>1, ReadCompletionKept, ReadPrepareKept, ReadWindowsKept, ReadPaneKept, ReadStateKept,
           ReadForceKept DEF Inspection

\* A dispatch, and what it is answered.
LEMMA StartingKept ==
  ASSUME IInv, Starting
  PROVE  IInv'
<1>0. UNCHANGED left => left' \in Budget
  BY DEF IInv, Base, TypeOK, Budget
<1>1. CASE LocalDispatch
  <2>1. NodeFree /\ th.pc = "dispatch" /\ UNCHANGED src /\ WriteRequest
        /\ UNCHANGED <<backend, observer, hist, meta, left>>
    BY <1>1 DEF LocalDispatch, Dispatch, NodeFree
  <2>2. \/ TakeSlot
        \/ UNCHANGED <<wins, script>> /\ (StartError \/ (th' = Idle /\ UNCHANGED row))
    BY <1>1 DEF LocalDispatch, Dispatch
  <2> QED BY <2>1, <2>2, <1>0, TakeSlotKept, DispatchFailsKept
<1>2. CASE SshDispatch
  <2>1. NodeFree /\ th.pc = "dispatch" /\ UNCHANGED src /\ WriteRequest
        /\ UNCHANGED <<backend, observer, hist, meta, left>>
        /\ (TakeSlot \/ (UNCHANGED <<wins, script>> /\ StartError))
    BY <1>2 DEF SshDispatch, Dispatch, NodeFree
  <2> QED BY <2>1, <1>0, TakeSlotKept, DispatchFailsKept
<1>3. CASE NodeDispatch
  <2>1. th.pc = "dispatch" /\ NodeFree /\ backend = "node"
    BY <1>3 DEF NodeDispatch
  <2>2. CASE NodeSeals /\ Dispatch
    <3>1. WriteRequest /\ UNCHANGED <<backend, observer, hist, meta, left>>
          /\ (TakeSlot \/ (UNCHANGED <<wins, script>> /\ StartError))
      BY <2>2 DEF Dispatch
    <3> QED BY <2>1, <2>2, <3>1, <1>0, TakeSlotKept, DispatchFailsKept
  <2>3. CASE StartRefused /\ UNCHANGED <<backend, observer, hist, src, script, wins, wrapper, meta, left>>
    BY <2>1, <2>3, NodeRefusesKept
  <2> QED BY <1>3, <2>2, <2>3 DEF NodeDispatch
<1>4. CASE LocalStarted \/ SshStarted \/ NodeStarted
  <2>1. PICK found : Started(found) /\ (backend = "local" => found)
    BY <1>4 DEF LocalStarted, SshStarted, NodeStarted
  <2> QED BY <2>1, StartedKept
<1> QED BY <1>1, <1>2, <1>3, <1>4 DEF Starting

\* A step of the launch.
LEMMA LaunchKept ==
  ASSUME IInv, NEW r \in Runs, Launch(r)
  PROVE  IInv'
<1>1. CASE LocalRollback(r) \/ SshRollback(r) \/ NodeRollback(r)
  <2>1. Launching(r) /\ \E mine \in BOOLEAN : RolledBack(r, mine)
    BY <1>1 DEF LocalRollback, SshRollback, NodeRollback, Launching, BoundTo
  <2> QED BY <2>1, RollbackKept
<1> QED BY <1>1, RoleKept, IdentityKept, RespawnKept DEF Launch

\* Every step keeps the invariant.
LEMMA NextKeeps ==
  ASSUME IInv, [Next]_vars
  PROVE  IInv'
<1>1. CASE Operation
  <2>1. CASE LocalControl \/ SshControl \/ NodeControl
    <3>1. Control
      BY <2>1 DEF LocalControl, SshControl, NodeControl
    <3> QED BY <3>1, ControlListKept, ControlMarkKept, ControlSendKept, ControlMarkerKept DEF Control
  <2> QED BY <1>1, <2>1, ConfirmKept, StartingKept, ReadStepKept, ApplyKept DEF Operation
<1>2. CASE Fault
  BY <1>2, UnacknowledgedKept, StartBreaksKept, ReadFailsKept, ReadRaisesKept, ReadBreaksKept,
     EditKept, ControlFailsKept, CrashKept, RebootKept DEF Fault
<1>3. CASE Edit \/ UNCHANGED vars
  BY <1>3, EditKept
<1>4. ASSUME NEW r \in Runs,
             \/ Start(r) \/ Reconcile(r) \/ Observe(r) \/ Stop(r) \/ Kill(r) \/ Launch(r)
      PROVE  IInv'
  BY <1>4, StartKept, TakesLock, LaunchKept
<1>5. ASSUME NEW r \in Runs,
             \/ Wrapper(r) \/ ProgramEnds(r) \/ TypedInterrupt(r) \/ GraceExpires(r)
      PROVE  IInv'
  <2>1. CASE WrapperTrap(r)
    BY <2>1, WrapperTrapKept
  <2>2. CASE TypedInterrupt(r) \/ GraceExpires(r)
    BY <2>2, TypedInterruptKept, GraceExpiresKept
  <2>3. CASE WrapperCheck(r) \/ WrapperState(r) \/ WrapperReport(r) \/ WrapperExit(r)
             \/ ProgramEnds(r)
    BY <2>3, WrapperRecordsKept
  <2> QED BY <1>5, <2>1, <2>2, <2>3 DEF Wrapper
<1> QED BY <1>1, <1>2, <1>3, <1>4, <1>5 DEF Next

\* IInv is an invariant of the specification.
THEOREM Invariance == Spec => []IInv
BY InitHolds, NextKeeps, PTL DEF Spec

\* Every variable keeps its type.
THEOREM TypeCorrect == Spec => []TypeOK
<1>1. IInv => TypeOK
  BY DEF IInv, Base
<1> QED BY <1>1, Invariance, PTL

\* A Workspace never has two active File Runs (claim_file_run and every transition
\* of file_runs), whatever is lost and whoever crashes.
THEOREM OneActiveAlways == Spec => []OneActive
<1>1. IInv => OneActive
  BY DEF IInv, Base
<1> QED BY <1>1, Invariance, PTL

\* A run whose row says that it ended (inspect_file_run, _apply_observation,
\* start()'s recovery) does not run and is not about to be launched, unless
\* a launch over SSH is astray or the run was closed by a local start whose own look
\* failed (ReadRaises).
THEOREM EndedStaysQuiet == Spec => []EndedIsQuiet
<1>1. IInv => EndedIsQuiet
  BY DEF IInv, Quiet, True, Outcome, EndedIsQuiet, ProgramLive
<1> QED BY <1>1, Invariance, PTL

\* Reported outcomes are the real ones: what inspect_file_run concludes from records,
\* windows and exit status, read one after the other while the wrapper goes on, is
\* true of the run, now and later, unless the grace period ended during the very look.
THEOREM OutcomesAreTrue == Spec => []OutcomeTrue
<1>1. IInv => OutcomeTrue
  <2> SUFFICES ASSUME IInv, Told, NEW r \in Runs
               PROVE  /\ row[r] = "finished" =>
                           \/ meta[r].compl = "finished"
                           \/ /\ wrapper[r].exit = "code"
                              /\ meta[r].compl = "none" \/ r \in hist.hasty
                      /\ row[r] = "stopped" => meta[r].stop /\ (wrapper[r].sig \/ wrapper[r].exit # "code")
                      /\ row[r] = "failed" /\ Shows(r) /\ r \notin hist.blind \cup hist.hasty =>
                           \/ ~meta[r].state
                           \/ meta[r].compl = "none" /\ wrapper[r].exit = "signal"
                      /\ row[r] = "lost" /\ Shows(r) /\ r \notin hist.hasty =>
                           meta[r].compl = "none" /\ ~meta[r].prepare
    BY DEF OutcomeTrue
  <2>1. Outcome(r, row[r])
    BY DEF IInv, Quiet, True
  <2> QED BY <2>1 DEF Outcome
<1> QED BY <1>1, Invariance, PTL

\* What runs on a Node is the content that was claimed: _snapshot_file_run_source
\* seals it, and the wrapper runs the sealed descriptor.
THEOREM RunsTheClaim == Spec => []RunsWhatItClaimed
<1>1. IInv => RunsWhatItClaimed
  BY DEF IInv, Base, Sealed, RunsWhatItClaimed
<1> QED BY <1>1, Invariance, PTL

=============================================================================
