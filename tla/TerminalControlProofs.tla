------------------------ MODULE TerminalControlProofs ------------------------
(***************************************************************************)
(* Proofs about TerminalControl for any set of connections and sizes and   *)
(* any number of operations: its types, that ownership never outlives a    *)
(* connection, and that a new grid is bootstrapped at most once.           *)
(***************************************************************************)
EXTENDS TerminalControl, SequenceTheorems, TLAPS

-----------------------------------------------------------------------------
(* Sequences of connections *)

\* Removing one position (unregister's clients.remove) leaves a sequence that
\* still holds every other element.
LEMMA RemoveAtKeeps ==
  ASSUME NEW S, NEW s \in Seq(S), NEW i \in DOMAIN s
  PROVE  /\ RemoveAt(s, i) \in Seq(S)
         /\ \A x \in Range(s) : x # s[i] => x \in Range(RemoveAt(s, i))
<1> DEFINE a == SubSeq(s, 1, i - 1)
           b == SubSeq(s, i + 1, Len(s))
           r == a \o b
<1>1. Len(s) \in Nat /\ i \in 1 .. Len(s) /\ i \in Nat
  OBVIOUS
<1>2. /\ a \in Seq(S) /\ Len(a) = i - 1
      /\ \A j \in 1 .. i - 1 : a[j] = s[j]
  <2>1. \A j \in 1 .. i - 1 : s[j] \in S
    BY <1>1
  <2>2. 1 \in Int /\ i - 1 \in Int
    BY <1>1
  <2> QED BY <1>1, <2>1, <2>2, SubSeqProperties
<1>3. /\ b \in Seq(S) /\ Len(b) = Len(s) - i
      /\ \A j \in 1 .. Len(s) - i : b[j] = s[i + j]
  <2>1. \A j \in i + 1 .. Len(s) : s[j] \in S
    BY <1>1
  <2>2. i + 1 \in Int /\ Len(s) \in Int
    BY <1>1
  <2> QED BY <1>1, <2>1, <2>2, SubSeqProperties
<1> HIDE DEF a, b
<1>4. /\ r \in Seq(S) /\ Len(r) = Len(s) - 1
      /\ \A j \in 1 .. Len(s) - 1 : r[j] = IF j <= i - 1 THEN a[j] ELSE b[j - (i - 1)]
  <2>1. Len(a) + Len(b) = Len(s) - 1
    BY <1>1, <1>2, <1>3
  <2>2. /\ r \in Seq(S) /\ Len(r) = Len(a) + Len(b)
        /\ \A j \in 1 .. Len(a) + Len(b) :
             r[j] = IF j <= Len(a) THEN a[j] ELSE b[j - Len(a)]
    BY <1>2, <1>3, ConcatProperties, Zenon
  <2> HIDE DEF r
  <2> QED BY <1>2, <2>1, <2>2
<1> HIDE DEF r
<1>5. \A j \in 1 .. i - 1 : j \in DOMAIN r /\ r[j] = s[j]
  <2> SUFFICES ASSUME NEW j \in 1 .. i - 1 PROVE j \in DOMAIN r /\ r[j] = s[j]
    OBVIOUS
  <2>1. j \in 1 .. Len(s) - 1 /\ j <= i - 1
    BY <1>1
  <2>2. r[j] = a[j]
    BY <2>1, <1>4
  <2>3. a[j] = s[j]
    BY <1>2
  <2> QED BY <2>1, <2>2, <2>3, <1>4
<1>6. \A j \in i + 1 .. Len(s) : j - 1 \in DOMAIN r /\ r[j - 1] = s[j]
  <2> SUFFICES ASSUME NEW j \in i + 1 .. Len(s)
               PROVE  j - 1 \in DOMAIN r /\ r[j - 1] = s[j]
    OBVIOUS
  <2>1. /\ j - 1 \in 1 .. Len(s) - 1 /\ ~(j - 1 <= i - 1)
        /\ j - 1 - (i - 1) = j - i /\ j - i \in 1 .. Len(s) - i
        /\ i + (j - i) = j
    BY <1>1
  <2>2. r[j - 1] = b[j - i]
    BY <2>1, <1>4
  <2>3. b[j - i] = s[j]
    BY <2>1, <1>3
  <2> QED BY <2>1, <2>2, <2>3, <1>4
<1>7. RemoveAt(s, i) = r
  BY DEF RemoveAt, r, a, b
<1>8. ASSUME NEW x \in Range(s), x # s[i] PROVE x \in Range(r)
  <2>1. PICK j \in 1 .. Len(s) : x = s[j]
    BY <1>8, <1>1 DEF Range
  <2>2. j # i
    BY <2>1, <1>8
  <2>3. CASE j < i
    <3>1. j \in 1 .. i - 1
      BY <2>1, <2>3, <1>1
    <3> QED BY <2>1, <3>1, <1>5 DEF Range
  <2>4. CASE j > i
    <3>1. j \in i + 1 .. Len(s)
      BY <2>1, <2>4, <1>1
    <3> QED BY <2>1, <3>1, <1>6 DEF Range
  <2> QED BY <2>2, <2>3, <2>4, <1>1
<1> QED BY <1>4, <1>7, <1>8

-----------------------------------------------------------------------------
(* Types *)

\* An Append (register) holds the old elements and the new one.
LEMMA AppendKeeps ==
  ASSUME NEW S, NEW s \in Seq(S), NEW e \in S
  PROVE  /\ Append(s, e) \in Seq(S)
         /\ Range(s) \subseteq Range(Append(s, e))
         /\ e \in Range(Append(s, e))
<1> DEFINE t == Append(s, e)
<1>1. /\ t \in Seq(S) /\ Len(t) = Len(s) + 1 /\ t[Len(s) + 1] = e
      /\ \A j \in 1 .. Len(s) : t[j] = s[j]
  BY AppendProperties
<1>2. Len(s) \in Nat /\ DOMAIN s = 1 .. Len(s) /\ DOMAIN t = 1 .. Len(s) + 1
  BY <1>1
<1> HIDE DEF t
<1>3. Range(s) \subseteq Range(t)
  BY <1>1, <1>2 DEF Range
<1>4. e \in Range(t)
  BY <1>1, <1>2 DEF Range
<1> QED BY <1>1, <1>3, <1>4 DEF t

\* Every operation keeps the types.
LEMMA TypeStep == TypeOK /\ [Next]_vars => TypeOK'
<1> SUFFICES ASSUME TypeOK, [Next]_vars PROVE TypeOK'
  OBVIOUS
<1> USE DEF TypeOK, control, boot, resize, history
<1>1. ASSUME NEW c \in Clients, Register(c) PROVE TypeOK'
  <2>1. clients' \in Seq(Clients)
    BY <1>1, AppendKeeps DEF Register
  <2> QED BY <1>1, <2>1 DEF Register
<1>2. ASSUME NEW c \in Clients, ClaimControl(c) PROVE TypeOK'
  BY <1>2 DEF ClaimControl
<1>3. ASSUME NEW c \in Clients, MarkInput(c) PROVE TypeOK'
  <2>1. bootPending' \in BOOLEAN
    BY <1>3, Zenon DEF MarkInput
  <2> QED BY <1>3, <2>1 DEF MarkInput
<1>4. ASSUME NEW c \in Clients, Unregister(c) PROVE TypeOK'
  <2>1. PICK i \in DOMAIN clients : UnregisterAt(c, i)
    BY <1>4 DEF Unregister
  <2>2. Without(i) \in Seq(Clients)
    BY <2>1, RemoveAtKeeps DEF Without
  <2>3. Without(i) # <<>> => Without(i)[1] \in Clients
    BY <2>2
  <2> QED BY <2>1, <2>2, <2>3 DEF UnregisterAt
<1>5. ASSUME NEW c \in Clients \cup {NoClient}, MarkGridFresh(c) PROVE TypeOK'
  BY <1>5 DEF MarkGridFresh
<1>6. ASSUME NEW c \in Clients, NEW z \in Sizes, BeginResize(c, z) PROVE TypeOK'
  <2>1. plan' \in Plans
    BY <1>6 DEF BeginResize, Plans
  <2> QED BY <1>6, <2>1 DEF BeginResize
<1>7. CASE MarkGridExisting
  BY <1>7 DEF MarkGridExisting
<1>8. CASE ResizeApplied
  BY <1>8 DEF ResizeApplied
<1>9. CASE CommitResize
  <2>1. plan \in Plans
    BY <1>9 DEF CommitResize, PlanCurrent
  <2>2. applied' \in Resizes
    BY <1>9, <2>1 DEF CommitResize, Plans, Resizes
  <2> QED BY <1>9, <2>2 DEF CommitResize
<1>10. CASE AbortResize
  <2>1. clients # <<>> => clients[1] \in Clients
    OBVIOUS
  <2> QED BY <1>10, <2>1 DEF AbortResize
<1>11. CASE UNCHANGED vars
  BY <1>11 DEF vars
<1> QED BY <1>1, <1>2, <1>3, <1>4, <1>5, <1>6, <1>7, <1>8, <1>9, <1>10, <1>11
        DEF Next

\* Every field of TerminalControl keeps its type, for any connections and
\* sizes.
THEOREM TypeCorrect == Spec => []TypeOK
<1>1. Init => TypeOK
  <2> SUFFICES ASSUME Init PROVE TypeOK
    OBVIOUS
  <2>1. /\ bootPending \in BOOLEAN /\ bootApplied \in BOOLEAN
        /\ planApplied \in BOOLEAN
    BY DEF Init
  <2> QED BY <2>1 DEF Init, TypeOK
<1> QED BY <1>1, TypeStep, PTL DEF Spec

-----------------------------------------------------------------------------
(* The bootstrap of a new grid *)

\* Every operation keeps the account of the bootstraps that may still come.
LEMMA BootstrapStep ==
  TypeOK /\ BootstrapAccounting /\ [Next]_vars => BootstrapAccounting'
<1> SUFFICES ASSUME TypeOK, BootstrapAccounting, [Next]_vars
             PROVE  BootstrapAccounting'
  OBVIOUS
<1> USE DEF TypeOK, BootstrapAccounting, UnusedBootstrap, control, boot, resize,
            history
<1>1. ASSUME NEW c \in Clients, Register(c) PROVE BootstrapAccounting'
  BY <1>1 DEF Register
<1>2. ASSUME NEW c \in Clients, ClaimControl(c) PROVE BootstrapAccounting'
  BY <1>2 DEF ClaimControl
<1>3. ASSUME NEW c \in Clients, MarkInput(c) PROVE BootstrapAccounting'
  BY <1>3 DEF MarkInput
<1>4. ASSUME NEW c \in Clients, Unregister(c) PROVE BootstrapAccounting'
  BY <1>4 DEF Unregister, UnregisterAt
<1>5. ASSUME NEW c \in Clients \cup {NoClient}, MarkGridFresh(c)
      PROVE  BootstrapAccounting'
  BY <1>5 DEF MarkGridFresh
<1>6. ASSUME NEW c \in Clients, NEW z \in Sizes, BeginResize(c, z)
      PROVE  BootstrapAccounting'
  <2>4. plan' \in Plans
    BY <1>6 DEF BeginResize, Plans
  <2>5. NoPlan \notin Plans
    BY ClientAssumption DEF Plans
  <2>1. plan = NoPlan /\ plan' # NoPlan /\ plan'.boot = (bootOwner = c)
    BY <1>6, <2>4, <2>5 DEF BeginResize
  <2>2. ~planApplied /\ ~bootApplied
    BY <2>1
  <2>3. bootOwner = c => bootPending
    BY <2>2, ClientAssumption
  <2> QED BY <1>6, <2>1, <2>2, <2>3 DEF BeginResize
<1>7. CASE MarkGridExisting
  BY <1>7 DEF MarkGridExisting
<1>8. CASE ResizeApplied
  <2>1. plan # NoPlan /\ plan' = plan /\ plan.boot \in BOOLEAN
    BY <1>8 DEF ResizeApplied, Plans
  <2>2. planApplied' = TRUE
    BY <1>8, Zenon DEF ResizeApplied
  <2>3. CASE plan.boot
    <3>1. bootPending' = FALSE /\ bootApplied' = TRUE
      BY <1>8, <2>3 DEF ResizeApplied
    <3> QED BY <1>8, <2>1, <2>2, <2>3, <3>1 DEF ResizeApplied
  <2>4. CASE ~plan.boot
    <3>1. bootPending' = bootPending /\ bootApplied' = bootApplied
      BY <1>8, <2>4 DEF ResizeApplied
    <3> QED BY <1>8, <2>1, <2>2, <2>4, <3>1 DEF ResizeApplied
  <2> QED BY <2>1, <2>3, <2>4
<1>9. CASE CommitResize
  BY <1>9 DEF CommitResize, PlanCurrent
<1>10. CASE AbortResize
  BY <1>10 DEF AbortResize
<1>11. CASE UNCHANGED vars
  BY <1>11 DEF vars
<1> QED BY <1>1, <1>2, <1>3, <1>4, <1>5, <1>6, <1>7, <1>8, <1>9, <1>10, <1>11
        DEF Next

\* A newly created grid is sized by at most one bootstrap resize, whatever plan
\* goes stale, is aborted or loses its client.
THEOREM BootstrapAtMostOnce == Spec => []BootstrapOnce
<1>1. Init => BootstrapAccounting
  BY DEF Init, BootstrapAccounting, UnusedBootstrap
<1>2. TypeOK /\ BootstrapAccounting => BootstrapOnce
  BY DEF TypeOK, BootstrapAccounting, BootstrapOnce
<1> QED BY <1>1, <1>2, TypeCorrect, BootstrapStep, PTL DEF Spec

-----------------------------------------------------------------------------
(* Ownership *)

\* Every operation leaves control, ownership and the committed size with
\* connected clients.
LEMMA OwnersStep ==
  TypeOK /\ OwnersConnected /\ [Next]_vars => OwnersConnected'
<1> SUFFICES ASSUME TypeOK, OwnersConnected, [Next]_vars
             PROVE  OwnersConnected'
  OBVIOUS
<1> USE DEF OwnersConnected, control, boot, resize, history
<1>1. ASSUME NEW c \in Clients, Register(c) PROVE OwnersConnected'
  <2>1. Connected \subseteq Connected' /\ c \in Connected'
    BY <1>1, AppendKeeps DEF Register, Connected, TypeOK
  <2> QED BY <1>1, <2>1 DEF Register
<1>2. ASSUME NEW c \in Clients, ClaimControl(c) PROVE OwnersConnected'
  <2>1. Connected' = Connected
    BY <1>2 DEF ClaimControl, Connected
  <2> QED BY <1>2, <2>1 DEF ClaimControl
<1>3. ASSUME NEW c \in Clients, MarkInput(c) PROVE OwnersConnected'
  <2>1. Connected' = Connected
    BY <1>3 DEF MarkInput, Connected
  <2> QED BY <1>3, <2>1 DEF MarkInput
<1>4. ASSUME NEW c \in Clients, Unregister(c) PROVE OwnersConnected'
  <2>1. PICK i \in DOMAIN clients : UnregisterAt(c, i)
    BY <1>4 DEF Unregister
  <2>2. /\ Without(i) \in Seq(Clients)
        /\ \A x \in Connected : x # c => x \in Connected'
    BY <2>1, RemoveAtKeeps DEF Without, UnregisterAt, Connected, TypeOK
  <2>3. Without(i) # <<>> => Without(i)[1] \in Connected'
    BY <2>1, <2>2 DEF UnregisterAt, Connected, Range
  <2> QED BY <2>1, <2>2, <2>3 DEF UnregisterAt
<1>5. ASSUME NEW c \in Clients \cup {NoClient}, MarkGridFresh(c)
      PROVE  OwnersConnected'
  <2>1. Connected' = Connected
    BY <1>5 DEF MarkGridFresh, Connected
  <2> QED BY <1>5, <2>1 DEF MarkGridFresh
<1>6. ASSUME NEW c \in Clients, NEW z \in Sizes, BeginResize(c, z)
      PROVE  OwnersConnected'
  <2>1. Connected' = Connected
    BY <1>6 DEF BeginResize, Connected
  <2> QED BY <1>6, <2>1 DEF BeginResize
<1>7. CASE MarkGridExisting
  <2>1. Connected' = Connected
    BY <1>7 DEF MarkGridExisting, Connected
  <2> QED BY <1>7, <2>1 DEF MarkGridExisting
<1>8. CASE ResizeApplied
  <2>1. Connected' = Connected
    BY <1>8 DEF ResizeApplied, Connected
  <2> QED BY <1>8, <2>1 DEF ResizeApplied
<1>9. CASE CommitResize
  <2>1. Connected' = Connected
    BY <1>9 DEF CommitResize, Connected
  <2>2. applied'.client \in Connected
    BY <1>9 DEF CommitResize, PlanCurrent
  <2> QED BY <1>9, <2>1, <2>2 DEF CommitResize
<1>10. CASE AbortResize
  <2>1. Connected' = Connected
    BY <1>10 DEF AbortResize, Connected
  <2>2. clients # <<>> => clients[1] \in Connected
    BY DEF Connected, Range, TypeOK
  <2> QED BY <1>10, <2>1, <2>2 DEF AbortResize
<1>11. CASE UNCHANGED vars
  BY <1>11 DEF vars, Connected
<1> QED BY <1>1, <1>2, <1>3, <1>4, <1>5, <1>6, <1>7, <1>8, <1>9, <1>10, <1>11
        DEF Next

\* Control, grid ownership, bootstrap ownership and the committed size never
\* outlive the connection they were given to.
THEOREM OwnersStayConnected == Spec => []OwnersConnected
<1>1. Init => OwnersConnected
  BY DEF Init, OwnersConnected
<1> QED BY <1>1, TypeCorrect, OwnersStep, PTL DEF Spec

\* Every change of the controller increases the revision browsers order
\* control messages by.
THEOREM ControlIsRevised == Spec => ControlRevised
<1>1. TypeOK /\ [Next]_vars => [controller' # controller => controlRev' > controlRev]_vars
  <2> SUFFICES ASSUME TypeOK, Next, controller' # controller
               PROVE  controlRev' > controlRev
    OBVIOUS
  <2> USE DEF control
  <2>1. controlRev \in Nat
    BY DEF TypeOK
  <2>2. ASSUME NEW c \in Clients, Register(c) PROVE controlRev' > controlRev
    BY <2>1, <2>2 DEF Register
  <2>3. ASSUME NEW c \in Clients, ClaimControl(c) PROVE controlRev' > controlRev
    BY <2>1, <2>3 DEF ClaimControl
  <2>4. ASSUME NEW c \in Clients, Unregister(c) PROVE controlRev' > controlRev
    BY <2>1, <2>4 DEF Unregister, UnregisterAt
  <2>5. ASSUME NEW c \in Clients, MarkInput(c) PROVE FALSE
    BY <2>5 DEF MarkInput
  <2>6. ASSUME NEW c \in Clients \cup {NoClient}, MarkGridFresh(c) PROVE FALSE
    BY <2>6 DEF MarkGridFresh
  <2>7. ASSUME NEW c \in Clients, NEW z \in Sizes, BeginResize(c, z) PROVE FALSE
    BY <2>7 DEF BeginResize
  <2>8. ~(MarkGridExisting \/ ResizeApplied \/ CommitResize \/ AbortResize)
    BY DEF MarkGridExisting, ResizeApplied, CommitResize, AbortResize
  <2> QED BY <2>2, <2>3, <2>4, <2>5, <2>6, <2>7, <2>8 DEF Next
<1> QED BY <1>1, TypeCorrect, PTL DEF Spec, ControlRevised

=============================================================================
