----------------------- MODULE WorkspaceWindowsProofs -----------------------
(***************************************************************************)
(* What holds of WorkspaceWindows for every number of requests and every   *)
(* history: rows have ids and windows of their own, a launch is started    *)
(* at most once, the lock is never left behind and, as long as no launch   *)
(* was given up that may still go on, the slot and the file have one       *)
(* window each and a running command is left alone.                        *)
(*                                                                         *)
(* The listing of windows and its way into the rows are recursive          *)
(* functions; what they compute is proved from the least element of a set  *)
(* of numbers.  The rest is one inductive invariant, IInv, and one lemma   *)
(* per action.                                                             *)
(***************************************************************************)
EXTENDS WorkspaceWindows, SequenceTheorems, FiniteSetTheorems, WellFoundedInduction, TLAPS

\* A set of numbers has a least one: the library's well-foundedness of <, without an
\* operator for a parameter.
LEMMA LeastNumber ==
  ASSUME NEW T \in SUBSET Nat, T # {}
  PROVE  \E n \in T : \A m \in T : n <= m
<1>1. PICK R : R = OpToRel(<, Nat)
  OBVIOUS
<1>2. IsWellFoundedOn(R, Nat)
  BY <1>1, NatLessThanWellFounded, Zenon
<1>3. ASSUME NEW m \in Nat, NEW n \in Nat, m < n PROVE <<m, n>> \in R
  BY <1>1, <1>3 DEF OpToRel
<1>4. PICK x \in T : \A y \in T : ~ (<<y, x>> \in R)
  BY <1>2, WFMin
<1>5. ASSUME NEW y \in T PROVE x <= y
  <2>1. x \in Nat /\ y \in Nat
    OBVIOUS
  <2>2. ~(y < x)
     BY <2>1, <1>3, <1>4
  <2> QED BY <2>1, <2>2
<1> QED BY <1>5

\* A set that holds 0 and, with every number below n, its successor, reaches n.
LEMMA CountingUp ==
  ASSUME NEW n \in Nat, NEW S, 0 \in S, \A i \in 0 .. n : i < n /\ i \in S => i + 1 \in S
  PROVE  \A i \in 0 .. n : i \in S
<1> SUFFICES ASSUME NEW k \in 0 .. n, k \notin S PROVE FALSE
  OBVIOUS
<1> DEFINE T == {i \in 0 .. n : i \notin S}
<1>1. T \in SUBSET Nat /\ T # {}
  OBVIOUS
<1>2. PICK m \in T : \A i \in T : m <= i
  BY <1>1, LeastNumber
<1>3. m # 0 /\ m - 1 \in 0 .. n /\ m - 1 \notin T
  BY <1>2
<1> QED BY <1>2, <1>3

\* f starts with c and takes the steps of G.
Recursion(f, n, T, c, G) ==
  f \in [0 .. n -> T] /\ f[0] = c /\ \A i \in 1 .. n : f[i] = G[i][f[i - 1]]

\* A function may be defined by recursion on 0 .. n.
LEMMA RecursionDefines ==
  ASSUME NEW n \in Nat, NEW T, NEW c \in T, NEW G \in [1 .. n -> [T -> T]]
  PROVE  \E f : Recursion(f, n, T, c, G)
<1> DEFINE Fits(f, k) == f \in [0 .. k -> T] /\ f[0] = c
                         /\ \A i \in 1 .. k : f[i] = G[i][f[i - 1]]
           S == {k \in 0 .. n : \E f : Fits(f, k)}
<1>1. 0 \in S
  <2>1. Fits([i \in 0 .. 0 |-> c], 0)
    OBVIOUS
  <2> HIDE DEF Fits
  <2> QED BY <2>1
<1>2. ASSUME NEW k \in 0 .. n, k < n, k \in S PROVE k + 1 \in S
  <2>1. PICK f : Fits(f, k)
    BY <1>2
  <2> DEFINE g == [i \in 0 .. k + 1 |-> IF i <= k THEN f[i] ELSE G[k + 1][f[k]]]
  <2>2. g \in [0 .. k + 1 -> T]
    BY <1>2, <2>1
  <2>3. g[0] = c
    BY <2>1
  <2>4. ASSUME NEW i \in 1 .. k + 1 PROVE g[i] = G[i][g[i - 1]]
    <3>1. CASE i <= k
      BY <2>1, <3>1
    <3>2. CASE i = k + 1
      BY <2>1, <3>2
    <3> QED BY <3>1, <3>2
  <2>5. Fits(g, k + 1)
    BY <2>2, <2>3, <2>4
  <2> HIDE DEF Fits, g
  <2> QED BY <1>2, <2>5
<1>3. n \in S
  <2> HIDE DEF S
  <2>1. \A i \in 0 .. n : i < n /\ i \in S => i + 1 \in S
    BY <1>2
  <2>2. \A i \in 0 .. n : i \in S
    BY <1>1, <2>1, CountingUp
  <2> QED BY <2>2
<1>4. PICK f : Fits(f, n)
  BY <1>3
<1> QED BY <1>4 DEF Recursion

\* list-windows, by recursion over the indexes: every window that is at an index once.
LEMMA ListingIsFiltered ==
  ASSUME at \in Seq(Nat), \A i, j \in 1 .. Len(at) : at[i] = at[j] /\ at[i] # 0 => i = j
  PROVE  /\ Listing \in Seq(Nat)
         /\ \A k \in 1 .. Len(Listing) : Listing[k] # 0 /\ \E i \in 1 .. Len(at) : at[i] = Listing[k]
         /\ \A k, m \in 1 .. Len(Listing) : Listing[k] = Listing[m] => k = m
<1> DEFINE n == Len(at)
           Body(f) == [i \in 0 .. n |-> IF i = 0 THEN << >>
                        ELSE IF at[i] = 0 THEN f[i - 1] ELSE Append(f[i - 1], at[i])]
           F == CHOOSE f : f = Body(f)
<1>0. n \in Nat /\ \A i \in 1 .. n : at[i] \in Nat
  OBVIOUS
<1>1. Listing = F[n]
  BY DEF Listing
<1>2. \E f : f = Body(f)
  <2> DEFINE G == [i \in 1 .. n |-> [s \in Seq(Nat) |-> IF at[i] = 0 THEN s ELSE Append(s, at[i])]]
  <2> HIDE DEF n
  <2>1. G \in [1 .. n -> [Seq(Nat) -> Seq(Nat)]]
    BY <1>0
  <2>2. << >> \in Seq(Nat)
    OBVIOUS
  <2>3. PICK f \in [0 .. n -> Seq(Nat)] :
          f[0] = << >> /\ \A i \in 1 .. n : f[i] = G[i][f[i - 1]]
    <3> DEFINE T == Seq(Nat)  c == << >>
    <3>1. c \in T /\ G \in [1 .. n -> [T -> T]]
      BY <2>1, <2>2
    <3> HIDE DEF G, T, c
    <3>2. \E f : Recursion(f, n, T, c, G)
      BY <1>0, <3>1, RecursionDefines
    <3> QED BY <3>2 DEF T, c, Recursion
  <2>4. ASSUME NEW i \in 0 .. n
        PROVE  f[i] = IF i = 0 THEN << >>
                        ELSE IF at[i] = 0 THEN f[i - 1] ELSE Append(f[i - 1], at[i])
    <3>2. i # 0 => i \in 1 .. n /\ i - 1 \in 0 .. n /\ f[i - 1] \in Seq(Nat)
      BY <1>0
    <3>1. f[i] = IF i = 0 THEN << >> ELSE G[i][f[i - 1]]
      <4> HIDE DEF G
      <4> QED BY <2>3, <3>2
    <3>3. i # 0 => G[i][f[i - 1]] = IF at[i] = 0 THEN f[i - 1] ELSE Append(f[i - 1], at[i])
      BY <3>2
    <3> HIDE DEF G
    <3> QED BY <3>1, <3>3
  <2>5. f = Body(f)
    BY <2>3, <2>4
  <2> QED BY <2>5
<1>3. F = Body(F)
  <2> HIDE DEF Body
  <2> QED BY <1>2, Zenon
<1> HIDE DEF F
<1>4. F[0] = << >> /\ \A i \in 1 .. n : F[i] = IF at[i] = 0 THEN F[i - 1] ELSE Append(F[i - 1], at[i])
  <2>1. ASSUME NEW i \in 0 .. n PROVE F[i] = Body(F)[i]
    <3> HIDE DEF Body
    <3> QED BY <1>3
  <2>2. ASSUME NEW i \in 0 .. n
        PROVE  F[i] = IF i = 0 THEN << >>
                      ELSE IF at[i] = 0 THEN F[i - 1] ELSE Append(F[i - 1], at[i])
    BY <2>1, Zenon
  <2> HIDE DEF n, Body
  <2> QED BY <1>0, <2>2
<1> DEFINE Fine(s, i) == /\ s \in Seq(Nat)
                         /\ \A k \in 1 .. Len(s) : s[k] # 0 /\ \E j \in 1 .. i : at[j] = s[k]
                         /\ \A k, m \in 1 .. Len(s) : s[k] = s[m] => k = m
           S == {i \in 0 .. n : Fine(F[i], i)}
<1> HIDE DEF n
<1>5. 0 \in S
  <2>1. Fine(<< >>, 0)
    OBVIOUS
  <2> HIDE DEF Fine
  <2> QED BY <1>0, <1>4, <2>1
<1>6. ASSUME NEW i \in 0 .. n, i < n, i \in S PROVE i + 1 \in S
  <2> DEFINE s == F[i]  t == Append(s, at[i + 1])
  <2>1. s \in Seq(Nat) /\ i + 1 \in 1 .. n /\ (i + 1) - 1 = i
    BY <1>0, <1>6
  <2>0. Fine(s, i)
    BY <1>6
  <2> HIDE DEF s
  <2>2. CASE at[i + 1] = 0
    <3>1. F[i + 1] = s
      BY <2>1, <2>2, <1>4 DEF s
    <3>2. Fine(s, i + 1)
      BY <1>0, <2>0
    <3> QED BY <2>1, <3>1, <3>2
  <2>3. CASE at[i + 1] # 0
    <3>1. F[i + 1] = t
      BY <2>1, <2>3, <1>4 DEF s
    <3>2. t \in Seq(Nat) /\ Len(t) = Len(s) + 1 /\ t[Len(s) + 1] = at[i + 1]
          /\ \A k \in 1 .. Len(s) : t[k] = s[k]
      BY <1>0, <2>1, AppendProperties
    <3> HIDE DEF t
    <3>3. ASSUME NEW k \in 1 .. Len(t) PROVE t[k] # 0 /\ \E j \in 1 .. i + 1 : at[j] = t[k]
      <4>1. CASE k = Len(s) + 1
        BY <1>0, <3>2, <2>1, <2>3, <4>1
      <4>2. CASE k # Len(s) + 1
        <5>1. k \in 1 .. Len(s) /\ t[k] = s[k]
          BY <3>2, <2>1, <4>2
        <5>2. s[k] # 0 /\ \E j \in 1 .. i : at[j] = s[k]
          BY <5>1, <2>0
        <5> QED BY <5>1, <5>2, <1>0
      <4> QED BY <4>1, <4>2
    <3>4. \A k \in 1 .. Len(s) : s[k] # at[i + 1]
      <4> SUFFICES ASSUME NEW k \in 1 .. Len(s), s[k] = at[i + 1] PROVE FALSE
        OBVIOUS
      <4>1. PICK j \in 1 .. i : at[j] = s[k]
        BY <2>0
      <4>2. j \in 1 .. n /\ i + 1 \in 1 .. n /\ j # i + 1
        BY <1>0, <2>1
      <4> QED BY <4>1, <4>2, <2>3 DEF n
    <3>5. \A k, m \in 1 .. Len(t) : t[k] = t[m] => k = m
      <4> SUFFICES ASSUME NEW k \in 1 .. Len(t), NEW m \in 1 .. Len(t), t[k] = t[m]
                   PROVE  k = m
        OBVIOUS
      <4>1. Len(s) \in Nat /\ k \in 1 .. Len(s) + 1 /\ m \in 1 .. Len(s) + 1
        BY <2>1, <3>2
      <4>2. CASE k \in 1 .. Len(s) /\ m \in 1 .. Len(s)
        BY <2>0, <3>2, <4>2
      <4>3. CASE k \in 1 .. Len(s) /\ m = Len(s) + 1
        BY <3>2, <3>4, <4>3
      <4>4. CASE m \in 1 .. Len(s) /\ k = Len(s) + 1
        BY <3>2, <3>4, <4>4
      <4>5. CASE m = Len(s) + 1 /\ k = Len(s) + 1
        BY <4>5
      <4>6. (k \in 1 .. Len(s) \/ k = Len(s) + 1) /\ (m \in 1 .. Len(s) \/ m = Len(s) + 1)
        BY <4>1
      <4> QED BY <4>2, <4>3, <4>4, <4>5, <4>6
    <3>6. Fine(t, i + 1)
      BY <3>2, <3>3, <3>5
    <3> QED BY <2>1, <3>1, <3>6
  <2> QED BY <2>2, <2>3
<1>7. n \in S
  <2> HIDE DEF S
  <2>1. \A i \in 0 .. n : i < n /\ i \in S => i + 1 \in S
    BY <1>6
  <2>2. \A i \in 0 .. n : i \in S
    BY <1>0, <1>5, <2>1, CountingUp
  <2> QED BY <1>0, <2>2
<1>8. Fine(Listing, n)
  BY <1>1, <1>7
<1> QED BY <1>8 DEF n

\* Every row has an id and a window of its own.
Distinct(R) == \A r, s \in R : r.win = s.win \/ r.id = s.id => r = s

\* What reconcile_terminals makes of the rows.
LEMMA AssignedRows ==
  ASSUME NEW seen \in Seq(Nat), Distinct(rows), \A r \in rows : r.id \in Nat,
         \A k, m \in 1 .. Len(seen) : seen[k] = seen[m] => k = m
  PROVE  /\ Distinct(Assigned(seen))
         /\ \A g \in Assigned(seen) : \E r \in rows : g.id = r.id
         /\ \A g \in Assigned(seen) : \E k \in 1 .. Len(seen) : g.win = seen[k]
<1> DEFINE n == Len(seen)
           Free(R) == {r \in rows : \A g \in R : g.id # r.id}
           Add(i, R) == {[id |-> r.id, win |-> seen[i], name |-> wins[seen[i]].name] :
                           r \in RowFor(seen[i], Free(R))}
           Body(f) == [i \in 0 .. n |-> IF i = 0 THEN {} ELSE f[i - 1] \cup Add(i, f[i - 1])]
           F == CHOOSE f : f = Body(f)
<1>0. n \in Nat
  OBVIOUS
<1>1. Assigned(seen) = F[n]
  BY DEF Assigned
<1>2. ASSUME NEW i, NEW R
      PROVE  \A r, s \in RowFor(seen[i], Free(R)) : r \in Free(R) /\ r.id = s.id
  BY DEF RowFor, Oldest, Distinct
<1>3. ASSUME NEW i, NEW R
      PROVE  /\ \A a \in Add(i, R) : /\ a.win = seen[i]
                                    /\ \E r \in rows : a.id = r.id
                                    /\ \A g \in R : g.id # a.id
             /\ \A a, b \in Add(i, R) : a = b
  <2>1. ASSUME NEW a \in Add(i, R)
        PROVE  /\ a.win = seen[i]
               /\ \E r \in rows : a.id = r.id
               /\ \A g \in R : g.id # a.id
    <3>1. PICK r \in RowFor(seen[i], Free(R)) :
             a = [id |-> r.id, win |-> seen[i], name |-> wins[seen[i]].name]
      OBVIOUS
    <3>2. r \in Free(R)
      <4> HIDE DEF Free, Add
      <4> QED BY <1>2
    <3> QED BY <3>1, <3>2
  <2>2. ASSUME NEW a \in Add(i, R), NEW b \in Add(i, R) PROVE a = b
    <3>1. PICK r \in RowFor(seen[i], Free(R)) :
             a = [id |-> r.id, win |-> seen[i], name |-> wins[seen[i]].name]
      OBVIOUS
    <3>2. PICK s \in RowFor(seen[i], Free(R)) :
             b = [id |-> s.id, win |-> seen[i], name |-> wins[seen[i]].name]
      OBVIOUS
    <3>3. r.id = s.id
      <4> HIDE DEF Free, Add
      <4> QED BY <1>2
    <3> QED BY <3>1, <3>2, <3>3
  <2> QED BY <2>1, <2>2
<1> DEFINE RowSpace == {[id |-> r.id, win |-> seen[i], name |-> wins[seen[i]].name] :
                          r \in rows, i \in 1 .. n}
           T == SUBSET RowSpace
           G == [i \in 1 .. n |-> [R \in T |-> R \cup Add(i, R)]]
<1>10. ASSUME NEW i \in 1 .. n, NEW R \in T PROVE Add(i, R) \in T
  <2>1. ASSUME NEW a \in Add(i, R) PROVE a \in RowSpace
    <3> HIDE DEF T
    <3>1. PICK r \in RowFor(seen[i], Free(R)) :
             a = [id |-> r.id, win |-> seen[i], name |-> wins[seen[i]].name]
      OBVIOUS
    <3>2. r \in Free(R)
      <4> HIDE DEF Free, Add
      <4> QED BY <1>2
    <3> QED BY <3>1, <3>2
  <2> HIDE DEF Add, RowSpace
  <2> QED BY <2>1
<1> HIDE DEF Add, Free, RowSpace
<1>11. \E f : f = Body(f)
  <2>1. {} \in T /\ G \in [1 .. n -> [T -> T]]
    BY <1>10
  <2>2. PICK f : Recursion(f, n, T, {}, G)
    <3> HIDE DEF G, T, n
    <3> QED BY <1>0, <2>1, RecursionDefines
  <2>3. f \in [0 .. n -> T] /\ f[0] = {} /\ \A i \in 1 .. n : f[i] = G[i][f[i - 1]]
    BY <2>2 DEF Recursion
  <2>4. ASSUME NEW i \in 0 .. n
        PROVE  f[i] = IF i = 0 THEN {} ELSE f[i - 1] \cup Add(i, f[i - 1])
    <3>1. CASE i = 0
      BY <2>3, <3>1
    <3>2. CASE i # 0
      <4>1. i \in 1 .. n /\ i - 1 \in 0 .. n /\ f[i - 1] \in T
        <5> HIDE DEF G, T, n
        <5> QED BY <1>0, <2>3, <3>2
      <4>2. G[i][f[i - 1]] = f[i - 1] \cup Add(i, f[i - 1])
        <5> HIDE DEF T
        <5> QED BY <4>1
      <4> HIDE DEF G
      <4> QED BY <2>3, <3>2, <4>1, <4>2
    <3> QED BY <3>1, <3>2
  <2>5. f = Body(f)
    <3> HIDE DEF G, T, n
    <3> QED BY <2>3, <2>4
  <2> QED BY <2>5
<1>4. F = Body(F)
  <2> HIDE DEF Body
  <2> QED BY <1>11, Zenon
<1> HIDE DEF F
<1>5. F[0] = {} /\ \A i \in 1 .. n : F[i] = F[i - 1] \cup Add(i, F[i - 1])
  <2>1. ASSUME NEW i \in 0 .. n PROVE F[i] = Body(F)[i]
    <3> HIDE DEF Body
    <3> QED BY <1>4
  <2>2. ASSUME NEW i \in 0 .. n
        PROVE  F[i] = IF i = 0 THEN {} ELSE F[i - 1] \cup Add(i, F[i - 1])
    BY <2>1, Zenon
  <2>3. 0 \in 0 .. n /\ \A i \in 1 .. n : i \in 0 .. n /\ i # 0
    BY <1>0
  <2> HIDE DEF n, Body
  <2>4. F[0] = {}
    BY <2>2, <2>3
  <2>5. ASSUME NEW i \in 1 .. n PROVE F[i] = F[i - 1] \cup Add(i, F[i - 1])
    BY <2>2, <2>3
  <2> QED BY <2>4, <2>5
<1> DEFINE Fine(R, i) == /\ Distinct(R)
                         /\ \A g \in R : \E r \in rows : g.id = r.id
                         /\ \A g \in R : \E k \in 1 .. i : g.win = seen[k]
           S == {i \in 0 .. n : Fine(F[i], i)}
<1> HIDE DEF n
<1>6. 0 \in S
  <2>1. Fine(F[0], 0)
    BY <1>5 DEF Distinct
  <2> HIDE DEF Fine
  <2> QED BY <1>0, <2>1
<1>7. ASSUME NEW i \in 0 .. n, i < n, i \in S PROVE i + 1 \in S
  <2> DEFINE R == F[i]  A == Add(i + 1, R)
  <2>1. i + 1 \in 1 .. n /\ (i + 1) - 1 = i
    BY <1>0, <1>7
  <2>2. Fine(R, i)
    BY <1>7
  <2>3. F[i + 1] = R \cup A
    BY <1>5, <2>1
  <2>4. \A a \in A : /\ a.win = seen[i + 1]
                     /\ \E r \in rows : a.id = r.id
                     /\ \A g \in R : g.id # a.id
    BY <1>3
  <2>5. \A a, b \in A : a = b
    BY <1>3
  <2> HIDE DEF R, A
  <2>6. \A g \in R : g.win # seen[i + 1]
    BY <2>1, <2>2, <1>0 DEF n
  <2>7. Distinct(F[i + 1])
    BY <2>2, <2>3, <2>4, <2>5, <2>6 DEF Distinct
  <2>8. Fine(F[i + 1], i + 1)
    BY <2>1, <2>2, <2>3, <2>4, <2>7, <1>0
  <2> HIDE DEF Fine
  <2> QED BY <1>0, <2>1, <2>8
<1>8. n \in S
  <2> HIDE DEF S
  <2>1. \A i \in 0 .. n : i < n /\ i \in S => i + 1 \in S
    BY <1>7
  <2>2. \A i \in 0 .. n : i \in S
    BY <1>0, <1>6, <2>1, CountingUp
  <2> QED BY <1>0, <2>2
<1>9. Fine(Assigned(seen), n)
  BY <1>1, <1>8
<1> QED BY <1>9 DEF n

\* reconcile_terminals keeps ids and windows of rows apart.
LEMMA ReconcileKeeps ==
  ASSUME NEW seen \in Seq(Nat), \A k, m \in 1 .. Len(seen) : seen[k] = seen[m] => k = m,
         NEW n \in Nat, \A k \in 1 .. Len(seen) : seen[k] \in 1 .. n,
         ids \in Nat, Distinct(rows), \A r \in rows : r.id \in 1 .. ids, Reconcile(seen)
  PROVE  /\ ids' \in Nat /\ Distinct(rows')
         /\ \A r \in rows' : r.id \in 1 .. ids' /\ r.win \in 1 .. n
<1> DEFINE kept == Assigned(seen)
           fresh == {w \in Range(seen) : \A r \in kept : r.win # w}
           Upto(w) == {v \in fresh : v <= w}
           new == {[id |-> ids + Cardinality(Upto(w)), win |-> w, name |-> wins[w].name] :
                     w \in fresh}
<1>1. rows' = kept \cup new /\ ids' = ids + Cardinality(fresh)
  BY DEF Reconcile
<1>2. /\ Distinct(kept)
      /\ \A g \in kept : g.id \in 1 .. ids /\ g.win \in 1 .. n
  BY AssignedRows
<1>3. fresh \in SUBSET (1 .. n)
  BY DEF Range
<1>4. IsFiniteSet(fresh) /\ Cardinality(fresh) \in Nat
  <2>1. IsFiniteSet(1 .. n)
    BY FS_Interval
  <2> HIDE DEF fresh
  <2> QED BY <1>3, <2>1, FS_Subset, FS_CardinalityType
<1>5. \A g \in kept : g.win \notin fresh
  <2> HIDE DEF kept
  <2> QED OBVIOUS
<1> HIDE DEF kept, fresh
<1>6. ASSUME NEW w \in fresh
      PROVE  /\ IsFiniteSet(Upto(w)) /\ Cardinality(Upto(w)) \in Nat
             /\ Cardinality(Upto(w)) <= Cardinality(fresh) /\ Cardinality(Upto(w)) # 0
  <2>1. Upto(w) \in SUBSET fresh /\ Upto(w) # {}
    <3>1. w \in Upto(w)
      BY <1>3
    <3> QED BY <3>1
  <2> HIDE DEF Upto
  <2> QED BY <2>1, <1>4, FS_Subset, FS_CardinalityType, FS_EmptySet
<1>7. ASSUME NEW v \in fresh, NEW w \in fresh, Cardinality(Upto(v)) = Cardinality(Upto(w))
      PROVE  v = w
  <2>1. ASSUME NEW x \in fresh, NEW y \in fresh, x < y, Cardinality(Upto(x)) = Cardinality(Upto(y))
        PROVE  FALSE
    <3>0. \A z \in fresh : z \in Nat
      BY <1>3
    <3>1. Upto(x) \in SUBSET Upto(y) /\ y \in Upto(y) /\ y \notin Upto(x)
      BY <3>0, <2>1
    <3>2. IsFiniteSet(Upto(y))
      BY <1>6
    <3> HIDE DEF Upto
    <3>3. Upto(y) = Upto(x)
      BY <2>1, <3>1, <3>2, FS_Subset
    <3> QED BY <3>1, <3>3
  <2>2. v \in Nat /\ w \in Nat
    BY <1>3
  <2> HIDE DEF Upto
  <2> QED BY <1>7, <2>1, <2>2
<1>8. \A r \in new : /\ r.win \in fresh /\ r.id = ids + Cardinality(Upto(r.win))
                     /\ r = [id |-> r.id, win |-> r.win, name |-> wins[r.win].name]
  <2> HIDE DEF Upto
  <2> QED OBVIOUS
<1> HIDE DEF Upto, new
<1>9. \A r \in new : r.id \in (ids + 1) .. ids' /\ r.win \in 1 .. n
  BY <1>1, <1>3, <1>4, <1>6, <1>8
<1>10. \A r, s \in new : r.win = s.win \/ r.id = s.id => r = s
  <2> SUFFICES ASSUME NEW r \in new, NEW s \in new, r.win = s.win \/ r.id = s.id PROVE r = s
    OBVIOUS
  <2>1. r.win = s.win
    BY <1>6, <1>7, <1>8
  <2>2. r.id = s.id
    BY <2>1, <1>8
  <2> QED BY <2>1, <2>2, <1>8
<1>11. Distinct(rows')
  BY <1>1, <1>2, <1>5, <1>8, <1>9, <1>10 DEF Distinct
<1>12. \A r \in rows' : r.id \in 1 .. ids' /\ r.win \in 1 .. n
  BY <1>1, <1>2, <1>4, <1>9
<1> QED BY <1>1, <1>4, <1>11, <1>12

-----------------------------------------------------------------------------
(* The inductive invariant *)

\* The indexes of the session, the windows ever created and those that live.
Indexes == 1 .. (Cardinality(Requests) + 2)
Wins == 1 .. Len(wins)
Live(w) == wins[w].pc # "gone"

\* The wrapper has not bound its launch yet; a launch that has not begun; steps of whoever
\* launches; steps in which it waits for its window.
Launched == {"begin", "mark"}
Before == {"lock", "list1", "sync1", "look", "detach", "open", "respawn"}
Owned == {"look", "detach", "open", "respawn", "poll", "clean"}
Awaiting == {"poll", "clean"}

\* Windows that are in the slot or on their way into it, and windows that show the
\* file or are about to.
ForSlot(w) == Live(w) /\ (wins[w].slot \/ wins[w].pc \in Launched)
ForFile(w) == Live(w) /\ (wins[w].editor \/ wins[w].pc = "opening")

\* The types of the variables that are not windows or rows.
Typed ==
  /\ backend \in Backends
  /\ req \in [Requests -> RequestType]
  /\ lock \in Requests \cup {0}
  /\ claims \in [Requests -> Commands \cup {"none"}]
  /\ runs \in [Requests -> Nat]
  /\ astray \in BOOLEAN

\* A window that lives has one index.
Indexed ==
  /\ \A i, j \in Indexes : at[i] = at[j] /\ at[i] # 0 => i = j
  /\ \A w \in Wins : Live(w) <=> \E i \in Indexes : at[i] = w

\* The windows and their indexes.
Windowed ==
  /\ wins \in Seq(WindowType) /\ at \in [Indexes -> 0 .. Len(wins)] /\ Indexed

\* Requests know of windows that there were.
Shown(q) ==
  /\ \A k \in 1 .. Len(req[q].seen) : req[q].seen[k] \in Wins
  /\ \A k, m \in 1 .. Len(req[q].seen) : req[q].seen[k] = req[q].seen[m] => k = m
\* Requests at these steps work on a window.
Named(o, p) ==
  \/ p \in {"insert", "detach", "respawn", "poll", "clean"}
  \/ o = "close" /\ p # "done"
\* What a request refers to, exists or has existed.
Referred ==
  \A q \in Requests :
    /\ req[q].win \in 0 .. Len(wins)
    /\ Named(req[q].op, req[q].pc) => req[q].win # 0
    /\ Shown(q)

\* Every row has an id and a window of its own.
Rowed ==
  /\ ids \in Nat /\ Distinct(rows)
  /\ \A r \in rows : r.id \in 1 .. ids /\ r.win \in Wins

\* What the steps are steps of.
Kinds ==
  \A q \in Requests :
    /\ req[q].pc = "idle" \/ req[q].op # "none"
    /\ req[q].pc \in Owned \cup {"lock"} => Holds(q)
    /\ Holds(q) => req[q].pc \in Owned \cup {"lock", "list1", "sync1", "list2", "sync2", "done"}
    /\ req[q].pc \in {"detach", "respawn"} => req[q].op = "command"
    /\ req[q].pc \in {"check", "kill"} => req[q].op = "close"
    /\ req[q].op = "command" /\ req[q].pc # "done" => req[q].launch # 0
    /\ req[q].launch # 0 => req[q].op = "command"

\* A launch is in one place: with the request that claimed it, in one window that was
\* started with it, or among the commands that ran.
Unclaimed ==
  \A l \in Requests : claims[l] = "none" =>
    /\ runs[l] = 0
    /\ \A q \in Requests : req[q].launch # l
    /\ \A w \in Wins : wins[w].run # l
OneClaimant ==
  \A p, q \in Requests : req[p].launch # 0 /\ req[p].launch = req[q].launch => p = q
NotStarted ==
  \A q \in Requests : req[q].launch # 0 /\ req[q].pc \in Before =>
    /\ runs[req[q].launch] = 0
    /\ \A w \in Wins : wins[w].run # req[q].launch
OneStart ==
  \A v, w \in Wins : wins[v].run # 0 /\ wins[v].run = wins[w].run => v = w
NotRun ==
  \A w \in Wins : wins[w].pc \in Launched => wins[w].run # 0 /\ runs[wins[w].run] = 0
Bound ==
  \A w \in Wins : wins[w].launch # 0 => runs[wins[w].launch] = 1

Launches == /\ Unclaimed /\ OneClaimant /\ NotStarted /\ OneStart /\ NotRun /\ Bound
            /\ LaunchOnce

\* The lock belongs to a request under way; an agent's lock to a launch that has not
\* been answered.
LockHeld ==
  /\ lock # 0 => req[lock].pc \notin {"idle", "lock", "done"}
  /\ lock # 0 /\ backend = "node" => Holds(lock) /\ req[lock].pc \notin AtCore
  /\ backend = "node" => \A q \in Requests : req[q].pc = "sync1" => ~Holds(q)

\* Launches exclude each other.
Exclusive ==
  \A q \in Requests :
    Holds(q) /\ req[q].pc \in Owned \cup {"list1", "sync1", "list2"} => lock = q

\* One window for the slot: whoever is about to open another has seen to it that
\* there is none, and waits for a window until it is in the slot.
OneSlot == \A v, w \in Wins : ForSlot(v) /\ ForSlot(w) => v = w
SlotAwaited ==
  \A w \in Wins : wins[w].pc \in Launched =>
    \E q \in Requests : req[q].op = "command" /\ req[q].pc \in Awaiting /\ req[q].win = w
SlotFor(q) ==
  req[q].op = "command" =>
    /\ req[q].pc = "open" => \A w \in Wins : ~ForSlot(w)
    /\ req[q].pc \in {"detach", "respawn", "poll", "clean"} =>
         \A w \in Wins : ForSlot(w) => w = req[q].win
    /\ req[q].pc = "poll" /\ Live(req[q].win) => wins[req[q].win].run = req[q].launch
    /\ req[q].pc = "respawn" => wins[req[q].win].pc \notin Launched \cup {"command"}
SlotState ==
  \A w \in Wins : wins[w].pc = "mark" \/ (wins[w].slot /\ wins[w].pc = "command") =>
    wins[w].state = "running"

SlotGuarded == OneSlot /\ SlotAwaited /\ SlotState /\ \A q \in Requests : SlotFor(q)

\* The same for the file.
OneFile == \A v, w \in Wins : ForFile(v) /\ ForFile(w) => v = w
FileAwaited ==
  \A w \in Wins : wins[w].pc = "opening" =>
    /\ ~wins[w].editor
    /\ \E q \in Requests : req[q].op = "editor" /\ req[q].pc \in Awaiting /\ req[q].win = w
FileFor(q) ==
  req[q].op = "editor" =>
    /\ req[q].pc = "open" => \A w \in Wins : ~ForFile(w)
    /\ req[q].pc \in Awaiting => \A w \in Wins : ForFile(w) => w = req[q].win

FileGuarded == OneFile /\ FileAwaited /\ \A q \in Requests : FileFor(q)

\* The guards hold until a launch is given up that may still go on.
Guarded == ~astray => Exclusive /\ SlotGuarded /\ FileGuarded

\* The inductive invariant.
IInv == /\ Typed /\ Windowed /\ Referred /\ Rowed
        /\ Kinds /\ Launches /\ LockHeld /\ Guarded

-----------------------------------------------------------------------------
(* What steps do to the windows *)

\* A window x is added, or the window w becomes x.
Added(x) ==
  /\ Len(wins') = Len(wins) + 1 /\ wins'[Len(wins) + 1] = x
  /\ \A v \in Wins : wins'[v] = wins[v]
Changed(w, x) ==
  /\ Len(wins') = Len(wins) /\ wins'[w] = x
  /\ \A v \in Wins : v # w => wins'[v] = wins[v]

\* Only window w changes.
Kept(w) == Len(wins') = Len(wins) /\ \A v \in Wins : v # w => wins'[v] = wins[v]

\* new-window adds a window at a free index.
LEMMA OpenAdds ==
  ASSUME Windowed, NEW x \in WindowType, x.pc # "gone", Open(x)
  PROVE  Windowed' /\ Added(x)
<1> DEFINE n == Len(wins)
<1>1. /\ wins' \in Seq(WindowType) /\ Len(wins') = n + 1 /\ wins'[n + 1] = x
      /\ \A v \in 1 .. n : wins'[v] = wins[v]
  BY AppendProperties DEF Open, Windowed
<1>2. PICK i \in Indexes : at[i] = 0 /\ at' = [at EXCEPT ![i] = n + 1]
  BY DEF Open, Windowed
<1>3. n \in Nat
  BY DEF Windowed
<1>4. at' \in [Indexes -> 0 .. Len(wins')]
  BY <1>1, <1>2, <1>3 DEF Windowed
<1> HIDE DEF n
<1>5. \A j \in Indexes : at[j] \in 0 .. n
  BY DEF Windowed, n
<1>6. \A j, k \in Indexes : at'[j] = at'[k] /\ at'[j] # 0 => j = k
  BY <1>2, <1>3, <1>5 DEF Windowed, Indexed
<1>7. ASSUME NEW w \in 1 .. n + 1
      PROVE  wins'[w].pc # "gone" <=> \E j \in Indexes : at'[j] = w
  <2>1. CASE w = n + 1
    BY <2>1, <1>1, <1>2 DEF Windowed
  <2>2. CASE w # n + 1
    <3>1. w \in 1 .. n /\ w # 0
      BY <1>3, <2>2
    <3>2. (\E j \in Indexes : at'[j] = w) <=> (\E j \in Indexes : at[j] = w)
      BY <1>2, <2>2, <3>1 DEF Windowed
    <3> QED BY <1>1, <3>1, <3>2 DEF Windowed, Indexed, Live, Wins, n
  <2> QED BY <2>1, <2>2
<1>8. Indexed'
  BY <1>1, <1>6, <1>7 DEF Indexed, Live, Wins
<1> QED BY <1>1, <1>4, <1>8 DEF Windowed, Added, Wins, n

\* kill-window takes a window off its index for good.
LEMMA ShutChanges ==
  ASSUME Windowed, NEW w \in Wins, Shut(w)
  PROVE  Windowed' /\ Changed(w, [wins[w] EXCEPT !.pc = "gone"])
<1> DEFINE n == Len(wins)
           x == [wins[w] EXCEPT !.pc = "gone"]
<1>0. n \in Nat /\ w \in 1 .. n /\ wins \in Seq(WindowType)
  BY DEF Windowed, Wins
<1>1. wins[w] \in WindowType
  BY <1>0
<1>2. x \in WindowType /\ x.pc = "gone"
  BY <1>1 DEF WindowType
<1>3. wins' = [wins EXCEPT ![w] = x]
  BY DEF Shut
<1> HIDE DEF x
<1>4. /\ wins' \in Seq(WindowType) /\ Len(wins') = n /\ wins'[w] = x
      /\ \A v \in 1 .. n : v # w => wins'[v] = wins[v]
  BY <1>0, <1>2, <1>3, ExceptSeq
<1>5. at \in [Indexes -> 0 .. n]
      /\ at' = [i \in Indexes |-> IF at[i] = w THEN 0 ELSE at[i]]
  BY DEF Shut, Windowed
<1> HIDE DEF n
<1>6. at' \in [Indexes -> 0 .. Len(wins')]
  BY <1>0, <1>4, <1>5
<1>7. \A j, k \in Indexes : at'[j] = at'[k] /\ at'[j] # 0 => j = k
  BY <1>0, <1>5 DEF Windowed, Indexed
<1>8. ASSUME NEW v \in 1 .. n
      PROVE  wins'[v].pc # "gone" <=> \E j \in Indexes : at'[j] = v
  <2>1. CASE v = w
    BY <2>1, <1>0, <1>2, <1>4, <1>5
  <2>2. CASE v # w
    <3>1. (\E j \in Indexes : at'[j] = v) <=> (\E j \in Indexes : at[j] = v)
      BY <1>0, <1>5, <2>2
    <3> QED BY <1>4, <2>2, <3>1 DEF Windowed, Indexed, Live, Wins, n
  <2> QED BY <2>1, <2>2
<1>9. Indexed'
  BY <1>4, <1>7, <1>8 DEF Indexed, Live, Wins
<1> QED BY <1>4, <1>6, <1>9 DEF Windowed, Changed, Wins, n, x

\* A window's options and its process change in place.
LEMMA WindowChanges ==
  ASSUME Windowed, NEW w \in Wins, NEW x \in WindowType, x.pc = "gone" <=> ~Live(w),
         wins' = [wins EXCEPT ![w] = x], UNCHANGED at
  PROVE  Windowed' /\ Changed(w, x)
<1>0. wins \in Seq(WindowType) /\ w \in 1 .. Len(wins)
  BY DEF Windowed, Wins
<1>1. /\ wins' \in Seq(WindowType) /\ Len(wins') = Len(wins) /\ wins'[w] = x
      /\ \A v \in 1 .. Len(wins) : v # w => wins'[v] = wins[v]
  BY <1>0, ExceptSeq
<1>2. Indexed'
  BY <1>0, <1>1 DEF Windowed, Indexed, Live, Wins
<1> QED BY <1>1, <1>2 DEF Windowed, Changed, Wins

\* The listing shows every window once, and windows only.
LEMMA ListingShows ==
  ASSUME Windowed
  PROVE  /\ Listing \in Seq(Nat)
         /\ \A k \in 1 .. Len(Listing) : Listing[k] \in Wins
         /\ \A k, m \in 1 .. Len(Listing) : Listing[k] = Listing[m] => k = m
<1> DEFINE n == Cardinality(Requests) + 2
<1>1. n \in Nat /\ Indexes = 1 .. n
  BY RequestsAssumption, FS_CardinalityType DEF Indexes
<1>2. at \in [1 .. n -> 0 .. Len(wins)] /\ Len(wins) \in Nat
  BY <1>1 DEF Windowed
<1> HIDE DEF n
<1>3. at \in Seq(Nat) /\ Len(at) = n
  BY <1>1, <1>2
<1>4. \A i, j \in 1 .. Len(at) : at[i] = at[j] /\ at[i] # 0 => i = j
  BY <1>1, <1>3 DEF Windowed, Indexed
<1>5. \A k \in 1 .. Len(Listing) : Listing[k] # 0 /\ \E i \in 1 .. Len(at) : at[i] = Listing[k]
  BY <1>3, <1>4, ListingIsFiltered
<1>6. ASSUME NEW k \in 1 .. Len(Listing) PROVE Listing[k] \in Wins
  <2>1. PICK i \in 1 .. n : at[i] = Listing[k] /\ at[i] # 0
    BY <1>3, <1>5
  <2> QED BY <2>1, <1>2 DEF Wins
<1> QED BY <1>3, <1>4, <1>6, ListingIsFiltered

\* A window that is at an index lives.
LEMMA UpIsLive ==
  ASSUME Windowed, NEW w \in Nat, w # 0
  PROVE  Up(w) <=> w \in Wins /\ Live(w)
BY DEF Windowed, Indexed, Up, Range, Wins

-----------------------------------------------------------------------------
(* What steps do to the requests *)

\* Request q moves on to p; the others stay.
Moved(q, o, p, l, w) ==
  /\ req' \in [Requests -> RequestType]
  /\ req'[q].op = o /\ req'[q].pc = p /\ req'[q].launch = l /\ req'[q].win = w
  /\ \A other \in Requests : other # q => req'[other] = req[other]

\* Request q is answered and gives its lock back.
Finished(q) == /\ Moved(q, req[q].op, "done", 0, 0) /\ req'[q].seen = <<>>
               /\ lock' = IF lock = q THEN 0 ELSE lock

\* Where a request may be.
Steps == {"idle", "lock", "list1", "sync1", "look", "detach", "open", "respawn", "poll",
          "clean", "list2", "sync2", "make", "insert", "check", "kill", "drop", "done"}

\* The two ways in which a request moves.
LEMMA GoMoves ==
  ASSUME Typed, NEW q \in Requests, NEW p \in Steps, Go(q, p)
  PROVE  /\ Moved(q, req[q].op, p, req[q].launch, req[q].win)
         /\ req'[q].seen = req[q].seen
BY DEF Typed, Go, Moved, RequestType, Steps

\* A request that has arrived.
LEMMA ArrivedTyped ==
  ASSUME NEW o \in Ops \cup {"none"}
  PROVE  /\ Arrived(o) \in RequestType /\ Arrived(o).op = o /\ Arrived(o).launch = 0
         /\ Arrived(o).win = 0 /\ Arrived(o).seen = <<>>
<1>1. <<>> \in Seq(Nat)
  OBVIOUS
<1> QED BY <1>1 DEF Arrived, RequestType

\* An answer ends the request and gives its lock back.
LEMMA FinishMoves ==
  ASSUME Typed, NEW q \in Requests, Finish(q)
  PROVE  Finished(q)
<1> DEFINE A == Arrived(req[q].op)
<1>1. /\ A \in RequestType /\ A.op = req[q].op /\ A.launch = 0
      /\ A.win = 0 /\ A.seen = <<>>
  BY ArrivedTyped DEF Typed, RequestType
<1>2. req' = [req EXCEPT ![q] = [A EXCEPT !.pc = "done"]]
  BY DEF Finish
<1> HIDE DEF A
<1>3. [A EXCEPT !.pc = "done"] \in RequestType
  BY <1>1 DEF RequestType
<1>4. req' \in [Requests -> RequestType]
  BY <1>2, <1>3 DEF Typed
<1>5. Moved(q, req[q].op, "done", 0, 0) /\ req'[q].seen = <<>>
  BY <1>1, <1>2, <1>4 DEF Typed, Moved, RequestType
<1> QED BY <1>5 DEF Finish, Release, Finished

\* The references of the requests stay good.
LEMMA ReferredKept ==
  ASSUME Referred, NEW q \in Requests,
         Len(wins) \in Nat, Len(wins') \in Nat, Len(wins') >= Len(wins),
         NEW o, NEW p, NEW l, NEW w \in 0 .. Len(wins'), Moved(q, o, p, l, w),
         Named(o, p) => w # 0,
         req'[q].seen = req[q].seen \/ req'[q].seen = <<>> \/ Shown(q)'
  PROVE  Referred'
<1>1. ASSUME NEW other \in Requests, other # q
      PROVE  /\ req'[other].win \in 0 .. Len(wins')
             /\ Named(req'[other].op, req'[other].pc) => req'[other].win # 0
             /\ Shown(other)'
  BY <1>1 DEF Referred, Moved, Wins, Shown
<1>2. /\ req'[q].win \in 0 .. Len(wins')
      /\ Named(req'[q].op, req'[q].pc) => req'[q].win # 0
  BY DEF Moved
<1>3. Shown(q)'
  <2>1. CASE req'[q].seen = req[q].seen
    BY <2>1 DEF Referred, Wins, Shown
  <2>2. CASE req'[q].seen = <<>>
    <3>1. Len(req'[q].seen) = 0
      BY <2>2
    <3> QED BY <3>1 DEF Shown
  <2> QED BY <2>1, <2>2
<1> QED BY <1>1, <1>2, <1>3 DEF Referred

-----------------------------------------------------------------------------
(* Steps that start nothing *)

\* 0 stands for no request and no launch.
LEMMA ZeroApart == 0 \notin Requests
BY RequestsAssumption, FS_CardinalityType

\* Windows stay as they are, go, or come with a shell.
Calm ==
  /\ Len(wins') \in Nat /\ Len(wins') >= Len(wins)
  /\ \A v \in Wins :
       \/ wins'[v] = wins[v]
       \/ wins'[v].pc = "gone" /\ wins'[v].run = wins[v].run /\ wins'[v].launch = wins[v].launch
  /\ \A v \in Wins' : v \notin Wins =>
       /\ wins'[v].pc = "shell" /\ wins'[v].run = 0 /\ wins'[v].launch = 0
       /\ ~wins'[v].slot /\ ~wins'[v].editor

\* Request q moves on, and starts nothing.
Quiet(q, o, p, l, w) ==
  /\ Moved(q, o, p, l, w) /\ Calm /\ claims' = claims /\ runs' = runs
  /\ l \in {req[q].launch, 0} /\ (l # 0 /\ p \in Before => req[q].pc \in Before)

\* They leave the launches where they are.
LEMMA QuietLaunches ==
  ASSUME IInv, NEW q \in Requests, NEW o, NEW p, NEW l, NEW w, Quiet(q, o, p, l, w)
  PROVE  Launches'
<1>1. /\ \A other \in Requests : /\ req'[other].launch \in {req[other].launch, 0}
                                 /\ req'[other].launch # 0 /\ req'[other].pc \in Before
                                      => req[other].pc \in Before
      /\ claims' = claims /\ runs' = runs
  BY DEF Quiet, Moved
<1>2. \A v \in Wins' :
        \/ /\ v \in Wins /\ wins'[v].run = wins[v].run /\ wins'[v].launch = wins[v].launch
           /\ wins'[v].pc = wins[v].pc \/ wins'[v].pc = "gone"
        \/ wins'[v].pc = "shell" /\ wins'[v].run = 0 /\ wins'[v].launch = 0
  BY DEF Quiet, Calm
<1>3. Unclaimed'
  BY <1>1, <1>2, ZeroApart DEF IInv, Launches, Unclaimed
<1>4. OneClaimant'
  BY <1>1 DEF IInv, Launches, OneClaimant
<1>5. NotStarted'
  BY <1>1, <1>2 DEF IInv, Launches, NotStarted
<1>6. OneStart' /\ NotRun' /\ Bound' /\ LaunchOnce'
  BY <1>1, <1>2 DEF IInv, Launches, OneStart, NotRun, Bound, LaunchOnce, Launched
<1> QED BY <1>3, <1>4, <1>5, <1>6 DEF Launches

\* They leave the slot guarded, if the request that moves does.
LEMMA QuietSlot ==
  ASSUME IInv, SlotGuarded, NEW q \in Requests, NEW o, NEW p, NEW l, NEW w, Moved(q, o, p, l, w), Calm,
         req[q].op = "command" /\ req[q].pc \in Awaiting =>
           \/ o = "command" /\ p \in Awaiting /\ w = req[q].win
           \/ wins'[req[q].win].pc \notin Launched,
         SlotFor(q)'
  PROVE  SlotGuarded'
<1>1. \A v \in Wins' :
        \/ v \in Wins /\ (wins'[v] = wins[v] \/ wins'[v].pc = "gone")
        \/ wins'[v].pc = "shell" /\ ~wins'[v].slot /\ ~wins'[v].editor
  BY DEF Calm
<1>2. \A other \in Requests : other # q => req'[other] = req[other]
  BY DEF Moved
<1>3. OneSlot' /\ SlotState'
  BY <1>1 DEF SlotGuarded, OneSlot, SlotState, ForSlot, Live, Launched
<1>4. SlotAwaited'
  BY <1>1, <1>2 DEF SlotGuarded, SlotAwaited, Launched, Moved
<1>5. ASSUME NEW other \in Requests, other # q PROVE SlotFor(other)'
  <2>1. SlotFor(other) /\ req'[other] = req[other]
    BY <1>2, <1>5 DEF SlotGuarded
  <2>2. \A v \in Wins' : ForSlot(v)' => v \in Wins /\ ForSlot(v)
    BY <1>1 DEF ForSlot, Live, Launched
  <2>3. req[other].pc \in {"respawn", "poll"} =>
          req[other].win \in Wins /\ req[other].win \in Wins'
    BY DEF IInv, Referred, Named, Windowed, Wins, Calm
  <2>4. \A v \in Wins : wins'[v] = wins[v] \/ wins'[v].pc = "gone"
    BY DEF Calm
  <2> QED BY <2>1, <2>2, <2>3, <2>4 DEF SlotFor, Live, Launched
<1> QED BY <1>3, <1>4, <1>5 DEF SlotGuarded

\* They leave the file guarded, if the request that moves does.
LEMMA QuietFile ==
  ASSUME FileGuarded, NEW q \in Requests, NEW o, NEW p, NEW l, NEW w, Moved(q, o, p, l, w), Calm,
         req[q].op = "editor" /\ req[q].pc \in Awaiting =>
           \/ o = "editor" /\ p \in Awaiting /\ w = req[q].win
           \/ wins'[req[q].win].pc # "opening",
         FileFor(q)'
  PROVE  FileGuarded'
<1>1. \A v \in Wins' :
        \/ v \in Wins /\ (wins'[v] = wins[v] \/ wins'[v].pc = "gone")
        \/ wins'[v].pc = "shell" /\ ~wins'[v].slot /\ ~wins'[v].editor
  BY DEF Calm
<1>2. \A other \in Requests : other # q => req'[other] = req[other]
  BY DEF Moved
<1>3. OneFile'
  BY <1>1 DEF FileGuarded, OneFile, ForFile, Live
<1>4. FileAwaited'
  BY <1>1, <1>2 DEF FileGuarded, FileAwaited, Moved
<1>5. ASSUME NEW other \in Requests, other # q PROVE FileFor(other)'
  <2>1. FileFor(other) /\ req'[other] = req[other]
    BY <1>2, <1>5 DEF FileGuarded
  <2>2. \A v \in Wins' : ForFile(v)' => v \in Wins /\ ForFile(v)
    BY <1>1 DEF ForFile, Live
  <2> QED BY <2>1, <2>2 DEF FileFor
<1> QED BY <1>3, <1>4, <1>5 DEF FileGuarded

\* What is left to show of a step that starts nothing.
LEMMA QuietKeeps ==
  ASSUME IInv, NEW q \in Requests, NEW o, NEW p, NEW l, NEW w \in 0 .. Len(wins'),
         Quiet(q, o, p, l, w),
         req'[q].seen = req[q].seen \/ req'[q].seen = <<>> \/ Shown(q)',
         Named(o, p) => w # 0,
         Windowed', Rowed', backend' = backend, lock' \in Requests \cup {0},
         astray' \in BOOLEAN, astray => astray',
         Kinds', LockHeld',
         ~astray' =>
           /\ Exclusive' /\ SlotFor(q)' /\ FileFor(q)'
           /\ req[q].op = "command" /\ req[q].pc \in Awaiting =>
                \/ o = "command" /\ p \in Awaiting /\ w = req[q].win
                \/ wins'[req[q].win].pc \notin Launched
           /\ req[q].op = "editor" /\ req[q].pc \in Awaiting =>
                \/ o = "editor" /\ p \in Awaiting /\ w = req[q].win
                \/ wins'[req[q].win].pc # "opening"
  PROVE  IInv'
<1>1. Typed'
  BY DEF IInv, Typed, Quiet, Moved
<1>2. Referred'
  <2>1. Len(wins) \in Nat /\ Len(wins') \in Nat /\ Len(wins') >= Len(wins)
    BY DEF IInv, Windowed, Quiet, Calm
  <2> QED BY <2>1, ReferredKept DEF IInv, Quiet
<1>3. Launches'
  BY QuietLaunches
<1>4. ASSUME ~astray' PROVE SlotGuarded' /\ FileGuarded'
  <2>1. SlotGuarded /\ FileGuarded
    BY <1>4 DEF IInv, Guarded
  <2> QED BY <1>4, <2>1, QuietSlot, QuietFile DEF Quiet
<1> QED BY <1>1, <1>2, <1>3, <1>4 DEF IInv, Guarded

\* A request may end wherever it does not leave a launch behind.
LEMMA FinishKeeps ==
  ASSUME IInv, NEW q \in Requests, Finished(q), req[q].pc # "idle",
         Calm, Windowed', Rowed', UNCHANGED <<backend, claims, runs>>,
         astray' \in BOOLEAN, astray => astray',
         ~astray' =>
           /\ req[q].op = "command" /\ req[q].pc \in Awaiting => wins'[req[q].win].pc \notin Launched
           /\ req[q].op = "editor" /\ req[q].pc \in Awaiting => wins'[req[q].win].pc # "opening"
  PROVE  IInv'
<1>1. Quiet(q, req[q].op, "done", 0, 0) /\ req'[q].seen = <<>>
  BY DEF Finished, Quiet, Before
<1>2. Kinds'
  BY DEF IInv, Kinds, Finished, Moved, Holds, Owned
<1>3. LockHeld' /\ lock' \in Requests \cup {0}
  BY ZeroApart DEF IInv, LockHeld, Finished, Moved, Holds, AtCore, Typed
<1>4. astray \/ Exclusive'
  BY DEF IInv, Guarded, Exclusive, Finished, Moved, Holds, Owned
<1>5. SlotFor(q)' /\ FileFor(q)'
  BY DEF Finished, Moved, SlotFor, FileFor, Awaiting
<1>6. 0 \in 0 .. Len(wins')
  BY DEF Calm
<1> QED BY <1>1, <1>2, <1>3, <1>4, <1>5, <1>6, QuietKeeps DEF Named

\* A step that leaves tmux or the rows alone.
LEMMA SameWindows ==
  ASSUME IInv, UNCHANGED tmux
  PROVE  Calm /\ Windowed' /\ Wins' = Wins /\ Len(wins') \in Nat /\ Len(wins') = Len(wins)
BY DEF IInv, Windowed, Indexed, Wins, Live, Calm, tmux

\* The rows stay good as windows come.
LEMMA SameRows ==
  ASSUME IInv, UNCHANGED table, Len(wins') \in Nat, Len(wins') >= Len(wins)
  PROVE  Rowed'
BY DEF IInv, Rowed, Windowed, Wins, table, Distinct

-----------------------------------------------------------------------------
(* The requests arrive *)

\* A request that arrives holds nothing yet.
LEMMA ArrivalKeeps ==
  ASSUME IInv, NEW q \in Requests, req[q].pc = "idle",
         NEW o, NEW p, NEW w \in 0 .. Len(wins), Moved(q, o, p, 0, w), req'[q].seen = <<>>,
         \/ o \in {"page", "create"} /\ p = "list1"
         \/ o = "close" /\ p \in {"list1", "check"} /\ w # 0
         \/ o = "editor" /\ p = "lock"
         \/ o = "command" /\ p = "done",
         UNCHANGED <<backend, lock, tmux, table, claims, ghost>>
  PROVE  IInv'
<1>0. Calm /\ Windowed' /\ Rowed' /\ w \in 0 .. Len(wins')
  BY SameWindows, SameRows
<1>1. Quiet(q, o, p, 0, w)
  BY <1>0 DEF Quiet, ghost
<1>2. Kinds'
  BY DEF IInv, Kinds, Moved, Holds, Owned
<1>3. LockHeld' /\ lock' \in Requests \cup {0}
  BY DEF IInv, LockHeld, Moved, Holds, AtCore, Typed
<1>4. astray \/ Exclusive'
  BY DEF IInv, Guarded, Exclusive, Moved, Holds, Owned
<1>5. SlotFor(q)' /\ FileFor(q)'
  BY DEF Moved, SlotFor, FileFor, Awaiting
<1>6. astray' \in BOOLEAN /\ astray' = astray
  BY DEF IInv, Typed, ghost
<1> QED BY <1>0, <1>1, <1>2, <1>3, <1>4, <1>5, <1>6, QuietKeeps DEF Awaiting, Named

\* A page is asked for.
LEMMA PageKeeps == ASSUME IInv, NEW q \in Requests, Page(q) PROVE IInv'
<1> DEFINE A == Arrived("page")
<1>1. A \in RequestType /\ A.op = "page" /\ A.launch = 0 /\ A.win = 0 /\ A.seen = <<>>
  BY ArrivedTyped DEF Ops
<1>2. req' = [req EXCEPT ![q] = [A EXCEPT !.pc = "list1"]]
  BY DEF Page
<1> HIDE DEF A
<1>3. Moved(q, "page", "list1", 0, 0) /\ req'[q].seen = <<>>
  BY <1>1, <1>2 DEF IInv, Typed, Moved, RequestType
<1>4. 0 \in 0 .. Len(wins)
  BY DEF IInv, Windowed
<1> QED BY <1>3, <1>4, ArrivalKeeps DEF Page, Arrives

\* A terminal is asked for.
LEMMA CreateKeeps == ASSUME IInv, NEW q \in Requests, Create(q) PROVE IInv'
<1> DEFINE A == Arrived("create")
<1>1. A \in RequestType /\ A.op = "create" /\ A.launch = 0 /\ A.win = 0 /\ A.seen = <<>>
  BY ArrivedTyped DEF Ops
<1>2. req' = [req EXCEPT ![q] = [A EXCEPT !.pc = "list1"]]
  BY DEF Create
<1> HIDE DEF A
<1>3. Moved(q, "create", "list1", 0, 0) /\ req'[q].seen = <<>>
  BY <1>1, <1>2 DEF IInv, Typed, Moved, RequestType
<1>4. 0 \in 0 .. Len(wins)
  BY DEF IInv, Windowed
<1> QED BY <1>3, <1>4, ArrivalKeeps DEF Create, Arrives

\* A terminal, taken from a row there is, is to be closed.
LEMMA CloseKeeps == ASSUME IInv, NEW q \in Requests, Close(q) PROVE IInv'
<1> DEFINE A == Arrived("close")
           p == IF backend = "node" THEN "check" ELSE "list1"
<1>1. A \in RequestType /\ A.op = "close" /\ A.launch = 0 /\ A.win = 0 /\ A.seen = <<>>
  BY ArrivedTyped DEF Ops
<1>2. PICK r \in rows : req' = [req EXCEPT ![q] = [A EXCEPT !.pc = p, !.row = r.id, !.win = r.win]]
  BY DEF Close
<1>3. r.id \in Nat /\ r.win \in 0 .. Len(wins) /\ r.win \in Nat /\ r.win # 0
  BY DEF IInv, Rowed, Wins, Windowed
<1>4. p \in {"check", "list1"}
  OBVIOUS
<1> HIDE DEF A, p
<1>5. Moved(q, "close", p, 0, r.win) /\ req'[q].seen = <<>>
  BY <1>1, <1>2, <1>3, <1>4 DEF IInv, Typed, Moved, RequestType
<1> QED BY <1>3, <1>4, <1>5, ArrivalKeeps DEF Close, Arrives

\* The editor is asked for.
LEMMA EditorKeeps == ASSUME IInv, NEW q \in Requests, Editor(q) PROVE IInv'
<1> DEFINE A == Arrived("editor")
<1>1. A \in RequestType /\ A.op = "editor" /\ A.launch = 0 /\ A.win = 0 /\ A.seen = <<>>
  BY ArrivedTyped DEF Ops
<1>2. req' = [req EXCEPT ![q] = [A EXCEPT !.pc = "lock"]]
  BY DEF Editor
<1> HIDE DEF A
<1>3. Moved(q, "editor", "lock", 0, 0) /\ req'[q].seen = <<>>
  BY <1>1, <1>2 DEF IInv, Typed, Moved, RequestType
<1>4. 0 \in 0 .. Len(wins)
  BY DEF IInv, Windowed
<1> QED BY <1>3, <1>4, ArrivalKeeps DEF Editor, Arrives

\* A launch that nobody claimed before is claimed by this request alone.
LEMMA CommandKeeps == ASSUME IInv, NEW q \in Requests, Command(q) PROVE IInv'
<1> DEFINE A == Arrived("command")
<1>1. A \in RequestType /\ A.op = "command" /\ A.launch = 0 /\ A.win = 0 /\ A.seen = <<>>
  BY ArrivedTyped DEF Ops
<1>2. PICK l \in 1 .. q, c \in Commands : Claim(q, l, c)
  BY DEF Command
<1>3. l \in Requests /\ l # 0 /\ req[q].pc = "idle" /\ 0 \in 0 .. Len(wins)
  BY RequestsAssumption, FS_CardinalityType DEF Command, Arrives, IInv, Windowed
<1>4. CASE claims[l] # "none"
  <2>1. req' = [req EXCEPT ![q] = [A EXCEPT !.pc = "done"]] /\ claims' = claims
    BY <1>2, <1>4 DEF Claim
  <2> HIDE DEF A
  <2>2. Moved(q, "command", "done", 0, 0) /\ req'[q].seen = <<>>
    BY <1>1, <2>1 DEF IInv, Typed, Moved, RequestType
  <2> QED BY <1>3, <2>1, <2>2, ArrivalKeeps DEF Command
<1>5. CASE claims[l] = "none"
  <2>1. req' = [req EXCEPT ![q] = [A EXCEPT !.pc = "lock", !.launch = l]]
        /\ claims' = [claims EXCEPT ![l] = c]
    BY <1>2, <1>5 DEF Claim
  <2>2. c # "none"
    BY CommandsAssumption
  <2> HIDE DEF A
  <2>3. Moved(q, "command", "lock", l, 0) /\ req'[q].seen = <<>>
    BY <1>1, <1>3, <2>1 DEF IInv, Typed, Moved, RequestType
  <2>4. /\ UNCHANGED <<backend, lock, tmux, table, ghost>> /\ wins' = wins /\ runs' = runs
        /\ astray' = astray /\ lock' = lock /\ backend' = backend
    BY DEF Command, ghost, tmux
  <2>5. Windowed' /\ Rowed' /\ Wins' = Wins /\ Len(wins) \in Nat
    BY <2>4, SameWindows, SameRows
  <2>6. Typed'
    BY <2>1, <2>2, <2>3, <2>4 DEF IInv, Typed, Moved
  <2>7. Referred'
    BY <1>3, <2>3, <2>4, <2>5, ReferredKept DEF IInv, Named
  <2>8. Kinds'
    BY <1>3, <2>3 DEF IInv, Kinds, Moved, Holds, Owned
  <2>9. LockHeld'
    BY <1>3, <2>3, <2>4 DEF IInv, LockHeld, Moved, Holds, AtCore, Typed
  <2>10. Launches'
    <3>1. Unclaimed
      BY DEF IInv, Launches
    <3>2. Unclaimed'
      BY <1>3, <1>5, <2>1, <2>2, <2>3, <2>4, <2>5 DEF IInv, Launches, Unclaimed, Moved, Typed
    <3>3. OneClaimant'
      <4>1. \A p \in Requests : req[p].launch # l
        BY <1>3, <1>5, <3>1 DEF Unclaimed
      <4>2. req'[q].launch = l /\ \A p \in Requests : p # q => req'[p] = req[p]
        BY <2>3 DEF Moved
      <4>3. OneClaimant
        BY DEF IInv, Launches
      <4> QED BY <4>1, <4>2, <4>3 DEF OneClaimant
    <3>4. NotStarted'
      BY <1>3, <1>5, <3>1, <2>3, <2>4, <2>5 DEF IInv, Launches, Unclaimed, NotStarted, Moved
    <3>5. OneStart' /\ NotRun' /\ Bound' /\ LaunchOnce'
      BY <2>4, <2>5 DEF IInv, Launches, OneStart, NotRun, Bound, LaunchOnce
    <3> QED BY <3>2, <3>3, <3>4, <3>5 DEF Launches
  <2>11. ASSUME ~astray PROVE Exclusive' /\ SlotGuarded' /\ FileGuarded'
    <3>0. Exclusive /\ SlotGuarded /\ FileGuarded
      BY <2>11 DEF IInv, Guarded
    <3>1. Exclusive'
      BY <3>0, <2>3, <2>4 DEF Exclusive, Moved, Holds, Owned
    <3>2. SlotFor(q)' /\ FileFor(q)' /\ Calm
      BY <2>3, <2>4, <2>5 DEF Moved, SlotFor, FileFor, Calm, Wins
    <3>3. SlotGuarded' /\ FileGuarded'
      BY <3>0, <3>2, <1>3, <2>3, QuietSlot, QuietFile DEF Awaiting
    <3> QED BY <3>1, <3>2, <3>3
  <2> QED BY <2>4, <2>5, <2>6, <2>7, <2>8, <2>9, <2>10, <2>11 DEF IInv, Guarded
<1> QED BY <1>4, <1>5

-----------------------------------------------------------------------------
(* Listings, and their way into the rows *)

\* Nobody else is at a launch when the lock is taken.
LEMMA TakeLockKeeps == ASSUME IInv, NEW q \in Requests, TakeLock(q) PROVE IInv'
<1>1. /\ req[q].pc = "lock" /\ lock \in {0, q} /\ lock' = q /\ Holds(q)
      /\ UNCHANGED <<backend, tmux, table, claims, ghost>>
  BY DEF TakeLock, Locked, IInv, Kinds
<1>2. /\ Moved(q, req[q].op, "list1", req[q].launch, req[q].win)
      /\ req'[q].seen = req[q].seen
  BY GoMoves DEF TakeLock, IInv, Steps
<1>3. Calm /\ Windowed' /\ Rowed' /\ req[q].win \in 0 .. Len(wins')
  BY <1>1, SameWindows, SameRows DEF IInv, Referred
<1>4. Quiet(q, req[q].op, "list1", req[q].launch, req[q].win)
  BY <1>1, <1>2, <1>3 DEF Quiet, ghost, Before
<1>5. Kinds'
  BY <1>1, <1>2 DEF IInv, Kinds, Moved, Holds, Owned
<1>6. LockHeld' /\ lock = 0
  BY <1>1, <1>2 DEF IInv, LockHeld, Moved, Holds, AtCore, Typed
<1>7. astray \/ Exclusive'
  BY <1>1, <1>2, <1>6, ZeroApart DEF IInv, Guarded, Exclusive, Moved, Holds, Owned
<1>8. SlotFor(q)' /\ FileFor(q)'
  BY <1>2 DEF Moved, SlotFor, FileFor, Awaiting
<1> QED BY <1>1, <1>2, <1>3, <1>4, <1>5, <1>6, <1>7, <1>8, QuietKeeps
        DEF Awaiting, IInv, Typed, ghost, Named, Referred

\* A listing of windows, from a session that is there or that is created.
LEMMA ListShows ==
  ASSUME IInv, NEW q \in Requests, List(q)
  PROVE  /\ Calm /\ Windowed'
         /\ \E seen \in Seq(Nat), next \in Steps :
              /\ req' = [req EXCEPT ![q].seen = seen, ![q].pc = next]
              /\ next = IF req[q].pc = "list2" THEN "sync2"
                        ELSE IF backend = "node" /\ req[q].op # "page" THEN Then(q)
                        ELSE "sync1"
              /\ \A k \in 1 .. Len(seen) : seen[k] \in Wins'
              /\ \A k, m \in 1 .. Len(seen) : seen[k] = seen[m] => k = m
<1> DEFINE next == IF req[q].pc = "list2" THEN "sync2"
                   ELSE IF backend = "node" /\ req[q].op # "page" THEN Then(q)
                   ELSE "sync1"
<1>0. Windowed /\ Len(wins) \in Nat
  BY DEF IInv, Windowed
<1>3. next \in Steps
  BY DEF Steps, Then
<1>1. CASE Listing = <<>>
  <2> DEFINE x == Window("shell", "shell", 0)  seen == <<Len(wins) + 1>>
  <2>1. x \in WindowType /\ x.pc = "shell" /\ x.run = 0 /\ x.launch = 0 /\ ~x.slot /\ ~x.editor
    BY DEF Window, WindowType
  <2>2. Open(x) /\ req' = [req EXCEPT ![q].seen = seen, ![q].pc = next]
    BY <1>1 DEF List
  <2> HIDE DEF x, next
  <2>3. Windowed' /\ Added(x)
    BY <1>0, <2>1, <2>2, OpenAdds
  <2>4. Calm
    BY <1>0, <2>1, <2>3 DEF Added, Calm, Wins
  <2>5. /\ seen \in Seq(Nat) /\ \A k \in 1 .. Len(seen) : seen[k] \in Wins'
        /\ \A k, m \in 1 .. Len(seen) : seen[k] = seen[m] => k = m
    BY <1>0, <2>3 DEF Added, Wins
  <2> QED BY <1>3, <2>2, <2>3, <2>4, <2>5 DEF next
<1>2. CASE Listing # <<>>
  <2>1. UNCHANGED tmux /\ req' = [req EXCEPT ![q].seen = Listing, ![q].pc = next]
    BY <1>2 DEF List
  <2>2. Calm /\ Windowed' /\ Wins' = Wins
    BY <2>1, SameWindows
  <2> HIDE DEF next
  <2> QED BY <1>0, <1>3, <2>1, <2>2, ListingShows DEF next
<1> QED BY <1>1, <1>2

\* A listing reaches its request.
LEMMA ListsKeeps == ASSUME IInv, NEW q \in Requests, Lists(q) PROVE IInv'
<1>1. /\ req[q].pc \in {"list1", "list2"} /\ List(q)
      /\ UNCHANGED <<backend, table, claims, ghost>>
      /\ \/ backend = "local" /\ Locked(q)
         \/ backend = "ssh" /\ UNCHANGED lock
         \/ backend = "node" /\ IF req[q].pc = "list2" THEN Release(q) ELSE UNCHANGED lock
  BY DEF Lists, LocalList, SshList, NodeList, List
<1>2. Calm /\ Windowed'
  BY <1>1, ListShows
<1>3. PICK seen \in Seq(Nat), next \in Steps :
              /\ req' = [req EXCEPT ![q].seen = seen, ![q].pc = next]
              /\ next = IF req[q].pc = "list2" THEN "sync2"
                        ELSE IF backend = "node" /\ req[q].op # "page" THEN Then(q)
                        ELSE "sync1"
              /\ \A k \in 1 .. Len(seen) : seen[k] \in Wins'
              /\ \A k, m \in 1 .. Len(seen) : seen[k] = seen[m] => k = m
  BY <1>1, ListShows
<1>4. /\ next \in {"sync1", "sync2", "make", "kill", "look"}
      /\ Holds(q) => next \in {"sync1", "sync2", "look"}
      /\ next = "look" => Holds(q) /\ backend = "node" /\ req[q].pc = "list1"
      /\ next = "sync2" <=> req[q].pc = "list2"
      /\ next = "kill" => req[q].op = "close"
      /\ backend = "node" /\ Holds(q) => next # "sync1"
  BY <1>1, <1>3 DEF Then, Holds, IInv, Kinds, Typed, RequestType, Ops
<1>5. /\ Moved(q, req[q].op, next, req[q].launch, req[q].win) /\ req'[q].seen = seen
  <2>1. req \in [Requests -> RequestType] /\ next \in Steps
    BY <1>4 DEF IInv, Typed, Steps
  <2>2. req' = [req EXCEPT ![q].seen = seen, ![q].pc = next]
    BY <1>3
  <2> DEFINE r == [req[q] EXCEPT !.seen = seen, !.pc = next]
  <2>3. req[q] \in RequestType /\ req' = [req EXCEPT ![q] = r]
    BY <2>1, <2>2
  <2>4. /\ r \in RequestType /\ r.op = req[q].op /\ r.pc = next /\ r.launch = req[q].launch
        /\ r.win = req[q].win /\ r.seen = seen
    BY <2>1, <2>3 DEF RequestType, Steps
  <2> HIDE DEF r
  <2> QED BY <2>1, <2>3, <2>4 DEF Moved
<1>6. Shown(q)' /\ Rowed' /\ req[q].win \in 0 .. Len(wins')
  <2>0. /\ req'[q].seen = seen
        /\ \A k \in 1 .. Len(seen) : seen[k] \in Wins'
        /\ \A k, m \in 1 .. Len(seen) : seen[k] = seen[m] => k = m
    BY <1>3, <1>5
  <2>1. Shown(q)'
    BY <2>0 DEF Shown
  <2>2. Rowed'
    BY <1>1, <1>2, SameRows DEF Calm
  <2>3. req[q].win \in 0 .. Len(wins')
    BY <1>2 DEF Calm, IInv, Referred, Windowed
  <2> QED BY <2>1, <2>2, <2>3
<1>7. Quiet(q, req[q].op, next, req[q].launch, req[q].win)
  BY <1>1, <1>2, <1>4, <1>5 DEF Quiet, ghost, Before
<1>8. Kinds'
  BY <1>1, <1>4, <1>5 DEF IInv, Kinds, Moved, Holds, Owned
<1>9. LockHeld' /\ lock' \in Requests \cup {0}
  BY <1>1, <1>4, <1>5 DEF IInv, LockHeld, Moved, Holds, AtCore, Typed, Locked, Release
<1>10. astray \/ Exclusive'
  BY <1>1, <1>4, <1>5, ZeroApart
     DEF IInv, Guarded, Exclusive, Moved, Holds, Owned, Locked, Release, LockHeld
<1>11. SlotFor(q)' /\ FileFor(q)'
  BY <1>4, <1>5 DEF Moved, SlotFor, FileFor, Awaiting
<1> QED BY <1>1, <1>2, <1>4, <1>5, <1>6, <1>7, <1>8, <1>9, <1>10, <1>11, QuietKeeps
        DEF Awaiting, IInv, Typed, ghost, Named, Referred

\* A listing, however old, reaches the rows.
LEMMA SyncKeeps == ASSUME IInv, NEW q \in Requests, Sync(q) PROVE IInv'
<1>1. /\ req[q].pc \in {"sync1", "sync2"} /\ Reconcile(req[q].seen)
      /\ UNCHANGED <<backend, tmux, claims, ghost>>
  BY DEF Sync
<1>2. Calm /\ Windowed' /\ Len(wins') = Len(wins) /\ Len(wins) \in Nat
  BY <1>1, SameWindows
<1>3. Rowed'
  <2>1. /\ req[q].seen \in Seq(Nat)
        /\ \A k, m \in 1 .. Len(req[q].seen) : req[q].seen[k] = req[q].seen[m] => k = m
        /\ \A k \in 1 .. Len(req[q].seen) : req[q].seen[k] \in 1 .. Len(wins)
    BY DEF IInv, Typed, RequestType, Referred, Shown, Wins
  <2>2. ids \in Nat /\ Distinct(rows) /\ \A r \in rows : r.id \in 1 .. ids
    BY DEF IInv, Rowed
  <2>3. /\ ids' \in Nat /\ Distinct(rows)'
        /\ \A r \in rows' : r.id \in 1 .. ids' /\ r.win \in 1 .. Len(wins)
    BY <1>1, <1>2, <2>1, <2>2, ReconcileKeeps DEF Distinct
  <2> QED BY <1>2, <2>3 DEF Rowed, Wins, Distinct
<1>4. astray' = astray /\ astray \in BOOLEAN
  BY <1>1 DEF IInv, Typed, ghost
<1>5. CASE Finish(q)
  <2>1. Finished(q)
    BY <1>5, FinishMoves DEF IInv
  <2> QED BY <1>1, <1>2, <1>3, <1>4, <2>1, FinishKeeps DEF ghost, Awaiting
<1>6. CASE /\ Go(q, Then(q)) /\ req[q].pc = "sync1" /\ Then(q) # "done"
           /\ IF Holds(q) THEN UNCHANGED lock ELSE Release(q)
  <2> DEFINE p == Then(q)
  <2>1. p \in {"make", "kill", "look"} /\ (p = "look" <=> Holds(q))
        /\ (p = "kill" => req[q].op = "close")
    BY <1>6 DEF Then, Holds, IInv, Kinds, Typed, RequestType, Ops
  <2> HIDE DEF p
  <2>2. Moved(q, req[q].op, p, req[q].launch, req[q].win) /\ req'[q].seen = req[q].seen
    BY <1>6, <2>1, GoMoves DEF IInv, Steps, p
  <2>3. Quiet(q, req[q].op, p, req[q].launch, req[q].win) /\ req[q].win \in 0 .. Len(wins')
    BY <1>1, <1>2, <1>6, <2>1, <2>2 DEF Quiet, ghost, Before, IInv, Referred
  <2>4. Kinds'
    BY <1>6, <2>1, <2>2 DEF IInv, Kinds, Moved, Holds, Owned
  <2>5. LockHeld' /\ lock' \in Requests \cup {0}
    BY <1>1, <1>6, <2>1, <2>2, ZeroApart
       DEF IInv, LockHeld, Moved, Holds, AtCore, Typed, Release
  <2>6. astray \/ Exclusive'
    BY <1>6, <2>1, <2>2, ZeroApart
       DEF IInv, Guarded, Exclusive, Moved, Holds, Owned, Release
  <2>7. SlotFor(q)' /\ FileFor(q)'
    BY <2>1, <2>2 DEF Moved, SlotFor, FileFor, Awaiting
  <2> QED BY <1>1, <1>2, <1>3, <1>4, <1>6, <2>1, <2>2, <2>3, <2>4, <2>5, <2>6, <2>7, QuietKeeps
          DEF Awaiting, Named, IInv, Referred
<1> QED BY <1>1, <1>5, <1>6 DEF Sync

\* Requests that end, and leave tmux and the rows alone.
LEMMA EndKeeps ==
  ASSUME IInv, NEW q \in Requests, Finish(q), req[q].pc \notin Awaiting \cup {"idle"},
         UNCHANGED <<backend, tmux, table, claims, ghost>>
  PROVE  IInv'
<1>1. Calm /\ Windowed' /\ Rowed'
  BY SameWindows, SameRows
<1>2. Finished(q)
  BY FinishMoves DEF IInv
<1>3. astray' = astray /\ astray \in BOOLEAN
  BY DEF IInv, Typed, ghost
<1> QED BY <1>1, <1>2, <1>3, FinishKeeps DEF ghost, Awaiting

\* An agent's answer to nobody.
LEMMA UnheardKeeps == ASSUME IInv, NEW q \in Requests, Unheard(q) PROVE IInv'
BY EndKeeps DEF Unheard, AtCore, Awaiting

\* An agent's request that misses its window.
LEMMA MissesKeeps == ASSUME IInv, NEW q \in Requests, Misses(q) PROVE IInv'
<1> DEFINE x == Window("shell", "shell", 0)
<1>1. x \in WindowType /\ x.pc = "shell" /\ x.run = 0 /\ x.launch = 0 /\ ~x.slot /\ ~x.editor
  BY DEF Window, WindowType
<1>2. /\ req[q].pc = "list2" /\ Finish(q) /\ UNCHANGED <<backend, table, claims, ghost>>
      /\ Open(x) \/ UNCHANGED tmux
  BY DEF Misses, Missing
<1> HIDE DEF x
<1>3. CASE UNCHANGED tmux
  BY <1>2, <1>3, EndKeeps DEF Awaiting
<1>4. CASE Open(x)
  <2>1. Windowed' /\ Added(x) /\ Len(wins) \in Nat
    BY <1>1, <1>4, OpenAdds DEF IInv, Windowed
  <2>2. Calm /\ Rowed'
    BY <1>1, <1>2, <2>1, SameRows DEF Added, Calm, Wins
  <2>3. Finished(q)
    BY <1>2, FinishMoves DEF IInv
  <2>4. astray' = astray /\ astray \in BOOLEAN
    BY <1>2 DEF IInv, Typed, ghost
  <2> QED BY <1>2, <2>1, <2>2, <2>3, <2>4, FinishKeeps DEF ghost, Awaiting
<1> QED BY <1>2, <1>3, <1>4

-----------------------------------------------------------------------------
(* create and close *)

\* A request of a page, a creation or a closing moves on.
LEMMA TerminalKeeps ==
  ASSUME IInv, NEW q \in Requests, req[q].pc # "idle", ~Holds(q),
         NEW p \in {"list2", "insert", "kill", "drop"}, NEW w \in 0 .. Len(wins'),
         Moved(q, req[q].op, p, req[q].launch, w), req'[q].seen = req[q].seen,
         Named(req[q].op, p) => w # 0, p = "kill" => req[q].op = "close", Calm, Windowed', Rowed',
         UNCHANGED <<backend, lock, claims, ghost>>
  PROVE  IInv'
<1>1. Quiet(q, req[q].op, p, req[q].launch, w)
  BY DEF Quiet, ghost, Before
<1>2. Kinds'
  BY DEF IInv, Kinds, Moved, Holds, Owned
<1>3. LockHeld' /\ lock' \in Requests \cup {0}
  BY DEF IInv, LockHeld, Moved, Holds, AtCore, Typed
<1>4. astray \/ Exclusive'
  BY DEF IInv, Guarded, Exclusive, Moved, Holds, Owned
<1>5. SlotFor(q)' /\ FileFor(q)'
  BY DEF Moved, SlotFor, FileFor, Awaiting
<1>6. astray' = astray /\ astray \in BOOLEAN
  BY DEF IInv, Typed, ghost
<1>7. req[q].op \notin {"command", "editor"}
  BY DEF Holds
<1> QED BY <1>1, <1>2, <1>3, <1>4, <1>5, <1>6, <1>7, QuietKeeps

\* A terminal's window is created.
LEMMA MakeKeeps == ASSUME IInv, NEW q \in Requests, Make(q) PROVE IInv'
<1> DEFINE x == Window("shell", "shell", 0)
           p == IF backend = "node" THEN "list2" ELSE "insert"
<1>1. x \in WindowType /\ x.pc = "shell" /\ x.run = 0 /\ x.launch = 0 /\ ~x.slot /\ ~x.editor
  BY DEF Window, WindowType
<1>2. /\ req[q].pc = "make" /\ Open(x) /\ UNCHANGED <<backend, lock, table, claims, ghost>>
      /\ req' = [req EXCEPT ![q].pc = p, ![q].win = Len(wins) + 1]
      /\ p \in {"list2", "insert"}
  BY DEF Make
<1> HIDE DEF x, p
<1>3. Windowed' /\ Added(x) /\ Len(wins) \in Nat
  BY <1>1, <1>2, OpenAdds DEF IInv, Windowed
<1>4. Calm /\ Len(wins) + 1 \in 0 .. Len(wins') /\ Rowed'
  BY <1>1, <1>2, <1>3, SameRows DEF Added, Calm, Wins
<1>5. ~Holds(q)
  BY <1>2 DEF IInv, Kinds, Owned
<1> DEFINE r == [req[q] EXCEPT !.pc = p, !.win = Len(wins) + 1]
<1>6. req \in [Requests -> RequestType] /\ req[q] \in RequestType /\ req' = [req EXCEPT ![q] = r]
  BY <1>2 DEF IInv, Typed
<1>7. /\ r \in RequestType /\ r.op = req[q].op /\ r.pc = p /\ r.launch = req[q].launch
      /\ r.win = Len(wins) + 1 /\ r.seen = req[q].seen
  BY <1>2, <1>3, <1>6 DEF RequestType
<1> HIDE DEF r
<1>8. Moved(q, req[q].op, p, req[q].launch, Len(wins) + 1) /\ req'[q].seen = req[q].seen
  BY <1>6, <1>7 DEF Moved
<1>9. p \in {"list2", "insert", "kill", "drop"} /\ Len(wins) + 1 # 0 /\ req[q].pc # "idle"
  BY <1>2, <1>3
<1> QED BY <1>2, <1>3, <1>4, <1>5, <1>8, <1>9, TerminalKeeps

\* A terminal's row is inserted unless its window has one.
LEMMA InsertKeeps == ASSUME IInv, NEW q \in Requests, Insert(q) PROVE IInv'
<1>1. /\ req[q].pc = "insert" /\ Finish(q) /\ UNCHANGED <<backend, tmux, claims, ghost>>
      /\ req[q].win \in Wins
  BY DEF Insert, IInv, Referred, Named, Wins, Windowed
<1>2. Calm /\ Windowed' /\ Wins' = Wins
  BY <1>1, SameWindows
<1>3. Rowed'
  <2>1. CASE UNCHANGED table
    BY <1>1, <2>1, SameRows, SameWindows
  <2>2. CASE /\ \A r \in rows : r.win # req[q].win
             /\ rows' = rows \cup {[id |-> ids + 1, win |-> req[q].win, name |-> "shell"]}
             /\ ids' = ids + 1
    BY <1>1, <1>2, <2>2 DEF IInv, Rowed, Distinct
  <2> QED BY <2>1, <2>2 DEF Insert
<1>4. Finished(q) /\ astray' = astray /\ astray \in BOOLEAN
  BY <1>1, FinishMoves DEF IInv, Typed, ghost
<1> QED BY <1>1, <1>2, <1>3, <1>4, FinishKeeps DEF ghost, Awaiting

\* An agent refuses the last window.
LEMMA CheckKeeps == ASSUME IInv, NEW q \in Requests, Check(q) PROVE IInv'
<1>1. req[q].pc = "check" /\ UNCHANGED <<backend, tmux, table, claims, ghost>>
  BY DEF Check
<1>2. CASE Finish(q)
  BY <1>1, <1>2, EndKeeps DEF Awaiting
<1>3. CASE Go(q, "kill") /\ UNCHANGED lock
  <2>1. Moved(q, req[q].op, "kill", req[q].launch, req[q].win) /\ req'[q].seen = req[q].seen
    BY <1>3, GoMoves DEF IInv, Steps
  <2>2. Calm /\ Windowed' /\ Rowed' /\ req[q].win \in 0 .. Len(wins')
    BY <1>1, SameWindows, SameRows DEF IInv, Referred
  <2>3. ~Holds(q) /\ req[q].op = "close" /\ req[q].win # 0
    BY <1>1 DEF IInv, Kinds, Owned, Referred, Named
  <2> QED BY <1>1, <1>3, <2>1, <2>2, <2>3, TerminalKeeps
<1> QED BY <1>2, <1>3 DEF Check

\* A terminal's window is killed.
LEMMA KillKeeps == ASSUME IInv, NEW q \in Requests, Kill(q) PROVE IInv'
<1>1. req[q].pc = "kill" /\ UNCHANGED <<backend, table, claims, ghost>>
  BY DEF Kill
<1>2. CASE Finish(q) /\ UNCHANGED tmux
  BY <1>1, <1>2, EndKeeps DEF Awaiting
<1> DEFINE w == req[q].win
           p == IF backend = "node" THEN "list2" ELSE "drop"
<1>3. CASE Up(w) /\ Shut(w) /\ Go(q, p) /\ UNCHANGED lock
  <2>1. p \in Steps /\ p \in {"list2", "insert", "kill", "drop"} /\ p # "kill"
    BY DEF Steps
  <2> HIDE DEF p
  <2>2. Moved(q, req[q].op, p, req[q].launch, w) /\ req'[q].seen = req[q].seen
    BY <1>3, <2>1, GoMoves DEF IInv
  <2>3. w \in Wins /\ w \in 0 .. Len(wins) /\ Len(wins) \in Nat /\ w # 0
    BY <1>1 DEF IInv, Referred, Named, Kinds, Windowed, Wins
  <2>4. Windowed' /\ Changed(w, [wins[w] EXCEPT !.pc = "gone"])
    BY <1>3, <2>3, ShutChanges DEF IInv
  <2>5. wins[w] \in WindowType
    BY <2>3 DEF IInv, Windowed, Wins
  <2> HIDE DEF w
  <2>6. Calm /\ w \in 0 .. Len(wins')
    BY <2>3, <2>4, <2>5 DEF Changed, Calm, Wins, WindowType
  <2>7. Rowed' /\ ~Holds(q)
    BY <1>1, <2>6, SameRows DEF Calm, IInv, Kinds, Owned
  <2> QED BY <1>1, <1>3, <2>1, <2>2, <2>3, <2>4, <2>6, <2>7, TerminalKeeps
<1> QED BY <1>2, <1>3 DEF Kill

\* A terminal's row is deleted.
LEMMA DropKeeps == ASSUME IInv, NEW q \in Requests, Drop(q) PROVE IInv'
<1>1. /\ req[q].pc = "drop" /\ UNCHANGED <<backend, lock, tmux, ids, claims, ghost>>
      /\ Go(q, "list2") /\ rows' = {r \in rows : r.id # req[q].row} /\ ids' = ids
  BY DEF Drop
<1>2. Moved(q, req[q].op, "list2", req[q].launch, req[q].win) /\ req'[q].seen = req[q].seen
  BY <1>1, GoMoves DEF IInv, Steps
<1>3. Calm /\ Windowed' /\ Wins' = Wins /\ req[q].win \in 0 .. Len(wins')
  BY <1>1, SameWindows DEF IInv, Referred
<1>4. Rowed' /\ ~Holds(q) /\ (Named(req[q].op, "list2") => req[q].win # 0)
  BY <1>1, <1>3 DEF IInv, Rowed, Distinct, Kinds, Owned, Referred, Named
<1> QED BY <1>1, <1>2, <1>3, <1>4, TerminalKeeps

-----------------------------------------------------------------------------
(* run_workspace_command and open_terminal_editor *)

\* Whoever is about to launch is the only one: no window is on its way.
LEMMA NoneUnderWay ==
  ASSUME IInv, ~astray, NEW q \in Requests, Holds(q), req[q].pc \in Owned \ Awaiting
  PROVE  \A w \in Wins : wins[w].pc \notin Launched \cup {"opening"}
<1>1. Exclusive /\ SlotAwaited /\ FileAwaited
  BY DEF IInv, Guarded, SlotGuarded, FileGuarded
<1> SUFFICES ASSUME NEW w \in Wins, wins[w].pc \in Launched \cup {"opening"} PROVE FALSE
  OBVIOUS
<1>2. PICK p \in Requests : req[p].op \in {"command", "editor"} /\ req[p].pc \in Awaiting
  BY <1>1 DEF SlotAwaited, FileAwaited
<1>3. lock = p /\ lock = q
  BY <1>1, <1>2 DEF Exclusive, Holds, Owned, Awaiting
<1> QED BY <1>2, <1>3

\* A request that launches moves on and keeps the lock.
LEMMA HolderKeeps ==
  ASSUME IInv, NEW q \in Requests, Holds(q), req[q].pc \in Owned,
         NEW p \in {"open", "detach", "respawn", "clean", "list2"},
         NEW w \in 0 .. Len(wins'),
         Moved(q, req[q].op, p, req[q].launch, w), req'[q].seen = req[q].seen,
         Named(req[q].op, p) => w # 0, p \in {"detach", "respawn"} => req[q].op = "command",
         p \in Before => req[q].pc \in Before,
         Calm, Windowed', UNCHANGED <<backend, lock, table, claims, ghost>>,
         ~astray =>
           /\ SlotFor(q)' /\ FileFor(q)'
           /\ req[q].op = "command" /\ req[q].pc \in Awaiting =>
                \/ p \in Awaiting /\ w = req[q].win
                \/ wins'[req[q].win].pc \notin Launched
           /\ req[q].op = "editor" /\ req[q].pc \in Awaiting =>
                \/ p \in Awaiting /\ w = req[q].win
                \/ wins'[req[q].win].pc # "opening"
  PROVE  IInv'
<1>1. Quiet(q, req[q].op, p, req[q].launch, w)
  BY DEF Quiet, ghost
<1>2. Kinds'
  BY DEF IInv, Kinds, Moved, Holds, Owned
<1>3. LockHeld' /\ lock' \in Requests \cup {0}
  BY DEF IInv, LockHeld, Moved, Holds, AtCore, Typed
<1>4. astray \/ Exclusive'
  BY DEF IInv, Guarded, Exclusive, Moved, Holds, Owned
<1>5. Rowed' /\ astray' = astray /\ astray \in BOOLEAN
  BY SameRows DEF Calm, IInv, Typed, ghost
<1> QED BY <1>1, <1>2, <1>3, <1>4, <1>5, QuietKeeps

\* The answer with a terminal that is there already.
LEMMA AnswerKeeps ==
  ASSUME IInv, NEW q \in Requests, Holds(q), req[q].pc = "look", Answer(q),
         UNCHANGED <<backend, tmux, table, claims, ghost>>
  PROVE  IInv'
<1>1. CASE Finish(q)
  BY <1>1, EndKeeps DEF Awaiting
<1>2. CASE backend = "node" /\ Go(q, "sync2") /\ Release(q)
  <2>1. Moved(q, req[q].op, "sync2", req[q].launch, req[q].win) /\ req'[q].seen = req[q].seen
    BY <1>2, GoMoves DEF IInv, Steps
  <2>2. Calm /\ Windowed' /\ Rowed' /\ req[q].win \in 0 .. Len(wins')
    BY SameWindows, SameRows DEF IInv, Referred
  <2>3. Quiet(q, req[q].op, "sync2", req[q].launch, req[q].win)
    BY <2>1, <2>2 DEF Quiet, ghost, Before
  <2>4. Kinds'
    BY <2>1 DEF IInv, Kinds, Moved, Holds, Owned
  <2>5. LockHeld' /\ lock' \in Requests \cup {0}
    BY <1>2, <2>1, ZeroApart DEF IInv, LockHeld, Moved, Holds, AtCore, Typed, Release
  <2>6. astray \/ Exclusive'
    BY <1>2, <2>1 DEF IInv, Guarded, Exclusive, Moved, Holds, Owned, Release
  <2>7. SlotFor(q)' /\ FileFor(q)'
    BY <2>1 DEF Moved, SlotFor, FileFor, Awaiting
  <2>8. astray' = astray /\ astray \in BOOLEAN
    BY DEF IInv, Typed, ghost
  <2>9. ~Named(req[q].op, "sync2")
    BY DEF Named, Holds
  <2> QED BY <2>1, <2>2, <2>3, <2>4, <2>5, <2>6, <2>7, <2>8, <2>9, QuietKeeps DEF Awaiting
<1> QED BY <1>1, <1>2 DEF Answer

\* The windows of the slot and those that show the file.
LEMMA SlottedWindows ==
  ASSUME Windowed
  PROVE  /\ \A w : w \in Slotted <=> w \in Wins /\ Live(w) /\ wins[w].slot
         /\ \A w : w \in Editing <=> w \in Wins /\ Live(w) /\ wins[w].editor
<1>1. \A w : w \in Range(at) \ {0} <=> w \in Wins /\ Live(w)
  <2> TAKE w
  <2>1. \A i \in Indexes : at[i] \in 0 .. Len(wins)
    BY DEF Windowed
  <2>2. DOMAIN at = Indexes /\ Len(wins) \in Nat
    BY DEF Windowed
  <2>3. CASE w \in Wins
    BY <2>2, <2>3 DEF Windowed, Indexed, Range, Wins
  <2>4. CASE w \notin Wins
    BY <2>1, <2>2, <2>4 DEF Range, Wins
  <2> QED BY <2>3, <2>4
<1> QED BY <1>1 DEF Slotted, Editing

\* Who finds no window in the slot knows that none is on its way, and who finds one
\* that is not busy may start it over.
LEMMA LookForCommandKeeps ==
  ASSUME IInv, NEW q \in Requests, req[q].pc = "look", LookForCommand(q),
         UNCHANGED <<backend, table, claims, ghost>>
  PROVE  IInv'
<1>1. req[q].op = "command" /\ Holds(q) /\ UNCHANGED tmux
  BY DEF LookForCommand, Holds
<1>2. Calm /\ Windowed' /\ Wins' = Wins /\ Len(wins') \in Nat /\ Len(wins') = Len(wins) /\ wins' = wins
  BY <1>1, SameWindows DEF tmux
<1>3. ASSUME ~astray
      PROVE  /\ \A w \in Wins : wins[w].pc \notin Launched
             /\ \A w \in Wins : ForSlot(w) => w \in Slotted
  <2>1. \A w \in Wins : wins[w].pc \notin Launched
    BY <1>1, <1>3, NoneUnderWay DEF Owned, Awaiting
  <2> QED BY <2>1, SlottedWindows DEF IInv, ForSlot
<1>4. CASE Slotted = {} /\ Go(q, "open") /\ UNCHANGED lock
  <2>1. Moved(q, req[q].op, "open", req[q].launch, req[q].win) /\ req'[q].seen = req[q].seen
    BY <1>4, GoMoves DEF IInv, Steps
  <2>2. ~astray => SlotFor(q)' /\ FileFor(q)'
    BY <1>1, <1>2, <1>3, <1>4, <2>1 DEF Moved, SlotFor, FileFor, Awaiting, ForSlot, Live
  <2>3. req[q].win \in 0 .. Len(wins') /\ ~Named(req[q].op, "open")
    BY <1>1, <1>2 DEF IInv, Referred, Named
  <2> QED BY <1>1, <1>2, <1>4, <2>1, <2>2, <2>3, HolderKeeps DEF Before, Owned, Awaiting
<1>5. CASE Finish(q)
  BY <1>1, <1>5, EndKeeps DEF Awaiting
<1>6. CASE Answer(q)
  BY <1>1, <1>6, AnswerKeeps
<1>7. CASE \E w \in Slotted : \E p \in {"respawn", "detach"} :
             /\ Slotted = {w} /\ UNCHANGED lock
             /\ req' = [req EXCEPT ![q].win = w, ![q].pc = p]
             /\ p = "respawn" => ~Busy(w)
  <2>1. PICK w \in Slotted, p \in {"respawn", "detach"} :
             /\ Slotted = {w} /\ UNCHANGED lock
             /\ req' = [req EXCEPT ![q].win = w, ![q].pc = p]
             /\ p = "respawn" => ~Busy(w)
    BY <1>7
  <2>2. w \in Wins /\ Live(w) /\ wins[w].slot /\ w \in 0 .. Len(wins) /\ w \in Nat /\ w # 0
    BY SlottedWindows DEF IInv, Wins, Windowed
  <2> DEFINE r == [req[q] EXCEPT !.win = w, !.pc = p]
  <2>3. req \in [Requests -> RequestType] /\ req[q] \in RequestType /\ req' = [req EXCEPT ![q] = r]
    BY <2>1 DEF IInv, Typed
  <2>4. /\ r \in RequestType /\ r.op = req[q].op /\ r.pc = p /\ r.launch = req[q].launch
        /\ r.win = w /\ r.seen = req[q].seen
    BY <2>2, <2>3 DEF RequestType
  <2> HIDE DEF r
  <2>5. Moved(q, req[q].op, p, req[q].launch, w) /\ req'[q].seen = req[q].seen
    BY <2>3, <2>4 DEF Moved
  <2>6. ASSUME ~astray PROVE SlotFor(q)' /\ FileFor(q)'
    <3>1. /\ \A v \in Wins : ForSlot(v) => v = w
          /\ wins[w].pc \notin Launched
      BY <1>3, <2>1, <2>2, <2>6
    <3>2. p = "respawn" => wins[w].pc \notin Launched \cup {"command"}
      BY <2>1, <2>2, <2>6, <3>1 DEF Busy, IInv, Guarded, SlotGuarded, SlotState
    <3>3. /\ req'[q].op = "command" /\ req'[q].pc = p /\ req'[q].win = w
          /\ wins' = wins /\ Wins' = Wins
      BY <1>1, <1>2, <2>5 DEF Moved
    <3>4. SlotFor(q)'
      BY <3>1, <3>2, <3>3 DEF SlotFor, ForSlot, Live
    <3>5. FileFor(q)'
      BY <3>3 DEF FileFor
    <3> QED BY <3>4, <3>5
  <2>7. w \in 0 .. Len(wins')
    BY <1>2, <2>2
  <2> QED BY <1>1, <1>2, <2>1, <2>2, <2>5, <2>6, <2>7, HolderKeeps DEF Before, Owned, Awaiting
<1> QED BY <1>1, <1>4, <1>5, <1>6, <1>7 DEF LookForCommand

\* The same for the file; a dead window makes way.
LEMMA LookForEditorKeeps ==
  ASSUME IInv, NEW q \in Requests, req[q].pc = "look", LookForEditor(q),
         UNCHANGED <<backend, table, claims, ghost>>
  PROVE  IInv'
<1>1. req[q].op = "editor" /\ Holds(q) /\ Len(wins) \in Nat
  BY DEF LookForEditor, Holds, IInv, Windowed
<1>2. ASSUME ~astray PROVE \A w \in Wins : ForFile(w) => w \in Editing
  <2>1. \A w \in Wins : wins[w].pc # "opening"
    BY <1>1, <1>2, NoneUnderWay DEF Owned, Awaiting
  <2> QED BY <2>1, SlottedWindows DEF IInv, ForFile
<1>3. CASE Editing = {} /\ Go(q, "open") /\ UNCHANGED <<lock, tmux>>
  <2>0. Calm /\ Windowed' /\ Wins' = Wins /\ Len(wins') = Len(wins) /\ wins' = wins
    BY <1>3, SameWindows DEF tmux
  <2>1. Moved(q, req[q].op, "open", req[q].launch, req[q].win) /\ req'[q].seen = req[q].seen
    BY <1>3, GoMoves DEF IInv, Steps
  <2>2. ~astray => SlotFor(q)' /\ FileFor(q)'
    BY <1>1, <1>2, <1>3, <2>0, <2>1 DEF Moved, SlotFor, FileFor, Awaiting, ForFile, Live
  <2>3. req[q].win \in 0 .. Len(wins') /\ ~Named(req[q].op, "open")
    BY <1>1, <2>0 DEF IInv, Referred, Named
  <2> QED BY <1>1, <1>3, <2>0, <2>1, <2>2, <2>3, HolderKeeps DEF Before, Owned, Awaiting
<1>4. CASE \E w \in Editing : wins[w].pc = "dead" /\ Shut(w) /\ Go(q, "open") /\ UNCHANGED lock
  <2>0. PICK w \in Editing : wins[w].pc = "dead" /\ Shut(w)
    BY <1>4
  <2>1. Moved(q, req[q].op, "open", req[q].launch, req[q].win) /\ req'[q].seen = req[q].seen
    BY <1>4, GoMoves DEF IInv, Steps
  <2>2. w \in Wins /\ ForFile(w) /\ wins[w] \in WindowType
    BY SlottedWindows DEF IInv, ForFile, Windowed, Wins
  <2>3. Windowed' /\ Changed(w, [wins[w] EXCEPT !.pc = "gone"])
    BY <2>0, <2>2, ShutChanges DEF IInv
  <2>4. /\ Calm /\ Len(wins') = Len(wins) /\ wins'[w].pc = "gone"
        /\ \A v \in Wins : v # w => wins'[v] = wins[v]
    BY <1>1, <2>2, <2>3 DEF Changed, Calm, Wins, WindowType
  <2>5. ASSUME ~astray PROVE SlotFor(q)' /\ FileFor(q)'
    <3>1. \A v \in Wins : ForFile(v) => v = w
      BY <2>2, <2>5 DEF IInv, Guarded, FileGuarded, OneFile
    <3>2. \A v \in Wins' : ~ForFile(v)'
      BY <2>2, <2>4, <3>1 DEF ForFile, Live, Wins
    <3>3. req'[q].op = "editor" /\ req'[q].pc = "open"
      BY <1>1, <2>1 DEF Moved
    <3> QED BY <3>2, <3>3 DEF SlotFor, FileFor, Awaiting
  <2>6. req[q].win \in 0 .. Len(wins') /\ ~Named(req[q].op, "open")
    BY <1>1, <2>4 DEF IInv, Referred, Named
  <2> QED BY <1>1, <1>4, <2>1, <2>3, <2>4, <2>5, <2>6, HolderKeeps DEF Before, Owned, Awaiting
<1>5. CASE (Answer(q) \/ Finish(q)) /\ UNCHANGED tmux
  BY <1>1, <1>5, AnswerKeeps, EndKeeps DEF Awaiting
<1> QED BY <1>1, <1>3, <1>4, <1>5 DEF LookForEditor

\* The look at the windows.
LEMMA LookKeeps == ASSUME IInv, NEW q \in Requests, Look(q) PROVE IInv'
BY LookForCommandKeeps, LookForEditorKeeps DEF Look

-----------------------------------------------------------------------------
(* Steps that leave one of the three guards alone *)

\* Requests move without a launch of their own, or drop theirs; windows keep theirs.
LEMMA LaunchesKept ==
  ASSUME IInv, claims' = claims, runs' = runs,
         \A p \in Requests : /\ req'[p].launch \in {req[p].launch, 0}
                             /\ req'[p].launch # 0 /\ req'[p].pc \in Before => req[p].pc \in Before,
         \A v \in Wins' :
           \/ /\ v \in Wins /\ wins'[v].run = wins[v].run
              /\ wins'[v].launch \in {wins[v].launch, 0}
              /\ wins'[v].pc \in Launched => wins[v].pc \in Launched
           \/ wins'[v].run = 0 /\ wins'[v].launch = 0 /\ wins'[v].pc \notin Launched
  PROVE  Launches'
<1>1. Unclaimed'
  BY ZeroApart DEF IInv, Launches, Unclaimed
<1>2. OneClaimant'
  BY DEF IInv, Launches, OneClaimant
<1>3. NotStarted'
  BY DEF IInv, Launches, NotStarted
<1>4. OneStart' /\ NotRun' /\ Bound' /\ LaunchOnce'
  BY DEF IInv, Launches, OneStart, NotRun, Bound, LaunchOnce
<1> QED BY <1>1, <1>2, <1>3, <1>4 DEF Launches

\* Request p stays where it is, or ends and leaves no launch behind.
Stays(p) ==
  \/ req'[p].pc = req[p].pc /\ req'[p].win = req[p].win /\ req'[p].launch = req[p].launch
  \/ req'[p].pc \notin Owned /\ req[p].pc \notin Awaiting

\* No window comes into the slot.
LEMMA SlotKept ==
  ASSUME IInv, SlotGuarded, Len(wins') \in Nat, Len(wins') >= Len(wins),
         \A v \in Wins' : /\ ForSlot(v)' => v \in Wins /\ ForSlot(v)
                          /\ wins'[v].pc \in Launched => v \in Wins /\ wins[v].pc \in Launched
                          /\ wins'[v].pc = "mark" \/ (wins'[v].slot /\ wins'[v].pc = "command")
                               => wins'[v].state = "running",
         \A v \in Wins : /\ wins'[v].pc # "gone" => Live(v)
                         /\ wins'[v].run = wins[v].run
                         /\ wins'[v].pc \in Launched \cup {"command"} =>
                              wins[v].pc \in Launched \cup {"command"},
         \A p \in Requests : req'[p].op = req[p].op /\ (req[p].op = "command" => Stays(p))
  PROVE  SlotGuarded'
<1>1. OneSlot'
  BY DEF SlotGuarded, OneSlot
<1>2. SlotAwaited'
  BY DEF SlotGuarded, SlotAwaited, Stays
<1>3. SlotState'
  BY DEF SlotState
<1>4. ASSUME NEW p \in Requests PROVE SlotFor(p)'
  <2>0. req'[p].op = req[p].op /\ (req[p].op = "command" => Stays(p)) /\ SlotFor(p)
    BY DEF SlotGuarded
  <2>1. CASE req[p].op # "command" \/ req'[p].pc \notin Owned
    BY <2>0, <2>1 DEF SlotFor, Owned
  <2>2. CASE req[p].op = "command" /\ req'[p].pc = req[p].pc /\ req'[p].win = req[p].win
             /\ req'[p].launch = req[p].launch
    <3>1. req[p].pc \in {"poll", "respawn"} => req[p].win \in Wins /\ req[p].win \in Wins'
      BY DEF IInv, Referred, Named, Windowed, Wins
    <3> QED BY <2>0, <2>2, <3>1 DEF SlotFor, Live
  <2> QED BY <2>0, <2>1, <2>2 DEF Stays
<1> QED BY <1>1, <1>2, <1>3, <1>4 DEF SlotGuarded

\* No window comes to show the file.
LEMMA FileKept ==
  ASSUME FileGuarded,
         \A v \in Wins' : /\ ForFile(v)' => v \in Wins /\ ForFile(v)
                          /\ wins'[v].pc = "opening" =>
                               v \in Wins /\ wins[v].pc = "opening" /\ wins'[v].editor = wins[v].editor,
         \A p \in Requests : req'[p].op = req[p].op /\ (req[p].op = "editor" => Stays(p))
  PROVE  FileGuarded'
<1>1. OneFile'
  BY DEF FileGuarded, OneFile
<1>2. FileAwaited'
  BY DEF FileGuarded, FileAwaited, Stays
<1>3. ASSUME NEW p \in Requests PROVE FileFor(p)'
  <2>0. req'[p].op = req[p].op /\ (req[p].op = "editor" => Stays(p)) /\ FileFor(p)
    BY DEF FileGuarded
  <2>1. CASE req[p].op # "editor" \/ req'[p].pc \notin Owned
    BY <2>0, <2>1 DEF FileFor, Owned, Awaiting
  <2>2. CASE req[p].op = "editor" /\ req'[p].pc = req[p].pc /\ req'[p].win = req[p].win
    BY <2>0, <2>2 DEF FileFor
  <2> QED BY <2>0, <2>1, <2>2 DEF Stays
<1> QED BY <1>1, <1>2, <1>3 DEF FileGuarded

\* Of a step of q what does not depend on the windows' fields.
LEMMA MovedFields ==
  ASSUME IInv, NEW q \in Requests, Holds(q), req[q].pc \in Owned,
         NEW p \in {"open", "poll"}, NEW w \in 0 .. Len(wins'), p = "poll" => w # 0,
         Moved(q, req[q].op, p, req[q].launch, w), req'[q].seen = req[q].seen,
         Len(wins') \in Nat, Len(wins') >= Len(wins),
         UNCHANGED <<backend, lock, table, claims, ghost>>
  PROVE  /\ Typed' /\ Referred' /\ Rowed' /\ Kinds' /\ LockHeld'
         /\ ~astray => Exclusive'
<1>1. Typed'
  BY DEF IInv, Typed, Moved, ghost
<1>2. Referred'
  <2>1. Named(req[q].op, p) => w # 0
    BY DEF Named, Holds
  <2> QED BY <2>1, ReferredKept DEF IInv, Windowed
<1>3. Rowed'
  BY SameRows
<1>4. Kinds'
  BY DEF IInv, Kinds, Moved, Holds, Owned
<1>5. LockHeld'
  BY DEF IInv, LockHeld, Moved, Holds, AtCore, Typed
<1>6. ~astray => Exclusive'
  BY DEF IInv, Guarded, Exclusive, Moved, Holds, Owned
<1> QED BY <1>1, <1>2, <1>3, <1>4, <1>5, <1>6

\* Outside of tmux nothing moves.
LEMMA WindowsMove ==
  ASSUME IInv, Windowed', Len(wins') = Len(wins),
         UNCHANGED <<backend, req, lock, table, claims, astray>>, runs' \in [Requests -> Nat]
  PROVE  /\ Typed' /\ Referred' /\ Rowed' /\ Kinds' /\ LockHeld'
         /\ ~astray => Exclusive'
<1>1. Typed'
  BY DEF IInv, Typed
<1>2. Referred'
  BY DEF IInv, Referred, Shown, Wins
<1>3. Rowed'
  BY SameRows DEF IInv, Windowed
<1>4. Kinds' /\ LockHeld' /\ (~astray => Exclusive')
  BY DEF IInv, Kinds, LockHeld, Guarded, Exclusive, Holds
<1> QED BY <1>1, <1>2, <1>3, <1>4

-----------------------------------------------------------------------------
(* The launch *)

\* The window that leaves the slot leaves it empty.
LEMMA DetachKeeps == ASSUME IInv, NEW q \in Requests, Detach(q) PROVE IInv'
<1> DEFINE w == req[q].win
           x == [wins[w] EXCEPT !.slot = FALSE, !.launch = 0, !.state = "none", !.name = "history"]
<1>1. /\ req[q].pc = "detach" /\ UNCHANGED <<backend, lock, at, table, claims, ghost>>
      /\ Go(q, "open") /\ w \in Wins /\ w \in 0 .. Len(wins) /\ Len(wins) \in Nat
      /\ req[q].op = "command" /\ Holds(q)
  BY DEF Detach, IInv, Referred, Named, Wins, Windowed, Kinds, Holds
<1>2. wins[w] \in WindowType /\ wins' = [wins EXCEPT ![w] = x]
  <2>1. wins \in Seq(WindowType) /\ w \in DOMAIN wins
    BY <1>1 DEF IInv, Windowed, Wins
  <2>2. wins \in [DOMAIN wins -> WindowType]
    BY <2>1
  <2>3. wins' = [wins EXCEPT ![w].slot = FALSE, ![w].launch = 0,
                             ![w].state = "none", ![w].name = "history"]
    BY DEF Detach
  <2> HIDE DEF w
  <2>4. wins' = [wins EXCEPT ![w] = x]
    BY <2>1, <2>2, <2>3
  <2> QED BY <2>1, <2>2, <2>4
<1>3. /\ x \in WindowType /\ x.pc = wins[w].pc /\ x.run = wins[w].run /\ ~x.slot
      /\ x.launch = 0 /\ x.editor = wins[w].editor
  BY <1>2 DEF WindowType
<1> HIDE DEF x
<1>4. Windowed' /\ Changed(w, x)
  BY <1>1, <1>2, <1>3, WindowChanges DEF IInv, Live
<1>5. /\ Len(wins') = Len(wins) /\ Wins' = Wins
      /\ wins'[w].pc = wins[w].pc /\ wins'[w].run = wins[w].run /\ ~wins'[w].slot
      /\ wins'[w].launch = 0 /\ wins'[w].editor = wins[w].editor
      /\ \A v \in Wins : v # w => wins'[v] = wins[v]
  BY <1>3, <1>4 DEF Changed, Wins
<1>6. Moved(q, req[q].op, "open", req[q].launch, w) /\ req'[q].seen = req[q].seen
  BY <1>1, GoMoves DEF IInv, Steps
<1> HIDE DEF w
<1>7. Typed' /\ Referred' /\ Rowed' /\ Kinds' /\ LockHeld' /\ (~astray => Exclusive')
  BY <1>1, <1>5, <1>6, MovedFields DEF Owned
<1>8. Launches'
  BY <1>1, <1>5, <1>6, LaunchesKept DEF Moved, ghost, Before
<1>9. ASSUME ~astray PROVE SlotGuarded' /\ FileGuarded'
  <2>1. \A v \in Wins : wins[v].pc \notin Launched
    BY <1>1, <1>9, NoneUnderWay DEF Owned, Awaiting
  <2>2. SlotGuarded /\ FileGuarded
    BY <1>9 DEF IInv, Guarded
  <2>3. FileGuarded'
    BY <1>1, <1>5, <1>6, <2>2, FileKept DEF Moved, ForFile, Live, Stays
  <2>4. \A v \in Wins' : ~ForSlot(v)'
    <3>1. \A v \in Wins : ForSlot(v) => v = w
      BY <1>1, <2>2 DEF SlotGuarded, SlotFor, w
    <3> QED BY <1>1, <1>5, <2>1, <3>1 DEF ForSlot, Live
  <2>5. OneSlot' /\ SlotAwaited' /\ SlotState'
    BY <1>1, <1>5, <2>1, <2>2, <2>4 DEF OneSlot, SlotAwaited, SlotState, SlotGuarded, Launched
  <2>6. ASSUME NEW p \in Requests PROVE SlotFor(p)'
    <3>1. req[p].op = "command" /\ req[p].pc \in Owned => p = q
      BY <1>1, <1>9 DEF IInv, Guarded, Exclusive, Owned, Holds
    <3>2. p # q => req'[p] = req[p]
      BY <1>6 DEF Moved
    <3>3. req'[q].pc = "open"
      BY <1>6 DEF Moved
    <3>4. p # q => SlotFor(p)'
      BY <3>1, <3>2 DEF SlotFor, Owned
    <3>5. p = q => SlotFor(p)'
      BY <2>4, <3>3 DEF SlotFor
    <3> QED BY <3>4, <3>5
  <2> QED BY <2>3, <2>5, <2>6 DEF SlotGuarded
<1>10. astray' = astray
  BY <1>1 DEF ghost
<1> QED BY <1>4, <1>7, <1>8, <1>9, <1>10 DEF IInv, Guarded

\* Only the request with the lock launches.
LEMMA OneLauncher ==
  ASSUME IInv, ~astray, NEW q \in Requests, Holds(q), req[q].pc \in Owned
  PROVE  \A p \in Requests : Holds(p) /\ req[p].pc \in Owned => p = q
BY DEF IInv, Guarded, Exclusive

\* The launch of a request that has not started anything goes into window w.
LEMMA LaunchStarts ==
  ASSUME IInv, NEW q \in Requests, req[q].launch # 0, req[q].pc \in Before,
         NEW o, NEW u, Moved(q, o, "poll", req[q].launch, u),
         claims' = claims, runs' = runs,
         NEW w \in Wins', wins'[w].run = req[q].launch,
         wins'[w].launch = 0 \/ (w \in Wins /\ wins'[w].launch = wins[w].launch),
         \A v \in Wins' : v # w => v \in Wins /\ wins'[v] = wins[v]
  PROVE  Launches'
<1>1. /\ runs[req[q].launch] = 0 /\ \A v \in Wins : wins[v].run # req[q].launch
      /\ req[q].launch \in Requests
  BY DEF IInv, Launches, NotStarted, Typed, RequestType
<1>2. \A p \in Requests : req'[p].launch = req[p].launch
                          /\ (req'[p].pc \in Before => p # q /\ req'[p] = req[p])
  BY DEF Moved, Before
<1>3. Unclaimed'
  BY <1>1, <1>2 DEF IInv, Launches, Unclaimed
<1>4. OneClaimant'
  BY <1>2 DEF IInv, Launches, OneClaimant
<1>5. NotStarted'
  BY <1>1, <1>2 DEF IInv, Launches, NotStarted, OneClaimant
<1>6. OneStart' /\ NotRun' /\ Bound' /\ LaunchOnce'
  BY <1>1 DEF IInv, Launches, OneStart, NotRun, Bound, LaunchOnce
<1> QED BY <1>3, <1>4, <1>5, <1>6 DEF Launches

\* A command's window is the one for the slot.
LEMMA SlotStarts ==
  ASSUME IInv, ~astray, NEW q \in Requests, req[q].op = "command", req[q].pc \in Owned,
         NEW w \in Wins', Moved(q, "command", "poll", req[q].launch, w),
         wins'[w].pc = "begin", wins'[w].run = req[q].launch,
         \A v \in Wins' : v # w => v \in Wins /\ wins'[v] = wins[v] /\ ~ForSlot(v)
  PROVE  SlotGuarded'
<1>1. \A p \in Requests : req[p].op = "command" /\ req[p].pc \in Owned => p = q
  BY OneLauncher DEF Holds
<1>2. \A v \in Wins' : ForSlot(v)' => v = w
  BY DEF ForSlot, Live
<1>3. OneSlot'
  BY <1>2 DEF OneSlot
<1>4. SlotAwaited'
  <2> SUFFICES ASSUME NEW v \in Wins', wins'[v].pc \in Launched
               PROVE  \E p \in Requests : req'[p].op = "command" /\ req'[p].pc \in Awaiting
                                          /\ req'[p].win = v
    BY DEF SlotAwaited
  <2>1. v = w
    BY <1>2 DEF ForSlot, Live, Launched
  <2> QED BY <2>1 DEF Moved, Awaiting
<1>5. SlotState'
  BY DEF SlotState, IInv, Guarded, SlotGuarded
<1>6. ASSUME NEW p \in Requests PROVE SlotFor(p)'
  <2>1. CASE p = q
    BY <1>2, <2>1 DEF Moved, SlotFor
  <2>2. CASE p # q
    <3>1. req'[p] = req[p]
      BY <2>2 DEF Moved
    <3> QED BY <1>1, <2>2, <3>1 DEF SlotFor, Owned
  <2> QED BY <2>1, <2>2
<1> QED BY <1>3, <1>4, <1>5, <1>6 DEF SlotGuarded

\* The editor's window is the one for the file.
LEMMA FileStarts ==
  ASSUME IInv, ~astray, NEW q \in Requests, req[q].op = "editor", req[q].pc \in Owned,
         NEW w \in Wins', NEW l, Moved(q, "editor", "poll", l, w),
         wins'[w].pc = "opening", ~wins'[w].editor,
         \A v \in Wins' : v # w => v \in Wins /\ wins'[v] = wins[v] /\ ~ForFile(v)
  PROVE  FileGuarded'
<1>1. \A p \in Requests : req[p].op = "editor" /\ req[p].pc \in Owned => p = q
  BY OneLauncher DEF Holds
<1>2. \A v \in Wins' : ForFile(v)' => v = w
  BY DEF ForFile, Live
<1>3. OneFile'
  BY <1>2 DEF OneFile
<1>4. FileAwaited'
  <2> SUFFICES ASSUME NEW v \in Wins', wins'[v].pc = "opening"
               PROVE  /\ ~wins'[v].editor
                      /\ \E p \in Requests : req'[p].op = "editor" /\ req'[p].pc \in Awaiting
                                             /\ req'[p].win = v
    BY DEF FileAwaited
  <2>1. v = w
    BY <1>2 DEF ForFile, Live
  <2> QED BY <2>1 DEF Moved, Awaiting
<1>5. ASSUME NEW p \in Requests PROVE FileFor(p)'
  <2>1. CASE p = q
    BY <1>2, <2>1 DEF Moved, FileFor
  <2>2. CASE p # q
    <3>1. req'[p] = req[p]
      BY <2>2 DEF Moved
    <3> QED BY <1>1, <2>2, <3>1 DEF FileFor, Owned, Awaiting
  <2> QED BY <2>1, <2>2
<1> QED BY <1>3, <1>4, <1>5 DEF FileGuarded

\* A window is opened for a launch: the only one for the slot, or for the file.
LEMMA OpenWrapperKeeps == ASSUME IInv, NEW q \in Requests, OpenWrapper(q) PROVE IInv'
<1> DEFINE w == Len(wins) + 1
           x == IF req[q].op = "command" THEN Window("run", "begin", req[q].launch)
                ELSE Window("vim", "opening", 0)
           r == [req[q] EXCEPT !.pc = "poll", !.win = w, !.made = TRUE]
<1>1. /\ req[q].pc = "open" /\ UNCHANGED <<backend, lock, table, claims, ghost>>
      /\ Open(x) /\ req' = [req EXCEPT ![q].pc = "poll", ![q].win = w, ![q].made = TRUE]
      /\ Len(wins) \in Nat
      /\ Holds(q) /\ (req[q].op = "command" => req[q].launch # 0)
  BY DEF OpenWrapper, IInv, Windowed, Kinds, Owned
<1>2. req[q] \in RequestType /\ req \in [Requests -> RequestType] /\ req[q].launch \in Requests \cup {0}
  BY DEF IInv, Typed, RequestType
<1>3. /\ x \in WindowType /\ x.launch = 0 /\ ~x.slot /\ ~x.editor
      /\ req[q].op = "command" => x.pc = "begin" /\ x.run = req[q].launch
      /\ req[q].op # "command" => x.pc = "opening" /\ x.run = 0
  BY <1>2 DEF Window, WindowType
<1>4. x.pc # "gone"
  BY <1>3
<1> HIDE DEF x
<1>5. Windowed' /\ Added(x)
  BY <1>1, <1>3, <1>4, OpenAdds DEF IInv
<1>6. /\ Len(wins') = w /\ w \in Wins' /\ wins'[w] = x /\ w \in 0 .. Len(wins') /\ w # 0
      /\ Len(wins') \in Nat /\ Len(wins') >= Len(wins) /\ w \notin Wins /\ w \in Nat
      /\ \A v \in Wins' : v # w => v \in Wins /\ wins'[v] = wins[v]
  BY <1>1, <1>5 DEF Added, Wins
<1> HIDE DEF w
<1>7. req' = [req EXCEPT ![q] = r]
  BY <1>1, <1>2
<1>8. /\ r \in RequestType /\ r.op = req[q].op /\ r.pc = "poll" /\ r.launch = req[q].launch
      /\ r.win = w /\ r.seen = req[q].seen
  BY <1>2, <1>6 DEF RequestType
<1> HIDE DEF r
<1>9. Moved(q, req[q].op, "poll", req[q].launch, w) /\ req'[q].seen = req[q].seen
  BY <1>2, <1>7, <1>8 DEF Moved
<1>10. Typed' /\ Referred' /\ Rowed' /\ Kinds' /\ LockHeld' /\ (~astray => Exclusive')
  BY <1>1, <1>6, <1>9, MovedFields DEF Owned
<1>11. astray' = astray /\ claims' = claims /\ runs' = runs
  BY <1>1 DEF ghost
<1>12. CASE req[q].op = "command"
  <2>1. Launches'
    BY <1>1, <1>3, <1>6, <1>9, <1>11, <1>12, LaunchStarts DEF Before
  <2>2. ASSUME ~astray PROVE SlotGuarded' /\ FileGuarded'
    <3>1. SlotGuarded /\ FileGuarded
      BY <2>2 DEF IInv, Guarded
    <3>2. \A v \in Wins : ~ForSlot(v)
      BY <1>1, <1>12, <3>1 DEF SlotGuarded, SlotFor
    <3>3. SlotGuarded'
      BY <1>1, <1>3, <1>6, <1>9, <1>12, <2>2, <3>2, SlotStarts DEF Owned
    <3>4. FileGuarded'
      BY <1>3, <1>6, <1>9, <1>12, <3>1, FileKept DEF Moved, ForFile, Live, Stays
    <3> QED BY <3>3, <3>4
  <2> QED BY <1>5, <1>10, <1>11, <2>1, <2>2 DEF IInv, Guarded
<1>13. CASE req[q].op = "editor"
  <2>1. Launches'
    BY <1>3, <1>6, <1>9, <1>11, <1>13, LaunchesKept DEF Moved, Before, Launched
  <2>2. ASSUME ~astray PROVE SlotGuarded' /\ FileGuarded'
    <3>1. SlotGuarded /\ FileGuarded
      BY <2>2 DEF IInv, Guarded
    <3>2. \A v \in Wins : ~ForFile(v)
      BY <1>1, <1>13, <3>1 DEF FileGuarded, FileFor
    <3>3. FileGuarded'
      BY <1>1, <1>3, <1>6, <1>9, <1>13, <2>2, <3>2, FileStarts DEF Owned
    <3>4. SlotGuarded'
      <4>1. \A v \in Wins : wins'[v] = wins[v]
        BY <1>5 DEF Added
      <4>2. SlotState
        BY <3>1 DEF SlotGuarded
      <4>3. \A v \in Wins' : /\ ForSlot(v)' => v \in Wins /\ ForSlot(v)
                             /\ wins'[v].pc \in Launched => v \in Wins /\ wins[v].pc \in Launched
                             /\ wins'[v].pc = "mark" \/ (wins'[v].slot /\ wins'[v].pc = "command")
                                  => wins'[v].state = "running"
        BY <1>3, <1>6, <1>13, <4>2 DEF ForSlot, Live, Launched, SlotState
      <4>4. \A p \in Requests : req'[p].op = req[p].op /\ (req[p].op = "command" => Stays(p))
        BY <1>9, <1>13 DEF Moved, Stays
      <4>5. \A v \in Wins : /\ wins'[v].pc # "gone" => Live(v)
                            /\ wins'[v].run = wins[v].run
                            /\ wins'[v].pc \in Launched \cup {"command"} =>
                                 wins[v].pc \in Launched \cup {"command"}
        BY <4>1 DEF Live
      <4>6. Len(wins') \in Nat /\ Len(wins') >= Len(wins)
        BY <1>6
      <4> QED BY <3>1, <4>3, <4>4, <4>5, <4>6, SlotKept
    <3> QED BY <3>3, <3>4
  <2> QED BY <1>5, <1>10, <1>11, <2>1, <2>2 DEF IInv, Guarded
<1> QED BY <1>1, <1>12, <1>13 DEF Holds

\* The slot's window is started over.
LEMMA RespawnKeeps == ASSUME IInv, NEW q \in Requests, Respawn(q) PROVE IInv'
<1> DEFINE w == req[q].win
           x == [wins[w] EXCEPT !.pc = "begin", !.run = req[q].launch]
<1>1. /\ req[q].pc = "respawn" /\ UNCHANGED <<backend, at, table, claims, ghost>>
      /\ w \in Wins /\ w \in 0 .. Len(wins) /\ Len(wins) \in Nat /\ w # 0 /\ w \in Nat
      /\ req[q].op = "command" /\ Holds(q) /\ req[q].launch # 0
  BY DEF Respawn, IInv, Referred, Named, Wins, Windowed, Kinds, Holds
<1>2. CASE Finish(q) /\ UNCHANGED wins
  BY <1>1, <1>2, EndKeeps DEF Awaiting, tmux
<1>3. CASE /\ Up(w) /\ Go(q, "poll") /\ UNCHANGED lock
           /\ wins' = [wins EXCEPT ![w].pc = "begin", ![w].run = req[q].launch]
  <2>1. wins \in Seq(WindowType) /\ w \in DOMAIN wins /\ req[q].launch \in Requests \cup {0}
    BY <1>1 DEF IInv, Windowed, Wins, Typed, RequestType
  <2>2. wins \in [DOMAIN wins -> WindowType]
    BY <2>1
  <2>3. wins[w] \in WindowType /\ wins' = [wins EXCEPT ![w] = x]
    <3> HIDE DEF w
    <3> QED BY <1>3, <2>1, <2>2
  <2>4. /\ x \in WindowType /\ x.pc = "begin" /\ x.run = req[q].launch
        /\ x.slot = wins[w].slot /\ x.launch = wins[w].launch /\ x.editor = wins[w].editor
    BY <2>1, <2>3 DEF WindowType
  <2>5. Live(w)
    BY <1>1, <1>3, UpIsLive DEF IInv
  <2> HIDE DEF x
  <2>6. Windowed' /\ Changed(w, x)
    BY <1>1, <2>3, <2>4, <2>5, WindowChanges DEF IInv
  <2>7. /\ Len(wins') = Len(wins) /\ Wins' = Wins
        /\ wins'[w].pc = "begin" /\ wins'[w].run = req[q].launch
        /\ wins'[w].launch = wins[w].launch /\ wins'[w].editor = wins[w].editor
        /\ \A v \in Wins : v # w => wins'[v] = wins[v]
    BY <2>4, <2>6 DEF Changed, Wins
  <2>8. Moved(q, "command", "poll", req[q].launch, w) /\ req'[q].seen = req[q].seen
    BY <1>1, <1>3, GoMoves DEF IInv, Steps
  <2> HIDE DEF w
  <2>9. Typed' /\ Referred' /\ Rowed' /\ Kinds' /\ LockHeld' /\ (~astray => Exclusive')
    BY <1>1, <1>3, <2>7, <2>8, MovedFields DEF Owned
  <2>10. astray' = astray /\ claims' = claims /\ runs' = runs
    BY <1>1 DEF ghost
  <2>11. Launches'
    BY <1>1, <2>7, <2>8, <2>10, LaunchStarts DEF Before
  <2>12. ASSUME ~astray PROVE SlotGuarded' /\ FileGuarded'
    <3>1. SlotGuarded /\ FileGuarded
      BY <2>12 DEF IInv, Guarded
    <3>2. \A v \in Wins : ForSlot(v) => v = w
      BY <1>1, <3>1 DEF SlotGuarded, SlotFor, w
    <3>3. SlotGuarded'
      BY <1>1, <2>7, <2>8, <2>12, <3>2, SlotStarts DEF Owned
    <3>4. FileGuarded'
      BY <1>1, <2>5, <2>7, <2>8, <3>1, FileKept DEF Moved, ForFile, Live, Stays
    <3> QED BY <3>3, <3>4
  <2> QED BY <2>6, <2>9, <2>10, <2>11, <2>12 DEF IInv, Guarded
<1> QED BY <1>1, <1>2, <1>3 DEF Respawn

\* A window that shows the marks of its launch is not on its way any more.
LEMMA ReadyIsStarted ==
  ASSUME IInv, ~astray, NEW q \in Requests, req[q].pc = "poll", Ready(q)
  PROVE  /\ req[q].op = "command" => wins[req[q].win].pc \notin Launched
         /\ req[q].op = "editor" => wins[req[q].win].pc # "opening"
<1> DEFINE w == req[q].win
<1>1. w \in Wins /\ w \in Nat /\ w # 0 /\ Up(w)
  BY DEF IInv, Referred, Named, Wins, Windowed, Ready
<1>2. Live(w)
  BY <1>1, UpIsLive DEF IInv
<1>3. ASSUME req[q].op = "command" PROVE wins[w].pc \notin Launched
  <2>1. wins[w].launch = req[q].launch /\ req[q].launch # 0
    BY <1>3 DEF Ready, IInv, Kinds
  <2>2. wins[w].run = req[q].launch
    BY <1>2, <1>3 DEF IInv, Guarded, SlotGuarded, SlotFor
  <2>3. runs[req[q].launch] = 1
    BY <1>1, <2>1 DEF IInv, Launches, Bound
  <2> QED BY <1>1, <2>2, <2>3 DEF IInv, Launches, NotRun
<1>4. ASSUME req[q].op = "editor" PROVE wins[w].pc # "opening"
  BY <1>1, <1>4 DEF Ready, IInv, Guarded, FileGuarded, FileAwaited
<1> QED BY <1>3, <1>4

\* The wait for the marks ends well.
LEMMA PollKeeps == ASSUME IInv, NEW q \in Requests, Poll(q) PROVE IInv'
<1>1. /\ req[q].pc = "poll" /\ Ready(q) /\ UNCHANGED <<backend, tmux, table, claims, ghost>>
      /\ Holds(q)
  BY DEF Poll, IInv, Kinds, Owned
<1>2. Calm /\ Windowed' /\ Rowed' /\ wins' = wins /\ Len(wins') = Len(wins)
  BY <1>1, SameWindows, SameRows DEF tmux
<1>3. astray' = astray /\ astray \in BOOLEAN
  BY <1>1 DEF IInv, Typed, ghost
<1>4. ~astray => /\ req[q].op = "command" => wins'[req[q].win].pc \notin Launched
                 /\ req[q].op = "editor" => wins'[req[q].win].pc # "opening"
  BY <1>1, <1>2, ReadyIsStarted
<1>5. CASE Finish(q)
  <2>1. Finished(q)
    BY <1>5, FinishMoves DEF IInv
  <2> QED BY <1>1, <1>2, <1>3, <1>4, <2>1, FinishKeeps DEF ghost
<1>6. CASE Go(q, "list2") /\ UNCHANGED lock
  <2>1. Moved(q, req[q].op, "list2", req[q].launch, req[q].win) /\ req'[q].seen = req[q].seen
    BY <1>6, GoMoves DEF IInv, Steps
  <2>2. SlotFor(q)' /\ FileFor(q)'
    BY <2>1 DEF Moved, SlotFor, FileFor, Awaiting
  <2>3. req[q].win \in 0 .. Len(wins') /\ ~Named(req[q].op, "list2")
    BY <1>1, <1>2 DEF IInv, Referred, Named, Holds
  <2> QED BY <1>1, <1>2, <1>3, <1>4, <1>6, <2>1, <2>2, <2>3, HolderKeeps DEF Owned, Before
<1> QED BY <1>5, <1>6 DEF Poll

\* The wait for the marks ends with a timeout.
LEMMA TimeoutKeeps == ASSUME IInv, NEW q \in Requests, Timeout(q) PROVE IInv'
<1>1. /\ req[q].pc = "poll" /\ UNCHANGED <<backend, tmux, table, claims, runs>> /\ Holds(q)
  BY DEF Timeout, IInv, Kinds, Owned
<1>2. Calm /\ Windowed' /\ Rowed' /\ wins' = wins /\ Len(wins') = Len(wins) /\ Wins' = Wins
  BY <1>1, SameWindows, SameRows DEF tmux
<1>3. CASE Finish(q) /\ astray' = TRUE
  <2>1. Finished(q)
    BY <1>3, FinishMoves DEF IInv
  <2> QED BY <1>1, <1>2, <1>3, <2>1, FinishKeeps
<1>4. CASE Go(q, "clean") /\ UNCHANGED <<lock, astray>>
  <2>1. Moved(q, req[q].op, "clean", req[q].launch, req[q].win) /\ req'[q].seen = req[q].seen
    BY <1>4, GoMoves DEF IInv, Steps
  <2>2. ~astray => SlotFor(q)' /\ FileFor(q)'
    BY <1>1, <1>2, <2>1 DEF Moved, SlotFor, FileFor, Awaiting, IInv, Guarded, SlotGuarded,
                            FileGuarded, ForSlot, ForFile, Live
  <2>3. req[q].win \in 0 .. Len(wins') /\ req[q].win # 0
    BY <1>1, <1>2 DEF IInv, Referred, Named
  <2> QED BY <1>1, <1>2, <1>4, <2>1, <2>2, <2>3, HolderKeeps DEF Owned, Before, Awaiting, ghost
<1> QED BY <1>3, <1>4 DEF Timeout

\* The window of a launch that did not come up is gone before its lock is.
LEMMA CleanKeeps == ASSUME IInv, NEW q \in Requests, Clean(q) PROVE IInv'
<1> DEFINE w == req[q].win
<1>1. /\ req[q].pc = "clean" /\ UNCHANGED <<backend, table, claims, ghost>>
      /\ w \in Wins /\ Len(wins) \in Nat /\ w # 0 /\ w \in Nat
      /\ IF Up(w) THEN Shut(w) ELSE UNCHANGED tmux
  BY DEF Clean, IInv, Referred, Named, Wins, Windowed
<1>2. Finished(q)
  BY FinishMoves DEF Clean, IInv
<1>3. Calm /\ Windowed' /\ wins'[w].pc = "gone"
  <2>1. CASE Up(w)
    <3>0. Windowed' /\ Changed(w, [wins[w] EXCEPT !.pc = "gone"])
      BY <1>1, <2>1, ShutChanges DEF IInv
    <3>1. Windowed' /\ Changed(w, [wins[w] EXCEPT !.pc = "gone"]) /\ wins[w] \in WindowType
      BY <1>1, <3>0 DEF IInv, Windowed, Wins
    <3> HIDE DEF w
    <3> QED BY <1>1, <3>1 DEF Changed, Calm, Wins, WindowType
  <2>2. CASE ~Up(w)
    <3>1. ~Live(w)
      BY <1>1, <2>2, UpIsLive DEF IInv
    <3> QED BY <1>1, <2>2, <3>1, SameWindows DEF tmux, Live
  <2> QED BY <2>1, <2>2
<1>4. Rowed' /\ astray' = astray /\ astray \in BOOLEAN
  BY <1>1, <1>3, SameRows DEF Calm, IInv, Typed, ghost
<1> QED BY <1>1, <1>2, <1>3, <1>4, FinishKeeps DEF ghost, Launched

\* It is left, and the launch with it, when the kill fails.
LEMMA CleanFailsKeeps == ASSUME IInv, NEW q \in Requests, CleanFails(q) PROVE IInv'
<1>1. /\ req[q].pc = "clean" /\ UNCHANGED <<backend, tmux, table, claims, runs>>
      /\ Finish(q) /\ astray' = TRUE
  BY DEF CleanFails
<1>2. Calm /\ Windowed' /\ Rowed'
  BY <1>1, SameWindows, SameRows
<1>3. Finished(q)
  BY <1>1, FinishMoves DEF IInv
<1> QED BY <1>1, <1>2, <1>3, FinishKeeps

-----------------------------------------------------------------------------
(* The wrappers *)

\* Window w moves on by itself.
LEMMA WrapperKeeps ==
  ASSUME IInv, NEW w \in Wins, Windowed', Kept(w), wins'[w].run = wins[w].run, Live(w),
         UNCHANGED <<backend, req, lock, table, claims, astray>>, runs' \in [Requests -> Nat],
         Launches', wins'[w].pc # "opening", ForFile(w)' => ForFile(w),
         ~astray =>
           /\ ForSlot(w)' => ForSlot(w)
           /\ wins'[w].pc \in Launched => wins[w].pc \in Launched
           /\ wins'[w].pc \in Launched \cup {"command"} => wins[w].pc \in Launched \cup {"command"}
           /\ wins'[w].pc = "mark" \/ (wins'[w].slot /\ wins'[w].pc = "command")
                => wins'[w].state = "running"
  PROVE  IInv'
<1>1. /\ Len(wins') = Len(wins) /\ Wins' = Wins /\ \A v \in Wins : v # w => wins'[v] = wins[v]
      /\ Len(wins) \in Nat
  BY DEF Kept, Wins, IInv, Windowed
<1>2. Typed' /\ Referred' /\ Rowed' /\ Kinds' /\ LockHeld' /\ (~astray => Exclusive')
  BY <1>1, WindowsMove
<1>3. \A p \in Requests : req'[p].op = req[p].op /\ Stays(p)
  BY DEF Stays
<1>4. ASSUME ~astray PROVE SlotGuarded' /\ FileGuarded'
  <2>1. SlotGuarded /\ FileGuarded /\ SlotState
    BY <1>4 DEF IInv, Guarded, SlotGuarded
  <2>2. FileGuarded'
    BY <1>1, <1>3, <2>1, FileKept DEF ForFile, Live
  <2>3. \A v \in Wins' : /\ ForSlot(v)' => v \in Wins /\ ForSlot(v)
                         /\ wins'[v].pc \in Launched => v \in Wins /\ wins[v].pc \in Launched
                         /\ wins'[v].pc = "mark" \/ (wins'[v].slot /\ wins'[v].pc = "command")
                              => wins'[v].state = "running"
    BY <1>1, <1>4, <2>1 DEF ForSlot, Live, SlotState
  <2>4. \A v \in Wins : /\ wins'[v].pc # "gone" => Live(v)
                        /\ wins'[v].run = wins[v].run
                        /\ wins'[v].pc \in Launched \cup {"command"} =>
                             wins[v].pc \in Launched \cup {"command"}
    BY <1>1, <1>4 DEF Live
  <2>5. Len(wins') \in Nat /\ Len(wins') >= Len(wins)
    BY <1>1
  <2>6. SlotGuarded'
    BY <1>3, <2>1, <2>3, <2>4, <2>5, SlotKept
  <2> QED BY <2>2, <2>6
<1> QED BY <1>2, <1>4 DEF IInv, Guarded

\* A window is a window.
LEMMA WindowTyped == ASSUME IInv PROVE \A w \in Wins : wins[w] \in WindowType
BY DEF IInv, Windowed, Wins

\* A window keeps its launch.
LEMMA WindowLaunches ==
  ASSUME IInv, NEW w \in Wins, Kept(w), wins'[w].run = wins[w].run, wins'[w].launch = wins[w].launch,
         wins'[w].pc \in Launched => wins[w].pc \in Launched,
         UNCHANGED <<req, claims, runs>>
  PROVE  Launches'
<1>1. Wins' = Wins /\ \A v \in Wins : v # w => wins'[v] = wins[v]
  BY DEF Kept, Wins
<1> QED BY <1>1, LaunchesKept

\* The wrapper marks the state.
LEMMA WrapperStateKeeps == ASSUME IInv, NEW w \in DOMAIN wins, WrapperState(w) PROVE IInv'
<1> DEFINE x == [wins[w] EXCEPT !.pc = "mark", !.state = "running"]
<1>0. wins \in [DOMAIN wins -> WindowType] /\ wins[w] \in WindowType
  BY DEF IInv, Windowed
<1>1. wins' = [wins EXCEPT ![w].pc = "mark", ![w].state = "running"]
  BY DEF WrapperState
<1>2. wins' = [wins EXCEPT ![w] = x]
  BY <1>0, <1>1
<1>3. wins[w].pc = "begin" /\ UNCHANGED <<backend, req, lock, at, table, claims, ghost>> /\ Live(w)
  BY DEF WrapperState, Live
<1>4. wins[w].slot \in BOOLEAN /\ wins[w].launch \in Requests \cup {0} /\ wins[w].editor \in BOOLEAN
  BY <1>0 DEF WindowType
<1>4a. /\ x \in WindowType /\ x.run = wins[w].run /\ x.pc = "mark" /\ x.state = "running"
       /\ x.slot = wins[w].slot /\ x.launch = wins[w].launch /\ x.editor = wins[w].editor
  BY <1>0, <1>4 DEF WindowType
<1> HIDE DEF x
<1>4b. w \in Wins
  BY DEF IInv, Windowed, Wins
<1>4c. Windowed' /\ Changed(w, x)
  BY <1>2, <1>3, <1>4a, <1>4b, WindowChanges DEF IInv
<1>5. /\ w \in Wins /\ Windowed' /\ Kept(w) /\ wins'[w].run = wins[w].run
      /\ wins'[w].pc = "mark" /\ wins'[w].state = "running" /\ wins'[w].slot = wins[w].slot
      /\ wins'[w].launch = wins[w].launch /\ wins'[w].editor = wins[w].editor
  BY <1>4a, <1>4b, <1>4c DEF Changed, Kept
<1>6. Launches' /\ runs' \in [Requests -> Nat] /\ astray' = astray
  BY <1>3, <1>5, WindowLaunches DEF Launched, ghost, IInv, Typed
<1>7. (ForFile(w)' => ForFile(w)) /\ (ForSlot(w)' => ForSlot(w))
  BY <1>3, <1>5 DEF ForFile, ForSlot, Live, Launched
<1> QED BY <1>3, <1>5, <1>6, <1>7, WrapperKeeps DEF Launched

\* The command of the launch is started, for the first time.
LEMMA WrapperBindKeeps == ASSUME IInv, NEW w \in DOMAIN wins, WrapperBind(w) PROVE IInv'
<1>0. wins \in [DOMAIN wins -> WindowType] /\ wins[w] \in WindowType /\ w \in Wins
  BY DEF IInv, Windowed, Wins
<1> DEFINE l == wins[w].run
           x == [wins[w] EXCEPT !.pc = "command", !.slot = TRUE, !.launch = l]
<1>1. wins' = [wins EXCEPT ![w].pc = "command", ![w].slot = TRUE, ![w].launch = l]
  BY DEF WrapperBind
<1>2. wins' = [wins EXCEPT ![w] = x]
  BY <1>0, <1>1
<1>3. /\ wins[w].pc = "mark" /\ UNCHANGED <<backend, req, lock, at, table, claims, astray>> /\ Live(w)
      /\ runs' = [runs EXCEPT ![l] = @ + 1]
  BY DEF WrapperBind, Live
<1>4. /\ l \in Requests /\ l # 0 /\ runs[l] = 0 /\ wins[w].editor \in BOOLEAN
      /\ wins[w].state \in {"none", "running", "settling", "shell"}
  BY <1>0, <1>3 DEF WindowType, IInv, Launches, NotRun, Launched
<1>4a. /\ x \in WindowType /\ x.run = wins[w].run /\ x.pc = "command" /\ x.slot = TRUE
       /\ x.launch = l /\ x.state = wins[w].state /\ x.editor = wins[w].editor
  BY <1>0, <1>4 DEF WindowType
<1> HIDE DEF x
<1>4b. w \in Wins
  BY DEF IInv, Windowed, Wins
<1>4c. Windowed' /\ Changed(w, x)
  BY <1>2, <1>3, <1>4a, <1>4b, WindowChanges DEF IInv
<1>5. /\ w \in Wins /\ Windowed' /\ Kept(w) /\ wins'[w].run = wins[w].run
      /\ wins'[w].pc = "command" /\ wins'[w].slot = TRUE /\ wins'[w].launch = l
      /\ wins'[w].state = wins[w].state /\ wins'[w].editor = wins[w].editor
  BY <1>4a, <1>4b, <1>4c DEF Changed, Kept
<1>6. /\ runs' \in [Requests -> Nat] /\ runs'[l] = 1
      /\ \A k \in Requests : k # l => runs'[k] = runs[k]
  BY <1>3, <1>4 DEF IInv, Typed
<1>7. /\ Wins' = Wins /\ \A v \in Wins : wins'[v].run = wins[v].run
      /\ \A v \in Wins : v # w => wins'[v] = wins[v]
  BY <1>5 DEF Kept, Wins
<1> HIDE DEF l
<1>8. Launches'
  <2>1. l = wins[w].run
    BY DEF l
  <2>2. Unclaimed'
    BY <1>0, <1>3, <1>4, <1>6, <1>7, <2>1 DEF IInv, Launches, Unclaimed
  <2>3. OneClaimant' /\ OneStart'
    BY <1>3, <1>7 DEF IInv, Launches, OneClaimant, OneStart
  <2>4. NotStarted'
    BY <1>0, <1>3, <1>6, <1>7, <2>1 DEF IInv, Launches, NotStarted, Typed, RequestType
  <2>5. NotRun'
    <3> SUFFICES ASSUME NEW v \in Wins, wins'[v].pc \in Launched
                 PROVE  wins'[v].run # 0 /\ runs'[wins'[v].run] = 0
      BY <1>7 DEF NotRun
    <3>1. v # w
      BY <1>5 DEF Launched
    <3>2. wins'[v] = wins[v] /\ wins[v].run # 0 /\ runs[wins[v].run] = 0 /\ wins[v].run # l
      BY <1>0, <1>4, <1>7, <2>1, <3>1 DEF IInv, Launches, NotRun, OneStart
    <3>3. wins[v].run \in Requests \cup {0}
      BY WindowTyped DEF WindowType
    <3> QED BY <1>6, <3>2, <3>3
  <2>6. Bound'
    <3> SUFFICES ASSUME NEW v \in Wins, wins'[v].launch # 0 PROVE runs'[wins'[v].launch] = 1
      BY <1>7 DEF Bound
    <3>1. CASE v = w
      BY <1>5, <1>6, <3>1
    <3>2. CASE v # w
      <4>1. wins'[v] = wins[v] /\ runs[wins[v].launch] = 1 /\ wins[v].launch # 0
        BY <1>7, <3>2 DEF IInv, Launches, Bound
      <4>2. wins[v].launch \in Requests \cup {0}
        BY WindowTyped DEF WindowType
      <4> QED BY <1>4, <1>6, <4>1, <4>2
    <3> QED BY <3>1, <3>2
  <2>7. LaunchOnce'
    BY <1>6 DEF IInv, Launches, LaunchOnce
  <2> QED BY <2>2, <2>3, <2>4, <2>5, <2>6, <2>7 DEF Launches
<1>9. (ForFile(w)' => ForFile(w)) /\ (ForSlot(w)' => ForSlot(w))
  BY <1>3, <1>5 DEF ForFile, ForSlot, Live, Launched
<1>10. ~astray => wins[w].state = "running"
  BY <1>0, <1>3 DEF IInv, Guarded, SlotGuarded, SlotState
<1>11. wins'[w].run = wins[w].run
  BY <1>5 DEF l
<1> QED BY <1>0, <1>3, <1>5, <1>6, <1>8, <1>9, <1>10, <1>11, WrapperKeeps DEF Launched

\* The command ends.
LEMMA CommandEndsKeeps == ASSUME IInv, NEW w \in DOMAIN wins, CommandEnds(w) PROVE IInv'
<1> DEFINE x == [wins[w] EXCEPT !.pc = "settling", !.state = "settling"]
<1>0. wins \in [DOMAIN wins -> WindowType] /\ wins[w] \in WindowType
  BY DEF IInv, Windowed
<1>1. wins' = [wins EXCEPT ![w].pc = "settling", ![w].state = "settling"]
  BY DEF CommandEnds
<1>2. wins' = [wins EXCEPT ![w] = x]
  BY <1>0, <1>1
<1>3. wins[w].pc = "command" /\ UNCHANGED <<backend, req, lock, at, table, claims, ghost>> /\ Live(w)
  BY DEF CommandEnds, Live
<1>4. wins[w].slot \in BOOLEAN /\ wins[w].launch \in Requests \cup {0} /\ wins[w].editor \in BOOLEAN
  BY <1>0 DEF WindowType
<1>4a. /\ x \in WindowType /\ x.run = wins[w].run /\ x.pc = "settling" /\ x.state = "settling"
       /\ x.slot = wins[w].slot /\ x.launch = wins[w].launch /\ x.editor = wins[w].editor
  BY <1>0, <1>4 DEF WindowType
<1> HIDE DEF x
<1>4b. w \in Wins
  BY DEF IInv, Windowed, Wins
<1>4c. Windowed' /\ Changed(w, x)
  BY <1>2, <1>3, <1>4a, <1>4b, WindowChanges DEF IInv
<1>5. /\ w \in Wins /\ Windowed' /\ Kept(w) /\ wins'[w].run = wins[w].run
      /\ wins'[w].pc = "settling" /\ wins'[w].state = "settling"
      /\ wins'[w].slot = wins[w].slot /\ wins'[w].launch = wins[w].launch
      /\ wins'[w].editor = wins[w].editor
  BY <1>4a, <1>4b, <1>4c DEF Changed, Kept
<1>6. Launches' /\ runs' \in [Requests -> Nat] /\ astray' = astray
  BY <1>3, <1>5, WindowLaunches DEF Launched, ghost, IInv, Typed
<1>7. (ForFile(w)' => ForFile(w)) /\ (ForSlot(w)' => ForSlot(w))
  BY <1>3, <1>5 DEF ForFile, ForSlot, Live, Launched
<1> QED BY <1>3, <1>5, <1>6, <1>7, WrapperKeeps DEF Launched

\* The shell shows its first prompt.
LEMMA WrapperPromptKeeps == ASSUME IInv, NEW w \in DOMAIN wins, WrapperPrompt(w) PROVE IInv'
<1> DEFINE s == IF wins[w].launch = wins[w].run THEN "shell" ELSE wins[w].state
           x == [wins[w] EXCEPT !.pc = "shell", !.state = s]
<1>0. wins \in [DOMAIN wins -> WindowType] /\ wins[w] \in WindowType
  BY DEF IInv, Windowed
<1>1. wins' = [wins EXCEPT ![w].pc = "shell", ![w].state = s]
  BY DEF WrapperPrompt
<1>4. /\ wins[w].slot \in BOOLEAN /\ wins[w].launch \in Requests \cup {0} /\ wins[w].editor \in BOOLEAN
      /\ s \in {"none", "running", "settling", "shell"}
  BY <1>0 DEF WindowType
<1> HIDE DEF s
<1>2. wins' = [wins EXCEPT ![w] = x]
  BY <1>0, <1>1
<1>3. wins[w].pc = "settling" /\ UNCHANGED <<backend, req, lock, at, table, claims, ghost>> /\ Live(w)
  BY DEF WrapperPrompt, Live
<1>4a. /\ x \in WindowType /\ x.run = wins[w].run /\ x.pc = "shell" /\ x.slot = wins[w].slot
       /\ x.launch = wins[w].launch /\ x.editor = wins[w].editor
  BY <1>0, <1>4 DEF WindowType
<1> HIDE DEF x
<1>4b. w \in Wins
  BY DEF IInv, Windowed, Wins
<1>4c. Windowed' /\ Changed(w, x)
  BY <1>2, <1>3, <1>4a, <1>4b, WindowChanges DEF IInv
<1>5. /\ w \in Wins /\ Windowed' /\ Kept(w) /\ wins'[w].run = wins[w].run
      /\ wins'[w].pc = "shell" /\ wins'[w].slot = wins[w].slot
      /\ wins'[w].launch = wins[w].launch /\ wins'[w].editor = wins[w].editor
  BY <1>4a, <1>4b, <1>4c DEF Changed, Kept
<1>6. Launches' /\ runs' \in [Requests -> Nat] /\ astray' = astray
  BY <1>3, <1>5, WindowLaunches DEF Launched, ghost, IInv, Typed
<1>7. (ForFile(w)' => ForFile(w)) /\ (ForSlot(w)' => ForSlot(w))
  BY <1>3, <1>5 DEF ForFile, ForSlot, Live, Launched
<1> QED BY <1>3, <1>5, <1>6, <1>7, WrapperKeeps DEF Launched

\* The editor marks its window.
LEMMA EditorMarksKeeps == ASSUME IInv, NEW w \in DOMAIN wins, EditorMarks(w) PROVE IInv'
<1> DEFINE x == [wins[w] EXCEPT !.pc = "vim", !.editor = TRUE]
<1>0. wins \in [DOMAIN wins -> WindowType] /\ wins[w] \in WindowType
  BY DEF IInv, Windowed
<1>1. wins' = [wins EXCEPT ![w].pc = "vim", ![w].editor = TRUE]
  BY DEF EditorMarks
<1>2. wins' = [wins EXCEPT ![w] = x]
  BY <1>0, <1>1
<1>3. wins[w].pc = "opening" /\ UNCHANGED <<backend, req, lock, at, table, claims, ghost>> /\ Live(w)
  BY DEF EditorMarks, Live
<1>4. /\ wins[w].slot \in BOOLEAN /\ wins[w].launch \in Requests \cup {0}
      /\ wins[w].state \in {"none", "running", "settling", "shell"}
  BY <1>0 DEF WindowType
<1>4a. /\ x \in WindowType /\ x.run = wins[w].run /\ x.pc = "vim" /\ x.slot = wins[w].slot
       /\ x.launch = wins[w].launch
  BY <1>0, <1>4 DEF WindowType
<1> HIDE DEF x
<1>4b. w \in Wins
  BY DEF IInv, Windowed, Wins
<1>4c. Windowed' /\ Changed(w, x)
  BY <1>2, <1>3, <1>4a, <1>4b, WindowChanges DEF IInv
<1>5. /\ w \in Wins /\ Windowed' /\ Kept(w) /\ wins'[w].run = wins[w].run
      /\ wins'[w].pc = "vim" /\ wins'[w].slot = wins[w].slot /\ wins'[w].launch = wins[w].launch
  BY <1>4a, <1>4b, <1>4c DEF Changed, Kept
<1>6. Launches' /\ runs' \in [Requests -> Nat] /\ astray' = astray
  BY <1>3, <1>5, WindowLaunches DEF Launched, ghost, IInv, Typed
<1>7. (ForFile(w)' => ForFile(w)) /\ (ForSlot(w)' => ForSlot(w))
  BY <1>3, <1>5 DEF ForFile, ForSlot, Live, Launched
<1> QED BY <1>3, <1>5, <1>6, <1>7, WrapperKeeps DEF Launched

\* The user leaves the editor.
LEMMA EditorExitsKeeps == ASSUME IInv, NEW w \in DOMAIN wins, EditorExits(w) PROVE IInv'
<1>0. /\ wins \in [DOMAIN wins -> WindowType] /\ wins[w] \in WindowType /\ w \in Wins
      /\ wins[w].pc = "vim" /\ UNCHANGED <<backend, req, lock, table, claims, ghost>> /\ Live(w)
  BY DEF IInv, Windowed, EditorExits, Live, Wins
<1>1. CASE Shut(w)
  <2>1. Windowed' /\ Changed(w, [wins[w] EXCEPT !.pc = "gone"])
    BY <1>0, <1>1, ShutChanges DEF IInv
  <2>2. /\ Kept(w) /\ wins'[w].run = wins[w].run /\ wins'[w].pc = "gone"
        /\ wins'[w].launch = wins[w].launch
    BY <1>0, <2>1 DEF Changed, Kept, WindowType
  <2>3. Launches' /\ runs' \in [Requests -> Nat] /\ astray' = astray
    BY <1>0, <2>2, WindowLaunches DEF Launched, ghost, IInv, Typed
  <2>4. ~ForFile(w)' /\ ~ForSlot(w)'
    BY <2>2 DEF ForFile, ForSlot, Live
  <2> QED BY <1>0, <2>1, <2>2, <2>3, <2>4, WrapperKeeps DEF Launched
<1>2. CASE wins' = [wins EXCEPT ![w].pc = "dead"] /\ UNCHANGED at
  <2> DEFINE x == [wins[w] EXCEPT !.pc = "dead"]
  <2>1. wins' = [wins EXCEPT ![w] = x]
    BY <1>0, <1>2
  <2>2. /\ x \in WindowType /\ x.pc = "dead" /\ x.run = wins[w].run /\ x.slot = wins[w].slot
        /\ x.launch = wins[w].launch /\ x.editor = wins[w].editor
    BY <1>0 DEF WindowType
  <2> HIDE DEF x
  <2>6. Windowed' /\ Changed(w, x)
    BY <1>0, <1>2, <2>1, <2>2, WindowChanges DEF IInv
  <2>3. /\ Windowed' /\ Kept(w) /\ wins'[w].run = wins[w].run
        /\ wins'[w].pc = "dead" /\ wins'[w].slot = wins[w].slot
        /\ wins'[w].launch = wins[w].launch /\ wins'[w].editor = wins[w].editor
    BY <1>0, <2>2, <2>6 DEF Changed, Kept
  <2>4. Launches' /\ runs' \in [Requests -> Nat] /\ astray' = astray
    BY <1>0, <2>3, WindowLaunches DEF Launched, ghost, IInv, Typed
  <2>5. (ForFile(w)' => ForFile(w)) /\ (ForSlot(w)' => ForSlot(w))
    BY <1>0, <2>3 DEF ForFile, ForSlot, Live, Launched
  <2> QED BY <1>0, <2>3, <2>4, <2>5, WrapperKeeps DEF Launched
<1> QED BY <1>1, <1>2 DEF EditorExits

-----------------------------------------------------------------------------
(* Faults *)

\* A tmux command fails while a window is taken out of the slot.
LEMMA DetachFails ==
  ASSUME IInv, NEW q \in Requests, req[q].pc = "detach", Finish(q),
         wins' = [wins EXCEPT ![req[q].win].slot = FALSE],
         UNCHANGED <<backend, at, table, claims, ghost>>
  PROVE  IInv'
<1> DEFINE w == req[q].win
           x == [wins[w] EXCEPT !.slot = FALSE]
<1>1. /\ w \in Wins /\ Len(wins) \in Nat /\ req[q].op = "command" /\ Holds(q)
  BY DEF IInv, Referred, Named, Wins, Windowed, Kinds, Holds
<1>2. wins \in [DOMAIN wins -> WindowType] /\ w \in DOMAIN wins /\ wins[w] \in WindowType
  BY <1>1 DEF IInv, Windowed, Wins
<1>3. wins' = [wins EXCEPT ![w] = x]
  BY <1>2
<1>4. /\ x \in WindowType /\ x.pc = wins[w].pc /\ x.run = wins[w].run /\ ~x.slot
      /\ x.launch = wins[w].launch /\ x.editor = wins[w].editor /\ x.state = wins[w].state
  BY <1>2 DEF WindowType
<1> HIDE DEF x
<1>5. Windowed' /\ Changed(w, x)
  BY <1>1, <1>3, <1>4, WindowChanges DEF IInv, Live
<1>6. Finished(q) /\ Moved(q, req[q].op, "done", 0, 0)
  BY FinishMoves DEF IInv, Finished
<1> HIDE DEF w
<1>7. /\ Len(wins') = Len(wins) /\ Wins' = Wins
      /\ wins'[w].pc = wins[w].pc /\ wins'[w].run = wins[w].run /\ ~wins'[w].slot
      /\ wins'[w].launch = wins[w].launch /\ wins'[w].editor = wins[w].editor
      /\ wins'[w].state = wins[w].state
      /\ \A v \in Wins : v # w => wins'[v] = wins[v]
  BY <1>4, <1>5 DEF Changed, Wins
<1>8. Typed'
  BY <1>6 DEF IInv, Typed, Finished, Moved, ghost
<1>9. Referred' /\ Rowed'
  <2>1. ~Named(req[q].op, "done") /\ 0 \in 0 .. Len(wins')
    BY <1>1, <1>7 DEF Named
  <2> QED BY <1>1, <1>6, <1>7, <2>1, ReferredKept, SameRows DEF IInv, Finished
<1>10. Kinds' /\ LockHeld' /\ (~astray => Exclusive')
  <2>1. Kinds'
    BY <1>6 DEF IInv, Kinds, Moved, Holds, Owned
  <2>2. LockHeld'
    BY <1>6, ZeroApart DEF IInv, LockHeld, Finished, Moved, Holds, AtCore, Typed
  <2>3. ~astray => Exclusive'
    BY <1>6 DEF IInv, Guarded, Exclusive, Finished, Moved, Holds, Owned
  <2> QED BY <2>1, <2>2, <2>3
<1>11. Launches'
  BY <1>6, <1>7, LaunchesKept DEF Moved, ghost, Before
<1>12. ASSUME ~astray PROVE SlotGuarded' /\ FileGuarded'
  <2>1. SlotGuarded /\ FileGuarded /\ SlotState
    BY <1>12 DEF IInv, Guarded, SlotGuarded
  <2>2. \A p \in Requests : req'[p].op = req[p].op /\ Stays(p)
    BY <1>6 DEF Moved, Stays, Owned, Awaiting
  <2>3. FileGuarded'
    BY <1>1, <1>7, <2>1, <2>2, FileKept DEF ForFile, Live
  <2>4. \A v \in Wins' : /\ ForSlot(v)' => v \in Wins /\ ForSlot(v)
                         /\ wins'[v].pc \in Launched => v \in Wins /\ wins[v].pc \in Launched
                         /\ wins'[v].pc = "mark" \/ (wins'[v].slot /\ wins'[v].pc = "command")
                              => wins'[v].state = "running"
    BY <1>7, <2>1 DEF ForSlot, Live, SlotState
  <2>5. \A v \in Wins : /\ wins'[v].pc # "gone" => Live(v)
                        /\ wins'[v].run = wins[v].run
                        /\ wins'[v].pc \in Launched \cup {"command"} =>
                             wins[v].pc \in Launched \cup {"command"}
    BY <1>7 DEF Live
  <2>6. Len(wins') \in Nat /\ Len(wins') >= Len(wins)
    BY <1>1, <1>7
  <2>7. SlotGuarded'
    BY <2>1, <2>2, <2>4, <2>5, <2>6, SlotKept
  <2> QED BY <2>3, <2>7
<1>13. astray' = astray
  BY DEF ghost
<1> QED BY <1>5, <1>8, <1>9, <1>10, <1>11, <1>12, <1>13 DEF IInv, Guarded

\* A tmux command fails.
LEMMA FailsKeeps == ASSUME IInv, NEW q \in Requests, Fails(q) PROVE IInv'
<1>1. /\ Finish(q) /\ UNCHANGED <<backend, at, table, claims, ghost>>
      /\ req[q].pc \notin Awaiting \cup {"idle"}
  BY DEF Fails, Awaiting
<1>2. CASE wins' = wins
  BY <1>1, <1>2, EndKeeps DEF tmux
<1>3. CASE req[q].pc = "detach" /\ wins' = [wins EXCEPT ![req[q].win].slot = FALSE]
  BY <1>1, <1>3, DetachFails
<1> QED BY <1>2, <1>3 DEF Fails

\* Request p goes on without anybody who waits, or is over.
Gone(p) ==
  /\ req[p].pc # "idle" /\ req'[p].op = req[p].op /\ req'[p].pc = "done"
  /\ req'[p].launch = 0 /\ req'[p].win = 0 /\ req'[p].seen = <<>>
GoesOn(p) ==
  /\ req'[p].op = req[p].op /\ req'[p].pc = req[p].pc /\ req'[p].launch = req[p].launch
  /\ req'[p].win = req[p].win /\ req'[p].seen = req[p].seen

\* Who is given up: an agent finishes what it has begun, a script over SSH its launch.
LEMMA AbandonedMoves ==
  ASSUME IInv, NEW p \in Requests, req'[p] = Abandoned(p)
  PROVE  /\ req'[p] \in RequestType
         /\ \/ Gone(p) /\ req[p].pc # "done" /\ (backend = "node" => req[p].pc \in AtCore)
                       /\ (backend = "ssh" => req[p].pc \notin Launching)
            \/ GoesOn(p) /\ \/ req[p].pc \in {"idle", "done"}
                            \/ backend = "node" /\ req[p].pc \notin AtCore
                            \/ backend = "ssh" /\ req[p].pc \in Launching
<1>0. req[p] \in RequestType
  BY DEF IInv, Typed
<1>1. CASE req[p].pc \in {"idle", "done"}
  BY <1>0, <1>1 DEF Abandoned, GoesOn
<1>2. CASE /\ req[p].pc \notin {"idle", "done"}
           /\ \/ backend = "node" /\ req[p].pc \notin AtCore
              \/ backend = "ssh" /\ req[p].pc \in Launching
  <2> DEFINE r == [req[p] EXCEPT !.heard = FALSE]
  <2>1. req'[p] = r
    BY <1>2 DEF Abandoned
  <2>2. /\ r \in RequestType /\ r.op = req[p].op /\ r.pc = req[p].pc /\ r.launch = req[p].launch
        /\ r.win = req[p].win /\ r.seen = req[p].seen
    BY <1>0 DEF RequestType
  <2> HIDE DEF r
  <2> QED BY <1>2, <2>1, <2>2 DEF GoesOn
<1>3. CASE /\ req[p].pc \notin {"idle", "done"}
           /\ ~ \/ backend = "node" /\ req[p].pc \notin AtCore
                \/ backend = "ssh" /\ req[p].pc \in Launching
  <2> DEFINE A == Arrived(req[p].op)  r == [A EXCEPT !.pc = "done"]
  <2>1. req'[p] = r
    BY <1>3 DEF Abandoned
  <2>2. A \in RequestType /\ A.op = req[p].op /\ A.launch = 0 /\ A.win = 0 /\ A.seen = <<>>
    BY <1>0, ArrivedTyped DEF RequestType
  <2> HIDE DEF A
  <2>3. /\ r \in RequestType /\ r.op = req[p].op /\ r.pc = "done" /\ r.launch = 0
        /\ r.win = 0 /\ r.seen = <<>>
    BY <2>2 DEF RequestType
  <2> HIDE DEF r
  <2> QED BY <1>3, <2>1, <2>3 DEF Gone
<1> QED BY <1>1, <1>2, <1>3

\* What is left to show of a fault that ends requests.
LEMMA GivenUpKeeps ==
  ASSUME IInv, req' \in [Requests -> RequestType],
         \A p \in Requests : Gone(p) \/ GoesOn(p),
         UNCHANGED <<backend, tmux, table, claims, runs>>, lock' \in Requests \cup {0},
         astray' \in BOOLEAN, astray => astray', LockHeld',
         ~astray' => /\ Exclusive'
                     /\ \A p \in Requests : Gone(p) => req[p].pc \notin Awaiting
  PROVE  IInv'
<1>1. Windowed' /\ Rowed' /\ Wins' = Wins /\ wins' = wins /\ Len(wins) \in Nat
  BY SameWindows, SameRows DEF tmux
<1>2. Typed'
  BY DEF IInv, Typed
<1>3. Referred'
  <2> SUFFICES ASSUME NEW p \in Requests
               PROVE  /\ req'[p].win \in 0 .. Len(wins')
                      /\ Named(req'[p].op, req'[p].pc) => req'[p].win # 0
                      /\ Shown(p)'
    BY DEF Referred
  <2>1. CASE GoesOn(p)
    BY <1>1, <2>1 DEF GoesOn, IInv, Referred, Shown
  <2>2. CASE Gone(p)
    <3>1. Len(req'[p].seen) = 0
      BY <2>2 DEF Gone
    <3> QED BY <1>1, <2>2, <3>1 DEF Gone, Named, Shown
  <2> QED BY <2>1, <2>2
<1>4. Kinds'
  BY DEF IInv, Kinds, Holds, Gone, GoesOn, Owned
<1>5. Launches'
  <2>1. \A p \in Requests : /\ req'[p].launch \in {req[p].launch, 0}
                            /\ req'[p].launch # 0 /\ req'[p].pc \in Before => req[p].pc \in Before
    BY DEF Gone, GoesOn
  <2> QED BY <1>1, <2>1, LaunchesKept
<1>6. ASSUME ~astray' PROVE SlotGuarded' /\ FileGuarded'
  <2>1. SlotGuarded /\ FileGuarded /\ SlotState
    BY <1>6 DEF IInv, Guarded, SlotGuarded
  <2>2. \A p \in Requests : req'[p].op = req[p].op /\ Stays(p)
    BY <1>6 DEF Gone, GoesOn, Stays, Owned
  <2>3. FileGuarded'
    BY <1>1, <2>1, <2>2, FileKept DEF ForFile, Live
  <2>4. \A v \in Wins' : /\ ForSlot(v)' => v \in Wins /\ ForSlot(v)
                         /\ wins'[v].pc \in Launched => v \in Wins /\ wins[v].pc \in Launched
                         /\ wins'[v].pc = "mark" \/ (wins'[v].slot /\ wins'[v].pc = "command")
                              => wins'[v].state = "running"
    BY <1>1, <2>1 DEF ForSlot, Live, SlotState
  <2>5. \A v \in Wins : /\ wins'[v].pc # "gone" => Live(v)
                        /\ wins'[v].run = wins[v].run
                        /\ wins'[v].pc \in Launched \cup {"command"} =>
                             wins[v].pc \in Launched \cup {"command"}
    BY <1>1 DEF Live
  <2>6. Len(wins') \in Nat /\ Len(wins') >= Len(wins)
    BY <1>1
  <2>7. SlotGuarded'
    BY <2>1, <2>2, <2>4, <2>5, <2>6, SlotKept
  <2> QED BY <2>3, <2>7
<1> QED BY <1>1, <1>2, <1>3, <1>4, <1>5, <1>6 DEF IInv, Guarded

\* A remote call is lost.
LEMMA LosesKeeps == ASSUME IInv, NEW q \in Requests, Loses(q) PROVE IInv'
<1>1. /\ backend # "local" /\ backend \in Backends
      /\ req[q].pc \notin AtCore \cup {"idle", "lock", "done"}
      /\ req' = [req EXCEPT ![q] = Abandoned(q)]
      /\ IF backend = "ssh" THEN Release(q) ELSE UNCHANGED lock
      /\ astray' = (astray \/ (backend = "ssh" /\ req[q].pc \in Launching))
      /\ UNCHANGED <<backend, tmux, table, claims, runs>>
  BY DEF Loses, IInv, Typed
<1>2. req'[q] = Abandoned(q) /\ \A p \in Requests : p # q => req'[p] = req[p]
  BY <1>1 DEF IInv, Typed
<1>3. /\ req'[q] \in RequestType
      /\ \/ Gone(q) /\ backend = "ssh" /\ req[q].pc \notin Launching
         \/ GoesOn(q) /\ (backend = "node" \/ (backend = "ssh" /\ req[q].pc \in Launching))
  <2>1. /\ req'[q] \in RequestType
        /\ \/ Gone(q) /\ req[q].pc # "done" /\ (backend = "node" => req[q].pc \in AtCore)
                      /\ (backend = "ssh" => req[q].pc \notin Launching)
           \/ GoesOn(q) /\ \/ req[q].pc \in {"idle", "done"}
                           \/ backend = "node" /\ req[q].pc \notin AtCore
                           \/ backend = "ssh" /\ req[q].pc \in Launching
    BY <1>2, AbandonedMoves
  <2>2. backend \in {"ssh", "node"} /\ req[q].pc \notin AtCore \cup {"idle", "done"}
    BY <1>1 DEF Backends
  <2>3. req[q].pc \notin AtCore /\ req[q].pc \notin {"idle", "done"}
    BY <2>2
  <2>4. CASE backend = "ssh"
    BY <2>1, <2>3, <2>4
  <2>5. CASE backend = "node"
    BY <2>1, <2>3, <2>5
  <2> QED BY <2>2, <2>4, <2>5
<1>4. req' \in [Requests -> RequestType]
  BY <1>1, <1>2, <1>3 DEF IInv, Typed
<1>5. \A p \in Requests : p # q => GoesOn(p)
  BY <1>2 DEF GoesOn
<1>6. LockHeld' /\ lock' \in Requests \cup {0}
  <2>1. lock' \in Requests \cup {0} /\ (lock' # 0 => lock' = lock)
    BY <1>1 DEF Release, IInv, Typed
  <2>2. backend = "ssh" => lock' # q
    BY <1>1, ZeroApart DEF Release
  <2>3. lock' # 0 => GoesOn(lock')
    BY <1>3, <1>5, <2>1, <2>2
  <2>4. \A p \in Requests : req'[p].pc = "sync1" /\ backend = "node" => GoesOn(p)
    BY <1>3, <1>5
  <2> QED BY <1>1, <2>1, <2>3, <2>4 DEF IInv, LockHeld, GoesOn, Holds, AtCore
<1>7. ~astray' => Exclusive' /\ \A p \in Requests : Gone(p) => req[p].pc \notin Awaiting
  <2> SUFFICES ASSUME ~astray' PROVE Exclusive' /\ \A p \in Requests : Gone(p) => req[p].pc \notin Awaiting
    OBVIOUS
  <2>1. ~astray /\ (backend = "ssh" => Gone(q)) /\ (Gone(q) => req[q].pc \notin Awaiting)
    <3>1. ~astray /\ ~(backend = "ssh" /\ req[q].pc \in Launching)
      BY <1>1
    <3>2. Gone(q) => req[q].pc = req[q].pc /\ req[q].pc \notin Launching
      BY <1>1, <1>3, <3>1 DEF Gone, GoesOn
    <3> QED BY <1>3, <3>1, <3>2 DEF Awaiting, Launching
  <2>2. Exclusive
    BY <2>1 DEF IInv, Guarded
  <2>3. Exclusive'
    BY <1>1, <1>3, <1>5, <2>1, <2>2, ZeroApart
       DEF Exclusive, Gone, GoesOn, Holds, Owned, Release, Backends
  <2>4. ASSUME NEW p \in Requests, Gone(p) PROVE req[p].pc \notin Awaiting
    BY <1>5, <2>1, <2>4 DEF Gone, GoesOn, Awaiting
  <2> QED BY <2>3, <2>4
<1>8. astray' \in BOOLEAN /\ (astray => astray')
  BY <1>1 DEF IInv, Typed
<1> QED BY <1>1, <1>3, <1>4, <1>5, <1>6, <1>7, <1>8, GivenUpKeeps

\* The Core dies.
LEMMA CrashKeeps == ASSUME IInv, Crash PROVE IInv'
<1>1. /\ backend \in Backends /\ req' = [p \in Requests |-> Abandoned(p)]
      /\ IF backend = "node" THEN UNCHANGED lock ELSE lock' = 0
      /\ astray' = (astray \/ (backend # "node" /\ \E q \in Requests : req[q].pc \in Launching))
      /\ UNCHANGED <<backend, tmux, table, claims, runs>>
  BY DEF Crash, IInv, Typed
<1>2. \A p \in Requests : req'[p] = Abandoned(p)
  BY <1>1
<1>3. \A p \in Requests :
        /\ req'[p] \in RequestType
        /\ \/ Gone(p) /\ req[p].pc # "done" /\ (backend = "node" => req[p].pc \in AtCore)
                      /\ (backend = "ssh" => req[p].pc \notin Launching)
           \/ GoesOn(p) /\ \/ req[p].pc \in {"idle", "done"}
                           \/ backend = "node" /\ req[p].pc \notin AtCore
                           \/ backend = "ssh" /\ req[p].pc \in Launching
  BY <1>2, AbandonedMoves
<1>4. req' \in [Requests -> RequestType]
  <2> SUFFICES \A p \in Requests : Abandoned(p) \in RequestType
    BY <1>1
  <2> QED BY <1>2, <1>3
<1>5. LockHeld' /\ lock' \in Requests \cup {0}
  <2>1. lock' \in Requests \cup {0} /\ (lock' # 0 => lock' = lock /\ backend = "node")
    BY <1>1 DEF IInv, Typed
  <2>2. lock' # 0 => GoesOn(lock')
    BY <1>3, <2>1 DEF IInv, LockHeld
  <2>3. \A p \in Requests : req'[p].pc # "sync1" \/ backend # "node" \/ GoesOn(p)
    BY <1>3 DEF Gone
  <2> QED BY <1>1, <2>1, <2>2, <2>3 DEF IInv, LockHeld, GoesOn, Holds, AtCore
<1>6. ~astray' => Exclusive' /\ \A p \in Requests : Gone(p) => req[p].pc \notin Awaiting
  <2> SUFFICES ASSUME ~astray' PROVE Exclusive' /\ \A p \in Requests : Gone(p) => req[p].pc \notin Awaiting
    OBVIOUS
  <2>1. ~astray /\ (backend = "node" \/ \A p \in Requests : req[p].pc \notin Launching)
    BY <1>1
  <2>2. Exclusive
    BY <2>1 DEF IInv, Guarded
  <2>3. CASE backend = "node"
    <3>1. Exclusive'
      BY <1>1, <1>3, <2>2, <2>3 DEF Exclusive, Gone, GoesOn, Holds, Owned
    <3>2. \A p \in Requests : Gone(p) => req[p].pc \notin Awaiting
      BY <1>3, <2>3 DEF Gone, GoesOn, Awaiting, AtCore
    <3> QED BY <3>1, <3>2
  <2>4. CASE \A p \in Requests : req[p].pc \notin Launching
    <3>1. \A p \in Requests : req[p].pc \notin Awaiting
      BY <2>4 DEF Awaiting, Launching
    <3>2. CASE backend # "node"
      BY <1>3, <2>4, <3>1, <3>2 DEF Exclusive, Gone, GoesOn, Owned
    <3> QED BY <2>3, <3>2
  <2> QED BY <2>1, <2>3, <2>4
<1>7. astray' \in BOOLEAN /\ (astray => astray')
  BY <1>1 DEF IInv, Typed
<1> QED BY <1>1, <1>3, <1>4, <1>5, <1>6, <1>7, GivenUpKeeps

-----------------------------------------------------------------------------
(* The theorems *)

\* The Workspace with its two shells and no request.
LEMMA Starts == ASSUME Init PROVE IInv
<1> DEFINE n == Cardinality(Requests)
           x == Window("shell", "shell", 0)
           free == [i \in Requests |-> 0]
<1>1. n \in Nat /\ Requests = 1 .. n
  BY RequestsAssumption, FS_CardinalityType
<1>2. /\ x \in WindowType /\ x.pc = "shell" /\ x.run = 0 /\ x.launch = 0 /\ ~x.slot /\ ~x.editor
  BY DEF Window, WindowType
<1>3. wins = <<x, x>> /\ at = <<1, 2>> \o free
  BY DEF Init
<1> HIDE DEF x
<1>4. /\ wins \in Seq(WindowType) /\ Len(wins) = 2 /\ Wins = 1 .. 2 /\ wins[1] = x /\ wins[2] = x
  BY <1>2, <1>3 DEF Wins
<1> HIDE DEF n
<1>5. free \in Seq(Nat) /\ Len(free) = n /\ \A i \in 1 .. n : free[i] = 0
  BY <1>1
<1> HIDE DEF free
<1>6. /\ at \in Seq(Nat) /\ Len(at) = n + 2 /\ at[1] = 1 /\ at[2] = 2
      /\ \A i \in 3 .. n + 2 : at[i] = 0
  <2> DEFINE s == <<1, 2>>
  <2>1. s \in Seq(Nat) /\ Len(s) = 2 /\ s[1] = 1 /\ s[2] = 2
    OBVIOUS
  <2> HIDE DEF s
  <2>2. /\ s \o free \in Seq(Nat) /\ Len(s \o free) = 2 + n
        /\ \A i \in 1 .. 2 + n : (s \o free)[i] = IF i <= 2 THEN s[i] ELSE free[i - 2]
    <3>1. /\ s \o free \in Seq(Nat)
          /\ Len(s \o free) = Len(s) + Len(free)
          /\ \A i \in 1 .. Len(s) + Len(free) :
               (s \o free)[i] = IF i <= Len(s) THEN s[i] ELSE free[i - Len(s)]
      BY <1>5, <2>1, ConcatProperties
    <3> QED BY <1>1, <1>5, <2>1, <3>1
  <2>3. at = s \o free
    BY <1>3 DEF s
  <2> QED BY <1>1, <1>5, <2>1, <2>2, <2>3
<1>7. Windowed
  <2>1. Indexes = 1 .. n + 2
    BY <1>1 DEF Indexes, n
  <2>2. \A i \in 1 .. n + 2 : at[i] \in 0 .. 2 /\ (at[i] = 1 <=> i = 1) /\ (at[i] = 2 <=> i = 2)
    <3> TAKE i \in 1 .. n + 2
    <3>1. i = 1 \/ i = 2 \/ i \in 3 .. n + 2
      BY <1>1
    <3> QED BY <1>6, <3>1
  <2>3. at \in [Indexes -> 0 .. Len(wins)]
    BY <1>4, <1>6, <2>1, <2>2
  <2>4. Indexed
    <3>1. \A i, j \in Indexes : at[i] = at[j] /\ at[i] # 0 => i = j
      BY <1>1, <2>1, <2>2
    <3>2. 1 \in Indexes /\ 2 \in Indexes
      BY <1>1, <2>1
    <3>3. \A w \in Wins : Live(w) <=> \E i \in Indexes : at[i] = w
      <4> TAKE w \in Wins
      <4>1. w = 1 \/ w = 2
        BY <1>4
      <4> QED BY <1>2, <1>4, <1>6, <3>2, <4>1 DEF Live
    <3> QED BY <3>1, <3>3 DEF Indexed
  <2> QED BY <1>4, <2>3, <2>4 DEF Windowed
<1> DEFINE A == Arrived("none")
<1>8. A \in RequestType /\ A.op = "none" /\ A.launch = 0 /\ A.win = 0 /\ A.seen = <<>> /\ A.pc = "idle"
  BY ArrivedTyped DEF Arrived
<1>9. req = [q \in Requests |-> A]
  BY DEF Init
<1> HIDE DEF A
<1>10. \A q \in Requests : req[q] = A
  BY <1>9
<1>11. Typed
  <2>1. backend \in Backends
    BY WindowBudgets DEF Init, BudgetType
  <2> QED BY <1>8, <1>9, <2>1 DEF Init, Typed
<1>12. Referred
  <2>1. Len(A.seen) = 0
    BY <1>8
  <2>2. ~Named("none", "idle")
    BY DEF Named
  <2> QED BY <1>4, <1>8, <1>10, <2>1, <2>2 DEF Referred, Shown
<1>13. Rowed
  BY <1>4 DEF Init, Rowed, Distinct
<1>14. Kinds /\ LockHeld
  BY <1>8, <1>10 DEF Init, Kinds, LockHeld, Holds, Owned
<1>15. \A w \in Wins : wins[w] = x
  BY <1>4
<1>16. Launches
  <2>1. \A l \in Requests : runs[l] = 0
    BY DEF Init
  <2> QED BY <1>2, <1>8, <1>10, <1>15, <2>1, ZeroApart
          DEF Launches, Unclaimed, OneClaimant, NotStarted, OneStart, NotRun, Bound, LaunchOnce,
              Launched
<1>17. Exclusive /\ SlotGuarded /\ FileGuarded
  BY <1>2, <1>8, <1>10, <1>15
     DEF Exclusive, Holds, SlotGuarded, OneSlot, SlotAwaited, SlotState, SlotFor, FileGuarded,
         OneFile, FileAwaited, FileFor, ForSlot, ForFile, Launched
<1> QED BY <1>7, <1>11, <1>12, <1>13, <1>14, <1>16, <1>17 DEF IInv, Guarded

\* Every step keeps the invariant.
LEMMA StepsKeep == ASSUME IInv, [Next]_vars PROVE IInv'
<1>1. CASE UNCHANGED vars
  <2>1. UNCHANGED <<backend, req, lock, claims, runs, astray>> /\ UNCHANGED tmux /\ UNCHANGED table
    BY <1>1 DEF vars, tmux, table
  <2>2. Windowed' /\ Rowed' /\ Wins' = Wins /\ wins' = wins
    BY <2>1, SameWindows, SameRows DEF tmux
  <2>3. Len(wins') = Len(wins) /\ runs' \in [Requests -> Nat]
    BY <2>1, <2>2 DEF IInv, Typed
  <2>4. Typed' /\ Referred' /\ Kinds' /\ LockHeld' /\ (~astray => Exclusive')
    BY <2>1, <2>2, <2>3, WindowsMove
  <2>5. Launches'
    BY <2>1, <2>2, LaunchesKept
  <2>6. SlotGuarded => SlotGuarded'
    BY <2>1, <2>2 DEF SlotGuarded, OneSlot, SlotAwaited, SlotState, SlotFor, ForSlot, Live
  <2>7. FileGuarded => FileGuarded'
    BY <2>1, <2>2 DEF FileGuarded, OneFile, FileAwaited, FileFor, ForFile, Live
  <2> QED BY <2>1, <2>2, <2>4, <2>5, <2>6, <2>7 DEF IInv, Guarded
<1>2. ASSUME NEW q \in Requests, Arrival(q) PROVE IInv'
  BY <1>2, PageKeeps, CreateKeeps, CloseKeeps, CommandKeeps, EditorKeeps DEF Arrival
<1>3. ASSUME NEW q \in Requests, Terminals(q) PROVE IInv'
  BY <1>3, MakeKeeps, InsertKeeps, CheckKeeps, KillKeeps, DropKeeps, MissesKeeps DEF Terminals
<1>4. ASSUME NEW q \in Requests, Launch(q) PROVE IInv'
  BY <1>4, LookKeeps, DetachKeeps, OpenWrapperKeeps, RespawnKeeps, PollKeeps, TimeoutKeeps,
     CleanKeeps DEF Launch
<1>5. ASSUME NEW q \in Requests, Step(q) PROVE IInv'
  BY <1>3, <1>4, <1>5, TakeLockKeeps, ListsKeeps, UnheardKeeps, SyncKeeps
     DEF Step, LocalTerminals, SshTerminals, NodeTerminals, LocalCommand, SshCommand, NodeCommand,
         LocalEditor, SshEditor, NodeEditor, LaunchOf
<1>6. ASSUME NEW w \in DOMAIN wins, Wrapper(w) PROVE IInv'
  BY <1>6, WrapperStateKeeps, WrapperBindKeeps, WrapperPromptKeeps, EditorMarksKeeps DEF Wrapper
<1> QED BY <1>1, <1>2, <1>5, <1>6, FailsKeeps, CleanFailsKeeps, LosesKeeps, CommandEndsKeeps,
           EditorExitsKeeps, CrashKeeps DEF Next

\* The inductive invariant holds in every history.
THEOREM Invariance == Spec => []IInv
<1>1. Init => IInv
  BY Starts
<1>2. IInv /\ [Next]_vars => IInv'
  BY StepsKeep
<1> QED BY <1>1, <1>2, PTL DEF Spec

\* Every variable keeps its type; in particular no two rows of terminals share an id
\* or a window, whichever listings reach reconcile_terminals and in which order.
THEOREM TypeCorrect == Spec => []TypeOK
<1>1. ASSUME IInv PROVE TypeOK
  <2>1. Range(at) \subseteq 0 .. Len(wins)
    BY <1>1 DEF IInv, Windowed, Range
  <2>2. Range(wins) \subseteq WindowType
    BY <1>1 DEF IInv, Windowed, Range
  <2>3. /\ \A r, s \in rows : r.win = s.win \/ r.id = s.id => r = s
        /\ \A r \in rows : r.id \in 1 .. ids /\ r.win \in DOMAIN wins
    BY <1>1 DEF IInv, Rowed, Distinct, Wins, Windowed
  <2> QED BY <1>1, <2>1, <2>2, <2>3 DEF TypeOK, IInv, Typed
<1>2. IInv => TypeOK
  BY <1>1
<1> QED BY <1>2, Invariance, PTL

\* The command of a submitted form is started at most once, however many requests
\* carry the form and whatever is lost, times out or dies (claim_workspace_command).
THEOREM LaunchedOnce == Spec => []LaunchOnce
<1>1. IInv => LaunchOnce
  BY DEF IInv, Launches
<1> QED BY <1>1, Invariance, PTL

\* No error path and no crash keeps the Workspace's lock (_workspace_command_lock).
THEOREM LockIsOwned == Spec => []LockOwned
<1>1. IInv => LockOwned
  BY DEF IInv, LockHeld, LockOwned
<1> QED BY <1>1, Invariance, PTL

\* A set without two members has at most one.
LEMMA AtMostOne ==
  ASSUME NEW S, \A v, w \in S : v = w
  PROVE  Cardinality(S) <= 1
<1>1. CASE S = {}
  BY <1>1, FS_EmptySet
<1>2. CASE S # {}
  <2>1. PICK w : w \in S
    BY <1>2
  <2>2. S = {w}
    BY <2>1
  <2>3. Cardinality({w}) = 1
    BY FS_Singleton
  <2>4. Cardinality(S) = Cardinality({w})
    BY <2>2, Zenon
  <2> QED BY <2>3, <2>4
<1> QED BY <1>1, <1>2

\* As long as no launch was given up that may still go on, the slot has one window
\* and the file one editor (parse_tmux_workspace_command_records).
THEOREM OneOfEach == Spec => []OneWindowEach
<1>1. ASSUME IInv, ~astray PROVE Cardinality(Slotted) <= 1 /\ Cardinality(Editing) <= 1
  <2>1. /\ \A w : w \in Slotted <=> w \in Wins /\ Live(w) /\ wins[w].slot
        /\ \A w : w \in Editing <=> w \in Wins /\ Live(w) /\ wins[w].editor
    BY <1>1, SlottedWindows DEF IInv
  <2>2. OneSlot /\ OneFile
    BY <1>1 DEF IInv, Guarded, SlotGuarded, FileGuarded
  <2>3. \A v, w \in Slotted : v = w
    BY <2>1, <2>2 DEF OneSlot, ForSlot
  <2>4. \A v, w \in Editing : v = w
    BY <2>1, <2>2 DEF OneFile, ForFile
  <2>5. Cardinality(Slotted) <= 1
    <3> HIDE DEF Slotted
    <3> QED BY <2>3, AtMostOne
  <2>6. Cardinality(Editing) <= 1
    BY <2>4, AtMostOne
  <2> QED BY <2>5, <2>6
<1>2. IInv => OneWindowEach
  BY <1>1 DEF OneWindowEach
<1> QED BY <1>2, Invariance, PTL

\* What a step may do to a window whose command runs.
Undisturbed ==
  \A w \in DOMAIN wins : wins[w].pc = "command" /\ ~astray' =>
    \/ wins'[w].pc \in {"command", "settling"}
    \/ \E q \in Requests : req[q].win = w /\ req[q].pc \in {"kill", "clean"}

\* Steps that leave the windows there are as they are.
LEMMA SameUndisturbed ==
  ASSUME IInv, wins' = wins \/ \E x : wins' = Append(wins, x)
  PROVE  Undisturbed
<1>1. CASE wins' = wins
  BY <1>1 DEF Undisturbed
<1>2. CASE \E x : wins' = Append(wins, x)
  <2>1. PICK x : wins' = Append(wins, x)
    BY <1>2
  <2>2. wins \in Seq(WindowType) /\ \A w \in DOMAIN wins : wins'[w] = wins[w]
    BY <2>1 DEF IInv, Windowed
  <2> QED BY <2>2 DEF Undisturbed
<1> QED BY <1>1, <1>2

\* Steps of one window, which is not the one whose command runs or keeps its process.
LEMMA OneUndisturbed ==
  ASSUME IInv, NEW u \in DOMAIN wins, NEW x, wins' = [wins EXCEPT ![u] = x],
         wins[u].pc = "command" /\ ~astray' =>
           \/ x.pc \in {"command", "settling"}
           \/ \E q \in Requests : req[q].win = u /\ req[q].pc \in {"kill", "clean"}
  PROVE  Undisturbed
<1>1. DOMAIN wins' = DOMAIN wins /\ wins'[u] = x /\ \A w \in DOMAIN wins : w # u => wins'[w] = wins[w]
  BY DEF IInv, Windowed
<1> QED BY <1>1 DEF Undisturbed

\* No request starts a command over or closes it while it runs, except to close its
\* terminal or to clean up the launch that the window was made for; as long as no
\* launch was given up that may still go on (_run_workspace_command_locked).
THEOREM RunsUndisturbed == Spec => RunningUndisturbed
<1>1. ASSUME IInv, [Next]_vars PROVE Undisturbed
  <2>0. wins \in [DOMAIN wins -> WindowType] /\ DOMAIN wins = Wins
    BY <1>1 DEF IInv, Windowed, Wins
  <2>1. ASSUME NEW q \in Requests, Arrival(q) \/ TakeLock(q) \/ Unheard(q) \/ Sync(q) \/ Insert(q)
                 \/ Check(q) \/ Drop(q) \/ Poll(q) \/ Timeout(q) \/ Loses(q)
                 \/ CleanFails(q)
        PROVE  wins' = wins
    BY <2>1 DEF Arrival, Page, Create, Close, Command, Editor, TakeLock, Unheard, Sync, Insert,
                Check, Drop, Poll, Timeout, Loses, CleanFails, tmux
  <2>2. ASSUME NEW q \in Requests, Lists(q) \/ Make(q) \/ Misses(q) \/ OpenWrapper(q)
        PROVE  Undisturbed
    <3>1. wins' = wins \/ \E x : wins' = Append(wins, x)
      BY <2>2 DEF Lists, LocalList, SshList, NodeList, List, Make, Misses, OpenWrapper, Open,
                    tmux
    <3> QED BY <1>1, <3>1, SameUndisturbed
  <2>3. ASSUME NEW q \in Requests, Kill(q) \/ Clean(q) PROVE Undisturbed
    <3> DEFINE u == req[q].win  x == [wins[u] EXCEPT !.pc = "gone"]
    <3>1. u \in DOMAIN wins /\ req[q].pc \in {"kill", "clean"}
      BY <1>1, <2>0, <2>3 DEF Kill, Clean, IInv, Referred, Named, Kinds, Windowed, Wins
    <3>2. wins' = wins \/ wins' = [wins EXCEPT ![u] = x]
      BY <2>3 DEF Kill, Clean, Shut, tmux
    <3> HIDE DEF u, x
    <3>3. req[q].win = u
      BY DEF u
    <3> QED BY <1>1, <3>1, <3>2, <3>3, SameUndisturbed, OneUndisturbed
  <2>4. ASSUME NEW q \in Requests, Look(q) PROVE Undisturbed
    <3>1. CASE wins' = wins
      BY <1>1, <3>1, SameUndisturbed
    <3>2. CASE \E u \in Editing : wins[u].pc = "dead" /\ Shut(u)
      <4>1. PICK u \in Editing : wins[u].pc = "dead" /\ Shut(u)
        BY <3>2
      <4> DEFINE x == [wins[u] EXCEPT !.pc = "gone"]
      <4>2. u \in DOMAIN wins /\ wins' = [wins EXCEPT ![u] = x]
        BY <1>1, <2>0, <4>1, SlottedWindows DEF Shut, IInv
      <4> HIDE DEF x
      <4> QED BY <1>1, <4>1, <4>2, OneUndisturbed
    <3> QED BY <2>4, <3>1, <3>2 DEF Look, LookForCommand, LookForEditor, tmux
  <2>5. ASSUME NEW q \in Requests, Detach(q) \/ Fails(q) PROVE Undisturbed
    <3> DEFINE u == req[q].win
    <3>1. CASE wins' = wins
      BY <1>1, <3>1, SameUndisturbed
    <3>2. CASE /\ req[q].pc = "detach"
               /\ \E x \in WindowType : wins' = [wins EXCEPT ![u] = x] /\ x.pc = wins[u].pc
      <4>1. u \in DOMAIN wins
        BY <1>1, <2>0, <3>2 DEF IInv, Referred, Named, Windowed, Wins
      <4>2. PICK x \in WindowType : wins' = [wins EXCEPT ![u] = x] /\ x.pc = wins[u].pc
        BY <3>2
      <4> HIDE DEF u
      <4> QED BY <1>1, <4>1, <4>2, OneUndisturbed
    <3>3. ASSUME Detach(q)
          PROVE  \E x \in WindowType : wins' = [wins EXCEPT ![u] = x] /\ x.pc = wins[u].pc
      <4> DEFINE x == [wins[u] EXCEPT !.slot = FALSE, !.launch = 0, !.state = "none",
                                      !.name = "history"]
      <4>1. u \in DOMAIN wins /\ wins[u] \in WindowType
        BY <1>1, <2>0, <3>3 DEF IInv, Referred, Named, Windowed, Wins, Detach
      <4>2. wins' = [wins EXCEPT ![u].slot = FALSE, ![u].launch = 0,
                                 ![u].state = "none", ![u].name = "history"]
        BY <3>3 DEF Detach
      <4> HIDE DEF u
      <4>3. wins' = [wins EXCEPT ![u] = x]
        BY <2>0, <4>1, <4>2
      <4>4. x \in WindowType /\ x.pc = wins[u].pc
        BY <4>1 DEF WindowType
      <4> HIDE DEF x
      <4> QED BY <4>3, <4>4
    <3>4. ASSUME req[q].pc = "detach", wins' = [wins EXCEPT ![u].slot = FALSE]
          PROVE  \E x \in WindowType : wins' = [wins EXCEPT ![u] = x] /\ x.pc = wins[u].pc
      <4> DEFINE x == [wins[u] EXCEPT !.slot = FALSE]
      <4>1. u \in DOMAIN wins /\ wins[u] \in WindowType
        BY <1>1, <2>0, <3>4 DEF IInv, Referred, Named, Windowed, Wins
      <4> HIDE DEF u
      <4>3. wins' = [wins EXCEPT ![u] = x]
        BY <2>0, <3>4, <4>1
      <4>4. x \in WindowType /\ x.pc = wins[u].pc
        BY <4>1 DEF WindowType
      <4> HIDE DEF x
      <4> QED BY <4>3, <4>4
    <3>5. CASE Detach(q)
      BY <3>2, <3>3, <3>5 DEF Detach
    <3>6. CASE Fails(q)
      BY <3>1, <3>2, <3>4, <3>6 DEF Fails
    <3> QED BY <2>5, <3>5, <3>6
  <2>6. ASSUME NEW q \in Requests, Respawn(q) PROVE Undisturbed
    <3> DEFINE u == req[q].win  x == [wins[u] EXCEPT !.pc = "begin", !.run = req[q].launch]
    <3>1. CASE wins' = wins
      BY <1>1, <3>1, SameUndisturbed
    <3>2. CASE wins' = [wins EXCEPT ![u].pc = "begin", ![u].run = req[q].launch]
      <4>1. u \in DOMAIN wins /\ wins[u] \in WindowType
        BY <1>1, <2>0, <2>6 DEF IInv, Referred, Named, Windowed, Wins, Respawn
      <4>2. ~astray' => wins[u].pc # "command"
        BY <1>1, <2>6 DEF Respawn, IInv, Guarded, SlotGuarded, SlotFor, Kinds, ghost
      <4> HIDE DEF u
      <4>3. wins' = [wins EXCEPT ![u] = x]
        BY <2>0, <3>2, <4>1
      <4> HIDE DEF x
      <4> QED BY <1>1, <4>1, <4>2, <4>3, OneUndisturbed
    <3> QED BY <2>6, <3>1, <3>2 DEF Respawn
  <2>7. ASSUME NEW u \in DOMAIN wins, Wrapper(u) \/ CommandEnds(u) \/ EditorExits(u)
        PROVE  Undisturbed
    <3>1. wins[u] \in WindowType /\ DOMAIN wins' = DOMAIN wins
          /\ \A w \in DOMAIN wins : w # u => wins'[w] = wins[w]
      BY <2>0, <2>7 DEF Wrapper, WrapperState, WrapperBind, WrapperPrompt, EditorMarks, CommandEnds,
                        EditorExits, Shut
    <3>2. wins[u].pc = "command" => wins'[u].pc = "settling"
      BY <2>0, <2>7, <3>1 DEF Wrapper, WrapperState, WrapperBind, WrapperPrompt, EditorMarks,
                              CommandEnds, EditorExits, WindowType
    <3> QED BY <3>1, <3>2 DEF Undisturbed
  <2>8. CASE UNCHANGED vars \/ Crash
    <3>1. wins' = wins
      BY <2>8 DEF vars, Crash, tmux
    <3> QED BY <1>1, <3>1, SameUndisturbed
  <2>9. ASSUME NEW q \in Requests, Step(q) PROVE Undisturbed
    <3>1. CASE Terminals(q)
      BY <1>1, <2>1, <2>2, <2>3, <3>1, SameUndisturbed DEF Terminals
    <3>2. CASE Launch(q)
      BY <1>1, <2>1, <2>2, <2>3, <2>4, <2>5, <2>6, <3>2, SameUndisturbed DEF Launch
    <3> QED BY <1>1, <2>1, <2>2, <2>9, <3>1, <3>2, SameUndisturbed
            DEF Step, LocalTerminals, SshTerminals, NodeTerminals, LocalCommand, SshCommand,
                NodeCommand, LocalEditor, SshEditor, NodeEditor, LaunchOf
  <2> QED BY <1>1, <2>1, <2>5, <2>7, <2>8, <2>9, SameUndisturbed DEF Next
<1>2. IInv /\ [Next]_vars => [Undisturbed]_vars
  BY <1>1
<1> QED BY <1>2, Invariance, PTL DEF Spec, RunningUndisturbed, Undisturbed
=============================================================================
