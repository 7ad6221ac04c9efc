---------------------------- MODULE FilesProofs ----------------------------
(***************************************************************************)
(* Proofs about Files, for any number of requests of any kind, any names,  *)
(* each backend and any number of troubles: type correctness and the four  *)
(* safety invariants.                                                      *)
(*                                                                         *)
(* The invariant says of every request what its step stands for: which     *)
(* kinds reach it (Routed), what was answered and put (Answered), where    *)
(* its temporary file is (Staged), which locks it holds (Locked), and what *)
(* the name may hold by then: for an editor what it has read (Seen), for   *)
(* what creates a name nothing that respects the event loop (Vacant).      *)
(***************************************************************************)
EXTENDS Files, TLAPS

Locks == {"loop", "edit", "recv", "apply"}
TempStates == {"none", "part", "whole", "staged"}
Collects(c) == req[c].kind = "collect"

(* Which kinds of request reach a step.                                     *)
Reaches(c, pc) ==
  /\ pc \in {"read", "edit", "lock", "stream"} => Saves(c)
  /\ pc \in {"open", "close", "check", "temp", "recheck", "reread"} => Saves(c) \/ Collects(c)
  /\ pc \in {"u_check", "u_temp", "feed", "u_close", "final"} => Uploads(c) \/ Collects(c)
  /\ pc = "publish" => Saves(c) \/ Uploads(c) \/ Collects(c)
  /\ pc \in {"review", "apply", "fetch", "new"} => Collects(c)
  /\ pc = "act" => req[c].kind \in {"create", "rename"}
  /\ pc \in {"z_open", "z_read", "z_stage", "z_serve"} => InCore(c)
  /\ (pc = "lock" => backend = "local") /\ (pc \in {"open", "close"} => backend = "node")

Routed(c) == Reaches(c, req[c].pc)

(* What a request has put under a name, and what it was answered.           *)
Answered(c) ==
  /\ req[c].pc # "done" => req[c].ans = "none"
  /\ req[c].put => req[c].pc \in {"reread", "done"} \/ req[c].part = "second"
  /\ req[c].pc = "reread" => req[c].put
  /\ ~req[c].put => req[c].hit = "none"
  /\ req[c].ans = "ok" /\ (Saves(c) \/ Uploads(c) \/ Collects(c))
       => req[c].put /\ req[c].part \in {"only", "both"}
  /\ req[c].ans \in {"conflict", "exists"} /\ req[c].put
       => Collects(c) \/ req[c].part = "second"
  /\ req[c].part # "only" => req[c].kind = "form"
  /\ (req[c].put => req[c].part # "first") /\ (req[c].part = "both" => req[c].pc = "done")

(* The temporary file is whole before it is published and gone afterwards.  *)
Staged(c) ==
  /\ req[c].pc \in {"recheck", "u_close", "final", "publish"} => temp[c] = "whole"
  /\ req[c].pc \in {"start", "read", "act", "reread"} => temp[c] = "none"
  /\ req[c].pc = "done" /\ temp[c] # "none"
       => down.core \/ (backend = "ssh" /\ c \in down.link /\ ~InCore(c))

(* The lock that an editor holds over its checks and its replacement.       *)
EditorsLock == IF backend = "local" THEN "edit" ELSE "recv"

Locked(c) ==
  /\ backend = "local" /\ (req[c].pc = "act" \/ (req[c].pc = "publish" /\ Uploads(c)))
       => held["loop"] = c
  /\ backend # "ssh" /\ Saves(c)
       /\ req[c].pc \in {"check", "temp", "recheck", "publish", "reread"}
       => held[EditorsLock] = c

(* The content is the save of another editor.                               *)
Theirs(c, body) == body \in Clients /\ body # c /\ Saves(body)

(* An editor replaces no save that it has not read, and runs none.          *)
Seen(c) ==
  /\ backend # "ssh" /\ Saves(c) /\ ~MovedTo(req[c].path)
       => /\ req[c].pc = "publish" /\ Theirs(c, disk[req[c].path].body)
               => disk[req[c].path].body = req[c].snap.body
          /\ req[c].put /\ Theirs(c, req[c].hit) => req[c].hit = req[c].snap.body
          /\ req[c].pc = "reread" => ~Theirs(c, disk[req[c].path].body)
          /\ backend = "local" => ~Theirs(c, req[c].ran)
  /\ backend = "node" /\ req[c].ran # "none" => req[c].ran = c
  /\ req[c].ran # "none" => Saves(c)

(* The content may appear while a request holds the event loop.             *)
Unlooped(body) == body \in Clients => Saves(body) \/ Collects(body)

(* The request creates a name.                                              *)
Creates(c) ==
  \/ Collects(c) /\ req[c].snap = NoSnapshot
  \/ req[c].kind \in {"create", "rename"}
  \/ Uploads(c) /\ ~req[c].over

Vacant(c) ==
  /\ backend = "local" /\ req[c].kind = "stream" /\ ~req[c].over /\ req[c].pc = "publish"
       => Unlooped(disk[req[c].path].body)
  /\ backend = "local" /\ req[c].kind = "rename" /\ req[c].pc = "act"
       => Unlooped(disk[req[c].to].body)
  /\ Creates(c) /\ req[c].put /\ req[c].hit # "none"
       => \/ backend = "local" /\ req[c].kind = "form"
          \/ backend = "node" /\ req[c].kind = "rename"
          \/ /\ backend = "local" /\ req[c].kind \in {"stream", "rename"}
             /\ Unlooped(req[c].hit)

Ok(c) == Routed(c) /\ Answered(c) /\ Staged(c) /\ Locked(c) /\ Seen(c) /\ Vacant(c)

IInv == TypeOK /\ WholeFiles /\ \A c \in Clients : Ok(c)

-----------------------------------------------------------------------------
(* What the requests keep, and what one request's step leaves to others.    *)

\* No client is one of the names that contents and holders have besides.
LEMMA ClientNames ==
  ASSUME NEW c \in Clients
  PROVE  c \notin {"nobody", "outside", "base", "part", "none", "dir"}
BY ClientsAssumption

(* The request stays what it is, and what was put stays put.                *)
SameRequest(c) ==
  /\ req'[c].kind = req[c].kind /\ req'[c].path = req[c].path
  /\ req'[c].to = req[c].to /\ req'[c].over = req[c].over
  /\ req[c].put => req'[c].put

(* A step of request c.                                                     *)
StepOf(c) ==
  /\ backend' = backend
  /\ req' \in [Clients -> ReqType]
  /\ temp' \in [Clients -> TempStates]
  /\ SameRequest(c)
  /\ \A d \in Clients : d # c => req'[d] = req[d] /\ temp'[d] = temp[d]

(* The locks of the other requests are left alone.                          *)
SparesLocks(c) ==
  /\ held' \in [Locks -> Clients \cup {NoOne}]
  /\ \A d \in Clients, h \in Locks : d # c /\ held[h] = d => held'[h] = d

\* All requests keep their kind and their names in a step of one.
LEMMA KindsKept ==
  ASSUME NEW c \in Clients, StepOf(c)
  PROVE  \A d \in Clients : SameRequest(d)
BY DEF StepOf, SameRequest

\* What was moved stays moved, and saves, uploads and collections stay what they are.
LEMMA ViewsKept ==
  ASSUME \A d \in Clients : SameRequest(d)
  PROVE  /\ \A p : MovedTo(p) => MovedTo(p)'
         /\ \A d \in Clients : /\ Saves(d)' <=> Saves(d)
                               /\ Uploads(d)' <=> Uploads(d)
                               /\ Collects(d)' <=> Collects(d)
                               /\ InCore(d)' <=> InCore(d)
         /\ \A b : Unlooped(b)' <=> Unlooped(b)
         /\ \A d \in Clients : \A b : Theirs(d, b)' <=> Theirs(d, b)
<1>1. \A d \in Clients : /\ Saves(d)' <=> Saves(d)
                         /\ Uploads(d)' <=> Uploads(d)
                         /\ Collects(d)' <=> Collects(d)
                         /\ InCore(d)' <=> InCore(d)
  BY DEF SameRequest, Saves, Uploads, Collects, InCore
<1>2. \A p : MovedTo(p) => MovedTo(p)'
  BY DEF MovedTo, SameRequest
<1>3. \A b : Unlooped(b)' <=> Unlooped(b)
  BY <1>1 DEF Unlooped
<1>4. \A d \in Clients : \A b : Theirs(d, b)' <=> Theirs(d, b)
  BY <1>1 DEF Theirs
<1> QED BY <1>1, <1>2, <1>3, <1>4

(* The step puts nothing under the name of request d that d must not meet.  *)
Harmless(d) ==
  LET p == req[d].path
      q == req[d].to
  IN
  /\ backend # "ssh" /\ Saves(d) /\ req[d].pc \in {"publish", "reread"} /\ ~MovedTo(p)'
       /\ Theirs(d, disk'[p].body)
       => disk'[p].body = disk[p].body
  /\ backend = "local" /\ req[d].kind = "stream" /\ req[d].pc = "publish"
       /\ Unlooped(disk[p].body)
       => Unlooped(disk'[p].body)
  /\ backend = "local" /\ req[d].kind = "rename" /\ req[d].pc = "act"
       /\ Unlooped(disk[q].body)
       => Unlooped(disk'[q].body)

\* A request that takes no part in a step keeps its invariant.
LEMMA OtherKept ==
  ASSUME IInv, NEW d \in Clients, \A e \in Clients : SameRequest(e), backend' = backend,
         req'[d] = req[d], Harmless(d),
         \/ temp'[d] = temp[d]
         \/ temp'[d] = "none" /\ req[d].pc \notin {"recheck", "u_close", "final", "publish"},
         \/ req[d].pc = "done" \/ InCore(d)
         \/ \A h \in {"loop", EditorsLock} : held[h] = d => held'[h] = d,
         down.core => down'.core, backend = "ssh" => down.link \subseteq down'.link
  PROVE  Ok(d)'
<1>1. Ok(d)
  BY DEF IInv
<1>2. Routed(d)' /\ Answered(d)'
  BY <1>1, ViewsKept DEF Ok, Routed, Reaches, Answered, SameRequest
<1>3. Staged(d)'
  BY <1>1, ViewsKept DEF Ok, Staged
<1>4. Locked(d)'
  <2>1. CASE req[d].pc = "done" \/ InCore(d)
    BY <1>1, <2>1, ViewsKept DEF Ok, Routed, Reaches, Locked, InCore, Uploads, Saves
  <2>2. CASE \A h \in {"loop", EditorsLock} : held[h] = d => held'[h] = d
    BY <1>1, <2>2, ViewsKept DEF Ok, Locked, EditorsLock
  <2> QED BY <2>1, <2>2
<1>5. Seen(d)'
  BY <1>1, ViewsKept DEF Ok, Seen, Harmless
<1>6. Vacant(d)'
  BY <1>1, ViewsKept DEF Ok, Vacant, Harmless, Creates
<1> QED BY <1>2, <1>3, <1>4, <1>5, <1>6 DEF Ok

-----------------------------------------------------------------------------
(* The updates of a request.                                                *)

(* What a request has put, met and run, and what it was answered, stay.     *)
SameDeeds(c) ==
  /\ req'[c].put = req[c].put /\ req'[c].hit = req[c].hit /\ req'[c].ran = req[c].ran
  /\ req'[c].part = req[c].part

SameSource(c) ==
  /\ req'[c].snap = req[c].snap /\ req'[c].base = req[c].base /\ req'[c].ino = req[c].ino

(* The request of a step is the only one that changes.                      *)
Changes(c) ==
  /\ req' \in [Clients -> ReqType]
  /\ SameRequest(c)
  /\ \A d \in Clients : d # c => req'[d] = req[d]

\* What going to another step changes.
LEMMA GotoIs ==
  ASSUME TypeOK, NEW c \in Clients, NEW s \in Steps, Goto(c, s)
  PROVE  /\ Changes(c) /\ SameDeeds(c) /\ SameSource(c)
         /\ req'[c].pc = s /\ req'[c].ans = req[c].ans
<1>1. req \in [Clients -> ReqType] /\ req[c] \in ReqType
  BY DEF TypeOK
<1> DEFINE r == [req[c] EXCEPT !.pc = s]
<1>2. req' = [req EXCEPT ![c] = r]
  BY <1>1 DEF Goto
<1>3. r \in ReqType /\ r.pc = s
  BY <1>1 DEF ReqType
<1>4. /\ r.kind = req[c].kind /\ r.path = req[c].path /\ r.to = req[c].to
      /\ r.over = req[c].over /\ r.put = req[c].put /\ r.hit = req[c].hit
      /\ r.part = req[c].part /\ r.ran = req[c].ran /\ r.snap = req[c].snap /\ r.base = req[c].base
      /\ r.ino = req[c].ino /\ r.ans = req[c].ans
  BY <1>1 DEF ReqType
<1> HIDE DEF r
<1>5. req'[c] = r
  BY <1>1, <1>2
<1>6. req' \in [Clients -> ReqType] /\ \A d \in Clients : d # c => req'[d] = req[d]
  BY <1>1, <1>2, <1>3
<1> QED BY <1>3, <1>4, <1>5, <1>6 DEF Changes, SameRequest, SameDeeds, SameSource

\* The browser gets the answer or hears of the loss.
LEMMA HeardIs ==
  ASSUME NEW c, NEW a \in Answers
  PROVE  Heard(c, a) \in Answers /\ Heard(c, a) \in {a, "lost", "error"}
BY DEF Heard, Answers

\* What answering changes: the request is over, and its browser hears the answer or the loss.
LEMMA AnswerIs ==
  ASSUME TypeOK, NEW c \in Clients, NEW a \in Answers, Answer(c, a)
  PROVE  /\ Changes(c) /\ SameDeeds(c) /\ SameSource(c)
         /\ req'[c].pc = "done" /\ req'[c].ans \in {a, "lost", "error"}
<1>1. req \in [Clients -> ReqType] /\ req[c] \in ReqType
  BY DEF TypeOK
<1> DEFINE b == Heard(c, a)
           r == [req[c] EXCEPT !.pc = "done", !.ans = b]
<1>0. b \in Answers /\ b \in {a, "lost", "error"}
  BY HeardIs
<1>2. req' = [req EXCEPT ![c] = r]
  BY <1>1 DEF Answer
<1> HIDE DEF b
<1>3. r \in ReqType /\ r.pc = "done" /\ r.ans = b
  BY <1>0, <1>1 DEF ReqType, Steps
<1>4. /\ r.kind = req[c].kind /\ r.path = req[c].path /\ r.to = req[c].to
      /\ r.over = req[c].over /\ r.put = req[c].put /\ r.hit = req[c].hit
      /\ r.part = req[c].part /\ r.ran = req[c].ran /\ r.snap = req[c].snap /\ r.base = req[c].base
      /\ r.ino = req[c].ino
  BY <1>1 DEF ReqType
<1> HIDE DEF r
<1>5. req'[c] = r
  BY <1>1, <1>2
<1>6. req' \in [Clients -> ReqType] /\ \A d \in Clients : d # c => req'[d] = req[d]
  BY <1>1, <1>2, <1>3
<1> QED BY <1>0, <1>3, <1>4, <1>5, <1>6 DEF Changes, SameRequest, SameDeeds, SameSource

\* A step that takes the stamp.
LEMMA NotesStamp ==
  ASSUME TypeOK, NEW c \in Clients, NEW s \in Steps, NEW n \in Nat,
         req' = [req EXCEPT ![c].pc = s, ![c].snap.at = n]
  PROVE  /\ Changes(c) /\ SameDeeds(c)
         /\ req'[c].pc = s /\ req'[c].ans = req[c].ans
         /\ req'[c].snap = [body |-> req[c].snap.body, at |-> n]
<1>1. req \in [Clients -> ReqType] /\ req[c] \in ReqType
  BY DEF TypeOK
<1> DEFINE r == req[c]
           k == [r.snap EXCEPT !.at = n]
           q == [r EXCEPT !.pc = s, !.snap = k]
<1>2. req' = [req EXCEPT ![c] = q]
  BY <1>1
<1>3. k = [body |-> r.snap.body, at |-> n] /\ k \in [body: Bodies, at: Nat]
  BY <1>1 DEF ReqType
<1> HIDE DEF k
<1>4. q \in ReqType /\ q.pc = s /\ q.snap = k
  BY <1>1, <1>3 DEF ReqType
<1>5. /\ q.kind = r.kind /\ q.path = r.path /\ q.to = r.to /\ q.over = r.over
      /\ q.part = r.part /\ q.put = r.put /\ q.hit = r.hit /\ q.ran = r.ran /\ q.ans = r.ans
  BY <1>1, <1>3 DEF ReqType
<1> HIDE DEF q
<1>6. req'[c] = q
  BY <1>1, <1>2
<1>7. req' \in [Clients -> ReqType] /\ \A d \in Clients : d # c => req'[d] = req[d]
  BY <1>1, <1>2, <1>4
<1> QED BY <1>3, <1>4, <1>5, <1>6, <1>7 DEF Changes, SameRequest, SameDeeds

\* A step that takes the content.
LEMMA NotesBody ==
  ASSUME TypeOK, NEW c \in Clients, NEW s \in Steps, NEW b \in Bodies,
         req' = [req EXCEPT ![c].pc = s, ![c].snap.body = b]
  PROVE  /\ Changes(c) /\ SameDeeds(c)
         /\ req'[c].pc = s /\ req'[c].ans = req[c].ans
         /\ req'[c].snap = [body |-> b, at |-> req[c].snap.at]
<1>1. req \in [Clients -> ReqType] /\ req[c] \in ReqType
  BY DEF TypeOK
<1> DEFINE r == req[c]
           k == [r.snap EXCEPT !.body = b]
           q == [r EXCEPT !.pc = s, !.snap = k]
<1>2. req' = [req EXCEPT ![c] = q]
  BY <1>1
<1>3. k = [body |-> b, at |-> r.snap.at] /\ k \in [body: Bodies, at: Nat]
  BY <1>1 DEF ReqType
<1> HIDE DEF k
<1>4. q \in ReqType /\ q.pc = s /\ q.snap = k
  BY <1>1, <1>3 DEF ReqType
<1>5. /\ q.kind = r.kind /\ q.path = r.path /\ q.to = r.to /\ q.over = r.over
      /\ q.part = r.part /\ q.put = r.put /\ q.hit = r.hit /\ q.ran = r.ran /\ q.ans = r.ans
  BY <1>1, <1>3 DEF ReqType
<1> HIDE DEF q
<1>6. req'[c] = q
  BY <1>1, <1>2
<1>7. req' \in [Clients -> ReqType] /\ \A d \in Clients : d # c => req'[d] = req[d]
  BY <1>1, <1>2, <1>4
<1> QED BY <1>3, <1>4, <1>5, <1>6, <1>7 DEF Changes, SameRequest, SameDeeds

\* A step that takes the revision of a plan.
LEMMA NotesPlan ==
  ASSUME TypeOK, NEW c \in Clients, NEW s \in Steps, NEW n \in [body: Bodies, at: Nat],
         req' = [req EXCEPT ![c].pc = s, ![c].snap = n]
  PROVE  /\ Changes(c) /\ SameDeeds(c)
         /\ req'[c].pc = s /\ req'[c].ans = req[c].ans
         /\ req'[c].snap = n
<1>1. req \in [Clients -> ReqType] /\ req[c] \in ReqType
  BY DEF TypeOK
<1> DEFINE r == req[c]
           q == [r EXCEPT !.pc = s, !.snap = n]
<1>2. req' = [req EXCEPT ![c] = q]
  BY <1>1
<1>3. r \in ReqType
  BY <1>1
<1>4. q \in ReqType /\ q.pc = s /\ q.snap = n
  BY <1>1, <1>3 DEF ReqType
<1>5. /\ q.kind = r.kind /\ q.path = r.path /\ q.to = r.to /\ q.over = r.over
      /\ q.part = r.part /\ q.put = r.put /\ q.hit = r.hit /\ q.ran = r.ran /\ q.ans = r.ans
  BY <1>1, <1>3 DEF ReqType
<1> HIDE DEF q
<1>6. req'[c] = q
  BY <1>1, <1>2
<1>7. req' \in [Clients -> ReqType] /\ \A d \in Clients : d # c => req'[d] = req[d]
  BY <1>1, <1>2, <1>4
<1> QED BY <1>3, <1>4, <1>5, <1>6, <1>7 DEF Changes, SameRequest, SameDeeds

\* A step that takes the baseline.
LEMMA NotesBase ==
  ASSUME TypeOK, NEW c \in Clients, NEW s \in Steps, NEW b \in Bodies,
         req' = [req EXCEPT ![c].pc = s, ![c].base = b]
  PROVE  /\ Changes(c) /\ SameDeeds(c)
         /\ req'[c].pc = s /\ req'[c].ans = req[c].ans
         /\ req'[c].snap = req[c].snap
<1>1. req \in [Clients -> ReqType] /\ req[c] \in ReqType
  BY DEF TypeOK
<1> DEFINE r == req[c]
           q == [r EXCEPT !.pc = s, !.base = b]
<1>2. req' = [req EXCEPT ![c] = q]
  BY <1>1
<1>3. r \in ReqType
  BY <1>1
<1>4. q \in ReqType /\ q.pc = s /\ q.base = b
  BY <1>1, <1>3 DEF ReqType
<1>5. /\ q.kind = r.kind /\ q.path = r.path /\ q.to = r.to /\ q.over = r.over
      /\ q.part = r.part /\ q.put = r.put /\ q.hit = r.hit /\ q.ran = r.ran /\ q.ans = r.ans
      /\ q.snap = r.snap
  BY <1>1, <1>3 DEF ReqType
<1> HIDE DEF q
<1>6. req'[c] = q
  BY <1>1, <1>2
<1>7. req' \in [Clients -> ReqType] /\ \A d \in Clients : d # c => req'[d] = req[d]
  BY <1>1, <1>2, <1>4
<1> QED BY <1>3, <1>4, <1>5, <1>6, <1>7 DEF Changes, SameRequest, SameDeeds

\* A step that takes the identity of the file.
LEMMA NotesFile ==
  ASSUME TypeOK, NEW c \in Clients, NEW s \in Steps, NEW i \in Nat,
         req' = [req EXCEPT ![c].pc = s, ![c].ino = i]
  PROVE  /\ Changes(c) /\ SameDeeds(c)
         /\ req'[c].pc = s /\ req'[c].ans = req[c].ans
         /\ req'[c].snap = req[c].snap
<1>1. req \in [Clients -> ReqType] /\ req[c] \in ReqType
  BY DEF TypeOK
<1> DEFINE r == req[c]
           q == [r EXCEPT !.pc = s, !.ino = i]
<1>2. req' = [req EXCEPT ![c] = q]
  BY <1>1
<1>3. r \in ReqType
  BY <1>1
<1>4. q \in ReqType /\ q.pc = s /\ q.ino = i
  BY <1>1, <1>3 DEF ReqType
<1>5. /\ q.kind = r.kind /\ q.path = r.path /\ q.to = r.to /\ q.over = r.over
      /\ q.part = r.part /\ q.put = r.put /\ q.hit = r.hit /\ q.ran = r.ran /\ q.ans = r.ans
      /\ q.snap = r.snap
  BY <1>1, <1>3 DEF ReqType
<1> HIDE DEF q
<1>6. req'[c] = q
  BY <1>1, <1>2
<1>7. req' \in [Clients -> ReqType] /\ \A d \in Clients : d # c => req'[d] = req[d]
  BY <1>1, <1>2, <1>4
<1> QED BY <1>3, <1>4, <1>5, <1>6, <1>7 DEF Changes, SameRequest, SameDeeds

\* A step that puts something, or runs what it has put.
LEMMA DeedsAre ==
  ASSUME TypeOK, NEW c \in Clients, NEW s \in Steps, NEW a \in Answers,
         NEW h \in Bodies, NEW b \in Bodies, NEW w \in BOOLEAN, req[c].put => w,
         req' = [req EXCEPT ![c] =
           [req[c] EXCEPT !.pc = s, !.ans = a, !.hit = h, !.put = w, !.ran = b]]
  PROVE  /\ Changes(c) /\ SameSource(c)
         /\ req'[c].pc = s /\ req'[c].ans = a
         /\ req'[c].hit = h /\ req'[c].put = w /\ req'[c].ran = b
         /\ req'[c].part = req[c].part
<1>1. req \in [Clients -> ReqType] /\ req[c] \in ReqType
  BY DEF TypeOK
<1> DEFINE r == [req[c] EXCEPT !.pc = s, !.ans = a, !.hit = h, !.put = w, !.ran = b]
<1>2. req' = [req EXCEPT ![c] = r]
  OBVIOUS
<1>3. r \in ReqType /\ r.pc = s /\ r.ans = a /\ r.hit = h /\ r.put = w /\ r.ran = b
  BY <1>1 DEF ReqType
<1>4. /\ r.kind = req[c].kind /\ r.path = req[c].path /\ r.to = req[c].to
      /\ r.over = req[c].over /\ r.snap = req[c].snap /\ r.base = req[c].base
      /\ r.ino = req[c].ino /\ r.part = req[c].part
  BY <1>1 DEF ReqType
<1> HIDE DEF r
<1>5. req'[c] = r
  BY <1>1, <1>2
<1>6. req' \in [Clients -> ReqType] /\ \A d \in Clients : d # c => req'[d] = req[d]
  BY <1>1, <1>2, <1>3
<1> QED BY <1>3, <1>4, <1>5, <1>6 DEF Changes, SameRequest, SameSource

-----------------------------------------------------------------------------
(* Locks, types and the steps that write nothing.                           *)

\* A request takes a free lock; no other holder loses one.
LEMMA TakeIs ==
  ASSUME TypeOK, NEW c \in Clients, NEW h \in Locks, Free(h), Take(c, h)
  PROVE  /\ SparesLocks(c) /\ held'[h] = c
         /\ \A l \in Locks : held[l] = c => held'[l] = c
<1>1. held \in [Locks -> Clients \cup {NoOne}]
  BY DEF TypeOK, Locks
<1>2. NoOne \notin Clients
  BY ClientsAssumption DEF NoOne
<1>3. held' \in [Locks -> Clients \cup {NoOne}] /\ held'[h] = c
  BY <1>1 DEF Take
<1>4. \A d \in Clients, l \in Locks : held[l] = d => held'[l] = d \/ l = h
  BY <1>1 DEF Take
<1>5. \A d \in Clients : held[h] # d
  BY <1>2 DEF Free
<1> QED BY <1>3, <1>4, <1>5 DEF SparesLocks

\* A request gives back what it holds; no other holder loses a lock.
LEMMA ReleaseIs ==
  ASSUME TypeOK, NEW c \in Clients, Release(c)
  PROVE  SparesLocks(c)
<1>1. held \in [Locks -> Clients \cup {NoOne}]
  BY DEF TypeOK, Locks
<1> QED BY <1>1 DEF Release, SparesLocks

\* A step that leaves the locks alone keeps them with their holders.
LEMMA HeldIs ==
  ASSUME TypeOK, NEW c \in Clients, UNCHANGED held
  PROVE  SparesLocks(c) /\ \A l \in Locks : held[l] = c => held'[l] = c
BY DEF TypeOK, Locks, SparesLocks

\* The temporary file of one request changes.
LEMMA TempIs ==
  ASSUME TypeOK, NEW c \in Clients, NEW t \in TempStates,
         temp' = [temp EXCEPT ![c] = t] \/ (UNCHANGED temp /\ t = temp[c])
  PROVE  /\ temp' \in [Clients -> TempStates] /\ temp'[c] = t
         /\ \A d \in Clients : d # c => temp'[d] = temp[d]
BY DEF TypeOK, TempStates

\* A step of a request leaves the backend and the others alone.
LEMMA StepIs ==
  ASSUME NEW c \in Clients, Changes(c), backend' = backend,
         temp' \in [Clients -> TempStates],
         \A d \in Clients : d # c => temp'[d] = temp[d]
  PROVE  StepOf(c)
BY DEF StepOf, Changes

\* A step of one request keeps the types of what it changes.
LEMMA TypeKept ==
  ASSUME TypeOK, NEW c \in Clients, StepOf(c), SparesLocks(c), clock' \in Nat,
         disk' \in [Paths -> Entries], UNCHANGED <<result, down, left>>
  PROVE  TypeOK'
BY DEF TypeOK, StepOf, SparesLocks, Locks, TempStates

\* A step of one request keeps the invariant when it spares the others.
LEMMA InvariantKept ==
  ASSUME IInv, NEW c \in Clients, StepOf(c), SparesLocks(c), clock' \in Nat,
         disk' \in [Paths -> Entries], UNCHANGED <<result, down, left>>,
         \A d \in Clients : d # c => Harmless(d),
         WholeFiles', Ok(c)'
  PROVE  IInv'
<1>1. TypeOK'
  BY TypeKept DEF IInv
<1>2. ASSUME NEW d \in Clients, d # c
      PROVE  Ok(d)'
  <2>1. \A e \in Clients : SameRequest(e)
    BY KindsKept
  <2>2. /\ backend' = backend /\ req'[d] = req[d] /\ temp'[d] = temp[d]
        /\ down' = down /\ Harmless(d)
        /\ \A h \in {"loop", EditorsLock} : held[h] = d => held'[h] = d
    BY <1>2 DEF StepOf, SparesLocks, EditorsLock, Locks
  <2> QED BY <2>1, <2>2, OtherKept
<1>3. \A d \in Clients : Ok(d)'
  BY <1>2
<1> QED BY <1>1, <1>3 DEF IInv

\* A step of one request that puts nothing keeps the invariant.
LEMMA QuietKept ==
  ASSUME IInv, NEW c \in Clients, StepOf(c), SparesLocks(c), Still, Ok(c)'
  PROVE  IInv'
<1>1. /\ clock' \in Nat /\ disk' \in [Paths -> Entries] /\ disk' = disk
      /\ UNCHANGED <<result, down, left>>
  BY DEF IInv, TypeOK, Still
<1>2. WholeFiles'
  BY <1>1 DEF IInv, WholeFiles
<1>3. \A d \in Clients : Harmless(d)
  BY <1>1 DEF Harmless
<1> QED BY <1>1, <1>2, <1>3, InvariantKept

(* Steps at which nothing is put yet and nothing is decided.                *)
Before == Steps \ {"publish", "reread", "act", "done"}

\* Only a form has put something before it is over: its first file.
LEMMA PutLater ==
  ASSUME IInv, NEW c \in Clients, req[c].pc \notin {"reread", "done"}
  PROVE  /\ req[c].put => req[c].part = "second"
         /\ req[c].kind # "form" => req[c].put = FALSE
BY DEF IInv, Ok, Answered, TypeOK, ReqType

\* A step to a point before anything is put.
LEMMA GoesOn ==
  ASSUME IInv, NEW c \in Clients, StepOf(c), SparesLocks(c), Still, SameDeeds(c),
         req[c].pc \notin {"reread", "done"}, req'[c].pc \in Before,
         req'[c].ans = req[c].ans,
         Routed(c)', Staged(c)', Locked(c)'
  PROVE  IInv'
<1>1. Ok(c) /\ \A d \in Clients : SameRequest(d)
  BY KindsKept DEF IInv
<1>2. Answered(c)'
  BY <1>1, ViewsKept DEF Ok, Answered, SameDeeds, SameRequest, Before
<1>3. /\ req'[c].put = req[c].put /\ req'[c].hit = req[c].hit
      /\ req[c].kind # "form" => req[c].put = FALSE
  BY <1>1 DEF Ok, Answered, SameDeeds, IInv, TypeOK, ReqType
<1>5. backend' = backend /\ disk' = disk
  BY DEF StepOf, Still
<1>4. Vacant(c)'
  BY <1>1, <1>3, <1>5, ViewsKept DEF Ok, Vacant, Before, SameRequest, Creates, Collects, Uploads
<1>6. Seen(c)'
  BY <1>1, <1>3, <1>5, ViewsKept DEF Ok, Seen, SameDeeds, Before, SameRequest, Saves
<1> QED BY <1>2, <1>4, <1>6, QuietKept DEF Ok

\* A request that ends without a temporary file.
LEMMA Ends ==
  ASSUME IInv, NEW c \in Clients, NEW a \in Answers, Answer(c, a), Still, SparesLocks(c),
         temp' = [temp EXCEPT ![c] = "none"] \/ (UNCHANGED temp /\ temp[c] = "none"),
         req[c].pc # "done",
         a = "ok" => InCore(c) \/ req[c].kind \in {"create", "rename", "delete"},
         a \in {"conflict", "exists"} /\ req[c].put
           => Collects(c) \/ req[c].part = "second"
  PROVE  IInv'
<1>0. TypeOK /\ Ok(c)
  BY DEF IInv
<1>1. /\ Changes(c) /\ SameDeeds(c) /\ SameSource(c)
      /\ req'[c].pc = "done" /\ req'[c].ans \in {a, "lost", "error"}
  BY <1>0, AnswerIs
<1>2. /\ temp' \in [Clients -> TempStates] /\ temp'[c] = "none"
      /\ \A d \in Clients : d # c => temp'[d] = temp[d]
  BY <1>0, TempIs DEF TempStates
<1>3. StepOf(c)
  BY <1>1, <1>2, StepIs DEF Still
<1>5. \A d \in Clients : SameRequest(d)
  BY <1>3, KindsKept
<1>6. Routed(c)' /\ Staged(c)' /\ Locked(c)'
  BY <1>1, <1>2 DEF Routed, Reaches, Staged, Locked
<1>7. Answered(c)'
  BY <1>0, <1>1, <1>5, ViewsKept
     DEF Ok, Answered, SameDeeds, SameRequest, InCore, Saves, Uploads, Collects
<1>8. backend' = backend /\ disk' = disk
  BY DEF Still
<1>9. Seen(c)'
  BY <1>0, <1>1, <1>5, <1>8, ViewsKept DEF Ok, Seen, SameDeeds, SameSource, SameRequest
<1>10. Vacant(c)'
  BY <1>0, <1>1, <1>5, <1>8, ViewsKept
     DEF Ok, Vacant, SameDeeds, SameSource, SameRequest, Creates
<1> QED BY <1>3, <1>6, <1>7, <1>9, <1>10, QuietKept DEF Ok

\* A request that leaves its handler: the finally blocks removed the temporary
\* file and released the locks.
LEMMA Leaves ==
  ASSUME IInv, NEW c \in Clients, NEW a \in Answers, Leave(c, a), req[c].pc # "done",
         a = "ok" => InCore(c) \/ req[c].kind \in {"create", "rename", "delete"},
         a \in {"conflict", "exists"} /\ req[c].put
           => Collects(c) \/ req[c].part = "second"
  PROVE  IInv'
<1>1. SparesLocks(c)
  BY ReleaseIs DEF IInv, Leave
<1>2. Answer(c, a) /\ Still /\ temp' = [temp EXCEPT ![c] = "none"]
  BY DEF Leave, Still
<1> QED BY <1>1, <1>2, Ends

\* A step of one request to a later point: it is of a kind that gets there, its
\* temporary file is in order and an editor has its lock.
LEMMA GoesTo ==
  ASSUME IInv, NEW c \in Clients, NEW s \in Before, NEW t \in TempStates,
         Changes(c), SameDeeds(c), req'[c].pc = s, req'[c].ans = req[c].ans,
         req[c].pc \notin {"reread", "done"},
         temp' = [temp EXCEPT ![c] = t] \/ (UNCHANGED temp /\ t = temp[c]),
         s \in {"recheck", "u_close", "final"} => t = "whole",
         s \in {"start", "read"} => t = "none",
         Reaches(c, s), SparesLocks(c), Still,
         backend # "ssh" /\ Saves(c) /\ s \in {"check", "temp", "recheck"}
           => held'[EditorsLock] = c
  PROVE  IInv'
<1>1. /\ temp' \in [Clients -> TempStates] /\ temp'[c] = t
      /\ \A d \in Clients : d # c => temp'[d] = temp[d]
  BY TempIs DEF IInv
<1>2. StepOf(c) /\ backend' = backend
  BY <1>1, StepIs DEF Still
<1>3. \A d \in Clients : SameRequest(d)
  BY <1>2, KindsKept
<1>4. Routed(c)'
  BY <1>2, <1>3, ViewsKept DEF Routed, Reaches, SameRequest
<1>5. Staged(c)'
  BY <1>1 DEF Staged, Before
<1>6. Locked(c)'
  BY <1>2, <1>3, ViewsKept DEF Locked, EditorsLock, Before
<1> QED BY <1>2, <1>4, <1>5, <1>6, GoesOn

\* The lock of an editor that goes on is still its own.
LEMMA LockStays ==
  ASSUME IInv, NEW c \in Clients, UNCHANGED <<held, backend>>, backend # "ssh", Saves(c),
         req[c].pc \in {"check", "temp", "recheck", "publish", "reread"}
  PROVE  held'[EditorsLock] = c /\ EditorsLock' = EditorsLock
BY DEF IInv, Ok, Locked, EditorsLock

-----------------------------------------------------------------------------
(* The editor.                                                              *)

\* The editor notes the modification time.
LEMMA ReadStatKept ==
  ASSUME IInv, NEW c \in Clients, ReadStat(c)
  PROVE  IInv'
<1>0. TypeOK /\ Ok(c)
  BY DEF IInv
<1>1. req[c].pc = "start" /\ temp[c] = "none" /\ UNCHANGED temp /\ Still /\ Saves(c)
  BY <1>0 DEF ReadStat, At, Ok, Staged
<1>2. SparesLocks(c)
  BY <1>0, HeldIs DEF ReadStat
<1>3. CASE IsFile(req[c].path)
  <2> DEFINE n == disk[req[c].path].at
  <2>1. n \in Nat /\ "read" \in Steps /\ "read" \in Before
    BY <1>0 DEF TypeOK, Entries, ReqType, Steps, Before
  <2>2. req' = [req EXCEPT ![c].pc = "read", ![c].snap.at = n]
    BY <1>3 DEF ReadStat
  <2> HIDE DEF n
  <2>3. /\ Changes(c) /\ SameDeeds(c) /\ req'[c].pc = "read" /\ req'[c].ans = req[c].ans
    BY <1>0, <2>1, <2>2, NotesStamp
  <2>4. Reaches(c, "read")
    BY <1>1 DEF Reaches
  <2> QED BY <1>1, <1>2, <2>1, <2>3, <2>4, GoesTo DEF TempStates
<1>4. CASE ~IsFile(req[c].path)
  <2>1. Answer(c, "error") /\ "error" \in Answers
    BY <1>4 DEF ReadStat, Answers
  <2> QED BY <1>1, <1>2, <2>1, Ends
<1> QED BY <1>3, <1>4

\* The editor notes the content.
LEMMA ReadBodyKept ==
  ASSUME IInv, NEW c \in Clients, NEW s \in {"edit", "stream"}, ReadBody(c, s)
  PROVE  IInv'
<1>0. TypeOK /\ Ok(c)
  BY DEF IInv
<1>1. req[c].pc = "read" /\ temp[c] = "none" /\ UNCHANGED temp /\ Still /\ Saves(c)
  BY <1>0 DEF ReadBody, At, Ok, Staged, Routed, Reaches
<1>2. SparesLocks(c)
  BY <1>0, HeldIs DEF ReadBody
<1>3. CASE IsFile(req[c].path)
  <2> DEFINE b == disk[req[c].path].body
  <2>1. b \in Bodies /\ s \in Steps /\ s \in Before
    BY <1>0 DEF TypeOK, Entries, ReqType, Steps, Before
  <2>2. req' = [req EXCEPT ![c].pc = s, ![c].snap.body = b]
    BY <1>3 DEF ReadBody
  <2> HIDE DEF b
  <2>3. /\ Changes(c) /\ SameDeeds(c) /\ req'[c].pc = s /\ req'[c].ans = req[c].ans
    BY <1>0, <2>1, <2>2, NotesBody
  <2>4. Reaches(c, s)
    BY <1>1 DEF Reaches
  <2> QED BY <1>1, <1>2, <2>1, <2>3, <2>4, GoesTo DEF TempStates
<1>4. CASE ~IsFile(req[c].path)
  <2>1. Answer(c, "error") /\ "error" \in Answers
    BY <1>4 DEF ReadBody, Answers
  <2> QED BY <1>1, <1>2, <2>1, Ends
<1> QED BY <1>3, <1>4

\* A step that only goes on, with the locks it has.
LEMMA GoesOnly ==
  ASSUME IInv, NEW c \in Clients, NEW s \in Before, Goto(c, s), Reaches(c, s), Still,
         req[c].pc \notin {"reread", "done"},
         s \notin {"recheck", "u_close", "final", "start", "read"},
         UNCHANGED temp, SparesLocks(c),
         backend # "ssh" /\ Saves(c) /\ s \in {"check", "temp"} => held'[EditorsLock] = c
  PROVE  IInv'
<1>0. TypeOK /\ s \in Steps /\ temp[c] \in TempStates
  BY DEF IInv, TypeOK, Before, TempStates
<1>1. /\ Changes(c) /\ SameDeeds(c) /\ req'[c].pc = s /\ req'[c].ans = req[c].ans
  BY <1>0, GotoIs
<1> QED BY <1>0, <1>1, GoesTo

\* A save has reached the agent.
LEMMA NodeTextArrivesKept ==
  ASSUME IInv, NEW c \in Clients, NodeTextArrives(c)
  PROVE  IInv'
<1>1. req[c].pc = "stream" /\ Saves(c) /\ Still /\ Goto(c, "edit") /\ UNCHANGED <<temp, held>>
  BY DEF NodeTextArrives, At, IInv, Ok, Routed, Reaches
<1>2. SparesLocks(c)
  BY <1>1, HeldIs DEF IInv
<1>3. "edit" \in Before /\ Reaches(c, "edit")
  BY <1>1 DEF Before, Steps, Reaches
<1> QED BY <1>1, <1>2, <1>3, GoesOnly

\* The request to save arrives and takes its way.
LEMMA SaveFileKept ==
  ASSUME IInv, NEW c \in Clients, SaveFile(c)
  PROVE  IInv'
<1>1. req[c].pc = "edit" /\ Saves(c) /\ Still /\ UNCHANGED <<temp, held>>
  BY DEF SaveFile, At, IInv, Ok, Routed, Reaches
<1>2. SparesLocks(c)
  BY <1>1, HeldIs DEF IInv
<1>3. backend \in {"local", "ssh", "node"}
  BY BackendsAssumption DEF IInv, TypeOK
<1>4. PICK s \in {"lock", "check", "open"} :
        /\ Goto(c, s) /\ (backend # "ssh" => s # "check")
        /\ (s = "lock" => backend = "local") /\ (s = "open" => backend = "node")
  <2>1. CASE backend = "local"
    BY <2>1 DEF SaveFile
  <2>2. CASE backend = "ssh"
    BY <2>2 DEF SaveFile
  <2>3. CASE backend = "node"
    BY <2>3 DEF SaveFile
  <2> QED BY <1>3, <2>1, <2>2, <2>3
<1>5. s \in Before /\ Reaches(c, s)
  BY <1>1, <1>4 DEF Before, Steps, Reaches
<1> QED BY <1>1, <1>2, <1>4, <1>5, GoesOnly

\* A local save takes the edit lock.
LEMMA LocalFileCallKept ==
  ASSUME IInv, NEW c \in Clients, LocalFileCall(c)
  PROVE  IInv'
<1>1. req[c].pc = "lock" /\ Saves(c) /\ Still /\ Goto(c, "check") /\ UNCHANGED temp
  BY DEF LocalFileCall, At, IInv, Ok, Routed, Reaches
<1>2. SparesLocks(c) /\ held'["edit"] = c
  BY TakeIs DEF LocalFileCall, IInv, Locks
<1>3. "check" \in Before /\ Reaches(c, "check")
  BY <1>1 DEF Before, Steps, Reaches
<1>4. backend = "local"
  BY <1>1 DEF IInv, Ok, Routed, Reaches
<1> QED BY <1>1, <1>2, <1>3, <1>4, GoesOnly DEF EditorsLock

\* An editor's check: the file is what it has read, or the save ends here.
LEMMA RequireExpectedKept ==
  ASSUME IInv, NEW c \in Clients,
         RequireExpected(c, "open", "close") \/ RequireExpected(c, "check", "temp")
  PROVE  IInv'
<1>0. TypeOK /\ Ok(c)
  BY DEF IInv
<1>1. CASE ExpectedSource(c)
  <2>1. PICK s \in {"close", "temp"} :
          Goto(c, s) /\ req[c].pc = IF s = "close" THEN "open" ELSE "check"
    BY <1>1 DEF RequireExpected, At
  <2>2. UNCHANGED <<temp, held>> /\ Still
    BY <1>1 DEF RequireExpected
  <2>3. SparesLocks(c)
    BY <1>0, <2>2, HeldIs
  <2>4. s \in Before /\ Reaches(c, s)
    BY <1>0, <2>1 DEF Before, Steps, Ok, Routed, Reaches, Saves
  <2>5. backend # "ssh" /\ Saves(c) /\ s \in {"check", "temp"} => held'[EditorsLock] = c
    BY <2>1, <2>2, LockStays DEF Still
  <2> QED BY <2>1, <2>2, <2>3, <2>4, <2>5, GoesOnly
<1>2. CASE ~ExpectedSource(c)
  <2>1. Leave(c, "conflict") /\ req[c].pc \in {"open", "check"} /\ "conflict" \in Answers
    BY <1>2 DEF RequireExpected, At, Answers
  <2>2. req[c].put => req[c].part = "second"
    BY <2>1, PutLater
  <2> QED BY <2>1, <2>2, Leaves
<1> QED BY <1>1, <1>2

\* The receive loop of the agent takes up the end of a save.
LEMMA NodeWriteTextCloseKept ==
  ASSUME IInv, NEW c \in Clients, NodeWriteTextClose(c)
  PROVE  IInv'
<1>1. /\ req[c].pc = "close" /\ Still /\ Goto(c, "check") /\ UNCHANGED temp
      /\ backend = "node" /\ Reaches(c, "close")
  BY DEF NodeWriteTextClose, At, IInv, Ok, Routed, Reaches
<1>2. SparesLocks(c) /\ held'["recv"] = c
  BY TakeIs DEF NodeWriteTextClose, IInv, Locks
<1>3. "check" \in Before /\ Reaches(c, "check")
  BY <1>1 DEF Before, Steps, Reaches
<1> QED BY <1>1, <1>2, <1>3, GoesOnly DEF EditorsLock

\* The content is in its temporary file.
LEMMA PreparedKept ==
  ASSUME IInv, NEW c \in Clients, Prepared(c)
  PROVE  IInv'
<1>0. TypeOK /\ Ok(c)
  BY DEF IInv
<1>1. /\ req[c].pc = "temp" /\ Still /\ Goto(c, "recheck") /\ UNCHANGED held
      /\ temp' = [temp EXCEPT ![c] = "whole"] /\ Reaches(c, "temp")
  BY <1>0 DEF Prepared, At, Ok, Routed, Reaches
<1>2. "recheck" \in Before /\ "recheck" \in Steps /\ Reaches(c, "recheck")
  BY <1>1 DEF Before, Steps, Reaches
<1>3. SparesLocks(c)
  BY <1>0, <1>1, HeldIs
<1>4. backend # "ssh" /\ Saves(c) => held'[EditorsLock] = c
  BY <1>1, LockStays DEF Still
<1>5. /\ Changes(c) /\ SameDeeds(c) /\ req'[c].pc = "recheck" /\ req'[c].ans = req[c].ans
  BY <1>0, <1>1, <1>2, GotoIs
<1> QED BY <1>1, <1>2, <1>3, <1>4, <1>5, GoesTo DEF TempStates

\* A request is about to publish: its file is whole, it has the lock that the
\* code takes, and the name holds nothing that the code excludes.
LEMMA WillPublish ==
  ASSUME IInv, NEW c \in Clients, Goto(c, "publish"), Still, SparesLocks(c),
         req[c].pc \notin {"reread", "done"}, Reaches(c, "publish"),
         temp' \in [Clients -> TempStates], temp'[c] = "whole",
         \A d \in Clients : d # c => temp'[d] = temp[d],
         backend = "local" /\ Uploads(c) => held'["loop"] = c,
         backend # "ssh" /\ Saves(c)
           => held'[EditorsLock] = c /\ Snapshot(req[c].path) = req[c].snap,
         backend = "local" /\ req[c].kind = "stream" /\ ~req[c].over
           => Unlooped(disk[req[c].path].body)
  PROVE  IInv'
<1>0. TypeOK /\ Ok(c) /\ "publish" \in Steps
  BY DEF IInv, Steps
<1>1. /\ Changes(c) /\ SameDeeds(c) /\ SameSource(c)
      /\ req'[c].pc = "publish" /\ req'[c].ans = req[c].ans
  BY <1>0, GotoIs
<1>2. StepOf(c) /\ backend' = backend /\ disk' = disk
  BY <1>1, StepIs DEF Still
<1>3. \A d \in Clients : SameRequest(d)
  BY <1>2, KindsKept
<1>4. Routed(c)'
  BY <1>1, <1>2, <1>3, ViewsKept DEF Routed, Reaches, SameRequest
<1>5. /\ req'[c].put = req[c].put /\ req'[c].hit = req[c].hit
      /\ req[c].kind # "form" => req[c].put = FALSE
  BY <1>1, PutLater DEF SameDeeds
<1>6. Answered(c)'
  BY <1>0, <1>1, <1>3, <1>5, ViewsKept DEF Ok, Answered, SameDeeds, SameRequest
<1>7. Staged(c)'
  BY <1>1 DEF Staged
<1>8. Locked(c)'
  BY <1>1, <1>2, <1>3, ViewsKept DEF Locked, EditorsLock
<1>9. backend # "ssh" /\ Saves(c) => disk[req[c].path].body = req[c].snap.body
  BY DEF Snapshot
<1>10. Seen(c)'
  BY <1>0, <1>1, <1>2, <1>3, <1>5, <1>9, ViewsKept
     DEF Ok, Seen, SameDeeds, SameSource, SameRequest, Saves
<1>11. Vacant(c)'
  BY <1>0, <1>1, <1>2, <1>3, <1>5, ViewsKept
     DEF Ok, Vacant, SameRequest, SameSource, Creates
<1> QED BY <1>2, <1>4, <1>6, <1>7, <1>8, <1>10, <1>11, QuietKept DEF Ok

\* The second check, right before the replacement.
LEMMA RecheckKept ==
  ASSUME IInv, NEW c \in Clients, RequireExpected(c, "recheck", "publish")
  PROVE  IInv'
<1>0. TypeOK /\ Ok(c)
  BY DEF IInv
<1>1. CASE ExpectedSource(c)
  <2>1. /\ Goto(c, "publish") /\ req[c].pc = "recheck" /\ UNCHANGED <<temp, held>> /\ Still
        /\ Snapshot(req[c].path) = req[c].snap
    BY <1>1 DEF RequireExpected, At, ExpectedSource
  <2>2. SparesLocks(c)
    BY <1>0, <2>1, HeldIs
  <2>3. /\ Saves(c) \/ Collects(c)
        /\ Reaches(c, "publish") /\ temp[c] = "whole"
    BY <1>0, <2>1 DEF Ok, Routed, Reaches, Staged
  <2>4. temp' \in [Clients -> TempStates] /\ temp'[c] = "whole"
    BY <1>0, <2>1, <2>3 DEF TypeOK, TempStates
  <2>5. backend # "ssh" /\ Saves(c) => held'[EditorsLock] = c
    BY <2>1, LockStays DEF Still
  <2>6. ~Uploads(c) /\ req[c].kind # "stream"
    BY <2>3 DEF Saves, Uploads, Collects
  <2> QED BY <2>1, <2>2, <2>3, <2>4, <2>5, <2>6, WillPublish
<1>2. CASE ~ExpectedSource(c)
  <2>1. Leave(c, "conflict") /\ req[c].pc = "recheck" /\ "conflict" \in Answers
    BY <1>2 DEF RequireExpected, At, Answers
  <2>2. req[c].put => req[c].part = "second"
    BY <2>1, PutLater
  <2> QED BY <2>1, <2>2, Leaves
<1> QED BY <1>1, <1>2

-----------------------------------------------------------------------------
(* Publishing.                                                              *)

\* Two requests never hold the same lock.
LEMMA OneHolder ==
  ASSUME NEW c, NEW d, NEW h, held[h] = c, held[h] = d
  PROVE  c = d
OBVIOUS

\* A request that puts its content under its name harms no other.
LEMMA PutHarmless ==
  ASSUME IInv, NEW c \in Clients, NEW d \in Clients, d # c,
         req[c].pc = "publish" \/ (req[c].pc = "act" /\ req[c].kind = "create"),
         \A p \in Paths : disk'[p].body \in {disk[p].body, c}
  PROVE  Harmless(d)
<1>0. Ok(c) /\ Ok(d) /\ req[d].path \in Paths /\ req[d].to \in Paths
  BY DEF IInv, TypeOK, ReqType
<1> DEFINE p == req[d].path
           q == req[d].to
<1>1. Saves(c) => req[c].pc = "publish"
  BY DEF Saves
<1>2. ASSUME backend # "ssh", Saves(d), req[d].pc \in {"publish", "reread"},
             Theirs(d, disk'[p].body)
      PROVE  disk'[p].body = disk[p].body
  <2>1. CASE Saves(c)
    <3>1. held[EditorsLock] = c /\ held[EditorsLock] = d
      BY <1>0, <1>1, <1>2, <2>1 DEF Ok, Locked
    <3> QED BY <3>1
  <2>2. CASE ~Saves(c)
    BY <1>0, <1>2, <2>2 DEF Theirs
  <2> QED BY <2>1, <2>2
<1>3. ASSUME backend = "local", held["loop"] = d
      PROVE  Saves(c) \/ Collects(c)
  BY <1>0, <1>3 DEF Ok, Locked, Routed, Reaches
<1>4. ASSUME backend = "local", req[d].kind = "stream", req[d].pc = "publish",
             Unlooped(disk[p].body)
      PROVE  Unlooped(disk'[p].body)
  BY <1>0, <1>3, <1>4 DEF Ok, Locked, Uploads, Unlooped
<1>5. ASSUME backend = "local", req[d].kind = "rename", req[d].pc = "act",
             Unlooped(disk[q].body)
      PROVE  Unlooped(disk'[q].body)
  BY <1>0, <1>3, <1>5 DEF Ok, Locked, Unlooped
<1> QED BY <1>2, <1>4, <1>5 DEF Harmless

\* What a replacement does to the request.
LEMMA PutIs ==
  ASSUME TypeOK, NEW c \in Clients, NEW s \in Steps, NEW a \in Answers,
         NEW h \in Bodies, NEW g \in Parts, NEW w \in BOOLEAN, req[c].put => w,
         req' = [req EXCEPT ![c] =
           [req[c] EXCEPT !.hit = h, !.put = w, !.part = g, !.pc = s, !.ans = a]]
  PROVE  /\ Changes(c) /\ SameSource(c)
         /\ req'[c].pc = s /\ req'[c].ans = a /\ req'[c].ran = req[c].ran
         /\ req'[c].hit = h /\ req'[c].put = w /\ req'[c].part = g
<1>1. req \in [Clients -> ReqType] /\ req[c] \in ReqType
  BY DEF TypeOK
<1> DEFINE r == [req[c] EXCEPT !.hit = h, !.put = w, !.part = g, !.pc = s, !.ans = a]
<1>2. req' = [req EXCEPT ![c] = r]
  OBVIOUS
<1>3. r \in ReqType /\ r.pc = s /\ r.ans = a /\ r.hit = h /\ r.put = w /\ r.part = g
  BY <1>1 DEF ReqType
<1>4. /\ r.kind = req[c].kind /\ r.path = req[c].path /\ r.to = req[c].to
      /\ r.over = req[c].over /\ r.snap = req[c].snap /\ r.base = req[c].base
      /\ r.ino = req[c].ino /\ r.ran = req[c].ran
  BY <1>1 DEF ReqType
<1> HIDE DEF r
<1>5. req'[c] = r
  BY <1>1, <1>2
<1>6. req' \in [Clients -> ReqType] /\ \A d \in Clients : d # c => req'[d] = req[d]
  BY <1>1, <1>2, <1>3
<1> QED BY <1>3, <1>4, <1>5, <1>6 DEF Changes, SameRequest, SameSource

\* What a replacement does to the request and to the disk.
LEMMA ReplaceIs ==
  ASSUME TypeOK, NEW c \in Clients, NEW next \in Steps, NEW p \in Paths,
         Replace(c, p, next), temp[c] = "whole"
  PROVE  /\ Changes(c) /\ SameSource(c)
         /\ req'[c].pc = next /\ req'[c].put = TRUE /\ req'[c].hit = disk[p].body
         /\ req'[c].part = PartAfter(req[c].part) /\ req'[c].ran = req[c].ran
         /\ req'[c].ans = IF next = "done" THEN Heard(c, "ok") ELSE req[c].ans
         /\ clock' \in Nat /\ disk' \in [Paths -> Entries]
         /\ disk'[p].body = c
         /\ \A x \in Paths : x # p => disk'[x] = disk[x]
         /\ temp' \in [Clients -> TempStates] /\ temp'[c] = "none"
         /\ \A d \in Clients : d # c => temp'[d] = temp[d]
<1> DEFINE h == disk[p].body
           a == IF next = "done" THEN Heard(c, "ok") ELSE req[c].ans
           g == PartAfter(req[c].part)
<1>1. h \in Bodies /\ a \in Answers /\ g \in Parts
  <2>1. req[c] \in ReqType
    BY DEF TypeOK
  <2>2. req[c].ans \in Answers /\ req[c].part \in Parts
    BY <2>1 DEF ReqType
  <2>3. h \in Bodies
    BY DEF TypeOK, Entries
  <2>4. Heard(c, "ok") \in Answers
    BY HeardIs DEF Answers
  <2> QED BY <2>2, <2>3, <2>4 DEF PartAfter, Parts
<1>2. PICK t \in Stamps :
        /\ clock' = t
        /\ disk' = [disk EXCEPT ![p] = [body |-> IF temp[c] = "whole" THEN c ELSE "part",
                                        at |-> t, ino |-> t]]
        /\ temp' = [temp EXCEPT ![c] = "none"]
        /\ req' = [req EXCEPT ![c].hit = h, ![c].put = TRUE,
                              ![c].part = PartAfter(@), ![c].pc = next,
                              ![c].ans = IF next = "done" THEN Heard(c, "ok") ELSE @]
  BY DEF Replace
<1>3. t \in Nat
  BY DEF Stamps, TypeOK
<1> DEFINE e == [body |-> c, at |-> t, ino |-> t]
<1>4. e \in Entries /\ e.body = c
  BY <1>3 DEF Entries, Bodies, Contents
<1>5. disk' = [disk EXCEPT ![p] = e]
  BY <1>2
<1> HIDE DEF e
<1>6. /\ disk' \in [Paths -> Entries] /\ disk'[p].body = c
      /\ \A x \in Paths : x # p => disk'[x] = disk[x]
  BY <1>1, <1>4, <1>5 DEF TypeOK
<1>7. /\ temp' \in [Clients -> TempStates] /\ temp'[c] = "none"
      /\ \A d \in Clients : d # c => temp'[d] = temp[d]
  BY <1>2, TempIs DEF TempStates
<1>8. /\ Changes(c) /\ SameSource(c)
      /\ req'[c].pc = next /\ req'[c].ans = a /\ req'[c].ran = req[c].ran
      /\ req'[c].hit = h /\ req'[c].put = TRUE /\ req'[c].part = g
  <2> DEFINE w == TRUE
             r == [req[c] EXCEPT !.hit = h, !.put = w, !.part = g, !.pc = next, !.ans = a]
  <2>1. req \in [Clients -> ReqType]
    BY DEF TypeOK
  <2>2. req' = [req EXCEPT ![c] = r]
    BY <1>2, <2>1
  <2> HIDE DEF h, a, g
  <2>3. w \in BOOLEAN /\ w = TRUE
    OBVIOUS
  <2> HIDE DEF w
  <2> QED BY <1>1, <2>2, <2>3, PutIs
<1> QED BY <1>1, <1>2, <1>3, <1>6, <1>7, <1>8

\* A request publishes: what it replaces it has read, or it creates and nothing
\* was there that the code excludes.  A form may go on with its second file.
LEMMA Publishes ==
  ASSUME IInv, NEW c \in Clients, NEW next \in {"reread", "done", "u_temp", "u_check"},
         NEW p \in Paths, Replace(c, p, next), req[c].pc = "publish",
         ~Uploads(c) => p = req[c].path,
         IF req[c].part = "first"
           THEN next = "done" => Heard(c, "ok") # "ok"
           ELSE next \notin {"u_temp", "u_check"},
         next = "reread" => ~Uploads(c),
         req[c].kind = "stream" => p = req[c].path,
         Reaches(c, next), SparesLocks(c), UNCHANGED <<backend, result, down, left>>,
         next = "reread" /\ backend # "ssh" /\ Saves(c) => held'[EditorsLock] = c,
         Creates(c) /\ disk[p].body # "none"
           => backend = "local" /\ Uploads(c) /\ ~req[c].over
  PROVE  IInv'
<1>0. TypeOK /\ Ok(c) /\ temp[c] = "whole" /\ next \in Steps
  BY DEF IInv, Ok, Staged, Steps
<1>1. /\ Changes(c) /\ SameSource(c)
      /\ req'[c].pc = next /\ req'[c].put = TRUE /\ req'[c].hit = disk[p].body
      /\ req'[c].part = PartAfter(req[c].part) /\ req'[c].ran = req[c].ran
      /\ req'[c].ans = IF next = "done" THEN Heard(c, "ok") ELSE req[c].ans
      /\ clock' \in Nat /\ disk' \in [Paths -> Entries]
      /\ disk'[p].body = c
      /\ \A x \in Paths : x # p => disk'[x] = disk[x]
      /\ temp' \in [Clients -> TempStates] /\ temp'[c] = "none"
      /\ \A d \in Clients : d # c => temp'[d] = temp[d]
  BY <1>0, ReplaceIs
<1>2. StepOf(c)
  BY <1>1, StepIs
<1>3. \A d \in Clients : SameRequest(d)
  BY <1>2, KindsKept
<1>4. \A x \in Paths : disk'[x].body \in {disk[x].body, c}
  BY <1>1
<1>5. \A d \in Clients : d # c => Harmless(d)
  BY <1>4, PutHarmless
<1>6. WholeFiles'
  BY <1>4, ClientNames DEF WholeFiles, IInv
<1>7. Routed(c)'
  BY <1>1, <1>2, <1>3, ViewsKept DEF Routed, Reaches, SameRequest
<1>8. Answered(c)'
  <2>1. req[c].ans = "none" /\ Heard(c, "ok") \in {"ok", "lost", "error"}
    BY <1>0, HeardIs DEF Ok, Answered, Answers
  <2>2. /\ req[c].part \in {"only", "first", "second"}
        /\ req[c].part # "only" => req[c].kind = "form" /\ Uploads(c)
    BY <1>0 DEF Ok, Answered, Uploads, TypeOK, ReqType, Parts
  <2>3. CASE req[c].part = "first"
    BY <1>1, <1>3, <2>1, <2>2, <2>3 DEF Answered, PartAfter, SameRequest
  <2>4. CASE req[c].part = "second"
    BY <1>1, <1>3, <2>1, <2>2, <2>4 DEF Answered, PartAfter, SameRequest
  <2>5. CASE req[c].part = "only"
    BY <1>1, <2>1, <2>2, <2>5 DEF Answered, PartAfter
  <2> QED BY <2>2, <2>3, <2>4, <2>5
<1>9. Staged(c)' /\ Locked(c)'
  BY <1>1, <1>2, <1>3, ViewsKept DEF Staged, Locked, EditorsLock
<1>10. Seen(c)'
  <2>1. ~Theirs(c, c) /\ (Saves(c) => ~Uploads(c))
    BY DEF Theirs, Saves, Uploads
  <2> QED BY <1>0, <1>1, <1>2, <1>3, <2>1, ViewsKept
          DEF Ok, Seen, SameSource, SameRequest, Answered
<1>11. Vacant(c)'
  BY <1>0, <1>1, <1>2, <1>3, ViewsKept
     DEF Ok, Vacant, SameSource, SameRequest, Creates, Uploads
<1> QED BY <1>1, <1>2, <1>5, <1>6, <1>7, <1>8, <1>9, <1>10, <1>11, InvariantKept DEF Ok

\* The replacement of the file by its temporary file.
LEMMA PublishedKept ==
  ASSUME IInv, NEW c \in Clients, Published(c)
  PROVE  IInv'
<1>0. TypeOK /\ Ok(c) /\ req[c].pc = "publish"
  BY DEF IInv, Published, At
<1>1. CASE disk[req[c].path].body = "dir"
  <2>1. Leave(c, "error") /\ "error" \in Answers
    BY <1>1 DEF Published, Answers
  <2> QED BY <1>0, <2>1, Leaves
<1>2. CASE disk[req[c].path].body # "dir"
  <2>1. /\ Replace(c, req[c].path, "reread") /\ UNCHANGED <<backend, held, result, down, left>>
        /\ ~Uploads(c) /\ req[c].snap # NoSnapshot
    BY <1>2 DEF Published
  <2>2. Saves(c) \/ Collects(c)
    BY <1>0, <2>1 DEF Ok, Routed, Reaches
  <2>3. Reaches(c, "reread") /\ ~Creates(c)
    BY <2>1, <2>2 DEF Reaches, Creates, Saves, Collects, Uploads
  <2>4. SparesLocks(c)
    BY <1>0, <2>1, HeldIs
  <2>5. backend # "ssh" /\ Saves(c) => held'[EditorsLock] = c
    BY <1>0, <2>1, LockStays
  <2>6. req[c].part # "first" /\ req[c].kind # "stream" /\ req[c].path \in Paths
    BY <1>0, <2>1 DEF Ok, Answered, Uploads, TypeOK, ReqType
  <2> QED BY <1>0, <2>1, <2>3, <2>4, <2>5, <2>6, Publishes
<1> QED BY <1>1, <1>2

\* The saved file is gone when it is read again.
LEMMA GoneKept ==
  ASSUME IInv, NEW c \in Clients, Gone(c)
  PROVE  IInv'
<1>1. PICK a \in {"conflict", "error"} :
        Leave(c, a) /\ req[c].pc = "reread" /\ (a = "conflict" => Collects(c))
  BY DEF Gone, At, Collects
<1>2. a \in Answers
  BY DEF Answers
<1> QED BY <1>1, <1>2, Leaves

\* Save and Run inspects what it has saved, and runs it.
LEMMA SavedKept ==
  ASSUME IInv, NEW c \in Clients, Saved(c),
         backend = "node" => disk[req[c].path].body = c
  PROVE  IInv'
<1>0. TypeOK /\ Ok(c) /\ req[c].pc = "reread" /\ req[c].put = TRUE
  BY DEF IInv, TypeOK, ReqType, Saved, At, Ok, Answered
<1> DEFINE a == Heard(c, "ok")
           h == req[c].hit
           b == IF req[c].kind = "run" THEN disk[req[c].path].body ELSE req[c].ran
<1>1. h \in Bodies /\ b \in Bodies /\ a \in Answers /\ "done" \in Steps
      /\ a \in {"ok", "lost", "error"}
  <2>1. req[c] \in ReqType
    BY <1>0 DEF TypeOK
  <2>2. disk[req[c].path].body \in Bodies
    BY <1>0, <2>1 DEF TypeOK, Entries, ReqType
  <2>3. a \in Answers /\ "done" \in Steps /\ a \in {"ok", "lost", "error"}
    BY HeardIs DEF Answers, Steps
  <2> QED BY <2>1, <2>2, <2>3 DEF ReqType
<1>2. /\ Changes(c) /\ SameSource(c)
      /\ req'[c].pc = "done" /\ req'[c].ans = a
      /\ req'[c].hit = h /\ req'[c].put = TRUE /\ req'[c].ran = b
      /\ req'[c].part = req[c].part
  <2> DEFINE r == [req[c] EXCEPT !.pc = "done", !.ans = a, !.ran = b]
             q == [req[c] EXCEPT !.pc = "done", !.ans = a, !.hit = h, !.put = TRUE, !.ran = b]
  <2>1. req[c] \in ReqType /\ req \in [Clients -> ReqType]
    BY <1>0 DEF TypeOK
  <2>2. req' = [req EXCEPT ![c] = r]
    BY <2>1 DEF Saved
  <2> HIDE DEF a, b
  <2>3. r = q
    BY <1>0, <2>1 DEF ReqType
  <2>4. req' = [req EXCEPT ![c] = q]
    <3> HIDE DEF r, q
    <3> QED BY <2>2, <2>3
  <2> HIDE DEF h
  <2> QED BY ONLY <1>0, <1>1, <2>4, c \in Clients, DeedsAre
<1>3. UNCHANGED temp /\ Still /\ backend' = backend /\ disk' = disk /\ temp[c] = "none"
  BY <1>0 DEF Saved, Still, Ok, Staged
<1>4. SparesLocks(c)
  BY <1>0, ReleaseIs DEF Saved
<1>5. StepOf(c)
  BY <1>0, <1>2, <1>3, StepIs DEF TypeOK, TempStates
<1>6. \A d \in Clients : SameRequest(d)
  BY <1>5, KindsKept
<1>7. Routed(c)' /\ Staged(c)' /\ Locked(c)'
  BY <1>2, <1>3 DEF Routed, Reaches, Staged, Locked
<1>8. Answered(c)'
  BY <1>0, <1>1, <1>2, <1>6 DEF Ok, Routed, Reaches, Answered, SameRequest, Saves, Collects
<1>9. Seen(c)'
  <2>1. b # "none" => Saves(c)
    BY <1>0 DEF Ok, Seen, Saves
  <2> QED BY <1>0, <1>2, <1>3, <1>5, <1>6, <2>1, ViewsKept
          DEF Ok, Seen, SameSource, SameRequest
<1>10. Vacant(c)'
  BY <1>0, <1>2, <1>3, <1>6, ViewsKept
     DEF Ok, Vacant, SameSource, SameRequest, Creates
<1> QED BY <1>3, <1>4, <1>5, <1>7, <1>8, <1>9, <1>10, QuietKept DEF Ok

-----------------------------------------------------------------------------
(* Uploads.                                                                 *)

\* A refused request is answered and leaves nothing behind.
LEMMA RefusedIs ==
  ASSUME NEW c, NEW p
  PROVE  /\ UploadRefused(c, p) \in {"error", "exists", "none"}
         /\ Told(c, UploadRefused(c, p)) \in {"error", "exists", "none", "conflict"}
         /\ FormRefused(c) \in {"error", "exists", "none"}
BY DEF UploadRefused, FormRefused, Told

\* The file that is stored now is one of the request's two names.
LEMMA TargetIs ==
  ASSUME IInv, NEW c \in Clients
  PROVE  Target(c) \in Paths /\ (req[c].kind # "form" => Target(c) = req[c].path)
BY DEF IInv, TypeOK, ReqType, Ok, Answered, Target

\* An upload or a collection is no editor.
LEMMA NoEditor ==
  ASSUME NEW c \in Clients, Uploads(c) \/ Collects(c) \/ InCore(c)
                            \/ req[c].kind \in {"create", "rename", "delete"}
  PROVE  ~Saves(c)
BY DEF Uploads, Collects, InCore, Saves

\* An upload is checked before its content comes.
LEMMA TargetsKept ==
  ASSUME IInv, NEW c \in Clients, FormTargets(c) \/ StreamTarget(c)
  PROVE  IInv'
<1>0. TypeOK /\ Ok(c) /\ req[c].pc = "start" /\ Uploads(c)
  BY DEF IInv, FormTargets, StreamTarget, At, Uploads
<1>1. ASSUME NEW s \in {"u_temp", "u_check"}, Goto(c, s), UNCHANGED <<temp, held>>, Still
      PROVE  IInv'
  <2>1. s \in Before /\ Reaches(c, s) /\ ~Saves(c)
    BY <1>0, NoEditor DEF Before, Steps, Reaches
  <2>2. SparesLocks(c)
    BY <1>0, <1>1, HeldIs
  <2> QED BY <1>0, <1>1, <2>1, <2>2, GoesOnly
<1>2. CASE StreamTarget(c)
  BY <1>1, <1>2 DEF StreamTarget
<1>3. CASE FormTargets(c) /\ FormRefused(c) = "none"
  BY <1>1, <1>3 DEF FormTargets, StoreFirst
<1>4. CASE FormTargets(c) /\ FormRefused(c) # "none"
  <2>1. FormRefused(c) \in {"error", "exists"} /\ FormRefused(c) \in Answers
    BY <1>4, RefusedIs DEF Answers
  <2>2. Leave(c, FormRefused(c)) /\ (req[c].put => req[c].part = "second")
    BY <1>0, <1>4, PutLater DEF FormTargets
  <2> QED BY <1>0, <2>1, <2>2, Leaves
<1> QED BY <1>2, <1>3, <1>4

\* The check for an upload or a collected file.
LEMMA CheckedKept ==
  ASSUME IInv, NEW c \in Clients, Checked(c), backend # "ssh" => Free("loop")
  PROVE  IInv'
<1>0. /\ TypeOK /\ Ok(c) /\ req[c].pc = "u_check"
      /\ Uploads(c) \/ Collects(c)
  BY DEF IInv, Checked, At, Ok, Routed, Reaches
<1>1. CASE UploadRefused(c, Target(c)) # "none"
  <2> DEFINE a == Told(c, UploadRefused(c, Target(c)))
  <2>1. a \in Answers /\ a # "ok"
    BY RefusedIs DEF Answers
  <2>2. Leave(c, a) /\ (req[c].put => req[c].part = "second")
    BY <1>0, <1>1, PutLater DEF Checked
  <2> QED BY <1>0, <2>1, <2>2, Leaves
<1>2. CASE UploadRefused(c, Target(c)) = "none"
  <2> DEFINE i == disk[Target(c)].ino
  <2>1. i \in Nat /\ "u_temp" \in Steps
    BY <1>0, TargetIs DEF TypeOK, Entries, Steps
  <2>2. req' = [req EXCEPT ![c].pc = "u_temp", ![c].ino = i] /\ UNCHANGED temp /\ Still
    BY <1>2 DEF Checked
  <2> HIDE DEF i
  <2>3. /\ Changes(c) /\ SameDeeds(c) /\ req'[c].pc = "u_temp" /\ req'[c].ans = req[c].ans
    BY <1>0, <2>1, <2>2, NotesFile
  <2>4. SparesLocks(c)
    BY <1>0, <1>2, HeldIs, TakeIs DEF Checked, Locks
  <2>5. "u_temp" \in Before /\ Reaches(c, "u_temp") /\ ~Saves(c) /\ temp[c] \in TempStates
    BY <1>0, NoEditor DEF Before, Steps, Reaches, TypeOK, TempStates
  <2> QED BY <1>0, <2>2, <2>3, <2>4, <2>5, GoesTo
<1> QED BY <1>1, <1>2

\* The temporary file of an upload is opened.
LEMMA UploadTemporaryKept ==
  ASSUME IInv, NEW c \in Clients, UploadTemporary(c)
  PROVE  IInv'
<1>0. /\ TypeOK /\ Ok(c) /\ req[c].pc = "u_temp" /\ Still /\ Goto(c, "feed")
      /\ Uploads(c) \/ Collects(c)
      /\ temp' = [temp EXCEPT ![c] = "part"]
      /\ held' = [held EXCEPT !.loop = IF @ = c THEN NoOne ELSE @]
  BY DEF IInv, UploadTemporary, At, Ok, Routed, Reaches
<1>1. SparesLocks(c)
  <2>1. held \in [Locks -> Clients \cup {NoOne}] /\ "loop" \in Locks
    BY <1>0 DEF TypeOK, Locks
  <2> QED BY <1>0, <2>1 DEF SparesLocks
<1>2. "feed" \in Before /\ "feed" \in Steps /\ Reaches(c, "feed") /\ ~Saves(c)
  BY <1>0, NoEditor DEF Before, Steps, Reaches
<1>3. /\ Changes(c) /\ SameDeeds(c) /\ req'[c].pc = "feed" /\ req'[c].ans = req[c].ans
  BY <1>0, <1>2, GotoIs
<1> QED BY <1>0, <1>1, <1>2, <1>3, GoesTo DEF TempStates

\* The content of an upload comes, or breaks off.
LEMMA FedKept ==
  ASSUME IInv, NEW c \in Clients, NEW s \in {"final", "u_close"}, Fed(c, s)
  PROVE  IInv'
<1>0. /\ TypeOK /\ Ok(c) /\ req[c].pc = "feed"
      /\ Uploads(c) \/ Collects(c)
  BY DEF IInv, Fed, At, Ok, Routed, Reaches
<1>1. CASE /\ temp' = [temp EXCEPT ![c] = "whole"]
           /\ Goto(c, s) /\ UNCHANGED held /\ Still
  <2>1. SparesLocks(c)
    BY <1>0, <1>1, HeldIs
  <2>2. s \in Before /\ s \in Steps /\ Reaches(c, s) /\ ~Saves(c)
    BY <1>0, NoEditor DEF Before, Steps, Reaches
  <2>3. /\ Changes(c) /\ SameDeeds(c) /\ req'[c].pc = s /\ req'[c].ans = req[c].ans
    BY <1>0, <1>1, <2>2, GotoIs
  <2> QED BY <1>0, <1>1, <2>1, <2>2, <2>3, GoesTo DEF TempStates
<1>2. CASE Leave(c, "error")
  BY <1>0, <1>2, Leaves DEF Answers
<1> QED BY <1>1, <1>2 DEF Fed

\* The agent takes up the end of an upload.
LEMMA NodeUploadCloseKept ==
  ASSUME IInv, NEW c \in Clients, NodeUploadClose(c)
  PROVE  IInv'
<1>0. /\ TypeOK /\ Ok(c) /\ req[c].pc = "u_close" /\ Still /\ Goto(c, "final")
      /\ UNCHANGED temp /\ temp[c] = "whole"
      /\ Uploads(c) \/ Collects(c)
  BY DEF IInv, NodeUploadClose, At, Ok, Routed, Reaches, Staged
<1>1. SparesLocks(c)
  BY <1>0, TakeIs DEF NodeUploadClose, Locks
<1>2. "final" \in Before /\ "final" \in Steps /\ Reaches(c, "final") /\ ~Saves(c)
  BY <1>0, NoEditor DEF Before, Steps, Reaches
<1>3. /\ Changes(c) /\ SameDeeds(c) /\ req'[c].pc = "final" /\ req'[c].ans = req[c].ans
  BY <1>0, <1>2, GotoIs
<1> QED BY <1>0, <1>1, <1>2, <1>3, GoesTo DEF TempStates

\* The check right before an upload is published.
LEMMA FinalKept ==
  ASSUME IInv, NEW c \in Clients, NEW may \in BOOLEAN, Final(c, may),
         backend # "ssh" => Free("loop"),
         backend = "local" /\ req[c].kind = "stream" /\ ~req[c].over /\ may
           => Missing(req[c].path)
  PROVE  IInv'
<1>0. /\ TypeOK /\ Ok(c) /\ req[c].pc = "final" /\ temp[c] = "whole"
      /\ Uploads(c) \/ Collects(c)
  BY DEF IInv, Final, At, Ok, Routed, Reaches, Staged
<1>1. CASE may
  <2>1. Goto(c, "publish") /\ UNCHANGED temp /\ Still
    BY <1>1 DEF Final
  <2>2. SparesLocks(c) /\ (backend = "local" => held'["loop"] = c)
    BY <1>0, <1>1, HeldIs, TakeIs DEF Final, Locks
  <2>3. Reaches(c, "publish") /\ ~Saves(c)
    BY <1>0, NoEditor DEF Reaches
  <2>4. temp' \in [Clients -> TempStates] /\ temp'[c] = "whole"
    BY <1>0, <2>1 DEF TypeOK, TempStates
  <2>5. Missing(req[c].path) => Unlooped(disk[req[c].path].body)
    BY ClientNames DEF Missing, Unlooped
  <2> QED BY <1>0, <1>1, <2>1, <2>2, <2>3, <2>4, <2>5, WillPublish
<1>2. CASE ~may
  <2> DEFINE a == Told(c, "exists")
  <2>1. a \in Answers /\ a # "ok"
    BY DEF Answers, Told
  <2>2. Leave(c, a) /\ (req[c].put => req[c].part = "second")
    BY <1>0, <1>2, PutLater DEF Final
  <2> QED BY <1>0, <2>1, <2>2, Leaves
<1> QED BY <1>1, <1>2

\* The same check where it ends a local stream or a Node upload.
LEMMA FinalsKept ==
  ASSUME IInv, NEW c \in Clients,
         \/ StoreUpload(c) \/ StoreRequestUpload(c) \/ SshUploadFinal(c)
         \/ SshStreamFinal(c) \/ NodeUploadFinal(c)
  PROVE  IInv'
<1>0. req[c].over \in BOOLEAN
  BY DEF IInv, TypeOK, ReqType
<1> DEFINE m == Missing(req[c].path)
           s == req[c].over \/ m
           x == req[c].over \/ Missing(Target(c))
           n == disk[Target(c)].ino = req[c].ino
<1>1. m \in BOOLEAN /\ s \in BOOLEAN /\ x \in BOOLEAN /\ n \in BOOLEAN /\ TRUE \in BOOLEAN
  BY DEF Missing
<1>2. CASE StoreUpload(c)
  BY <1>2, FinalKept DEF StoreUpload
<1>3. CASE StoreRequestUpload(c)
  <2>1. Final(c, s) /\ Free("loop") /\ backend = "local"
    BY <1>3 DEF StoreRequestUpload
  <2>2. ~req[c].over /\ s => Missing(req[c].path)
    OBVIOUS
  <2> HIDE DEF s
  <2> QED BY <1>1, <2>1, <2>2, FinalKept
<1>4. CASE SshUploadFinal(c) \/ SshStreamFinal(c)
  <2>1. Final(c, x) /\ backend = "ssh"
    BY <1>4 DEF SshUploadFinal, SshStreamFinal, SshMayRename
  <2> HIDE DEF x
  <2> QED BY <1>1, <2>1, FinalKept
<1>5. CASE NodeUploadFinal(c)
  <2>1. Final(c, n) /\ Free("loop") /\ backend = "node"
    BY <1>5 DEF NodeUploadFinal
  <2> HIDE DEF n
  <2> QED BY <1>1, <2>1, FinalKept
<1> QED BY <1>2, <1>3, <1>4, <1>5

\* An upload or a collected file is published.
LEMMA PublishNewKept ==
  ASSUME IInv, NEW c \in Clients, PublishNew(c)
  PROVE  IInv'
<1>0. /\ TypeOK /\ Ok(c) /\ req[c].pc = "publish"
      /\ req[c].put => req[c].part = "second"
  BY PutLater DEF IInv, PublishNew, At
<1> DEFINE p == Target(c)
           refused == disk[p].body = "dir" \/ (IsFile(p) /\ RefusesExisting(c))
           next == AfterPublish(c)
<1>1. CASE refused
  <2> DEFINE a == Told(c, IF RefusesExisting(c) THEN "exists" ELSE "error")
  <2>1. a \in Answers /\ a # "ok"
    BY DEF Answers, Told
  <2>2. Leave(c, a)
    BY <1>1 DEF PublishNew
  <2> QED BY <1>0, <2>1, <2>2, Leaves
<1>2. CASE ~refused
  <2>1. /\ Replace(c, p, next)
        /\ IF req'[c].pc # "reread" THEN Release(c) ELSE UNCHANGED held
        /\ UNCHANGED <<backend, result, down, left>>
    BY <1>2 DEF PublishNew
  <2>2. SparesLocks(c)
    BY <1>0, <2>1, HeldIs, ReleaseIs
  <2>3. /\ next \in {"reread", "done", "u_temp", "u_check"} /\ Reaches(c, next)
        /\ next = "reread" => ~Saves(c) /\ ~Uploads(c)
        /\ IF req[c].part = "first"
             THEN next = "done" => Heard(c, "ok") # "ok"
             ELSE next \notin {"u_temp", "u_check"}
    <3>1. req[c].part # "only" => req[c].kind = "form"
      BY <1>0 DEF Ok, Answered
    <3> QED BY <3>1, NoEditor
            DEF Reaches, Collects, Uploads, AfterPublish, StoreFirst, Heard
  <2>4. ASSUME Creates(c), disk[p].body # "none"
        PROVE  backend = "local" /\ Uploads(c) /\ ~req[c].over
    <3>1. ~RefusesExisting(c)
      BY <1>2, <2>4 DEF IsFile
    <3>2. backend \in {"local", "ssh", "node"}
      BY <1>0, BackendsAssumption DEF TypeOK
    <3>3. Saves(c) \/ Uploads(c) \/ Collects(c)
      BY <1>0 DEF Ok, Routed, Reaches
    <3>4. Uploads(c) /\ ~req[c].over
      BY <2>4, <3>1, <3>3 DEF Creates, RefusesExisting, Saves, Uploads, Collects
    <3> QED BY <3>1, <3>2, <3>4 DEF RefusesExisting
  <2>5. /\ p \in Paths /\ (req[c].kind # "form" => p = req[c].path)
        /\ ~Uploads(c) => req[c].kind # "form"
    BY TargetIs DEF Uploads
  <2> HIDE DEF next, p
  <2> QED BY <1>0, <2>1, <2>2, <2>3, <2>4, <2>5, Publishes
<1> QED BY <1>1, <1>2

-----------------------------------------------------------------------------
(* Create, rename, delete.                                                  *)

\* A create or rename that passed its check holds the event loop of this machine.
LEMMA WillAct ==
  ASSUME IInv, NEW c \in Clients, Goto(c, "act"), Still, UNCHANGED temp, SparesLocks(c),
         req[c].pc = "start", req[c].kind \in {"create", "rename"},
         backend = "local" => held'["loop"] = c,
         req[c].kind = "rename" => Missing(req[c].to)
  PROVE  IInv'
<1>0. TypeOK /\ Ok(c) /\ "act" \in Steps
  BY DEF IInv, Steps
<1>1. /\ Changes(c) /\ SameDeeds(c) /\ SameSource(c)
      /\ req'[c].pc = "act" /\ req'[c].ans = req[c].ans
  BY <1>0, GotoIs
<1>2. StepOf(c) /\ backend' = backend /\ disk' = disk /\ temp'[c] = "none"
  BY <1>0, <1>1, StepIs DEF Still, TypeOK, TempStates, Ok, Staged
<1>3. \A d \in Clients : SameRequest(d)
  BY <1>2, KindsKept
<1>4. Routed(c)'
  BY <1>1, <1>2, <1>3, ViewsKept DEF Routed, Reaches, SameRequest
<1>5. req[c].put = FALSE /\ req'[c].put = FALSE
  BY <1>1, PutLater DEF SameDeeds
<1>6. Answered(c)'
  BY <1>0, <1>1, <1>3, <1>5, ViewsKept DEF Ok, Answered, SameDeeds, SameRequest
<1>7. Staged(c)'
  BY <1>1, <1>2 DEF Staged
<1>8. Locked(c)'
  BY <1>1, <1>2, <1>3, ViewsKept DEF Locked, EditorsLock
<1>9. Seen(c)'
  BY <1>0, <1>1, <1>2, <1>3, <1>5, ViewsKept
     DEF Ok, Seen, SameDeeds, SameSource, SameRequest
<1>10. Missing(req[c].to) => Unlooped(disk[req[c].to].body)
  BY ClientNames DEF Missing, Unlooped
<1>11. Vacant(c)'
  BY <1>1, <1>2, <1>3, <1>5, <1>10, ViewsKept DEF Vacant, SameRequest
<1> QED BY <1>2, <1>4, <1>6, <1>7, <1>8, <1>9, <1>11, QuietKept DEF Ok

\* The check of a create or a rename.
LEMMA CheckKept ==
  ASSUME IInv, NEW c \in Clients, CreateCheck(c) \/ RenameCheck(c)
  PROVE  IInv'
<1>0. /\ TypeOK /\ Ok(c) /\ req[c].pc = "start" /\ ~req[c].put
      /\ req[c].kind \in {"create", "rename"} /\ (backend = "local" => Free("loop"))
  BY PutLater DEF IInv, CreateCheck, RenameCheck, At, Ok, Answered, Collects, InCore
<1>1. CASE /\ Goto(c, "act") /\ UNCHANGED temp /\ Still
           /\ IF backend = "local" THEN Take(c, "loop") ELSE UNCHANGED held
           /\ req[c].kind = "rename" => Missing(req[c].to)
  <2>1. SparesLocks(c) /\ (backend = "local" => held'["loop"] = c)
    BY <1>0, <1>1, HeldIs, TakeIs DEF Locks
  <2> QED BY <1>0, <1>1, <2>1, WillAct
<1>2. CASE \E a \in {"exists", "error"} : Leave(c, a)
  BY <1>0, <1>2, Leaves DEF Answers
<1> QED BY <1>1, <1>2 DEF CreateCheck, RenameCheck

\* A create that puts its file.
LEMMA CreatesEntry ==
  ASSUME IInv, NEW c \in Clients, NEW t \in Nat, req[c].pc = "act", req[c].kind = "create",
         disk' = [disk EXCEPT ![req[c].path] = [body |-> c, at |-> t, ino |-> t]],
         clock' = t,
         req' = [req EXCEPT ![c].pc = "done", ![c].ans = Heard(c, "ok"), ![c].put = TRUE],
         Release(c), UNCHANGED <<backend, temp, result, down, left>>
  PROVE  IInv'
<1>0. TypeOK /\ Ok(c) /\ req[c].path \in Paths
  BY DEF IInv, TypeOK, ReqType
<1> DEFINE a == Heard(c, "ok")
           h == req[c].hit
           b == req[c].ran
           e == [body |-> c, at |-> t, ino |-> t]
<1>1. h \in Bodies /\ b \in Bodies /\ a \in Answers /\ a \in {"ok", "lost", "error"}
      /\ "done" \in Steps
  BY <1>0, HeardIs DEF Answers, Steps, TypeOK, ReqType
<1>2. /\ Changes(c) /\ SameSource(c)
      /\ req'[c].pc = "done" /\ req'[c].ans = a
      /\ req'[c].hit = h /\ req'[c].put = TRUE /\ req'[c].ran = b
      /\ req'[c].part = req[c].part
  <2> DEFINE r == [req[c] EXCEPT !.pc = "done", !.ans = a, !.put = TRUE]
             q == [req[c] EXCEPT !.pc = "done", !.ans = a, !.hit = h, !.put = TRUE, !.ran = b]
  <2>1. req[c] \in ReqType /\ req \in [Clients -> ReqType]
    BY <1>0 DEF TypeOK
  <2>2. req' = [req EXCEPT ![c] = r]
    BY <2>1
  <2> HIDE DEF a
  <2>3. r = q
    BY <2>1 DEF ReqType
  <2>4. req' = [req EXCEPT ![c] = q]
    <3> HIDE DEF r, q
    <3> QED BY <2>2, <2>3
  <2> HIDE DEF h, b, e
  <2> QED BY ONLY <1>0, <1>1, <2>4, c \in Clients, DeedsAre
<1>3. e \in Entries /\ e.body = c
  BY DEF Entries, Bodies, Contents
<1> HIDE DEF e
<1>4. /\ disk' \in [Paths -> Entries] /\ clock' \in Nat
      /\ \A p \in Paths : disk'[p].body \in {disk[p].body, c}
  BY <1>0, <1>3 DEF TypeOK, e
<1>5. StepOf(c) /\ SparesLocks(c) /\ temp'[c] = "none"
  BY <1>0, <1>2, StepIs, ReleaseIs DEF TypeOK, TempStates, Ok, Staged
<1>6. \A d \in Clients : SameRequest(d)
  BY <1>5, KindsKept
<1>7. \A d \in Clients : d # c => Harmless(d)
  BY <1>4, PutHarmless
<1>8. WholeFiles'
  BY <1>4, ClientNames DEF WholeFiles, IInv
<1>9. Routed(c)' /\ Staged(c)' /\ Locked(c)'
  BY <1>2, <1>5 DEF Routed, Reaches, Staged, Locked
<1>10. Answered(c)'
  BY <1>0, <1>1, <1>2, <1>6 DEF Ok, Answered, SameRequest
<1>11. Seen(c)'
  BY <1>0, <1>2, <1>5, <1>6, ViewsKept DEF Ok, Seen, Saves, StepOf
<1>12. Vacant(c)'
  BY <1>0, <1>2, <1>6, ViewsKept
     DEF Ok, Vacant, Answered, Creates, SameRequest, SameSource, Uploads, Collects
<1> QED BY <1>4, <1>5, <1>7, <1>8, <1>9, <1>10, <1>11, <1>12, InvariantKept DEF Ok

\* A file or a directory is created.
LEMMA CreateEntryKept ==
  ASSUME IInv, NEW c \in Clients, CreateEntry(c)
  PROVE  IInv'
<1>0. /\ TypeOK /\ Ok(c) /\ req[c].pc = "act" /\ ~req[c].put /\ req[c].kind = "create"
      /\ temp[c] = "none" /\ req[c].path \in Paths
  BY PutLater DEF IInv, CreateEntry, At, Ok, Answered, Collects, InCore, Staged, TypeOK, ReqType
<1> DEFINE p == req[c].path
<1>1. CASE Missing(p)
  <2>1. PICK t \in Stamps :
          clock' = t /\ disk' = [disk EXCEPT ![p] = [body |-> c, at |-> t, ino |-> t]]
    BY <1>1 DEF CreateEntry
  <2>2. t \in Nat
    BY <1>0 DEF Stamps, TypeOK
  <2>3. /\ req' = [req EXCEPT ![c].pc = "done", ![c].ans = Heard(c, "ok"), ![c].put = TRUE]
        /\ Release(c) /\ UNCHANGED <<backend, temp, result, down, left>>
    BY <1>1 DEF CreateEntry
  <2> QED BY <1>0, <2>1, <2>2, <2>3, CreatesEntry
<1>2. CASE Leave(c, "error")
  BY <1>0, <1>2, Leaves DEF Answers
<1>3. CASE /\ clock' = clock + 1
           /\ disk' = [disk EXCEPT ![p].at = clock + 1]
           /\ Answer(c, "ok") /\ Release(c)
           /\ UNCHANGED <<backend, temp, result, down, left>>
  <2>1. clock' \in Nat
    BY <1>0, <1>3 DEF TypeOK
  <2> DEFINE e == [disk[p] EXCEPT !.at = clock + 1]
  <2>2. e \in Entries /\ e.body = disk[p].body
    BY <1>0, <1>3, <2>1 DEF TypeOK, Entries
  <2>3. disk' = [disk EXCEPT ![p] = e]
    BY <1>0, <1>3 DEF TypeOK
  <2> HIDE DEF e
  <2>4. disk' \in [Paths -> Entries] /\ \A x \in Paths : disk'[x].body = disk[x].body
    BY <1>0, <2>2, <2>3 DEF TypeOK
  <2>5. /\ Changes(c) /\ SameDeeds(c) /\ SameSource(c)
        /\ req'[c].pc = "done" /\ req'[c].ans \in {"ok", "lost", "error"}
    BY <1>0, <1>3, AnswerIs DEF Answers
  <2>6. StepOf(c) /\ SparesLocks(c) /\ temp'[c] = "none"
    BY <1>0, <1>3, <2>5, StepIs, ReleaseIs DEF TypeOK, TempStates
  <2>7. \A d \in Clients : SameRequest(d)
    BY <2>6, KindsKept
  <2>8. \A d \in Clients : Harmless(d)
    <3>1. \A d \in Clients : req[d].path \in Paths /\ req[d].to \in Paths
      BY <1>0 DEF TypeOK, ReqType
    <3> QED BY <2>4, <3>1 DEF Harmless
  <2>9. WholeFiles'
    BY <2>4 DEF WholeFiles, IInv
  <2>10. Routed(c)' /\ Staged(c)' /\ Locked(c)'
    BY <2>5, <2>6 DEF Routed, Reaches, Staged, Locked
  <2>11. Answered(c)' /\ ~req'[c].put
    BY <1>0, <2>5, <2>7, ViewsKept
       DEF Ok, Answered, SameDeeds, Saves, Uploads, Collects
  <2>12. Seen(c)'
    BY <1>0, <2>5, <2>6, <2>7, <2>11, ViewsKept DEF Ok, Seen, Saves, StepOf, SameDeeds
  <2>13. Vacant(c)'
    BY <2>5, <2>11 DEF Vacant
  <2> QED BY <1>3, <2>1, <2>4, <2>6, <2>8, <2>9, <2>10, <2>11, <2>12, <2>13,
             InvariantKept DEF Ok
<1> QED BY <1>1, <1>2, <1>3 DEF CreateEntry

\* A file takes another name.
LEMMA RenameEntryKept ==
  ASSUME IInv, NEW c \in Clients, RenameEntry(c)
  PROVE  IInv'
<1>0. /\ TypeOK /\ Ok(c) /\ req[c].pc = "act" /\ ~req[c].put /\ req[c].kind = "rename"
      /\ temp[c] = "none" /\ req[c].path \in Paths /\ req[c].to \in Paths
  BY PutLater DEF IInv, RenameEntry, At, Ok, Answered, Collects, InCore, Staged, TypeOK, ReqType
<1> DEFINE p == req[c].path
           q == req[c].to
<1>1. CASE RenameFails(c)
  <2>1. Leave(c, "error")
    BY <1>1 DEF RenameEntry
  <2> QED BY <1>0, <2>1, Leaves DEF Answers
<1>2. CASE ~RenameFails(c)
  <2> DEFINE a == Heard(c, "ok")
             h == disk[q].body
             b == req[c].ran
  <2>1. /\ disk' = [disk EXCEPT ![q] = disk[p], ![p] = Absent]
        /\ req' = [req EXCEPT ![c].pc = "done", ![c].ans = a, ![c].put = TRUE,
                              ![c].hit = h]
        /\ Release(c)
        /\ UNCHANGED <<backend, temp, clock, result, down, left>>
    BY <1>2 DEF RenameEntry
  <2>2. h \in Bodies /\ b \in Bodies /\ a \in Answers /\ a \in {"ok", "lost", "error"}
        /\ "done" \in Steps
    BY <1>0, HeardIs DEF Answers, Steps, TypeOK, ReqType, Entries
  <2>3. /\ Changes(c) /\ SameSource(c)
        /\ req'[c].pc = "done" /\ req'[c].ans = a
        /\ req'[c].hit = h /\ req'[c].put = TRUE /\ req'[c].ran = b
        /\ req'[c].part = req[c].part
    <3> DEFINE r == [req[c] EXCEPT !.pc = "done", !.ans = a, !.put = TRUE, !.hit = h]
               s == [req[c] EXCEPT !.pc = "done", !.ans = a, !.hit = h, !.put = TRUE, !.ran = b]
    <3>1. req[c] \in ReqType /\ req \in [Clients -> ReqType]
      BY <1>0 DEF TypeOK
    <3>2. req' = [req EXCEPT ![c] = r]
      BY <2>1, <3>1
    <3> HIDE DEF a, h
    <3>3. r = s
      BY <3>1 DEF ReqType
    <3>4. req' = [req EXCEPT ![c] = s]
      <4> HIDE DEF r, s
      <4> QED BY <3>2, <3>3
    <3> HIDE DEF b
    <3> QED BY ONLY <1>0, <2>2, <3>4, c \in Clients, DeedsAre
  <2>4. Absent \in Entries /\ Absent.body = "none"
    BY DEF Absent, Entries, Bodies
  <2>5. /\ disk' \in [Paths -> Entries]
        /\ disk'[p].body = "none"
        /\ q # p => disk'[q] = disk[p]
        /\ \A x \in Paths : x \notin {p, q} => disk'[x] = disk[x]
    BY <1>0, <2>1, <2>4 DEF TypeOK
  <2>6. StepOf(c) /\ SparesLocks(c) /\ temp'[c] = "none"
    BY <1>0, <2>1, <2>3, StepIs, ReleaseIs DEF TypeOK, TempStates
  <2>7. \A d \in Clients : SameRequest(d)
    BY <2>6, KindsKept
  <2>8. ASSUME NEW d \in Clients, d # c
        PROVE  Harmless(d)
    <3>1. req[d].path \in Paths /\ req[d].to \in Paths /\ Ok(d)
      BY <1>0 DEF TypeOK, ReqType, IInv
    <3>2. \A e \in Clients : ~Theirs(e, "none")
      BY ClientNames DEF Theirs
    <3>3. req[d].path = q => MovedTo(req[d].path)'
      BY <1>0, <2>3, <2>7 DEF MovedTo, SameRequest
    <3>4. backend = "local" => held["loop"] = c
      BY <1>0 DEF Ok, Locked
    <3>5. backend = "local" => /\ req[d].pc # "act"
                               /\ ~(req[d].kind = "stream" /\ req[d].pc = "publish")
      BY <2>8, <3>1, <3>4 DEF Ok, Locked, Uploads
    <3> DEFINE x == req[d].path
    <3> HIDE DEF p, q
    <3>6. ASSUME ~MovedTo(x)', Theirs(d, disk'[x].body)
          PROVE  disk'[x].body = disk[x].body
      <4>1. x # q
        BY <3>3, <3>6
      <4>2. x # p
        BY <2>5, <3>2, <3>6
      <4> QED BY <2>5, <3>1, <4>1, <4>2
    <3> QED BY <3>5, <3>6 DEF Harmless
  <2>9. WholeFiles'
    BY <1>0, <2>5 DEF WholeFiles, IInv
  <2>10. Routed(c)' /\ Staged(c)' /\ Locked(c)'
    BY <2>3, <2>6 DEF Routed, Reaches, Staged, Locked
  <2>11. Answered(c)'
    BY <1>0, <2>2, <2>3, <2>7 DEF Ok, Answered, SameRequest
  <2>12. Seen(c)'
    BY <1>0, <2>3, <2>6, <2>7, ViewsKept DEF Ok, Seen, Saves, StepOf
  <2>13. backend \in {"local", "ssh", "node"}
    BY <1>0, BackendsAssumption DEF TypeOK
  <2>14. backend = "ssh" => h = "none"
    BY <1>2 DEF RenameFails, Missing
  <2>15. backend = "local" => Unlooped(h)
    BY <1>0 DEF Ok, Vacant
  <2> HIDE DEF h, p, q
  <2>16. Vacant(c)'
    BY <1>0, <2>3, <2>6, <2>7, <2>13, <2>14, <2>15, ViewsKept DEF Vacant, StepOf, SameRequest
  <2> QED BY <1>0, <2>1, <2>5, <2>6, <2>8, <2>9, <2>10, <2>11, <2>12, <2>16,
             InvariantKept DEF Ok, TypeOK
<1> QED BY <1>1, <1>2

\* A file is deleted.
LEMMA DeleteEntryKept ==
  ASSUME IInv, NEW c \in Clients, DeleteEntry(c)
  PROVE  IInv'
<1>0. /\ TypeOK /\ Ok(c) /\ req[c].pc = "start" /\ ~req[c].put /\ req[c].kind = "delete"
      /\ temp[c] = "none" /\ req[c].path \in Paths
  BY PutLater DEF IInv, DeleteEntry, At, Ok, Answered, Collects, InCore, Staged, TypeOK, ReqType
<1> DEFINE p == req[c].path
<1>1. CASE Missing(p)
  <2>1. Leave(c, "error")
    BY <1>1 DEF DeleteEntry
  <2> QED BY <1>0, <2>1, Leaves DEF Answers
<1>2. CASE ~Missing(p)
  <2>1. /\ disk' = [disk EXCEPT ![p] = Absent] /\ Answer(c, "ok")
        /\ UNCHANGED <<backend, temp, held, clock, result, down, left>>
    BY <1>2 DEF DeleteEntry
  <2>2. Absent \in Entries /\ Absent.body = "none"
    BY DEF Absent, Entries, Bodies
  <2>3. /\ disk' \in [Paths -> Entries]
        /\ \A x \in Paths : disk'[x].body \in {"none", disk[x].body}
    BY <1>0, <2>1, <2>2 DEF TypeOK
  <2>4. /\ Changes(c) /\ SameDeeds(c) /\ SameSource(c)
        /\ req'[c].pc = "done" /\ req'[c].ans \in {"ok", "lost", "error"}
    BY <1>0, <2>1, AnswerIs DEF Answers
  <2>5. StepOf(c) /\ SparesLocks(c) /\ temp'[c] = "none"
    BY <1>0, <2>1, <2>4, StepIs, HeldIs DEF TypeOK, TempStates
  <2>6. \A d \in Clients : SameRequest(d)
    BY <2>5, KindsKept
  <2>7. \A d \in Clients : Harmless(d)
    <3>1. \A d \in Clients : req[d].path \in Paths /\ req[d].to \in Paths
      BY <1>0 DEF TypeOK, ReqType
    <3>2. (\A d \in Clients : ~Theirs(d, "none")) /\ Unlooped("none")
      BY ClientNames DEF Theirs, Unlooped
    <3> QED BY <2>3, <3>1, <3>2 DEF Harmless
  <2>8. WholeFiles'
    BY <2>3 DEF WholeFiles, IInv
  <2>9. Routed(c)' /\ Staged(c)' /\ Locked(c)'
    BY <2>4, <2>5 DEF Routed, Reaches, Staged, Locked
  <2>10. Answered(c)' /\ ~req'[c].put
    BY <1>0, <2>4, <2>6, ViewsKept DEF Ok, Answered, SameDeeds, Saves, Uploads, Collects
  <2>11. Seen(c)'
    BY <1>0, <2>4, <2>5, <2>6, <2>10, ViewsKept DEF Ok, Seen, Saves, StepOf, SameDeeds
  <2>12. Vacant(c)'
    BY <2>4, <2>10 DEF Vacant
  <2> QED BY <1>0, <2>1, <2>3, <2>5, <2>7, <2>8, <2>9, <2>10, <2>11, <2>12,
             InvariantKept DEF Ok, TypeOK
<1> QED BY <1>1, <1>2

-----------------------------------------------------------------------------
(* Collection and archives.                                                 *)

\* A collection notes the baseline of the file.
LEMMA RunSnapshotKept ==
  ASSUME IInv, NEW c \in Clients, RunSnapshot(c)
  PROVE  IInv'
<1>0. TypeOK /\ Ok(c) /\ req[c].pc = "start" /\ Collects(c) /\ req[c].path \in Paths
  BY DEF IInv, RunSnapshot, At, Collects, TypeOK, ReqType
<1> DEFINE b == disk[req[c].path].body
<1>1. b \in Bodies /\ "review" \in Before /\ "review" \in Steps
  BY <1>0 DEF TypeOK, Entries, Before, Steps
<1>2. /\ req' = [req EXCEPT ![c].pc = "review", ![c].base = b]
      /\ UNCHANGED <<temp, held>> /\ Still
  BY DEF RunSnapshot
<1> HIDE DEF b
<1>3. /\ Changes(c) /\ SameDeeds(c) /\ req'[c].pc = "review" /\ req'[c].ans = req[c].ans
  BY <1>0, <1>1, <1>2, NotesBase
<1>4. SparesLocks(c) /\ Reaches(c, "review") /\ temp[c] \in TempStates
  BY <1>0, <1>2, HeldIs DEF Reaches, TypeOK, TempStates
<1> QED BY <1>0, <1>1, <1>2, <1>3, <1>4, GoesTo

\* A review notes the revision of the plan.
LEMMA ReviewKept ==
  ASSUME IInv, NEW c \in Clients, Review(c)
  PROVE  IInv'
<1>0. TypeOK /\ Ok(c) /\ req[c].pc = "review" /\ Collects(c) /\ req[c].path \in Paths
  BY DEF IInv, Review, At, Ok, Routed, Reaches, TypeOK, ReqType
<1> DEFINE n == PlanRevision(c)
<1>1. n \in [body: Bodies, at: Nat] /\ "apply" \in Before /\ "apply" \in Steps
  BY <1>0 DEF TypeOK, Entries, Before, Steps, PlanRevision, Snapshot
<1>2. /\ req' = [req EXCEPT ![c].pc = "apply", ![c].snap = n]
      /\ UNCHANGED <<temp, held>> /\ Still
  BY DEF Review
<1> HIDE DEF n
<1>3. /\ Changes(c) /\ SameDeeds(c) /\ req'[c].pc = "apply" /\ req'[c].ans = req[c].ans
  BY <1>0, <1>1, <1>2, NotesPlan
<1>4. SparesLocks(c) /\ Reaches(c, "apply") /\ temp[c] \in TempStates
  BY <1>0, <1>2, HeldIs DEF Reaches, TypeOK, TempStates
<1> QED BY <1>0, <1>1, <1>2, <1>3, <1>4, GoesTo

\* An application takes the apply lock.
LEMMA ApplyLockedKept ==
  ASSUME IInv, NEW c \in Clients, ApplyLocked(c)
  PROVE  IInv'
<1>0. TypeOK /\ Ok(c) /\ req[c].pc = "apply" /\ Collects(c) /\ ~req[c].put
  BY PutLater DEF IInv, ApplyLocked, At, Ok, Routed, Reaches, Answered, Collects, InCore
<1>1. CASE \E a \in {"conflict", "already"} : Leave(c, a)
  BY <1>0, <1>1, Leaves DEF Answers
<1>2. CASE Take(c, "apply") /\ Goto(c, "fetch") /\ UNCHANGED temp /\ Still
  <2>1. SparesLocks(c)
    BY <1>0, <1>2, TakeIs DEF ApplyLocked, Locks
  <2>2. "fetch" \in Before /\ Reaches(c, "fetch")
    BY <1>0 DEF Before, Steps, Reaches
  <2> QED BY <1>0, <1>2, <2>1, <2>2, GoesOnly
<1> QED BY <1>1, <1>2 DEF ApplyLocked

\* The result of the run is fetched for the application.
LEMMA ReadyResultContentKept ==
  ASSUME IInv, NEW c \in Clients, ReadyResultContent(c)
  PROVE  IInv'
<1>0. TypeOK /\ Ok(c) /\ req[c].pc = "fetch" /\ Collects(c) /\ ~req[c].put
  BY PutLater DEF IInv, ReadyResultContent, At, Ok, Routed, Reaches, Answered, Collects, InCore
<1>1. CASE ~result
  <2>1. Leave(c, "conflict")
    BY <1>1 DEF ReadyResultContent
  <2> QED BY <1>0, <2>1, Leaves DEF Answers
<1>2. CASE result
  <2>1. PICK s \in {"open", "check", "new", "u_check"} :
          Goto(c, s) /\ (s = "open" => backend = "node")
    BY <1>2 DEF ReadyResultContent, WriteExisting, WriteNew
  <2>2. UNCHANGED <<temp, held>> /\ Still
    BY <1>2 DEF ReadyResultContent
  <2>3. SparesLocks(c) /\ ~Saves(c)
    BY <1>0, <2>2, HeldIs, NoEditor
  <2>4. s \in Before /\ Reaches(c, s)
    BY <1>0, <2>1 DEF Before, Steps, Reaches
  <2> QED BY <1>0, <2>1, <2>2, <2>3, <2>4, GoesOnly
<1> QED BY <1>1, <1>2

\* A collected file that has to be new.
LEMMA WriteNewTextKept ==
  ASSUME IInv, NEW c \in Clients, WriteNewText(c)
  PROVE  IInv'
<1>0. TypeOK /\ Ok(c) /\ req[c].pc = "new" /\ Collects(c) /\ ~req[c].put
  BY PutLater DEF IInv, WriteNewText, At, Ok, Routed, Reaches, Answered, Collects, InCore
<1>1. CASE ~Missing(req[c].path)
  <2>1. Leave(c, "conflict")
    BY <1>1 DEF WriteNewText
  <2> QED BY <1>0, <2>1, Leaves DEF Answers
<1>2. CASE Missing(req[c].path)
  <2>1. /\ temp' = [temp EXCEPT ![c] = "whole"] /\ Goto(c, "publish")
        /\ UNCHANGED held /\ Still
    BY <1>2 DEF WriteNewText
  <2>2. /\ temp' \in [Clients -> TempStates] /\ temp'[c] = "whole"
        /\ \A d \in Clients : d # c => temp'[d] = temp[d]
    BY <1>0, <2>1, TempIs DEF TempStates
  <2>3. SparesLocks(c) /\ ~Saves(c) /\ ~Uploads(c) /\ req[c].kind # "stream"
    BY <1>0, <2>1, HeldIs, NoEditor DEF Collects, Uploads
  <2>4. Reaches(c, "publish")
    BY <1>0 DEF Reaches
  <2> QED BY <1>0, <2>1, <2>2, <2>3, <2>4, WillPublish
<1> QED BY <1>1, <1>2

\* An archive goes on with its temporary file.
LEMMA ArchiveGoesOn ==
  ASSUME IInv, NEW c \in Clients, NEW s \in {"z_open", "z_read", "z_stage", "z_serve"},
         NEW t \in TempStates, Goto(c, s), Still, UNCHANGED held, InCore(c),
         req[c].pc \notin {"reread", "done"},
         temp' = [temp EXCEPT ![c] = t] \/ (UNCHANGED temp /\ t = temp[c])
  PROVE  IInv'
<1>0. TypeOK /\ SparesLocks(c) /\ ~Saves(c)
  BY HeldIs, NoEditor DEF IInv
<1>1. s \in Before /\ s \in Steps /\ Reaches(c, s)
  BY DEF Before, Steps, Reaches
<1>2. /\ Changes(c) /\ SameDeeds(c) /\ req'[c].pc = s /\ req'[c].ans = req[c].ans
  BY <1>0, <1>1, GotoIs
<1> QED BY <1>0, <1>1, <1>2, GoesTo

\* A file or an archive is opened for a download.
LEMMA DownloadOpenKept ==
  ASSUME IInv, NEW c \in Clients, NEW s \in {"z_read", "z_serve"}, DownloadOpen(c, s)
  PROVE  IInv'
<1>0. TypeOK /\ Ok(c) /\ req[c].pc = "z_open" /\ InCore(c) /\ req[c].path \in Paths
  BY DEF IInv, DownloadOpen, At, Ok, Routed, Reaches, TypeOK, ReqType
<1>1. CASE Missing(req[c].path)
  <2>1. Leave(c, "error")
    BY <1>1 DEF DownloadOpen
  <2> QED BY <1>0, <2>1, Leaves DEF Answers
<1>2. CASE ~Missing(req[c].path)
  <2> DEFINE i == disk[req[c].path].ino
  <2>1. i \in Nat /\ s \in Before /\ s \in Steps
    BY <1>0 DEF TypeOK, Entries, Before, Steps
  <2>2. /\ req' = [req EXCEPT ![c].pc = s, ![c].ino = i]
        /\ UNCHANGED <<temp, held>> /\ Still
    BY <1>2 DEF DownloadOpen
  <2> HIDE DEF i
  <2>3. /\ Changes(c) /\ SameDeeds(c) /\ req'[c].pc = s /\ req'[c].ans = req[c].ans
    BY <1>0, <2>1, <2>2, NotesFile
  <2>4. SparesLocks(c) /\ Reaches(c, s) /\ temp[c] \in TempStates
    BY <1>0, <2>2, HeldIs DEF Reaches, TypeOK, TempStates
  <2> QED BY <1>0, <2>1, <2>2, <2>3, <2>4, GoesTo
<1> QED BY <1>1, <1>2

\* The steps of an archive.
LEMMA ArchiveKept ==
  ASSUME IInv, NEW c \in Clients, Archive(c)
  PROVE  IInv'
<1>0. TypeOK /\ Ok(c) /\ temp[c] \in TempStates
  BY DEF IInv, TypeOK, TempStates
<1>1. CASE ArchiveSelect(c)
  <2>1. req[c].pc = "start" /\ temp[c] = "none" /\ Still /\ UNCHANGED held /\ InCore(c)
    BY <1>0, <1>1 DEF ArchiveSelect, At, InCore, Ok, Staged
  <2>2. CASE Answer(c, "error") /\ UNCHANGED temp
    <3>1. SparesLocks(c)
      BY <1>0, <2>1, HeldIs
    <3> QED BY <2>1, <2>2, <3>1, Ends DEF Answers
  <2>3. CASE Goto(c, "z_open") /\ temp' = [temp EXCEPT ![c] = "part"]
    BY <2>1, <2>3, ArchiveGoesOn DEF TempStates
  <2> QED BY <1>1, <2>2, <2>3 DEF ArchiveSelect
<1>2. CASE WriteLocalArchive(c) \/ SshDownloadOpen(c) \/ NodeDownloadOpen(c)
  BY <1>2, DownloadOpenKept DEF WriteLocalArchive, SshDownloadOpen, NodeDownloadOpen
<1>3. CASE SshDownload(c) \/ NodeDownload(c)
  <2>1. req[c].pc = "z_read" /\ InCore(c)
    BY <1>3 DEF SshDownload, NodeDownload, At, InCore
  <2>2. CASE Leave(c, "error")
    BY <2>1, <2>2, Leaves DEF Answers
  <2>3. CASE Goto(c, "z_serve") /\ UNCHANGED <<temp, held>> /\ Still
    BY <1>0, <2>1, <2>3, ArchiveGoesOn
  <2> QED BY <1>3, <2>2, <2>3 DEF SshDownload, NodeDownload
<1>4. CASE ArchiveServed(c)
  <2>1. req[c].pc = "z_serve" /\ InCore(c) /\ Leave(c, "ok")
    BY <1>0, <1>4 DEF ArchiveServed, At, Ok, Routed, Reaches
  <2> QED BY <2>1, Leaves DEF Answers
<1>5. CASE ResultArchive(c)
  BY <1>5, ArchiveGoesOn DEF ResultArchive, At, InCore, TempStates
<1>6. CASE StageFile(c)
  <2>1. InCore(c)
    BY <1>0, <1>6 DEF StageFile, At, Ok, Routed, Reaches
  <2> QED BY <1>6, <2>1, ArchiveGoesOn DEF StageFile, At, TempStates
<1>7. CASE StableFile(c)
  <2>1. req[c].pc = "z_read" /\ InCore(c) /\ ~req[c].put
    BY <1>0, <1>7, PutLater DEF StableFile, At, InCore, Ok, Answered, Collects, InCore
  <2>2. CASE Leave(c, "conflict")
    BY <2>1, <2>2, Leaves DEF Answers
  <2>3. CASE /\ temp' = [temp EXCEPT ![c] = "part"] /\ Goto(c, "z_serve")
             /\ UNCHANGED held /\ Still
    BY <2>1, <2>3, ArchiveGoesOn DEF TempStates
  <2> QED BY <1>7, <2>2, <2>3 DEF StableFile
<1> QED BY <1>1, <1>2, <1>3, <1>4, <1>5, <1>6, <1>7 DEF Archive

-----------------------------------------------------------------------------
(* The rest of the machine.                                                 *)

\* A step of the environment that changes no request and no lock.
LEMMA OutsideKept ==
  ASSUME IInv, UNCHANGED <<backend, temp, req, held, down>>,
         clock' \in Nat, result' \in BOOLEAN, left' \in 0 .. Troubles,
         disk' \in [Paths -> Entries],
         \A p \in Paths : disk'[p].body \in {disk[p].body, Outside, "none"}
  PROVE  IInv'
<1>1. TypeOK'
  BY DEF IInv, TypeOK
<1>2. WholeFiles'
  BY DEF IInv, WholeFiles, Outside
<1>3. ASSUME NEW d \in Clients
      PROVE  Ok(d)'
  <2>1. req[d].path \in Paths /\ req[d].to \in Paths
    BY DEF IInv, TypeOK, ReqType
  <2>2. \A b \in {Outside, "none"} : Unlooped(b) /\ ~Theirs(d, b)
    BY ClientNames DEF Unlooped, Theirs, Outside
  <2>3. Harmless(d)
    BY <2>1, <2>2 DEF Harmless
  <2>4. \A e \in Clients : SameRequest(e)
    BY DEF SameRequest
  <2> QED BY <2>3, <2>4, OtherKept
<1> QED BY <1>1, <1>2, <1>3 DEF IInv

\* Another program writes a file.
LEMMA OutsideEditKept ==
  ASSUME IInv, NEW p \in Paths, OutsideEdit(p)
  PROVE  IInv'
<1>0. TypeOK /\ disk[p] \in Entries
  BY DEF IInv, TypeOK
<1>1. PICK t \in Stamps :
        /\ clock' = t
        /\ disk' = [disk EXCEPT ![p] =
             IF Missing(p) THEN [body |-> Outside, at |-> t, ino |-> t]
             ELSE [@ EXCEPT !.body = Outside, !.at = t]]
  BY DEF OutsideEdit
<1>2. t \in Nat
  BY <1>0 DEF Stamps, TypeOK
<1> DEFINE e == IF Missing(p) THEN [body |-> Outside, at |-> t, ino |-> t]
                ELSE [disk[p] EXCEPT !.body = Outside, !.at = t]
<1>3. e \in Entries /\ e.body = Outside
  BY <1>0, <1>2 DEF Entries, Bodies, Contents
<1>4. disk' = [disk EXCEPT ![p] = e]
  BY <1>0, <1>1 DEF TypeOK
<1> HIDE DEF e
<1>5. /\ disk' \in [Paths -> Entries]
      /\ \A x \in Paths : disk'[x].body \in {disk[x].body, Outside}
  BY <1>0, <1>3, <1>4 DEF TypeOK
<1>6. /\ clock' \in Nat /\ result' \in BOOLEAN /\ left' \in 0 .. Troubles
      /\ UNCHANGED <<backend, temp, req, held, down>>
  BY <1>0, <1>1, <1>2, TroublesAssumption DEF OutsideEdit, TypeOK
<1> QED BY <1>5, <1>6, OutsideKept

\* Another program removes a file.
LEMMA OutsideRemoveKept ==
  ASSUME IInv, NEW p \in Paths, OutsideRemove(p)
  PROVE  IInv'
<1>0. TypeOK /\ disk' = [disk EXCEPT ![p] = Absent]
  BY DEF IInv, OutsideRemove
<1>1. Absent \in Entries /\ Absent.body = "none"
  BY DEF Absent, Entries, Bodies
<1>2. /\ disk' \in [Paths -> Entries]
      /\ \A x \in Paths : disk'[x].body \in {disk[x].body, "none"}
  BY <1>0, <1>1 DEF TypeOK
<1>3. /\ clock' \in Nat /\ result' \in BOOLEAN /\ left' \in 0 .. Troubles
      /\ UNCHANGED <<backend, temp, req, held, down>>
  BY <1>0, TroublesAssumption DEF OutsideRemove, TypeOK
<1> QED BY <1>2, <1>3, OutsideKept

\* The result of the run changes.
LEMMA ResultEditKept ==
  ASSUME IInv, ResultEdit
  PROVE  IInv'
<1>1. /\ clock' \in Nat /\ result' \in BOOLEAN /\ left' \in 0 .. Troubles
      /\ UNCHANGED <<backend, temp, req, held, down>> /\ disk' = disk
      /\ disk' \in [Paths -> Entries]
  <2>1. TypeOK /\ disk' = disk
    BY DEF IInv, ResultEdit
  <2>2. left' \in 0 .. Troubles
    BY <2>1, TroublesAssumption DEF ResultEdit, TypeOK
  <2> QED BY <2>1, <2>2 DEF ResultEdit, TypeOK
<1> QED BY <1>1, OutsideKept

\* A request that is cut off: its record says that it ended, and how.
LEMMA CutIs ==
  ASSUME NEW r \in ReqType, NEW a \in {"lost", "error"}
  PROVE  LET q == [r EXCEPT !.pc = "done", !.ans = a]
         IN  /\ q \in ReqType /\ q.pc = "done" /\ q.ans = a
             /\ q.kind = r.kind /\ q.path = r.path /\ q.to = r.to /\ q.over = r.over
             /\ q.part = r.part /\ q.put = r.put /\ q.hit = r.hit /\ q.ran = r.ran /\ q.snap = r.snap
<1> DEFINE q == [r EXCEPT !.pc = "done", !.ans = a]
<1>1. q \in ReqType /\ q.pc = "done" /\ q.ans = a
  BY DEF ReqType, Steps, Answers
<1>2. /\ q.kind = r.kind /\ q.path = r.path /\ q.to = r.to /\ q.over = r.over
      /\ q.part = r.part /\ q.put = r.put /\ q.hit = r.hit /\ q.ran = r.ran /\ q.snap = r.snap
  BY DEF ReqType
<1> QED BY <1>1, <1>2

(* The request was cut off by a crash or a lost connection.                 *)
CutOff(d) ==
  /\ req'[d] \in ReqType /\ req'[d].pc = "done" /\ req'[d].ans \in {"lost", "error"}
  /\ SameRequest(d) /\ SameDeeds(d) /\ req'[d].snap = req[d].snap

\* A request that is cut off keeps its invariant, if what it leaves behind is
\* accounted for.
LEMMA CutOffKept ==
  ASSUME IInv, NEW d \in Clients, \A e \in Clients : SameRequest(e), backend' = backend,
         disk' = disk, CutOff(d),
         temp'[d] # "none"
           => down'.core \/ (backend = "ssh" /\ d \in down'.link /\ ~InCore(d))
  PROVE  Ok(d)'
<1>1. Ok(d)
  BY DEF IInv
<1>2. Routed(d)' /\ Locked(d)' /\ Answered(d)'
  BY <1>1, ViewsKept DEF CutOff, Routed, Reaches, Locked, Ok, Answered, SameDeeds, SameRequest
<1>3. Staged(d)'
  BY ViewsKept DEF CutOff, Staged
<1>4. Seen(d)'
  BY <1>1, ViewsKept DEF CutOff, SameDeeds, Ok, Seen, SameRequest
<1>5. Vacant(d)'
  BY <1>1, ViewsKept DEF CutOff, SameDeeds, Ok, Vacant, Creates, SameRequest
<1> QED BY <1>2, <1>3, <1>4, <1>5 DEF Ok

\* A crash or a lost connection: every request is cut off or goes on.
LEMMA BreakKept ==
  ASSUME IInv, UNCHANGED <<backend, disk, clock, result>>, left' \in 0 .. Troubles,
         req' \in [Clients -> ReqType], temp' \in [Clients -> TempStates],
         held' \in [Locks -> Clients \cup {NoOne}],
         down' \in [core: BOOLEAN, link: SUBSET Clients],
         down.core => down'.core, backend = "ssh" => down.link \subseteq down'.link,
         \A d \in Clients :
           \/ /\ req'[d] = req[d]
              /\ \/ temp'[d] = temp[d]
                 \/ /\ temp'[d] = "none"
                    /\ req[d].pc \notin {"recheck", "u_close", "final", "publish"}
              /\ \/ req[d].pc = "done" \/ InCore(d)
                 \/ \A h \in {"loop", EditorsLock} : held[h] = d => held'[h] = d
           \/ /\ CutOff(d)
              /\ temp'[d] # "none"
                   => down'.core \/ (backend = "ssh" /\ d \in down'.link /\ ~InCore(d))
  PROVE  IInv'
<1>1. TypeOK'
  BY DEF IInv, TypeOK, TempStates, Locks
<1>2. WholeFiles'
  BY DEF IInv, WholeFiles
<1>3. \A d \in Clients : SameRequest(d)
  BY DEF CutOff, SameRequest
<1>4. ASSUME NEW d \in Clients
      PROVE  Ok(d)'
  <2>1. Harmless(d)
    BY DEF Harmless
  <2>2. CASE /\ CutOff(d)
             /\ temp'[d] # "none"
                  => down'.core \/ (backend = "ssh" /\ d \in down'.link /\ ~InCore(d))
    BY <1>3, <2>2, CutOffKept
  <2>3. CASE /\ req'[d] = req[d]
             /\ \/ temp'[d] = temp[d]
                \/ /\ temp'[d] = "none"
                   /\ req[d].pc \notin {"recheck", "u_close", "final", "publish"}
             /\ \/ req[d].pc = "done" \/ InCore(d)
                \/ \A h \in {"loop", EditorsLock} : held[h] = d => held'[h] = d
    BY <1>3, <2>1, <2>3, OtherKept
  <2> QED BY <2>2, <2>3
<1> QED BY <1>1, <1>2, <1>4 DEF IInv

\* The SSH connection of some requests is lost.
LEMMA SshLostKept ==
  ASSUME IInv, NEW c \in Clients, SshLost(c)
  PROVE  IInv'
<1>0. /\ TypeOK /\ req[c] \in ReqType /\ req[c].pc # "done" /\ backend = "ssh"
      /\ UNCHANGED <<backend, disk, clock, result>>
  BY DEF IInv, TypeOK, SshLost, OnLink
<1> DEFINE q == [req[c] EXCEPT !.pc = "done", !.ans = "error"]
<1>1. req' = [req EXCEPT ![c] = q]
  BY <1>0 DEF SshLost, TypeOK
<1>2. /\ q \in ReqType /\ q.pc = "done" /\ q.ans = "error"
      /\ q.kind = req[c].kind /\ q.path = req[c].path /\ q.to = req[c].to
      /\ q.over = req[c].over
      /\ q.part = req[c].part /\ q.put = req[c].put /\ q.hit = req[c].hit /\ q.ran = req[c].ran
      /\ q.snap = req[c].snap
  BY <1>0, CutIs
<1> HIDE DEF q
<1>3. /\ req' \in [Clients -> ReqType] /\ CutOff(c)
      /\ \A d \in Clients : d # c => req'[d] = req[d]
  BY <1>0, <1>1, <1>2 DEF TypeOK, CutOff, SameRequest, SameDeeds
<1>4. /\ temp' \in [Clients -> TempStates]
      /\ temp'[c] # "none" => ~InCore(c)
      /\ \A d \in Clients : d # c => temp'[d] = temp[d]
  BY <1>0 DEF SshLost, TypeOK, TempStates
<1>5. SparesLocks(c) /\ left' \in 0 .. Troubles
  BY <1>0, ReleaseIs, TroublesAssumption DEF SshLost, TypeOK
<1>6. /\ down' \in [core: BOOLEAN, link: SUBSET Clients]
      /\ down.core => down'.core
      /\ down.link \subseteq down'.link /\ c \in down'.link
  BY <1>0 DEF SshLost, TypeOK
<1>7. ASSUME NEW d \in Clients, d # c
      PROVE  \A h \in {"loop", EditorsLock} : held[h] = d => held'[h] = d
  BY <1>5, <1>7 DEF SparesLocks, EditorsLock, Locks
<1> QED BY <1>0, <1>3, <1>4, <1>5, <1>6, <1>7, BreakKept DEF SparesLocks

\* What a request that is abandoned or goes on becomes.
LEMMA AbandonedIs ==
  ASSUME TypeOK, NEW d \in Clients, NEW a \in {"lost", "error"}, req'[d] = Abandoned(d, a)
  PROVE  IF NodeGoesOn(d) \/ req[d].pc = "done" THEN req'[d] = req[d] ELSE CutOff(d)
<1>1. req[d] \in ReqType
  BY DEF TypeOK
<1>2. CASE NodeGoesOn(d) \/ req[d].pc = "done"
  BY <1>2 DEF Abandoned, At
<1>3. CASE ~NodeGoesOn(d) /\ req[d].pc # "done"
  <2> DEFINE q == [req[d] EXCEPT !.pc = "done", !.ans = a]
  <2>1. req'[d] = q
    BY <1>3 DEF Abandoned, At
  <2>2. /\ q \in ReqType /\ q.pc = "done" /\ q.ans = a
        /\ q.kind = req[d].kind /\ q.path = req[d].path /\ q.to = req[d].to
        /\ q.over = req[d].over
        /\ q.part = req[d].part /\ q.put = req[d].put /\ q.hit = req[d].hit /\ q.ran = req[d].ran
        /\ q.snap = req[d].snap
    BY <1>1, CutIs
  <2> HIDE DEF q
  <2> QED BY <1>3, <2>1, <2>2 DEF CutOff, SameRequest, SameDeeds
<1> QED BY <1>2, <1>3

\* The Core dies.
LEMMA CoreDiesKept ==
  ASSUME IInv, CoreDies
  PROVE  IInv'
<1>0. /\ TypeOK /\ UNCHANGED <<backend, disk, clock, result>>
      /\ backend \in {"local", "ssh", "node"}
  BY BackendsAssumption DEF IInv, TypeOK, CoreDies
<1>1. ASSUME NEW d \in Clients
      PROVE  /\ IF NodeGoesOn(d) \/ req[d].pc = "done" THEN req'[d] = req[d] ELSE CutOff(d)
             /\ req'[d] \in ReqType
             /\ temp'[d] \in {"none", temp[d]}
             /\ NodeGoesOn(d) => temp'[d] = temp[d]
  <2>1. req'[d] = Abandoned(d, "lost")
    BY DEF CoreDies
  <2>2. IF NodeGoesOn(d) \/ req[d].pc = "done" THEN req'[d] = req[d] ELSE CutOff(d)
    BY <1>0, <2>1, AbandonedIs
  <2> QED BY <1>0, <2>2 DEF CoreDies, CloseStreams, CutOff, TypeOK
<1>2. req' \in [Clients -> ReqType]
  <2>1. req' = [c \in Clients |-> req'[c]]
    BY DEF CoreDies
  <2> QED BY <1>1, <2>1
<1>3. temp' \in [Clients -> TempStates]
  BY <1>0 DEF CoreDies, CloseStreams, TypeOK, TempStates
<1>4. /\ held' \in [Locks -> Clients \cup {NoOne}]
      /\ backend = "node" => held'["recv"] = held["recv"] /\ held'["loop"] = held["loop"]
  BY <1>0 DEF CoreDies, TypeOK, Locks
<1>5. /\ down' \in [core: BOOLEAN, link: SUBSET Clients] /\ down'.core
      /\ down'.link = down.link
  BY <1>0 DEF CoreDies, TypeOK
<1>6. left' \in 0 .. Troubles
  BY <1>0, TroublesAssumption DEF CoreDies, TypeOK
<1>7. ASSUME NEW d \in Clients, NodeGoesOn(d)
      PROVE  \A h \in {"loop", EditorsLock} : held[h] = d => held'[h] = d
  BY <1>4, <1>7 DEF NodeGoesOn, EditorsLock
<1> QED BY <1>0, <1>1, <1>2, <1>3, <1>4, <1>5, <1>6, <1>7, BreakKept

\* The connection of the Node is lost.
LEMMA NodeLostKept ==
  ASSUME IInv, NodeLost
  PROVE  IInv'
<1>0. /\ TypeOK /\ UNCHANGED <<backend, disk, clock, result>> /\ backend = "node"
  BY DEF IInv, NodeLost
<1>1. ASSUME NEW d \in Clients
      PROVE  /\ IF OnLink(d) /\ ~NodeGoesOn(d) THEN CutOff(d) ELSE req'[d] = req[d]
             /\ req'[d] \in ReqType
  <2>1. req'[d] = IF OnLink(d) THEN Abandoned(d, "error") ELSE req[d]
    BY DEF NodeLost
  <2>2. OnLink(d) => req[d].pc # "done"
    BY DEF OnLink
  <2>3. CASE OnLink(d)
    <3>1. IF NodeGoesOn(d) \/ req[d].pc = "done" THEN req'[d] = req[d] ELSE CutOff(d)
      BY <1>0, <2>1, <2>3, AbandonedIs
    <3> QED BY <1>0, <2>2, <2>3, <3>1 DEF CutOff, TypeOK
  <2>4. CASE ~OnLink(d)
    BY <1>0, <2>1, <2>4 DEF TypeOK
  <2> QED BY <2>3, <2>4
<1>2. req' \in [Clients -> ReqType]
  <2>1. req' = [c \in Clients |-> req'[c]]
    BY DEF NodeLost
  <2> QED BY <1>1, <2>1
<1>3. temp' \in [Clients -> TempStates]
  BY <1>0 DEF NodeLost, CloseStreams, TypeOK, TempStates
<1>4. held' \in [Locks -> Clients \cup {NoOne}]
  BY <1>0 DEF NodeLost, TypeOK, Locks
<1>5. down' \in [core: BOOLEAN, link: SUBSET Clients] /\ down'.core = down.core
  BY <1>0 DEF NodeLost, TypeOK
<1>6. left' \in 0 .. Troubles
  BY <1>0, TroublesAssumption DEF NodeLost, TypeOK
<1>7. ASSUME NEW d \in Clients
      PROVE  /\ OnLink(d) /\ ~NodeGoesOn(d) => temp'[d] = "none"
             /\ ~(OnLink(d) /\ ~NodeGoesOn(d)) =>
                  \/ temp'[d] = temp[d]
                  \/ /\ temp'[d] = "none"
                     /\ req[d].pc \notin {"recheck", "u_close", "final", "publish"}
  <2>1. InCore(d) => req[d].pc \notin {"recheck", "u_close", "final", "publish"}
    BY DEF IInv, Ok, Routed, Reaches, InCore, Saves, Uploads, Collects
  <2>2. ~OnLink(d) => req[d].pc \notin {"recheck", "u_close", "final", "publish"}
    BY DEF OnLink
  <2>3. temp'[d] = IF InCore(d) /\ OnLink(d) THEN "none" ELSE CloseStreams(d)
    BY DEF NodeLost
  <2> QED BY <1>0, <2>1, <2>2, <2>3 DEF CloseStreams
<1>8. ASSUME NEW d \in Clients, ~(OnLink(d) /\ ~NodeGoesOn(d))
      PROVE  \A h \in {"loop", EditorsLock} : held[h] = d => held'[h] = d
  BY <1>0, <1>8 DEF NodeLost, EditorsLock, TypeOK
<1>9. backend # "ssh" /\ (down.core => down'.core)
  BY <1>0, <1>5
<1> QED BY <1>0, <1>1, <1>2, <1>3, <1>4, <1>5, <1>6, <1>7, <1>8, <1>9, BreakKept

-----------------------------------------------------------------------------
(* The invariant and the theorems.                                          *)

\* No request has done anything yet.
LEMMA InitIInv == Init => IInv
<1> SUFFICES ASSUME Init
             PROVE  IInv
  OBVIOUS
<1>1. ASSUME NEW c \in Clients
      PROVE  /\ req[c] \in ReqType /\ req[c].pc = "start" /\ req[c].ans = "none"
             /\ req[c].put = FALSE /\ req[c].hit = "none" /\ req[c].ran = "none"
             /\ req[c].part \in {"only", "first"}
             /\ req[c].part = "first" => req[c].kind = "form"
  <2>1. PICK k \in Kinds, p \in Paths, q \in Paths, o \in BOOLEAN, f \in {"only", "first"} :
          req[c] = NewRequest(k, p, q, o, f)
    BY DEF Init
  <2>2. req[c].part = "first" => req[c].kind = "form"
    BY DEF Init
  <2> QED BY <2>1, <2>2 DEF NewRequest, NoSnapshot, ReqType, Steps, Bodies, Answers, Parts
<1>2. req \in [Clients -> ReqType]
  <2>1. req = [c \in Clients |-> req[c]]
    BY DEF Init
  <2> QED BY <1>1, <2>1
<1>3. disk \in [Paths -> Entries] /\ WholeFiles
  <2>1. /\ disk = [q \in Paths |-> disk[q]]
        /\ \A q \in Paths : disk[q] \in {FirstFile, Directory, Absent}
    BY DEF Init
  <2>2. /\ Directory \in Entries /\ Absent \in Entries
        /\ \A q \in Paths : FirstFile \in Entries
    BY DEF FirstFile, Directory, Absent, Entries, Bodies, Contents
  <2>3. disk \in [Paths -> Entries]
    BY <2>1, <2>2
  <2> QED BY <2>1, <2>3 DEF WholeFiles, FirstFile, Directory, Absent, Base
<1>4. TypeOK
  <2>1. backend \in Backends /\ temp \in [Clients -> TempStates]
    BY DEF Init, TempStates
  <2>2. held \in [Locks -> Clients \cup {NoOne}]
    BY DEF Init, Locks
  <2>3. clock \in Nat /\ result \in BOOLEAN /\ left \in 0 .. Troubles
    BY TroublesAssumption DEF Init
  <2>4. down \in [core: BOOLEAN, link: SUBSET Clients]
    BY DEF Init
  <2> QED BY <1>2, <1>3, <2>1, <2>2, <2>3, <2>4 DEF TypeOK, Locks, TempStates
<1>5. ASSUME NEW c \in Clients
      PROVE  Ok(c)
  <2>1. temp[c] = "none"
    BY DEF Init
  <2>2. ~Theirs(c, "none")
    BY ClientNames DEF Theirs
  <2> QED BY <1>1, <2>1, <2>2
          DEF Ok, Routed, Reaches, Answered, Staged, Locked, Seen, Vacant
<1> QED BY <1>3, <1>4, <1>5 DEF IInv

\* Every step of an editor save keeps the invariant.
LEMMA EditorKept ==
  ASSUME IInv, NEW c \in Clients, Editor(c)
  PROVE  IInv'
<1>1. CASE ReadStat(c) \/ NodeTextArrives(c) \/ SaveFile(c) \/ LocalFileCall(c)
  BY <1>1, ReadStatKept, NodeTextArrivesKept, SaveFileKept, LocalFileCallKept
<1>2. CASE LocalReadText(c) \/ SshReadText(c) \/ NodeReadTextOpen(c)
  BY <1>2, ReadBodyKept DEF LocalReadText, SshReadText, NodeReadTextOpen
<1>3. CASE NodeWriteTextOpen(c) \/ CheckSource(c) \/ SshCheckSource(c)
  BY <1>3, RequireExpectedKept DEF NodeWriteTextOpen, CheckSource, SshCheckSource
<1>4. CASE NodeWriteTextClose(c) \/ WriteTemporary(c) \/ SshWriteTemporary(c)
  BY <1>4, NodeWriteTextCloseKept, PreparedKept DEF WriteTemporary, SshWriteTemporary
<1>5. CASE RecheckSource(c) \/ SshRecheckSource(c)
  BY <1>5, RecheckKept DEF RecheckSource, SshRecheckSource
<1>6. CASE ReplaceText(c) \/ SshReplaceText(c)
  BY <1>6, PublishedKept DEF ReplaceText, SshReplaceText
<1>7. CASE SavedSnapshot(c)
  BY <1>7, GoneKept, SavedKept DEF SavedSnapshot
<1>8. CASE NodeSavedSnapshot(c)
  <2>1. CASE disk[req[c].path].body = c /\ Saved(c)
    BY <2>1, SavedKept
  <2>2. CASE At(c, "reread") /\ Leave(c, "error")
    BY <2>2, Leaves DEF At, Answers
  <2> QED BY <1>8, <2>1, <2>2 DEF NodeSavedSnapshot
<1> QED BY <1>1, <1>2, <1>3, <1>4, <1>5, <1>6, <1>7, <1>8 DEF Editor

\* Every step of an upload keeps the invariant.
LEMMA UploadKept ==
  ASSUME IInv, NEW c \in Clients, Upload(c)
  PROVE  IInv'
<1>1. CASE FormTargets(c) \/ StreamTarget(c)
  BY <1>1, TargetsKept
<1>2. CASE LocalUploadCheck(c) \/ SshUploadCheck(c) \/ NodeUploadOpen(c)
  BY <1>2, CheckedKept DEF LocalUploadCheck, SshUploadCheck, NodeUploadOpen
<1>3. CASE UploadTemporary(c) \/ NodeUploadClose(c) \/ PublishNew(c)
  BY <1>3, UploadTemporaryKept, NodeUploadCloseKept, PublishNewKept
<1>4. CASE LocalFeed(c) \/ SshFeed(c) \/ NodeFeed(c)
  BY <1>4, FedKept DEF LocalFeed, SshFeed, NodeFeed
<1>5. CASE \/ StoreUpload(c) \/ StoreRequestUpload(c) \/ SshUploadFinal(c)
           \/ SshStreamFinal(c) \/ NodeUploadFinal(c)
  BY <1>5, FinalsKept
<1> QED BY <1>1, <1>2, <1>3, <1>4, <1>5 DEF Upload

\* Every step of a create, a rename or a deletion keeps the invariant.
LEMMA ManageKept ==
  ASSUME IInv, NEW c \in Clients, Manage(c)
  PROVE  IInv'
<1>1. CASE LocalCreate(c) \/ SshCreate(c) \/ NodeCreate(c)
  BY <1>1, CheckKept, CreateEntryKept DEF LocalCreate, SshCreate, NodeCreate
<1>2. CASE LocalRename(c) \/ SshRename(c) \/ NodeRename(c)
  BY <1>2, CheckKept, RenameEntryKept DEF LocalRename, SshRename, NodeRename
<1>3. CASE LocalDelete(c) \/ SshDelete(c) \/ NodeDelete(c)
  BY <1>3, DeleteEntryKept DEF LocalDelete, SshDelete, NodeDelete
<1> QED BY <1>1, <1>2, <1>3 DEF Manage

\* Every step of a collection or an archive keeps the invariant.
LEMMA CollectKept ==
  ASSUME IInv, NEW c \in Clients, Collect(c)
  PROVE  IInv'
BY RunSnapshotKept, ReviewKept, ApplyLockedKept, ReadyResultContentKept, WriteNewTextKept
   DEF Collect

\* A step that changes nothing keeps the invariant.
LEMMA StutterKept ==
  ASSUME IInv, UNCHANGED vars
  PROVE  IInv'
<1>1. UNCHANGED <<backend, temp, req, held, down>> /\ disk' = disk /\ TypeOK
  BY DEF vars, IInv
<1>2. /\ clock' \in Nat /\ result' \in BOOLEAN /\ left' \in 0 .. Troubles
      /\ disk' \in [Paths -> Entries]
  BY <1>1 DEF vars, TypeOK
<1> QED BY <1>1, <1>2, OutsideKept

\* Every step keeps the invariant.
LEMMA NextIInv == IInv /\ [Next]_vars => IInv'
<1> SUFFICES ASSUME IInv, [Next]_vars
             PROVE  IInv'
  OBVIOUS
<1>1. CASE \E c \in Clients : Request(c)
  BY <1>1, EditorKept, UploadKept, ManageKept, CollectKept, ArchiveKept DEF Request
<1>2. CASE Environment
  BY <1>2, OutsideEditKept, OutsideRemoveKept, ResultEditKept, CoreDiesKept, NodeLostKept,
     SshLostKept DEF Environment
<1> QED BY <1>1, <1>2, StutterKept DEF Next

\* The inductive invariant holds in every history.
THEOREM Invariance == Spec => []IInv
BY InitIInv, NextIInv, PTL DEF Spec

\* Every reachable state has the declared types.
THEOREM TypeCorrect == Spec => []TypeOK
<1>1. IInv => TypeOK
  BY DEF IInv
<1> QED BY <1>1, Invariance, PTL

\* No save replaces the save of another editor that its own editor has not read
\* (local_file_call, write_text in the Core and on a Node).
THEOREM SavesAreNotLost == Spec => []NoLostSave
<1>1. IInv => NoLostSave
  BY DEF IInv, Ok, Seen, Theirs, NoLostSave
<1> QED BY <1>1, Invariance, PTL

\* What was to create a name does not take the place of a file, but for the cases
\* that the code leaves open (_store_upload, rename).
THEOREM NothingIsClobbered == Spec => []NoClobber
<1>1. IInv => NoClobber
  <2> SUFFICES ASSUME IInv, NEW c \in Clients, Creates(c), req[c].put, req[c].hit # "none"
               PROVE  \/ backend = "local" /\ req[c].kind = "form"
                      \/ backend = "node" /\ req[c].kind = "rename"
                      \/ /\ backend = "local" /\ req[c].kind \in {"stream", "rename"}
                         /\ \/ req[c].hit \notin Clients
                            \/ \E d \in Clients : d = req[c].hit /\ (Saves(d) \/ Collects(d))
    BY DEF NoClobber, Creates, Collects
  <2> QED BY DEF IInv, Ok, Vacant, Unlooped
<1> QED BY <1>1, Invariance, PTL

\* Nothing that is cut short leaves a partial file under a name or a temporary one
\* beside it (the finally blocks of the upload and save paths, close_streams).
THEOREM NothingIsHalfDone == Spec => []NothingHalfDone
<1>1. IInv => NothingHalfDone
  BY DEF IInv, Ok, Staged, NothingHalfDone, NoOrphanTemporary, At
<1> QED BY <1>1, Invariance, PTL

\* What the browser is told is what happened, and Save and Run runs what was saved.
THEOREM AnswersAreTrue == Spec => []AnswerIsTrue
<1>1. IInv => AnswerIsTrue
  <2> SUFFICES ASSUME IInv, NEW c \in Clients
               PROVE  /\ req[c].ans = "ok" /\ (Saves(c) \/ Uploads(c) \/ Collects(c))
                           => req[c].put /\ req[c].part \in {"only", "both"}
                      /\ req[c].ans \in {"conflict", "exists"} /\ req[c].put
                           => Collects(c) \/ req[c].part = "second"
                      /\ req[c].ran # "none" =>
                           CASE backend = "node" -> req[c].ran = c
                             [] backend = "local" ->
                                  \A d \in Clients :
                                    req[c].ran = d
                                      => d = c \/ ~Saves(d) \/ MovedTo(req[c].path)
                             [] backend = "ssh" -> TRUE
    BY DEF AnswerIsTrue, Collects
  <2>1. backend \in {"local", "ssh", "node"} /\ Ok(c)
    BY BackendsAssumption DEF IInv, TypeOK
  <2> QED BY <2>1 DEF Ok, Answered, Seen, Theirs
<1> QED BY <1>1, Invariance, PTL

=============================================================================
