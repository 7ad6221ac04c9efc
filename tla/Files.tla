------------------------------- MODULE Files -------------------------------
(***************************************************************************)
(* The files of one Workspace under concurrent requests: editor saves,     *)
(* uploads, create, rename, delete and the collection of a Remote Run's    *)
(* result, on this machine, over SFTP and through a Node.                  *)
(*                                                                         *)
(* Nothing locks the tree.  What serialises requests differs per backend:  *)
(* the Core's event loop runs some local operations in one piece, one lock *)
(* covers local editor saves, the Node's receive loop closes one upload    *)
(* stream at a time, and over SFTP nothing does.  Any program of the user  *)
(* changes the same files meanwhile.                                       *)
(***************************************************************************)
EXTENDS Naturals, FiniteSets

CONSTANTS
  Clients,    \* requests; each is one browser request with its editor
  Paths,      \* names in one directory of the Workspace
  Backends,   \* "local", "ssh", "node"
  Kinds,      \* what the requests may be
  Troubles    \* changes by other programs, crashes and lost connections

AllKinds == {"save", "run", "form", "stream", "create", "rename", "delete", "collect",
             "archive", "zip"}

ASSUME ClientsAssumption ==
  Clients \cap {"nobody", "outside", "base", "part", "none", "dir"} = {}
ASSUME BackendsAssumption == Backends \subseteq {"local", "ssh", "node"}
ASSUME KindsAssumption == Kinds \subseteq AllKinds
ASSUME PathsAssumption == Cardinality(Paths) >= 2
ASSUME TroublesAssumption == Troubles \in Nat

VARIABLES
  backend,  \* where the Workspace is
  disk,     \* what each name holds
  temp,     \* the temporary file of each request
  req,      \* the requests
  held,     \* who is in a piece of code that excludes others
  clock,    \* time stamps given out so far
  result,   \* the Remote Run's result still is what the plan saw
  down,     \* the Core died; its connection was lost
  left      \* troubles that may still happen

vars == <<backend, disk, temp, req, held, clock, result, down, left>>

NoOne == "nobody"
Outside == "outside"            \* a program of the user
Base == "base"                  \* content before any request
Contents == Clients \cup {Outside, Base, "part"}

(* body: who wrote the content; at: mtime; ino: which file it is, by the    *)
(* stamp of its creation (only a Node compares it, whose stamps differ)     *)
Absent == [body |-> "none", at |-> 0, ino |-> 0]
FirstFile == [body |-> Base, at |-> 1, ino |-> 1]
Directory == [body |-> "dir", at |-> 2, ino |-> 2]
Bodies == Contents \cup {"none", "dir"}
Entries == [body: Bodies, at: Nat, ino: Nat]
Missing(p) == disk[p].body = "none"
IsFile(p) == disk[p].body \notin {"none", "dir"}

\* Mutant: the snapshot keeps the whole directory entry.
SnapshotEntry(p) == disk[p]

(* The editor's snapshot, and the state the collection plan was shown.      *)
Snapshot(p) == [body |-> disk[p].body, at |-> disk[p].at]
NoSnapshot == [body |-> "none", at |-> 0]

Steps == {"start", "read", "edit", "lock", "open", "close", "check", "temp", "recheck",
          "publish", "reread", "u_check", "u_temp", "feed", "u_close", "final", "act",
          "review", "apply", "fetch", "new", "stream", "z_open", "z_read", "z_stage", "z_serve",
          "done"}
Answers == {"none", "ok", "already", "conflict", "exists", "error", "lost"}

(* How far a form with two files is: it is about to store the first or the  *)
(* second of them, or has stored both.  Any other request has one file.     *)
Parts == {"only", "first", "second", "both"}
PartAfter(part) ==
  CASE part = "first" -> "second" [] part = "second" -> "both" [] OTHER -> part

ReqType == [kind: Kinds, path: Paths, to: Paths, over: BOOLEAN, part: Parts, pc: Steps,
            snap: [body: Bodies, at: Nat], base: Bodies, ino: Nat,
            hit: Bodies, put: BOOLEAN, ran: Bodies, ans: Answers]

Saves(c) == req[c].kind \in {"save", "run"}
Uploads(c) == req[c].kind \in {"form", "stream"}

NewRequest(k, p, q, o, f) ==
  [kind |-> k, path |-> p, to |-> q, over |-> o, part |-> f, pc |-> "start",
   snap |-> NoSnapshot, base |-> "none", ino |-> 0, hit |-> "none", put |-> FALSE,
   ran |-> "none", ans |-> "none"]

(* One path holds a file, the others are free or a directory.               *)
TheFile == CHOOSE p \in Paths : TRUE

Init ==
  /\ backend \in Backends
  /\ \E d \in SUBSET (Paths \ {TheFile}) :
       disk = [q \in Paths |-> IF q = TheFile THEN FirstFile
                               ELSE IF q \in d THEN Directory ELSE Absent]
  /\ temp = [c \in Clients |-> "none"]
  /\ req \in [Clients -> {NewRequest(k, p, q, o, f) : k \in Kinds, p \in Paths, q \in Paths,
                                                       o \in BOOLEAN, f \in {"only", "first"}}]
  /\ \A c \in Clients :
       /\ req[c].to # req[c].path
       /\ req[c].over => Uploads(c)
       /\ req[c].part = "first" => req[c].kind = "form"
  /\ held = [loop |-> NoOne, edit |-> NoOne, recv |-> NoOne, apply |-> NoOne]
  /\ clock = 2
  /\ result = TRUE
  /\ down = [core |-> FALSE, link |-> {}]
  /\ left = Troubles

-----------------------------------------------------------------------------
(* Helpers of the actions.                                                  *)

(* A local or Node file has a nanosecond stamp; SFTP gives whole seconds,   *)
(* so that two writes may carry the same one.                               *)
Stamps == IF backend = "ssh" THEN {clock, clock + 1} ELSE {clock + 1}

At(c, s) == req[c].pc = s
Goto(c, s) == req' = [req EXCEPT ![c].pc = s]
(* The browser gets the answer, unless the connection on the way is gone.   *)
Heard(c, a) == IF down.core THEN "lost" ELSE IF c \in down.link THEN "error" ELSE a
Answer(c, a) == req' = [req EXCEPT ![c].pc = "done", ![c].ans = Heard(c, a)]

Free(h) == held[h] = NoOne
Take(c, h) == held' = [held EXCEPT ![h] = c]
Release(c) == held' = [h \in DOMAIN held |-> IF held[h] = c THEN NoOne ELSE held[h]]

(* The finally blocks: the temporary file goes, what was held is released.  *)
Leave(c, a) ==
  /\ Answer(c, a)
  /\ temp' = [temp EXCEPT ![c] = "none"]
  /\ Release(c)
  /\ UNCHANGED <<backend, disk, clock, result, down, left>>

(* Put the temporary file in place of whatever the name holds.              *)
Replace(c, p, next) ==
  \E t \in Stamps :
    /\ clock' = t
    /\ disk' = [disk EXCEPT ![p] = [body |-> IF temp[c] = "whole" THEN c ELSE "part",
                                    at |-> t, ino |-> t]]
    /\ temp' = [temp EXCEPT ![c] = "none"]
    /\ req' = [req EXCEPT ![c].hit = disk[p].body, ![c].put = TRUE,
                          ![c].part = PartAfter(@), ![c].pc = next,
                          ![c].ans = IF next = "done" THEN Heard(c, "ok") ELSE @]

Still == UNCHANGED <<backend, disk, clock, result, down, left>>

-----------------------------------------------------------------------------
(* The editor: a page opened with read_text.                                *)

(* Every read_text takes the stamp first and the content afterwards.        *)
ReadStat(c) ==
  /\ At(c, "start") /\ Saves(c)
  /\ IF IsFile(req[c].path)
       THEN req' = [req EXCEPT ![c].pc = "read", ![c].snap.at = disk[req[c].path].at]
       ELSE Answer(c, "error")
  /\ UNCHANGED <<temp, held>> /\ Still

ReadBody(c, next) ==
  /\ At(c, "read")
  /\ IF IsFile(req[c].path)
       THEN req' = [req EXCEPT ![c].pc = next, ![c].snap.body = disk[req[c].path].body]
       ELSE Answer(c, "error")
  /\ UNCHANGED <<temp, held>> /\ Still

LocalReadText(c) == backend = "local" /\ ReadBody(c, "edit")
SshReadText(c) == backend = "ssh" /\ ReadBody(c, "edit")

(* The Node reads with the same code and streams what it read; the Core     *)
(* takes it when size and digest agree.                                     *)
NodeReadTextOpen(c) == backend = "node" /\ ReadBody(c, "stream")

NodeTextArrives(c) ==
  /\ At(c, "stream")
  /\ Goto(c, "edit")
  /\ UNCHANGED <<temp, held>> /\ Still

-----------------------------------------------------------------------------
(* Saves.  A local save waits for the edit lock; a Node is told what is     *)
(* expected before it gets the content.                                     *)

SaveFile(c) ==
  /\ At(c, "edit")
  /\ Goto(c, CASE backend = "local" -> "lock" [] backend = "ssh" -> "check"
               [] backend = "node" -> "open")
  /\ UNCHANGED <<temp, held>> /\ Still

\* Mutant: a local save does not take the edit lock.
LocalFileCallUnlocked(c) ==
  /\ At(c, "lock")
  /\ Goto(c, "check")
  /\ UNCHANGED <<temp, held>> /\ Still

LocalFileCall(c) ==
  /\ At(c, "lock") /\ Free("edit")
  /\ Take(c, "edit")
  /\ Goto(c, "check")
  /\ UNCHANGED temp /\ Still

(* The name holds a file with the digest and the stamp of the snapshot.     *)
ExpectedSource(c) == IsFile(req[c].path) /\ Snapshot(req[c].path) = req[c].snap

\* Mutant: a conflict leaves without releasing what is held.
RequireExpectedKeepsLock(c, from, next) ==
  /\ At(c, from)
  /\ IF ExpectedSource(c)
       THEN Goto(c, next) /\ UNCHANGED <<temp, held>>
       ELSE Answer(c, "conflict") /\ temp' = [temp EXCEPT ![c] = "none"] /\ UNCHANGED held
  /\ Still

RequireExpected(c, from, next) ==
  /\ At(c, from)
  /\ IF ExpectedSource(c)
       THEN Goto(c, next) /\ UNCHANGED <<temp, held>> /\ Still
       ELSE Leave(c, "conflict")

NodeWriteTextOpen(c) == RequireExpected(c, "open", "close")

(* stream.close is handled inside the Node's receive loop, which serves     *)
(* nothing else until write_text has returned.                              *)
NodeWriteTextClose(c) ==
  /\ At(c, "close") /\ Free("recv")
  /\ Take(c, "recv")
  /\ Goto(c, "check")
  /\ UNCHANGED temp /\ Still

Prepared(c) ==
  /\ At(c, "temp")
  /\ temp' = [temp EXCEPT ![c] = "whole"]
  /\ Goto(c, "recheck")
  /\ UNCHANGED held /\ Still

(* os.replace and posix_rename also create a name that is gone; only a      *)
(* directory in its place makes them fail.                                  *)
Published(c) ==
  LET p == req[c].path IN
  /\ At(c, "publish") /\ ~Uploads(c) /\ req[c].snap # NoSnapshot
  /\ IF disk[p].body = "dir"
       THEN Leave(c, "error")
       ELSE Replace(c, p, "reread") /\ UNCHANGED <<backend, held, result, down, left>>

(* FileService.write_text, in the Core and on a Node.                       *)
CheckSource(c) == backend # "ssh" /\ RequireExpected(c, "check", "temp")
WriteTemporary(c) == backend # "ssh" /\ Prepared(c)
RecheckSource(c) == backend # "ssh" /\ RequireExpected(c, "recheck", "publish")
ReplaceText(c) == backend # "ssh" /\ Published(c)

(* SSHBackend.write_text.                                                   *)
SshCheckSource(c) == backend = "ssh" /\ RequireExpected(c, "check", "temp")
SshWriteTemporary(c) == backend = "ssh" /\ Prepared(c)
SshRecheckSource(c) == backend = "ssh" /\ RequireExpected(c, "recheck", "publish")
SshReplaceText(c) == backend = "ssh" /\ Published(c)

(* The answer of a save is a fresh read_text; Save and Run starts the run   *)
(* with the digest of that.                                                 *)
Gone(c) ==
  /\ At(c, "reread") /\ ~IsFile(req[c].path)
  /\ Leave(c, IF req[c].kind = "collect" THEN "conflict" ELSE "error")

Saved(c) ==
  /\ At(c, "reread") /\ IsFile(req[c].path)
  /\ req' = [req EXCEPT ![c].pc = "done", ![c].ans = Heard(c, "ok"),
                        ![c].ran = IF req[c].kind = "run" THEN disk[req[c].path].body ELSE @]
  /\ Release(c)
  /\ UNCHANGED temp /\ Still

SavedSnapshot(c) == Gone(c) \/ (backend # "node" /\ Saved(c))

\* Mutant: the digest in the Node's answer is not compared.
NodeSavedSnapshotTrusted(c) == backend = "node" /\ Saved(c)

(* The Core refuses a Node's answer whose digest is not that of what it     *)
(* sent.                                                                    *)
NodeSavedSnapshot(c) ==
  /\ backend = "node"
  /\ \/ disk[req[c].path].body = c /\ Saved(c)
     \/ At(c, "reread") /\ IsFile(req[c].path) /\ disk[req[c].path].body # c /\ Leave(c, "error")

-----------------------------------------------------------------------------
(* Uploads.                                                                 *)

(* The file of the form or the stream that is stored now.                   *)
Target(c) == IF req[c].part = "second" THEN req[c].to ELSE req[c].path

(* The target must be free, or a regular file that may be overwritten.      *)
UploadRefused(c, p) ==
  CASE disk[p].body = "dir" -> "error"
    [] IsFile(p) /\ ~req[c].over -> "exists"
    [] OTHER -> "none"

(* A collection reports an existing name as a conflict.                     *)
Told(c, a) == IF req[c].kind = "collect" /\ a = "exists" THEN "conflict" ELSE a

(* The form checks the names of all its files before it stores the first:   *)
(* on this machine as targets, on a remote one in the listing of the folder *)
(* and only when it may not overwrite.                                      *)
FormRefused(c) ==
  LET refused(p) == IF backend = "local" THEN UploadRefused(c, p)
                    ELSE IF ~Missing(p) /\ ~req[c].over THEN "exists" ELSE "none"
  IN  IF refused(req[c].path) # "none" \/ req[c].part = "only"
        THEN refused(req[c].path) ELSE refused(req[c].to)

StoreFirst == IF backend = "local" THEN "u_temp" ELSE "u_check"

FormTargets(c) ==
  /\ At(c, "start") /\ req[c].kind = "form"
  /\ IF FormRefused(c) # "none"
       THEN Leave(c, FormRefused(c))
       ELSE Goto(c, StoreFirst) /\ UNCHANGED <<temp, held>> /\ Still

(* The stream route has one target.                                         *)
StreamTarget(c) ==
  /\ At(c, "start") /\ req[c].kind = "stream"
  /\ Goto(c, "u_check")
  /\ UNCHANGED <<temp, held>> /\ Still

Checked(c) ==
  /\ At(c, "u_check")
  /\ IF UploadRefused(c, Target(c)) # "none"
       THEN Leave(c, Told(c, UploadRefused(c, Target(c))))
       ELSE /\ req' = [req EXCEPT ![c].pc = "u_temp", ![c].ino = disk[Target(c)].ino]
            /\ IF backend = "ssh" THEN UNCHANGED held ELSE Take(c, "loop")
            /\ UNCHANGED temp /\ Still

(* This machine and the Node check and make the temporary file in one piece *)
(* of their event loop, SFTP in two calls.                                  *)
LocalUploadCheck(c) == backend = "local" /\ Free("loop") /\ Checked(c)
SshUploadCheck(c) == backend = "ssh" /\ Checked(c)
NodeUploadOpen(c) == backend = "node" /\ Free("loop") /\ Checked(c)

UploadTemporary(c) ==
  /\ At(c, "u_temp")
  /\ temp' = [temp EXCEPT ![c] = "part"]
  /\ Goto(c, "feed")
  /\ held' = [held EXCEPT !.loop = IF @ = c THEN NoOne ELSE @]
  /\ Still

(* The chunks arrive, or the browser goes away or exceeds the limit.        *)
Fed(c, next) ==
  /\ At(c, "feed")
  /\ \/ /\ temp' = [temp EXCEPT ![c] = "whole"]
        /\ Goto(c, next)
        /\ UNCHANGED held /\ Still
     \/ Uploads(c) /\ Leave(c, "error")

LocalFeed(c) == backend = "local" /\ Fed(c, "final")
SshFeed(c) == backend = "ssh" /\ Fed(c, "final")
NodeFeed(c) == backend = "node" /\ Fed(c, "u_close")

NodeUploadClose(c) ==
  /\ At(c, "u_close") /\ Free("recv")
  /\ Take(c, "recv")
  /\ Goto(c, "final")
  /\ UNCHANGED temp /\ Still

(* What is looked at before an upload is published.                         *)
Final(c, may) ==
  /\ At(c, "final")
  /\ IF may
       THEN /\ Goto(c, "publish")
            /\ IF backend = "ssh" THEN UNCHANGED held ELSE Take(c, "loop")
            /\ UNCHANGED temp /\ Still
       ELSE Leave(c, Told(c, "exists"))

(* _store_upload does not look again, _store_request_upload does.           *)
StoreUpload(c) == req[c].kind = "form" /\ backend = "local" /\ Free("loop") /\ Final(c, TRUE)
StoreRequestUpload(c) ==
  /\ req[c].kind = "stream" /\ backend = "local" /\ Free("loop")
  /\ Final(c, req[c].over \/ Missing(req[c].path))
SshMayRename(c) == req[c].over \/ Missing(Target(c))
SshUploadFinal(c) == backend = "ssh" /\ req[c].kind = "form" /\ Final(c, SshMayRename(c))
SshStreamFinal(c) == backend = "ssh" /\ req[c].kind # "form" /\ Final(c, SshMayRename(c))
(* The Node compares the file with the one it saw when the upload began.    *)
NodeUploadFinal(c) ==
  backend = "node" /\ Free("loop") /\ Final(c, disk[Target(c)].ino = req[c].ino)

\* Mutant: every upload is published with a rename that replaces.
RefusesExistingCollected(c) == req[c].kind = "collect"

(* Only os.link and the SFTP rename refuse a name that exists by then.      *)
RefusesExisting(c) ==
  \/ req[c].kind = "collect"
  \/ backend \in {"ssh", "node"} /\ ~req[c].over

(* The form goes on with its second file, unless nobody waits for it: the   *)
(* Node publishes what was closed even after its connection is gone.        *)
AfterPublish(c) ==
  CASE req[c].kind = "collect" /\ backend = "local" -> "reread"
    [] req[c].part = "first" /\ ~down.core /\ c \notin down.link -> StoreFirst
    [] OTHER -> "done"

PublishNew(c) ==
  LET p == Target(c) IN
  /\ At(c, "publish") /\ (Uploads(c) \/ req[c].snap = NoSnapshot)
  /\ IF disk[p].body = "dir" \/ (IsFile(p) /\ RefusesExisting(c))
       THEN Leave(c, Told(c, IF RefusesExisting(c) THEN "exists" ELSE "error"))
       ELSE /\ Replace(c, p, AfterPublish(c))
            /\ IF req'[c].pc # "reread" THEN Release(c) ELSE UNCHANGED held
            /\ UNCHANGED <<backend, result, down, left>>

-----------------------------------------------------------------------------
(* Create, rename, delete.  Locally each is one piece of the event loop; a  *)
(* Node runs it in a thread, SFTP as separate calls.                        *)

CreateCheck(c) ==
  /\ At(c, "start") /\ req[c].kind = "create"
  /\ backend = "local" => Free("loop")
  /\ IF Missing(req[c].path)
       THEN /\ Goto(c, "act")
            /\ IF backend = "local" THEN Take(c, "loop") ELSE UNCHANGED held
            /\ UNCHANGED temp /\ Still
       ELSE Leave(c, "exists")

(* touch only stamps a file that appeared meanwhile; SFTP creates with "x". *)
CreateEntry(c) ==
  LET p == req[c].path IN
  /\ At(c, "act") /\ req[c].kind = "create"
  /\ \/ /\ Missing(p)
        /\ \E t \in Stamps :
             /\ clock' = t
             /\ disk' = [disk EXCEPT ![p] = [body |-> c, at |-> t, ino |-> t]]
        /\ req' = [req EXCEPT ![c].pc = "done", ![c].ans = Heard(c, "ok"), ![c].put = TRUE]
        /\ Release(c)
        /\ UNCHANGED <<backend, temp, result, down, left>>
     \/ /\ ~Missing(p) /\ backend = "ssh"
        /\ Leave(c, "error")
     \/ /\ ~Missing(p) /\ backend # "ssh"
        /\ clock' = clock + 1
        /\ disk' = [disk EXCEPT ![p].at = clock + 1]
        /\ Answer(c, "ok")
        /\ Release(c)
        /\ UNCHANGED <<backend, temp, result, down, left>>

RenameCheck(c) ==
  /\ At(c, "start") /\ req[c].kind = "rename"
  /\ backend = "local" => Free("loop")
  /\ IF ~Missing(req[c].path) /\ Missing(req[c].to)
       THEN /\ Goto(c, "act")
            /\ IF backend = "local" THEN Take(c, "loop") ELSE UNCHANGED held
            /\ UNCHANGED temp /\ Still
       ELSE Leave(c, IF Missing(req[c].path) THEN "error" ELSE "exists")

(* rename(2) takes the place of a file; the SFTP rename refuses any name    *)
(* that exists.                                                             *)
RenameFails(c) ==
  LET p == req[c].path  q == req[c].to IN
  \/ Missing(p)
  \/ ~Missing(q) /\ (backend = "ssh" \/ (disk[q].body = "dir") # (disk[p].body = "dir"))

RenameEntry(c) ==
  LET p == req[c].path  q == req[c].to IN
  /\ At(c, "act") /\ req[c].kind = "rename"
  /\ IF RenameFails(c)
       THEN Leave(c, "error")
       ELSE /\ disk' = [disk EXCEPT ![q] = disk[p], ![p] = Absent]
            /\ req' = [req EXCEPT ![c].pc = "done", ![c].ans = Heard(c, "ok"), ![c].put = TRUE,
                                  ![c].hit = disk[q].body]
            /\ Release(c)
            /\ UNCHANGED <<backend, temp, clock, result, down, left>>

DeleteEntry(c) ==
  /\ At(c, "start") /\ req[c].kind = "delete"
  /\ backend = "local" => Free("loop")
  /\ IF Missing(req[c].path)
       THEN Leave(c, "error")
       ELSE /\ disk' = [disk EXCEPT ![req[c].path] = Absent]
            /\ Answer(c, "ok")
            /\ UNCHANGED <<backend, temp, held, clock, result, down, left>>

(* The same three on each backend.                                          *)
LocalCreate(c) == backend = "local" /\ (CreateCheck(c) \/ CreateEntry(c))
SshCreate(c) == backend = "ssh" /\ (CreateCheck(c) \/ CreateEntry(c))
NodeCreate(c) == backend = "node" /\ (CreateCheck(c) \/ CreateEntry(c))
LocalRename(c) == backend = "local" /\ (RenameCheck(c) \/ RenameEntry(c))
SshRename(c) == backend = "ssh" /\ (RenameCheck(c) \/ RenameEntry(c))
NodeRename(c) == backend = "node" /\ (RenameCheck(c) \/ RenameEntry(c))
LocalDelete(c) == backend = "local" /\ DeleteEntry(c)
SshDelete(c) == backend = "ssh" /\ DeleteEntry(c)
NodeDelete(c) == backend = "node" /\ DeleteEntry(c)

-----------------------------------------------------------------------------
(* Collection of a Remote Run's result: review, apply, report.  The run     *)
(* began with a snapshot of the source and left content of its own.         *)

(* What _read_current_source finds, and the revision of the plan over it.   *)
CurrentSource(c) == disk[req[c].path].body
PlanRevision(c) == Snapshot(req[c].path)

(* The status _build_plan gives the path, from baseline and current source. *)
PlanAdded(c) == IF CurrentSource(c) = "none" THEN "added" ELSE "conflict"
PlanModified(c) == IF CurrentSource(c) # req[c].base THEN "conflict" ELSE "modified"
PlanStatus(c) ==
  CASE "dir" \in {CurrentSource(c), req[c].base} -> "conflict"
    [] CurrentSource(c) = c -> "already"
    [] req[c].base = "none" -> PlanAdded(c)
    [] OTHER -> PlanModified(c)

(* The snapshot of the source at the start of the run is the baseline.      *)
RunSnapshot(c) ==
  /\ At(c, "start") /\ req[c].kind = "collect"
  /\ req' = [req EXCEPT ![c].pc = "review", ![c].base = disk[req[c].path].body]
  /\ UNCHANGED <<temp, held>> /\ Still

(* The plan on the page; its revision covers status, digests and stamps.    *)
Review(c) ==
  /\ At(c, "review")
  /\ req' = [req EXCEPT ![c].pc = "apply", ![c].snap = PlanRevision(c)]
  /\ UNCHANGED <<temp, held>> /\ Still

(* apply() holds the lock of the source Workspace and plans again.          *)
ApplyLocked(c) ==
  /\ At(c, "apply") /\ Free("apply")
  /\ IF PlanRevision(c) # req[c].snap
       THEN Leave(c, "conflict")
       ELSE IF PlanStatus(c) \in {"conflict", "already"}
       THEN Leave(c, PlanStatus(c))
       ELSE /\ Take(c, "apply")
            /\ Goto(c, "fetch")
            /\ UNCHANGED temp /\ Still

(* What is modified goes through write_text, without the editors' lock;     *)
(* what is new through a no-overwrite upload, or os.link on this machine.   *)
WriteExisting == IF backend = "node" THEN "open" ELSE "check"
WriteNew == IF backend = "local" THEN "new" ELSE "u_check"

(* The result is read again and must have the digest of the plan.           *)
ReadyResultContent(c) ==
  /\ At(c, "fetch")
  /\ IF ~result
       THEN Leave(c, "conflict")
       ELSE /\ Goto(c, IF req[c].snap.body # "none" THEN WriteExisting ELSE WriteNew)
            /\ UNCHANGED <<temp, held>> /\ Still

(* write_new_text: refuse an existing name, write the temporary file, link. *)
WriteNewText(c) ==
  /\ At(c, "new")
  /\ IF ~Missing(req[c].path)
       THEN Leave(c, "conflict")
       ELSE /\ temp' = [temp EXCEPT ![c] = "whole"]
            /\ Goto(c, "publish")
            /\ UNCHANGED held /\ Still

-----------------------------------------------------------------------------
(* Archives: a ZIP of the selection, and a ZIP of a run's result.           *)

(* What is selected must be in the listing of its folder.                   *)
ArchiveSelect(c) ==
  /\ At(c, "start") /\ req[c].kind = "archive"
  /\ IF Missing(req[c].path)
       THEN Answer(c, "error") /\ UNCHANGED temp
       ELSE Goto(c, "z_open") /\ temp' = [temp EXCEPT ![c] = "part"]
  /\ UNCHANGED held /\ Still

(* On this machine the member is opened and copied in one thread; a remote  *)
(* one is opened first and streamed afterwards.                             *)
DownloadOpen(c, next) ==
  /\ At(c, "z_open")
  /\ IF Missing(req[c].path)
       THEN Leave(c, "error")
       ELSE /\ req' = [req EXCEPT ![c].pc = next, ![c].ino = disk[req[c].path].ino]
            /\ UNCHANGED <<temp, held>> /\ Still

WriteLocalArchive(c) == backend = "local" /\ DownloadOpen(c, "z_serve")
SshDownloadOpen(c) == backend = "ssh" /\ DownloadOpen(c, "z_read")
NodeDownloadOpen(c) == backend = "node" /\ DownloadOpen(c, "z_read")

SshDownload(c) ==
  /\ At(c, "z_read") /\ backend = "ssh" /\ req[c].kind = "archive"
  /\ Goto(c, "z_serve")
  /\ UNCHANGED <<temp, held>> /\ Still

(* The Node streams only while the name is still the file it opened.        *)
NodeDownload(c) ==
  /\ At(c, "z_read") /\ backend = "node" /\ req[c].kind = "archive"
  /\ IF disk[req[c].path].ino # req[c].ino
       THEN Leave(c, "error")
       ELSE Goto(c, "z_serve") /\ UNCHANGED <<temp, held>> /\ Still

(* The response is sent; its background task removes the archive.           *)
ArchiveServed(c) == At(c, "z_serve") /\ Leave(c, "ok")

(* A run's result: each file is staged beside the archive and kept only if  *)
(* it did not change while it was read.                                     *)
ResultArchive(c) ==
  /\ At(c, "start") /\ req[c].kind = "zip"
  /\ temp' = [temp EXCEPT ![c] = "part"]
  /\ Goto(c, "z_stage")
  /\ UNCHANGED held /\ Still

StageFile(c) ==
  /\ At(c, "z_stage")
  /\ temp' = [temp EXCEPT ![c] = "staged"]
  /\ Goto(c, "z_read")
  /\ UNCHANGED held /\ Still

\* Mutant: a staged file that changed while it was read is left behind.
StableFileKept(c) ==
  /\ At(c, "z_read") /\ req[c].kind = "zip"
  /\ IF result
       THEN temp' = [temp EXCEPT ![c] = "part"] /\ Goto(c, "z_serve")
       ELSE Answer(c, "conflict") /\ UNCHANGED temp
  /\ UNCHANGED held /\ Still

StableFile(c) ==
  /\ At(c, "z_read") /\ req[c].kind = "zip"
  /\ IF result
       THEN /\ temp' = [temp EXCEPT ![c] = "part"]
            /\ Goto(c, "z_serve")
            /\ UNCHANGED held /\ Still
       ELSE Leave(c, "conflict")

-----------------------------------------------------------------------------
(* The rest of the machine.                                                 *)

(* A program of the user writes, creates or removes a file.                 *)
OutsideEdit(p) ==
  /\ left > 0 /\ disk[p].body # "dir"
  /\ left' = left - 1
  /\ \E t \in Stamps :
       /\ clock' = t
       /\ disk' = [disk EXCEPT ![p] =
            IF Missing(p) THEN [body |-> Outside, at |-> t, ino |-> t]
            ELSE [@ EXCEPT !.body = Outside, !.at = t]]
  /\ UNCHANGED <<backend, temp, req, held, result, down>>

OutsideRemove(p) ==
  /\ left > 0 /\ IsFile(p)
  /\ left' = left - 1
  /\ disk' = [disk EXCEPT ![p] = Absent]
  /\ UNCHANGED <<backend, temp, req, held, clock, result, down>>

(* The shell in the run's Workspace changes the result after the review.    *)
ResultEdit ==
  /\ left > 0 /\ result
  /\ \E c \in Clients : req[c].kind = "collect" /\ req[c].pc # "done"
  /\ left' = left - 1
  /\ result' = FALSE
  /\ UNCHANGED <<backend, disk, temp, req, held, clock, down>>

(* What a Node does on after its connection is gone: a piece of its event   *)
(* loop, a stream.close in its receive loop, an operation in a thread.      *)
NodeGoesOn(c) == backend = "node" /\ (c \in {held["recv"], held["loop"]} \/ At(c, "act"))

(* close_streams aborts every upload that is still being fed.               *)
Abandoned(c, a) ==
  IF NodeGoesOn(c) \/ At(c, "done") THEN req[c]
  ELSE [req[c] EXCEPT !.pc = "done", !.ans = a]
InCore(c) == req[c].kind \in {"archive", "zip"}
CloseStreams(c) ==
  IF backend = "node" /\ ~NodeGoesOn(c) /\ ~InCore(c) THEN "none" ELSE temp[c]

CoreDies ==
  /\ left > 0 /\ ~down.core
  /\ left' = left - 1
  /\ down' = [down EXCEPT !.core = TRUE]
  /\ req' = [c \in Clients |-> Abandoned(c, "lost")]
  /\ temp' = [c \in Clients |-> CloseStreams(c)]
  /\ held' = [h \in DOMAIN held |-> IF backend = "node" /\ h \in {"recv", "loop"}
                                    THEN held[h] ELSE NoOne]
  /\ UNCHANGED <<backend, disk, clock, result>>

(* Requests that use the connection of the Workspace at this point.         *)
OnLink(c) == req[c].pc \notin {"start", "edit", "review", "apply", "fetch", "z_stage",
                              "z_serve", "done"}

(* The connection of one SFTP request breaks: its temporary file stays.     *)
SshLost(c) ==
  /\ backend = "ssh" /\ left > 0
  /\ OnLink(c)
  /\ left' = left - 1
  /\ down' = [down EXCEPT !.link = @ \cup {c}]
  /\ req' = [req EXCEPT ![c].pc = "done", ![c].ans = "error"]
  /\ temp' = [temp EXCEPT ![c] = IF InCore(c) THEN "none" ELSE @]
  /\ Release(c)
  /\ UNCHANGED <<backend, disk, clock, result>>

(* The Node's connection breaks for every request that uses it.             *)
NodeLost ==
  /\ backend = "node" /\ left > 0 /\ ~down.core
  /\ \E c \in Clients : OnLink(c)
  /\ left' = left - 1
  /\ down' = [down EXCEPT !.link = {c \in Clients : OnLink(c)}]
  /\ req' = [c \in Clients |-> IF OnLink(c) THEN Abandoned(c, "error") ELSE req[c]]
  /\ temp' = [c \in Clients |-> IF InCore(c) /\ OnLink(c) THEN "none" ELSE CloseStreams(c)]
  /\ held' = [h \in DOMAIN held |->
                IF held[h] \in Clients /\ OnLink(held[h]) /\ ~NodeGoesOn(held[h])
                THEN NoOne ELSE held[h]]
  /\ UNCHANGED <<backend, disk, clock, result>>

-----------------------------------------------------------------------------
Editor(c) ==
  \/ ReadStat(c) \/ LocalReadText(c) \/ SshReadText(c) \/ NodeReadTextOpen(c)
  \/ NodeTextArrives(c) \/ SaveFile(c) \/ LocalFileCall(c)
  \/ NodeWriteTextOpen(c) \/ NodeWriteTextClose(c)
  \/ CheckSource(c) \/ WriteTemporary(c) \/ RecheckSource(c) \/ ReplaceText(c)
  \/ SshCheckSource(c) \/ SshWriteTemporary(c) \/ SshRecheckSource(c) \/ SshReplaceText(c)
  \/ SavedSnapshot(c) \/ NodeSavedSnapshot(c)
Upload(c) ==
  \/ FormTargets(c) \/ StreamTarget(c)
  \/ LocalUploadCheck(c) \/ SshUploadCheck(c) \/ NodeUploadOpen(c) \/ UploadTemporary(c)
  \/ LocalFeed(c) \/ SshFeed(c) \/ NodeFeed(c) \/ NodeUploadClose(c)
  \/ StoreUpload(c) \/ StoreRequestUpload(c) \/ SshUploadFinal(c) \/ SshStreamFinal(c)
  \/ NodeUploadFinal(c) \/ PublishNew(c)
Manage(c) ==
  \/ LocalCreate(c) \/ LocalRename(c) \/ LocalDelete(c)
  \/ SshCreate(c) \/ SshRename(c) \/ SshDelete(c)
  \/ NodeCreate(c) \/ NodeRename(c) \/ NodeDelete(c)
Collect(c) ==
  \/ RunSnapshot(c) \/ Review(c) \/ ApplyLocked(c) \/ ReadyResultContent(c) \/ WriteNewText(c)

Archive(c) ==
  \/ ArchiveSelect(c) \/ WriteLocalArchive(c) \/ SshDownloadOpen(c) \/ NodeDownloadOpen(c)
  \/ SshDownload(c) \/ NodeDownload(c)
  \/ ArchiveServed(c) \/ ResultArchive(c) \/ StageFile(c) \/ StableFile(c)

Request(c) == Editor(c) \/ Upload(c) \/ Manage(c) \/ Collect(c) \/ Archive(c)

Environment ==
  \/ \E p \in Paths : OutsideEdit(p) \/ OutsideRemove(p)
  \/ ResultEdit
  \/ CoreDies \/ NodeLost
  \/ \E c \in Clients : SshLost(c)

Next == (\E c \in Clients : Request(c)) \/ Environment

Spec == Init /\ [][Next]_vars

(* A handler that has begun runs on: the event loop, the threads and the    *)
(* remote ends take their steps, and a browser sends what it started.       *)
LiveSpec == Spec /\ \A c \in Clients : WF_vars(Request(c))

-----------------------------------------------------------------------------
(* Properties.                                                              *)

(* Type invariant.                                                          *)
TypeOK ==
  /\ backend \in Backends
  /\ disk \in [Paths -> Entries]
  /\ temp \in [Clients -> {"none", "part", "whole", "staged"}]
  /\ req \in [Clients -> ReqType]
  /\ held \in [{"loop", "edit", "recv", "apply"} -> Clients \cup {NoOne}]
  /\ clock \in Nat /\ result \in BOOLEAN
  /\ down \in [core: BOOLEAN, link: SUBSET Clients]
  /\ left \in 0..Troubles

(* A rename put a file under the name: it takes no lock of the editors and  *)
(* may bring a save from another name.                                      *)
MovedTo(p) ==
  \E c \in Clients : req[c].kind = "rename" /\ req[c].put /\ req[c].to = p

(* No editor save replaces the save of another editor that it has not read: *)
(* on this machine because local_file_call holds the edit lock over both    *)
(* checks and the replacement, on a Node because its receive loop closes    *)
(* one stream at a time, also while the connection is already gone.  Only a *)
(* rename may slip a save under the name between check and replacement.     *)
NoLostSave ==
  \A c, d \in Clients :
    backend # "ssh" /\ Saves(c) /\ Saves(d) /\ c # d /\ req[c].put /\ req[c].hit = d
      => req[c].snap.body = d \/ MovedTo(req[c].path)

(* Whatever was to create a name never takes the place of a file: an upload *)
(* without overwrite and a collected addition over SFTP and on a Node, and  *)
(* an SFTP rename, whatever happens meanwhile; a local upload stream and a  *)
(* local rename only lose against what runs outside the event loop.         *)
NoClobber ==
  \A c \in Clients :
    LET k == req[c].kind
        created == \/ k = "collect" /\ req[c].snap = NoSnapshot
                   \/ k \in {"create", "rename"}
                   \/ Uploads(c) /\ ~req[c].over
    IN  created /\ req[c].put /\ req[c].hit # "none"
          => \/ backend = "local" /\ k = "form"
             \/ backend = "node" /\ k = "rename"
             \/ /\ backend = "local" /\ k \in {"stream", "rename"}
                /\ \/ req[c].hit \notin Clients
                   \/ \E d \in Clients : d = req[c].hit /\ (Saves(d) \/ req[d].kind = "collect")

(* A name never holds part of an upload: a browser that goes away, a limit  *)
(* that is exceeded or a connection that breaks leaves the target alone.    *)
WholeFiles == \A p \in Paths : disk[p].body # "part"

(* A request that ended left no temporary file behind, except where the     *)
(* code that removes it could not run: the Core died, or the SFTP           *)
(* connection that would carry the removal is gone.                         *)
NoOrphanTemporary ==
  \A c \in Clients :
    At(c, "done") /\ temp[c] # "none"
      => down.core \/ (backend = "ssh" /\ c \in down.link /\ ~InCore(c))

(* An upload, a save or a collection that is cut short leaves nothing half  *)
(* done: no partial file under a name, no temporary one beside it.          *)
NothingHalfDone == WholeFiles /\ NoOrphanTemporary

(* What the browser is told is what happened: ok means that every file is   *)
(* published.  A conflict or an existing name means that the file it speaks *)
(* of was not written; a form that stops at its second file has stored the  *)
(* first and does not say so, and a collection may also call a file that    *)
(* vanished right after the write a conflict.  Save and Run on a Node runs  *)
(* the submitted content, on this machine never that of another editor,     *)
(* unless a rename brought it there.                                        *)
AnswerIsTrue ==
  \A c \in Clients :
    /\ req[c].ans = "ok" /\ (Saves(c) \/ Uploads(c) \/ req[c].kind = "collect")
         => req[c].put /\ req[c].part \in {"only", "both"}
    /\ req[c].ans \in {"conflict", "exists"} /\ req[c].put
         => req[c].kind = "collect" \/ req[c].part = "second"
    /\ req[c].ran # "none" =>
         CASE backend = "node" -> req[c].ran = c
           [] backend = "local" ->
                \A d \in Clients :
                  req[c].ran = d => d = c \/ ~Saves(d) \/ MovedTo(req[c].path)
           [] backend = "ssh" -> TRUE

(* Every request comes to its end: the edit lock, the apply lock and the    *)
(* loops are given back on every path through the handlers.                 *)
RequestsEnd == \A c \in Clients : <>At(c, "done")

=============================================================================
