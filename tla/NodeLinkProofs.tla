---------------------------- MODULE NodeLinkProofs ----------------------------
(***************************************************************************)
(* The safety properties of NodeLink for any number of calls, frames, any  *)
(* window, depth and number of slots: a cancelled call never costs the     *)
(* connection, the credit of a source is agreed on, and a source whose     *)
(* stream ended was received completely and in order.                      *)
(***************************************************************************)
EXTENDS NodeLink, SequenceTheorems, FiniteSetTheorems, TLAPS

-----------------------------------------------------------------------------
(* The inductive invariant *)

AgentMessages == [type: {"request", "data", "credit", "close", "abort"}, id: Calls, n: Nat]
CoreMessages == [type: {"ok", "failed", "data", "end", "error"}, id: Calls, n: Nat]

\* The Node pushes frames for the call; it has answered the call's request.
Feeds(i) == kind[i] \in {"push", "source"}
Past == {i \in Calls : task[i] \notin {"none", "queued", "busy"}}
\* Somebody waits for the answer, or remembers that nobody does.
Expected == {i \in Calls : future[i] = "pending" \/ Buried(deadCalls, i)}

AtAgent == 1 .. Len(toAgent)
AtCore == 1 .. Len(toCore)
AtQueue(i) == 1 .. Len(queue[i])

Typed ==
  /\ kind \in [Calls -> CallKinds]
  /\ coreUp \in BOOLEAN /\ agentUp \in BOOLEAN
  /\ toAgent \in Seq(AgentMessages) /\ toCore \in Seq(CoreMessages)
  /\ call \in [Calls -> {"idle", "wait", "open", "finish", "complete", "done"}]
  /\ future \in [Calls -> {"none", "pending", "ok", "error"}]
  /\ streams \subseteq Calls
  /\ deadCalls \in Seq(Calls) /\ deadStreams \in Seq(Calls)
  /\ closed \in [Calls -> BOOLEAN] /\ gap \in [Calls -> BOOLEAN]
  /\ queue \in [Calls -> Seq(Items)]
  /\ granted \in [Calls -> 0 .. Frames] /\ got \in [Calls -> Nat]
  /\ registry \subseteq Calls
  /\ task \in [Calls -> {"none", "queued", "busy", "loop", "sending", "closing", "done"}]
  /\ sent \in [Calls -> 0 .. Frames] /\ credit \in [Calls -> 0 .. Window]

Blamed == cause \in Causes \ {"response_unknown", "agent_credit"}

\* Before a call is made nothing is known of it.
Fresh ==
  \A i \in Calls : call[i] = "idle" =>
    /\ task[i] = "none" /\ sent[i] = 0 /\ got[i] = 0
    /\ queue[i] = <<>> /\ ~closed[i]

\* A request is sent once, and before everything else about its call.
Requested ==
  /\ \A k \in AtAgent : toAgent[k].type = "request" =>
       /\ task[toAgent[k].id] = "none" /\ call[toAgent[k].id] # "idle"
       /\ coreUp => toAgent[k].id \in Expected
  /\ \A k, m \in AtAgent :
       toAgent[k].type = "request" /\ toAgent[m].type = "request"
       /\ toAgent[k].id = toAgent[m].id => k = m
  /\ \A k \in AtAgent : toAgent[k].type # "request" => toAgent[k].id \in Past
  /\ \A k \in AtAgent : toAgent[k].type = "close" => kind[toAgent[k].id] = "upload"

\* A request that the Node works on is expected to be answered, and nothing follows
\* an answer that was not given.
AnswersDue ==
  \A i \in Calls :
    /\ coreUp /\ task[i] \in {"queued", "busy"} => i \in Expected
    /\ future[i] = "ok" \/ call[i] \in {"open", "finish", "complete"} => i \in Past

\* It is answered once.
Responded ==
  /\ \A k \in AtCore : toCore[k].type \in {"ok", "failed"} =>
       toCore[k].id \in Past /\ toCore[k].id \in Expected
  /\ \A k, m \in AtCore :
       toCore[k].type \in {"ok", "failed"} /\ toCore[m].type \in {"ok", "failed"}
       /\ toCore[k].id = toCore[m].id => k = m
  /\ AnswersDue

\* Every cancelled call is remembered.
Remembered ==
  /\ \A k \in 1 .. Len(deadCalls) : call[deadCalls[k]] = "done"
  /\ \A k, m \in 1 .. Len(deadCalls) : deadCalls[k] = deadCalls[m] => k = m

\* A stream that is open has a reader, and its queue holds frames only.
Streaming ==
  \A i \in streams :
    /\ coreUp /\ ~closed[i] /\ HasStream(i) /\ call[i] \in {"wait", "open", "finish"}
    /\ \A k \in AtQueue(i) : queue[i][k].k = "data"

\* Frames are numbered in the order in which they are sent, and the ones under way
\* are later than the ones delivered.
Flowing ==
  /\ \A k \in AtCore : toCore[k].type = "data" =>
       /\ Feeds(toCore[k].id) /\ toCore[k].n \in 1 .. sent[toCore[k].id]
       /\ toCore[k].id \in streams =>
            toCore[k].n > got[toCore[k].id] + Len(queue[toCore[k].id])
  /\ \A k, m \in AtCore : toCore[k].type = "data" /\ toCore[m].type = "data"
       /\ toCore[k].id = toCore[m].id /\ k < m => toCore[k].n < toCore[m].n

\* The queue of a stream holds frames that were sent, then perhaps its end.
Queued(i) ==
  \A k \in AtQueue(i) :
    /\ queue[i][k].k = "data" => Feeds(i) /\ queue[i][k].n \in (got[i] + k) .. sent[i]
    /\ queue[i][k].k # "data" => k = Len(queue[i])

\* No more is delivered than was sent.
Delivered(i) ==
  /\ Feeds(i) => got[i] <= sent[i] /\ (i \in streams => got[i] + Len(queue[i]) <= sent[i])
  /\ ~Feeds(i) => got[i] = 0
  /\ Len(queue[i]) <= Depth

\* Only streams of the Node have a pushing task.
Pushing(i) ==
  /\ task[i] \in {"loop", "sending", "closing"} => Feeds(i)
  /\ task[i] = "sending" => sent[i] < Frames

\* The credit of a source is with its reader, under way, with the Node or used.
Sending(i) == IF task[i] = "sending" THEN 1 ELSE 0
Counted(i) == kind[i] = "source" =>
  /\ granted[i] <= got[i] + Window
  /\ sent[i] + credit[i] + Sending(i) <= granted[i]
  /\ Len(queue[i]) <= Window + 1

\* The reader of a source gets its frames in order, and its end after the last one.
InOrder(i) == kind[i] = "source" =>
  /\ ~gap[i]
  /\ \A k \in AtQueue(i) :
       /\ queue[i][k].k = "data" => queue[i][k].n = got[i] + k
       /\ queue[i][k].k = "end" => got[i] + k = Frames + 1
  /\ call[i] = "complete" => got[i] = Frames

Streamed(i) == Queued(i) /\ Delivered(i) /\ Pushing(i) /\ Counted(i) /\ InOrder(i)

\* Credit is under way only when the Node has none and has used all it was given.
CreditUnderWay ==
  /\ \A k \in AtAgent : toAgent[k].type = "credit" =>
       /\ kind[toAgent[k].id] = "source" /\ toAgent[k].n \in 1 .. Window
       /\ credit[toAgent[k].id] = 0 /\ task[toAgent[k].id] # "sending"
       /\ granted[toAgent[k].id] = sent[toAgent[k].id] + toAgent[k].n
  /\ \A k, m \in AtAgent :
       toAgent[k].type = "credit" /\ toAgent[m].type = "credit"
       /\ toAgent[k].id = toAgent[m].id => k = m

\* Nothing is missing between what was delivered of a source and what was sent.
UnderWay(i, n) ==
  \E k \in AtCore : toCore[k].type = "data" /\ toCore[k].id = i /\ toCore[k].n = n
Unbroken ==
  \A i \in streams : kind[i] = "source" =>
    \A n \in 1 .. sent[i] : n > got[i] + Len(queue[i]) => UnderWay(i, n)

\* The end of a source is sent after all its frames.
EndsLast ==
  \A k \in AtCore : toCore[k].type = "end" /\ kind[toCore[k].id] = "source" =>
    /\ sent[toCore[k].id] = Frames /\ task[toCore[k].id] \in {"closing", "done"}
    /\ \A m \in AtCore : m > k => ~(toCore[m].type = "data" /\ toCore[m].id = toCore[k].id)

IInv == /\ Typed /\ Blamed /\ Fresh /\ Requested /\ Responded /\ Remembered /\ Streaming
        /\ Flowing /\ (\A i \in Calls : Streamed(i)) /\ CreditUnderWay /\ Unbroken /\ EndsLast

-----------------------------------------------------------------------------
(* Channels *)

\* What is left of a channel after messages were taken from its head.
Suffix(new, old) ==
  \E d \in Nat : \A k \in 1 .. Len(new) : k + d \in 1 .. Len(old) /\ new[k] = old[k + d]

\* A channel to which the message m was added.
Extended(new, old, m) ==
  /\ Len(new) = Len(old) + 1 /\ new[Len(old) + 1] = m
  /\ \A k \in 1 .. Len(old) : new[k] = old[k]

\* A channel that is left alone, emptied or read is a suffix of itself.
LEMMA SuffixSame ==
  ASSUME NEW S, NEW s \in Seq(S) PROVE Suffix(s, s)
<1>1. \A k \in 1 .. Len(s) : k + 0 \in 1 .. Len(s) /\ s[k] = s[k + 0]
  OBVIOUS
<1> QED BY <1>1 DEF Suffix

\* Emptying a channel leaves a suffix.
LEMMA SuffixEmpty ==
  ASSUME NEW s PROVE Suffix(<<>>, s)
<1>1. Len(<<>>) = 0
  OBVIOUS
<1> QED BY <1>1 DEF Suffix

\* Reading a message leaves the rest, at places one lower.
LEMMA TailPlaces ==
  ASSUME NEW S, NEW s \in Seq(S), s # <<>>
  PROVE  /\ Head(s) = s[1] /\ Head(s) \in S /\ Tail(s) \in Seq(S)
         /\ Len(s) \in Nat /\ Len(s) >= 1 /\ Len(Tail(s)) = Len(s) - 1
         /\ \A k \in 1 .. Len(Tail(s)) : k + 1 \in 1 .. Len(s) /\ Tail(s)[k] = s[k + 1]
  OBVIOUS

\* Reading a message leaves a suffix.
LEMMA SuffixTail ==
  ASSUME NEW S, NEW s \in Seq(S), s # <<>> PROVE Suffix(Tail(s), s)
<1>1. \A k \in 1 .. Len(Tail(s)) : k + 1 \in 1 .. Len(s) /\ Tail(s)[k] = s[k + 1]
  BY TailPlaces
<1> QED BY <1>1 DEF Suffix

\* Sending a message extends the channel.
LEMMA ExtendedAppend ==
  ASSUME NEW S, NEW s \in Seq(S), NEW m \in S
  PROVE  Append(s, m) \in Seq(S) /\ Extended(Append(s, m), s, m)
  BY DEF Extended

\* The places of a channel that was extended.
LEMMA ExtendedPlaces ==
  ASSUME NEW S, NEW s \in Seq(S), NEW n, NEW m, Extended(n, s, m)
  PROVE  /\ Len(s) \in Nat /\ Len(n) = Len(s) + 1 /\ n[Len(s) + 1] = m
         /\ \A k \in 1 .. Len(n) : \/ k \in 1 .. Len(s) /\ n[k] = s[k]
                                   \/ k = Len(s) + 1 /\ n[k] = m
<1>1. Len(s) \in Nat /\ Len(n) = Len(s) + 1
  BY DEF Extended
<1>2. \A k \in 1 .. Len(n) : k \in 1 .. Len(s) \/ k = Len(s) + 1
  BY <1>1
<1> QED BY <1>1, <1>2 DEF Extended

\* What SendAgent does to a channel.
LEMMA AgentSent ==
  ASSUME Typed, NEW m \in AgentMessages, SendAgent(m)
  PROVE  /\ toAgent' \in Seq(AgentMessages)
         /\ \/ agentUp /\ Extended(toAgent', toAgent, m)
            \/ ~agentUp /\ toAgent' = toAgent
  BY ExtendedAppend DEF SendAgent, Typed

\* What SendCore does to a channel.
LEMMA CoreSent ==
  ASSUME Typed, NEW m \in CoreMessages, SendCore(m)
  PROVE  /\ toCore' \in Seq(CoreMessages)
         /\ \/ coreUp /\ Extended(toCore', toCore, m)
            \/ ~coreUp /\ toCore' = toCore
  BY ExtendedAppend DEF SendCore, Typed

\* The messages that are sent have the form the channels carry.
LEMMA MessageTypes ==
  /\ \A t \in {"request", "data", "credit", "close", "abort"}, i \in Calls, n \in Nat :
       /\ Message(t, i, n) \in AgentMessages
       /\ Message(t, i, n).type = t /\ Message(t, i, n).id = i /\ Message(t, i, n).n = n
  /\ \A t \in {"ok", "failed", "data", "end", "error"}, i \in Calls, n \in Nat :
       /\ Message(t, i, n) \in CoreMessages
       /\ Message(t, i, n).type = t /\ Message(t, i, n).id = i /\ Message(t, i, n).n = n
  BY DEF Message, AgentMessages, CoreMessages

\* A message of a channel names a call.
LEMMA MessageFields ==
  /\ \A m \in AgentMessages : m.id \in Calls /\ m.n \in Nat
       /\ m.type \in {"request", "data", "credit", "close", "abort"}
  /\ \A m \in CoreMessages : m.id \in Calls /\ m.n \in Nat
       /\ m.type \in {"ok", "failed", "data", "end", "error"}
  BY DEF AgentMessages, CoreMessages

\* The items of a queue.
LEMMA ItemTypes ==
  /\ End \in Items /\ End.k = "end" /\ Error \in Items /\ Error.k = "error"
  /\ \A n \in 1 .. Frames : Data(n) \in Items /\ Data(n).k = "data" /\ Data(n).n = n
  BY DEF End, Error, Data, Items

\* _replace_queue_tail puts the item at the end and keeps the queue in its bound;
\* it drops the oldest item of a full queue only.
LEMMA ReplacedTail ==
  ASSUME NEW q \in Seq(Items), NEW item \in Items, Len(q) <= Depth
  PROVE  LET r == ReplaceQueueTail(q, item)
         IN /\ r \in Seq(Items) /\ Len(r) <= Depth /\ Len(r) \in 1 .. Len(q) + 1
            /\ r[Len(r)] = item
            /\ \E d \in {0, 1} :
                 /\ Len(r) = Len(q) + 1 - d
                 /\ Len(q) < Depth => d = 0
                 /\ \A k \in 1 .. Len(r) : k < Len(r) =>
                      k + d \in 1 .. Len(q) /\ r[k] = q[k + d]
<1> DEFINE r == ReplaceQueueTail(q, item)
<1>1. Depth \in Nat /\ Depth > 0 /\ Len(q) \in Nat
  BY BoundsAssumption
<1>2. CASE Len(q) = Depth
  <2>1. q # <<>>
    BY <1>1, <1>2
  <2>2. r = Append(Tail(q), item)
    BY <1>2, <2>1 DEF ReplaceQueueTail
  <2>3. /\ Tail(q) \in Seq(Items) /\ Len(Tail(q)) = Len(q) - 1
        /\ \A k \in 1 .. Len(Tail(q)) : k + 1 \in 1 .. Len(q) /\ Tail(q)[k] = q[k + 1]
    BY <2>1, TailPlaces
  <2>4. /\ r \in Seq(Items) /\ Extended(r, Tail(q), item)
    BY <2>2, <2>3, ExtendedAppend
  <2> HIDE DEF r
  <2>5. /\ Len(r) = Len(q) /\ r[Len(r)] = item
        /\ \A k \in 1 .. Len(r) : k < Len(r) => k + 1 \in 1 .. Len(q) /\ r[k] = q[k + 1]
    BY <1>1, <2>3, <2>4 DEF Extended
  <2>6. \E d \in {0, 1} :
           /\ Len(r) = Len(q) + 1 - d
           /\ Len(q) < Depth => d = 0
           /\ \A k \in 1 .. Len(r) : k < Len(r) => k + d \in 1 .. Len(q) /\ r[k] = q[k + d]
    BY <1>1, <1>2, <2>5
  <2>7. Len(r) <= Depth /\ Len(r) \in 1 .. Len(q) + 1
    BY <1>1, <1>2, <2>5
  <2> QED BY <2>4, <2>5, <2>6, <2>7 DEF r
<1>3. CASE Len(q) # Depth
  <2>1. r = Append(q, item)
    BY <1>3 DEF ReplaceQueueTail
  <2>2. r \in Seq(Items) /\ Extended(r, q, item)
    BY <2>1, ExtendedAppend
  <2> HIDE DEF r
  <2>3. /\ Len(r) = Len(q) + 1 /\ r[Len(r)] = item
        /\ \A k \in 1 .. Len(r) : k < Len(r) => k + 0 \in 1 .. Len(q) /\ r[k] = q[k + 0]
    BY <1>1, <2>2 DEF Extended
  <2>4. \E d \in {0, 1} :
           /\ Len(r) = Len(q) + 1 - d
           /\ Len(q) < Depth => d = 0
           /\ \A k \in 1 .. Len(r) : k < Len(r) => k + d \in 1 .. Len(q) /\ r[k] = q[k + d]
    BY <1>1, <2>3
  <2>5. Len(r) <= Depth /\ Len(r) \in 1 .. Len(q) + 1
    BY <1>1, <1>3, <2>3
  <2> QED BY <2>2, <2>3, <2>4, <2>5 DEF r
<1> QED BY <1>2, <1>3

-----------------------------------------------------------------------------
(* What leaves the parts of the invariant alone *)

\* Calls that were made stay made.
MadeKept == \A j \in Calls : call'[j] = "idle" => call[j] = "idle"

\* Requests that were answered stay answered.
PastKept == Past \subseteq Past'

\* Fresh is kept when the state of calls that were not made is left alone.
LEMMA FreshKept ==
  ASSUME Fresh,
         \A j \in Calls : call'[j] = "idle" =>
           /\ call[j] = "idle" /\ task'[j] = task[j] /\ sent'[j] = sent[j]
           /\ got'[j] = got[j] /\ queue'[j] = queue[j] /\ closed'[j] = closed[j]
  PROVE  Fresh'
  BY DEF Fresh

\* Messages to the Node that are read or lost cost Requested nothing.
LEMMA RequestedKept ==
  ASSUME Typed, toAgent' \in Seq(AgentMessages), Requested, Suffix(toAgent', toAgent),
         kind' = kind, MadeKept, PastKept,
         \A k \in 1 .. Len(toAgent') : toAgent'[k].type = "request" =>
           /\ task'[toAgent'[k].id] = "none"
           /\ coreUp' => coreUp /\ (toAgent'[k].id \in Expected => toAgent'[k].id \in Expected')
  PROVE  Requested'
<1> DEFINE n == toAgent'
<1>1. PICK d \in Nat : \A k \in 1 .. Len(n) : k + d \in AtAgent /\ n[k] = toAgent[k + d]
  BY DEF Suffix, AtAgent
<1>2. \A k \in 1 .. Len(n) : n[k].id \in Calls
  BY MessageFields
<1> HIDE DEF n
<1>3. \A k \in 1 .. Len(n) : n[k].type = "request" =>
        /\ task'[n[k].id] = "none" /\ call'[n[k].id] # "idle"
        /\ coreUp' => n[k].id \in Expected'
  BY <1>1, <1>2 DEF n, Requested, MadeKept
<1>4. \A k, m \in 1 .. Len(n) :
        n[k].type = "request" /\ n[m].type = "request" /\ n[k].id = n[m].id => k = m
  <2> SUFFICES ASSUME NEW k \in 1 .. Len(n), NEW m \in 1 .. Len(n), n[k].type = "request",
                      n[m].type = "request", n[k].id = n[m].id
               PROVE  k = m
    OBVIOUS
  <2>1. k + d = m + d
    BY <1>1 DEF Requested
  <2>2. Len(n) \in Nat
    BY DEF n
  <2> QED BY <2>1, <2>2
<1>5. \A k \in 1 .. Len(n) : n[k].type # "request" => n[k].id \in Past'
  BY <1>1, <1>2 DEF Requested, PastKept
<1>6. \A k \in 1 .. Len(n) : n[k].type = "close" => kind'[n[k].id] = "upload"
  BY <1>1, <1>2 DEF Requested
<1> QED BY <1>3, <1>4, <1>5, <1>6 DEF n, Requested, AtAgent

\* A message about a stream extends what was sent of an answered call.
LEMMA RequestedExtended ==
  ASSUME Typed, Requested, NEW m \in AgentMessages, Extended(toAgent', toAgent, m),
         toAgent' \in Seq(AgentMessages),
         kind' = kind, MadeKept, PastKept, coreUp' = coreUp, task' = task,
         Expected \subseteq Expected',
         m.type # "request", m.id \in Past, m.type = "close" => kind[m.id] = "upload"
  PROVE  Requested'
<1> DEFINE n == toAgent'
<1>1. /\ Len(toAgent) \in Nat /\ Len(n) = Len(toAgent) + 1 /\ n[Len(toAgent) + 1] = m
      /\ \A k \in 1 .. Len(n) : (k \in AtAgent /\ n[k] = toAgent[k]) \/ n[k] = m
  BY ExtendedPlaces DEF AtAgent, Typed
<1>2. /\ \A k \in AtAgent : toAgent[k].id \in Calls
      /\ m.id \in Calls
  BY MessageFields DEF AtAgent, Typed
<1> HIDE DEF n
<1>3. \A k \in 1 .. Len(n) : n[k].type = "request" =>
        /\ task'[n[k].id] = "none" /\ call'[n[k].id] # "idle"
        /\ coreUp' => n[k].id \in Expected'
  BY <1>1, <1>2 DEF n, Requested, MadeKept
<1>4. \A k, l \in 1 .. Len(n) :
        n[k].type = "request" /\ n[l].type = "request" /\ n[k].id = n[l].id => k = l
  BY <1>1 DEF Requested
<1>5. \A k \in 1 .. Len(n) : n[k].type # "request" => n[k].id \in Past'
  BY <1>1, <1>2 DEF Requested, PastKept
<1>6. \A k \in 1 .. Len(n) : n[k].type = "close" => kind'[n[k].id] = "upload"
  BY <1>1, <1>2 DEF Requested
<1> QED BY <1>3, <1>4, <1>5, <1>6 DEF n, Requested, AtAgent

\* AnswersDue is kept when the Node's tasks are left alone or end.
LEMMA AnswersDueKept ==
  ASSUME AnswersDue, PastKept, coreUp' => coreUp,
         \A j \in Calls : task'[j] \in {"queued", "busy"} /\ coreUp' =>
            task[j] \in {"queued", "busy"} /\ (j \in Expected => j \in Expected'),
         \A j \in Calls : future'[j] = "ok" \/ call'[j] \in {"open", "finish", "complete"}
            => future[j] = "ok" \/ call[j] \in {"open", "finish", "complete"}
  PROVE  AnswersDue'
<1> SUFFICES ASSUME NEW j \in Calls
             PROVE  /\ coreUp' /\ task'[j] \in {"queued", "busy"} => j \in Expected'
                    /\ future'[j] = "ok" \/ call'[j] \in {"open", "finish", "complete"}
                         => j \in Past'
  BY DEF AnswersDue
<1> QED BY DEF AnswersDue, PastKept

\* Answers that are read or lost cost Responded nothing.
LEMMA RespondedKept ==
  ASSUME Typed, toCore' \in Seq(CoreMessages), Responded, Suffix(toCore', toCore), PastKept,
         \A k \in 1 .. Len(toCore') : toCore'[k].type \in {"ok", "failed"} =>
           (toCore'[k].id \in Expected => toCore'[k].id \in Expected'),
         AnswersDue'
  PROVE  Responded'
<1> DEFINE n == toCore'
<1>1. PICK d \in Nat : \A k \in 1 .. Len(n) : k + d \in AtCore /\ n[k] = toCore[k + d]
  BY DEF Suffix, AtCore
<1>2. \A k \in 1 .. Len(n) : n[k].id \in Calls
  BY MessageFields
<1> HIDE DEF n
<1>3. \A k \in 1 .. Len(n) : n[k].type \in {"ok", "failed"} =>
         n[k].id \in Past' /\ n[k].id \in Expected'
  BY <1>1, <1>2 DEF n, Responded, PastKept
<1>4. \A k, m \in 1 .. Len(n) :
         n[k].type \in {"ok", "failed"} /\ n[m].type \in {"ok", "failed"}
         /\ n[k].id = n[m].id => k = m
  <2> SUFFICES ASSUME NEW k \in 1 .. Len(n), NEW m \in 1 .. Len(n),
                      n[k].type \in {"ok", "failed"}, n[m].type \in {"ok", "failed"},
                      n[k].id = n[m].id
               PROVE  k = m
    OBVIOUS
  <2>1. k + d = m + d
    BY <1>1 DEF Responded
  <2>2. Len(n) \in Nat
    BY DEF n
  <2> QED BY <2>1, <2>2
<1> QED BY <1>3, <1>4 DEF n, Responded, AtCore

\* A message that is not a second answer extends what is under way to the Core.
LEMMA RespondedExtended ==
  ASSUME Typed, Responded, NEW m \in CoreMessages, Extended(toCore', toCore, m), PastKept,
         toCore' \in Seq(CoreMessages),
         Expected \subseteq Expected',
         m.type \in {"ok", "failed"} => m.id \notin Past /\ m.id \in Past' /\ m.id \in Expected,
         AnswersDue'
  PROVE  Responded'
<1> DEFINE n == toCore'
<1>1. /\ Len(toCore) \in Nat /\ Len(n) = Len(toCore) + 1 /\ n[Len(toCore) + 1] = m
      /\ \A k \in 1 .. Len(n) : \/ k \in AtCore /\ n[k] = toCore[k]
                                \/ k = Len(toCore) + 1 /\ n[k] = m
  BY ExtendedPlaces DEF AtCore, Typed
<1>2. /\ \A k \in AtCore : toCore[k].id \in Calls
      /\ m.id \in Calls
  BY MessageFields DEF AtCore, Typed
<1> HIDE DEF n
<1>3. \A k \in 1 .. Len(n) : n[k].type \in {"ok", "failed"} =>
         n[k].id \in Past' /\ n[k].id \in Expected'
  BY <1>1, <1>2 DEF n, Responded, PastKept
<1>4. \A k, l \in 1 .. Len(n) :
         n[k].type \in {"ok", "failed"} /\ n[l].type \in {"ok", "failed"}
         /\ n[k].id = n[l].id => k = l
  BY <1>1 DEF Responded
<1> QED BY <1>3, <1>4 DEF n, Responded, AtCore

\* Streaming is kept when streams are left alone or dropped.
LEMMA StreamingKept ==
  ASSUME Streaming, kind' = kind, streams' \subseteq streams,
         \A j \in streams' : /\ coreUp' /\ closed'[j] = closed[j] /\ call'[j] = call[j]
                             /\ queue'[j] = queue[j]
  PROVE  Streaming'
  BY DEF Streaming, HasStream, AtQueue

\* The frames delivered so far of the streams that are open stay the same number;
\* a stream that is opened has none.
DeliveryKept ==
  \A j \in streams' : \/ j \in streams /\ got'[j] + Len(queue'[j]) = got[j] + Len(queue[j])
                      \/ sent[j] = 0

\* Frames that are read or lost cost Flowing nothing.
LEMMA FlowingKept ==
  ASSUME Typed, toCore' \in Seq(CoreMessages), Flowing, Suffix(toCore', toCore),
         kind' = kind, \A j \in Calls : sent'[j] \in Nat /\ sent[j] <= sent'[j], DeliveryKept
  PROVE  Flowing'
<1> DEFINE n == toCore'
<1>1. PICK d \in Nat : \A k \in 1 .. Len(n) : k + d \in AtCore /\ n[k] = toCore[k + d]
  BY DEF Suffix, AtCore
<1>2. \A k \in 1 .. Len(n) : n[k].id \in Calls /\ n[k].n \in Nat
  BY MessageFields
<1>0. Len(n) \in Nat
  OBVIOUS
<1>a. \A j \in Calls : sent[j] \in Nat
  BY DEF Typed
<1> HIDE DEF n
<1>3. \A k \in 1 .. Len(n) : n[k].type = "data" =>
        /\ kind'[n[k].id] \in {"push", "source"} /\ n[k].n \in 1 .. sent'[n[k].id]
        /\ n[k].id \in streams' => n[k].n > got'[n[k].id] + Len(queue'[n[k].id])
  <2> SUFFICES ASSUME NEW k \in 1 .. Len(n), n[k].type = "data"
               PROVE  /\ kind'[n[k].id] \in {"push", "source"} /\ n[k].n \in 1 .. sent'[n[k].id]
                      /\ n[k].id \in streams' => n[k].n > got'[n[k].id] + Len(queue'[n[k].id])
    OBVIOUS
  <2>1. /\ kind[n[k].id] \in {"push", "source"} /\ n[k].n \in 1 .. sent[n[k].id]
        /\ n[k].id \in streams => n[k].n > got[n[k].id] + Len(queue[n[k].id])
    BY <1>1 DEF Flowing, Feeds
  <2>2. sent[n[k].id] \in Nat
    BY <1>2, <1>a
  <2> QED BY <1>2, <2>1, <2>2 DEF DeliveryKept
<1>4. \A k, m \in 1 .. Len(n) : n[k].type = "data" /\ n[m].type = "data"
        /\ n[k].id = n[m].id /\ k < m => n[k].n < n[m].n
  <2> SUFFICES ASSUME NEW k \in 1 .. Len(n), NEW m \in 1 .. Len(n), n[k].type = "data",
                      n[m].type = "data", n[k].id = n[m].id, k < m
               PROVE  n[k].n < n[m].n
    OBVIOUS
  <2>1. k + d < m + d
    BY <1>0
  <2> QED BY <1>1, <2>1 DEF Flowing
<1> QED BY <1>3, <1>4 DEF n, Flowing, AtCore, Feeds

\* A frame that is sent is the next one of its stream.
LEMMA FlowingExtended ==
  ASSUME Typed, Flowing, NEW m \in CoreMessages, Extended(toCore', toCore, m),
         toCore' \in Seq(CoreMessages), streams' = streams, got' = got, queue' = queue,
         kind' = kind, \A j \in Calls : sent'[j] \in Nat /\ sent[j] <= sent'[j],
         m.type = "data" =>
           /\ Feeds(m.id) /\ m.n = sent[m.id] + 1 /\ m.n = sent'[m.id]
           /\ m.id \in streams => got[m.id] + Len(queue[m.id]) <= sent[m.id]
  PROVE  Flowing'
<1> DEFINE n == toCore'
<1>1. /\ Len(toCore) \in Nat /\ Len(n) = Len(toCore) + 1 /\ n[Len(toCore) + 1] = m
      /\ \A k \in 1 .. Len(n) : \/ k \in AtCore /\ n[k] = toCore[k]
                                \/ k = Len(toCore) + 1 /\ n[k] = m
  BY ExtendedPlaces DEF AtCore, Typed
<1>2. /\ \A k \in AtCore : toCore[k].id \in Calls /\ toCore[k].n \in Nat
      /\ m.id \in Calls /\ m.n \in Nat
  BY MessageFields DEF AtCore, Typed
<1>a. \A j \in Calls : sent[j] \in Nat /\ got[j] \in Nat /\ Len(queue[j]) \in Nat
  BY DEF Typed
<1> HIDE DEF n
<1>3. \A k \in 1 .. Len(n) : n[k].type = "data" =>
        /\ kind'[n[k].id] \in {"push", "source"} /\ n[k].n \in 1 .. sent'[n[k].id]
        /\ n[k].id \in streams' => n[k].n > got'[n[k].id] + Len(queue'[n[k].id])
  <2> SUFFICES ASSUME NEW k \in 1 .. Len(n), n[k].type = "data"
               PROVE  /\ kind'[n[k].id] \in {"push", "source"} /\ n[k].n \in 1 .. sent'[n[k].id]
                      /\ n[k].id \in streams' => n[k].n > got'[n[k].id] + Len(queue'[n[k].id])
    OBVIOUS
  <2>1. CASE k \in AtCore /\ n[k] = toCore[k]
    <3>1. /\ kind[n[k].id] \in {"push", "source"} /\ n[k].n \in 1 .. sent[n[k].id]
          /\ n[k].id \in streams => n[k].n > got[n[k].id] + Len(queue[n[k].id])
      BY <2>1 DEF Flowing, Feeds
    <3> QED BY <1>2, <1>a, <2>1, <3>1
  <2>2. CASE n[k] = m
    BY <1>2, <1>a, <2>2 DEF Feeds
  <2> QED BY <1>1, <2>1, <2>2
<1>4. \A k, l \in 1 .. Len(n) : n[k].type = "data" /\ n[l].type = "data"
        /\ n[k].id = n[l].id /\ k < l => n[k].n < n[l].n
  <2> SUFFICES ASSUME NEW k \in 1 .. Len(n), NEW l \in 1 .. Len(n), n[k].type = "data",
                      n[l].type = "data", n[k].id = n[l].id, k < l
               PROVE  n[k].n < n[l].n
    OBVIOUS
  <2>1. k \in AtCore /\ n[k] = toCore[k]
    BY <1>1
  <2>2. CASE l \in AtCore /\ n[l] = toCore[l]
    BY <2>1, <2>2 DEF Flowing
  <2>3. CASE n[l] = m
    <3>1. n[k].n \in 1 .. sent[n[k].id]
      BY <2>1 DEF Flowing
    <3>2. m.n = sent[n[k].id] + 1
      BY <2>3
    <3> QED BY <1>2, <1>a, <2>1, <2>3, <3>1, <3>2
  <2> QED BY <1>1, <2>2, <2>3
<1> QED BY <1>3, <1>4 DEF n, Flowing, AtCore, Feeds

\* The stream of a call that a step does not touch.
LEMMA StreamedKept ==
  ASSUME Typed, NEW j \in Calls, Streamed(j), kind' = kind, queue'[j] = queue[j], got'[j] = got[j],
         gap'[j] = gap[j], sent'[j] = sent[j], granted'[j] = granted[j],
         credit'[j] = credit[j], j \in streams' => j \in streams,
         call'[j] = "complete" => call[j] = "complete",
         task'[j] \in {"loop", "sending", "closing"} =>
           Feeds(j) \/ task[j] \in {"loop", "sending", "closing"},
         task'[j] = "sending" => task[j] = "sending"
  PROVE  Streamed(j)'
<1>1. Queued(j)' /\ Delivered(j)'
  BY DEF Streamed, Queued, Delivered, AtQueue, Feeds
<1>2. Pushing(j)'
  BY DEF Streamed, Pushing, Feeds
<1>3. InOrder(j)'
  BY DEF Streamed, InOrder, AtQueue
<1>4. Counted(j)'
  <2>1. Sending(j)' = Sending(j) \/ (Sending(j) = 1 /\ Sending(j)' = 0)
    BY DEF Sending
  <2>2. sent[j] \in Nat /\ credit[j] \in Nat /\ granted[j] \in Nat
    BY DEF Typed
  <2> QED BY <2>1, <2>2 DEF Streamed, Counted
<1> QED BY <1>1, <1>2, <1>3, <1>4 DEF Streamed

\* The credit messages that are left stay true.
LEMMA CreditKept ==
  ASSUME Typed, toAgent' \in Seq(AgentMessages), CreditUnderWay, Suffix(toAgent', toAgent),
         kind' = kind,
         \A k \in 1 .. Len(toAgent') : toAgent'[k].type = "credit" =>
           LET j == toAgent'[k].id
           IN kind[j] = "source" /\ credit[j] = 0 /\ task[j] # "sending"
              /\ granted[j] > sent[j] =>
                /\ credit'[j] = 0 /\ task'[j] # "sending"
                /\ granted'[j] = granted[j] /\ sent'[j] = sent[j]
  PROVE  CreditUnderWay'
<1> DEFINE n == toAgent'
<1>1. PICK d \in Nat : \A k \in 1 .. Len(n) : k + d \in AtAgent /\ n[k] = toAgent[k + d]
  BY DEF Suffix, AtAgent
<1>2. \A k \in 1 .. Len(n) : n[k].id \in Calls
  BY MessageFields
<1>3. \A j \in Calls : sent[j] \in Nat
  BY DEF Typed
<1>4. Len(n) \in Nat
  OBVIOUS
<1> HIDE DEF n
<1>5. \A k \in 1 .. Len(n) : n[k].type = "credit" =>
        /\ kind'[n[k].id] = "source" /\ n[k].n \in 1 .. Window
        /\ credit'[n[k].id] = 0 /\ task'[n[k].id] # "sending"
        /\ granted'[n[k].id] = sent'[n[k].id] + n[k].n
  <2> SUFFICES ASSUME NEW k \in 1 .. Len(n), n[k].type = "credit"
               PROVE  /\ kind'[n[k].id] = "source" /\ n[k].n \in 1 .. Window
                      /\ credit'[n[k].id] = 0 /\ task'[n[k].id] # "sending"
                      /\ granted'[n[k].id] = sent'[n[k].id] + n[k].n
    OBVIOUS
  <2>1. /\ kind[n[k].id] = "source" /\ n[k].n \in 1 .. Window
        /\ credit[n[k].id] = 0 /\ task[n[k].id] # "sending"
        /\ granted[n[k].id] = sent[n[k].id] + n[k].n
    BY <1>1 DEF CreditUnderWay
  <2>2. granted[n[k].id] > sent[n[k].id]
    BY <1>2, <1>3, <2>1
  <2> QED BY <2>1, <2>2 DEF n
<1>6. \A k, m \in 1 .. Len(n) :
        n[k].type = "credit" /\ n[m].type = "credit" /\ n[k].id = n[m].id => k = m
  <2> SUFFICES ASSUME NEW k \in 1 .. Len(n), NEW m \in 1 .. Len(n), n[k].type = "credit",
                      n[m].type = "credit", n[k].id = n[m].id
               PROVE  k = m
    OBVIOUS
  <2>1. k + d = m + d
    BY <1>1 DEF CreditUnderWay
  <2> QED BY <1>4, <2>1
<1> QED BY <1>5, <1>6 DEF n, CreditUnderWay, AtAgent

\* A message that is not credit leaves the credit under way alone.
LEMMA CreditExtended ==
  ASSUME Typed, CreditUnderWay, NEW m \in AgentMessages, Extended(toAgent', toAgent, m),
         toAgent' \in Seq(AgentMessages), kind' = kind, credit' = credit, task' = task,
         granted' = granted, m.type # "credit",
         \A j \in Calls : kind[j] = "source" => sent'[j] = sent[j]
  PROVE  CreditUnderWay'
<1> DEFINE n == toAgent'
<1>1. /\ Len(toAgent) \in Nat /\ Len(n) = Len(toAgent) + 1 /\ n[Len(toAgent) + 1] = m
      /\ \A k \in 1 .. Len(n) : \/ k \in AtAgent /\ n[k] = toAgent[k]
                                \/ k = Len(toAgent) + 1 /\ n[k] = m
  BY ExtendedPlaces DEF AtAgent, Typed
<1>2. \A k \in AtAgent : toAgent[k].id \in Calls
  BY MessageFields DEF AtAgent, Typed
<1> HIDE DEF n
<1>3. \A k \in 1 .. Len(n) : n[k].type = "credit" =>
        /\ kind'[n[k].id] = "source" /\ n[k].n \in 1 .. Window
        /\ credit'[n[k].id] = 0 /\ task'[n[k].id] # "sending"
        /\ granted'[n[k].id] = sent'[n[k].id] + n[k].n
  BY <1>1, <1>2 DEF CreditUnderWay
<1>4. \A k, l \in 1 .. Len(n) :
        n[k].type = "credit" /\ n[l].type = "credit" /\ n[k].id = n[l].id => k = l
  BY <1>1 DEF CreditUnderWay
<1> QED BY <1>3, <1>4 DEF n, CreditUnderWay, AtAgent

\* Unbroken is kept when no frame is sent or taken.
LEMMA UnbrokenKept ==
  ASSUME Typed, Unbroken, kind' = kind, DeliveryKept,
         \A j \in Calls : kind[j] = "source" => sent'[j] = sent[j],
         streams' \subseteq Calls,
         \A j \in streams', n \in Nat : UnderWay(j, n) => UnderWay(j, n)'
  PROVE  Unbroken'
<1> SUFFICES ASSUME NEW j \in streams', kind[j] = "source", NEW n \in 1 .. sent[j],
                    n > got'[j] + Len(queue'[j])
             PROVE  UnderWay(j, n)'
  BY DEF Unbroken
<1>1. sent[j] # 0
  BY DEF Typed
<1>2. j \in streams /\ n > got[j] + Len(queue[j])
  BY <1>1 DEF DeliveryKept
<1>3. UnderWay(j, n)
  BY <1>2 DEF Unbroken
<1> QED BY <1>3

\* What is under way stays so when a message is added.
LEMMA UnderWayExtended ==
  ASSUME Typed, NEW m, Extended(toCore', toCore, m), NEW j, NEW n, UnderWay(j, n)
  PROVE  UnderWay(j, n)'
<1>1. PICK k \in AtCore : toCore[k].type = "data" /\ toCore[k].id = j /\ toCore[k].n = n
  BY DEF UnderWay
<1>2. Len(toCore) \in Nat /\ Len(toCore') = Len(toCore) + 1 /\ toCore'[k] = toCore[k]
  BY DEF Extended, AtCore, Typed
<1>3. k \in 1 .. Len(toCore')
  BY <1>2 DEF AtCore
<1> QED BY <1>1, <1>2, <1>3 DEF UnderWay, AtCore

\* What is under way stays so when a message about something else is read.
LEMMA UnderWayTail ==
  ASSUME Typed, toCore # <<>>, toCore' = Tail(toCore), NEW j, NEW n, UnderWay(j, n),
         Head(toCore).type # "data" \/ Head(toCore).id # j \/ Head(toCore).n # n
  PROVE  UnderWay(j, n)'
<1>1. PICK k \in AtCore : toCore[k].type = "data" /\ toCore[k].id = j /\ toCore[k].n = n
  BY DEF UnderWay
<1>2. /\ Head(toCore) = toCore[1] /\ Len(toCore) \in Nat /\ Len(toCore') = Len(toCore) - 1
      /\ \A l \in 1 .. Len(toCore') : toCore'[l] = toCore[l + 1]
  BY TailPlaces DEF Typed
<1>3. k # 1
  BY <1>1, <1>2
<1>4. k - 1 \in 1 .. Len(toCore') /\ (k - 1) + 1 = k
  BY <1>2, <1>3 DEF AtCore
<1>5. toCore'[k - 1] = toCore[k]
  BY <1>2, <1>4
<1> QED BY <1>1, <1>4, <1>5 DEF UnderWay, AtCore

\* What follows the last frame of a source.
FinalKept ==
  \A j \in Calls : kind[j] = "source" /\ sent[j] = Frames /\ task[j] \in {"closing", "done"}
    => sent'[j] = Frames /\ task'[j] \in {"closing", "done"}

\* Ends that are read or lost cost EndsLast nothing.
LEMMA EndsLastKept ==
  ASSUME Typed, toCore' \in Seq(CoreMessages), EndsLast, Suffix(toCore', toCore),
         kind' = kind, FinalKept
  PROVE  EndsLast'
<1> DEFINE n == toCore'
<1>1. PICK d \in Nat : \A k \in 1 .. Len(n) : k + d \in AtCore /\ n[k] = toCore[k + d]
  BY DEF Suffix, AtCore
<1>2. \A k \in 1 .. Len(n) : n[k].id \in Calls
  BY MessageFields
<1>3. Len(n) \in Nat
  OBVIOUS
<1> HIDE DEF n
<1>4. \A k \in 1 .. Len(n) : n[k].type = "end" /\ kind[n[k].id] = "source" =>
        /\ sent'[n[k].id] = Frames /\ task'[n[k].id] \in {"closing", "done"}
        /\ \A m \in 1 .. Len(n) : m > k => ~(n[m].type = "data" /\ n[m].id = n[k].id)
  <2> SUFFICES ASSUME NEW k \in 1 .. Len(n), n[k].type = "end", kind[n[k].id] = "source"
               PROVE  /\ sent'[n[k].id] = Frames /\ task'[n[k].id] \in {"closing", "done"}
                      /\ \A m \in 1 .. Len(n) : m > k =>
                           ~(n[m].type = "data" /\ n[m].id = n[k].id)
    OBVIOUS
  <2>1. /\ sent[n[k].id] = Frames /\ task[n[k].id] \in {"closing", "done"}
        /\ \A m \in AtCore : m > k + d => ~(toCore[m].type = "data" /\ toCore[m].id = n[k].id)
    BY <1>1 DEF EndsLast
  <2>2. ASSUME NEW m \in 1 .. Len(n), m > k
        PROVE  ~(n[m].type = "data" /\ n[m].id = n[k].id)
    <3>1. m + d > k + d
      BY <1>3, <2>2
    <3> QED BY <1>1, <2>1, <3>1
  <2> QED BY <1>2, <2>1, <2>2 DEF FinalKept
<1> QED BY <1>4 DEF n, EndsLast, AtCore

\* A frame is never sent after the end.
LEMMA EndsLastExtended ==
  ASSUME Typed, EndsLast, NEW m \in CoreMessages, Extended(toCore', toCore, m),
         toCore' \in Seq(CoreMessages), kind' = kind, FinalKept,
         m.type = "data" => task[m.id] \notin {"closing", "done"},
         m.type = "end" /\ kind[m.id] = "source" =>
           sent'[m.id] = Frames /\ task'[m.id] \in {"closing", "done"}
  PROVE  EndsLast'
<1> DEFINE n == toCore'
<1>1. /\ Len(toCore) \in Nat /\ Len(n) = Len(toCore) + 1 /\ n[Len(toCore) + 1] = m
      /\ \A k \in 1 .. Len(n) : \/ k \in AtCore /\ n[k] = toCore[k]
                                \/ k = Len(toCore) + 1 /\ n[k] = m
  BY ExtendedPlaces DEF AtCore, Typed
<1>2. \A k \in AtCore : toCore[k].id \in Calls
  BY MessageFields DEF AtCore, Typed
<1> HIDE DEF n
<1>3. \A k \in 1 .. Len(n) : n[k].type = "end" /\ kind[n[k].id] = "source" =>
        /\ sent'[n[k].id] = Frames /\ task'[n[k].id] \in {"closing", "done"}
        /\ \A l \in 1 .. Len(n) : l > k => ~(n[l].type = "data" /\ n[l].id = n[k].id)
  <2> SUFFICES ASSUME NEW k \in 1 .. Len(n), n[k].type = "end", kind[n[k].id] = "source"
               PROVE  /\ sent'[n[k].id] = Frames /\ task'[n[k].id] \in {"closing", "done"}
                      /\ \A l \in 1 .. Len(n) : l > k =>
                           ~(n[l].type = "data" /\ n[l].id = n[k].id)
    OBVIOUS
  <2>1. CASE k \in AtCore /\ n[k] = toCore[k]
    <3>1. /\ sent[n[k].id] = Frames /\ task[n[k].id] \in {"closing", "done"}
          /\ \A l \in AtCore : l > k => ~(toCore[l].type = "data" /\ toCore[l].id = n[k].id)
      BY <2>1 DEF EndsLast
    <3>2. \A l \in 1 .. Len(n) : l > k => ~(n[l].type = "data" /\ n[l].id = n[k].id)
      BY <1>1, <3>1
    <3> QED BY <1>2, <2>1, <3>1, <3>2 DEF FinalKept
  <2>2. CASE k = Len(toCore) + 1 /\ n[k] = m
    BY <1>1, <2>2
  <2> QED BY <1>1, <2>1, <2>2
<1> QED BY <1>3 DEF n, EndsLast, AtCore

-----------------------------------------------------------------------------
(* Callers on the Core *)

\* Tombstones are kept for every call that was cancelled: there are no more of them
\* than calls.
LEMMA RoomForTombs ==
  ASSUME Typed, Remembered, NEW i \in Calls, call[i] # "done"
  PROVE  /\ Bury(deadCalls, i) = Append(deadCalls, i)
         /\ Len(deadCalls) \in Nat /\ Append(deadCalls, i) \in Seq(Calls)
         /\ Extended(Append(deadCalls, i), deadCalls, i)
<1>1. deadCalls \in Seq(Calls) /\ Len(deadCalls) \in Nat
  BY DEF Typed
<1>2. deadCalls \in [1 .. Len(deadCalls) -> Calls \ {i}]
  BY <1>1 DEF Remembered
<1>3. IsFiniteSet(1 .. Len(deadCalls)) /\ Cardinality(1 .. Len(deadCalls)) = Len(deadCalls)
  BY <1>1, FS_Interval
<1>4. /\ IsFiniteSet(Calls \ {i}) /\ Cardinality(Calls) \in Nat
      /\ Cardinality(Calls \ {i}) = Cardinality(Calls) - 1
  BY BoundsAssumption, FS_RemoveElement, FS_CardinalityType
<1>5. Len(deadCalls) <= Cardinality(Calls) - 1
  <2> SUFFICES ASSUME Cardinality(Calls \ {i}) < Cardinality(1 .. Len(deadCalls))
               PROVE  FALSE
    BY <1>1, <1>3, <1>4
  <2>1. \E x, y \in 1 .. Len(deadCalls) : x # y /\ deadCalls[x] = deadCalls[y]
    BY <1>2, <1>3, <1>4, FS_PigeonHole
  <2> QED BY <2>1 DEF Remembered
<1>6. /\ Append(deadCalls, i) \in Seq(Calls) /\ Extended(Append(deadCalls, i), deadCalls, i)
      /\ Len(Append(deadCalls, i)) = Len(deadCalls) + 1
  BY <1>1, ExtendedAppend
<1>7. ~(Len(deadCalls) + 1 > MaxTombs)
  BY <1>1, <1>4, <1>5, BoundsAssumption
<1> QED BY <1>1, <1>6, <1>7 DEF Bury

\* A tombstone for a stream is a call.
LEMMA BuryType ==
  ASSUME NEW t \in Seq(Calls), NEW i \in Calls PROVE Bury(t, i) \in Seq(Calls)
<1>1. Append(t, i) \in Seq(Calls) /\ Len(Append(t, i)) = Len(t) + 1 /\ Len(t) \in Nat
  OBVIOUS
<1>a. Append(t, i) # <<>>
  BY <1>1
<1>2. Tail(Append(t, i)) \in Seq(Calls)
  BY <1>1, <1>a, TailPlaces
<1> QED BY <1>1, <1>2 DEF Bury

\* The steps of a caller leave what is under way to the Core alone.
LEMMA CoreSideSame ==
  ASSUME IInv, Typed', toCore' = toCore, kind' = kind, task' = task,
         \A j \in Calls : sent'[j] \in Nat /\ sent[j] <= sent'[j],
         \A j \in Calls : kind[j] = "source" => sent'[j] = sent[j],
         Expected \subseteq Expected', AnswersDue', DeliveryKept
  PROVE  Responded' /\ Flowing' /\ Unbroken' /\ EndsLast'
<1> USE DEF IInv
<1>1. PastKept
  BY DEF PastKept, Past
<1>2. toCore' \in Seq(CoreMessages) /\ Suffix(toCore', toCore)
  BY SuffixSame DEF Typed
<1>3. Responded'
  BY <1>1, <1>2, RespondedKept
<1>4. Flowing'
  BY <1>2, FlowingKept
<1>5. streams' \subseteq Calls
  BY DEF Typed
<1>6. Unbroken'
  BY <1>5, UnbrokenKept DEF UnderWay, AtCore
<1>7. FinalKept
  BY DEF FinalKept
<1>8. EndsLast'
  BY <1>2, <1>7, EndsLastKept
<1> QED BY <1>3, <1>4, <1>6, <1>8

\* The steps of a caller that sends nothing.
LEMMA ChannelsSame ==
  ASSUME IInv, Typed', toAgent' = toAgent, toCore' = toCore, kind' = kind, coreUp' = coreUp,
         task' = task, sent' = sent, credit' = credit, granted' = granted,
         MadeKept, Expected \subseteq Expected', AnswersDue', DeliveryKept
  PROVE  /\ Requested' /\ Responded' /\ Flowing' /\ CreditUnderWay' /\ Unbroken'
         /\ EndsLast'
<1> USE DEF IInv
<1>1. PastKept
  BY DEF PastKept, Past
<1>2. toAgent' \in Seq(AgentMessages) /\ Suffix(toAgent', toAgent)
  BY SuffixSame DEF Typed
<1>3. \A k \in 1 .. Len(toAgent') : toAgent'[k].type = "request" => task'[toAgent'[k].id] = "none"
  BY DEF Requested, AtAgent
<1>4. Requested'
  BY <1>1, <1>2, <1>3, RequestedKept
<1>5. CreditUnderWay'
  BY DEF CreditUnderWay, AtAgent
<1>6. \A j \in Calls : sent'[j] \in Nat /\ sent[j] <= sent'[j]
  BY DEF Typed
<1>7. Responded' /\ Flowing' /\ Unbroken' /\ EndsLast'
  BY <1>6, CoreSideSame
<1> QED BY <1>4, <1>5, <1>7

\* Remembered is kept when calls that are done stay so.
LEMMA RememberedKept ==
  ASSUME Typed, Remembered, deadCalls' = deadCalls,
         \A j \in Calls : call[j] = "done" => call'[j] = "done"
  PROVE  Remembered'
<1>1. \A k \in 1 .. Len(deadCalls) : deadCalls[k] \in Calls
  BY DEF Typed
<1> QED BY <1>1 DEF Remembered

\* Answered: the caller resumes with the answer.
LEMMA AnsweredStep ==
  ASSUME IInv, NEW i \in Calls, Answered(i) PROVE IInv'
<1> USE DEF IInv
<1>a. /\ call[i] = "wait" /\ future[i] \in {"ok", "error"}
      /\ call' = [call EXCEPT ![i] = IF future[i] = "ok" /\ HasStream(i) THEN "open"
                                     ELSE "done"]
      /\ future' = [future EXCEPT ![i] = "none"]
      /\ streams' \subseteq streams /\ (i \in streams' => future[i] = "ok")
      /\ toAgent' = toAgent /\ toCore' = toCore /\ kind' = kind /\ coreUp' = coreUp
      /\ agentUp' = agentUp /\ cause' = cause /\ deadCalls' = deadCalls
      /\ deadStreams' = deadStreams /\ closed' = closed /\ queue' = queue
      /\ granted' = granted /\ got' = got /\ gap' = gap /\ registry' = registry
      /\ task' = task /\ credit' = credit /\ sent' = sent
  BY DEF Answered, ends, agent
<1>b. /\ \A j \in Calls : call'[j] = IF j # i THEN call[j]
                          ELSE IF future[i] = "ok" /\ HasStream(i) THEN "open" ELSE "done"
      /\ \A j \in Calls : future'[j] = IF j = i THEN "none" ELSE future[j]
  BY <1>a DEF Typed
<1>1. Typed'
  BY <1>a DEF Typed
<1>2. Blamed' /\ Fresh'
  BY <1>a, <1>b DEF Blamed, Fresh
<1>c. PastKept /\ MadeKept /\ Expected \subseteq Expected'
  BY <1>a, <1>b DEF PastKept, Past, MadeKept, Expected, Buried
<1>4. AnswersDue'
  BY <1>a, <1>b, <1>c DEF Responded, AnswersDue, PastKept
<1>6. Remembered'
  BY <1>a, <1>b, RememberedKept
<1>7. Streaming'
  <2> SUFFICES ASSUME NEW j \in streams'
               PROVE  /\ coreUp' /\ ~closed'[j] /\ HasStream(j)'
                      /\ call'[j] \in {"wait", "open", "finish"}
                      /\ \A k \in 1 .. Len(queue'[j]) : queue'[j][k].k = "data"
    BY DEF Streaming, AtQueue
  <2>1. j \in Calls /\ j \in streams
    BY <1>a DEF Typed
  <2>2. /\ coreUp' /\ ~closed'[j] /\ HasStream(j)
        /\ \A k \in 1 .. Len(queue'[j]) : queue'[j][k].k = "data"
    BY <1>a, <2>1 DEF Streaming, AtQueue
  <2>3. call'[j] \in {"wait", "open", "finish"}
    BY <1>a, <1>b, <2>1, <2>2 DEF Streaming
  <2> QED BY <1>a, <2>2, <2>3 DEF HasStream
<1>8. DeliveryKept
  BY <1>a DEF DeliveryKept
<1>10. \A j \in Calls : Streamed(j)'
  BY <1>a, <1>b, StreamedKept
<1>11. /\ Requested' /\ Responded' /\ Flowing' /\ CreditUnderWay' /\ Unbroken'
       /\ EndsLast'
  BY <1>1, <1>a, <1>c, <1>4, <1>8, ChannelsSame
<1> QED BY <1>1, <1>2, <1>6, <1>7, <1>10, <1>11

\* Cancel: the caller gives up while it waits for the answer.
LEMMA CancelStep ==
  ASSUME IInv, NEW i \in Calls, Cancel(i) PROVE IInv'
<1> USE DEF IInv
<1>a. /\ call[i] = "wait" /\ call' = [call EXCEPT ![i] = "done"]
      /\ future' = [future EXCEPT ![i] = "none"]
      /\ deadCalls' = Bury(deadCalls, i) /\ streams' = streams \ {i}
      /\ toAgent' = toAgent /\ toCore' = toCore /\ kind' = kind /\ coreUp' = coreUp
      /\ agentUp' = agentUp /\ cause' = cause
      /\ deadStreams' = deadStreams /\ closed' = closed /\ queue' = queue
      /\ granted' = granted /\ got' = got /\ gap' = gap /\ registry' = registry
      /\ task' = task /\ credit' = credit /\ sent' = sent
  BY DEF Cancel, ends, agent
<1>b. /\ \A j \in Calls : call'[j] = IF j = i THEN "done" ELSE call[j]
      /\ \A j \in Calls : future'[j] = IF j = i THEN "none" ELSE future[j]
  BY <1>a DEF Typed
<1>t. /\ deadCalls \in Seq(Calls) /\ deadCalls' \in Seq(Calls)
      /\ Extended(deadCalls', deadCalls, i)
  BY <1>a, RoomForTombs DEF Typed
<1>u. /\ Len(deadCalls) \in Nat /\ Len(deadCalls') = Len(deadCalls) + 1
      /\ deadCalls'[Len(deadCalls) + 1] = i
      /\ \A k \in 1 .. Len(deadCalls) : deadCalls'[k] = deadCalls[k]
      /\ \A k \in 1 .. Len(deadCalls') :
           \/ k \in 1 .. Len(deadCalls) /\ deadCalls'[k] = deadCalls[k]
           \/ k = Len(deadCalls) + 1 /\ deadCalls'[k] = i
  BY <1>t, ExtendedPlaces DEF Extended
<1>1. Typed'
  BY <1>a, <1>t DEF Typed
<1>2. Blamed' /\ Fresh'
  BY <1>a, <1>b DEF Blamed, Fresh
<1>3. Expected \subseteq Expected'
  <2> SUFFICES ASSUME NEW j \in Expected PROVE j \in Expected'
    OBVIOUS
  <2>1. CASE j = i
    <3>1. Len(deadCalls) + 1 \in DOMAIN deadCalls'
      BY <1>t, <1>u
    <3> QED BY <2>1, <3>1, <1>u DEF Expected, Buried
  <2>2. CASE j # i /\ future[j] = "pending"
    BY <2>2, <1>b DEF Expected
  <2>3. CASE Buried(deadCalls, j)
    <3>1. PICK k \in DOMAIN deadCalls : deadCalls[k] = j
      BY <2>3 DEF Buried
    <3>2. k \in DOMAIN deadCalls' /\ deadCalls'[k] = j
      BY <1>t, <1>u, <3>1
    <3> QED BY <3>2 DEF Expected, Buried
  <2> QED BY <2>1, <2>2, <2>3 DEF Expected
<1>c. MadeKept
  BY <1>a, <1>b DEF MadeKept
<1>4. AnswersDue'
  BY <1>a, <1>b, <1>3 DEF Responded, AnswersDue, Past
<1>6. Remembered'
  <2>1. \A k \in 1 .. Len(deadCalls) :
          deadCalls[k] \in Calls /\ call[deadCalls[k]] = "done" /\ deadCalls[k] # i
    BY <1>a, <1>t DEF Remembered
  <2>2. \A k \in 1 .. Len(deadCalls') : call'[deadCalls'[k]] = "done"
    BY <1>b, <1>u, <2>1
  <2>3. \A k, m \in 1 .. Len(deadCalls') : deadCalls'[k] = deadCalls'[m] => k = m
    BY <1>u, <2>1 DEF Remembered
  <2> QED BY <2>2, <2>3 DEF Remembered
<1>7. Streaming'
  BY <1>a, <1>b, StreamingKept DEF Streaming, Typed
<1>8. DeliveryKept
  BY <1>a DEF DeliveryKept
<1>10. \A j \in Calls : Streamed(j)'
  BY <1>a, <1>b, StreamedKept
<1>11. /\ Requested' /\ Responded' /\ Flowing' /\ CreditUnderWay' /\ Unbroken'
       /\ EndsLast'
  BY <1>1, <1>a, <1>c, <1>3, <1>4, <1>8, ChannelsSame
<1> QED BY <1>1, <1>2, <1>6, <1>7, <1>10, <1>11

\* The stream from which an item was taken that was not a frame is empty.
LEMMA LastItem ==
  ASSUME Typed, NEW i \in Calls, Queued(i), queue[i] # <<>>, Head(queue[i]).k # "data"
  PROVE  Tail(queue[i]) = <<>> /\ Len(queue[i]) = 1
<1>1. /\ queue[i] \in Seq(Items) /\ Len(queue[i]) \in Nat /\ Len(queue[i]) >= 1
      /\ Head(queue[i]) = queue[i][1] /\ Tail(queue[i]) \in Seq(Items)
      /\ Len(Tail(queue[i])) = Len(queue[i]) - 1
  BY TailPlaces DEF Typed
<1>a. 1 \in 1 .. Len(queue[i])
  BY <1>1
<1>2. 1 = Len(queue[i])
  BY <1>1, <1>a DEF Queued, AtQueue
<1>3. Len(Tail(queue[i])) = 0
  BY <1>1, <1>2
<1> QED BY <1>1, <1>2, <1>3, EmptySeq

\* Receive of a frame.
LEMMA ReceiveFrame ==
  ASSUME IInv, NEW i \in Calls, Receive(i), Head(queue[i]).k = "data" PROVE IInv'
<1> USE DEF IInv
<1> DEFINE q == queue[i]
            t == Tail(q)
<1>a. /\ call[i] = "open" /\ Feeds(i) /\ q # <<>>
      /\ got' = [got EXCEPT ![i] = @ + 1]
      /\ gap' = [gap EXCEPT ![i] = @ \/ Head(q).n # got[i] + 1]
      /\ queue' = [queue EXCEPT ![i] = Tail(@)] /\ call' = call /\ streams' = streams
      /\ toAgent' = toAgent /\ toCore' = toCore /\ kind' = kind /\ coreUp' = coreUp
      /\ agentUp' = agentUp /\ cause' = cause /\ deadCalls' = deadCalls
      /\ deadStreams' = deadStreams /\ closed' = closed /\ future' = future
      /\ granted' = granted /\ registry' = registry
      /\ task' = task /\ credit' = credit /\ sent' = sent
  BY DEF Receive, ends, agent, Feeds
<1>q. /\ q \in Seq(Items) /\ Head(q) = q[1] /\ t \in Seq(Items)
      /\ Len(q) \in Nat /\ Len(q) >= 1 /\ Len(t) = Len(q) - 1
      /\ \A k \in 1 .. Len(t) : k + 1 \in 1 .. Len(q) /\ t[k] = q[k + 1]
  BY <1>a, TailPlaces DEF Typed
<1>b. /\ \A j \in Calls : queue'[j] = IF j = i THEN t ELSE queue[j]
      /\ \A j \in Calls : got'[j] = IF j = i THEN got[i] + 1 ELSE got[j]
      /\ \A j \in Calls : j # i => gap'[j] = gap[j]
  BY <1>a DEF Typed
<1>n. /\ got[i] \in Nat /\ sent[i] \in Nat /\ q[1].n \in (got[i] + 1) .. sent[i]
      /\ Len(q) <= Depth
  <2>1. got[i] \in Nat /\ sent[i] \in Nat
    BY DEF Typed
  <2>2. Queued(i) /\ Delivered(i)
    BY DEF Streamed
  <2>3. q[1].n \in (got[i] + 1) .. sent[i]
    BY <1>q, <2>2 DEF Queued, AtQueue
  <2> QED BY <2>1, <2>2, <2>3 DEF Delivered
<1>x. queue' = [queue EXCEPT ![i] = t]
  BY <1>a
<1>e. queue[i] = q /\ 1 \in 1 .. Len(q)
  BY <1>q
<1> HIDE DEF q, t
<1>l. /\ Len(queue[i]) = Len(q) /\ Len(queue'[i]) = Len(t)
      /\ got'[i] = got[i] + 1 /\ got'[i] + Len(queue'[i]) = got[i] + Len(queue[i])
  <2>1. queue'[i] = t /\ got'[i] = got[i] + 1
    BY <1>b
  <2>2. Len(queue[i]) = Len(q)
    BY <1>e
  <2>3. Len(queue'[i]) = Len(t)
    BY <2>1
  <2>4. Len(q) \in Nat /\ Len(t) = Len(q) - 1 /\ got[i] \in Nat
    BY <1>q, <1>n
  <2>5. got[i] + 1 + Len(t) = got[i] + Len(q)
    BY <2>4
  <2> QED BY <2>1, <2>2, <2>3, <2>5
<1>m. Len(t) \in Nat /\ Len(q) \in Nat /\ Len(t) < Len(q)
  BY <1>q
<1>1. Typed'
  <2>1. queue' \in [Calls -> Seq(Items)] /\ got' \in [Calls -> Nat] /\ gap' \in [Calls -> BOOLEAN]
    BY <1>a, <1>e, <1>q, <1>n, <1>x DEF Typed
  <2> QED BY <1>a, <2>1 DEF Typed
<1>2. Blamed' /\ Fresh'
  BY <1>a, <1>b DEF Blamed, Fresh
<1>3. MadeKept /\ Expected \subseteq Expected'
  BY <1>a DEF MadeKept, Expected, Buried
<1>4. AnswersDue'
  BY <1>a, <1>3 DEF Responded, AnswersDue, Past
<1>5. Remembered'
  BY <1>a, RememberedKept
<1>6. Streaming'
  <2> SUFFICES ASSUME NEW j \in streams
               PROVE  /\ coreUp /\ ~closed[j] /\ HasStream(j)
                      /\ call[j] \in {"wait", "open", "finish"}
                      /\ \A k \in 1 .. Len(queue'[j]) : queue'[j][k].k = "data"
    BY <1>a DEF Streaming, AtQueue, HasStream
  <2>1. j \in Calls
    BY DEF Typed
  <2>2. CASE j = i
    BY <1>e, <1>b, <1>q, <2>1, <2>2 DEF Streaming, AtQueue
  <2>3. CASE j # i
    BY <1>b, <2>1, <2>3 DEF Streaming, AtQueue
  <2> QED BY <2>2, <2>3
<1>7. DeliveryKept
  <2> SUFFICES ASSUME NEW j \in streams
               PROVE  got'[j] + Len(queue'[j]) = got[j] + Len(queue[j])
    BY <1>a DEF DeliveryKept
  <2>1. j \in Calls
    BY DEF Typed
  <2>2. CASE j = i
    BY <1>l, <2>2
  <2>3. CASE j # i
    BY <1>b, <2>1, <2>3
  <2> QED BY <2>2, <2>3
<1>8. \A j \in Calls : j # i => Streamed(j)'
  BY <1>a, <1>b, StreamedKept
<1>9. Streamed(i)'
  <2>1. Queued(i) /\ Delivered(i) /\ Pushing(i) /\ Counted(i) /\ InOrder(i)
    BY DEF Streamed
  <2>t. queue'[i] = t /\ got'[i] = got[i] + 1
    BY <1>b
  <2>2. Queued(i)'
    <3> SUFFICES ASSUME NEW k \in 1 .. Len(t)
                 PROVE  /\ t[k].k = "data" =>
                             Feeds(i) /\ t[k].n \in (got[i] + 1 + k) .. sent[i]
                        /\ t[k].k # "data" => k = Len(t)
      BY <1>a, <2>t DEF Queued, AtQueue, Feeds
    <3>1. /\ q[k + 1].k = "data" => Feeds(i) /\ q[k + 1].n \in (got[i] + (k + 1)) .. sent[i]
          /\ q[k + 1].k # "data" => k + 1 = Len(q)
      BY <1>e, <1>q, <2>1 DEF Queued, AtQueue
    <3> QED BY <1>q, <1>n, <3>1
  <2>3. Delivered(i)'
    <3>1. got[i] + 1 <= sent[i]
      BY <1>n
    <3>2. Len(queue'[i]) <= Depth
      BY <1>l, <1>m, <1>n, BoundsAssumption
    <3>3. i \in streams => got[i] + Len(queue[i]) <= sent[i]
      BY <1>a, <2>1 DEF Delivered
    <3> QED BY <1>a, <1>l, <3>1, <3>2, <3>3 DEF Delivered, Feeds
  <2>4. Pushing(i)'
    BY <1>a, <2>1 DEF Pushing, Feeds
  <2>5. Counted(i)'
    <3>1. granted[i] \in Nat /\ Window \in Nat
      BY BoundsAssumption DEF Typed
    <3> SUFFICES ASSUME kind[i] = "source"
                 PROVE  /\ granted[i] <= got'[i] + Window
                        /\ sent[i] + credit[i] + Sending(i) <= granted[i]
                        /\ Len(queue'[i]) <= Window + 1
      BY <1>a DEF Counted, Sending
    <3>2. /\ granted[i] <= got[i] + Window
          /\ sent[i] + credit[i] + Sending(i) <= granted[i]
          /\ Len(queue[i]) <= Window + 1
      BY <2>1 DEF Counted
    <3>3. granted[i] <= got'[i] + Window
      BY <1>l, <1>n, <3>1, <3>2
    <3>4. Len(queue'[i]) <= Window + 1
      BY <1>l, <1>m, <3>1, <3>2
    <3> QED BY <3>2, <3>3, <3>4
  <2>6. InOrder(i)'
    <3> SUFFICES ASSUME kind[i] = "source"
                 PROVE  /\ ~gap'[i]
                        /\ \A k \in 1 .. Len(t) :
                             /\ t[k].k = "data" => t[k].n = got[i] + 1 + k
                             /\ t[k].k = "end" => got[i] + 1 + k = Frames + 1
      BY <1>a, <2>t DEF InOrder, AtQueue
    <3>1. ~gap[i] /\ q[1].n = got[i] + 1
      BY <1>e, <1>q, <2>1 DEF InOrder, AtQueue
    <3>2. ~gap'[i]
      BY <1>a, <1>q, <3>1 DEF Typed
    <3>3. ASSUME NEW k \in 1 .. Len(t)
          PROVE  /\ t[k].k = "data" => t[k].n = got[i] + 1 + k
                 /\ t[k].k = "end" => got[i] + 1 + k = Frames + 1
      <4>1. /\ q[k + 1].k = "data" => q[k + 1].n = got[i] + (k + 1)
            /\ q[k + 1].k = "end" => got[i] + (k + 1) = Frames + 1
        BY <1>e, <1>q, <2>1 DEF InOrder, AtQueue
      <4>2. t[k] = q[k + 1] /\ k \in Nat /\ got[i] \in Nat
        BY <1>q, <1>n
      <4>3. \A a, b \in Nat : a + (b + 1) = a + 1 + b
        OBVIOUS
      <4> QED BY <4>1, <4>2, <4>3
    <3> QED BY <3>2, <3>3
  <2> QED BY <2>2, <2>3, <2>4, <2>5, <2>6 DEF Streamed
<1>10. /\ Requested' /\ Responded' /\ Flowing' /\ CreditUnderWay' /\ Unbroken'
       /\ EndsLast'
  BY <1>1, <1>a, <1>3, <1>4, <1>7, ChannelsSame
<1> QED BY <1>1, <1>2, <1>5, <1>6, <1>8, <1>9, <1>10

\* The last item of a stream is read: its end or an error, by Receive or Finished.
LEMMA ReadLast ==
  ASSUME IInv, NEW i \in Calls, queue[i] # <<>>, Head(queue[i]).k # "data",
         call[i] \in {"open", "finish"},
         \/ /\ call' = [call EXCEPT ![i] = "complete"]
            /\ kind[i] = "source" => Head(queue[i]).k = "end"
         \/ call' = [call EXCEPT ![i] = "done"],
         queue' = [queue EXCEPT ![i] = Tail(@)],
         UNCHANGED <<kind, ends, toAgent, toCore, future, streams, deadCalls,
                 deadStreams, closed, granted, got, gap, agent, sent>>
  PROVE  IInv'
<1> USE DEF IInv
<1>a. /\ streams' = streams
      /\ toAgent' = toAgent /\ toCore' = toCore /\ kind' = kind /\ coreUp' = coreUp
      /\ agentUp' = agentUp /\ cause' = cause /\ deadCalls' = deadCalls
      /\ deadStreams' = deadStreams /\ closed' = closed /\ future' = future
      /\ granted' = granted /\ registry' = registry /\ got' = got /\ gap' = gap
      /\ task' = task /\ credit' = credit /\ sent' = sent
  BY DEF ends, agent
<1>q. Queued(i) /\ Tail(queue[i]) = <<>> /\ Len(queue[i]) = 1 /\ Head(queue[i]) = queue[i][1]
  BY LastItem, TailPlaces DEF Streamed, Typed
<1>e. <<>> \in Seq(Items) /\ Len(<<>>) = 0
  OBVIOUS
<1>r. queue' = [queue EXCEPT ![i] = <<>>]
  BY <1>q
<1>s. queue' \in [Calls -> Seq(Items)]
  BY <1>e, <1>r DEF Typed
<1>b. /\ \A j \in Calls : queue'[j] = IF j = i THEN <<>> ELSE queue[j]
      /\ \A j \in Calls : j # i => call'[j] = call[j]
      /\ call'[i] = "done" \/ call'[i] = "complete"
      /\ call'[i] = "complete" /\ kind[i] = "source" => queue[i][1].k = "end"
      /\ call' \in [Calls -> {"idle", "wait", "open", "finish", "complete", "done"}]
  BY <1>q, <1>r DEF Typed
<1>1. Typed'
  BY <1>a, <1>b, <1>s DEF Typed
<1>2. Blamed' /\ Fresh'
  BY <1>a, <1>b DEF Blamed, Fresh
<1>3. MadeKept /\ Expected \subseteq Expected'
  BY <1>a, <1>b DEF MadeKept, Expected, Buried
<1>4. AnswersDue'
  BY <1>a, <1>b, <1>3 DEF Responded, AnswersDue, Past
<1>5. Remembered'
  BY <1>a, <1>b, RememberedKept
<1>x. i \notin streams
  BY <1>q DEF Streaming, AtQueue
<1>y. \A j \in streams : j \in Calls /\ j # i
  BY <1>x DEF Typed
<1>6. Streaming'
  BY <1>a, <1>b, <1>y, StreamingKept DEF Streaming
<1>7. DeliveryKept
  BY <1>a, <1>b, <1>y DEF DeliveryKept
<1>8. \A j \in Calls : j # i => Streamed(j)'
  BY <1>a, <1>b, StreamedKept
<1>9. Streamed(i)'
  <2>1. Queued(i) /\ Delivered(i) /\ Pushing(i) /\ Counted(i) /\ InOrder(i)
    BY DEF Streamed
  <2>t. queue'[i] = <<>> /\ Len(queue'[i]) = 0
    BY <1>b, <1>e
  <2>2. Queued(i)'
    BY <2>t DEF Queued, AtQueue
  <2>3. Delivered(i)' /\ Pushing(i)'
    BY <1>a, <1>x, <2>1, <2>t, BoundsAssumption DEF Delivered, Feeds, Pushing
  <2>5. Counted(i)'
    BY <1>a, <2>1, <2>t, BoundsAssumption DEF Counted, Sending
  <2>6. InOrder(i)'
    <3>1. kind[i] = "source" /\ call'[i] = "complete" => got[i] = Frames
      <4>1. kind[i] = "source" /\ call'[i] = "complete" => got[i] + 1 = Frames + 1
        BY <1>q, <1>b, <2>1 DEF InOrder, AtQueue
      <4> QED BY <4>1, BoundsAssumption DEF Typed
    <3> QED BY <1>a, <2>1, <2>t, <3>1 DEF InOrder, AtQueue
  <2> QED BY <2>2, <2>3, <2>5, <2>6 DEF Streamed
<1>10. /\ Requested' /\ Responded' /\ Flowing' /\ CreditUnderWay' /\ Unbroken'
       /\ EndsLast'
  BY <1>1, <1>a, <1>3, <1>4, <1>7, ChannelsSame
<1> QED BY <1>1, <1>2, <1>5, <1>6, <1>8, <1>9, <1>10

\* Receive: a frame, the end or an error leaves the queue.
LEMMA ReceiveStep ==
  ASSUME IInv, NEW i \in Calls, Receive(i) PROVE IInv'
<1>1. CASE Head(queue[i]).k = "data"
  BY <1>1, ReceiveFrame
<1>2. CASE Head(queue[i]).k # "data"
  <2>1. /\ queue[i] # <<>> /\ call[i] \in {"open", "finish"}
        /\ \/ /\ call' = [call EXCEPT ![i] = "complete"]
              /\ kind[i] = "source" => Head(queue[i]).k = "end"
           \/ call' = [call EXCEPT ![i] = "done"]
        /\ queue' = [queue EXCEPT ![i] = Tail(@)]
        /\ UNCHANGED <<kind, ends, toAgent, toCore, future, streams, deadCalls,
                       deadStreams, closed, granted, got, gap, agent, sent>>
    BY <1>2 DEF Receive
  <2> QED BY <1>2, <2>1, ReadLast
<1> QED BY <1>1, <1>2

\* Finished: the verdict on an upload, or the error that a closed connection left.
LEMMA FinishedStep ==
  ASSUME IInv, NEW i \in Calls, Finished(i) PROVE IInv'
<1>1. /\ queue[i] # <<>> /\ call[i] \in {"open", "finish"} /\ kind[i] = "upload"
      /\ \/ call' = [call EXCEPT ![i] = "complete"]
         \/ call' = [call EXCEPT ![i] = "done"]
      /\ queue' = [queue EXCEPT ![i] = Tail(@)]
      /\ UNCHANGED <<kind, ends, toAgent, toCore, future, streams, deadCalls,
                     deadStreams, closed, granted, got, gap, agent, sent>>
  BY DEF Finished
<1>2. Head(queue[i]) = queue[i][1] /\ 1 \in 1 .. Len(queue[i])
  BY <1>1, TailPlaces DEF IInv, Typed
<1>3. Head(queue[i]).k # "data"
  BY <1>1, <1>2 DEF IInv, Streamed, Queued, AtQueue, Feeds
<1> QED BY <1>1, <1>3, ReadLast

\* A message about a stream that the Node answered.
LEMMA StreamMessage ==
  ASSUME IInv, NEW i \in Calls, NEW t \in {"data", "credit", "close", "abort"}, NEW n \in Nat,
         toAgent' = toAgent \/ SendAgent(Message(t, i, n)),
         i \in Past, t = "close" => kind[i] = "upload", kind' = kind, MadeKept,
         coreUp' = coreUp, task' = task, Expected \subseteq Expected'
  PROVE  /\ toAgent' \in Seq(AgentMessages) /\ Requested'
         /\ toAgent' = toAgent \/ Extended(toAgent', toAgent, Message(t, i, n))
<1> DEFINE m == Message(t, i, n)
<1>1. m \in AgentMessages /\ m.type = t /\ m.id = i
  BY MessageTypes
<1> HIDE DEF m
<1>2. Typed /\ Requested /\ PastKept
  BY DEF IInv, PastKept, Past
<1>3. /\ toAgent' \in Seq(AgentMessages)
      /\ toAgent' = toAgent \/ Extended(toAgent', toAgent, m)
  BY <1>1, <1>2, AgentSent DEF m, Typed
<1>4. CASE toAgent' = toAgent
  <2>1. toAgent' \in Seq(AgentMessages) /\ Suffix(toAgent', toAgent)
    BY <1>2, <1>4, SuffixSame DEF Typed
  <2>2. \A k \in 1 .. Len(toAgent') : toAgent'[k].type = "request" =>
          task'[toAgent'[k].id] = "none"
    BY <1>2, <1>4 DEF Requested, AtAgent
  <2> QED BY <1>2, <1>3, <1>4, <2>1, <2>2, RequestedKept DEF m
<1>5. CASE Extended(toAgent', toAgent, m)
  <2>1. m.type # "request" /\ m.id \in Past /\ (m.type = "close" => kind[m.id] = "upload")
    BY <1>1
  <2>2. Requested'
    BY <1>1, <1>2, <1>3, <1>5, <2>1, RequestedExtended
  <2> QED BY <1>3, <2>2 DEF m
<1> QED BY <1>3, <1>4, <1>5

\* A message that is not credit leaves the credit alone.
LEMMA OtherMessage ==
  ASSUME IInv, NEW i \in Calls, NEW t \in {"request", "data", "close", "abort"}, NEW n \in Nat,
         toAgent' \in Seq(AgentMessages),
         toAgent' = toAgent \/ Extended(toAgent', toAgent, Message(t, i, n)),
         kind' = kind, credit' = credit, task' = task, granted' = granted,
         \A j \in Calls : kind[j] = "source" => sent'[j] = sent[j]
  PROVE  CreditUnderWay'
<1>1. Message(t, i, n) \in AgentMessages /\ Message(t, i, n).type # "credit"
  BY MessageTypes
<1>2. Typed /\ CreditUnderWay
  BY DEF IInv
<1>3. CASE toAgent' = toAgent
  <2>1. Suffix(toAgent', toAgent)
    BY <1>2, <1>3, SuffixSame DEF Typed
  <2>2. \A k \in 1 .. Len(toAgent') : toAgent'[k].type = "credit" =>
          toAgent'[k].id \in Calls /\ kind[toAgent'[k].id] = "source"
    BY <1>2, <1>3, MessageFields DEF CreditUnderWay, AtAgent, Typed
  <2> QED BY <1>2, <2>1, <2>2, CreditKept
<1>4. CASE Extended(toAgent', toAgent, Message(t, i, n))
  BY <1>1, <1>2, <1>4, CreditExtended
<1> QED BY <1>3, <1>4

\* Call: the call is registered before its request is sent.
LEMMA CallStep ==
  ASSUME IInv, NEW i \in Calls, Call(i) PROVE IInv'
<1> USE DEF IInv
<1>a. /\ coreUp /\ call[i] = "idle" /\ call' = [call EXCEPT ![i] = "wait"]
      /\ future' = [future EXCEPT ![i] = "pending"]
      /\ streams' = IF HasStream(i) THEN streams \cup {i} ELSE streams
      /\ SendAgent(Message("request", i, 0))
      /\ toCore' = toCore /\ kind' = kind /\ coreUp' = coreUp
      /\ agentUp' = agentUp /\ cause' = cause /\ deadCalls' = deadCalls
      /\ deadStreams' = deadStreams /\ closed' = closed /\ queue' = queue
      /\ granted' = granted /\ got' = got /\ gap' = gap /\ registry' = registry
      /\ task' = task /\ credit' = credit /\ sent' = sent
  BY DEF Call, ends, agent
<1>b. /\ \A j \in Calls : call'[j] = IF j = i THEN "wait" ELSE call[j]
      /\ \A j \in Calls : future'[j] = IF j = i THEN "pending" ELSE future[j]
  BY <1>a DEF Typed
<1>f. /\ task[i] = "none" /\ sent[i] = 0 /\ got[i] = 0 /\ queue[i] = <<>> /\ ~closed[i]
      /\ i \notin streams
  BY <1>a DEF Fresh, Streaming
<1>m. /\ Message("request", i, 0) \in AgentMessages
      /\ Message("request", i, 0).type = "request" /\ Message("request", i, 0).id = i
  BY MessageTypes
<1>s. /\ toAgent' \in Seq(AgentMessages)
      /\ toAgent' = toAgent \/ Extended(toAgent', toAgent, Message("request", i, 0))
  BY <1>a, <1>m, AgentSent
<1>1. Typed'
  BY <1>a, <1>s DEF Typed
<1>2. Blamed' /\ Fresh'
  BY <1>a, <1>b DEF Blamed, Fresh
<1>3. MadeKept /\ PastKept /\ Expected \subseteq Expected' /\ i \in Expected'
  BY <1>a, <1>b DEF MadeKept, Expected, Buried, PastKept, Past
<1>4. AnswersDue'
  BY <1>a, <1>b, <1>3 DEF Responded, AnswersDue, PastKept
<1>5. Requested'
  <2>1. CASE toAgent' = toAgent
    <3>1. Suffix(toAgent', toAgent)
      BY <2>1, SuffixSame DEF Typed
    <3>2. \A k \in 1 .. Len(toAgent') : toAgent'[k].type = "request" =>
            task'[toAgent'[k].id] = "none"
      BY <1>a, <2>1 DEF Requested, AtAgent
    <3> QED BY <1>a, <1>3, <1>s, <3>1, <3>2, RequestedKept
  <2>2. CASE Extended(toAgent', toAgent, Message("request", i, 0))
    <3> DEFINE n == toAgent'
               m == Message("request", i, 0)
    <3>1. /\ Len(toAgent) \in Nat /\ Len(n) = Len(toAgent) + 1
          /\ \A k \in 1 .. Len(n) : \/ k \in AtAgent /\ n[k] = toAgent[k]
                                    \/ k = Len(toAgent) + 1 /\ n[k] = m
      BY <2>2, ExtendedPlaces DEF AtAgent, Typed
    <3>2. m.type = "request" /\ m.id = i
      BY <1>m
    <3>3. \A k \in AtAgent : toAgent[k].id \in Calls
      BY MessageFields DEF AtAgent, Typed
    <3> HIDE DEF n, m
    <3>4. \A k \in AtAgent : toAgent[k].type = "request" => toAgent[k].id # i
      BY <1>a DEF Requested
    <3>5. \A k \in 1 .. Len(n) : n[k].type = "request" =>
            /\ task'[n[k].id] = "none" /\ call'[n[k].id] # "idle"
            /\ coreUp' => n[k].id \in Expected'
      BY <1>a, <1>b, <1>f, <1>3, <3>1, <3>2, <3>3 DEF Requested
    <3>6. \A k, l \in 1 .. Len(n) :
            n[k].type = "request" /\ n[l].type = "request" /\ n[k].id = n[l].id => k = l
      BY <3>1, <3>2, <3>4 DEF Requested
    <3>7. \A k \in 1 .. Len(n) : /\ n[k].type # "request" => n[k].id \in Past'
                                 /\ n[k].type = "close" => kind'[n[k].id] = "upload"
      BY <1>a, <1>3, <3>1, <3>2 DEF Requested, PastKept
    <3> QED BY <3>5, <3>6, <3>7 DEF n, Requested, AtAgent
  <2> QED BY <1>s, <2>1, <2>2
<1>6. Remembered'
  BY <1>a, <1>b, RememberedKept
<1>7. Streaming'
  <2> SUFFICES ASSUME NEW j \in streams'
               PROVE  /\ coreUp /\ ~closed[j] /\ HasStream(j)
                      /\ call'[j] \in {"wait", "open", "finish"}
                      /\ \A k \in 1 .. Len(queue[j]) : queue[j][k].k = "data"
    BY <1>a DEF Streaming, AtQueue, HasStream
  <2>1. CASE j = i
    <3>1. \A k \in 1 .. Len(queue[i]) : queue[i][k].k = "data"
      BY <1>f
    <3> QED BY <1>a, <1>b, <1>f, <2>1, <3>1
  <2>2. CASE j # i
    <3>1. j \in streams /\ j \in Calls
      BY <1>a, <2>2 DEF Typed
    <3> QED BY <1>b, <2>2, <3>1 DEF Streaming, AtQueue
  <2> QED BY <2>1, <2>2
<1>8. DeliveryKept
  <2>1. \A j \in streams' : j \in streams \/ j = i
    BY <1>a
  <2> QED BY <1>a, <1>f, <2>1 DEF DeliveryKept
<1>9. \A j \in Calls : j # i => Streamed(j)'
  BY <1>a, <1>b, StreamedKept
<1>10. Streamed(i)'
  <2>1. Queued(i) /\ Delivered(i) /\ Pushing(i) /\ Counted(i) /\ InOrder(i)
    BY DEF Streamed
  <2>2. Len(queue[i]) = 0
    BY <1>f
  <2>3. Queued(i)' /\ Pushing(i)'
    BY <1>a, <2>1 DEF Queued, Pushing, AtQueue, Feeds
  <2>4. Delivered(i)'
    BY <1>a, <1>f, <2>1, <2>2, BoundsAssumption DEF Delivered, Feeds
  <2>5. Counted(i)'
    BY <1>a, <2>1 DEF Counted, Sending
  <2>6. InOrder(i)'
    BY <1>a, <1>b, <2>1 DEF InOrder, AtQueue
  <2> QED BY <2>3, <2>4, <2>5, <2>6 DEF Streamed
<1>11. CreditUnderWay'
  BY <1>a, <1>s, OtherMessage
<1>12. \A j \in Calls : sent'[j] \in Nat /\ sent[j] <= sent'[j]
  BY <1>a DEF Typed
<1>13. Responded' /\ Flowing' /\ Unbroken' /\ EndsLast'
  BY <1>a, <1>1, <1>3, <1>4, <1>8, <1>12, CoreSideSame
<1> QED BY <1>1, <1>2, <1>5, <1>6, <1>7, <1>9, <1>10, <1>11, <1>13

\* Grant: the reader of a source has used up its batch and grants the next one.
LEMMA GrantStep ==
  ASSUME IInv, NEW i \in Calls, Grant(i) PROVE IInv'
<1> USE DEF IInv
<1> DEFINE n == Batch(i)
<1>a. /\ call[i] = "open" /\ MustGrant(i)
      /\ granted' = [granted EXCEPT ![i] = @ + n]
      /\ toAgent' = toAgent \/ SendAgent(Message("credit", i, n))
      /\ call' = call /\ streams' = streams /\ future' = future
      /\ toCore' = toCore /\ kind' = kind /\ coreUp' = coreUp
      /\ agentUp' = agentUp /\ cause' = cause /\ deadCalls' = deadCalls
      /\ deadStreams' = deadStreams /\ closed' = closed /\ queue' = queue
      /\ got' = got /\ gap' = gap /\ registry' = registry
      /\ task' = task /\ credit' = credit /\ sent' = sent
  BY DEF Grant, ends, agent
<1>t. /\ granted[i] \in Nat /\ got[i] \in Nat /\ sent[i] \in Nat /\ credit[i] \in Nat
      /\ Frames \in Nat /\ Window \in Nat /\ Window > 0
  BY BoundsAssumption DEF Typed
<1>n. /\ kind[i] = "source" /\ got[i] = granted[i] /\ granted[i] < Frames
      /\ n \in 1 .. Window /\ granted[i] + n <= Frames
  BY <1>a, <1>t DEF MustGrant, Batch
<1> HIDE DEF n
<1>b. /\ granted'[i] = granted[i] + n
      /\ \A j \in Calls : j # i => granted'[j] = granted[j]
      /\ granted' \in [Calls -> 0 .. Frames]
  BY <1>a, <1>n, <1>t DEF Typed
<1>p. i \in Past
  BY <1>a DEF Responded, AnswersDue
<1>3. MadeKept /\ Expected \subseteq Expected'
  BY <1>a DEF MadeKept, Expected, Buried
<1>5. /\ toAgent' \in Seq(AgentMessages) /\ Requested'
      /\ toAgent' = toAgent \/ Extended(toAgent', toAgent, Message("credit", i, n))
  BY <1>a, <1>n, <1>p, <1>3, StreamMessage
<1>1. Typed'
  BY <1>a, <1>b, <1>5 DEF Typed
<1>2. Blamed' /\ Fresh'
  BY <1>a DEF Blamed, Fresh
<1>4. AnswersDue'
  BY <1>a, <1>3 DEF Responded, AnswersDue, Past
<1>6. Remembered' /\ Streaming'
  BY <1>a DEF Remembered, Streaming, HasStream, AtQueue
<1>8. DeliveryKept
  BY <1>a DEF DeliveryKept
<1>9. \A j \in Calls : j # i => Streamed(j)'
  BY <1>a, <1>b, StreamedKept
<1>c. Queued(i) /\ Delivered(i) /\ Pushing(i) /\ Counted(i) /\ InOrder(i)
  BY DEF Streamed
<1>d. sent[i] = granted[i] /\ credit[i] = 0 /\ task[i] # "sending"
  BY <1>c, <1>n, <1>t DEF Delivered, Counted, Sending, Feeds
<1>10. Streamed(i)'
  <2>1. Queued(i)' /\ Pushing(i)' /\ Delivered(i)' /\ InOrder(i)'
    BY <1>a, <1>c DEF Queued, Pushing, AtQueue, Feeds, Delivered, InOrder
  <2>2. Counted(i)'
    <3>1. Sending(i) = 0
      BY <1>d DEF Sending
    <3>2. /\ granted'[i] <= got[i] + Window
          /\ sent[i] + credit[i] + 0 <= granted'[i]
      BY <1>b, <1>d, <1>n, <1>t
    <3>3. Len(queue[i]) <= Window + 1
      BY <1>c, <1>n DEF Counted
    <3> QED BY <1>a, <3>1, <3>2, <3>3 DEF Counted, Sending
  <2> QED BY <2>1, <2>2 DEF Streamed
<1>11. CreditUnderWay'
  <2> DEFINE c == toAgent'
             m == Message("credit", i, n)
  <2>1. m.type = "credit" /\ m.id = i /\ m.n = n
    BY <1>n, MessageTypes
  <2>2. \A k \in AtAgent : toAgent[k].id \in Calls
    BY MessageFields DEF AtAgent, Typed
  <2>3. \A k \in AtAgent : toAgent[k].type = "credit" =>
          /\ kind[toAgent[k].id] = "source" /\ toAgent[k].n \in 1 .. Window
          /\ credit[toAgent[k].id] = 0 /\ task[toAgent[k].id] # "sending"
          /\ granted[toAgent[k].id] = sent[toAgent[k].id] + toAgent[k].n
    BY DEF CreditUnderWay
  <2>4. \A k \in AtAgent : toAgent[k].type = "credit" => toAgent[k].id # i
    <3> SUFFICES ASSUME NEW k \in AtAgent, toAgent[k].type = "credit", toAgent[k].id = i
                 PROVE  FALSE
      OBVIOUS
    <3>1. toAgent[k].n \in 1 .. Window /\ granted[i] = sent[i] + toAgent[k].n
      BY <2>3
    <3> QED BY <1>d, <1>t, <3>1
  <2>5. /\ Len(toAgent) \in Nat
        /\ \A k \in 1 .. Len(c) : \/ k \in AtAgent /\ c[k] = toAgent[k]
                                  \/ k = Len(toAgent) + 1 /\ c[k] = m
    BY <1>5, ExtendedPlaces DEF AtAgent, Typed
  <2> HIDE DEF c, m
  <2>6. \A k \in 1 .. Len(c) : c[k].type = "credit" =>
          /\ kind'[c[k].id] = "source" /\ c[k].n \in 1 .. Window
          /\ credit'[c[k].id] = 0 /\ task'[c[k].id] # "sending"
          /\ granted'[c[k].id] = sent'[c[k].id] + c[k].n
    <3> SUFFICES ASSUME NEW k \in 1 .. Len(c), c[k].type = "credit"
                 PROVE  /\ kind'[c[k].id] = "source" /\ c[k].n \in 1 .. Window
                        /\ credit'[c[k].id] = 0 /\ task'[c[k].id] # "sending"
                        /\ granted'[c[k].id] = sent'[c[k].id] + c[k].n
      OBVIOUS
    <3>1. CASE k \in AtAgent /\ c[k] = toAgent[k]
      BY <1>a, <1>b, <2>2, <2>3, <2>4, <3>1
    <3>2. CASE c[k] = m
      BY <1>a, <1>b, <1>d, <1>n, <2>1, <3>2
    <3> QED BY <2>5, <3>1, <3>2
  <2>7. \A k, l \in 1 .. Len(c) :
          c[k].type = "credit" /\ c[l].type = "credit" /\ c[k].id = c[l].id => k = l
    BY <2>1, <2>4, <2>5 DEF CreditUnderWay
  <2> QED BY <2>6, <2>7 DEF c, CreditUnderWay, AtAgent
<1>12. \A j \in Calls : sent'[j] \in Nat /\ sent[j] <= sent'[j]
  BY <1>a DEF Typed
<1>13. Responded' /\ Flowing' /\ Unbroken' /\ EndsLast'
  BY <1>a, <1>1, <1>3, <1>4, <1>8, <1>12, CoreSideSame
<1> QED BY <1>1, <1>2, <1>5, <1>6, <1>9, <1>10, <1>11, <1>13

\* NodeStream.send: a frame of an upload.
LEMMA SendDataStep ==
  ASSUME IInv, NEW i \in Calls, SendData(i) PROVE IInv'
<1> USE DEF IInv
<1>a. /\ call[i] = "open" /\ kind[i] = "upload" /\ sent[i] < Frames
      /\ sent' = [sent EXCEPT ![i] = @ + 1]
      /\ SendAgent(Message("data", i, sent'[i]))
      /\ call' = call /\ streams' = streams /\ future' = future
      /\ toCore' = toCore /\ kind' = kind /\ coreUp' = coreUp
      /\ agentUp' = agentUp /\ cause' = cause /\ deadCalls' = deadCalls
      /\ deadStreams' = deadStreams /\ closed' = closed /\ queue' = queue
      /\ got' = got /\ gap' = gap /\ registry' = registry /\ granted' = granted
      /\ task' = task /\ credit' = credit
  BY DEF SendData, ends, agent, core
<1>b. /\ sent[i] \in Nat /\ sent'[i] = sent[i] + 1
      /\ \A j \in Calls : j # i => sent'[j] = sent[j]
      /\ sent' \in [Calls -> 0 .. Frames]
      /\ \A j \in Calls : sent'[j] \in Nat /\ sent[j] <= sent'[j]
  <2>1. /\ sent[i] \in Nat /\ sent'[i] = sent[i] + 1
        /\ \A j \in Calls : j # i => sent'[j] = sent[j]
    BY <1>a DEF Typed
  <2>2. sent' \in [Calls -> 0 .. Frames]
    BY <1>a, BoundsAssumption DEF Typed
  <2>3. \A j \in Calls : sent[j] \in Nat
    BY DEF Typed
  <2> QED BY <2>1, <2>2, <2>3
<1>p. i \in Past
  BY <1>a DEF Responded, AnswersDue
<1>3. MadeKept /\ Expected \subseteq Expected'
  BY <1>a DEF MadeKept, Expected, Buried
<1>5. /\ toAgent' \in Seq(AgentMessages) /\ Requested'
      /\ toAgent' = toAgent \/ Extended(toAgent', toAgent, Message("data", i, sent'[i]))
  BY <1>a, <1>b, <1>p, <1>3, StreamMessage
<1>1. Typed'
  BY <1>a, <1>b, <1>5 DEF Typed
<1>2. Blamed' /\ Fresh'
  BY <1>a, <1>b DEF Blamed, Fresh
<1>4. AnswersDue'
  BY <1>a, <1>3 DEF Responded, AnswersDue, Past
<1>6. Remembered' /\ Streaming'
  BY <1>a DEF Remembered, Streaming, HasStream, AtQueue
<1>8. DeliveryKept
  BY <1>a DEF DeliveryKept
<1>9. \A j \in Calls : j # i => Streamed(j)'
  BY <1>a, <1>b, StreamedKept
<1>10. Streamed(i)'
  <2>1. Queued(i) /\ Delivered(i) /\ Pushing(i) /\ ~Feeds(i) /\ kind[i] # "source"
    BY <1>a DEF Streamed, Feeds
  <2>2. Counted(i)' /\ InOrder(i)'
    BY <1>a, <2>1 DEF Counted, InOrder
  <2>3. Queued(i)' /\ Delivered(i)' /\ Pushing(i)'
    BY <1>a, <2>1 DEF Queued, Delivered, Pushing, AtQueue, Feeds
  <2> QED BY <2>2, <2>3 DEF Streamed
<1>11. CreditUnderWay'
  BY <1>a, <1>b, <1>5, OtherMessage
<1>13. Responded' /\ Flowing' /\ Unbroken' /\ EndsLast'
  BY <1>a, <1>b, <1>1, <1>3, <1>4, <1>8, CoreSideSame
<1> QED BY <1>1, <1>2, <1>5, <1>6, <1>9, <1>10, <1>11, <1>13

\* Finish: the stream of an upload is closed towards the Node.
LEMMA FinishStep ==
  ASSUME IInv, NEW i \in Calls, Finish(i) PROVE IInv'
<1> USE DEF IInv
<1>a. /\ call[i] = "open" /\ kind[i] = "upload" /\ call' = [call EXCEPT ![i] = "finish"]
      /\ SendAgent(Message("close", i, 0))
      /\ sent' = sent /\ streams' = streams /\ future' = future
      /\ toCore' = toCore /\ kind' = kind /\ coreUp' = coreUp
      /\ agentUp' = agentUp /\ cause' = cause /\ deadCalls' = deadCalls
      /\ deadStreams' = deadStreams /\ closed' = closed /\ queue' = queue
      /\ got' = got /\ gap' = gap /\ registry' = registry /\ granted' = granted
      /\ task' = task /\ credit' = credit
  BY DEF Finish, ends, agent
<1>b. \A j \in Calls : call'[j] = IF j = i THEN "finish" ELSE call[j]
  BY <1>a DEF Typed
<1>p. i \in Past
  BY <1>a DEF Responded, AnswersDue
<1>3. MadeKept /\ Expected \subseteq Expected'
  BY <1>a, <1>b DEF MadeKept, Expected, Buried
<1>5. /\ toAgent' \in Seq(AgentMessages) /\ Requested'
      /\ toAgent' = toAgent \/ Extended(toAgent', toAgent, Message("close", i, 0))
  BY <1>a, <1>p, <1>3, StreamMessage
<1>1. Typed'
  BY <1>a, <1>5 DEF Typed
<1>2. Blamed' /\ Fresh'
  BY <1>a, <1>b DEF Blamed, Fresh
<1>4. AnswersDue'
  BY <1>a, <1>b, <1>3, <1>p DEF Responded, AnswersDue, Past
<1>6. Remembered'
  BY <1>a, <1>b, RememberedKept
<1>7. Streaming'
  BY <1>a, <1>b DEF Streaming, HasStream, AtQueue, Typed
<1>8. DeliveryKept
  BY <1>a DEF DeliveryKept
<1>9. \A j \in Calls : Streamed(j)'
  BY <1>a, <1>b, StreamedKept
<1>11. CreditUnderWay'
  BY <1>a, <1>5, OtherMessage
<1>12. \A j \in Calls : sent'[j] \in Nat /\ sent[j] <= sent'[j]
  BY <1>a DEF Typed
<1>13. Responded' /\ Flowing' /\ Unbroken' /\ EndsLast'
  BY <1>a, <1>1, <1>3, <1>4, <1>8, <1>12, CoreSideSame
<1> QED BY <1>1, <1>2, <1>5, <1>6, <1>7, <1>9, <1>11, <1>13

\* GiveUp: the caller closes or aborts its stream.
LEMMA GiveUpStep ==
  ASSUME IInv, NEW i \in Calls, GiveUp(i) PROVE IInv'
<1> USE DEF IInv
<1>a. /\ call[i] \in {"open", "finish"} /\ call' = [call EXCEPT ![i] = "done"]
      /\ toAgent' = toAgent \/ SendAgent(Message("abort", i, 0))
      /\ sent' = sent /\ future' = future
      /\ toCore' = toCore /\ kind' = kind /\ coreUp' = coreUp
      /\ agentUp' = agentUp /\ cause' = cause /\ deadCalls' = deadCalls
      /\ queue' = queue
      /\ got' = got /\ gap' = gap /\ registry' = registry /\ granted' = granted
      /\ task' = task /\ credit' = credit
  BY DEF GiveUp, ends, agent
<1>d. /\ closed' \in [Calls -> BOOLEAN] /\ \A j \in Calls : j # i => closed'[j] = closed[j]
      /\ streams' \subseteq streams /\ i \notin streams' /\ deadStreams' \in Seq(Calls)
  <2>1. CASE closed[i]
    BY <2>1 DEF GiveUp, Typed, Streaming
  <2>2. CASE ~closed[i]
    <3>1. /\ closed' = [closed EXCEPT ![i] = TRUE] /\ streams' = streams \ {i}
          /\ deadStreams' = IF i \in streams THEN Bury(deadStreams, i) ELSE deadStreams
      BY <2>2 DEF GiveUp, DropStream
    <3>2. Bury(deadStreams, i) \in Seq(Calls) /\ deadStreams \in Seq(Calls)
      BY BuryType DEF Typed
    <3>3. closed' \in [Calls -> BOOLEAN] /\ \A j \in Calls : j # i => closed'[j] = closed[j]
      BY <3>1 DEF Typed
    <3> QED BY <3>1, <3>2, <3>3
  <2> QED BY <2>1, <2>2
<1>b. \A j \in Calls : call'[j] = IF j = i THEN "done" ELSE call[j]
  BY <1>a DEF Typed
<1>p. i \in Past
  BY <1>a DEF Responded, AnswersDue
<1>3. MadeKept /\ Expected \subseteq Expected'
  BY <1>a, <1>b DEF MadeKept, Expected, Buried
<1>5. /\ toAgent' \in Seq(AgentMessages) /\ Requested'
      /\ toAgent' = toAgent \/ Extended(toAgent', toAgent, Message("abort", i, 0))
  BY <1>a, <1>p, <1>3, StreamMessage
<1>1. Typed'
  BY <1>a, <1>d, <1>5 DEF Typed
<1>2. Blamed' /\ Fresh'
  <2>1. Fresh'
    BY <1>a, <1>b, <1>d, FreshKept
  <2> QED BY <1>a, <2>1 DEF Blamed
<1>4. AnswersDue'
  BY <1>a, <1>b, <1>3 DEF Responded, AnswersDue, Past
<1>6. Remembered'
  BY <1>a, <1>b, RememberedKept
<1>7. Streaming'
  BY <1>a, <1>b, <1>d, StreamingKept DEF Streaming, Typed
<1>8. DeliveryKept
  BY <1>a, <1>d DEF DeliveryKept
<1>9. \A j \in Calls : Streamed(j)'
  BY <1>a, <1>b, <1>d, StreamedKept
<1>11. CreditUnderWay'
  BY <1>a, <1>5, OtherMessage
<1>12. \A j \in Calls : sent'[j] \in Nat /\ sent[j] <= sent'[j]
  BY <1>a DEF Typed
<1>13. Responded' /\ Flowing' /\ Unbroken' /\ EndsLast'
  BY <1>a, <1>1, <1>3, <1>4, <1>8, <1>12, CoreSideSame
<1> QED BY <1>1, <1>2, <1>5, <1>6, <1>7, <1>9, <1>11, <1>13

-----------------------------------------------------------------------------
(* The Core's receive loop *)

\* The Core's receive loop leaves what is under way to the Node alone.
LEMMA AgentSideSame ==
  ASSUME IInv, toAgent' = toAgent, kind' = kind, task' = task, sent' = sent,
         credit' = credit, granted' = granted, MadeKept,
         coreUp' => coreUp /\ \A j \in Calls : j \notin Past /\ j \in Expected => j \in Expected'
  PROVE  Requested' /\ CreditUnderWay'
<1> USE DEF IInv
<1>1. PastKept
  BY DEF PastKept, Past
<1>2. toAgent' \in Seq(AgentMessages) /\ Suffix(toAgent', toAgent)
  BY SuffixSame DEF Typed
<1>3. \A k \in 1 .. Len(toAgent') : toAgent'[k].type = "request" =>
        /\ task'[toAgent'[k].id] = "none" /\ toAgent'[k].id \in Calls
        /\ toAgent'[k].id \notin Past
  BY MessageFields DEF Requested, AtAgent, Typed, Past
<1>4. \A k \in 1 .. Len(toAgent') : toAgent'[k].type = "request" =>
        /\ task'[toAgent'[k].id] = "none"
        /\ coreUp' => coreUp /\ (toAgent'[k].id \in Expected => toAgent'[k].id \in Expected')
  BY <1>3
<1>5. Requested'
  BY <1>1, <1>2, <1>4, RequestedKept
<1>6. CreditUnderWay'
  BY DEF CreditUnderWay, AtAgent
<1> QED BY <1>5, <1>6

\* The message that is read and what is left.
LEMMA ReadMessage ==
  ASSUME Typed, toCore # <<>>
  PROVE  /\ Head(toCore) = toCore[1] /\ 1 \in AtCore /\ Head(toCore).id \in Calls
         /\ Head(toCore).n \in Nat /\ Tail(toCore) \in Seq(CoreMessages)
         /\ Suffix(Tail(toCore), toCore)
         /\ Len(toCore) \in Nat /\ Len(Tail(toCore)) = Len(toCore) - 1
         /\ \A k \in 1 .. Len(Tail(toCore)) :
              k + 1 \in AtCore /\ k + 1 # 1 /\ Tail(toCore)[k] = toCore[k + 1]
<1>1. toCore \in Seq(CoreMessages)
  BY DEF Typed
<1>2. /\ Head(toCore) = toCore[1] /\ Head(toCore) \in CoreMessages
      /\ Tail(toCore) \in Seq(CoreMessages) /\ Len(toCore) \in Nat /\ Len(toCore) >= 1
      /\ Len(Tail(toCore)) = Len(toCore) - 1
      /\ \A k \in 1 .. Len(Tail(toCore)) :
           k + 1 \in 1 .. Len(toCore) /\ Tail(toCore)[k] = toCore[k + 1]
  BY <1>1, TailPlaces
<1>3. \A k \in 1 .. Len(Tail(toCore)) : k + 1 # 1
  BY <1>2
<1>4. 1 \in 1 .. Len(toCore)
  BY <1>2
<1> QED BY <1>1, <1>2, <1>3, <1>4, SuffixTail, MessageFields DEF AtCore

\* A message is read that brings no frame to an open stream.
LEMMA CoreSideRead ==
  ASSUME IInv, Typed', toCore # <<>>, toCore' = Tail(toCore), kind' = kind, task' = task,
         sent' = sent, AnswersDue', DeliveryKept,
         Head(toCore).type # "data" \/ Head(toCore).id \notin streams',
         \A j \in Calls : j \in Expected =>
           j \in Expected' \/ (j = Head(toCore).id /\ Head(toCore).type \in {"ok", "failed"})
  PROVE  Responded' /\ Flowing' /\ Unbroken' /\ EndsLast'
<1> USE DEF IInv
<1> DEFINE h == Head(toCore)
           t == Tail(toCore)
<1>1. PastKept
  BY DEF PastKept, Past
<1>2. /\ h = toCore[1] /\ 1 \in AtCore /\ h.id \in Calls
      /\ t \in Seq(CoreMessages) /\ Suffix(t, toCore) /\ toCore' = t
      /\ \A k \in 1 .. Len(t) : k + 1 \in AtCore /\ k + 1 # 1 /\ t[k] = toCore[k + 1]
  BY ReadMessage
<1>3. \A k \in 1 .. Len(t) : t[k].id \in Calls
  BY <1>2, MessageFields
<1>x. /\ h.type # "data" \/ h.id \notin streams'
      /\ \A j \in Calls : j \in Expected =>
           j \in Expected' \/ (j = h.id /\ h.type \in {"ok", "failed"})
  OBVIOUS
<1>4. \A j \in streams', n \in Nat : UnderWay(j, n) => UnderWay(j, n)'
  BY UnderWayTail
<1> HIDE DEF h, t
<1>5. \A k \in 1 .. Len(t) : t[k].type \in {"ok", "failed"} =>
        (t[k].id \in Expected => t[k].id \in Expected')
  <2> SUFFICES ASSUME NEW k \in 1 .. Len(t), t[k].type \in {"ok", "failed"},
                      t[k].id \in Expected, t[k].id \notin Expected'
               PROVE  FALSE
    OBVIOUS
  <2>1. t[k].id = h.id /\ h.type \in {"ok", "failed"}
    BY <1>3, <1>x
  <2>2. k + 1 = 1
    BY <1>2, <2>1 DEF Responded
  <2> QED BY <1>2, <2>2
<1>6. Responded'
  BY <1>1, <1>2, <1>5, RespondedKept
<1>7. \A j \in Calls : sent'[j] \in Nat /\ sent[j] <= sent'[j]
  BY DEF Typed
<1>8. Flowing'
  BY <1>2, <1>7, FlowingKept
<1>9. streams' \subseteq Calls
  BY DEF Typed
<1>10. Unbroken'
  BY <1>4, <1>9, UnbrokenKept
<1>11. FinalKept
  BY DEF FinalKept
<1>12. EndsLast'
  BY <1>2, <1>11, EndsLastKept
<1> QED BY <1>6, <1>8, <1>10, <1>12

\* A message that changes nothing but the channel.
LEMMA DropMessage ==
  ASSUME IInv, toCore # <<>>, toCore' = Tail(toCore),
         UNCHANGED <<kind, ends, toAgent, core, agent, sent>>,
         Head(toCore).type # "data" \/ Head(toCore).id \notin streams
  PROVE  IInv'
<1> USE DEF IInv
<1>a. /\ call' = call /\ streams' = streams /\ future' = future
      /\ kind' = kind /\ coreUp' = coreUp /\ toAgent' = toAgent
      /\ agentUp' = agentUp /\ cause' = cause /\ deadCalls' = deadCalls
      /\ deadStreams' = deadStreams /\ closed' = closed /\ queue' = queue
      /\ got' = got /\ gap' = gap /\ registry' = registry /\ granted' = granted
      /\ task' = task /\ credit' = credit /\ sent' = sent
  BY DEF ends, agent, core
<1>1. Typed'
  BY <1>a, ReadMessage DEF Typed
<1>2. Blamed' /\ Fresh' /\ Remembered' /\ Streaming'
  BY <1>a DEF Blamed, Fresh, Remembered, Streaming, HasStream, AtQueue
<1>3. MadeKept /\ Expected' = Expected
  BY <1>a DEF MadeKept, Expected, Buried
<1>4. AnswersDue'
  BY <1>a, <1>3 DEF Responded, AnswersDue, Past
<1>5. DeliveryKept
  BY <1>a DEF DeliveryKept
<1>6. \A j \in Calls : Streamed(j)'
  BY <1>a, StreamedKept
<1>7. Requested' /\ CreditUnderWay'
  BY <1>a, <1>3, AgentSideSame
<1>8. Responded' /\ Flowing' /\ Unbroken' /\ EndsLast'
  BY <1>a, <1>1, <1>3, <1>4, <1>5, CoreSideRead
<1> QED BY <1>1, <1>2, <1>6, <1>7, <1>8

\* A stream that is open never holds more than its reader granted, or the depth.
LEMMA OpenQueue ==
  ASSUME IInv, NEW i \in streams
  PROVE  /\ i \in Calls /\ queue[i] \in Seq(Items) /\ Len(queue[i]) \in Nat
         /\ got[i] \in Nat /\ sent[i] \in Nat /\ granted[i] \in Nat
         /\ Len(queue[i]) <= Depth /\ ~closed[i]
         /\ \A k \in AtQueue(i) : queue[i][k].k = "data"
         /\ Feeds(i) => got[i] + Len(queue[i]) <= sent[i]
         /\ kind[i] = "source" => Len(queue[i]) <= Window /\ Len(queue[i]) < Depth
<1> USE DEF IInv
<1>1. /\ i \in Calls /\ queue[i] \in Seq(Items) /\ Len(queue[i]) \in Nat
      /\ got[i] \in Nat /\ sent[i] \in Nat /\ granted[i] \in Nat /\ credit[i] \in Nat
      /\ Window \in Nat /\ Depth \in Nat /\ Window < Depth
  BY BoundsAssumption DEF Typed
<1>2. ~closed[i] /\ \A k \in AtQueue(i) : queue[i][k].k = "data"
  BY DEF Streaming
<1>3. Len(queue[i]) <= Depth /\ (Feeds(i) => got[i] + Len(queue[i]) <= sent[i])
  BY <1>1 DEF Streamed, Delivered
<1>4. ASSUME kind[i] = "source"
      PROVE  Len(queue[i]) <= Window
  <2>1. Sending(i) \in {0, 1}
    BY DEF Sending
  <2>2. granted[i] <= got[i] + Window /\ sent[i] + credit[i] + Sending(i) <= granted[i]
    BY <1>1, <1>4 DEF Streamed, Counted
  <2>3. got[i] + Len(queue[i]) <= sent[i]
    BY <1>3, <1>4 DEF Feeds
  <2> QED BY <1>1, <2>1, <2>2, <2>3
<1> QED BY <1>1, <1>2, <1>3, <1>4

\* The end of a stream, or an error, is put into its queue.
LEMMA EndQueued ==
  ASSUME IInv, NEW i \in streams, NEW item \in {End, Error},
         queue'[i] = ReplaceQueueTail(queue[i], item), i \notin streams',
         kind' = kind, got'[i] = got[i], gap'[i] = gap[i], sent'[i] = sent[i],
         granted'[i] = granted[i], credit'[i] = credit[i], call'[i] = call[i],
         task'[i] = task[i],
         item = End /\ kind[i] = "source" => got[i] + Len(queue[i]) = Frames
  PROVE  queue'[i] \in Seq(Items) /\ Streamed(i)'
<1> USE DEF IInv
<1> DEFINE q == queue[i]
           r == queue'[i]
<1>1. /\ i \in Calls /\ q \in Seq(Items) /\ Len(q) \in Nat /\ Len(q) <= Depth
      /\ got[i] \in Nat /\ sent[i] \in Nat
      /\ \A k \in 1 .. Len(q) : q[k].k = "data"
      /\ kind[i] = "source" => Len(q) <= Window /\ Len(q) < Depth
  BY OpenQueue DEF AtQueue
<1>2. item \in Items /\ item.k # "data" /\ (item.k = "end" => item = End)
  BY ItemTypes
<1>r. LET x == ReplaceQueueTail(q, item)
      IN /\ x \in Seq(Items) /\ Len(x) <= Depth /\ Len(x) \in 1 .. Len(q) + 1
         /\ x[Len(x)] = item
         /\ \E d \in {0, 1} :
              /\ Len(x) = Len(q) + 1 - d
              /\ Len(q) < Depth => d = 0
              /\ \A k \in 1 .. Len(x) : k < Len(x) => k + d \in 1 .. Len(q) /\ x[k] = q[k + d]
  <2>1. q \in Seq(Items) /\ Len(q) <= Depth /\ item \in Items
    BY <1>1, <1>2
  <2> HIDE DEF q
  <2> QED BY <2>1, ReplacedTail
<1>3. /\ r \in Seq(Items) /\ Len(r) <= Depth /\ Len(r) \in 1 .. Len(q) + 1
      /\ r[Len(r)] = item
      /\ \E d \in {0, 1} :
           /\ Len(r) = Len(q) + 1 - d
           /\ Len(q) < Depth => d = 0
           /\ \A k \in 1 .. Len(r) : k < Len(r) => k + d \in 1 .. Len(q) /\ r[k] = q[k + d]
  BY <1>r
<1>s. Queued(i) /\ Delivered(i) /\ Pushing(i) /\ Counted(i) /\ InOrder(i)
  BY <1>1 DEF Streamed
<1>q. /\ \A k \in 1 .. Len(q) : Feeds(i) /\ q[k].n \in (got[i] + k) .. sent[i]
      /\ kind[i] = "source" => \A k \in 1 .. Len(q) : q[k].n = got[i] + k
      /\ item = End /\ kind[i] = "source" => got[i] + Len(q) = Frames
  BY <1>1, <1>s DEF Queued, InOrder, AtQueue
<1> HIDE DEF q, r
<1>4. PICK d \in {0, 1} :
           /\ Len(r) = Len(q) + 1 - d
           /\ Len(q) < Depth => d = 0
           /\ \A k \in 1 .. Len(r) : k < Len(r) => k + d \in 1 .. Len(q) /\ r[k] = q[k + d]
  BY <1>3
<1>5. Queued(i)'
  <2> SUFFICES ASSUME NEW k \in 1 .. Len(r)
               PROVE  /\ r[k].k = "data" => Feeds(i) /\ r[k].n \in (got[i] + k) .. sent[i]
                      /\ r[k].k # "data" => k = Len(r)
    BY DEF Queued, AtQueue, Feeds, r
  <2>0. Len(r) \in Nat /\ k \in Nat
    BY <1>1, <1>3
  <2>1. CASE k = Len(r)
    BY <1>2, <1>3, <2>1
  <2>2. CASE k < Len(r)
    <3>1. k + d \in 1 .. Len(q) /\ r[k] = q[k + d]
      BY <1>4, <2>2
    <3>2. Feeds(i) /\ q[k + d].n \in (got[i] + (k + d)) .. sent[i] /\ q[k + d].k = "data"
      BY <1>1, <1>q, <3>1
    <3>3. got[i] + k <= got[i] + (k + d)
      BY <1>1, <2>0
    <3>4. q[k + d].n \in (got[i] + k) .. sent[i]
      BY <1>1, <2>0, <3>2, <3>3
    <3> QED BY <3>1, <3>2, <3>4
  <2> QED BY <2>0, <2>1, <2>2
<1>6. Delivered(i)' /\ Pushing(i)'
  BY <1>3, <1>s DEF Delivered, Pushing, Feeds, r
<1>7. Counted(i)'
  <2> SUFFICES ASSUME kind[i] = "source" PROVE Len(r) <= Window + 1
    BY <1>s DEF Counted, Sending, r
  <2> QED BY <1>1, <1>3, BoundsAssumption
<1>8. InOrder(i)'
  <2> SUFFICES ASSUME kind[i] = "source", NEW k \in 1 .. Len(r)
               PROVE  /\ r[k].k = "data" => r[k].n = got[i] + k
                      /\ r[k].k = "end" => got[i] + k = Frames + 1
    BY <1>s DEF InOrder, AtQueue, r
  <2>0. d = 0 /\ Len(r) = Len(q) + 1 /\ k \in Nat
    BY <1>1, <1>4
  <2>1. CASE k = Len(r)
    <3>1. item = End => got[i] + Len(q) = Frames
      BY <1>q
    <3>2. item = End => got[i] + (Len(q) + 1) = Frames + 1
      BY <1>1, <3>1
    <3> QED BY <1>2, <1>3, <2>0, <2>1, <3>2
  <2>2. CASE k < Len(r)
    <3>1. k + 0 \in 1 .. Len(q) /\ r[k] = q[k + 0]
      BY <1>4, <2>0, <2>2
    <3>2. k \in 1 .. Len(q) /\ r[k] = q[k]
      BY <2>0, <3>1
    <3> QED BY <1>1, <1>q, <3>2
  <2> QED BY <1>1, <2>0, <2>1, <2>2
<1>9. r \in Seq(Items) /\ Streamed(i)'
  BY <1>3, <1>5, <1>6, <1>7, <1>8 DEF Streamed
<1> QED BY <1>9 DEF r

\* NodeConnection.close, for the causes for which it is called.
LEMMA CoreClosesStep ==
  ASSUME IInv, NEW why \in {"stream_unknown", "overflow", "network"}, CoreCloses(why)
  PROVE  IInv'
<1> USE DEF IInv
<1>a. /\ coreUp' = FALSE /\ streams' = {} /\ toCore' = <<>>
      /\ cause' = IF cause = "none" THEN why ELSE cause
      /\ future' = [i \in Calls |-> IF future[i] = "pending" THEN "error" ELSE future[i]]
      /\ queue' = [i \in Calls |-> IF i \in streams /\ ~closed[i]
                                   THEN ReplaceQueueTail(queue[i], Error) ELSE queue[i]]
      /\ closed' = [i \in Calls |-> closed[i] \/ i \in streams]
      /\ call' = call /\ kind' = kind /\ toAgent' = toAgent
      /\ agentUp' = agentUp /\ deadCalls' = deadCalls
      /\ deadStreams' = deadStreams
      /\ got' = got /\ gap' = gap /\ registry' = registry /\ granted' = granted
      /\ task' = task /\ credit' = credit /\ sent' = sent
  BY DEF CoreCloses, agent
<1>b. /\ \A j \in Calls : j \notin streams => queue'[j] = queue[j] /\ closed'[j] = closed[j]
      /\ \A j \in streams : queue'[j] = ReplaceQueueTail(queue[j], Error)
      /\ \A j \in Calls : future'[j] = "ok" => future[j] = "ok"
  BY <1>a DEF Streaming, Typed
<1>c. \A j \in streams : j \in Calls /\ call[j] # "idle"
  BY DEF Streaming, Typed
<1>d. ASSUME NEW j \in Calls PROVE queue'[j] \in Seq(Items) /\ Streamed(j)'
  <2>1. CASE j \in streams
    <3>1. Error # End
      BY DEF Error, End
    <3>2. queue'[j] = ReplaceQueueTail(queue[j], Error) /\ j \notin streams'
      BY <1>a, <1>b, <2>1
    <3> QED BY <1>a, <2>1, <3>1, <3>2, EndQueued
  <2>2. CASE j \notin streams
    <3>1. queue'[j] = queue[j] /\ queue[j] \in Seq(Items)
      BY <1>b, <2>2 DEF Typed
    <3> QED BY <1>a, <2>2, <3>1, StreamedKept
  <2> QED BY <2>1, <2>2
<1>1. Typed'
  <2>1. queue' \in [Calls -> Seq(Items)]
    BY <1>a, <1>d
  <2>2. future' \in [Calls -> {"none", "pending", "ok", "error"}]
    BY <1>a DEF Typed
  <2>3. closed' \in [Calls -> BOOLEAN] /\ toCore' \in Seq(CoreMessages)
    BY <1>a DEF Typed
  <2> QED BY <1>a, <2>1, <2>2, <2>3 DEF Typed
<1>2. Blamed'
  BY <1>a DEF Blamed, Causes
<1>3. Fresh'
  BY <1>a, <1>b, <1>c, FreshKept
<1>4. Remembered' /\ Streaming'
  BY <1>a DEF Remembered, Streaming
<1>5. MadeKept /\ PastKept
  BY <1>a DEF MadeKept, PastKept, Past
<1>6. AnswersDue'
  BY <1>a, <1>b, <1>5 DEF Responded, AnswersDue, PastKept
<1>7. Requested' /\ CreditUnderWay'
  BY <1>a, <1>5, AgentSideSame
<1>8. /\ Suffix(toCore', toCore) /\ toCore' \in Seq(CoreMessages)
      /\ Len(toCore') = 0
  BY <1>a, SuffixEmpty
<1>9. Responded'
  BY <1>5, <1>6, <1>8, RespondedKept
<1>10. Flowing'
  BY <1>8 DEF Flowing, AtCore
<1>11. Unbroken' /\ EndsLast'
  BY <1>a, <1>8 DEF Unbroken, EndsLast, AtCore
<1> QED BY <1>1, <1>2, <1>3, <1>4, <1>7, <1>9, <1>10, <1>11, <1>d

\* CoreResponse: the answer reaches its caller, or a tombstone.
LEMMA CoreResponseStep ==
  ASSUME IInv, CoreResponse PROVE IInv'
<1> USE DEF IInv
<1> DEFINE i == Head(toCore).id
<1>1. toCore # <<>> /\ Head(toCore).type \in {"ok", "failed"}
  BY DEF CoreResponse, Incoming
<1>2. Head(toCore) = toCore[1] /\ 1 \in AtCore /\ i \in Calls
  BY <1>1, ReadMessage
<1>3. i \in Past /\ i \in Expected
  BY <1>1, <1>2 DEF Responded
<1>4. CASE future[i] = "pending"
  <2>a. /\ \E v \in {"ok", "error"} : future' = [future EXCEPT ![i] = v]
        /\ toCore' = Tail(toCore)
        /\ call' = call /\ streams' = streams
        /\ kind' = kind /\ coreUp' = coreUp /\ toAgent' = toAgent
        /\ agentUp' = agentUp /\ cause' = cause /\ deadCalls' = deadCalls
        /\ deadStreams' = deadStreams /\ closed' = closed /\ queue' = queue
        /\ got' = got /\ gap' = gap /\ registry' = registry /\ granted' = granted
        /\ task' = task /\ credit' = credit /\ sent' = sent
    BY <1>4 DEF CoreResponse, ends, agent
  <2>x. Head(toCore).type # "data" /\ Head(toCore).id = i
    BY <1>1
  <2> HIDE DEF i
  <2>b. \A j \in Calls : j # i => future'[j] = future[j]
    BY <2>a DEF Typed
  <2>1. Typed'
    BY <1>1, <1>2, <2>a, ReadMessage DEF Typed
  <2>2. Blamed' /\ Fresh' /\ Remembered' /\ Streaming'
    BY <2>a DEF Blamed, Fresh, Remembered, Streaming, HasStream, AtQueue
  <2>3. MadeKept /\ Past' = Past /\ \A j \in Calls : j # i /\ j \in Expected => j \in Expected'
    BY <2>a, <2>b DEF MadeKept, Expected, Buried, Past
  <2>4. AnswersDue'
    <3> SUFFICES ASSUME NEW j \in Calls
                 PROVE  /\ coreUp' /\ task'[j] \in {"queued", "busy"} => j \in Expected'
                        /\ future'[j] = "ok" \/ call'[j] \in {"open", "finish", "complete"}
                             => j \in Past'
      BY DEF AnswersDue
    <3>1. CASE j = i
      BY <1>3, <2>a, <2>3, <3>1 DEF Past
    <3>2. CASE j # i
      BY <2>a, <2>b, <2>3, <3>2 DEF Responded, AnswersDue
    <3> QED BY <3>1, <3>2
  <2>5. DeliveryKept
    BY <2>a DEF DeliveryKept
  <2>6. \A j \in Calls : Streamed(j)'
    BY <2>a, StreamedKept
  <2>7. \A j \in Calls : j \notin Past /\ j \in Expected => j \in Expected'
    BY <1>3, <2>3
  <2>8. Requested' /\ CreditUnderWay'
    BY <2>a, <2>3, <2>7, AgentSideSame
  <2>9. Responded' /\ Flowing' /\ Unbroken' /\ EndsLast'
    BY <1>1, <2>a, <2>x, <2>1, <2>3, <2>4, <2>5, CoreSideRead
  <2> QED BY <2>1, <2>2, <2>6, <2>8, <2>9
<1>5. CASE future[i] # "pending"
  <2>1. Buried(deadCalls, i)
    BY <1>3, <1>5 DEF Expected
  <2>2. toCore' = Tail(toCore) /\ UNCHANGED <<kind, ends, toAgent, core, agent, sent>>
    BY <1>5, <2>1 DEF CoreResponse
  <2> QED BY <1>1, <2>2, DropMessage
<1> QED BY <1>4, <1>5

\* CoreData of a frame that is delivered.
LEMMA DataDelivered ==
  ASSUME IInv, toCore # <<>>, Head(toCore).type = "data", NEW i \in streams, NEW n,
         i = Head(toCore).id, n = Head(toCore).n, Len(queue[i]) < Depth,
         queue' = [queue EXCEPT ![i] = Append(@, Data(n))],
         toCore' = Tail(toCore),
         UNCHANGED <<kind, ends, toAgent, call, future, streams, deadCalls,
                     deadStreams, closed, granted, got, gap, agent, sent>>
  PROVE  IInv'
<1> USE DEF IInv
<1> DEFINE t == Tail(toCore)
           q == queue[i]
           r == queue'[i]
<1>a. /\ call' = call /\ streams' = streams /\ future' = future
      /\ kind' = kind /\ coreUp' = coreUp /\ toAgent' = toAgent
      /\ agentUp' = agentUp /\ cause' = cause /\ deadCalls' = deadCalls
      /\ deadStreams' = deadStreams /\ closed' = closed
      /\ got' = got /\ gap' = gap /\ registry' = registry /\ granted' = granted
      /\ task' = task /\ credit' = credit /\ sent' = sent
  BY DEF ends, agent
<1>h. /\ toCore[1].type = "data" /\ toCore[1].id = i /\ toCore[1].n = n /\ 1 \in AtCore
      /\ i \in Calls /\ n \in Nat /\ t \in Seq(CoreMessages) /\ toCore' = t
      /\ Suffix(t, toCore) /\ Len(toCore) \in Nat /\ Len(t) = Len(toCore) - 1
      /\ \A k \in 1 .. Len(t) : k + 1 \in AtCore /\ k + 1 # 1 /\ t[k] = toCore[k + 1]
  BY ReadMessage
<1>q. /\ i \in streams /\ i \in Calls /\ q \in Seq(Items) /\ Len(q) \in Nat
      /\ Len(q) < Depth /\ got[i] \in Nat
      /\ sent[i] \in 0 .. Frames /\ sent[i] \in Nat
      /\ \A k \in 1 .. Len(q) : q[k].k = "data"
      /\ kind[i] = "source" => Len(q) <= Window
      /\ Queued(i) /\ Delivered(i) /\ Pushing(i) /\ Counted(i) /\ InOrder(i)
  BY OpenQueue DEF AtQueue, Typed, Streamed
<1>f. Feeds(i) /\ n \in 1 .. sent[i] /\ n > got[i] + Len(q)
  BY <1>h, <1>q DEF Flowing
<1>d. Data(n) \in Items /\ Data(n).k = "data" /\ Data(n).n = n
  BY <1>f, <1>q, ItemTypes, BoundsAssumption
<1>r. r = Append(q, Data(n)) /\ \A j \in Calls : j # i => queue'[j] = queue[j]
  BY <1>q DEF Typed
<1>s. r \in Seq(Items) /\ Extended(r, q, Data(n))
  BY <1>d, <1>q, <1>r, ExtendedAppend
<1>u. /\ Len(r) = Len(q) + 1
      /\ \A k \in 1 .. Len(r) : \/ k \in 1 .. Len(q) /\ r[k] = q[k]
                                \/ k = Len(q) + 1 /\ r[k] = Data(n)
  BY <1>q, <1>s, ExtendedPlaces
<1>1. Typed'
  <2>1. queue' = [queue EXCEPT ![i] = r]
    BY <1>r
  <2> HIDE DEF r
  <2>2. queue' \in [Calls -> Seq(Items)]
    BY <1>s, <2>1, <1>q DEF Typed
  <2> QED BY <1>a, <1>h, <2>2 DEF Typed
<1>k. i \in streams /\ queue[i] = q /\ queue'[i] = r
  BY <1>q
<1> HIDE DEF t, q, r
<1>m. /\ got[i] \in Nat /\ Len(q) \in Nat /\ sent[i] \in Nat /\ n \in Nat
      /\ n <= sent[i] /\ n > got[i] + Len(q) /\ Len(queue[i]) = Len(q)
  BY <1>f, <1>h, <1>k, <1>q
<1>2. Blamed'
  BY <1>a DEF Blamed
<1>3. MadeKept /\ Expected' = Expected /\ PastKept
  BY <1>a DEF MadeKept, Expected, Buried, PastKept, Past
<1>4. Fresh'
  BY <1>a, <1>k, <1>q, <1>r, FreshKept DEF Streaming
<1>5. Remembered' /\ AnswersDue'
  BY <1>a, <1>3 DEF Remembered, Responded, AnswersDue, Past
<1>6. Streaming'
  <2> SUFFICES ASSUME NEW j \in streams
               PROVE  \A k \in 1 .. Len(queue'[j]) : queue'[j][k].k = "data"
    BY <1>a DEF Streaming, HasStream, AtQueue
  <2>1. CASE j = i
    BY <1>d, <1>k, <1>q, <1>u, <2>1
  <2>2. CASE j # i
    BY <1>r, <2>2 DEF Streaming, AtQueue, Typed
  <2> QED BY <2>1, <2>2
<1>7. Requested' /\ CreditUnderWay'
  BY <1>a, <1>3, AgentSideSame
<1>8. Responded'
  BY <1>3, <1>5, <1>h, RespondedKept
<1>9. EndsLast'
  <2>1. FinalKept
    BY <1>a DEF FinalKept
  <2> QED BY <1>a, <1>h, <2>1, EndsLastKept
<1>10. Flowing'
  <2>1. \A k \in 1 .. Len(t) : t[k].id \in Calls /\ t[k].n \in Nat
    BY <1>h, MessageFields
  <2>2. ASSUME NEW k \in 1 .. Len(t), t[k].type = "data"
        PROVE  /\ Feeds(t[k].id) /\ t[k].n \in 1 .. sent[t[k].id]
               /\ t[k].id \in streams => t[k].n > got[t[k].id] + Len(queue'[t[k].id])
    <3>1. /\ Feeds(t[k].id) /\ t[k].n \in 1 .. sent[t[k].id]
          /\ t[k].id \in streams => t[k].n > got[t[k].id] + Len(queue[t[k].id])
      BY <1>h, <2>2 DEF Flowing
    <3>2. CASE t[k].id = i
      <4>1. 1 < k + 1
        BY <1>h
      <4>2. n < t[k].n
        BY <1>h, <2>2, <3>2, <4>1 DEF Flowing
      <4> QED BY <1>f, <1>h, <1>k, <1>q, <1>u, <2>1, <3>1, <3>2, <4>2
    <3>3. CASE t[k].id # i
      BY <1>r, <2>1, <3>1, <3>3
    <3> QED BY <3>2, <3>3
  <2>3. ASSUME NEW k \in 1 .. Len(t), NEW l \in 1 .. Len(t), t[k].type = "data",
               t[l].type = "data", t[k].id = t[l].id, k < l
        PROVE  t[k].n < t[l].n
    <3>1. k + 1 < l + 1
      BY <1>h, <2>3
    <3> QED BY <1>h, <2>3, <3>1 DEF Flowing
  <2> QED BY <1>a, <1>h, <2>2, <2>3 DEF Flowing, AtCore, Feeds
<1>n. kind[i] = "source" => n = got[i] + Len(q) + 1
  <2> SUFFICES ASSUME kind[i] = "source", n > got[i] + Len(q) + 1
               PROVE  FALSE
    <3>1. \A a, b, c \in Nat : c > a + b => c = a + b + 1 \/ c > a + b + 1
      OBVIOUS
    <3> QED BY <1>m, <3>1
  <2>1. /\ got[i] + Len(q) + 1 \in 1 .. sent[i] /\ got[i] + Len(q) + 1 > got[i] + Len(queue[i])
    BY <1>m
  <2>2. UnderWay(i, got[i] + Len(q) + 1)
    BY <1>k, <2>1 DEF Unbroken
  <2>3. PICK k \in AtCore : /\ toCore[k].type = "data" /\ toCore[k].id = i
                            /\ toCore[k].n = got[i] + Len(q) + 1
    BY <2>2 DEF UnderWay
  <2>4. k \in Nat /\ k >= 1
    BY <1>h DEF AtCore
  <2>5. CASE k = 1
    BY <1>h, <1>q, <2>3, <2>5
  <2>6. CASE 1 < k
    <3>1. n < got[i] + Len(q) + 1
      BY <1>h, <2>3, <2>6 DEF Flowing
    <3> QED BY <1>h, <1>q, <3>1
  <2> QED BY <2>4, <2>5, <2>6
<1>11. Unbroken'
  <2> SUFFICES ASSUME NEW j \in streams, kind[j] = "source", NEW m \in 1 .. sent[j],
                      m > got[j] + Len(queue'[j])
               PROVE  UnderWay(j, m)'
    BY <1>a DEF Unbroken
  <2>1. j \in Calls /\ sent[j] \in Nat /\ m \in Nat
    BY DEF Typed
  <2>2. CASE j = i
    <3>1. m > got[i] + (Len(q) + 1)
      BY <1>k, <1>u, <2>2
    <3>2. m > got[i] + Len(q) /\ m # n
      BY <1>n, <1>q, <2>1, <2>2, <3>1
    <3>3. UnderWay(j, m)
      BY <1>k, <2>2, <3>2 DEF Unbroken
    <3> QED BY <3>2, <3>3, UnderWayTail
  <2>3. CASE j # i
    <3>1. UnderWay(j, m)
      BY <1>r, <2>1, <2>3 DEF Unbroken
    <3> QED BY <2>3, <3>1, UnderWayTail
  <2> QED BY <2>2, <2>3
<1>12. \A j \in Calls : j # i => Streamed(j)'
  BY <1>a, <1>r, StreamedKept
<1>13. Streamed(i)'
  <2>1. Queued(i)'
    <3> SUFFICES ASSUME NEW k \in 1 .. Len(r)
                 PROVE  r[k].k = "data" /\ r[k].n \in (got[i] + k) .. sent[i]
      BY <1>a, <1>f, <1>k DEF Queued, AtQueue, Feeds
    <3>1. CASE k \in 1 .. Len(q) /\ r[k] = q[k]
      BY <1>k, <1>q, <3>1 DEF Queued, AtQueue
    <3>2. CASE k = Len(q) + 1 /\ r[k] = Data(n)
      BY <1>d, <1>f, <1>h, <1>q, <3>2
    <3> QED BY <1>u, <3>1, <3>2
  <2>2. Delivered(i)'
    <3>a. \A a, b, c, d \in Nat : c > a + b /\ c <= d => a + (b + 1) <= d /\ a <= d
      OBVIOUS
    <3>b. \A a, d \in Nat : a < d => a + 1 <= d
      OBVIOUS
    <3>1. got[i] + (Len(q) + 1) <= sent[i] /\ Len(q) + 1 <= Depth /\ got[i] <= sent[i]
      BY <1>m, <1>q, <3>a, <3>b, BoundsAssumption
    <3> QED BY <1>a, <1>f, <1>k, <1>u, <3>1 DEF Delivered, Feeds
  <2>3. Pushing(i)'
    BY <1>a, <1>q DEF Pushing, Feeds
  <2>4. Counted(i)'
    <3>1. kind[i] = "source" => Len(r) <= Window + 1
      BY <1>q, <1>u, BoundsAssumption
    <3> QED BY <1>a, <1>k, <1>q, <3>1 DEF Counted, Sending
  <2>5. InOrder(i)'
    <3> SUFFICES ASSUME kind[i] = "source", NEW k \in 1 .. Len(r)
                 PROVE  r[k].k = "data" /\ r[k].n = got[i] + k
      BY <1>a, <1>k, <1>q DEF InOrder, AtQueue
    <3>1. CASE k \in 1 .. Len(q) /\ r[k] = q[k]
      BY <1>k, <1>q, <3>1 DEF InOrder, AtQueue
    <3>2. CASE k = Len(q) + 1 /\ r[k] = Data(n)
      <4>1. \A a, b \in Nat : a + b + 1 = a + (b + 1)
        OBVIOUS
      <4> QED BY <1>d, <1>m, <1>n, <3>2, <4>1
    <3> QED BY <1>u, <3>1, <3>2
  <2> QED BY <2>1, <2>2, <2>3, <2>4, <2>5 DEF Streamed
<1> QED BY <1>1, <1>2, <1>4, <1>5, <1>6, <1>7, <1>8, <1>9, <1>10, <1>11, <1>12, <1>13

\* CoreData: a frame for a stream.
LEMMA CoreDataStep ==
  ASSUME IInv, CoreData PROVE IInv'
<1> DEFINE i == Head(toCore).id
<1>1. toCore # <<>> /\ Head(toCore).type = "data"
  BY DEF CoreData, Incoming
<1>2. CASE UnknownStream(i)
  BY <1>2, CoreClosesStep DEF CoreData
<1>3. CASE ~UnknownStream(i) /\ (i \notin streams \/ closed[i])
  <2>1. i \notin streams
    BY <1>3 DEF IInv, Streaming
  <2>2. toCore' = Tail(toCore) /\ UNCHANGED <<kind, ends, toAgent, core, agent, sent>>
    BY <1>3 DEF CoreData
  <2> QED BY <1>1, <2>1, <2>2, DropMessage
<1>4. CASE i \in streams /\ ~closed[i]
  <2>1. ~UnknownStream(i)
    BY <1>4 DEF UnknownStream
  <2>2. CASE Len(queue[i]) >= Depth
    BY <1>4, <2>1, <2>2, CoreClosesStep DEF CoreData
  <2>3. CASE ~(Len(queue[i]) >= Depth)
    <3>1. Len(queue[i]) < Depth
      BY <1>4, <2>3, OpenQueue, BoundsAssumption
    <3>2. /\ queue' = [queue EXCEPT ![i] = Append(@, Data(Head(toCore).n))]
          /\ toCore' = Tail(toCore)
          /\ UNCHANGED <<kind, ends, toAgent, call, future, streams, deadCalls,
                         deadStreams, closed, granted, got, gap, agent, sent>>
      BY <1>4, <2>1, <2>3 DEF CoreData
    <3>3. ASSUME NEW c \in streams, NEW m, c = i, m = Head(toCore).n PROVE IInv'
      BY <1>1, <3>1, <3>2, <3>3, DataDelivered
    <3> QED BY <1>4, <3>3
  <2> QED BY <2>2, <2>3
<1> QED BY <1>2, <1>3, <1>4

\* CoreEnd for a stream that is open.
LEMMA EndDelivered ==
  ASSUME IInv, CoreEnd, NEW i \in streams, i = Head(toCore).id, toCore # <<>>,
         Head(toCore).type \in {"end", "error"}, NEW item,
         item = IF Head(toCore).type = "end" THEN End ELSE Error
  PROVE  IInv'
<1> USE DEF IInv
<1>h. /\ Head(toCore) = toCore[1] /\ 1 \in AtCore /\ Tail(toCore) \in Seq(CoreMessages)
  BY ReadMessage
<1>q. /\ i \in Calls /\ ~closed[i] /\ Len(queue[i]) \in Nat /\ got[i] \in Nat
      /\ sent[i] \in Nat /\ (Feeds(i) => got[i] + Len(queue[i]) <= sent[i])
  BY OpenQueue
<1>a. /\ queue' = [queue EXCEPT ![i] = ReplaceQueueTail(@, item)]
      /\ closed' = [closed EXCEPT ![i] = TRUE]
      /\ streams' = streams \ {i} /\ deadStreams' = Bury(deadStreams, i)
      /\ toCore' = Tail(toCore)
      /\ call' = call /\ future' = future
      /\ kind' = kind /\ coreUp' = coreUp /\ toAgent' = toAgent
      /\ agentUp' = agentUp /\ cause' = cause /\ deadCalls' = deadCalls
      /\ got' = got /\ gap' = gap /\ registry' = registry /\ granted' = granted
      /\ task' = task /\ credit' = credit /\ sent' = sent
  BY <1>q DEF CoreEnd, UnknownStream, DropStream, ends, agent
<1>b. /\ queue'[i] = ReplaceQueueTail(queue[i], item)
      /\ \A j \in Calls : j # i => queue'[j] = queue[j] /\ closed'[j] = closed[j]
  BY <1>a, <1>q DEF Typed
<1>c. item \in {End, Error} /\ (item = End => toCore[1].type = "end" /\ toCore[1].id = i)
  BY <1>h DEF End, Error
<1>x. Head(toCore).type # "data" /\ i \in streams
  OBVIOUS
<1>f. ASSUME item = End, kind[i] = "source"
      PROVE  got[i] + Len(queue[i]) = Frames
  <2>1. /\ sent[i] = Frames
        /\ \A m \in AtCore : m > 1 => ~(toCore[m].type = "data" /\ toCore[m].id = i)
    BY <1>c, <1>f, <1>h DEF EndsLast
  <2>2. \A m \in AtCore : ~(toCore[m].type = "data" /\ toCore[m].id = i)
    <3>1. \A m \in AtCore : m = 1 \/ m > 1
      BY DEF AtCore
    <3> QED BY <1>c, <1>f, <2>1, <3>1
  <2>3. ~(sent[i] > got[i] + Len(queue[i]))
    <3> SUFFICES ASSUME sent[i] > got[i] + Len(queue[i]) PROVE FALSE
      OBVIOUS
    <3>1. sent[i] \in 1 .. sent[i]
      BY <1>q
    <3>2. UnderWay(i, sent[i])
      BY <1>f, <1>x, <3>1 DEF Unbroken
    <3> QED BY <2>2, <3>2 DEF UnderWay
  <2>4. got[i] + Len(queue[i]) <= sent[i]
    BY <1>f, <1>q DEF Feeds
  <2> QED BY <1>q, <2>1, <2>3, <2>4
<1>g. queue'[i] \in Seq(Items) /\ Streamed(i)'
  BY <1>a, <1>b, <1>c, <1>f, <1>x, EndQueued
<1>1. Typed'
  <2>1. queue' \in [Calls -> Seq(Items)]
    BY <1>a, <1>b, <1>g DEF Typed
  <2>2. closed' \in [Calls -> BOOLEAN] /\ streams' \subseteq Calls
    BY <1>a DEF Typed
  <2>3. deadStreams' \in Seq(Calls)
    BY <1>a, <1>q, BuryType DEF Typed
  <2> QED BY <1>a, <1>h, <2>1, <2>2, <2>3 DEF Typed
<1>2. Blamed' /\ Remembered'
  BY <1>a DEF Blamed, Remembered
<1>3. Fresh'
  BY <1>a, <1>b, <1>q, <1>x, FreshKept DEF Streaming
<1>4. Streaming'
  BY <1>a, <1>b, StreamingKept DEF Streaming, Typed
<1>5. MadeKept /\ Expected' = Expected
  BY <1>a DEF MadeKept, Expected, Buried
<1>6. AnswersDue'
  BY <1>a, <1>5 DEF Responded, AnswersDue, Past
<1>7. DeliveryKept
  BY <1>a, <1>b DEF DeliveryKept, Typed
<1>8. \A j \in Calls : j # i => Streamed(j)'
  BY <1>a, <1>b, StreamedKept
<1>9. Requested' /\ CreditUnderWay'
  BY <1>a, <1>5, AgentSideSame
<1>10. Responded' /\ Flowing' /\ Unbroken' /\ EndsLast'
  BY <1>a, <1>x, <1>1, <1>5, <1>6, <1>7, CoreSideRead
<1> QED BY <1>1, <1>2, <1>3, <1>4, <1>8, <1>9, <1>10, <1>g

\* CoreEnd: the Node has closed a stream, or reports an error.
LEMMA CoreEndStep ==
  ASSUME IInv, CoreEnd PROVE IInv'
<1>1. toCore # <<>> /\ Head(toCore).type \in {"end", "error"}
  BY DEF CoreEnd, Incoming
<1>2. CASE UnknownStream(Head(toCore).id)
  BY <1>2, CoreClosesStep DEF CoreEnd
<1>3. CASE ~UnknownStream(Head(toCore).id) /\ Head(toCore).id \notin streams
  <2>1. toCore' = Tail(toCore) /\ UNCHANGED <<kind, ends, toAgent, core, agent, sent>>
    BY <1>3 DEF CoreEnd
  <2> QED BY <1>1, <1>3, <2>1, DropMessage
<1>4. CASE Head(toCore).id \in streams
  BY <1>1, <1>4, EndDelivered
<1> QED BY <1>2, <1>3, <1>4

-----------------------------------------------------------------------------
(* The Node *)

\* The Node leaves the Core's state alone.
LEMMA CoreStateSame ==
  ASSUME IInv, core' = core, kind' = kind, coreUp' = coreUp
  PROVE  /\ Remembered' /\ Streaming' /\ MadeKept /\ Expected' = Expected /\ DeliveryKept
         /\ call' = call /\ future' = future /\ streams' = streams /\ deadCalls' = deadCalls
         /\ deadStreams' = deadStreams /\ closed' = closed /\ queue' = queue
         /\ granted' = granted /\ got' = got /\ gap' = gap
<1>1. /\ call' = call /\ future' = future /\ streams' = streams /\ deadCalls' = deadCalls
      /\ deadStreams' = deadStreams /\ closed' = closed /\ queue' = queue
      /\ granted' = granted /\ got' = got /\ gap' = gap
  BY DEF core
<1>2. Remembered' /\ Streaming'
  BY <1>1 DEF IInv, Remembered, Streaming, HasStream, AtQueue
<1>3. MadeKept /\ Expected' = Expected /\ DeliveryKept
  BY <1>1 DEF MadeKept, Expected, Buried, DeliveryKept
<1> QED BY <1>1, <1>2, <1>3

\* Tasks of the Node that leave or start their work.
LEMMA AnswersDueNode ==
  ASSUME IInv, core' = core, kind' = kind, coreUp' = coreUp, PastKept,
         \A j \in Calls : coreUp /\ task'[j] \in {"queued", "busy"} => j \in Expected
  PROVE  AnswersDue'
<1> USE DEF IInv
<1>1. Expected' = Expected /\ call' = call /\ future' = future
  BY CoreStateSame
<1> QED BY <1>1 DEF Responded, AnswersDue, PastKept

\* The Node sends nothing.
LEMMA NodeQuiet ==
  ASSUME IInv, toCore' = toCore, core' = core, kind' = kind, coreUp' = coreUp, sent' = sent,
         PastKept, FinalKept, AnswersDue'
  PROVE  Responded' /\ Flowing' /\ Unbroken' /\ EndsLast' /\ Remembered' /\ Streaming'
<1> USE DEF IInv
<1>1. /\ Remembered' /\ Streaming' /\ Expected' = Expected /\ DeliveryKept
      /\ streams' = streams /\ got' = got /\ queue' = queue
  BY CoreStateSame
<1>2. toCore' \in Seq(CoreMessages) /\ Suffix(toCore', toCore)
  BY SuffixSame DEF Typed
<1>3. Responded'
  BY <1>1, <1>2, RespondedKept
<1>4. Flowing' /\ Unbroken'
  BY <1>1 DEF Flowing, Unbroken, UnderWay, AtCore, Feeds
<1>5. EndsLast'
  BY <1>2, EndsLastKept
<1> QED BY <1>1, <1>3, <1>4, <1>5

\* The Node sends a message that is not a frame.
LEMMA NodeSends ==
  ASSUME IInv, NEW i \in Calls, NEW t \in {"ok", "failed", "end", "error"},
         SendCore(Message(t, i, 0)), core' = core, kind' = kind, coreUp' = coreUp,
         sent' = sent, PastKept, FinalKept, AnswersDue',
         t \in {"ok", "failed"} => i \notin Past /\ i \in Past' /\ (coreUp => i \in Expected),
         t = "end" /\ kind[i] = "source" => sent[i] = Frames /\ task'[i] \in {"closing", "done"}
  PROVE  /\ toCore' \in Seq(CoreMessages) /\ Responded' /\ Flowing' /\ Unbroken' /\ EndsLast'
         /\ Remembered' /\ Streaming'
<1> USE DEF IInv
<1> DEFINE m == Message(t, i, 0)
<1>1. m \in CoreMessages /\ m.type = t /\ m.id = i
  BY MessageTypes
<1>2. /\ toCore' \in Seq(CoreMessages)
      /\ \/ coreUp /\ Extended(toCore', toCore, m)
         \/ ~coreUp /\ toCore' = toCore
  BY <1>1, CoreSent
<1> HIDE DEF m
<1>3. CASE ~coreUp /\ toCore' = toCore
  BY <1>2, <1>3, NodeQuiet
<1>4. CASE coreUp /\ Extended(toCore', toCore, m)
  <2>1. /\ Remembered' /\ Streaming' /\ Expected' = Expected /\ DeliveryKept
        /\ streams' = streams /\ got' = got /\ queue' = queue
    BY CoreStateSame
  <2>2. m.type \in {"ok", "failed"} => m.id \notin Past /\ m.id \in Past' /\ m.id \in Expected
    BY <1>1, <1>4
  <2>3. Responded'
    BY <1>1, <1>2, <1>4, <2>1, <2>2, RespondedExtended
  <2>4. \A j \in Calls : sent'[j] \in Nat /\ sent[j] <= sent'[j]
    BY DEF Typed
  <2>5. Flowing'
    BY <1>1, <1>2, <1>4, <2>1, <2>4, FlowingExtended
  <2>6. \A j \in streams', n \in Nat : UnderWay(j, n) => UnderWay(j, n)'
    BY <1>4, UnderWayExtended
  <2>7. streams' \subseteq Calls
    BY <2>1 DEF Typed
  <2>8. Unbroken'
    BY <2>1, <2>6, <2>7, UnbrokenKept
  <2>9. m.type = "end" /\ kind[m.id] = "source" =>
          sent'[m.id] = Frames /\ task'[m.id] \in {"closing", "done"}
    BY <1>1
  <2>10. EndsLast'
    BY <1>1, <1>2, <1>4, <2>9, EndsLastExtended
  <2> QED BY <1>2, <2>1, <2>3, <2>5, <2>8, <2>10
<1> QED BY <1>2, <1>3, <1>4

\* The Node leaves the messages to it alone, or reads or loses some.
LEMMA NodeReads ==
  ASSUME IInv, toAgent' \in Seq(AgentMessages), Suffix(toAgent', toAgent),
         core' = core, kind' = kind, coreUp' = coreUp, PastKept,
         \A j \in Calls : task[j] = "none" => task'[j] = "none",
         \A j \in Calls : kind[j] = "source" /\ credit[j] = 0 /\ task[j] # "sending"
           => credit'[j] = 0 /\ task'[j] # "sending" /\ sent'[j] = sent[j]
  PROVE  Requested' /\ CreditUnderWay'
<1> USE DEF IInv
<1>1. MadeKept /\ Expected' = Expected /\ granted' = granted
  BY CoreStateSame
<1>2. \A k \in 1 .. Len(toAgent') : toAgent'[k].id \in Calls
  BY MessageFields
<1>3. \A k \in 1 .. Len(toAgent') : toAgent'[k].type = "request" =>
        task'[toAgent'[k].id] = "none"
  <2>1. PICK d \in Nat : \A k \in 1 .. Len(toAgent') :
                           k + d \in AtAgent /\ toAgent'[k] = toAgent[k + d]
    BY DEF Suffix, AtAgent
  <2> QED BY <1>2, <2>1 DEF Requested
<1>4. Requested'
  BY <1>1, <1>3, RequestedKept
<1>5. CreditUnderWay'
  BY <1>1, <1>2, CreditKept
<1> QED BY <1>4, <1>5

\* run_once ends, for the causes for which it does.
LEMMA AgentClosesStep ==
  ASSUME IInv, NEW why \in {"agent_stream_unknown", "agent_feed", "network"}, AgentCloses(why)
  PROVE  IInv'
<1> USE DEF IInv
<1>a. /\ agentUp' = FALSE /\ cause' = IF cause = "none" THEN why ELSE cause
      /\ registry' = {} /\ toAgent' = <<>>
      /\ task' = [i \in Calls |-> IF task[i] = "none" THEN "none" ELSE "done"]
      /\ kind' = kind /\ coreUp' = coreUp /\ toCore' = toCore /\ core' = core
      /\ credit' = credit /\ sent' = sent
  BY DEF AgentCloses
<1>b. /\ call' = call /\ future' = future /\ streams' = streams /\ deadCalls' = deadCalls
      /\ deadStreams' = deadStreams /\ closed' = closed /\ queue' = queue
      /\ granted' = granted /\ got' = got /\ gap' = gap
  BY <1>a, CoreStateSame
<1>c. /\ \A j \in Calls : task'[j] = IF task[j] = "none" THEN "none" ELSE "done"
      /\ toAgent' \in Seq(AgentMessages) /\ Suffix(toAgent', toAgent)
  BY <1>a, SuffixEmpty
<1>1. Typed'
  BY <1>a, <1>b, <1>c DEF Typed
<1>2. Blamed' /\ Fresh'
  BY <1>a, <1>b, <1>c DEF Blamed, Fresh, Causes
<1>3. PastKept /\ FinalKept
  BY <1>a, <1>c DEF PastKept, Past, FinalKept
<1>4. AnswersDue'
  BY <1>a, <1>c, <1>3, AnswersDueNode
<1>5. Responded' /\ Flowing' /\ Unbroken' /\ EndsLast' /\ Remembered' /\ Streaming'
  BY <1>a, <1>3, <1>4, NodeQuiet
<1>6. Requested' /\ CreditUnderWay'
  BY <1>a, <1>c, <1>3, NodeReads
<1>7. \A j \in Calls : Streamed(j)'
  BY <1>a, <1>b, <1>c, StreamedKept
<1> QED BY <1>1, <1>2, <1>4, <1>5, <1>6, <1>7

\* A task of the Node changes, and nothing is sent: Admit, PushCloses.
LEMMA TaskStep ==
  ASSUME IInv, NEW i \in Calls, NEW s \in {"busy", "done"}, task' = [task EXCEPT ![i] = s],
         s = "busy" => task[i] = "queued", task[i] # "none", registry' \subseteq Calls,
         UNCHANGED <<kind, ends, toAgent, toCore, core, credit, sent>>
  PROVE  IInv'
<1> USE DEF IInv
<1>a. /\ kind' = kind /\ coreUp' = coreUp /\ agentUp' = agentUp /\ cause' = cause
      /\ toAgent' = toAgent /\ toCore' = toCore /\ core' = core
      /\ credit' = credit /\ sent' = sent
  BY DEF ends
<1>b. /\ call' = call /\ future' = future /\ streams' = streams /\ deadCalls' = deadCalls
      /\ deadStreams' = deadStreams /\ closed' = closed /\ queue' = queue
      /\ granted' = granted /\ got' = got /\ gap' = gap
  BY <1>a, CoreStateSame
<1>c. \A j \in Calls : task'[j] = IF j = i THEN s ELSE task[j]
  BY DEF Typed
<1>1. Typed'
  BY <1>a, <1>b DEF Typed
<1>2. Blamed' /\ Fresh'
  BY <1>a, <1>b, <1>c DEF Blamed, Fresh
<1>3. PastKept /\ FinalKept
  BY <1>a, <1>c DEF PastKept, Past, FinalKept
<1>4. AnswersDue'
  <2>1. \A j \in Calls : coreUp /\ task'[j] \in {"queued", "busy"} => j \in Expected
    BY <1>c DEF Responded, AnswersDue
  <2> QED BY <1>a, <1>3, <2>1, AnswersDueNode
<1>5. Responded' /\ Flowing' /\ Unbroken' /\ EndsLast' /\ Remembered' /\ Streaming'
  BY <1>a, <1>3, <1>4, NodeQuiet
<1>6. Requested' /\ CreditUnderWay'
  <2>1. toAgent' \in Seq(AgentMessages) /\ Suffix(toAgent', toAgent)
    BY <1>a, SuffixSame DEF Typed
  <2> QED BY <1>a, <1>c, <1>3, <2>1, NodeReads
<1>7. \A j \in Calls : Streamed(j)'
  BY <1>a, <1>b, <1>c, StreamedKept
<1> QED BY <1>1, <1>2, <1>4, <1>5, <1>6, <1>7

\* Admit: a task gets one of the slots.
LEMMA AdmitStep ==
  ASSUME IInv, NEW i \in Calls, Admit(i) PROVE IInv'
<1>1. registry' \subseteq Calls
  BY DEF Admit, IInv, Typed
<1> QED BY <1>1, TaskStep DEF Admit

\* PushCloses: the task leaves its loop.
LEMMA PushClosesStep ==
  ASSUME IInv, NEW i \in Calls, PushCloses(i) PROVE IInv'
<1>1. registry' \subseteq Calls
  BY DEF PushCloses, IInv, Typed
<1> QED BY <1>1, TaskStep DEF PushCloses

\* AgentRequest: a request becomes a task.
LEMMA AgentRequestStep ==
  ASSUME IInv, AgentRequest PROVE IInv'
<1> USE DEF IInv
<1>1. \E j \in Calls : j = Head(toAgent).id
  BY TailPlaces, MessageFields DEF AgentRequest, Typed
<1>2. PICK i \in Calls : i = Head(toAgent).id
  BY <1>1
<1>a. /\ toAgent # <<>> /\ Head(toAgent).type = "request" /\ toAgent' = Tail(toAgent)
      /\ task' = [task EXCEPT ![i] = "queued"]
      /\ kind' = kind /\ coreUp' = coreUp /\ agentUp' = agentUp /\ cause' = cause
      /\ toCore' = toCore /\ core' = core /\ registry' = registry
      /\ credit' = credit /\ sent' = sent
  BY <1>2 DEF AgentRequest, ends
<1>b. /\ call' = call /\ future' = future /\ streams' = streams /\ deadCalls' = deadCalls
      /\ deadStreams' = deadStreams /\ closed' = closed /\ queue' = queue
      /\ granted' = granted /\ got' = got /\ gap' = gap
      /\ MadeKept /\ Expected' = Expected
  BY <1>a, CoreStateSame
<1>c. \A j \in Calls : task'[j] = IF j = i THEN "queued" ELSE task[j]
  BY <1>a DEF Typed
<1> DEFINE t == Tail(toAgent)
<1>h. /\ toAgent[1].type = "request" /\ toAgent[1].id = i /\ 1 \in AtAgent /\ toAgent' = t
      /\ t \in Seq(AgentMessages) /\ Suffix(t, toAgent)
      /\ \A k \in 1 .. Len(t) : k + 1 \in AtAgent /\ k + 1 # 1 /\ t[k] = toAgent[k + 1]
  <2>1. /\ Head(toAgent) = toAgent[1] /\ t \in Seq(AgentMessages) /\ Suffix(t, toAgent)
        /\ Len(toAgent) \in Nat /\ Len(toAgent) >= 1
        /\ \A k \in 1 .. Len(t) : k + 1 \in 1 .. Len(toAgent) /\ t[k] = toAgent[k + 1]
    BY <1>a, TailPlaces, SuffixTail DEF Typed
  <2>2. \A k \in 1 .. Len(t) : k + 1 # 1
    BY <2>1
  <2>3. 1 \in 1 .. Len(toAgent)
    BY <2>1
  <2> QED BY <1>2, <1>a, <2>1, <2>2, <2>3 DEF AtAgent
<1> HIDE DEF t
<1>f. task[i] = "none" /\ call[i] # "idle" /\ (coreUp => i \in Expected)
  BY <1>h DEF Requested
<1>3. Typed'
  BY <1>a, <1>b, <1>h DEF Typed
<1>4. Blamed' /\ Fresh'
  BY <1>a, <1>b, <1>c, <1>f DEF Blamed, Fresh
<1>5. PastKept /\ FinalKept
  BY <1>a, <1>c, <1>f DEF PastKept, Past, FinalKept
<1>6. AnswersDue'
  <2>1. \A j \in Calls : coreUp /\ task'[j] \in {"queued", "busy"} => j \in Expected
    BY <1>c, <1>f DEF Responded, AnswersDue
  <2> QED BY <1>a, <1>5, <2>1, AnswersDueNode
<1>7. Responded' /\ Flowing' /\ Unbroken' /\ EndsLast' /\ Remembered' /\ Streaming'
  BY <1>a, <1>5, <1>6, NodeQuiet
<1>8. \A k \in 1 .. Len(t) : t[k].type = "request" => task'[t[k].id] = "none"
  <2> SUFFICES ASSUME NEW k \in 1 .. Len(t), t[k].type = "request"
               PROVE  task'[t[k].id] = "none"
    OBVIOUS
  <2>1. t[k].id # i
    BY <1>h DEF Requested
  <2>2. t[k].id \in Calls
    BY <1>h, MessageFields
  <2> QED BY <1>c, <1>h, <2>1, <2>2 DEF Requested
<1>9. Requested'
  BY <1>a, <1>b, <1>h, <1>5, <1>8, RequestedKept
<1>10. CreditUnderWay'
  <2>1. \A k \in 1 .. Len(t) : t[k].id \in Calls
    BY <1>h, MessageFields
  <2>2. \A j \in Calls : task[j] # "sending" => task'[j] # "sending"
    BY <1>c
  <2> QED BY <1>a, <1>b, <1>h, <2>1, <2>2, CreditKept
<1>11. \A j \in Calls : Streamed(j)'
  BY <1>a, <1>b, <1>c, StreamedKept
<1> QED BY <1>3, <1>4, <1>7, <1>9, <1>10, <1>11

\* A task of the Node changes with a message that is not a frame.
LEMMA TaskSends ==
  ASSUME IInv, NEW i \in Calls, NEW t \in {"ok", "failed", "end", "error"},
         NEW s \in {"loop", "closing", "done"},
         SendCore(Message(t, i, 0)), task' = [task EXCEPT ![i] = s],
         task[i] \notin {"none", "closing", "done"}, s # "done" => Feeds(i),
         t \in {"ok", "failed"} => task[i] \in {"queued", "busy"},
         t = "end" /\ kind[i] = "source" => sent[i] = Frames /\ s = "closing",
         registry' \subseteq Calls,
         UNCHANGED <<kind, ends, toAgent, core, credit, sent>>
  PROVE  IInv'
<1> USE DEF IInv
<1>a. /\ kind' = kind /\ coreUp' = coreUp /\ agentUp' = agentUp /\ cause' = cause
      /\ toAgent' = toAgent /\ core' = core
      /\ credit' = credit /\ sent' = sent
  BY DEF ends
<1>b. /\ call' = call /\ future' = future /\ streams' = streams /\ deadCalls' = deadCalls
      /\ deadStreams' = deadStreams /\ closed' = closed /\ queue' = queue
      /\ granted' = granted /\ got' = got /\ gap' = gap
  BY <1>a, CoreStateSame
<1>c. \A j \in Calls : task'[j] = IF j = i THEN s ELSE task[j]
  BY DEF Typed
<1>2. Blamed' /\ Fresh'
  BY <1>a, <1>b, <1>c DEF Blamed, Fresh
<1>3. PastKept /\ FinalKept /\ i \in Past'
  BY <1>a, <1>c DEF PastKept, Past, FinalKept
<1>4. AnswersDue'
  <2>1. \A j \in Calls : coreUp /\ task'[j] \in {"queued", "busy"} => j \in Expected
    BY <1>c DEF Responded, AnswersDue
  <2> QED BY <1>a, <1>3, <2>1, AnswersDueNode
<1>5. /\ toCore' \in Seq(CoreMessages) /\ Responded' /\ Flowing' /\ Unbroken' /\ EndsLast'
      /\ Remembered' /\ Streaming'
  <2>1. t \in {"ok", "failed"} => i \notin Past /\ (coreUp => i \in Expected)
    BY DEF Past, Responded, AnswersDue
  <2>2. t = "end" /\ kind[i] = "source" => sent[i] = Frames /\ task'[i] \in {"closing", "done"}
    BY <1>c
  <2> QED BY <1>a, <1>3, <1>4, <2>1, <2>2, NodeSends
<1>1. Typed'
  BY <1>a, <1>b, <1>5 DEF Typed
<1>6. Requested' /\ CreditUnderWay'
  <2>1. toAgent' \in Seq(AgentMessages) /\ Suffix(toAgent', toAgent)
    BY <1>a, SuffixSame DEF Typed
  <2> QED BY <1>a, <1>c, <1>3, <2>1, NodeReads
<1>7. \A j \in Calls : Streamed(j)'
  BY <1>a, <1>b, <1>c, StreamedKept
<1> QED BY <1>1, <1>2, <1>4, <1>5, <1>6, <1>7

\* Respond: the operation is done and answered, the pushing task starts.
LEMMA RespondStep ==
  ASSUME IInv, NEW i \in Calls, Respond(i) PROVE IInv'
<1> DEFINE s == IF kind[i] \in {"push", "source"} THEN "loop" ELSE "done"
<1>1. /\ SendCore(Message("ok", i, 0)) /\ task' = [task EXCEPT ![i] = s] /\ task[i] = "busy"
      /\ UNCHANGED <<kind, ends, toAgent, core, credit, sent>>
  BY DEF Respond
<1>2. registry' \subseteq Calls
  BY DEF Respond, IInv, Typed
<1>3. s \in {"loop", "closing", "done"} /\ (s # "done" => Feeds(i))
  BY DEF Feeds
<1> HIDE DEF s
<1> QED BY <1>1, <1>2, <1>3, TaskSends

\* Refuse: the admission budget expired, or the operation raised.
LEMMA RefuseStep ==
  ASSUME IInv, NEW i \in Calls, Refuse(i) PROVE IInv'
<1>1. registry' \subseteq Calls
  BY DEF Refuse, IInv, Typed
<1> QED BY <1>1, TaskSends DEF Refuse

\* PushEnds: all frames are sent, or reading the next one failed.
LEMMA PushEndsStep ==
  ASSUME IInv, NEW i \in Calls, PushEnds(i) PROVE IInv'
<1>1. /\ task[i] \in {"loop", "sending"} /\ task' = [task EXCEPT ![i] = "closing"]
      /\ UNCHANGED <<kind, ends, toAgent, core, credit, sent>>
      /\ registry' = registry
  BY DEF PushEnds
<1>2. Feeds(i) /\ registry' \subseteq Calls
  BY <1>1 DEF IInv, Streamed, Pushing, Typed
<1>3. CASE sent[i] = Frames /\ SendCore(Message("end", i, 0))
  BY <1>1, <1>2, <1>3, TaskSends
<1>4. CASE SendCore(Message("error", i, 0))
  BY <1>1, <1>2, <1>4, TaskSends
<1> QED BY <1>3, <1>4 DEF PushEnds

\* Claim: the pushing task claims a frame, a source uses credit up.
LEMMA ClaimStep ==
  ASSUME IInv, NEW i \in Calls, Claim(i) PROVE IInv'
<1> USE DEF IInv
<1>a. /\ task[i] = "loop" /\ sent[i] < Frames /\ (kind[i] = "source" => credit[i] > 0)
      /\ task' = [task EXCEPT ![i] = "sending"]
      /\ credit' = IF kind[i] = "source" THEN [credit EXCEPT ![i] = @ - 1] ELSE credit
      /\ kind' = kind /\ coreUp' = coreUp /\ agentUp' = agentUp /\ cause' = cause
      /\ toAgent' = toAgent /\ toCore' = toCore /\ core' = core /\ registry' = registry
      /\ sent' = sent
  BY DEF Claim, ends
<1>b. /\ call' = call /\ future' = future /\ streams' = streams /\ deadCalls' = deadCalls
      /\ deadStreams' = deadStreams /\ closed' = closed /\ queue' = queue
      /\ granted' = granted /\ got' = got /\ gap' = gap
  BY <1>a, CoreStateSame
<1>c. /\ \A j \in Calls : task'[j] = IF j = i THEN "sending" ELSE task[j]
      /\ \A j \in Calls : j # i => credit'[j] = credit[j]
      /\ kind[i] = "source" => credit'[i] = credit[i] - 1
  BY <1>a DEF Typed
<1>t. /\ Window \in Nat /\ credit[i] \in 0 .. Window /\ credit[i] \in Nat
      /\ sent[i] \in Nat /\ granted[i] \in Nat
  BY BoundsAssumption DEF Typed
<1>1. Typed'
  <2>1. credit' \in [Calls -> 0 .. Window]
    <3>1. kind[i] = "source" => credit[i] - 1 \in 0 .. Window
      BY <1>a, <1>t
    <3> QED BY <1>a, <3>1 DEF Typed
  <2>2. task' \in [Calls -> {"none", "queued", "busy", "loop", "sending", "closing", "done"}]
    BY <1>a DEF Typed
  <2> QED BY <1>a, <1>b, <2>1, <2>2 DEF Typed
<1>2. Blamed' /\ Fresh'
  BY <1>a, <1>b, <1>c DEF Blamed, Fresh
<1>3. PastKept /\ FinalKept
  BY <1>a, <1>c DEF PastKept, Past, FinalKept
<1>4. AnswersDue'
  <2>1. \A j \in Calls : coreUp /\ task'[j] \in {"queued", "busy"} => j \in Expected
    BY <1>c DEF Responded, AnswersDue
  <2> QED BY <1>a, <1>3, <2>1, AnswersDueNode
<1>5. Responded' /\ Flowing' /\ Unbroken' /\ EndsLast' /\ Remembered' /\ Streaming'
  BY <1>a, <1>3, <1>4, NodeQuiet
<1>6. Requested' /\ CreditUnderWay'
  <2>1. toAgent' \in Seq(AgentMessages) /\ Suffix(toAgent', toAgent)
    BY <1>a, SuffixSame DEF Typed
  <2>2. \A j \in Calls : kind[j] = "source" /\ credit[j] = 0 => j # i
    BY <1>a
  <2> QED BY <1>a, <1>c, <1>3, <2>1, <2>2, NodeReads
<1>7. \A j \in Calls : j # i => Streamed(j)'
  BY <1>a, <1>b, <1>c, StreamedKept
<1>8. Streamed(i)'
  <2>1. Queued(i) /\ Delivered(i) /\ Pushing(i) /\ Counted(i) /\ InOrder(i)
    BY DEF Streamed
  <2>2. Queued(i)' /\ Delivered(i)' /\ InOrder(i)'
    BY <1>a, <1>b, <2>1 DEF Queued, Delivered, InOrder, AtQueue, Feeds
  <2>3. Pushing(i)'
    BY <1>a, <2>1 DEF Pushing, Feeds
  <2>4. Counted(i)'
    <3> SUFFICES ASSUME kind[i] = "source"
                 PROVE  /\ granted[i] <= got[i] + Window
                        /\ sent[i] + credit'[i] + Sending(i)' <= granted[i]
                        /\ Len(queue[i]) <= Window + 1
      BY <1>a, <1>b DEF Counted
    <3>1. Sending(i) = 0 /\ Sending(i)' = 1
      BY <1>a, <1>c DEF Sending
    <3>2. sent[i] + credit[i] + 0 <= granted[i]
      BY <2>1, <3>1 DEF Counted
    <3>3. sent[i] + (credit[i] - 1) + 1 <= granted[i]
      BY <1>t, <3>2
    <3> QED BY <1>c, <2>1, <3>1, <3>3 DEF Counted
  <2> QED BY <2>2, <2>3, <2>4 DEF Streamed
<1> QED BY <1>1, <1>2, <1>4, <1>5, <1>6, <1>7, <1>8

\* Push: the frame that was claimed is sent.
LEMMA PushStep ==
  ASSUME IInv, NEW i \in Calls, Push(i) PROVE IInv'
<1> USE DEF IInv
<1>a. /\ task[i] = "sending" /\ task' = [task EXCEPT ![i] = "loop"]
      /\ sent' = [sent EXCEPT ![i] = @ + 1] /\ SendCore(Message("data", i, sent'[i]))
      /\ kind' = kind /\ coreUp' = coreUp /\ agentUp' = agentUp /\ cause' = cause
      /\ toAgent' = toAgent /\ core' = core /\ registry' = registry
      /\ credit' = credit
  BY DEF Push, ends
<1>b. /\ call' = call /\ future' = future /\ streams' = streams /\ deadCalls' = deadCalls
      /\ deadStreams' = deadStreams /\ closed' = closed /\ queue' = queue
      /\ granted' = granted /\ got' = got /\ gap' = gap
      /\ Remembered' /\ Streaming' /\ Expected' = Expected /\ DeliveryKept
  BY <1>a, CoreStateSame
<1>s. Queued(i) /\ Delivered(i) /\ Pushing(i) /\ Counted(i) /\ InOrder(i)
  BY DEF Streamed
<1>f. Feeds(i) /\ sent[i] < Frames
  BY <1>a, <1>s DEF Pushing
<1>c. /\ \A j \in Calls : task'[j] = IF j = i THEN "loop" ELSE task[j]
      /\ \A j \in Calls : j # i => sent'[j] = sent[j]
      /\ sent'[i] = sent[i] + 1
  BY <1>a DEF Typed
<1>t. /\ Frames \in Nat /\ Window \in Nat /\ credit[i] \in Nat /\ got[i] \in Nat
      /\ sent[i] \in Nat /\ granted[i] \in Nat /\ \A j \in Calls : sent[j] \in Nat
  BY BoundsAssumption DEF Typed
<1>g. sent' \in [Calls -> 0 .. Frames] /\ \A j \in Calls : sent'[j] \in Nat /\ sent[j] <= sent'[j]
  <2>1. sent[i] + 1 \in 0 .. Frames
    BY <1>f, <1>t
  <2>2. sent' \in [Calls -> 0 .. Frames]
    BY <1>a, <2>1 DEF Typed
  <2> QED BY <1>c, <1>t, <2>2
<1> DEFINE m == Message("data", i, sent'[i])
<1>m. m \in CoreMessages /\ m.type = "data" /\ m.id = i /\ m.n = sent[i] + 1 /\ m.n = sent'[i]
  <2>1. sent'[i] \in Nat
    BY <1>g
  <2> QED BY <1>c, <2>1, MessageTypes
<1>n. /\ toCore' \in Seq(CoreMessages)
      /\ \/ coreUp /\ Extended(toCore', toCore, m)
         \/ ~coreUp /\ toCore' = toCore
  BY <1>a, <1>m, CoreSent
<1> HIDE DEF m
<1>1. Typed'
  <2>1. task' \in [Calls -> {"none", "queued", "busy", "loop", "sending", "closing", "done"}]
    BY <1>a DEF Typed
  <2> QED BY <1>a, <1>b, <1>g, <1>n, <2>1 DEF Typed
<1>2. Blamed' /\ Fresh'
  BY <1>a, <1>b, <1>c DEF Blamed, Fresh
<1>3. PastKept /\ FinalKept
  BY <1>a, <1>c DEF PastKept, Past, FinalKept
<1>4. AnswersDue'
  <2>1. \A j \in Calls : coreUp /\ task'[j] \in {"queued", "busy"} => j \in Expected
    BY <1>c DEF Responded, AnswersDue
  <2> QED BY <1>a, <1>3, <2>1, AnswersDueNode
<1>5. Responded' /\ Flowing' /\ EndsLast'
  <2>1. CASE ~coreUp /\ toCore' = toCore
    <3>1. Suffix(toCore', toCore)
      BY <2>1, SuffixSame DEF Typed
    <3>2. Responded'
      BY <1>3, <1>4, <1>b, <1>n, <3>1, RespondedKept
    <3>3. Flowing'
      BY <1>a, <1>b, <1>g, <1>n, <3>1, FlowingKept
    <3>4. EndsLast'
      BY <1>a, <1>3, <1>n, <3>1, EndsLastKept
    <3> QED BY <3>2, <3>3, <3>4
  <2>2. CASE coreUp /\ Extended(toCore', toCore, m)
    <3>1. Responded'
      BY <1>3, <1>4, <1>b, <1>m, <1>n, <2>2, RespondedExtended
    <3>2. i \in streams => got[i] + Len(queue[i]) <= sent[i]
      BY <1>f, <1>s DEF Delivered
    <3>3. Flowing'
      BY <1>a, <1>b, <1>f, <1>g, <1>m, <1>n, <2>2, <3>2, FlowingExtended
    <3>4. EndsLast'
      BY <1>a, <1>3, <1>m, <1>n, <2>2, EndsLastExtended
    <3> QED BY <3>1, <3>3, <3>4
  <2> QED BY <1>n, <2>1, <2>2
<1>6. Unbroken'
  <2> SUFFICES ASSUME NEW j \in streams, kind[j] = "source", NEW n \in 1 .. sent'[j],
                      n > got[j] + Len(queue[j])
               PROVE  UnderWay(j, n)'
    BY <1>a, <1>b DEF Unbroken
  <2>1. j \in Calls /\ coreUp /\ Extended(toCore', toCore, m)
    BY <1>n DEF Streaming, Typed
  <2>2. CASE n \in 1 .. sent[j]
    <3>1. UnderWay(j, n)
      BY <2>2 DEF Unbroken
    <3> QED BY <2>1, <3>1, UnderWayExtended
  <2>3. CASE n \notin 1 .. sent[j]
    <3>1. j = i /\ n = sent[i] + 1
      BY <1>c, <1>t, <2>1, <2>3
    <3>2. /\ Len(toCore) \in Nat /\ Len(toCore') = Len(toCore) + 1
          /\ toCore'[Len(toCore) + 1] = m
      BY <2>1 DEF Extended, Typed
    <3>3. Len(toCore) + 1 \in 1 .. Len(toCore')
      BY <3>2
    <3> QED BY <1>m, <3>1, <3>2, <3>3 DEF UnderWay, AtCore
  <2> QED BY <2>2, <2>3
<1>7. Requested' /\ CreditUnderWay'
  <2>1. toAgent' \in Seq(AgentMessages) /\ Suffix(toAgent', toAgent)
    BY <1>a, SuffixSame DEF Typed
  <2>2. \A j \in Calls : task[j] # "sending" => j # i
    BY <1>a
  <2> QED BY <1>a, <1>c, <1>3, <2>1, <2>2, NodeReads
<1>8. \A j \in Calls : j # i => Streamed(j)'
  BY <1>a, <1>b, <1>c, StreamedKept
<1>9. Streamed(i)'
  <2>1. Queued(i)'
    <3> SUFFICES ASSUME NEW k \in AtQueue(i)
                 PROVE  /\ queue[i][k].k = "data" =>
                             Feeds(i) /\ queue[i][k].n \in (got[i] + k) .. (sent[i] + 1)
                        /\ queue[i][k].k # "data" => k = Len(queue[i])
      BY <1>a, <1>b, <1>c DEF Queued, AtQueue, Feeds
    <3>1. /\ queue[i][k].k = "data" =>
               Feeds(i) /\ queue[i][k].n \in (got[i] + k) .. sent[i]
          /\ queue[i][k].k # "data" => k = Len(queue[i])
      BY <1>s DEF Queued
    <3>2. \A x : x \in (got[i] + k) .. sent[i] => x \in (got[i] + k) .. (sent[i] + 1)
      BY <1>t
    <3> QED BY <3>1, <3>2
  <2>2. Delivered(i)'
    <3>1. Len(queue[i]) \in Nat
      BY DEF Typed
    <3>2. \A a, b, c \in Nat : /\ a <= b => a <= b + 1
                               /\ a + c <= b => a + c <= b + 1
      OBVIOUS
    <3> QED BY <1>a, <1>b, <1>c, <1>s, <1>t, <3>1, <3>2 DEF Delivered, Feeds
  <2>3. Pushing(i)'
    BY <1>a, <1>c, <1>f DEF Pushing, Feeds
  <2>4. Counted(i)'
    <3> SUFFICES ASSUME kind[i] = "source"
                 PROVE  /\ granted[i] <= got[i] + Window
                        /\ sent'[i] + credit[i] + Sending(i)' <= granted[i]
                        /\ Len(queue[i]) <= Window + 1
      BY <1>a, <1>b DEF Counted
    <3>1. Sending(i) = 1 /\ Sending(i)' = 0
      BY <1>a, <1>c DEF Sending
    <3>2. sent[i] + credit[i] + 1 <= granted[i]
      BY <1>s, <3>1 DEF Counted
    <3>3. (sent[i] + 1) + credit[i] + 0 <= granted[i]
      BY <1>t, <3>2
    <3> QED BY <1>c, <1>s, <3>1, <3>3 DEF Counted
  <2>5. InOrder(i)'
    BY <1>a, <1>b, <1>s DEF InOrder, AtQueue
  <2> QED BY <2>1, <2>2, <2>3, <2>4, <2>5 DEF Streamed
<1> QED BY <1>1, <1>2, <1>4, <1>5, <1>6, <1>7, <1>8, <1>9, <1>b

\* The Node's receive loop reads a message, and perhaps forgets a stream.
LEMMA AgentReads ==
  ASSUME IInv, toAgent # <<>>, toAgent' = Tail(toAgent), registry' \subseteq Calls,
         UNCHANGED <<kind, ends, toCore, core, task, credit, sent>>
  PROVE  IInv'
<1> USE DEF IInv
<1>a. /\ kind' = kind /\ coreUp' = coreUp /\ agentUp' = agentUp /\ cause' = cause
      /\ toCore' = toCore /\ core' = core /\ credit' = credit /\ sent' = sent /\ task' = task
  BY DEF ends
<1>b. /\ call' = call /\ future' = future /\ streams' = streams /\ deadCalls' = deadCalls
      /\ deadStreams' = deadStreams /\ closed' = closed /\ queue' = queue
      /\ granted' = granted /\ got' = got /\ gap' = gap /\ Expected' = Expected
  BY <1>a, CoreStateSame
<1>c. toAgent' \in Seq(AgentMessages) /\ Suffix(toAgent', toAgent)
  BY TailPlaces, SuffixTail DEF Typed
<1>1. Typed'
  BY <1>a, <1>b, <1>c DEF Typed
<1>2. Blamed' /\ Fresh'
  BY <1>a, <1>b DEF Blamed, Fresh
<1>3. PastKept /\ FinalKept
  BY <1>a DEF PastKept, Past, FinalKept
<1>4. AnswersDue'
  BY <1>a, <1>3, AnswersDueNode DEF Responded, AnswersDue
<1>5. Responded' /\ Flowing' /\ Unbroken' /\ EndsLast' /\ Remembered' /\ Streaming'
  BY <1>a, <1>3, <1>4, NodeQuiet
<1>6. Requested' /\ CreditUnderWay'
  BY <1>a, <1>3, <1>c, NodeReads
<1>7. \A j \in Calls : Streamed(j)'
  BY <1>a, <1>b, StreamedKept
<1> QED BY <1>1, <1>2, <1>4, <1>5, <1>6, <1>7

\* AgentUnknown: a frame for a stream that is not registered.
LEMMA AgentUnknownStep ==
  ASSUME IInv, AgentUnknown PROVE IInv'
BY AgentClosesStep DEF AgentUnknown

\* AgentData: the frame is written, or writing it raises.
LEMMA AgentDataStep ==
  ASSUME IInv, AgentData PROVE IInv'
<1>1. CASE toAgent' = Tail(toAgent) /\ UNCHANGED <<kind, ends, toCore, core, agent, sent>>
  <2>1. toAgent # <<>>
    BY DEF AgentData, Outgoing
  <2>2. /\ registry' \subseteq Calls
        /\ UNCHANGED <<kind, ends, toCore, core, task, credit, sent>>
    BY <1>1 DEF agent, IInv, Typed
  <2> QED BY <1>1, <2>1, <2>2, AgentReads
<1>2. CASE AgentCloses("agent_feed")
  BY <1>2, AgentClosesStep
<1> QED BY <1>1, <1>2 DEF AgentData

\* AgentAbort: a stream is closed without an answer.
LEMMA AgentAbortStep ==
  ASSUME IInv, AgentAbort PROVE IInv'
<1>1. /\ toAgent # <<>> /\ toAgent' = Tail(toAgent) /\ registry' \subseteq Calls
      /\ UNCHANGED <<kind, ends, toCore, core, task, credit, sent>>
  BY DEF AgentAbort, Outgoing, IInv, Typed
<1> QED BY <1>1, AgentReads

\* The message that the Node reads and what is left.
LEMMA ReadRequest ==
  ASSUME Typed, toAgent # <<>>
  PROVE  /\ Head(toAgent) = toAgent[1] /\ 1 \in AtAgent /\ Head(toAgent).id \in Calls
         /\ Tail(toAgent) \in Seq(AgentMessages) /\ Suffix(Tail(toAgent), toAgent)
         /\ \A k \in 1 .. Len(Tail(toAgent)) :
              k + 1 \in AtAgent /\ k + 1 # 1 /\ Tail(toAgent)[k] = toAgent[k + 1]
<1>1. toAgent \in Seq(AgentMessages)
  BY DEF Typed
<1>2. /\ Head(toAgent) = toAgent[1] /\ Head(toAgent) \in AgentMessages
      /\ Tail(toAgent) \in Seq(AgentMessages) /\ Len(toAgent) \in Nat /\ Len(toAgent) >= 1
      /\ \A k \in 1 .. Len(Tail(toAgent)) :
           k + 1 \in 1 .. Len(toAgent) /\ Tail(toAgent)[k] = toAgent[k + 1]
  BY <1>1, TailPlaces
<1>3. \A k \in 1 .. Len(Tail(toAgent)) : k + 1 # 1
  BY <1>2
<1>4. 1 \in 1 .. Len(toAgent)
  BY <1>2
<1> QED BY <1>1, <1>2, <1>3, <1>4, SuffixTail, MessageFields DEF AtAgent

\* AgentCredit: the credit is accepted, for the Node has used up what it had.
LEMMA AgentCreditStep ==
  ASSUME IInv, AgentCredit PROVE IInv'
<1> USE DEF IInv
<1>0. toAgent # <<>> /\ Head(toAgent).type = "credit"
  BY DEF AgentCredit, Outgoing
<1>1. \E j \in Calls : j = Head(toAgent).id
  BY <1>0, ReadRequest
<1>2. PICK i \in Calls : i = Head(toAgent).id
  BY <1>1
<1> DEFINE n == Head(toAgent).n
           t == Tail(toAgent)
<1>h. /\ toAgent[1].type = "credit" /\ toAgent[1].id = i /\ toAgent[1].n = n /\ 1 \in AtAgent
      /\ t \in Seq(AgentMessages) /\ Suffix(t, toAgent)
      /\ \A k \in 1 .. Len(t) : k + 1 \in AtAgent /\ k + 1 # 1 /\ t[k] = toAgent[k + 1]
  BY <1>0, <1>2, ReadRequest
<1>f. /\ kind[i] = "source" /\ n \in 1 .. Window /\ credit[i] = 0 /\ task[i] # "sending"
      /\ granted[i] = sent[i] + n
  BY <1>h DEF CreditUnderWay
<1>a. /\ toAgent' = t /\ credit' = [credit EXCEPT ![i] = n]
      /\ kind' = kind /\ coreUp' = coreUp /\ agentUp' = agentUp /\ cause' = cause
      /\ toCore' = toCore /\ core' = core /\ sent' = sent /\ task' = task
      /\ registry' = registry
  BY <1>2, <1>f DEF AgentCredit, ends
<1> HIDE DEF n, t
<1>b. /\ call' = call /\ future' = future /\ streams' = streams /\ deadCalls' = deadCalls
      /\ deadStreams' = deadStreams /\ closed' = closed /\ queue' = queue
      /\ granted' = granted /\ got' = got /\ gap' = gap /\ Expected' = Expected /\ MadeKept
  BY <1>a, CoreStateSame
<1>t. Window \in Nat /\ sent[i] \in Nat /\ n \in Nat /\ n \in 0 .. Window
  BY <1>f, BoundsAssumption DEF Typed
<1>c. /\ \A j \in Calls : j # i => credit'[j] = credit[j]
      /\ credit'[i] = n /\ credit' \in [Calls -> 0 .. Window]
  BY <1>a, <1>t DEF Typed
<1>3. Typed'
  BY <1>a, <1>b, <1>c, <1>h DEF Typed
<1>4. Blamed' /\ Fresh'
  BY <1>a, <1>b DEF Blamed, Fresh
<1>5. PastKept /\ FinalKept
  BY <1>a DEF PastKept, Past, FinalKept
<1>6. AnswersDue'
  BY <1>a, <1>5, AnswersDueNode DEF Responded, AnswersDue
<1>7. Responded' /\ Flowing' /\ Unbroken' /\ EndsLast' /\ Remembered' /\ Streaming'
  BY <1>a, <1>5, <1>6, NodeQuiet
<1>8. \A k \in 1 .. Len(t) : t[k].id \in Calls
  BY <1>h, MessageFields
<1>9. Requested'
  <2>1. \A k \in 1 .. Len(t) : t[k].type = "request" => task[t[k].id] = "none"
    BY <1>h DEF Requested
  <2> QED BY <1>a, <1>b, <1>h, <1>5, <2>1, RequestedKept
<1>10. CreditUnderWay'
  <2>1. \A k \in 1 .. Len(t) : t[k].type = "credit" => t[k].id # i
    BY <1>h DEF CreditUnderWay
  <2> QED BY <1>a, <1>b, <1>c, <1>h, <1>8, <2>1, CreditKept
<1>11. \A j \in Calls : j # i => Streamed(j)'
  BY <1>a, <1>b, <1>c, StreamedKept
<1>12. Streamed(i)'
  <2>1. Queued(i) /\ Delivered(i) /\ Pushing(i) /\ Counted(i) /\ InOrder(i)
    BY DEF Streamed
  <2>2. Queued(i)' /\ Delivered(i)' /\ InOrder(i)' /\ Pushing(i)'
    BY <1>a, <1>b, <2>1 DEF Queued, Delivered, InOrder, Pushing, AtQueue, Feeds
  <2>3. Counted(i)'
    <3>1. Sending(i)' = 0
      BY <1>a, <1>f DEF Sending
    <3>2. sent[i] + n + 0 <= granted[i]
      BY <1>f, <1>t
    <3> QED BY <1>a, <1>b, <1>c, <2>1, <3>1, <3>2 DEF Counted
  <2> QED BY <2>2, <2>3 DEF Streamed
<1> QED BY <1>3, <1>4, <1>6, <1>7, <1>9, <1>10, <1>11, <1>12

\* AgentClose: an upload is published and acknowledged, or its error is.
LEMMA AgentCloseStep ==
  ASSUME IInv, AgentClose PROVE IInv'
<1> USE DEF IInv
<1>0. toAgent # <<>> /\ Head(toAgent).type = "close"
  BY DEF AgentClose, Outgoing
<1>1. \E j \in Calls : j = Head(toAgent).id
  BY <1>0, ReadRequest
<1>2. PICK i \in Calls : i = Head(toAgent).id
  BY <1>1
<1>3. PICK t \in {"end", "error"} : SendCore(Message(t, i, 0))
  BY <1>2 DEF AgentClose
<1>a. /\ toAgent' = Tail(toAgent) /\ registry' \subseteq Calls
      /\ kind' = kind /\ coreUp' = coreUp /\ agentUp' = agentUp /\ cause' = cause
      /\ core' = core /\ sent' = sent /\ task' = task /\ credit' = credit
  BY DEF AgentClose, ends, Typed
<1>b. /\ call' = call /\ future' = future /\ streams' = streams /\ deadCalls' = deadCalls
      /\ deadStreams' = deadStreams /\ closed' = closed /\ queue' = queue
      /\ granted' = granted /\ got' = got /\ gap' = gap
  BY <1>a, CoreStateSame
<1>c. toAgent' \in Seq(AgentMessages) /\ Suffix(toAgent', toAgent)
  BY <1>0, <1>a, ReadRequest
<1>f. kind[i] = "upload"
  BY <1>0, <1>2, ReadRequest DEF Requested
<1>4. PastKept /\ FinalKept
  BY <1>a DEF PastKept, Past, FinalKept
<1>5. AnswersDue'
  BY <1>a, <1>4, AnswersDueNode DEF Responded, AnswersDue
<1>6. /\ toCore' \in Seq(CoreMessages) /\ Responded' /\ Flowing' /\ Unbroken' /\ EndsLast'
      /\ Remembered' /\ Streaming'
  BY <1>3, <1>4, <1>5, <1>a, <1>f, NodeSends
<1>7. Typed'
  BY <1>a, <1>b, <1>c, <1>6 DEF Typed
<1>8. Blamed' /\ Fresh'
  BY <1>a, <1>b DEF Blamed, Fresh
<1>9. Requested' /\ CreditUnderWay'
  BY <1>a, <1>4, <1>c, NodeReads
<1>10. \A j \in Calls : Streamed(j)'
  BY <1>a, <1>b, StreamedKept
<1> QED BY <1>5, <1>6, <1>7, <1>8, <1>9, <1>10

-----------------------------------------------------------------------------
(* The theorems *)

\* The invariant holds on a connection that was just made.
LEMMA InitIInv ==
  Init => IInv
<1> SUFFICES ASSUME Init PROVE IInv
  OBVIOUS
<1>1. /\ Len(toAgent) = 0 /\ Len(toCore) = 0 /\ Len(deadCalls) = 0
      /\ AtAgent = {} /\ AtCore = {} /\ \A i \in Calls : AtQueue(i) = {} /\ Len(queue[i]) = 0
  BY DEF Init, AtAgent, AtCore, AtQueue
<1>2. Frames \in Nat /\ Window \in Nat /\ Depth \in Nat /\ kind \in [Calls -> CallKinds]
  BY BoundsAssumption, KindsAssumption DEF Init
<1>3. Typed
  <2>1. /\ toAgent \in Seq(AgentMessages) /\ toCore \in Seq(CoreMessages)
        /\ deadCalls \in Seq(Calls) /\ deadStreams \in Seq(Calls)
        /\ queue \in [Calls -> Seq(Items)]
    BY DEF Init
  <2>2. /\ granted \in [Calls -> 0 .. Frames] /\ got \in [Calls -> Nat]
        /\ sent \in [Calls -> 0 .. Frames] /\ credit \in [Calls -> 0 .. Window]
    BY <1>2 DEF Init
  <2> QED BY <1>2, <2>1, <2>2 DEF Init, Typed
<1>4. Blamed /\ Fresh
  BY DEF Init, Blamed, Causes, Fresh
<1>5. Requested /\ CreditUnderWay
  BY <1>1 DEF Requested, CreditUnderWay
<1>6. Responded
  <2>1. AnswersDue
    BY DEF Init, AnswersDue
  <2> QED BY <1>1, <2>1 DEF Responded
<1>7. Remembered /\ Streaming /\ Unbroken
  BY <1>1 DEF Init, Remembered, Streaming, Unbroken
<1>8. Flowing /\ EndsLast
  BY <1>1 DEF Flowing, EndsLast
<1>9. ASSUME NEW i \in Calls PROVE Streamed(i)
  <2>1. /\ got[i] = 0 /\ sent[i] = 0 /\ granted[i] = 0 /\ credit[i] = 0 /\ ~gap[i]
        /\ task[i] = "none" /\ call[i] = "idle" /\ streams = {}
    BY DEF Init
  <2>2. Queued(i) /\ Pushing(i) /\ InOrder(i)
    BY <1>1, <2>1 DEF Queued, Pushing, InOrder
  <2>3. Delivered(i)
    BY <1>1, <1>2, <2>1 DEF Delivered
  <2>4. Sending(i) = 0
    BY <2>1 DEF Sending
  <2>5. Counted(i)
    BY <1>1, <1>2, <2>1, <2>4 DEF Counted
  <2> QED BY <2>2, <2>3, <2>5 DEF Streamed
<1> QED BY <1>3, <1>4, <1>5, <1>6, <1>7, <1>8, <1>9 DEF IInv

\* A step that changes nothing keeps the invariant.
LEMMA Stutter ==
  ASSUME IInv, UNCHANGED vars PROVE IInv'
<1> USE DEF IInv
<1>a. /\ kind' = kind /\ coreUp' = coreUp /\ agentUp' = agentUp /\ cause' = cause
      /\ toAgent' = toAgent /\ toCore' = toCore /\ core' = core /\ credit' = credit
      /\ sent' = sent /\ task' = task /\ registry' = registry
  BY DEF vars, ends, agent
<1>b. /\ call' = call /\ future' = future /\ streams' = streams /\ deadCalls' = deadCalls
      /\ deadStreams' = deadStreams /\ closed' = closed /\ queue' = queue
      /\ granted' = granted /\ got' = got /\ gap' = gap
  BY <1>a, CoreStateSame
<1>1. Typed' /\ Blamed' /\ Fresh'
  BY <1>a, <1>b DEF Typed, Blamed, Fresh
<1>2. PastKept /\ FinalKept
  BY <1>a DEF PastKept, Past, FinalKept
<1>3. AnswersDue'
  BY <1>a, <1>2, AnswersDueNode DEF Responded, AnswersDue
<1>4. Responded' /\ Flowing' /\ Unbroken' /\ EndsLast' /\ Remembered' /\ Streaming'
  BY <1>a, <1>2, <1>3, NodeQuiet
<1>5. toAgent' \in Seq(AgentMessages) /\ Suffix(toAgent', toAgent)
  BY <1>a, SuffixSame DEF Typed
<1>6. Requested' /\ CreditUnderWay'
  BY <1>a, <1>2, <1>5, NodeReads
<1>7. \A j \in Calls : Streamed(j)'
  BY <1>a, <1>b, StreamedKept
<1> QED BY <1>1, <1>3, <1>4, <1>6, <1>7

\* Every step keeps the invariant.
LEMMA NextIInv ==
  IInv /\ [Next]_vars => IInv'
<1> SUFFICES ASSUME IInv, [Next]_vars PROVE IInv'
  OBVIOUS
<1>1. ASSUME NEW i \in Calls, Caller(i) PROVE IInv'
  BY <1>1, CallStep, CancelStep, GiveUpStep, AnsweredStep, GrantStep, ReceiveStep,
     SendDataStep, FinishStep, FinishedStep DEF Caller, CallSteps
<1>2. ASSUME NEW i \in Calls, TaskSteps(i) PROVE IInv'
  BY <1>2, AdmitStep, RespondStep, RefuseStep, ClaimStep, PushStep, PushEndsStep,
     PushClosesStep DEF TaskSteps
<1>3. ASSUME CoreLoop PROVE IInv'
  BY <1>3, CoreResponseStep, CoreDataStep, CoreEndStep DEF CoreLoop
<1>4. ASSUME AgentLoop PROVE IInv'
  BY <1>4, AgentRequestStep, AgentUnknownStep, AgentDataStep, AgentCreditStep,
     AgentCloseStep, AgentAbortStep DEF AgentLoop
<1>5. ASSUME CoreDisconnect \/ CoreLoses PROVE IInv'
  BY <1>5, CoreClosesStep DEF CoreDisconnect, CoreLoses
<1>6. ASSUME AgentDisconnect \/ AgentLoses PROVE IInv'
  BY <1>6, AgentClosesStep DEF AgentDisconnect, AgentLoses
<1>7. CASE UNCHANGED vars
  BY <1>7, Stutter
<1> QED BY <1>1, <1>2, <1>3, <1>4, <1>5, <1>6, <1>7 DEF Next

\* The inductive invariant of the link.
THEOREM Invariance == Spec => []IInv
BY InitIInv, NextIInv, PTL DEF Spec

\* Every variable keeps its type, and no queue grows past NODE_STREAM_QUEUE_DEPTH
\* (NodeStream.feed_data and _replace_queue_tail).
THEOREM TypeCorrect == Spec => []TypeOK
<1>1. IInv => TypeOK
  <2> SUFFICES ASSUME IInv PROVE TypeOK
    OBVIOUS
  <2>1. Typed /\ Blamed /\ \A i \in Calls : Delivered(i)
    BY DEF IInv, Streamed
  <2>2. got \in [Calls -> 0 .. Frames]
    <3>1. ASSUME NEW i \in Calls PROVE got[i] \in 0 .. Frames
      <4>1. got[i] \in Nat /\ sent[i] \in 0 .. Frames /\ Frames \in Nat
        BY <2>1, BoundsAssumption DEF Typed
      <4>2. got[i] = 0 \/ got[i] <= sent[i]
        BY <2>1 DEF Delivered
      <4> QED BY <4>1, <4>2
    <3> QED BY <2>1, <3>1 DEF Typed
  <2>3. \A i \in Calls : queue[i] \in Seq(Items) /\ Len(queue[i]) <= Depth
    BY <2>1 DEF Typed, Delivered
  <2> QED BY <2>1, <2>2, <2>3 DEF TypeOK, Typed, Blamed, AgentMessages, CoreMessages
<1> QED BY <1>1, Invariance, PTL

\* A late answer to a cancelled call never costs the connection, for every cancelled
\* call has a tombstone (_closed_requests), and the Node never gets a frame for a
\* stream before it has answered its request.
THEOREM CancelIsHarmless == Spec => []CancelHarmless
<1>1. IInv => CancelHarmless
  <2> SUFFICES ASSUME IInv PROVE CancelHarmless
    OBVIOUS
  <2>1. cause # "response_unknown"
    BY DEF IInv, Blamed
  <2>2. ASSUME NEW k \in DOMAIN toAgent, toAgent[k].type # "request"
        PROVE  task[toAgent[k].id] \notin {"none", "queued", "busy"}
    <3>1. k \in AtAgent
      BY DEF IInv, Typed, AtAgent
    <3> QED BY <2>2, <3>1 DEF IInv, Requested, Past
  <2> QED BY <2>1, <2>2 DEF CancelHarmless
<1> QED BY <1>1, Invariance, PTL

\* grant() never refuses the credit of a source, and its reader never has more than
\* a window of frames to read (_WorkspaceSourceReceiveWindow).
THEOREM CreditIsAgreed == Spec => []CreditAgreed
<1>1. IInv => CreditAgreed
  BY DEF IInv, Blamed, Streamed, Counted, CreditAgreed
<1> QED BY <1>1, Invariance, PTL

\* A source whose stream ended was received completely and in order, whatever the
\* other calls on the link do and whenever they are cancelled.
THEOREM SourceIsComplete == Spec => []SourceComplete
<1>1. IInv => SourceComplete
  BY DEF IInv, Streamed, InOrder, SourceComplete
<1> QED BY <1>1, Invariance, PTL

=============================================================================
