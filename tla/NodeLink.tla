------------------------------ MODULE NodeLink ------------------------------
(***************************************************************************)
(* One control connection between the Core (NodeConnection, NodeStream)    *)
(* and a Node (NodeAgent and its streams): requests, answers and byte      *)
(* streams multiplexed over two FIFO channels, callers that give up at any *)
(* point, a bounded queue per stream and a credit window for Sources.      *)
(*                                                                         *)
(* A call is one use of the link by the Core. Its kind says what follows   *)
(* the answer: nothing (plain), frames pushed by the Node without flow     *)
(* control (push: downloads, terminals), frames the Core grants credit for *)
(* (source), or frames pushed by the Core (upload).                        *)
(***************************************************************************)
EXTENDS Naturals, Sequences, FiniteSets

CONSTANTS
  Calls,      \* calls made on this connection
  Kinds,      \* the assignments of kinds to calls that are explored
  Frames,     \* frames of every stream
  Window,     \* NODE_REMOTE_RUN_SOURCE_STREAM_WINDOW
  Depth,      \* NODE_STREAM_QUEUE_DEPTH
  MaxTombs,   \* NODE_CLOSED_REQUEST_TOMBSTONES, NODE_CLOSED_STREAM_TOMBSTONES
  Slots,      \* NODE_MAX_CONCURRENT_REQUESTS
  Impatient   \* calls whose callers may give up

CallKinds == {"plain", "push", "source", "upload"}

ASSUME KindsAssumption == Kinds \subseteq [Calls -> CallKinds]
ASSUME BoundsAssumption ==
  /\ Frames \in Nat /\ Window \in Nat \ {0} /\ Depth \in Nat /\ Slots \in Nat \ {0}
  /\ Window < Depth
  /\ IsFiniteSet(Calls) /\ Impatient \subseteq Calls
  /\ MaxTombs \in Nat /\ Cardinality(Calls) <= MaxTombs

VARIABLES
  kind,              \* kind of every call
  coreUp, agentUp,   \* the two ends of the connection are open
  cause,             \* why the connection was closed first
  toAgent, toCore,   \* messages under way
  call,              \* the Core's caller
  future,            \* its entry in _pending, or how that future was resolved
  streams,           \* NodeConnection._streams
  deadCalls,         \* NodeConnection._closed_requests, oldest first
  deadStreams,       \* NodeConnection._closed_streams, oldest first
  closed,            \* NodeStream._closed
  queue,             \* NodeStream._queue
  granted,           \* source: frames granted so far
  got,               \* frames the caller received
  gap,               \* the caller received a frame out of order
  registry,          \* the Node's runtime.streams
  task,              \* the Node's task for the call
  sent,              \* frames sent by the end that pushes them
  credit             \* source: _WorkspaceSourceFlowControl._credits

core  == <<call, future, streams, deadCalls, deadStreams, closed, queue, granted,
           got, gap>>
agent == <<registry, task, credit>>
ends  == <<coreUp, agentUp, cause>>
vars  == <<kind, ends, toAgent, toCore, core, agent, sent>>

Causes == {"none", "network", "response_unknown", "stream_unknown", "overflow",
           "agent_stream_unknown", "agent_feed", "agent_credit"}
Items == [k: {"data"}, n: 1 .. Frames] \cup [k: {"end", "error"}, n: {0}]
Data(n) == [k |-> "data", n |-> n]
End   == [k |-> "end", n |-> 0]
Error == [k |-> "error", n |-> 0]
Message(t, i, n) == [type |-> t, id |-> i, n |-> n]

HasStream(i) == kind[i] # "plain"

Init ==
  /\ kind \in Kinds
  /\ coreUp = TRUE /\ agentUp = TRUE /\ cause = "none"
  /\ toAgent = <<>> /\ toCore = <<>>
  /\ call = [i \in Calls |-> "idle"]
  /\ future = [i \in Calls |-> "none"]
  /\ streams = {} /\ deadCalls = <<>> /\ deadStreams = <<>>
  /\ closed = [i \in Calls |-> FALSE]
  /\ queue = [i \in Calls |-> <<>>]
  /\ granted = [i \in Calls |-> 0]
  /\ got = [i \in Calls |-> 0]
  /\ gap = [i \in Calls |-> FALSE]
  /\ registry = {}
  /\ task = [i \in Calls |-> "none"]
  /\ sent = [i \in Calls |-> 0]
  /\ credit = [i \in Calls |-> 0]

-----------------------------------------------------------------------------
(* Helpers *)

\* A message to the Node is lost when its end is gone.
SendAgent(m) == toAgent' = IF agentUp THEN Append(toAgent, m) ELSE toAgent
SendCore(m)  == toCore' = IF coreUp THEN Append(toCore, m) ELSE toCore

\* A tombstone in a deque with a maximal length.
Bury(tombs, i) ==
  LET t == Append(tombs, i)
  IN IF Len(t) > MaxTombs THEN Tail(t) ELSE t
Buried(tombs, i) == \E k \in DOMAIN tombs : tombs[k] = i

\* drop_stream
DropStream(i) ==
  /\ streams' = streams \ {i}
  /\ deadStreams' = IF i \in streams THEN Bury(deadStreams, i) ELSE deadStreams

\* Mutant: room is made only in queues that are over full.
ReplaceQueueTailGrow(q, item) ==
  Append(IF Len(q) > Depth THEN Tail(q) ELSE q, item)

\* _replace_queue_tail: a full queue loses its oldest item.
ReplaceQueueTail(q, item) ==
  Append(IF Len(q) = Depth /\ q # <<>> THEN Tail(q) ELSE q, item)

\* NodeConnection.close: every future and every open stream learns of it.
CoreCloses(why) ==
  /\ coreUp' = FALSE
  /\ cause' = IF cause = "none" THEN why ELSE cause
  /\ future' = [i \in Calls |-> IF future[i] = "pending" THEN "error" ELSE future[i]]
  /\ queue' = [i \in Calls |-> IF i \in streams /\ ~closed[i]
                               THEN ReplaceQueueTail(queue[i], Error) ELSE queue[i]]
  /\ closed' = [i \in Calls |-> closed[i] \/ i \in streams]
  /\ streams' = {}
  /\ toCore' = <<>>
  /\ UNCHANGED <<kind, agentUp, toAgent, call, deadCalls, deadStreams, granted, got,
                 gap, agent, sent>>

\* run_once ends: tasks are cancelled and streams closed. What the Node has sent
\* is still on its way.
AgentCloses(why) ==
  /\ agentUp' = FALSE
  /\ cause' = IF cause = "none" THEN why ELSE cause
  /\ registry' = {}
  /\ task' = [i \in Calls |-> IF task[i] = "none" THEN "none" ELSE "done"]
  /\ toAgent' = <<>>
  /\ UNCHANGED <<kind, coreUp, toCore, core, credit, sent>>

-----------------------------------------------------------------------------
(* Callers on the Core *)

\* request, open_stream: the call is registered before its message is sent.
Call(i) ==
  /\ coreUp /\ call[i] = "idle"
  /\ call' = [call EXCEPT ![i] = "wait"]
  /\ future' = [future EXCEPT ![i] = "pending"]
  /\ streams' = IF HasStream(i) THEN streams \cup {i} ELSE streams
  /\ SendAgent(Message("request", i, 0))
  /\ UNCHANGED <<kind, ends, toCore, deadCalls, deadStreams, closed, queue, granted,
                 got, gap, agent, sent>>

\* The caller resumes with the answer; a refused stream is forgotten.
Answered(i) ==
  /\ call[i] = "wait" /\ future[i] \in {"ok", "error"}
  /\ future' = [future EXCEPT ![i] = "none"]
  /\ call' = [call EXCEPT ![i] = IF future[i] = "ok" /\ HasStream(i) THEN "open"
                                 ELSE "done"]
  /\ streams' = IF future[i] = "ok" THEN streams ELSE streams \ {i}
  /\ UNCHANGED <<kind, ends, toAgent, toCore, deadCalls, deadStreams, closed, queue,
                 granted, got, gap, agent, sent>>

\* Mutant: a cancelled request leaves no tombstone.
CancelForgotten(i) ==
  /\ i \in Impatient /\ call[i] = "wait"
  /\ call' = [call EXCEPT ![i] = "done"]
  /\ future' = [future EXCEPT ![i] = "none"]
  /\ streams' = streams \ {i}
  /\ UNCHANGED <<kind, ends, toAgent, toCore, deadCalls, deadStreams, closed, queue,
                 granted, got, gap, agent, sent>>

\* CancelledError while waiting: the request gets a tombstone, the stream that
\* was to be opened gets none.
Cancel(i) ==
  /\ i \in Impatient /\ call[i] = "wait"
  /\ call' = [call EXCEPT ![i] = "done"]
  /\ future' = [future EXCEPT ![i] = "none"]
  /\ deadCalls' = Bury(deadCalls, i)
  /\ streams' = streams \ {i}
  /\ UNCHANGED <<kind, ends, toAgent, toCore, deadStreams, closed, queue, granted,
                 got, gap, agent, sent>>

\* The reader of a source has used up its batch and must grant the next one.
MustGrant(i) == kind[i] = "source" /\ got[i] = granted[i] /\ granted[i] < Frames
Batch(i) == IF Frames - granted[i] < Window THEN Frames - granted[i] ELSE Window

\* Mutant: only full batches are granted.
GrantFull(i) ==
  /\ call[i] = "open" /\ MustGrant(i) /\ Batch(i) = Window
  /\ granted' = [granted EXCEPT ![i] = @ + Batch(i)]
  /\ IF closed[i] \/ ~coreUp THEN UNCHANGED toAgent
     ELSE SendAgent(Message("credit", i, Batch(i)))
  /\ UNCHANGED <<kind, ends, toCore, call, future, streams, deadCalls, deadStreams,
                 closed, queue, got, gap, agent, sent>>

\* Mutant: the next batch is granted one frame early.
GrantEarly(i) ==
  /\ call[i] = "open" /\ kind[i] = "source" /\ granted[i] < Frames
  /\ got[i] + 1 >= granted[i]
  /\ granted' = [granted EXCEPT ![i] = @ + Batch(i)]
  /\ IF closed[i] \/ ~coreUp THEN UNCHANGED toAgent
     ELSE SendAgent(Message("credit", i, Batch(i)))
  /\ UNCHANGED <<kind, ends, toCore, call, future, streams, deadCalls, deadStreams,
                 closed, queue, got, gap, agent, sent>>

\* _grant_next_batch
Grant(i) ==
  /\ call[i] = "open" /\ MustGrant(i)
  /\ granted' = [granted EXCEPT ![i] = @ + Batch(i)]
  /\ IF closed[i] \/ ~coreUp THEN UNCHANGED toAgent
     ELSE SendAgent(Message("credit", i, Batch(i)))
  /\ UNCHANGED <<kind, ends, toCore, call, future, streams, deadCalls, deadStreams,
                 closed, queue, got, gap, agent, sent>>

\* receive: a frame, the end or an error leaves the queue.
Receive(i) ==
  /\ call[i] = "open" /\ kind[i] \in {"push", "source"} /\ ~MustGrant(i)
  /\ queue[i] # <<>>
  /\ LET item == Head(queue[i])
     IN IF item.k = "data"
        THEN /\ got' = [got EXCEPT ![i] = @ + 1]
             /\ gap' = [gap EXCEPT ![i] = @ \/ item.n # got[i] + 1]
             /\ UNCHANGED call
        ELSE /\ call' = [call EXCEPT ![i] = IF item.k = "end" THEN "complete"
                                            ELSE "done"]
             /\ UNCHANGED <<got, gap>>
  /\ queue' = [queue EXCEPT ![i] = Tail(@)]
  /\ UNCHANGED <<kind, ends, toAgent, toCore, future, streams, deadCalls,
                 deadStreams, closed, granted, agent, sent>>

\* NodeStream.send
SendData(i) ==
  /\ call[i] = "open" /\ kind[i] = "upload" /\ ~closed[i] /\ coreUp
  /\ sent[i] < Frames
  /\ sent' = [sent EXCEPT ![i] = @ + 1]
  /\ SendAgent(Message("data", i, sent'[i]))
  /\ UNCHANGED <<kind, ends, toCore, core, agent>>

\* finish: the stream is closed towards the Node and its verdict awaited.
Finish(i) ==
  /\ call[i] = "open" /\ kind[i] = "upload" /\ ~closed[i] /\ coreUp
  /\ sent[i] = Frames
  /\ call' = [call EXCEPT ![i] = "finish"]
  /\ SendAgent(Message("close", i, 0))
  /\ UNCHANGED <<kind, ends, toCore, future, streams, deadCalls, deadStreams, closed,
                 queue, granted, got, gap, agent, sent>>

\* The verdict, or the error that a closed connection left.
Finished(i) ==
  /\ call[i] \in {"finish", "open"} /\ kind[i] = "upload" /\ queue[i] # <<>>
  /\ call' = [call EXCEPT ![i] = IF Head(queue[i]) = End THEN "complete" ELSE "done"]
  /\ queue' = [queue EXCEPT ![i] = Tail(@)]
  /\ UNCHANGED <<kind, ends, toAgent, toCore, future, streams, deadCalls,
                 deadStreams, closed, granted, got, gap, agent, sent>>

\* close, abort: the caller gives up, also when finish has timed out. For every
\* kind the Node closes the stream without an answer.
GiveUp(i) ==
  /\ i \in Impatient /\ call[i] \in {"open", "finish"}
  /\ call' = [call EXCEPT ![i] = "done"]
  /\ IF closed[i] THEN UNCHANGED <<closed, streams, deadStreams, toAgent>>
     ELSE /\ closed' = [closed EXCEPT ![i] = TRUE]
          /\ DropStream(i)
          /\ IF coreUp THEN SendAgent(Message("abort", i, 0)) ELSE UNCHANGED toAgent
  /\ UNCHANGED <<kind, ends, toCore, future, deadCalls, queue, granted, got, gap,
                 agent, sent>>

-----------------------------------------------------------------------------
(* The Core's receive loop: NodeConnection.dispatch *)

\* The next message from the Node has one of the types.
Incoming(types) == coreUp /\ toCore # <<>> /\ Head(toCore).type \in types

\* A message that names a stream nobody remembers costs the connection; one
\* for a buried stream is ignored.
UnknownStream(i) == i \notin streams /\ ~Buried(deadStreams, i)

CoreResponse ==
  /\ Incoming({"ok", "failed"})
  /\ LET i == Head(toCore).id
     IN IF future[i] = "pending"
        THEN /\ future' = [future EXCEPT
                  ![i] = IF Head(toCore).type = "ok" THEN "ok" ELSE "error"]
             /\ toCore' = Tail(toCore)
             /\ UNCHANGED <<kind, ends, toAgent, call, streams, deadCalls,
                            deadStreams, closed, queue, granted, got, gap, agent, sent>>
        ELSE IF Buried(deadCalls, i)
        THEN toCore' = Tail(toCore) /\ UNCHANGED <<kind, ends, toAgent, core, agent, sent>>
        ELSE CoreCloses("response_unknown")

CoreData ==
  /\ Incoming({"data"})
  /\ LET i == Head(toCore).id
     IN IF UnknownStream(i) THEN CoreCloses("stream_unknown")
        ELSE IF i \notin streams \/ closed[i]
        THEN toCore' = Tail(toCore) /\ UNCHANGED <<kind, ends, toAgent, core, agent, sent>>
        ELSE IF Len(queue[i]) >= Depth THEN CoreCloses("overflow")
        ELSE /\ queue' = [queue EXCEPT ![i] = Append(@, Data(Head(toCore).n))]
             /\ toCore' = Tail(toCore)
             /\ UNCHANGED <<kind, ends, toAgent, call, future, streams, deadCalls,
                            deadStreams, closed, granted, got, gap, agent, sent>>

\* stream.close, stream.error: feed_end or feed_error, then drop_stream.
CoreEnd ==
  /\ Incoming({"end", "error"})
  /\ LET i == Head(toCore).id
         item == IF Head(toCore).type = "end" THEN End ELSE Error
     IN IF UnknownStream(i) THEN CoreCloses("stream_unknown")
        ELSE IF i \notin streams
        THEN toCore' = Tail(toCore) /\ UNCHANGED <<kind, ends, toAgent, core, agent, sent>>
        ELSE /\ queue' = [queue EXCEPT ![i] = IF closed[i] THEN @
                                              ELSE ReplaceQueueTail(@, item)]
             /\ closed' = [closed EXCEPT ![i] = TRUE]
             /\ DropStream(i)
             /\ toCore' = Tail(toCore)
             /\ UNCHANGED <<kind, ends, toAgent, call, future, deadCalls, granted,
                            got, gap, agent, sent>>

\* The Core notices that the connection is gone, after reading what was sent.
CoreDisconnect ==
  /\ coreUp /\ ~agentUp /\ toCore = <<>>
  /\ CoreCloses("network")

\* The network fails under the Core's end.
CoreLoses ==
  /\ coreUp
  /\ CoreCloses("network")

-----------------------------------------------------------------------------
(* The Node *)

\* A request becomes a task, which waits for one of the slots.
AgentRequest ==
  /\ agentUp /\ toAgent # <<>> /\ Head(toAgent).type = "request"
  /\ task' = [task EXCEPT ![Head(toAgent).id] = "queued"]
  /\ toAgent' = Tail(toAgent)
  /\ UNCHANGED <<kind, ends, toCore, core, registry, credit, sent>>

Admit(i) ==
  /\ agentUp /\ task[i] = "queued"
  /\ Cardinality({j \in Calls : task[j] = "busy"}) < Slots
  /\ task' = [task EXCEPT ![i] = "busy"]
  /\ UNCHANGED <<kind, ends, toAgent, toCore, core, registry, credit, sent>>

\* The operation is done: a stream is registered, then the answer is sent, then
\* the pushing task starts.
Respond(i) ==
  /\ agentUp /\ task[i] = "busy"
  /\ SendCore(Message("ok", i, 0))
  /\ registry' = IF HasStream(i) THEN registry \cup {i} ELSE registry
  /\ task' = [task EXCEPT ![i] = IF kind[i] \in {"push", "source"} THEN "loop"
                                 ELSE "done"]
  /\ UNCHANGED <<kind, ends, toAgent, core, credit, sent>>

\* The admission budget expired, or the operation raised.
Refuse(i) ==
  /\ agentUp /\ task[i] \in {"queued", "busy"}
  /\ SendCore(Message("failed", i, 0))
  /\ task' = [task EXCEPT ![i] = "done"]
  /\ UNCHANGED <<kind, ends, toAgent, core, registry, credit, sent>>

\* Mutant: frames do not use credit up.
ClaimUncounted(i) ==
  /\ agentUp /\ task[i] = "loop" /\ i \in registry /\ sent[i] < Frames
  /\ kind[i] = "source" => credit[i] > 0 \/ sent[i] > 0
  /\ task' = [task EXCEPT ![i] = "sending"]
  /\ credit' = IF kind[i] = "source" THEN [credit EXCEPT ![i] = 0] ELSE credit
  /\ UNCHANGED <<kind, ends, toAgent, toCore, core, registry, sent>>

\* The pushing task claims a frame: a source needs credit for it.
Claim(i) ==
  /\ agentUp /\ task[i] = "loop" /\ i \in registry /\ sent[i] < Frames
  /\ kind[i] = "source" => credit[i] > 0
  /\ task' = [task EXCEPT ![i] = "sending"]
  /\ credit' = IF kind[i] = "source" THEN [credit EXCEPT ![i] = @ - 1] ELSE credit
  /\ UNCHANGED <<kind, ends, toAgent, toCore, core, registry, sent>>

\* The frame that was claimed is sent even when the stream was closed meanwhile.
Push(i) ==
  /\ agentUp /\ task[i] = "sending"
  /\ sent' = [sent EXCEPT ![i] = @ + 1]
  /\ SendCore(Message("data", i, sent'[i]))
  /\ task' = [task EXCEPT ![i] = "loop"]
  /\ UNCHANGED <<kind, ends, toAgent, core, registry, credit>>

\* All frames are sent, or reading the next one failed.
PushEnds(i) ==
  /\ agentUp /\ task[i] \in {"loop", "sending"} /\ i \in registry
  /\ \/ task[i] = "loop" /\ sent[i] = Frames /\ SendCore(Message("end", i, 0))
     \/ SendCore(Message("error", i, 0))
  /\ task' = [task EXCEPT ![i] = "closing"]
  /\ UNCHANGED <<kind, ends, toAgent, core, registry, credit, sent>>

\* The task leaves its loop: after its last message, or because it was closed.
PushCloses(i) ==
  /\ agentUp
  /\ task[i] = "closing" \/ (task[i] \in {"loop", "sending"} /\ i \notin registry)
  /\ task' = [task EXCEPT ![i] = "done"]
  /\ registry' = registry \ {i}
  /\ UNCHANGED <<kind, ends, toAgent, toCore, core, credit, sent>>

Outgoing(types) == agentUp /\ toAgent # <<>> /\ Head(toAgent).type \in types

\* NodeAgent._dispatch of a frame for a stream that is not registered.
AgentUnknown ==
  /\ Outgoing({"data", "credit", "close", "abort"})
  /\ Head(toAgent).id \notin registry
  /\ AgentCloses("agent_stream_unknown")

\* The frame is written, or writing it raises out of the receive loop.
AgentData ==
  /\ Outgoing({"data"}) /\ Head(toAgent).id \in registry
  /\ \/ /\ toAgent' = Tail(toAgent)
        /\ UNCHANGED <<kind, ends, toCore, core, agent, sent>>
     \/ AgentCloses("agent_feed")

\* grant: credit must be used up before more is accepted.
AgentCredit ==
  /\ Outgoing({"credit"})
  /\ LET i == Head(toAgent).id
     IN /\ i \in registry
        /\ IF credit[i] # 0 THEN AgentCloses("agent_credit")
           ELSE /\ credit' = [credit EXCEPT ![i] = Head(toAgent).n]
                /\ toAgent' = Tail(toAgent)
                /\ UNCHANGED <<kind, ends, toCore, core, registry, task, sent>>

\* An upload is published and acknowledged, or its error is.
AgentClose ==
  /\ Outgoing({"close"}) /\ Head(toAgent).id \in registry
  /\ registry' = registry \ {Head(toAgent).id}
  /\ \E t \in {"end", "error"} : SendCore(Message(t, Head(toAgent).id, 0))
  /\ toAgent' = Tail(toAgent)
  /\ UNCHANGED <<kind, ends, core, task, credit, sent>>

AgentAbort ==
  /\ Outgoing({"abort"}) /\ Head(toAgent).id \in registry
  /\ registry' = registry \ {Head(toAgent).id}
  /\ toAgent' = Tail(toAgent)
  /\ UNCHANGED <<kind, ends, toCore, core, task, credit, sent>>

AgentDisconnect ==
  /\ agentUp /\ ~coreUp
  /\ AgentCloses("network")

AgentLoses ==
  /\ agentUp /\ coreUp
  /\ AgentCloses("network")

-----------------------------------------------------------------------------

CallSteps(i) == Answered(i) \/ Grant(i) \/ Receive(i) \/ SendData(i) \/ Finish(i)
                \/ Finished(i)
Caller(i) == Call(i) \/ Cancel(i) \/ GiveUp(i) \/ CallSteps(i)
CoreLoop == CoreResponse \/ CoreData \/ CoreEnd
TaskSteps(i) == Admit(i) \/ Respond(i) \/ Refuse(i) \/ Claim(i) \/ Push(i)
                \/ PushEnds(i) \/ PushCloses(i)
AgentLoop == AgentRequest \/ AgentUnknown \/ AgentData \/ AgentCredit \/ AgentClose
             \/ AgentAbort

Next == \/ \E i \in Calls : Caller(i) \/ TaskSteps(i)
        \/ CoreLoop \/ AgentLoop
        \/ CoreDisconnect \/ AgentDisconnect \/ CoreLoses \/ AgentLoses

Spec == Init /\ [][Next]_vars

\* Both receive loops, every task of the Node and every caller that does not give
\* up go on; the ends notice that the other one is gone (ping timeout).
Fairness ==
  /\ \A i \in Calls : WF_vars(CallSteps(i)) /\ WF_vars(TaskSteps(i))
  /\ WF_vars(CoreLoop) /\ WF_vars(AgentLoop)
  /\ WF_vars(CoreDisconnect) /\ WF_vars(AgentDisconnect)

LiveSpec == Spec /\ Fairness

-----------------------------------------------------------------------------
(* Properties *)

\* Every variable keeps its type and no queue grows past its depth.
TypeOK ==
  /\ kind \in [Calls -> CallKinds]
  /\ coreUp \in BOOLEAN /\ agentUp \in BOOLEAN /\ cause \in Causes
  /\ toAgent \in Seq([type: {"request", "data", "credit", "close", "abort"},
                      id: Calls, n: Nat])
  /\ toCore \in Seq([type: {"ok", "failed", "data", "end", "error"},
                     id: Calls, n: Nat])
  /\ call \in [Calls -> {"idle", "wait", "open", "finish", "complete", "done"}]
  /\ future \in [Calls -> {"none", "pending", "ok", "error"}]
  /\ streams \subseteq Calls
  /\ deadCalls \in Seq(Calls) /\ deadStreams \in Seq(Calls)
  /\ closed \in [Calls -> BOOLEAN] /\ gap \in [Calls -> BOOLEAN]
  /\ \A i \in Calls : queue[i] \in Seq(Items) /\ Len(queue[i]) <= Depth
  /\ granted \in [Calls -> 0 .. Frames] /\ got \in [Calls -> 0 .. Frames]
  /\ registry \subseteq Calls
  /\ task \in [Calls -> {"none", "queued", "busy", "loop", "sending", "closing",
                         "done"}]
  /\ sent \in [Calls -> 0 .. Frames] /\ credit \in [Calls -> 0 .. Window]

\* An answer that arrives after its caller was cancelled never costs the
\* connection and the other calls on it (_closed_requests), and the Node is never
\* sent a frame for a stream it has not opened yet, for which its receive loop
\* would drop the connection (NodeAgent._dispatch).
CancelHarmless ==
  /\ cause # "response_unknown"
  /\ \A k \in DOMAIN toAgent :
       toAgent[k].type # "request"
         => task[toAgent[k].id] \notin {"none", "queued", "busy"}

\* Core and Node agree on the window: credit is only granted once the last batch
\* is used up, so that grant() never refuses it, and a Source never has more
\* than a window of unread frames (_WorkspaceSourceReceiveWindow).
CreditAgreed ==
  /\ cause # "agent_credit"
  /\ \A i \in Calls : kind[i] = "source" => Len(queue[i]) <= Window + 1

\* A Source whose stream ended was received completely and in order, whatever
\* other calls do on the link.
SourceComplete ==
  \A i \in Calls :
    kind[i] = "source" /\ call[i] = "complete" => got[i] = Frames /\ ~gap[i]

\* A download whose stream ended was received completely and in order.
DownloadComplete ==
  \A i \in Calls :
    kind[i] = "push" /\ call[i] = "complete" => got[i] = Frames /\ ~gap[i]

\* Frames for a stream whose caller is gone never cost the connection.
LateFramesHarmless == cause # "stream_unknown"

\* Every request is answered or fails, also when the connection closes under it
\* (NodeConnection.close, the admission budget of the Node).
CallResolves == \A i \in Calls : call[i] = "wait" ~> call[i] # "wait"

\* A stream that is read comes to an end: neither side waits for credit or for
\* a frame that the other one will not send.
StreamResolves ==
  \A i \in Calls : call[i] \in {"open", "finish"} ~> call[i] \in {"complete", "done"}

\* Nobody waits for ever on the link, neither for an answer nor for a stream
\* (NodeConnection.close, _WorkspaceSourceReceiveWindow.receive).
LinkResolves == CallResolves /\ StreamResolves
=============================================================================
