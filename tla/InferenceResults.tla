--------------------------- MODULE InferenceResults ---------------------------
(***************************************************************************)
(* The way of a recognition's result to the broker, in the applications    *)
(* that pass it by pointer (speech recognition and object detection).      *)
(*                                                                         *)
(* The ML task allocates a copy of the result and sends the pointer to     *)
(* xMlMqttQueue without waiting; vMlMqttTask receives it, publishes it     *)
(* with a command to the MQTT agent, waits for the acknowledgement with a  *)
(* time-out, and frees it.  The command does not hold the payload: it      *)
(* points to the static publishInfo of prvMqttSendMessage, which holds a   *)
(* pointer to the payload of the last call.                                *)
(*                                                                         *)
(* The agent is reduced to what these tasks see of it: it may send, refuse *)
(* or cancel a command at any time (MqttAgent says when it does).          *)
(***************************************************************************)
EXTENDS Naturals, Sequences

CONSTANTS
  Memory,       \* addresses that malloc can return for a result
  NULL,         \* the pointer to none of them
  QueueLength,  \* of xMlMqttQueue
  CommandPool   \* MQTT_COMMAND_CONTEXTS_POOL_SIZE

ASSUME ResultsAssumption ==
  /\ NULL \notin Memory
  /\ QueueLength \in Nat \ {0}
  /\ CommandPool \in Nat \ {0}

VARIABLES
  heap,          \* results allocated
  report,        \* prvSetMlProcessingstate in the ML task: [at, result]
  xMlMqttQueue,  \* pointers to results
  publisher,     \* vMlMqttTask: [at, result]
  pPayload,      \* publishInfo.pPayload
  commands,      \* publish commands that the agent has not sent
  sent,          \* those that it has sent, waiting for their acknowledgement
  notice,        \* vMlMqttTask has a notification pending
  overdue        \* history: a command may be left of a call that is over

agentVars == <<commands, sent>>
publisherVars == <<publisher, pPayload, notice, overdue>>
resultVars == <<heap, report, xMlMqttQueue, publisherVars, agentVars>>

-----------------------------------------------------------------------------
Pointers == Memory \cup {NULL}
NoReport == [at |-> "idle", result |-> NULL]
Receiving == [at |-> "receive", result |-> NULL]

ResultsInit ==
  /\ heap = {} /\ report = NoReport /\ xMlMqttQueue = <<>>
  /\ publisher = Receiving /\ pPayload = NULL
  /\ commands = 0 /\ sent = 0
  /\ notice = FALSE /\ overdue = FALSE

-----------------------------------------------------------------------------
(***************************************************************************)
(* The ML task                                                             *)
(***************************************************************************)

\* If the heap has no memory for the result, nothing is done.
AllocateResult ==
  /\ report.at = "idle"
  /\ \E r \in Memory \ heap :
       /\ heap' = heap \cup {r}
       /\ report' = [at |-> "send", result |-> r]
  /\ UNCHANGED <<xMlMqttQueue, publisherVars, agentVars>>

SendResult ==
  /\ report.at = "send"
  /\ Len(xMlMqttQueue) < QueueLength
  /\ xMlMqttQueue' = Append(xMlMqttQueue, report.result)
  /\ report' = NoReport
  /\ UNCHANGED <<heap, publisherVars, agentVars>>

\* Mutant: what the queue refuses is forgotten.
ResultRefused_Leaks ==
  /\ report.at = "send"
  /\ Len(xMlMqttQueue) = QueueLength
  /\ report' = NoReport
  /\ UNCHANGED <<heap, xMlMqttQueue, publisherVars, agentVars>>

ResultRefused ==
  /\ report.at = "send"
  /\ Len(xMlMqttQueue) = QueueLength
  /\ report' = [report EXCEPT !.at = "free"]
  /\ UNCHANGED <<heap, xMlMqttQueue, publisherVars, agentVars>>

FreeRefused ==
  /\ report.at = "free"
  /\ heap' = heap \ {report.result}
  /\ report' = NoReport
  /\ UNCHANGED <<xMlMqttQueue, publisherVars, agentVars>>

-----------------------------------------------------------------------------
(***************************************************************************)
(* vMlMqttTask                                                             *)
(***************************************************************************)

ReceiveResult ==
  /\ publisher.at = "receive"
  /\ xMlMqttQueue # <<>>
  /\ publisher' = [at |-> "publish", result |-> Head(xMlMqttQueue)]
  /\ xMlMqttQueue' = Tail(xMlMqttQueue)
  /\ UNCHANGED <<heap, report, pPayload, notice, overdue, agentVars>>

\* Mutant: an old notification is left pending.
prvMqttSendMessage_Uncleared ==
  /\ publisher.at = "publish"
  /\ publisher' = [publisher EXCEPT !.at = "enqueue"]
  /\ pPayload' = publisher.result
  /\ overdue' = (commands + sent > 0)
  /\ UNCHANGED <<heap, report, xMlMqttQueue, notice, agentVars>>

\* Up to the call of MQTTAgent_Publish: publishInfo is filled, also for an older
\* command that is still queued.
prvMqttSendMessage ==
  /\ publisher.at = "publish"
  /\ publisher' = [publisher EXCEPT !.at = "enqueue"]
  /\ pPayload' = publisher.result
  /\ notice' = FALSE
  /\ overdue' = (commands + sent > 0)
  /\ UNCHANGED <<heap, report, xMlMqttQueue, agentVars>>

PublishQueued ==
  /\ publisher.at = "enqueue"
  /\ commands + sent < CommandPool
  /\ commands' = commands + 1
  /\ publisher' = [publisher EXCEPT !.at = "wait"]
  /\ UNCHANGED <<heap, report, xMlMqttQueue, pPayload, notice, overdue, sent>>

\* Other tasks have taken the structures of the pool, or filled the queue.
PublishRefused ==
  /\ publisher.at = "enqueue"
  /\ publisher' = [publisher EXCEPT !.at = "free"]
  /\ UNCHANGED <<heap, report, xMlMqttQueue, pPayload, notice, overdue, agentVars>>

\* xTaskNotifyWait returns, whichever command the notification was for.
PublishEnded ==
  /\ publisher.at = "wait"
  /\ notice
  /\ notice' = FALSE
  /\ publisher' = [publisher EXCEPT !.at = "free"]
  /\ UNCHANGED <<heap, report, xMlMqttQueue, pPayload, overdue, agentVars>>

PublishTimedOut ==
  /\ publisher.at = "wait"
  /\ ~notice
  /\ publisher' = [publisher EXCEPT !.at = "free"]
  /\ overdue' = TRUE
  /\ UNCHANGED <<heap, report, xMlMqttQueue, pPayload, notice, agentVars>>

FreePublished ==
  /\ publisher.at = "free"
  /\ heap' = heap \ {publisher.result}
  /\ publisher' = Receiving
  /\ UNCHANGED <<report, xMlMqttQueue, pPayload, notice, overdue, agentVars>>

-----------------------------------------------------------------------------
(***************************************************************************)
(* The MQTT agent                                                          *)
(***************************************************************************)

\* MQTT_Publish reads the payload; QoS 1, so the command waits for the PUBACK.
PublishSent ==
  /\ commands > 0
  /\ commands' = commands - 1
  /\ sent' = sent + 1
  /\ UNCHANGED <<heap, report, xMlMqttQueue, publisherVars>>

\* prvAppPublishCommandCallback, for a send that fails, ...
PublishFails ==
  /\ commands > 0
  /\ commands' = commands - 1
  /\ notice' = TRUE
  /\ UNCHANGED <<heap, report, xMlMqttQueue, publisher, pPayload, overdue, sent>>

\* ... an acknowledgement, ...
PublishAcknowledged ==
  /\ sent > 0
  /\ sent' = sent - 1
  /\ notice' = TRUE
  /\ UNCHANGED <<heap, report, xMlMqttQueue, publisher, pPayload, overdue, commands>>

\* ... and the end of a connection.
PublishesCancelled ==
  /\ commands + sent > 0
  /\ commands' = 0 /\ sent' = 0
  /\ notice' = TRUE
  /\ UNCHANGED <<heap, report, xMlMqttQueue, publisher, pPayload, overdue>>

-----------------------------------------------------------------------------
prvSetMlProcessingstate == AllocateResult \/ SendResult \/ ResultRefused \/ FreeRefused

vMlMqttTask ==
  \/ ReceiveResult \/ prvMqttSendMessage \/ PublishQueued \/ PublishRefused
  \/ PublishEnded \/ PublishTimedOut \/ FreePublished

Agent == PublishSent \/ PublishFails \/ PublishAcknowledged \/ PublishesCancelled

ResultsNext == prvSetMlProcessingstate \/ vMlMqttTask \/ Agent

ResultsSpec == ResultsInit /\ [][ResultsNext]_resultVars

-----------------------------------------------------------------------------
(***************************************************************************)
(* Properties                                                              *)
(***************************************************************************)

\* What the steps work on.
ResultsTypeOK ==
  /\ heap \subseteq Memory
  /\ report \in [at : {"idle", "send", "free"}, result : Pointers]
  /\ xMlMqttQueue \in Seq(Memory) /\ Len(xMlMqttQueue) <= QueueLength
  /\ publisher \in [at : {"receive", "publish", "enqueue", "wait", "free"}, result : Pointers]
  /\ pPayload \in Pointers
  /\ commands \in Nat /\ sent \in Nat
  /\ notice \in BOOLEAN
  /\ overdue \in BOOLEAN

Queued(r) == \E k \in 1 .. Len(xMlMqttQueue) : xMlMqttQueue[k] = r

\* Each result that is allocated has one holder, which is to pass it on or free
\* it: the ML task, one place of the queue, or vMlMqttTask.  None is lost where
\* the queue is full, and none is freed that another holds.
OneHolderEach ==
  /\ heap = ({report.result, publisher.result} \ {NULL}) \cup {r \in Memory : Queued(r)}
  /\ report.result # NULL => report.result # publisher.result /\ ~Queued(report.result)
  /\ ~Queued(publisher.result)
  /\ \A k, l \in 1 .. Len(xMlMqttQueue) : xMlMqttQueue[k] = xMlMqttQueue[l] => k = l

\* The agent finds the payload of a command it sends allocated, unless a call has
\* timed out and left a command behind: "Wait for command to complete so
\* MQTTSubscribeInfo_t remains in scope for the duration of the command".
PayloadInScope == commands > 0 /\ ~overdue => pPayload \in heap

\* Results are neither lost nor freed in use.
ResultsOwned == OneHolderEach /\ PayloadInScope
=============================================================================
