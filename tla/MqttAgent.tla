------------------------------ MODULE MqttAgent ------------------------------
(***************************************************************************)
(* The MQTT agent task, the commands other tasks give it, and the list of  *)
(* subscriptions.                                                          *)
(*                                                                         *)
(* A task that publishes or subscribes fills a static context, takes a     *)
(* command structure from a pool, queues it, and waits for a notification  *)
(* with a time-out.  The agent task serves the queue while connected; the  *)
(* completion callback writes the result in the context and notifies the   *)
(* task, which may be waiting for something else by then.                  *)
(*                                                                         *)
(* A call of the coreMQTT-Agent library is atomic, except that the calling *)
(* task may block in it for a structure of the pool or for the queue.  The *)
(* tasks that call have a lower priority than the agent, so a cancellation *)
(* of all commands is one step.                                            *)
(***************************************************************************)
EXTENDS Naturals, Sequences

CONSTANTS
  Active,       \* contexts in use by the application
  PoolSize,     \* MQTT_COMMAND_CONTEXTS_POOL_SIZE
  QueueLength,  \* MQTT_AGENT_COMMAND_QUEUE_LENGTH
  NumSlots,     \* SUBSCRIPTION_MANAGER_MAX_SUBSCRIPTIONS
  NoFilter,     \* the topic filter of a slot that is not used
  Preempted,    \* whether the agent's priority is above the OTA demo task's
  MaxFaults     \* bound: connections lost or refused

\* One static context per function that issues commands, and its task: those of
\* mqtt_helpers.c, of the application's results, and of the device advisor.
Contexts == {"subscribe", "publish", "result", "advise"}
Owner == [subscribe |-> "ota", publish |-> "ota", result |-> "ml", advise |-> "advisor"]
Tasks == {"ota", "ml", "advisor"}

\* The contexts that subscribe, and the filter each subscribes to; those whose
\* commands end with an acknowledgement, not when they are sent.
Subscribers == {"subscribe", "advise"}
Filter == [subscribe |-> "stream", advise |-> "advisor"]
Acked == Subscribers \cup {"result"}
Filters == {"jobs", "stream", "advisor"}

ASSUME MqttAssumption ==
  /\ Active \subseteq Contexts
  /\ PoolSize \in Nat \ {0}
  /\ QueueLength \in Nat \ {0}
  /\ NumSlots \in Nat /\ NumSlots >= 3  \* one for each filter
  /\ NoFilter \notin Filters
  /\ Preempted \in BOOLEAN
  /\ MaxFaults \in Nat

VARIABLES
  agentPc,       \* where prvMQTTAgentTask is
  connectedBit,  \* EVENT_MASK_MQTT_CONNECTED
  cleanSession,  \* xConnectInfo.cleanSession
  session,       \* filters the broker has a subscription for
  pool,          \* command structures that are free
  queue,         \* commands queued for the agent
  acks,          \* commands sent, waiting for their acknowledgement
  pc,            \* what each task does: [at, ctx, cmd]
  status,        \* xReturnStatus of each context
  notified,      \* the task has a notification pending
  result,        \* what the last call of each context that subscribes returned
  list,          \* xGlobalSubscriptionList
  registration,  \* how far prvRunOTADemo is with its own subscription
  slot,          \* the slot it has chosen
  faults,        \* connections lost or refused so far
  clean          \* history: when the call began, no command of its task was left

connectionVars == <<agentPc, connectedBit, cleanSession, session, faults>>
commandVars == <<pool, queue, acks>>
callVars == <<pc, status, notified, result, clean>>
listVars == <<list, registration, slot>>
vars == <<connectionVars, commandVars, callVars, listVars>>

-----------------------------------------------------------------------------
Commands == 1 .. PoolSize
Slots == 1 .. NumSlots
CommandRecords == [cmd : Commands, ctx : Contexts]

\* The commands of a task that the agent has not concluded.
InQueue(h) == \E k \in 1 .. Len(queue) : queue[k] = h
Outstanding(h) == InQueue(h) \/ h \in acks

Idle == [at |-> "idle", ctx |-> "publish", cmd |-> 1]

\* A slot is used when its length is not zero, whatever its callback.
Empty == [filter |-> NoFilter, callback |-> FALSE]
Entry(f) == [filter |-> f, callback |-> TRUE]
Used(i) == list[i].filter # NoFilter
Listed(f) == \E i \in Slots : list[i] = Entry(f)

FirstUnused(i) == i \in Slots /\ ~Used(i) /\ \A j \in Slots : j < i => Used(j)

\* The list after addSubscription: unchanged when the entry is there, or the
\* list is full.
addSubscription(f) ==
  IF Listed(f) \/ \A i \in Slots : Used(i)
  THEN list
  ELSE [list EXCEPT ![CHOOSE i \in Slots : FirstUnused(i)] = Entry(f)]

MqttInit ==
  /\ agentPc = "connect"
  /\ connectedBit = FALSE
  /\ cleanSession = FALSE
  /\ session = {}
  /\ pool = Commands
  /\ queue = <<>>
  /\ acks = {}
  /\ pc = [t \in Tasks |-> Idle]
  /\ status = [c \in Contexts |-> "success"]
  /\ notified = [t \in Tasks |-> FALSE]
  /\ result = [c \in Subscribers |-> "none"]
  /\ list = [i \in Slots |-> Empty]
  /\ registration = "waiting"
  /\ slot = 1
  /\ faults = 0
  /\ clean = [t \in Tasks |-> TRUE]

-----------------------------------------------------------------------------
(***************************************************************************)
(* A call: prvMQTTSubscribe, prvMQTTPublish, prvMqttSendMessage,           *)
(* prvSubscribeToTopic                                                     *)
(***************************************************************************)

\* Mutant: the first event is sent before the callback is registered.
Started_Early(t) == connectedBit

\* The OTA agent works on events, the first sent after the callback for jobs
\* is registered; its hooks start the inference.  The advisor only waits for
\* the connection, and subscribes once.
Started(t) ==
  IF t = "advisor" THEN connectedBit /\ result["advise"] = "none" ELSE registration = "done"

\* Mutant: an old notification is not cleared.
BeginCall_Uncleared(c) ==
  LET t == Owner[c] IN
  /\ c \in Active
  /\ pc[t].at = "idle"
  /\ Started(t)
  /\ pc' = [pc EXCEPT ![t] = [at |-> "get", ctx |-> c, cmd |-> 1]]
  /\ status' = IF c = "subscribe" THEN [status EXCEPT ![c] = "failed"] ELSE status
  /\ clean' = [clean EXCEPT ![t] = \A h \in CommandRecords : Outstanding(h) => Owner[h.ctx] # t]
  /\ UNCHANGED <<notified, result, connectionVars, commandVars, listVars>>

\* Only prvMQTTSubscribe sets xReturnStatus before it waits.
BeginCall(c) ==
  LET t == Owner[c] IN
  /\ c \in Active
  /\ pc[t].at = "idle"
  /\ Started(t)
  /\ pc' = [pc EXCEPT ![t] = [at |-> "get", ctx |-> c, cmd |-> 1]]
  /\ status' = IF c = "subscribe" THEN [status EXCEPT ![c] = "failed"] ELSE status
  /\ notified' = [notified EXCEPT ![t] = FALSE]
  /\ clean' = [clean EXCEPT ![t] = \A h \in CommandRecords : Outstanding(h) => Owner[h.ctx] # t]
  /\ UNCHANGED <<result, connectionVars, commandVars, listVars>>

Return(t, r) ==
  /\ pc' = [pc EXCEPT ![t] = Idle]
  /\ result' = [c \in Subscribers |-> IF c = pc[t].ctx THEN r ELSE result[c]]
  /\ clean' = [clean EXCEPT ![t] = TRUE]

Agent_GetCommand(t) ==
  /\ pc[t].at = "get"
  /\ \E k \in pool :
       /\ pool' = pool \ {k}
       /\ pc' = [pc EXCEPT ![t] = [at |-> "send", ctx |-> @.ctx, cmd |-> k]]
  /\ UNCHANGED <<status, notified, result, clean, queue, acks, connectionVars, listVars>>

NoCommand(t) ==
  /\ pc[t].at = "get"
  /\ pool = {}
  /\ Return(t, "failed")
  /\ UNCHANGED <<status, notified, connectionVars, commandVars, listVars>>

\* Mutant: one command more than the queue holds.
Agent_MessageSend_OffByOne(t) ==
  /\ pc[t].at = "send"
  /\ Len(queue) <= QueueLength
  /\ queue' = Append(queue, [cmd |-> pc[t].cmd, ctx |-> pc[t].ctx])
  /\ pc' = [pc EXCEPT ![t] = [@ EXCEPT !.at = "wait"]]
  /\ UNCHANGED <<status, notified, result, clean, pool, acks, connectionVars, listVars>>

Agent_MessageSend(t) ==
  /\ pc[t].at = "send"
  /\ Len(queue) < QueueLength
  /\ queue' = Append(queue, [cmd |-> pc[t].cmd, ctx |-> pc[t].ctx])
  /\ pc' = [pc EXCEPT ![t] = [@ EXCEPT !.at = "wait"]]
  /\ UNCHANGED <<status, notified, result, clean, pool, acks, connectionVars, listVars>>

\* Mutant: the structure is not given back.
QueueFull_Leaks(t) ==
  /\ pc[t].at = "send"
  /\ Len(queue) = QueueLength
  /\ Return(t, "failed")
  /\ UNCHANGED <<pool, status, notified, queue, acks, connectionVars, listVars>>

QueueFull(t) ==
  /\ pc[t].at = "send"
  /\ Len(queue) = QueueLength
  /\ pool' = pool \cup {pc[t].cmd}
  /\ Return(t, "failed")
  /\ UNCHANGED <<status, notified, queue, acks, connectionVars, listVars>>

\* xTaskNotifyWait returns: the status is that of the context of this call,
\* whichever command the notification was for.
Notified(t) ==
  /\ pc[t].at = "wait"
  /\ notified[t]
  /\ notified' = [notified EXCEPT ![t] = FALSE]
  /\ Return(t, status[pc[t].ctx])
  /\ UNCHANGED <<status, connectionVars, commandVars, listVars>>

\* Mutant: the caller gives the structure back when it stops waiting.
TimedOut_Releases(t) ==
  /\ pc[t].at = "wait"
  /\ ~notified[t]
  /\ pool' = pool \cup {pc[t].cmd}
  /\ Return(t, "failed")
  /\ UNCHANGED <<status, notified, queue, acks, connectionVars, listVars>>

TimedOut(t) ==
  /\ pc[t].at = "wait"
  /\ ~notified[t]
  /\ Return(t, "failed")
  /\ UNCHANGED <<status, notified, connectionVars, commandVars, listVars>>

-----------------------------------------------------------------------------
(***************************************************************************)
(* prvRunOTADemo registers the callback for the jobs topics                *)
(***************************************************************************)

ChooseSlot ==
  /\ registration = "waiting"
  /\ connectedBit
  /\ \E i \in Slots : FirstUnused(i) /\ slot' = i
  /\ registration' = "chosen"
  /\ UNCHANGED <<list, connectionVars, commandVars, callVars>>

\* The filter and its length are written before the callback.
WriteFilter ==
  /\ registration = "chosen"
  /\ list' = [list EXCEPT ![slot].filter = "jobs"]
  /\ registration' = "named"
  /\ UNCHANGED <<slot, connectionVars, commandVars, callVars>>

WriteCallback ==
  /\ registration = "named"
  /\ list' = [list EXCEPT ![slot] = [filter |-> @.filter, callback |-> TRUE]]
  /\ registration' = "done"
  /\ UNCHANGED <<slot, connectionVars, commandVars, callVars>>

-----------------------------------------------------------------------------
(***************************************************************************)
(* The agent task                                                          *)
(***************************************************************************)

\* A task of higher priority registers without the agent running in between.
AgentAt(where) ==
  /\ agentPc = where
  /\ Preempted \/ registration \notin {"chosen", "named"}

Fault == faults < MaxFaults /\ faults' = faults + 1

\* The completion callback, then Agent_ReleaseCommand.
Conclude(h, s) ==
  /\ status' = [status EXCEPT ![h.ctx] = s]
  /\ notified' = [notified EXCEPT ![Owner[h.ctx]] = TRUE]
  /\ pool' = pool \cup {h.cmd}
  /\ list' = IF h.ctx \in Subscribers /\ s = "success"
             THEN addSubscription(Filter[h.ctx]) ELSE list
  /\ UNCHANGED <<pc, result, clean, registration, slot>>

\* Every command, queued or waiting for an acknowledgement, is concluded.
MQTTAgent_CancelAll ==
  /\ queue' = <<>>
  /\ acks' = {}
  /\ pool' = pool \cup {h.cmd : h \in {k \in CommandRecords : Outstanding(k)}}
  /\ status' = [c \in Contexts |->
                  IF \E h \in CommandRecords : Outstanding(h) /\ h.ctx = c THEN "failed" ELSE status[c]]
  /\ notified' = [t \in Tasks |->
                    notified[t] \/ \E h \in CommandRecords : Outstanding(h) /\ Owner[h.ctx] = t]
  /\ UNCHANGED <<pc, result, clean, listVars>>

\* prvSocketConnect; every turn of the loop asks for a clean session.
SocketConnected ==
  /\ AgentAt("connect")
  /\ cleanSession' = TRUE
  /\ agentPc' = "handshake"
  /\ UNCHANGED <<connectedBit, session, faults, commandVars, callVars, listVars>>

SocketRefused ==
  /\ AgentAt("connect")
  /\ Fault
  /\ agentPc' = "backoff"
  /\ UNCHANGED <<connectedBit, cleanSession, session, commandVars, callVars, listVars>>

BackedOff ==
  /\ AgentAt("backoff")
  /\ agentPc' = "connect"
  /\ UNCHANGED <<connectedBit, cleanSession, session, faults, commandVars, callVars, listVars>>

\* prvMQTTConnect, the first half: what was queued while disconnected is lost.
CancelBeforeConnect ==
  /\ AgentAt("handshake")
  /\ MQTTAgent_CancelAll
  /\ agentPc' = "CONNECT"
  /\ UNCHANGED <<connectedBit, cleanSession, session, faults>>

\* The second half.  cleanSession is never false here, so the branch that
\* resumes a session and prvHandleResubscribe are not reached.
Connected ==
  /\ AgentAt("CONNECT")
  /\ cleanSession' = FALSE
  /\ connectedBit' = TRUE
  /\ session' = IF cleanSession THEN {} ELSE session
  /\ agentPc' = "loop"
  /\ UNCHANGED <<faults, commandVars, callVars, listVars>>

ConnectRefused ==
  /\ AgentAt("CONNECT")
  /\ Fault
  /\ connectedBit' = FALSE
  /\ agentPc' = "backoff"
  /\ UNCHANGED <<cleanSession, session, commandVars, callVars, listVars>>

\* MQTTAgent_CommandLoop: the next command is sent.
CommandSent ==
  /\ AgentAt("loop")
  /\ queue # <<>>
  /\ queue' = Tail(queue)
  /\ IF Head(queue).ctx \in Acked
     THEN acks' = acks \cup {Head(queue)} /\ UNCHANGED <<pool, callVars, listVars>>
     ELSE UNCHANGED acks /\ Conclude(Head(queue), "success")
  /\ UNCHANGED connectionVars

SendFails ==
  /\ AgentAt("loop")
  /\ queue # <<>>
  /\ Fault
  /\ queue' = Tail(queue)
  /\ Conclude(Head(queue), "failed")
  /\ agentPc' = "ended"
  /\ UNCHANGED <<acks, connectedBit, cleanSession, session>>

Acknowledged(k) ==
  /\ AgentAt("loop")
  /\ \E h \in acks :
       /\ h.cmd = k
       /\ acks' = acks \ {h}
       /\ \/ /\ Conclude(h, "success")
             /\ session' = session \cup {Filter[c] : c \in {h.ctx} \cap Subscribers}
          \/ /\ h.ctx \in Subscribers
             /\ Conclude(h, "failed")
             /\ UNCHANGED session
  /\ UNCHANGED <<queue, agentPc, connectedBit, cleanSession, faults>>

ConnectionLost ==
  /\ AgentAt("loop")
  /\ Fault
  /\ agentPc' = "ended"
  /\ UNCHANGED <<connectedBit, cleanSession, session, commandVars, callVars, listVars>>

\* Mutant: the commands are cancelled before the bit is cleared.
LoopEnded_CancelFirst ==
  /\ AgentAt("ended")
  /\ agentPc' = "cancel"
  /\ UNCHANGED <<connectedBit, cleanSession, session, faults, commandVars, callVars, listVars>>

LoopEnded ==
  /\ AgentAt("ended")
  /\ connectedBit' = FALSE
  /\ agentPc' = "cancel"
  /\ UNCHANGED <<cleanSession, session, faults, commandVars, callVars, listVars>>

\* MQTTAgent_CancelAll, then prvSocketDisconnect.
CancelAfterLoop ==
  /\ AgentAt("cancel")
  /\ MQTTAgent_CancelAll
  /\ agentPc' = "connect"
  /\ connectedBit' = FALSE
  /\ UNCHANGED <<cleanSession, session, faults>>

-----------------------------------------------------------------------------
Calls(t) ==
  \/ Agent_GetCommand(t) \/ NoCommand(t) \/ Agent_MessageSend(t) \/ QueueFull(t)
  \/ Notified(t) \/ TimedOut(t)

Demo == ChooseSlot \/ WriteFilter \/ WriteCallback

AgentTask ==
  \/ SocketConnected \/ SocketRefused \/ BackedOff
  \/ CancelBeforeConnect \/ Connected \/ ConnectRefused
  \/ CommandSent \/ SendFails \/ ConnectionLost
  \/ LoopEnded \/ CancelAfterLoop

Next ==
  \/ \E c \in Contexts : BeginCall(c)
  \/ \E t \in Tasks : Calls(t)
  \/ Demo
  \/ AgentTask
  \/ \E k \in Commands : Acknowledged(k)

Spec == MqttInit /\ [][Next]_vars

\* The tasks are scheduled and the broker acknowledges; a caller may stop
\* calling, and the time-outs need not come.
Fairness ==
  /\ WF_vars(AgentTask)
  /\ WF_vars(Demo)
  /\ \A k \in Commands : WF_vars(Acknowledged(k))
  /\ \A t \in Tasks : WF_vars(Agent_MessageSend(t) \/ QueueFull(t))

FairSpec == Spec /\ Fairness

-----------------------------------------------------------------------------
(***************************************************************************)
(* Properties                                                              *)
(***************************************************************************)

\* Type invariant of the agent, its callers and the list.
CommandTypeOK ==
  /\ agentPc \in {"connect", "backoff", "handshake", "CONNECT", "loop", "ended", "cancel"}
  /\ connectedBit \in BOOLEAN
  /\ cleanSession \in BOOLEAN
  /\ session \subseteq Filters
  /\ pool \subseteq Commands
  /\ queue \in Seq(CommandRecords)
  /\ Len(queue) <= QueueLength
  /\ acks \subseteq CommandRecords
  /\ pc \in [Tasks -> [at : {"idle", "get", "send", "wait"}, ctx : Contexts, cmd : Commands]]
  /\ \A t \in Tasks : pc[t].at # "idle" => Owner[pc[t].ctx] = t
  /\ status \in [Contexts -> {"success", "failed"}]
  /\ notified \in [Tasks -> BOOLEAN]
  /\ result \in [Subscribers -> {"none", "success", "failed"}]
  /\ list \in [Slots -> [filter : Filters \cup {NoFilter}, callback : BOOLEAN]]
  /\ registration \in {"waiting", "chosen", "named", "done"}
  /\ slot \in Slots
  /\ faults \in 0 .. MaxFaults
  /\ clean \in [Tasks -> BOOLEAN]

\* The task has taken a structure and not yet passed it on.
Holding(t) == pc[t].at = "send"

\* Each command structure has one holder: the pool, the task that has taken it,
\* the queue or the commands waiting for an acknowledgement.  So it is given
\* back once: Agent_ReleaseCommand asserts that "The send should not fail as the
\* queue was created to hold every command in the pool".
OneHolder ==
  /\ \A h \in CommandRecords : Outstanding(h) =>
       /\ h.cmd \notin pool
       /\ \A t \in Tasks : Holding(t) => pc[t].cmd # h.cmd
       /\ \A g \in CommandRecords : Outstanding(g) /\ g.cmd = h.cmd => g = h
  /\ \A h \in acks : ~InQueue(h)
  /\ \A k, l \in 1 .. Len(queue) : queue[k] = queue[l] => k = l
  /\ \A t, u \in Tasks : Holding(t) =>
       /\ pc[t].cmd \notin pool
       /\ Holding(u) /\ pc[u].cmd = pc[t].cmd => u = t

\* A structure taken from the pool comes back, whatever becomes of the
\* connection and however long its caller has been gone: prvMQTTAgentTask
\* cancels what it cannot serve.
CommandsEnd == \A k \in Commands : (k \notin pool) ~> (k \in pool)

\* The notification that ends a wait is that of the caller's own command, if its
\* task had no older command left when the call began: xTaskNotifyStateClear
\* drops what earlier ones have left behind.
AnswerIsOwn ==
  \A t \in Tasks : pc[t].at = "wait" /\ notified[t] /\ clean[t] =>
    \A h \in CommandRecords : Outstanding(h) => Owner[h.ctx] # t

\* The connected bit that prvRunOTADemo suspends the OTA agent by is cleared
\* before any command is cancelled, so a task told that its command is
\* cancelled never finds the device still connected.
BitClearedFirst == connectedBit => agentPc \in {"loop", "ended"}

\* A registration that was reported as done stays in the list, although the
\* list has no lock and the demo task chooses a slot before it writes it.
SubscriptionsKept ==
  /\ registration = "done" => Listed("jobs")
  /\ \A c \in Subscribers : result[c] = "success" => Listed(Filter[c])
=============================================================================
