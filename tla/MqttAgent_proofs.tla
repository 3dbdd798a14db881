-------------------------- MODULE MqttAgent_proofs --------------------------
(***************************************************************************)
(* Proofs about the MQTT agent's commands, for every size of the pool, the *)
(* queue and the list, every set of active contexts and any number of lost *)
(* connections: types, one holder per command structure, the order of the  *)
(* connected bit and the cancellations, whose answer ends a wait, and,     *)
(* without the device advisor, that subscriptions stay in the list.        *)
(***************************************************************************)
EXTENDS MqttAgent, TLAPS

\* Each context has one task, and the contexts that subscribe have a filter.
LEMMA OwnerType == Owner \in [Contexts -> Tasks]
  BY DEF Owner, Contexts, Tasks

LEMMA FilterType == /\ Subscribers \subseteq Contexts
                    /\ \A c \in Subscribers : Filter[c] \in Filters
  BY DEF Filter, Filters, Subscribers, Contexts

LEMMA IdleType == Idle \in [at : {"idle", "get", "send", "wait"}, ctx : Contexts, cmd : Commands]
  BY MqttAssumption DEF Idle, Contexts, Commands

\* A chosen slot is a slot, and the list stays a list of entries.
LEMMA ListType ==
  ASSUME CommandTypeOK, NEW c \in Subscribers
  PROVE  addSubscription(Filter[c]) \in [Slots -> [filter : Filters \cup {NoFilter}, callback : BOOLEAN]]
  BY FilterType DEF CommandTypeOK, addSubscription, Entry

\* What the queue holds are commands; they leave it one at a time, first first.
LEMMA QueueHead ==
  ASSUME NEW q \in Seq(CommandRecords), q # <<>>
  PROVE  /\ Head(q) = q[1] /\ Head(q) \in CommandRecords
         /\ 1 \in 1 .. Len(q)
         /\ Tail(q) \in Seq(CommandRecords)
         /\ Len(Tail(q)) = Len(q) - 1
         /\ \A k \in 1 .. Len(Tail(q)) : k + 1 \in 1 .. Len(q) /\ Tail(q)[k] = q[k + 1]
         /\ \A k \in 1 .. Len(q) : k = 1 \/ (k - 1 \in 1 .. Len(Tail(q)) /\ Tail(q)[k - 1] = q[k])
  OBVIOUS

LEMMA QueueAppend ==
  ASSUME NEW q \in Seq(CommandRecords), NEW e \in CommandRecords
  PROVE  /\ Append(q, e) \in Seq(CommandRecords)
         /\ Len(Append(q, e)) = Len(q) + 1
         /\ Append(q, e)[Len(q) + 1] = e
         /\ \A k \in 1 .. Len(q) : Append(q, e)[k] = q[k]
  OBVIOUS

-----------------------------------------------------------------------------
(***************************************************************************)
(* Types                                                                   *)
(***************************************************************************)

\* The states of the calls change by these functions.
LEMMA CancelAllType ==
  ASSUME CommandTypeOK, MQTTAgent_CancelAll
  PROVE  /\ queue' \in Seq(CommandRecords) /\ Len(queue') <= QueueLength
         /\ acks' \subseteq CommandRecords /\ pool' \subseteq Commands
         /\ status' \in [Contexts -> {"success", "failed"}]
         /\ notified' \in [Tasks -> BOOLEAN]
         /\ UNCHANGED <<pc, result, clean, list, registration, slot>>
<1>1. pool' \subseteq Commands
  BY DEF MQTTAgent_CancelAll, CommandTypeOK, CommandRecords
<1>2. status' \in [Contexts -> {"success", "failed"}]
  BY DEF MQTTAgent_CancelAll, CommandTypeOK
<1>3. notified' \in [Tasks -> BOOLEAN]
  <2>1. notified' = [t \in Tasks |-> notified[t] \/ \E h \in CommandRecords : Outstanding(h) /\ Owner[h.ctx] = t]
    BY DEF MQTTAgent_CancelAll
  <2>2. \A t \in Tasks : (notified[t] \/ \E h \in CommandRecords : Outstanding(h) /\ Owner[h.ctx] = t) \in BOOLEAN
    OBVIOUS
  <2>3. QED  BY <2>1, <2>2
<1>4. queue' \in Seq(CommandRecords) /\ Len(queue') <= QueueLength /\ acks' \subseteq CommandRecords
  BY MqttAssumption DEF MQTTAgent_CancelAll
<1>5. QED  BY <1>1, <1>2, <1>3, <1>4 DEF MQTTAgent_CancelAll, listVars

LEMMA ConcludeType ==
  ASSUME CommandTypeOK, NEW h \in CommandRecords, NEW s \in {"success", "failed"}, Conclude(h, s)
  PROVE  /\ status' \in [Contexts -> {"success", "failed"}]
         /\ notified' \in [Tasks -> BOOLEAN]
         /\ pool' \subseteq Commands
         /\ list' \in [Slots -> [filter : Filters \cup {NoFilter}, callback : BOOLEAN]]
         /\ UNCHANGED <<pc, result, clean, registration, slot>>
<1>1. h.ctx \in Contexts /\ h.cmd \in Commands
  BY DEF CommandRecords
<1>2. status' \in [Contexts -> {"success", "failed"}] /\ notified' \in [Tasks -> BOOLEAN]
      /\ pool' \subseteq Commands
  BY <1>1 DEF Conclude, CommandTypeOK
<1>3. list' \in [Slots -> [filter : Filters \cup {NoFilter}, callback : BOOLEAN]]
  BY ListType DEF Conclude, CommandTypeOK
<1>4. QED  BY <1>2, <1>3 DEF Conclude

LEMMA ReturnType ==
  ASSUME CommandTypeOK, NEW t \in Tasks, NEW r \in {"success", "failed"}, Return(t, r)
  PROVE  /\ pc' \in [Tasks -> [at : {"idle", "get", "send", "wait"}, ctx : Contexts, cmd : Commands]]
         /\ \A u \in Tasks : pc'[u].at # "idle" => Owner[pc'[u].ctx] = u
         /\ result' \in [Subscribers -> {"none", "success", "failed"}]
         /\ clean' \in [Tasks -> BOOLEAN]
  BY IdleType DEF Return, CommandTypeOK, Idle

LEMMA InitTypes == MqttInit => CommandTypeOK
<1> SUFFICES ASSUME MqttInit PROVE CommandTypeOK
  OBVIOUS
<1>2. queue = <<>> /\ queue \in Seq(CommandRecords) /\ Len(queue) <= QueueLength
  BY MqttAssumption DEF MqttInit
<1>3. pc \in [Tasks -> [at : {"idle", "get", "send", "wait"}, ctx : Contexts, cmd : Commands]]
      /\ \A t \in Tasks : pc[t].at = "idle"
  BY IdleType, MqttAssumption DEF MqttInit, Idle, Commands, Contexts
<1>4. slot \in Slots
  BY MqttAssumption DEF MqttInit, Slots
<1>6. list \in [Slots -> [filter : Filters \cup {NoFilter}, callback : BOOLEAN]]
  BY DEF MqttInit, Empty
<1>7. /\ acks \subseteq CommandRecords /\ pool \subseteq Commands /\ session \subseteq Filters
      /\ faults \in 0 .. MaxFaults
  BY MqttAssumption DEF MqttInit
<1>8. /\ status \in [Contexts -> {"success", "failed"}]
      /\ notified \in [Tasks -> BOOLEAN] /\ clean \in [Tasks -> BOOLEAN]
      /\ result \in [Subscribers -> {"none", "success", "failed"}]
  BY DEF MqttInit
<1>9. connectedBit \in BOOLEAN /\ cleanSession \in BOOLEAN
  BY DEF MqttInit
<1>5. QED
  BY <1>2, <1>3, <1>4, <1>6, <1>7, <1>8, <1>9 DEF MqttInit, CommandTypeOK

\* One step per action of a calling task.
LEMMA CallTypes ==
  ASSUME CommandTypeOK, NEW t \in Tasks, Calls(t)
  PROVE  CommandTypeOK'
<1>1. CASE Agent_GetCommand(t)
  <2>1. PICK k \in pool : /\ pool' = pool \ {k}
                          /\ pc' = [pc EXCEPT ![t] = [at |-> "send", ctx |-> pc[t].ctx, cmd |-> k]]
    BY <1>1 DEF Agent_GetCommand
  <2>2. /\ pc' \in [Tasks -> [at : {"idle", "get", "send", "wait"}, ctx : Contexts, cmd : Commands]]
        /\ \A u \in Tasks : pc'[u].at # "idle" => Owner[pc'[u].ctx] = u
    <3>2. k \in Commands /\ pc[t].ctx \in Contexts /\ Owner[pc[t].ctx] = t
      BY <1>1 DEF CommandTypeOK, Agent_GetCommand
    <3>3. QED
      BY <2>1, <3>2 DEF CommandTypeOK
  <2>3. QED
    BY <1>1, <2>1, <2>2 DEF CommandTypeOK, Agent_GetCommand, connectionVars, listVars
<1>2. CASE NoCommand(t)
  BY <1>2, ReturnType DEF CommandTypeOK, NoCommand, connectionVars, commandVars, listVars
<1>3. CASE Agent_MessageSend(t)
  <2>1. [cmd |-> pc[t].cmd, ctx |-> pc[t].ctx] \in CommandRecords
    BY DEF CommandTypeOK, CommandRecords
  <2>2. queue' \in Seq(CommandRecords) /\ Len(queue') <= QueueLength
    BY <1>3, <2>1, QueueAppend, MqttAssumption DEF CommandTypeOK, Agent_MessageSend
  <2>3. QED
    BY <1>3, <2>2 DEF CommandTypeOK, Agent_MessageSend, connectionVars, listVars
<1>4. CASE QueueFull(t)
  <2>1. pool' \subseteq Commands
    BY <1>4 DEF CommandTypeOK, QueueFull
  <2>2. QED
    BY <1>4, <2>1, ReturnType DEF CommandTypeOK, QueueFull, connectionVars, listVars
<1>5. CASE Notified(t)
  <2>1. status[pc[t].ctx] \in {"success", "failed"}
    BY DEF CommandTypeOK
  <2>2. notified' \in [Tasks -> BOOLEAN]
    BY <1>5 DEF CommandTypeOK, Notified
  <2>3. QED
    BY <1>5, <2>1, <2>2, ReturnType DEF CommandTypeOK, Notified, connectionVars, commandVars, listVars
<1>6. CASE TimedOut(t)
  BY <1>6, ReturnType DEF CommandTypeOK, TimedOut, connectionVars, commandVars, listVars
<1>7. QED
  BY <1>1, <1>2, <1>3, <1>4, <1>5, <1>6 DEF Calls

LEMMA BeginTypes ==
  ASSUME CommandTypeOK, NEW c \in Contexts, BeginCall(c)
  PROVE  CommandTypeOK'
<1>1. Owner[c] \in Tasks
  BY OwnerType
<1>2. 1 \in Commands
  BY MqttAssumption DEF Commands
<1>3. status' \in [Contexts -> {"success", "failed"}]
  BY DEF CommandTypeOK, BeginCall
<1>4. notified' \in [Tasks -> BOOLEAN]
  BY DEF CommandTypeOK, BeginCall
<1>5. clean' \in [Tasks -> BOOLEAN]
  <2>1. (\A h \in CommandRecords : Outstanding(h) => Owner[h.ctx] # Owner[c]) \in BOOLEAN
    OBVIOUS
  <2>2. clean' = [clean EXCEPT ![Owner[c]] = \A h \in CommandRecords : Outstanding(h) => Owner[h.ctx] # Owner[c]]
    BY DEF BeginCall
  <2>3. QED  BY <2>1, <2>2 DEF CommandTypeOK
<1>6. pc' = [pc EXCEPT ![Owner[c]] = [at |-> "get", ctx |-> c, cmd |-> 1]]
  BY DEF BeginCall
<1>7. pc' \in [Tasks -> [at : {"idle", "get", "send", "wait"}, ctx : Contexts, cmd : Commands]]
      /\ \A t \in Tasks : pc'[t].at # "idle" => Owner[pc'[t].ctx] = t
  BY <1>1, <1>2, <1>6 DEF CommandTypeOK
<1>8. QED
  BY <1>3, <1>4, <1>5, <1>7 DEF CommandTypeOK, BeginCall, connectionVars, commandVars, listVars

LEMMA DemoTypes ==
  ASSUME CommandTypeOK, Demo
  PROVE  CommandTypeOK'
<1>1. CASE ChooseSlot
  BY <1>1 DEF ChooseSlot, FirstUnused, CommandTypeOK, connectionVars, commandVars, callVars
<1>2. CASE WriteFilter
  <2>1. "jobs" \in Filters  BY DEF Filters
  <2>2. list' \in [Slots -> [filter : Filters \cup {NoFilter}, callback : BOOLEAN]]
    BY <1>2, <2>1 DEF WriteFilter, CommandTypeOK
  <2>3. QED
    BY <1>2, <2>2 DEF WriteFilter, CommandTypeOK, connectionVars, commandVars, callVars
<1>3. CASE WriteCallback
  <2>1. list' \in [Slots -> [filter : Filters \cup {NoFilter}, callback : BOOLEAN]]
    <3>1. list' = [list EXCEPT ![slot] = [filter |-> list[slot].filter, callback |-> TRUE]]
      BY <1>3 DEF WriteCallback
    <3>2. list[slot].filter \in Filters \cup {NoFilter} /\ TRUE \in BOOLEAN
      BY DEF CommandTypeOK
    <3>3. QED  BY <3>1, <3>2 DEF CommandTypeOK
  <2>2. QED
    BY <1>3, <2>1 DEF WriteCallback, CommandTypeOK, connectionVars, commandVars, callVars
<1>4. QED  BY <1>1, <1>2, <1>3 DEF Demo

LEMMA AgentTypes ==
  ASSUME CommandTypeOK, AgentTask
  PROVE  CommandTypeOK'
<1> USE MqttAssumption DEF AgentAt, Fault
<1>1. CASE SocketConnected \/ BackedOff
  BY <1>1 DEF CommandTypeOK, SocketConnected, BackedOff, commandVars, callVars, listVars
<1>11. CASE SocketRefused
  BY <1>11 DEF CommandTypeOK, SocketRefused, commandVars, callVars, listVars
<1>2. CASE CancelBeforeConnect
  <2>1. agentPc' = "CONNECT" /\ UNCHANGED <<connectedBit, cleanSession, session, faults>>
    BY <1>2 DEF CancelBeforeConnect
  <2>2. /\ queue' \in Seq(CommandRecords) /\ Len(queue') <= QueueLength
        /\ acks' \subseteq CommandRecords /\ pool' \subseteq Commands
        /\ status' \in [Contexts -> {"success", "failed"}]
        /\ notified' \in [Tasks -> BOOLEAN]
        /\ UNCHANGED <<pc, result, clean, list, registration, slot>>
    <3>1. MQTTAgent_CancelAll
      BY <1>2 DEF CancelBeforeConnect
    <3>2. QED  BY <3>1, CancelAllType
  <2>3. QED  BY <2>1, <2>2 DEF CommandTypeOK
<1>3. CASE Connected
  BY <1>3 DEF CommandTypeOK, Connected, commandVars, callVars, listVars
<1>4. CASE ConnectRefused
  <2>1. connectedBit' \in BOOLEAN /\ agentPc' = "backoff" /\ faults' \in 0 .. MaxFaults
    <3>1. connectedBit' = FALSE /\ agentPc' = "backoff" /\ Fault
      BY <1>4 DEF ConnectRefused
    <3>2. faults' \in 0 .. MaxFaults
      BY <3>1 DEF CommandTypeOK
    <3>3. QED  BY <3>1, <3>2
  <2>2. QED
    BY <1>4, <2>1 DEF CommandTypeOK, ConnectRefused, commandVars, callVars, listVars
<1>12. CASE ConnectionLost
  BY <1>12 DEF CommandTypeOK, ConnectionLost, commandVars, callVars, listVars
<1>13. CASE LoopEnded
  BY <1>13 DEF CommandTypeOK, LoopEnded, commandVars, callVars, listVars
<1>5. CASE CommandSent
  <2>1. Head(queue) \in CommandRecords /\ queue' \in Seq(CommandRecords) /\ Len(queue') <= QueueLength
    BY <1>5, QueueHead DEF CommandSent, CommandTypeOK
  <2>2. CASE Head(queue).ctx \in Acked
    BY <1>5, <2>1, <2>2 DEF CommandSent, CommandTypeOK, connectionVars, callVars, listVars
  <2>3. CASE Head(queue).ctx \notin Acked
    BY <1>5, <2>1, <2>3, ConcludeType DEF CommandSent, CommandTypeOK, connectionVars
  <2>4. QED  BY <2>2, <2>3
<1>6. CASE SendFails
  <2>1. Head(queue) \in CommandRecords /\ queue' \in Seq(CommandRecords) /\ Len(queue') <= QueueLength
    BY <1>6, QueueHead DEF SendFails, CommandTypeOK
  <2>2. QED  BY <1>6, <2>1, ConcludeType DEF SendFails, CommandTypeOK
<1>7. CASE CancelAfterLoop
  <2>1. agentPc' = "connect" /\ connectedBit' = FALSE /\ UNCHANGED <<cleanSession, session, faults>>
    BY <1>7 DEF CancelAfterLoop
  <2>2. /\ queue' \in Seq(CommandRecords) /\ Len(queue') <= QueueLength
        /\ acks' \subseteq CommandRecords /\ pool' \subseteq Commands
        /\ status' \in [Contexts -> {"success", "failed"}]
        /\ notified' \in [Tasks -> BOOLEAN]
        /\ UNCHANGED <<pc, result, clean, list, registration, slot>>
    <3>1. MQTTAgent_CancelAll
      BY <1>7 DEF CancelAfterLoop
    <3>2. QED  BY <3>1, CancelAllType
  <2>3. QED  BY <2>1, <2>2 DEF CommandTypeOK
<1>8. QED
  BY <1>1, <1>2, <1>3, <1>4, <1>5, <1>6, <1>7, <1>11, <1>12, <1>13 DEF AgentTask

LEMMA AcknowledgedTypes ==
  ASSUME CommandTypeOK, NEW k \in Commands, Acknowledged(k)
  PROVE  CommandTypeOK'
<1>1. PICK h \in acks :
        /\ acks' = acks \ {h}
        /\ \/ /\ Conclude(h, "success")
              /\ session' = session \cup {Filter[c] : c \in {h.ctx} \cap Subscribers}
           \/ Conclude(h, "failed") /\ UNCHANGED session
  BY DEF Acknowledged
<1>2. h \in CommandRecords
  BY DEF CommandTypeOK
<1>3. session' \subseteq Filters
  BY <1>1, FilterType DEF CommandTypeOK
<1>4. QED
  BY <1>1, <1>2, <1>3, ConcludeType DEF Acknowledged, CommandTypeOK

LEMMA StepTypes == CommandTypeOK /\ [Next]_vars => CommandTypeOK'
<1>1. SUFFICES ASSUME CommandTypeOK, [Next]_vars PROVE CommandTypeOK'
  OBVIOUS
<1>2. CASE Next
  BY <1>1, <1>2, BeginTypes, CallTypes, DemoTypes, AgentTypes, AcknowledgedTypes DEF Next
<1>3. CASE UNCHANGED vars
  BY <1>1, <1>3 DEF CommandTypeOK, vars, connectionVars, commandVars, callVars, listVars
<1>4. QED  BY <1>1, <1>2, <1>3

\* The types of the agent, its callers and the subscription list.
THEOREM CommandTypesCorrect == Spec => []CommandTypeOK
  BY InitTypes, StepTypes, PTL DEF Spec

-----------------------------------------------------------------------------
(***************************************************************************)
(* One holder for each command structure                                   *)
(***************************************************************************)

Distinct == \A k, l \in 1 .. Len(queue) : queue[k] = queue[l] => k = l

\* The commands that are outstanding after one has been queued, ...
LEMMA OutstandingAfterSend ==
  ASSUME CommandTypeOK, Distinct, NEW e \in CommandRecords,
         queue' = Append(queue, e), acks' = acks, ~InQueue(e)
  PROVE  /\ \A h \in CommandRecords : InQueue(h)' <=> (InQueue(h) \/ h = e)
         /\ Distinct'
<1>1. queue \in Seq(CommandRecords)  BY DEF CommandTypeOK
<1>2. \A h \in CommandRecords : InQueue(h)' <=> (InQueue(h) \/ h = e)
  <2> TAKE h \in CommandRecords
  <2>1. ASSUME InQueue(h) PROVE InQueue(h)'
    BY <1>1, <2>1, QueueAppend DEF InQueue
  <2>2. ASSUME h = e PROVE InQueue(h)'
    <3>1. Len(queue) + 1 \in 1 .. Len(queue') /\ queue'[Len(queue) + 1] = e
      BY <1>1, QueueAppend
    <3>2. QED  BY <2>2, <3>1 DEF InQueue
  <2>3. ASSUME InQueue(h)', h # e PROVE InQueue(h)
    <3>1. PICK k \in 1 .. Len(queue') : queue'[k] = h
      BY <2>3 DEF InQueue
    <3>2. k \in 1 .. Len(queue) /\ queue[k] = h
      BY <1>1, <2>3, <3>1, QueueAppend
    <3>3. QED  BY <3>2 DEF InQueue
  <2>4. QED  BY <2>1, <2>2, <2>3
<1>3. Distinct'
  BY <1>1, QueueAppend DEF Distinct, InQueue
<1>4. QED  BY <1>2, <1>3

\* ... and after the first has left the queue.
LEMMA OutstandingAfterTail ==
  ASSUME CommandTypeOK, Distinct, queue # <<>>, queue' = Tail(queue)
  PROVE  /\ InQueue(Head(queue))
         /\ \A h \in CommandRecords : InQueue(h)' <=> (InQueue(h) /\ h # Head(queue))
         /\ Distinct'
<1>1. queue \in Seq(CommandRecords)  BY DEF CommandTypeOK
<1>2. InQueue(Head(queue))
  BY <1>1, QueueHead DEF InQueue
<1>3. \A h \in CommandRecords : InQueue(h)' <=> (InQueue(h) /\ h # Head(queue))
  <2> TAKE h \in CommandRecords
  <2>1. ASSUME InQueue(h)' PROVE InQueue(h) /\ h # Head(queue)
    <3>1. PICK k \in 1 .. Len(queue') : queue'[k] = h
      BY <2>1 DEF InQueue
    <3>2. k + 1 \in 1 .. Len(queue) /\ queue[k + 1] = h /\ k + 1 # 1
      BY <1>1, <3>1, QueueHead
    <3>3. QED  BY <1>1, <3>2, QueueHead DEF InQueue, Distinct
  <2>2. ASSUME InQueue(h), h # Head(queue) PROVE InQueue(h)'
    <3>1. PICK k \in 1 .. Len(queue) : queue[k] = h
      BY <2>2 DEF InQueue
    <3>2. k - 1 \in 1 .. Len(queue') /\ queue'[k - 1] = h
      BY <1>1, <2>2, <3>1, QueueHead
    <3>3. QED  BY <3>2 DEF InQueue
  <2>3. QED  BY <2>1, <2>2
<1>4. Distinct'
  BY <1>1, QueueHead DEF Distinct
<1>5. QED  BY <1>2, <1>3, <1>4

\* A cancellation leaves none.
LEMMA OutstandingAfterCancel ==
  ASSUME CommandTypeOK, MQTTAgent_CancelAll
  PROVE  (\A h \in CommandRecords : ~Outstanding(h)') /\ Distinct'
  BY DEF MQTTAgent_CancelAll, Outstanding, InQueue, Distinct

\* The parts of OneHolder: what is outstanding, and what a task has taken.
Conserved ==
  \A h \in CommandRecords : Outstanding(h) =>
    /\ h.cmd \notin pool
    /\ \A t \in Tasks : Holding(t) => pc[t].cmd # h.cmd
    /\ \A g \in CommandRecords : Outstanding(g) /\ g.cmd = h.cmd => g = h

Taken ==
  \A t, u \in Tasks : Holding(t) =>
    /\ pc[t].cmd \notin pool
    /\ Holding(u) /\ pc[u].cmd = pc[t].cmd => u = t

Sent == \A h \in acks : ~InQueue(h)

LEMMA HolderParts == OneHolder <=> Conserved /\ Sent /\ Distinct /\ Taken
  BY DEF OneHolder, Conserved, Sent, Distinct, Taken

HolderInv == CommandTypeOK /\ Conserved /\ Sent /\ Distinct /\ Taken

LEMMA InitHolders == MqttInit => Conserved /\ Sent /\ Distinct /\ Taken
  BY DEF MqttInit, Conserved, Sent, Distinct, Taken, Outstanding, InQueue, Holding, Idle

\* Nothing moves when queue, acks and pool stay, and no task takes one.
LEMMA QuietHolders ==
  ASSUME HolderInv, UNCHANGED commandVars,
         \A t \in Tasks : Holding(t)' => Holding(t) /\ pc'[t].cmd = pc[t].cmd
  PROVE  (Conserved /\ Sent /\ Distinct /\ Taken)'
  BY DEF HolderInv, Conserved, Sent, Distinct, Taken, Outstanding, InQueue, commandVars

LEMMA ReturnHolds ==
  ASSUME CommandTypeOK, NEW t \in Tasks, NEW r, Return(t, r)
  PROVE  /\ ~Holding(t)'
         /\ \A u \in Tasks : u # t => (Holding(u)' <=> Holding(u)) /\ pc'[u] = pc[u]
  BY DEF CommandTypeOK, Return, Holding, Idle

LEMMA CallHolders ==
  ASSUME HolderInv, NEW t \in Tasks, Calls(t)
  PROVE  (Conserved /\ Sent /\ Distinct /\ Taken)'
<1> USE DEF HolderInv
<1>1. CASE Agent_GetCommand(t)
  <2>1. PICK k \in pool : /\ pool' = pool \ {k}
                          /\ pc' = [pc EXCEPT ![t] = [at |-> "send", ctx |-> pc[t].ctx, cmd |-> k]]
    BY <1>1 DEF Agent_GetCommand
  <2>2. /\ Holding(t)' /\ pc'[t].cmd = k
        /\ \A u \in Tasks : u # t => (Holding(u)' <=> Holding(u)) /\ pc'[u] = pc[u]
    BY <2>1 DEF Holding, CommandTypeOK
  <2>3. \A h \in CommandRecords : Outstanding(h)' <=> Outstanding(h)
    BY <1>1 DEF Agent_GetCommand, Outstanding, InQueue
  <2>4. Conserved'
    BY <2>1, <2>2, <2>3 DEF Conserved
  <2>5. Taken'
    BY <2>1, <2>2 DEF Taken
  <2>6. (Sent /\ Distinct)'
    BY <1>1 DEF Agent_GetCommand, Sent, Distinct, InQueue
  <2>7. QED  BY <2>4, <2>5, <2>6
<1>2. CASE NoCommand(t) \/ TimedOut(t) \/ Notified(t)
  <2>1. \E r : Return(t, r)
    BY <1>2 DEF NoCommand, TimedOut, Notified
  <2>2. UNCHANGED commandVars
    BY <1>2 DEF NoCommand, TimedOut, Notified
  <2>3. QED  BY <2>1, <2>2, ReturnHolds, QuietHolders
<1>3. CASE Agent_MessageSend(t)
  <2> DEFINE e == [cmd |-> pc[t].cmd, ctx |-> pc[t].ctx]
  <2>1. e \in CommandRecords /\ e.cmd = pc[t].cmd /\ Holding(t)
    BY <1>3 DEF CommandTypeOK, CommandRecords, Agent_MessageSend, Holding
  <2>2. ~Outstanding(e)
    BY <2>1 DEF Conserved
  <2>3. /\ \A h \in CommandRecords : InQueue(h)' <=> (InQueue(h) \/ h = e)
        /\ Distinct'
    BY <1>3, <2>1, <2>2, OutstandingAfterSend DEF Agent_MessageSend, Outstanding
  <2>4. /\ ~Holding(t)'
        /\ \A u \in Tasks : u # t => (Holding(u)' <=> Holding(u)) /\ pc'[u] = pc[u]
    BY <1>3 DEF Agent_MessageSend, Holding, CommandTypeOK
  <2>5. pool' = pool /\ acks' = acks
    BY <1>3 DEF Agent_MessageSend
  <2>6. \A h \in CommandRecords : Outstanding(h)' <=> (Outstanding(h) \/ h = e)
    BY <2>3, <2>5 DEF Outstanding
  <2>7. e.cmd \notin pool /\ \A u \in Tasks : u # t /\ Holding(u) => pc[u].cmd # e.cmd
    BY <2>1 DEF Taken
  <2> HIDE DEF e
  <2>8. Conserved'
    BY <2>1, <2>4, <2>5, <2>6, <2>7 DEF Conserved
  <2>9. Taken'
    BY <2>4, <2>5 DEF Taken
  <2>10. Sent'
    BY <2>2, <2>3, <2>5 DEF Sent, Outstanding, CommandTypeOK
  <2>11. QED  BY <2>3, <2>8, <2>9, <2>10
<1>4. CASE QueueFull(t)
  <2>1. /\ Holding(t) /\ ~Holding(t)'
        /\ \A u \in Tasks : u # t => (Holding(u)' <=> Holding(u)) /\ pc'[u] = pc[u]
    BY <1>4, ReturnHolds DEF QueueFull, Holding
  <2>2. pool' = pool \cup {pc[t].cmd} /\ queue' = queue /\ acks' = acks
    BY <1>4 DEF QueueFull
  <2>3. \A h \in CommandRecords : (Outstanding(h)' <=> Outstanding(h))
    BY <2>2 DEF Outstanding, InQueue
  <2>4. Conserved'
    BY <2>1, <2>2, <2>3 DEF Conserved
  <2>5. Taken'
    BY <2>1, <2>2 DEF Taken
  <2>6. (Sent /\ Distinct)'
    BY <2>2 DEF Sent, Distinct, InQueue
  <2>7. QED  BY <2>4, <2>5, <2>6
<1>5. QED
  BY <1>1, <1>2, <1>3, <1>4 DEF Calls

LEMMA BeginHolders ==
  ASSUME HolderInv, NEW c \in Contexts, BeginCall(c)
  PROVE  (Conserved /\ Sent /\ Distinct /\ Taken)'
<1>1. \A t \in Tasks : Holding(t)' => Holding(t) /\ pc'[t].cmd = pc[t].cmd
  BY OwnerType DEF BeginCall, Holding, HolderInv, CommandTypeOK
<1>2. QED  BY <1>1, QuietHolders DEF BeginCall

\* A command that is concluded, queued or sent before, is in the pool again.
LEMMA ConcludeHolders ==
  ASSUME HolderInv, NEW h \in CommandRecords, Outstanding(h),
         pool' = pool \cup {h.cmd}, pc' = pc,
         \A g \in CommandRecords : Outstanding(g)' <=> (Outstanding(g) /\ g # h)
  PROVE  (Conserved /\ Taken)'
<1>1. \A t \in Tasks : Holding(t)' <=> Holding(t)
  BY DEF Holding
<1>2. Conserved'
  BY <1>1 DEF Conserved, HolderInv
<1>3. Taken'
  BY <1>1 DEF Conserved, Taken, HolderInv
<1>4. QED  BY <1>2, <1>3

LEMMA AgentHolders ==
  ASSUME HolderInv, AgentTask
  PROVE  (Conserved /\ Sent /\ Distinct /\ Taken)'
<1> USE DEF HolderInv
<1>1. CASE CancelBeforeConnect \/ CancelAfterLoop
  <2>1. MQTTAgent_CancelAll
    BY <1>1 DEF CancelBeforeConnect, CancelAfterLoop
  <2>2. Conserved' /\ Distinct' /\ Sent'
    BY <2>1, OutstandingAfterCancel DEF Conserved, Sent, MQTTAgent_CancelAll
  <2>3. Taken'
    <3>1. pool' = pool \cup {h.cmd : h \in {k \in CommandRecords : Outstanding(k)}} /\ pc' = pc
      BY <2>1 DEF MQTTAgent_CancelAll
    <3>2. \A t \in Tasks : Holding(t)' <=> Holding(t)
      BY <3>1 DEF Holding
    <3>3. QED  BY <3>1, <3>2 DEF Taken, Conserved
  <2>4. QED  BY <2>2, <2>3
<1>2. CASE CommandSent \/ SendFails
  <2> DEFINE h == Head(queue)
  <2>1. h \in CommandRecords /\ queue # <<>> /\ queue' = Tail(queue)
    BY <1>2, QueueHead DEF CommandSent, SendFails, CommandTypeOK
  <2>2. /\ InQueue(h) /\ Outstanding(h)
        /\ \A g \in CommandRecords : InQueue(g)' <=> (InQueue(g) /\ g # h)
        /\ Distinct'
    BY <2>1, OutstandingAfterTail DEF Outstanding
  <2>3. h \notin acks
    BY <2>2 DEF Sent
  <2> HIDE DEF h
  <2>4. CASE acks' = acks /\ \E s : Conclude(h, s)
    <3>1. \A g \in CommandRecords : Outstanding(g)' <=> (Outstanding(g) /\ g # h)
      BY <2>2, <2>3, <2>4 DEF Outstanding
    <3>2. pool' = pool \cup {h.cmd} /\ pc' = pc
      BY <2>4 DEF Conclude
    <3>3. (Conserved /\ Taken)'
      BY <2>1, <2>2, <3>1, <3>2, ConcludeHolders
    <3>4. Sent'
      BY <2>2, <2>4 DEF Sent, CommandTypeOK
    <3>5. QED  BY <2>2, <3>3, <3>4
  <2>5. CASE acks' = acks \cup {h} /\ pool' = pool /\ pc' = pc
    <3>1. \A g \in CommandRecords : Outstanding(g)' <=> Outstanding(g)
      BY <2>2, <2>3, <2>5 DEF Outstanding
    <3>2. \A t \in Tasks : Holding(t)' <=> Holding(t)
      BY <2>5 DEF Holding
    <3>3. (Conserved /\ Taken)'
      BY <2>5, <3>1, <3>2 DEF Conserved, Taken
    <3>4. Sent'
      BY <2>1, <2>2, <2>5 DEF Sent, CommandTypeOK
    <3>5. QED  BY <2>2, <3>3, <3>4
  <2>6. QED  BY <1>2, <2>4, <2>5 DEF CommandSent, SendFails, callVars, h
<1>3. CASE SocketConnected \/ SocketRefused \/ BackedOff \/ Connected \/ ConnectRefused
           \/ ConnectionLost \/ LoopEnded
  <2>1. UNCHANGED commandVars /\ UNCHANGED pc
    BY <1>3 DEF SocketConnected, SocketRefused, BackedOff, Connected, ConnectRefused,
                ConnectionLost, LoopEnded, callVars
  <2>2. QED  BY <2>1, QuietHolders DEF Holding
<1>4. QED
  BY <1>1, <1>2, <1>3 DEF AgentTask

LEMMA AcknowledgedHolders ==
  ASSUME HolderInv, NEW k \in Commands, Acknowledged(k)
  PROVE  (Conserved /\ Sent /\ Distinct /\ Taken)'
<1> USE DEF HolderInv
<1>1. PICK h \in acks : acks' = acks \ {h} /\ \E s : Conclude(h, s)
  BY DEF Acknowledged
<1>2. h \in CommandRecords /\ Outstanding(h) /\ ~InQueue(h)
  BY DEF CommandTypeOK, Outstanding, Sent
<1>3. \A g \in CommandRecords : InQueue(g)' <=> InQueue(g)
  BY DEF Acknowledged, InQueue
<1>4. \A g \in CommandRecords : Outstanding(g)' <=> (Outstanding(g) /\ g # h)
  BY <1>1, <1>2, <1>3 DEF Outstanding
<1>5. (Conserved /\ Taken)'
  BY <1>1, <1>2, <1>4, ConcludeHolders DEF Conclude
<1>6. (Sent /\ Distinct)'
  BY <1>1, <1>3 DEF Sent, Distinct, Acknowledged, CommandTypeOK
<1>7. QED  BY <1>5, <1>6

LEMMA StepHolders == HolderInv /\ [Next]_vars => (Conserved /\ Sent /\ Distinct /\ Taken)'
<1> SUFFICES ASSUME HolderInv, [Next]_vars PROVE (Conserved /\ Sent /\ Distinct /\ Taken)'
  OBVIOUS
<1>1. CASE Demo \/ UNCHANGED vars
  <2>1. UNCHANGED commandVars /\ UNCHANGED pc
    BY <1>1 DEF Demo, ChooseSlot, WriteFilter, WriteCallback, vars, callVars
  <2>2. QED  BY <2>1, QuietHolders DEF Holding
<1>2. QED
  BY <1>1, BeginHolders, CallHolders, AgentHolders, AcknowledgedHolders DEF Next

\* Each command structure of the pool is in one place, so that none is given back
\* twice and none is used by two commands, whatever times out or is cancelled.
THEOREM OneHolderEach == Spec => []OneHolder
<1>1. MqttInit => HolderInv
  BY InitTypes, InitHolders DEF HolderInv
<1>2. HolderInv /\ [Next]_vars => HolderInv'
  BY StepTypes, StepHolders DEF HolderInv
<1>3. HolderInv => OneHolder
  BY HolderParts DEF HolderInv
<1>4. QED  BY <1>1, <1>2, <1>3, PTL DEF Spec

-----------------------------------------------------------------------------
(***************************************************************************)
(* The connected bit, and whose answer ends a wait                         *)
(***************************************************************************)

\* The bit is only set where the command loop runs: every task that is told that
\* its command was cancelled finds it clear.
THEOREM BitClearedBeforeCancel == Spec => []BitClearedFirst
<1>1. MqttInit => BitClearedFirst
  BY DEF MqttInit, BitClearedFirst
<1>2. BitClearedFirst /\ [Next]_vars => BitClearedFirst'
  <2> SUFFICES ASSUME BitClearedFirst, [Next]_vars PROVE BitClearedFirst'
    OBVIOUS
  <2> USE DEF BitClearedFirst, AgentAt
  <2>1. ASSUME NEW c \in Contexts, BeginCall(c) PROVE BitClearedFirst'
    BY <2>1 DEF BeginCall, connectionVars
  <2>2. ASSUME NEW t \in Tasks, Calls(t) PROVE BitClearedFirst'
    BY <2>2 DEF Calls, Agent_GetCommand, NoCommand, Agent_MessageSend, QueueFull, Notified,
                TimedOut, connectionVars
  <2>3. CASE Demo \/ UNCHANGED vars
    BY <2>3 DEF Demo, ChooseSlot, WriteFilter, WriteCallback, vars, connectionVars
  <2>4. CASE AgentTask
    BY <2>4 DEF AgentTask, SocketConnected, SocketRefused, BackedOff, CancelBeforeConnect,
                Connected, ConnectRefused, CommandSent, SendFails, ConnectionLost, LoopEnded,
                CancelAfterLoop, connectionVars
  <2>5. ASSUME NEW k \in Commands, Acknowledged(k) PROVE BitClearedFirst'
    BY <2>5 DEF Acknowledged
  <2>6. QED  BY <2>1, <2>2, <2>3, <2>4, <2>5 DEF Next
<1>3. QED  BY <1>1, <1>2, PTL DEF Spec

\* Of a task whose call began with none of its commands left, only the call's own
\* is outstanding, and while it is the task has no notification.
Own(t) == [cmd |-> pc[t].cmd, ctx |-> pc[t].ctx]

OwnOnly ==
  \A t \in Tasks : clean[t] =>
    /\ pc[t].at \in {"get", "send"} =>
         ~notified[t] /\ \A h \in CommandRecords : Outstanding(h) => Owner[h.ctx] # t
    /\ pc[t].at = "wait" =>
         \A h \in CommandRecords : Outstanding(h) /\ Owner[h.ctx] = t => h = Own(t) /\ ~notified[t]

OwnInv == HolderInv /\ OwnOnly

LEMMA InitOwn == MqttInit => OwnOnly
  BY DEF MqttInit, OwnOnly, Idle

LEMMA OwnImplies == OwnOnly => AnswerIsOwn
  BY DEF OwnOnly, AnswerIsOwn

\* Fewer outstanding commands, and no new notification.
LEMMA QuietOwn ==
  ASSUME OwnInv, UNCHANGED <<pc, clean>>, notified' = notified,
         \A h \in CommandRecords : Outstanding(h)' => Outstanding(h)
  PROVE  OwnOnly'
  BY DEF OwnInv, OwnOnly, Own

LEMMA BeginOwn ==
  ASSUME OwnInv, NEW c \in Contexts, BeginCall(c)
  PROVE  OwnOnly'
<1> DEFINE t == Owner[c]
<1>1. t \in Tasks
  BY OwnerType
<1>2. \A h \in CommandRecords : Outstanding(h)' <=> Outstanding(h)
  BY DEF BeginCall, commandVars, Outstanding, InQueue
<1>3. /\ pc'[t].at = "get" /\ ~notified'[t]
      /\ clean'[t] = (\A h \in CommandRecords : Outstanding(h) => Owner[h.ctx] # t)
  BY <1>1 DEF BeginCall, OwnInv, HolderInv, CommandTypeOK
<1>4. \A u \in Tasks : u # t => pc'[u] = pc[u] /\ notified'[u] = notified[u] /\ clean'[u] = clean[u]
  BY <1>1 DEF BeginCall, OwnInv, HolderInv, CommandTypeOK
<1>5. clean'[t] => \A h \in CommandRecords : Outstanding(h)' => Owner[h.ctx] # t
  BY <1>2, <1>3
<1>6. pc'[t].at = "get" /\ ~notified'[t]
  BY <1>3
<1> HIDE DEF t
<1>7. ASSUME NEW u \in Tasks, clean'[u], u # t
      PROVE  /\ pc'[u].at \in {"get", "send"} =>
                  ~notified'[u] /\ \A h \in CommandRecords : Outstanding(h)' => Owner[h.ctx] # u
             /\ pc'[u].at = "wait" =>
                  \A h \in CommandRecords : Outstanding(h)' /\ Owner[h.ctx] = u =>
                    h = Own(u)' /\ ~notified'[u]
  BY <1>2, <1>4, <1>7 DEF OwnInv, OwnOnly, Own
<1>8. QED
  BY <1>5, <1>6, <1>7 DEF OwnOnly

\* A task that returns makes no promise any more.
LEMMA ReturnOwn ==
  ASSUME OwnInv, NEW t \in Tasks, NEW r, Return(t, r),
         \A u \in Tasks : u # t => notified'[u] = notified[u],
         \A h \in CommandRecords : Outstanding(h)' <=> Outstanding(h)
  PROVE  OwnOnly'
<1>1. pc'[t].at = "idle"
  BY DEF Return, Idle, OwnInv, HolderInv, CommandTypeOK
<1>2. \A u \in Tasks : u # t => pc'[u] = pc[u] /\ clean'[u] = clean[u]
  BY DEF Return, OwnInv, HolderInv, CommandTypeOK
<1>3. QED
  BY <1>1, <1>2 DEF OwnInv, OwnOnly, Own

LEMMA CallOwn ==
  ASSUME OwnInv, NEW t \in Tasks, Calls(t)
  PROVE  OwnOnly'
<1>1. CASE Agent_GetCommand(t)
  <2>1. \A h \in CommandRecords : Outstanding(h)' <=> Outstanding(h)
    BY <1>1 DEF Agent_GetCommand, Outstanding, InQueue
  <2>2. pc[t].at = "get" /\ pc'[t].at = "send" /\ \A u \in Tasks : u # t => pc'[u] = pc[u]
    BY <1>1 DEF Agent_GetCommand, OwnInv, HolderInv, CommandTypeOK
  <2>3. notified' = notified /\ clean' = clean
    BY <1>1 DEF Agent_GetCommand
  <2>4. QED  BY <2>1, <2>2, <2>3 DEF OwnInv, OwnOnly, Own
<1>2. CASE NoCommand(t) \/ QueueFull(t) \/ TimedOut(t) \/ Notified(t)
  <2>1. \E r : Return(t, r)
    BY <1>2 DEF NoCommand, QueueFull, TimedOut, Notified
  <2>2. \A h \in CommandRecords : Outstanding(h)' <=> Outstanding(h)
    BY <1>2 DEF NoCommand, QueueFull, TimedOut, Notified, Outstanding, InQueue, commandVars
  <2>3. \A u \in Tasks : u # t => notified'[u] = notified[u]
    BY <1>2 DEF NoCommand, QueueFull, TimedOut, Notified, OwnInv, HolderInv, CommandTypeOK
  <2>4. QED  BY <2>1, <2>2, <2>3, ReturnOwn
<1>3. CASE Agent_MessageSend(t)
  <2> DEFINE e == Own(t)
  <2>1. e \in CommandRecords /\ Holding(t) /\ e.cmd = pc[t].cmd /\ Owner[e.ctx] = t
    BY <1>3 DEF OwnInv, HolderInv, CommandTypeOK, CommandRecords, Agent_MessageSend, Holding, Own
  <2>2. ~Outstanding(e)
    BY <2>1 DEF OwnInv, HolderInv, Conserved
  <2>3. \A h \in CommandRecords : Outstanding(h)' <=> (Outstanding(h) \/ h = e)
    BY <1>3, <2>1, <2>2, OutstandingAfterSend
      DEF Agent_MessageSend, Outstanding, OwnInv, HolderInv, Own
  <2>4. /\ pc[t].at = "send" /\ pc'[t].at = "wait"
        /\ pc'[t].cmd = pc[t].cmd /\ pc'[t].ctx = pc[t].ctx
        /\ \A u \in Tasks : u # t => pc'[u] = pc[u]
    BY <1>3 DEF Agent_MessageSend, OwnInv, HolderInv, CommandTypeOK
  <2>5. notified' = notified /\ clean' = clean
    BY <1>3 DEF Agent_MessageSend
  <2>6. Own(t)' = e
    BY <2>4 DEF Own
  <2> HIDE DEF e
  <2>7. ASSUME NEW u \in Tasks, clean'[u], u # t
        PROVE  /\ pc'[u].at \in {"get", "send"} =>
                    ~notified'[u] /\ \A h \in CommandRecords : Outstanding(h)' => Owner[h.ctx] # u
               /\ pc'[u].at = "wait" =>
                    \A h \in CommandRecords : Outstanding(h)' /\ Owner[h.ctx] = u =>
                      h = Own(u)' /\ ~notified'[u]
    BY <2>1, <2>3, <2>4, <2>5, <2>7 DEF OwnInv, OwnOnly, Own
  <2>8. clean'[t] => \A h \in CommandRecords : Outstanding(h)' /\ Owner[h.ctx] = t =>
                       h = Own(t)' /\ ~notified'[t]
    BY <2>3, <2>4, <2>5, <2>6 DEF OwnInv, OwnOnly
  <2>9. QED  BY <2>4, <2>7, <2>8 DEF OwnOnly
<1>4. QED
  BY <1>1, <1>2, <1>3 DEF Calls

\* A command that is concluded notifies its own task, and is outstanding no more.
LEMMA ConcludeOwn ==
  ASSUME OwnInv, NEW h \in CommandRecords, Outstanding(h), NEW s, Conclude(h, s),
         \A g \in CommandRecords : Outstanding(g)' <=> (Outstanding(g) /\ g # h)
  PROVE  OwnOnly'
<1>1. Owner[h.ctx] \in Tasks
  BY OwnerType DEF CommandRecords
<1>2. pc' = pc /\ clean' = clean /\ \A u \in Tasks : u # Owner[h.ctx] => notified'[u] = notified[u]
  BY <1>1 DEF Conclude, OwnInv, HolderInv, CommandTypeOK
<1>3. \A t \in Tasks : Own(t)' = Own(t)
  BY <1>2 DEF Own
<1>4. QED
  BY <1>1, <1>2, <1>3 DEF OwnInv, OwnOnly

LEMMA CancelOwn ==
  ASSUME OwnInv, MQTTAgent_CancelAll
  PROVE  OwnOnly'
<1>1. \A h \in CommandRecords : ~Outstanding(h)'
  BY OutstandingAfterCancel DEF OwnInv, HolderInv
<1>2. pc' = pc /\ clean' = clean
  BY DEF MQTTAgent_CancelAll
<1>3. \A t \in Tasks : clean[t] /\ pc[t].at \in {"get", "send"} => ~notified'[t]
  BY DEF MQTTAgent_CancelAll, OwnInv, OwnOnly
<1>4. QED  BY <1>1, <1>2, <1>3 DEF OwnOnly

LEMMA AgentOwn ==
  ASSUME OwnInv, AgentTask
  PROVE  OwnOnly'
<1>1. CASE CancelBeforeConnect \/ CancelAfterLoop
  BY <1>1, CancelOwn DEF CancelBeforeConnect, CancelAfterLoop
<1>2. CASE CommandSent \/ SendFails
  <2> DEFINE h == Head(queue)
  <2>1. h \in CommandRecords /\ queue # <<>> /\ queue' = Tail(queue)
    BY <1>2, QueueHead DEF CommandSent, SendFails, OwnInv, HolderInv, CommandTypeOK
  <2>2. /\ InQueue(h) /\ Outstanding(h)
        /\ \A g \in CommandRecords : InQueue(g)' <=> (InQueue(g) /\ g # h)
    BY <2>1, OutstandingAfterTail DEF Outstanding, OwnInv, HolderInv
  <2>3. h \notin acks
    BY <2>2 DEF Sent, OwnInv, HolderInv
  <2> HIDE DEF h
  <2>4. CASE acks' = acks /\ \E s : Conclude(h, s)
    <3>1. \A g \in CommandRecords : Outstanding(g)' <=> (Outstanding(g) /\ g # h)
      BY <2>2, <2>3, <2>4 DEF Outstanding
    <3>2. QED  BY <2>1, <2>2, <2>4, <3>1, ConcludeOwn
  <2>5. CASE acks' = acks \cup {h} /\ UNCHANGED callVars
    <3>1. \A g \in CommandRecords : Outstanding(g)' <=> Outstanding(g)
      BY <2>2, <2>3, <2>5 DEF Outstanding
    <3>2. QED  BY <2>5, <3>1, QuietOwn DEF callVars
  <2>6. QED  BY <1>2, <2>4, <2>5 DEF CommandSent, SendFails, h
<1>3. CASE SocketConnected \/ SocketRefused \/ BackedOff \/ Connected \/ ConnectRefused
           \/ ConnectionLost \/ LoopEnded
  <2>1. UNCHANGED commandVars /\ UNCHANGED callVars
    BY <1>3 DEF SocketConnected, SocketRefused, BackedOff, Connected, ConnectRefused,
                ConnectionLost, LoopEnded
  <2>2. QED  BY <2>1, QuietOwn DEF commandVars, callVars, Outstanding, InQueue
<1>4. QED
  BY <1>1, <1>2, <1>3 DEF AgentTask

LEMMA AcknowledgedOwn ==
  ASSUME OwnInv, NEW k \in Commands, Acknowledged(k)
  PROVE  OwnOnly'
<1>1. PICK h \in acks : acks' = acks \ {h} /\ \E s : Conclude(h, s)
  BY DEF Acknowledged
<1>2. h \in CommandRecords /\ Outstanding(h) /\ ~InQueue(h)
  BY DEF OwnInv, HolderInv, CommandTypeOK, Outstanding, Sent
<1>3. \A g \in CommandRecords : InQueue(g)' <=> InQueue(g)
  BY DEF Acknowledged, InQueue
<1>4. \A g \in CommandRecords : Outstanding(g)' <=> (Outstanding(g) /\ g # h)
  BY <1>1, <1>2, <1>3 DEF Outstanding
<1>5. QED  BY <1>1, <1>2, <1>4, ConcludeOwn

LEMMA StepOwn == OwnInv /\ [Next]_vars => OwnOnly'
<1> SUFFICES ASSUME OwnInv, [Next]_vars PROVE OwnOnly'
  OBVIOUS
<1>1. CASE Demo \/ UNCHANGED vars
  <2>1. UNCHANGED commandVars /\ UNCHANGED callVars
    BY <1>1 DEF Demo, ChooseSlot, WriteFilter, WriteCallback, vars
  <2>2. QED  BY <2>1, QuietOwn DEF commandVars, callVars, Outstanding, InQueue
<1>2. QED
  BY <1>1, BeginOwn, CallOwn, AgentOwn, AcknowledgedOwn DEF Next

\* A wait that began with nothing left over is ended by the caller's own command.
THEOREM AnswersAreOwn == Spec => []AnswerIsOwn
<1>1. MqttInit => OwnInv
  BY InitTypes, InitHolders, InitOwn DEF OwnInv, HolderInv
<1>2. OwnInv /\ [Next]_vars => OwnInv'
  BY StepTypes, StepHolders, StepOwn DEF OwnInv, HolderInv
<1>3. OwnInv => AnswerIsOwn
  BY OwnImplies DEF OwnInv
<1>4. QED  BY <1>1, <1>2, <1>3, PTL DEF Spec

-----------------------------------------------------------------------------
(***************************************************************************)
(* Registrations stay in the list, when no second subscriber registers     *)
(* while the demo task writes its entry: the application without the       *)
(* device advisor's test.                                                  *)
(*                                                                         *)
(* Until the demo task has registered the callback for jobs nobody calls,  *)
(* so that the list is empty but for the slot it writes.  From then on the *)
(* only entries are those for jobs and for the stream, each of them once,  *)
(* and three slots are enough for both.                                    *)
(***************************************************************************)

\* The application does not run the device advisor's test, the only other
\* subscriber: with it SubscriptionsKept fails, as the run V_Slots shows.
NoAdvisor == "advise" \notin Active

\* Nobody has called before the demo task is done with its registration.
Quiet ==
  registration # "done" =>
    /\ \A t \in Tasks : pc[t].at = "idle"
    /\ \A h \in CommandRecords : ~Outstanding(h)

\* The advisor never calls.
NoAdvice ==
  /\ pc["advisor"].at = "idle"
  /\ \A h \in CommandRecords : Outstanding(h) => h.ctx # "advise"
  /\ result["advise"] = "none"

\* The list while the demo task registers, and after.
Unwritten == \A i \in Slots : list[i] = Empty
Named == list[slot].filter = "jobs" /\ \A i \in Slots : i # slot => list[i] = Empty
JobsListed ==
  /\ Listed("jobs")
  /\ \A i \in Slots : list[i] \in {Empty, Entry("jobs"), Entry("stream")}
  /\ \A i, j \in Slots : Used(i) /\ list[i] = list[j] => i = j

Shape ==
  /\ registration \in {"waiting", "chosen"} => Unwritten
  /\ registration = "named" => Named
  /\ registration = "done" => JobsListed

\* The status of a subscription that is being waited for, and the result of one
\* that has returned.
Reported ==
  /\ pc["ota"].at # "idle" /\ pc["ota"].ctx = "subscribe" /\ status["subscribe"] = "success" =>
       Listed("stream")
  /\ result["subscribe"] = "success" => Listed("stream")

ListInv == HolderInv /\ Quiet /\ NoAdvice /\ Shape /\ Reported

\* The three slots the list has at least.
LEMMA FirstSlots == {1, 2, 3} \subseteq Slots /\ \A i \in Slots : i \in Nat /\ i >= 1
  BY MqttAssumption DEF Slots

\* An entry in use is not an empty one, and those for two filters differ.
LEMMA EntriesDiffer ==
  /\ Entry("jobs") # Empty /\ Entry("stream") # Empty /\ Entry("jobs") # Entry("stream")
  /\ Entry("jobs").filter # NoFilter /\ Entry("stream").filter # NoFilter
  /\ Empty.filter = NoFilter
  BY MqttAssumption DEF Entry, Empty, Filters

\* In a list that holds nothing but the entries for jobs and for the stream, each
\* once, one of the first three slots is the first that is not used.
LEMMA RoomForStream ==
  ASSUME JobsListed
  PROVE  \E i \in Slots : FirstUnused(i)
<1>1. 1 \in Slots /\ 2 \in Slots /\ 3 \in Slots
  BY FirstSlots
<1>2. ~Used(1) \/ ~Used(2) \/ ~Used(3)
  <2>1. \A i \in Slots : Used(i) => list[i] = Entry("jobs") \/ list[i] = Entry("stream")
    BY EntriesDiffer DEF JobsListed, Used
  <2>2. \A i, j \in Slots : Used(i) /\ list[i] = list[j] => i = j
    BY DEF JobsListed
  <2>3. QED  BY <1>1, <2>1, <2>2
<1>3. CASE ~Used(1)
  BY <1>1, <1>3, FirstSlots DEF FirstUnused
<1>4. CASE Used(1) /\ ~Used(2)
  <2>1. \A j \in Slots : j < 2 => j = 1
    BY FirstSlots
  <2>2. QED  BY <1>1, <1>4, <2>1 DEF FirstUnused
<1>5. CASE Used(1) /\ Used(2) /\ ~Used(3)
  <2>1. \A j \in Slots : j < 3 => j = 1 \/ j = 2
    BY FirstSlots
  <2>2. QED  BY <1>1, <1>5, <2>1 DEF FirstUnused
<1>6. QED  BY <1>2, <1>3, <1>4, <1>5

\* Adding the stream's filter loses nothing, and the stream is listed after it.
LEMMA StreamAdded ==
  ASSUME CommandTypeOK, JobsListed, list' = addSubscription("stream")
  PROVE  JobsListed' /\ Listed("stream")'
<1>1. CASE Listed("stream")
  <2>1. list' = list
    BY <1>1 DEF addSubscription
  <2>2. QED  BY <1>1, <2>1 DEF JobsListed, Listed, Used
<1>2. CASE ~Listed("stream")
  <2>1. PICK i \in Slots : FirstUnused(i) /\ list' = [list EXCEPT ![i] = Entry("stream")]
    <3>1. \E i \in Slots : FirstUnused(i)
      BY RoomForStream
    <3>2. ~\A i \in Slots : Used(i)
      BY <3>1 DEF FirstUnused
    <3>3. list' = [list EXCEPT ![CHOOSE i \in Slots : FirstUnused(i)] = Entry("stream")]
      BY <1>2, <3>2 DEF addSubscription
    <3>4. QED  BY <3>1, <3>3
  <2>2. ~Used(i)
    BY <2>1 DEF FirstUnused
  <2>3. /\ list'[i] = Entry("stream")
        /\ \A j \in Slots : j # i => list'[j] = list[j]
    BY <2>1 DEF CommandTypeOK
  <2>4. Listed("stream")'
    BY <2>3 DEF Listed
  <2>5. Listed("jobs")'
    <3>1. PICK j \in Slots : list[j] = Entry("jobs")
      BY DEF JobsListed, Listed
    <3>2. j # i
      BY <2>2, <3>1, EntriesDiffer DEF Used
    <3>3. QED  BY <2>3, <3>1, <3>2 DEF Listed
  <2>6. \A j \in Slots : list'[j] \in {Empty, Entry("jobs"), Entry("stream")}
    BY <2>3 DEF JobsListed
  <2>7. \A j, k \in Slots : Used(j)' /\ list'[j] = list'[k] => j = k
    <3>1. \A j \in Slots : list[j] # Entry("stream")
      BY <1>2 DEF Listed
    <3>2. QED  BY <2>3, <3>1 DEF JobsListed, Used
  <2>8. QED  BY <2>4, <2>5, <2>6, <2>7 DEF JobsListed
<1>3. QED  BY <1>1, <1>2

\* At the start the list is empty and no subscription is reported.
LEMMA InitList == MqttInit => Quiet /\ NoAdvice /\ Shape /\ Reported
<1> SUFFICES ASSUME MqttInit PROVE Quiet /\ NoAdvice /\ Shape /\ Reported
  OBVIOUS
<1>1. \A h \in CommandRecords : ~Outstanding(h)
  BY DEF MqttInit, Outstanding, InQueue
<1>2. \A t \in Tasks : pc[t].at = "idle"
  BY DEF MqttInit, Idle
<1>3. result["advise"] = "none" /\ result["subscribe"] = "none"
  BY DEF MqttInit, Subscribers
<1>4. Shape
  BY DEF MqttInit, Shape, Unwritten
<1>5. QED
  BY <1>1, <1>2, <1>3, <1>4 DEF Quiet, NoAdvice, Reported, Tasks

\* What the invariant says of the list is what callers were told.
LEMMA ListImplies == ListInv => SubscriptionsKept
<1> SUFFICES ASSUME ListInv PROVE SubscriptionsKept
  OBVIOUS
<1>1. registration = "done" => Listed("jobs")
  BY DEF ListInv, Shape, JobsListed
<1>2. result["advise"] # "success" /\ (result["subscribe"] = "success" => Listed("stream"))
  BY DEF ListInv, NoAdvice, Reported
<1>3. QED
  BY <1>1, <1>2 DEF SubscriptionsKept, Subscribers, Filter

\* Nothing about the registrations changes when the list, the results and the
\* status of a subscription stay and nobody starts to wait.
LEMMA QuietList ==
  ASSUME ListInv, UNCHANGED listVars, UNCHANGED <<pc, result>>,
         status'["subscribe"] = "success" => status["subscribe"] = "success",
         \A h \in CommandRecords : Outstanding(h)' => Outstanding(h)
  PROVE  (Quiet /\ NoAdvice /\ Shape /\ Reported)'
<1>1. Quiet' /\ NoAdvice'
  BY DEF ListInv, Quiet, NoAdvice, listVars
<1>2. Shape'
  BY DEF ListInv, Shape, Unwritten, Named, JobsListed, Listed, Used, listVars
<1>3. Reported'
  BY DEF ListInv, Reported, Listed, listVars
<1>4. QED  BY <1>1, <1>2, <1>3

\* A call that begins neither touches the list nor claims a subscription.
LEMMA BeginList ==
  ASSUME NoAdvisor, ListInv, NEW c \in Contexts, BeginCall(c)
  PROVE  (Quiet /\ NoAdvice /\ Shape /\ Reported)'
<1>1. c # "advise" /\ Owner[c] # "advisor" /\ Owner[c] \in Tasks
  BY DEF NoAdvisor, BeginCall, Owner, Contexts, Tasks
<1>2. registration = "done"
  BY <1>1 DEF BeginCall, Started
<1>3. UNCHANGED listVars /\ result' = result
  BY DEF BeginCall
<1>4. \A h \in CommandRecords : Outstanding(h)' <=> Outstanding(h)
  BY DEF BeginCall, commandVars, Outstanding, InQueue
<1>5. /\ pc'[Owner[c]] = [at |-> "get", ctx |-> c, cmd |-> 1]
      /\ \A t \in Tasks : t # Owner[c] => pc'[t] = pc[t]
  BY <1>1 DEF BeginCall, ListInv, HolderInv, CommandTypeOK
<1>6. Quiet'
  BY <1>2, <1>3 DEF Quiet, listVars
<1>7. NoAdvice'
  BY <1>1, <1>3, <1>4, <1>5 DEF ListInv, NoAdvice, Tasks
<1>8. Shape'
  BY <1>3 DEF ListInv, Shape, Unwritten, Named, JobsListed, Listed, Used, listVars
<1>9. Reported'
  <2>1. Listed("stream")' <=> Listed("stream")
    BY <1>3 DEF Listed, listVars
  <2>2. "ota" \in Tasks /\ "subscribe" \in Contexts
    BY DEF Tasks, Contexts
  <2>3. CASE c = "subscribe"
    <3>1. status'["subscribe"] = "failed"
      BY <2>2, <2>3 DEF BeginCall, ListInv, HolderInv, CommandTypeOK
    <3>2. QED  BY <1>3, <2>1, <3>1 DEF ListInv, Reported
  <2>4. CASE c # "subscribe"
    <3>1. status' = status
      BY <2>4 DEF BeginCall
    <3>2. pc'["ota"] = pc["ota"] \/ pc'["ota"].ctx # "subscribe"
      BY <1>5, <2>2, <2>4
    <3>3. QED  BY <1>3, <2>1, <3>1, <3>2 DEF ListInv, Reported
  <2>5. QED  BY <2>3, <2>4
<1>10. QED  BY <1>6, <1>7, <1>8, <1>9

\* Only a task other than the advisor can be in a call, and the list stays.
LEMMA CallList ==
  ASSUME ListInv, NEW t \in Tasks, Calls(t)
  PROVE  (Quiet /\ NoAdvice /\ Shape /\ Reported)'
<1>1. pc[t].at # "idle" /\ UNCHANGED listVars
  BY DEF Calls, Agent_GetCommand, NoCommand, Agent_MessageSend, QueueFull, Notified, TimedOut
<1>2. registration = "done" /\ t # "advisor"
  BY <1>1 DEF ListInv, Quiet, NoAdvice
<1>3. pc[t].ctx \in Contexts /\ Owner[pc[t].ctx] = t /\ pc[t].ctx # "advise"
  BY <1>1, <1>2 DEF ListInv, HolderInv, CommandTypeOK, Owner
<1>4. "ota" \in Tasks /\ "advisor" \in Tasks
  BY DEF Tasks
<1>5. Quiet'
  BY <1>1, <1>2 DEF Quiet, listVars
<1>6. Shape'
  BY <1>1 DEF ListInv, Shape, Unwritten, Named, JobsListed, Listed, Used, listVars
<1>7. Listed("stream")' <=> Listed("stream")
  BY <1>1 DEF Listed, listVars
<1>8. CASE Agent_GetCommand(t) \/ Agent_MessageSend(t)
  <2>1. result' = result /\ status' = status
    BY <1>8 DEF Agent_GetCommand, Agent_MessageSend
  <2>2. /\ pc'[t].ctx = pc[t].ctx
        /\ \A u \in Tasks : u # t => pc'[u] = pc[u]
    BY <1>8 DEF Agent_GetCommand, Agent_MessageSend, ListInv, HolderInv, CommandTypeOK
  <2>3. \A h \in CommandRecords : Outstanding(h)' => Outstanding(h) \/ h.ctx = pc[t].ctx
    <3>1. CASE Agent_GetCommand(t)
      BY <3>1 DEF Agent_GetCommand, Outstanding, InQueue
    <3>2. CASE Agent_MessageSend(t)
      <4>1. Own(t) \in CommandRecords /\ Own(t).ctx = pc[t].ctx /\ Own(t).cmd = pc[t].cmd /\ Holding(t)
        BY <3>2 DEF Own, ListInv, HolderInv, CommandTypeOK, CommandRecords, Agent_MessageSend, Holding
      <4>2. ~InQueue(Own(t))
        BY <4>1 DEF ListInv, HolderInv, Conserved, Outstanding
      <4>3. queue' = Append(queue, Own(t)) /\ acks' = acks
        BY <3>2 DEF Agent_MessageSend, Own
      <4>4. \A h \in CommandRecords : InQueue(h)' <=> (InQueue(h) \/ h = Own(t))
        BY <4>1, <4>2, <4>3, OutstandingAfterSend DEF ListInv, HolderInv
      <4>5. QED  BY <4>1, <4>3, <4>4 DEF Outstanding
    <3>3. QED  BY <1>8, <3>1, <3>2
  <2>4. NoAdvice'
    BY <1>2, <1>3, <1>4, <2>1, <2>2, <2>3 DEF ListInv, NoAdvice
  <2>5. Reported'
    <3>1. pc'["ota"].ctx = pc["ota"].ctx /\ (pc'["ota"].at # "idle" => pc["ota"].at # "idle")
      BY <1>1, <1>4, <2>2
    <3>2. QED  BY <1>7, <2>1, <3>1 DEF ListInv, Reported
  <2>6. QED  BY <1>5, <1>6, <2>4, <2>5
<1>9. CASE NoCommand(t) \/ QueueFull(t) \/ Notified(t) \/ TimedOut(t)
  <2>1. PICK r : Return(t, r) /\ (r = "failed" \/ r = status[pc[t].ctx])
    BY <1>9 DEF NoCommand, QueueFull, Notified, TimedOut
  <2>2. status' = status
    BY <1>9 DEF NoCommand, QueueFull, Notified, TimedOut
  <2>3. \A h \in CommandRecords : Outstanding(h)' <=> Outstanding(h)
    BY <1>9 DEF NoCommand, QueueFull, TimedOut, Notified, Outstanding, InQueue, commandVars
  <2>4. pc'[t].at = "idle" /\ \A u \in Tasks : u # t => pc'[u] = pc[u]
    BY <2>1 DEF Return, Idle, ListInv, HolderInv, CommandTypeOK
  <2>5. \A c \in Subscribers : result'[c] = IF c = pc[t].ctx THEN r ELSE result[c]
    BY <2>1 DEF Return
  <2>6. NoAdvice'
    BY <1>2, <1>3, <1>4, <2>3, <2>4, <2>5 DEF ListInv, NoAdvice, Subscribers
  <2>7. Reported'
    <3>1. result'["subscribe"] = IF pc[t].ctx = "subscribe" THEN r ELSE result["subscribe"]
      BY <2>5 DEF Subscribers
    <3>2. pc[t].ctx = "subscribe" => t = "ota"
      BY <1>3 DEF Owner
    <3>3. result'["subscribe"] = "success" => Listed("stream")
      BY <1>1, <2>1, <3>1, <3>2 DEF ListInv, Reported
    <3>4. pc'["ota"].at = "idle" \/ pc'["ota"] = pc["ota"]
      BY <1>4, <2>4
    <3>5. QED  BY <1>7, <2>2, <3>3, <3>4 DEF ListInv, Reported
  <2>8. QED  BY <1>5, <1>6, <2>6, <2>7
<1>10. QED  BY <1>8, <1>9 DEF Calls

\* The demo task writes its entry in a list that nobody else changes.
LEMMA DemoList ==
  ASSUME ListInv, Demo
  PROVE  (Quiet /\ NoAdvice /\ Shape /\ Reported)'
<1>1. UNCHANGED commandVars /\ UNCHANGED callVars /\ registration # "done"
  BY DEF Demo, ChooseSlot, WriteFilter, WriteCallback
<1>2. \A h \in CommandRecords : Outstanding(h)' <=> Outstanding(h)
  BY <1>1 DEF Outstanding, InQueue, commandVars
<1>3. Quiet' /\ NoAdvice'
  BY <1>1, <1>2 DEF ListInv, Quiet, NoAdvice, callVars
<1>4. slot \in Slots /\ list \in [Slots -> [filter : Filters \cup {NoFilter}, callback : BOOLEAN]]
  BY DEF ListInv, HolderInv, CommandTypeOK
<1>5. ~Listed("stream")
  BY <1>1, <1>4, EntriesDiffer
    DEF ListInv, HolderInv, CommandTypeOK, Shape, Unwritten, Named, Listed, Entry
<1>6. pc["ota"].at = "idle" /\ result["subscribe"] # "success"
  BY <1>1, <1>5 DEF ListInv, Quiet, Reported, Tasks
<1>7. Reported'
  BY <1>1, <1>6 DEF Reported, callVars
<1>8. Shape'
  <2>1. CASE ChooseSlot
    BY <2>1 DEF ChooseSlot, ListInv, Shape, Unwritten
  <2>2. CASE WriteFilter
    <3>1. Unwritten /\ slot' = slot /\ registration' = "named"
          /\ list' = [list EXCEPT ![slot].filter = "jobs"]
      BY <2>2 DEF WriteFilter, ListInv, Shape
    <3>2. list'[slot].filter = "jobs" /\ \A i \in Slots : i # slot => list'[i] = list[i]
      BY <1>4, <3>1
    <3>3. QED  BY <3>1, <3>2 DEF Shape, Named, Unwritten
  <2>3. CASE WriteCallback
    <3>1. /\ Named /\ slot' = slot /\ registration' = "done"
          /\ list' = [list EXCEPT ![slot] = [filter |-> list[slot].filter, callback |-> TRUE]]
      BY <2>3 DEF WriteCallback, ListInv, Shape
    <3>2. list'[slot] = Entry("jobs") /\ \A i \in Slots : i # slot => list'[i] = Empty
      BY <1>4, <3>1 DEF Named, Entry
    <3>3. JobsListed'
      BY <1>4, <3>2, EntriesDiffer DEF JobsListed, Listed, Used
    <3>4. QED  BY <3>1, <3>3 DEF Shape
  <2>4. QED  BY <2>1, <2>2, <2>3 DEF Demo
<1>9. QED  BY <1>3, <1>7, <1>8

\* A subscription that is concluded with success is in the list from then on.
LEMMA ConcludeList ==
  ASSUME ListInv, NEW h \in CommandRecords, Outstanding(h),
         NEW s \in {"success", "failed"}, Conclude(h, s),
         \A g \in CommandRecords : Outstanding(g)' => Outstanding(g)
  PROVE  (Quiet /\ NoAdvice /\ Shape /\ Reported)'
<1>1. registration = "done" /\ h.ctx # "advise" /\ h.ctx \in Contexts
  BY DEF ListInv, Quiet, NoAdvice, CommandRecords
<1>2. UNCHANGED <<pc, result, registration, slot>>
  BY DEF Conclude
<1>3. /\ h.ctx = "subscribe" /\ s = "success" => list' = addSubscription("stream")
      /\ ~(h.ctx = "subscribe" /\ s = "success") => list' = list
  BY <1>1 DEF Conclude, Subscribers, Filter
<1>4. JobsListed
  BY <1>1 DEF ListInv, Shape
<1>5. /\ JobsListed'
      /\ Listed("stream") => Listed("stream")'
      /\ h.ctx = "subscribe" /\ s = "success" => Listed("stream")'
  <2>1. CASE h.ctx = "subscribe" /\ s = "success"
    BY <1>3, <1>4, <2>1, StreamAdded DEF ListInv, HolderInv
  <2>2. CASE ~(h.ctx = "subscribe" /\ s = "success")
    BY <1>3, <1>4, <2>2 DEF JobsListed, Listed, Used
  <2>3. QED  BY <2>1, <2>2
<1>6. status'["subscribe"] = "success" =>
        status["subscribe"] = "success" \/ (h.ctx = "subscribe" /\ s = "success")
  BY DEF Conclude, ListInv, HolderInv, CommandTypeOK, Contexts
<1>7. Quiet' /\ NoAdvice'
  BY <1>1, <1>2 DEF ListInv, Quiet, NoAdvice
<1>8. Shape'
  BY <1>1, <1>2, <1>5 DEF Shape
<1>9. Reported'
  BY <1>2, <1>5, <1>6 DEF ListInv, Reported
<1>10. QED  BY <1>7, <1>8, <1>9

\* The agent's steps touch the list only where they conclude a command.
LEMMA AgentList ==
  ASSUME ListInv, AgentTask
  PROVE  (Quiet /\ NoAdvice /\ Shape /\ Reported)'
<1>1. CASE CancelBeforeConnect \/ CancelAfterLoop
  <2>1. MQTTAgent_CancelAll
    BY <1>1 DEF CancelBeforeConnect, CancelAfterLoop
  <2>2. \A h \in CommandRecords : ~Outstanding(h)'
    BY <2>1, OutstandingAfterCancel DEF ListInv, HolderInv
  <2>3. status'["subscribe"] = "success" => status["subscribe"] = "success"
    BY <2>1 DEF MQTTAgent_CancelAll, Contexts
  <2>4. QED  BY <2>1, <2>2, <2>3, QuietList DEF MQTTAgent_CancelAll
<1>2. CASE CommandSent \/ SendFails
  <2> DEFINE h == Head(queue)
  <2>1. h \in CommandRecords /\ queue # <<>> /\ queue' = Tail(queue)
    BY <1>2, QueueHead DEF CommandSent, SendFails, ListInv, HolderInv, CommandTypeOK
  <2>2. /\ InQueue(h) /\ Outstanding(h)
        /\ \A g \in CommandRecords : InQueue(g)' <=> (InQueue(g) /\ g # h)
    BY <2>1, OutstandingAfterTail DEF Outstanding, ListInv, HolderInv
  <2> HIDE DEF h
  <2>3. CASE acks' = acks /\ \E s \in {"success", "failed"} : Conclude(h, s)
    <3>1. \A g \in CommandRecords : Outstanding(g)' => Outstanding(g)
      BY <2>2, <2>3 DEF Outstanding
    <3>2. QED  BY <2>1, <2>2, <2>3, <3>1, ConcludeList
  <2>4. CASE acks' = acks \cup {h} /\ UNCHANGED callVars /\ UNCHANGED listVars
    <3>1. \A g \in CommandRecords : Outstanding(g)' => Outstanding(g)
      BY <2>2, <2>4 DEF Outstanding
    <3>2. QED  BY <2>4, <3>1, QuietList DEF callVars
  <2>5. QED  BY <1>2, <2>3, <2>4 DEF CommandSent, SendFails, h
<1>3. CASE SocketConnected \/ SocketRefused \/ BackedOff \/ Connected \/ ConnectRefused
           \/ ConnectionLost \/ LoopEnded
  <2>1. UNCHANGED commandVars /\ UNCHANGED callVars /\ UNCHANGED listVars
    BY <1>3 DEF SocketConnected, SocketRefused, BackedOff, Connected, ConnectRefused,
                ConnectionLost, LoopEnded
  <2>2. QED  BY <2>1, QuietList DEF commandVars, callVars, Outstanding, InQueue
<1>4. QED
  BY <1>1, <1>2, <1>3 DEF AgentTask

\* An acknowledgement concludes one command, and runs its completion callback.
LEMMA AcknowledgedList ==
  ASSUME ListInv, NEW k \in Commands, Acknowledged(k)
  PROVE  (Quiet /\ NoAdvice /\ Shape /\ Reported)'
<1>1. PICK h \in acks : acks' = acks \ {h} /\ \E s \in {"success", "failed"} : Conclude(h, s)
  BY DEF Acknowledged
<1>2. h \in CommandRecords /\ Outstanding(h)
  BY DEF ListInv, HolderInv, CommandTypeOK, Outstanding
<1>3. \A g \in CommandRecords : Outstanding(g)' => Outstanding(g)
  BY <1>1 DEF Acknowledged, Outstanding, InQueue
<1>4. QED  BY <1>1, <1>2, <1>3, ConcludeList

\* Without the advisor every step keeps the invariant.
LEMMA StepList ==
  ASSUME NoAdvisor
  PROVE  ListInv /\ [Next]_vars => (Quiet /\ NoAdvice /\ Shape /\ Reported)'
<1> SUFFICES ASSUME ListInv, [Next]_vars PROVE (Quiet /\ NoAdvice /\ Shape /\ Reported)'
  OBVIOUS
<1>1. CASE UNCHANGED vars
  BY <1>1, QuietList DEF vars, commandVars, callVars, Outstanding, InQueue
<1>2. QED
  BY <1>1, BeginList, CallList, DemoList, AgentList, AcknowledgedList DEF Next

\* In the application without the device advisor's test the callback for jobs and
\* a subscription that was reported as made stay in the list, whatever is lost,
\* cancelled or timed out, and whether or not the agent preempts the demo task.
THEOREM SubscriptionsStay ==
  ASSUME NoAdvisor
  PROVE  Spec => []SubscriptionsKept
<1>1. MqttInit => ListInv
  BY InitTypes, InitHolders, InitList DEF ListInv, HolderInv
<1>2. ListInv /\ [Next]_vars => ListInv'
  BY StepTypes, StepHolders, StepList DEF ListInv, HolderInv
<1>3. ListInv => SubscriptionsKept
  BY ListImplies
<1>4. QED  BY <1>1, <1>2, <1>3, PTL DEF Spec
=============================================================================
