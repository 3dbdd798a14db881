------------------------------ MODULE OtaAgent ------------------------------
(***************************************************************************)
(* The OTA orchestrator of the device: the OTA agent task and its event    *)
(* queue, the publish callbacks that the MQTT agent task runs, the OTA     *)
(* demo task that suspends and resumes the agent, over the platform layer  *)
(* of OtaPal.                                                              *)
(*                                                                         *)
(* The broker and the cloud are an arbitrary environment here: any job     *)
(* document and any block of a subscribed stream may arrive at any moment. *)
(* OtaSystem closes the model with a broker that answers what was asked.   *)
(*                                                                         *)
(* A handler that blocks in an MQTT operation is split there: pc says      *)
(* which operation the agent task waits for, and the other tasks run.      *)
(***************************************************************************)
EXTENDS OtaPal, Sequences

CONSTANTS
  NumBuffers,    \* otaconfigMAX_NUM_OTA_DATA_BUFFERS
  QueueLength,   \* MAX_MESSAGES, the length of the event queue
  CounterMod,    \* 2^32 in the code: the counters are uint32_t
  U16,           \* 2^16 in the code: the width of two casts to uint16_t
  IdLength,      \* [Jobs -> Nat]: length of the id string of each job
  Versions,      \* values a document's "updatedBy" may carry
  MaxUplink,     \* bound: publishes accepted and not yet served
  Lossy          \* whether an operation may fail while connected, and what
                 \* the transport accepted be lost with the connection

ASSUME AgentAssumption ==
  /\ NumBuffers \in Nat \ {0}
  /\ QueueLength \in Nat \ {0}
  /\ CounterMod \in Nat /\ CounterMod > SlotBlocks
  /\ U16 \in Nat \ {0}
  /\ IdLength \in [Jobs -> Nat \ {0}]
  /\ Versions \subseteq Nat
  /\ 0 \in Versions
  /\ FactoryVersion \in Versions
  /\ \A j \in Jobs : ImageVersion[j] \in Versions
  /\ MaxUplink \in Nat \ {0}
  /\ Lossy \in BOOLEAN

VARIABLES
  started,       \* prvRunOTADemo has created the queue and the agent task
  otaAgentState,
  queue,         \* the event queue
  pc,            \* what the agent task is doing or waiting for
  held,          \* buffer of the block being handled, or 0
  jobDocBuffer,  \* last job document received
  globalJobId,   \* [job, extent]: the id, and the bytes in use in its array
  jobFields,     \* [job, signature] parsed, NoJob when zeroed
  stream,        \* job whose stream mqttFileDownloaderContext names
  currentBlockOffset, numOfBlocksRemaining, totalBytesReceived,
  dataBuffers,   \* the pool of buffers
  otaActive,     \* last hook called: vOtaActiveHook rather than vOtaNotActiveHook
  connected,     \* the MQTT connection, and its bit in the event group
  streamSub,     \* the data callback is registered in the subscription list
  session,       \* streams the broker has a subscription for, this session
  uplink         \* publishes the transport accepted, not yet served

countVars == <<currentBlockOffset, numOfBlocksRemaining, totalBytesReceived>>
jobVars == <<jobDocBuffer, globalJobId, jobFields, stream>>
netVars == <<connected, streamSub, session, uplink>>
taskVars == <<started, otaAgentState, pc, held, otaActive>>
agentVars == <<taskVars, queue, jobVars, countVars, dataBuffers, netVars>>
vars == <<agentVars, palVars>>

-----------------------------------------------------------------------------
Buffers == 1 .. NumBuffers

EventIds == {"RequestJobDocument", "ReceivedJobDocument", "RequestFileBlock",
             "ReceivedFileBlock", "CloseFile", "ActivateImage", "Suspend", "Resume"}

\* buf is the data buffer the event owns, 0 for the events that own none.
Event(id) == [id |-> id, buf |-> 0]
Events == [id : EventIds, buf : 0 .. NumBuffers]
BlockEvent(b) == [id |-> "ReceivedFileBlock", buf |-> b]

\* A job document: its job id, whether the parser accepts it, and the version
\* in the updatedBy field of its status details.  NoDoc: there is no job.
NoDoc == [job |-> NoJob, valid |-> FALSE, updatedBy |-> 0]
Docs == [job : Jobs, valid : BOOLEAN, updatedBy : Versions] \cup {NoDoc}

\* A message of the stream: a block, or one that does not decode to a block.
Undecodable == [job |-> NoJob, index |-> 1]
Payloads == Blocks \cup {Undecodable}
Free == [used |-> FALSE, data |-> Erased]

Zeroed == [job |-> NoJob, signature |-> NoJob]

\* A publish of the device: a request, or the status of a job.
JobIds == Jobs \cup {NoJob}
Publishes == [type : {"StartNext", "GetBlock", "InProgress", "Succeeded", "Failed"},
              job : JobIds, arg : Nat]
Message(type, job, arg) == [type |-> type, job |-> job, arg |-> arg]

\* The job the bytes of globalJobId spell: none when a shorter id was copied
\* over a longer one and the rest of the longer one is still there.
AddressedJob ==
  IF globalJobId.job \in Jobs /\ globalJobId.extent = IdLength[globalJobId.job]
  THEN globalJobId.job ELSE NoJob

-----------------------------------------------------------------------------
(***************************************************************************)
(* Helpers                                                                 *)
(***************************************************************************)

\* OtaSendEvent_FreeRTOS does not wait, and no caller looks at its result.
SendTo(q, ev) == IF Len(q) < QueueLength THEN Append(q, ev) ELSE q

Receive(id) ==
  /\ started
  /\ pc = "receive"
  /\ queue # <<>>
  /\ Head(queue).id = id

Dequeue == queue' = Tail(queue)
DequeueAndSend(ev) == queue' = SendTo(Tail(queue), ev)

\* prvMQTTPublish, whose result no handler looks at.
prvMQTTPublish(m) ==
  \/ connected /\ Len(uplink) < MaxUplink /\ uplink' = Append(uplink, m)
  \/ (~connected \/ Lossy) /\ UNCHANGED uplink

\* What the transport had accepted when the connection went.
UplinkKept == {uplink} \cup (IF Lossy THEN {<<>>} ELSE {})

Memory == <<dataBuffers, countVars, jobVars>>

-----------------------------------------------------------------------------
(***************************************************************************)
(* Start, reset and power loss                                             *)
(***************************************************************************)

AgentInit ==
  /\ started = FALSE
  /\ otaAgentState = "Init"
  /\ queue = <<>>
  /\ pc = "receive"
  /\ held = 0
  /\ jobDocBuffer = NoDoc
  /\ globalJobId = [job |-> NoJob, extent |-> 0]
  /\ jobFields = Zeroed
  /\ stream = NoJob
  /\ currentBlockOffset = 0
  /\ numOfBlocksRemaining = 0
  /\ totalBytesReceived = 0
  /\ dataBuffers = [b \in Buffers |-> Free]
  /\ otaActive = FALSE
  /\ connected = FALSE
  /\ streamSub = FALSE
  /\ session = {}
  /\ uplink = <<>>

Init == AgentInit /\ PalInit

\* prvRunOTADemo, once the MQTT agent is connected: the queue, the agent task,
\* the default callback, the first event.
StartDemo ==
  /\ ~started
  /\ connected
  /\ started' = TRUE
  /\ otaAgentState' = "Ready"
  /\ queue' = SendTo(queue, Event("RequestJobDocument"))
  /\ UNCHANGED <<pc, held, otaActive, Memory, netVars, palVars>>

\* A reset, asked for or not, at any point: RAM is lost, the slot is not.
Reboot ==
  /\ started' = FALSE
  /\ otaAgentState' = "Init"
  /\ queue' = <<>>
  /\ pc' = "receive"
  /\ held' = 0
  /\ jobDocBuffer' = NoDoc
  /\ globalJobId' = [job |-> NoJob, extent |-> 0]
  /\ jobFields' = Zeroed
  /\ stream' = NoJob
  /\ currentBlockOffset' = 0
  /\ numOfBlocksRemaining' = 0
  /\ totalBytesReceived' = 0
  /\ dataBuffers' = [b \in Buffers |-> Free]
  /\ otaActive' = FALSE
  /\ connected' = FALSE
  /\ streamSub' = FALSE
  /\ session' = {}
  /\ uplink' \in UplinkKept
  /\ Boot

ResetFails ==
  /\ pc = "reset"
  /\ "reset" \in FwuFaults
  /\ pc' = "receive"
  /\ UNCHANGED <<started, otaAgentState, held, otaActive, queue, Memory, netVars, palVars>>

-----------------------------------------------------------------------------
(***************************************************************************)
(* processOTAEvents: job documents                                         *)
(***************************************************************************)

RequestJobDocument ==
  /\ Receive("RequestJobDocument")
  /\ Dequeue
  /\ pc' = "askJob"
  /\ UNCHANGED <<started, otaAgentState, held, otaActive, Memory, netVars, palVars>>

JobRequested ==
  /\ pc = "askJob"
  /\ prvMQTTPublish(Message("StartNext", NoJob, 0))
  /\ otaAgentState' = "RequestingJob"
  /\ pc' = "receive"
  /\ UNCHANGED <<started, held, otaActive, queue, Memory,
                 connected, streamSub, session, palVars>>

DropJobDocument ==
  /\ Receive("ReceivedJobDocument")
  /\ otaAgentState = "Suspended"
  /\ Dequeue
  /\ UNCHANGED <<taskVars, Memory, netVars, palVars>>

\* receivedJobDocumentHandler zeroes jobFields whatever the document says.
EmptyJobDocument ==
  /\ Receive("ReceivedJobDocument")
  /\ otaAgentState # "Suspended"
  /\ jobDocBuffer.job = NoJob
  /\ Dequeue
  /\ jobFields' = Zeroed
  /\ otaActive' = FALSE
  /\ UNCHANGED <<started, otaAgentState, pc, held, jobDocBuffer, globalJobId, stream,
                 countVars, dataBuffers, netVars, palVars>>

\* The case OtaPalJobDocFileCreated of processOTAEvents.
FileCreated(q) ==
  /\ queue' = SendTo(q, Event("RequestFileBlock"))
  /\ otaAgentState' = "CreatingFile"
  /\ otaActive' = TRUE

\* The document of the job in hand: it is taken to mean the file exists.
SameJobDocument ==
  /\ Receive("ReceivedJobDocument")
  /\ otaAgentState # "Suspended"
  /\ jobDocBuffer.job \in Jobs
  /\ jobDocBuffer.job = globalJobId.job
  /\ jobFields' = Zeroed
  /\ FileCreated(Tail(queue))
  /\ UNCHANGED <<started, pc, held, jobDocBuffer, globalJobId, stream,
                 countVars, dataBuffers, netVars, palVars>>

\* Mutant: the id of the document is not compared with the id in hand.
NewJobDocument_AnyId ==
  /\ Receive("ReceivedJobDocument")
  /\ otaAgentState # "Suspended"
  /\ jobDocBuffer.job \in Jobs
  /\ Dequeue
  /\ globalJobId' = [job |-> jobDocBuffer.job, extent |-> IdLength[jobDocBuffer.job]]
  /\ UNCHANGED <<started, otaAgentState, held, jobDocBuffer, dataBuffers, netVars>>

NewJobDocument ==
  /\ Receive("ReceivedJobDocument")
  /\ otaAgentState # "Suspended"
  /\ jobDocBuffer.job \in Jobs
  /\ jobDocBuffer.job # globalJobId.job
  /\ Dequeue
  /\ LET length == IdLength[jobDocBuffer.job]
     IN  globalJobId' = [job |-> jobDocBuffer.job,
                         extent |-> IF length > globalJobId.extent
                                    THEN length ELSE globalJobId.extent]
  /\ UNCHANGED <<started, otaAgentState, held, jobDocBuffer, dataBuffers, netVars>>

\* The parser refuses the document; the id has been taken all the same.
UnparsedJobDocument ==
  /\ NewJobDocument
  /\ ~jobDocBuffer.valid
  /\ jobFields' = Zeroed
  /\ otaActive' = FALSE
  /\ UNCHANGED <<pc, stream, countVars, palVars>>

\* Self test: updatedBy, cut to 16 bits, against the running version.
SelfTestJobDocument ==
  /\ NewJobDocument
  /\ jobDocBuffer.valid
  /\ PendingCommit
  /\ jobFields' = [job |-> jobDocBuffer.job, signature |-> NoJob]
  /\ \/ /\ jobDocBuffer.updatedBy % U16 < running
        /\ otaPal_SetAccepted
        /\ pc' = "Succeeded"
     \/ /\ jobDocBuffer.updatedBy % U16 >= running
        /\ otaPal_SetRejected
        /\ pc' = "Failed"
  /\ UNCHANGED <<otaActive, stream, countVars>>

\* sendFinalJobStatusMessage: only the first byte of the id is cleared.
FinalStatusSent(status) ==
  /\ pc = status
  /\ prvMQTTPublish(Message(status, AddressedJob, 0))
  /\ globalJobId' = [globalJobId EXCEPT !.job = NoJob]
  /\ otaActive' = FALSE
  /\ pc' = "receive"
  /\ UNCHANGED <<started, otaAgentState, held, queue, jobDocBuffer, jobFields, stream,
                 countVars, dataBuffers, connected, streamSub, session, palVars>>

\* initMqttDownloader for a file of count blocks, up to the wait for the SUBACK.
Download(count) ==
  /\ NewJobDocument
  /\ jobDocBuffer.valid
  /\ ~PendingCommit
  /\ jobFields' = [job |-> jobDocBuffer.job, signature |-> NoJob]
  /\ stream' = jobDocBuffer.job
  /\ numOfBlocksRemaining' = count
  /\ currentBlockOffset' = 0
  /\ totalBytesReceived' = 0
  /\ pc' = "subscribe"
  /\ UNCHANGED <<otaActive, palVars>>

\* Mutants: the last, partial block of the file is not counted; the size of the
\* file is not divided by the size of a block.
DownloadJobDocument_Floor == Download(NumBlocks - 1)
DownloadJobDocument_Bytes == Download(NumBlocks * CounterMod)

DownloadJobDocument == Download(NumBlocks)

\* The SUBSCRIBE is over, acknowledged or not: nobody looks.  The parsed
\* fields still point into jobDocBuffer, so the signature decoded and the path
\* compared are those of the last document received.
DownloaderReady ==
  /\ pc = "subscribe"
  /\ \/ /\ connected
        /\ streamSub' = TRUE
        /\ session' = session \cup {stream}
     \/ /\ ~connected \/ Lossy
        /\ UNCHANGED <<streamSub, session>>
  /\ \E signature \in (IF jobDocBuffer.job = stream THEN {stream}
                       ELSE {jobDocBuffer.job, NoJob}),
        created \in BOOLEAN :
       LET intact == jobDocBuffer.job = stream
       IN  /\ IF signature = NoJob
               THEN ~created /\ UNCHANGED <<palVars, jobFields>>
               ELSE /\ jobFields' = [jobFields EXCEPT !.signature = signature]
                    /\ \E filepathOk \in {TRUE, intact} :
                         otaPal_CreateFileForRx(filepathOk, created)
           /\ IF created
               THEN FileCreated(queue)
               ELSE otaActive' = FALSE /\ UNCHANGED <<queue, otaAgentState>>
  /\ pc' = "receive"
  /\ UNCHANGED <<started, held, jobDocBuffer, globalJobId, stream, countVars,
                 dataBuffers, connected, uplink>>

-----------------------------------------------------------------------------
(***************************************************************************)
(* processOTAEvents: file blocks, closing and activation                   *)
(***************************************************************************)

\* The state is set without a look at the state it replaces.
RequestFileBlock ==
  /\ Receive("RequestFileBlock")
  /\ Dequeue
  /\ otaAgentState' = "RequestingFileBlock"
  /\ pc' = "askBlock"
  /\ UNCHANGED <<started, held, otaActive, Memory, netVars, palVars>>

\* Mutant: blocks are numbered from one.
BlockRequested_FromOne ==
  /\ pc = "askBlock"
  /\ prvMQTTPublish(Message("GetBlock", stream, currentBlockOffset + 1))
  /\ pc' = "receive"
  /\ UNCHANGED <<started, otaAgentState, held, otaActive, queue, Memory,
                 connected, streamSub, session, palVars>>

\* requestDataBlock.  Without a stream the topic is empty and nothing is sent.
BlockRequested ==
  /\ pc = "askBlock"
  /\ IF stream = NoJob
     THEN UNCHANGED uplink
     ELSE prvMQTTPublish(Message("GetBlock", stream, currentBlockOffset % U16))
  /\ pc' = "receive"
  /\ UNCHANGED <<started, otaAgentState, held, otaActive, queue, Memory,
                 connected, streamSub, session, palVars>>

FreeBuffer(b) == dataBuffers' = [dataBuffers EXCEPT ![b] = Free]

\* Mutant: the buffer of a dropped block is not freed.
DropFileBlock_Leaks ==
  /\ Receive("ReceivedFileBlock")
  /\ otaAgentState = "Suspended"
  /\ Dequeue
  /\ UNCHANGED <<taskVars, Memory, netVars, palVars>>

DropFileBlock ==
  /\ Receive("ReceivedFileBlock")
  /\ otaAgentState = "Suspended"
  /\ Dequeue
  /\ FreeBuffer(Head(queue).buf)
  /\ UNCHANGED <<taskVars, countVars, jobVars, netVars, palVars>>

\* Mutant: the next block is asked for before this one is written.
TakeFileBlock_Prefetch ==
  /\ Receive("ReceivedFileBlock")
  /\ otaAgentState # "Suspended"
  /\ DequeueAndSend(Event("RequestFileBlock"))
  /\ held' = Head(queue).buf
  /\ pc' = "write"
  /\ UNCHANGED <<started, otaAgentState, otaActive, Memory, netVars, palVars>>

TakeFileBlock ==
  /\ Receive("ReceivedFileBlock")
  /\ otaAgentState # "Suspended"
  /\ Dequeue
  /\ held' = Head(queue).buf
  /\ pc' = "write"
  /\ UNCHANGED <<started, otaAgentState, otaActive, Memory, netVars, palVars>>

\* handleMqttStreamsBlockArrived writes at the count of bytes written so far;
\* the block number in the message is not looked at.  A message that does not
\* decode gives zero bytes to write, which counts as not written.
WriteFileBlock(written) ==
  IF dataBuffers[held].data \in Blocks
  THEN otaPal_WriteBlock(totalBytesReceived, dataBuffers[held].data, written)
  ELSE ~written /\ UNCHANGED palVars

FileBlockHandled ==
  /\ pc = "write"
  /\ \E written \in BOOLEAN :
       /\ WriteFileBlock(written)
       /\ IF written
          THEN /\ totalBytesReceived' = totalBytesReceived + 1
               /\ numOfBlocksRemaining' = (numOfBlocksRemaining + CounterMod - 1) % CounterMod
               /\ currentBlockOffset' = (currentBlockOffset + 1) % CounterMod
          ELSE UNCHANGED countVars
  /\ FreeBuffer(held)
  /\ held' = 0
  /\ queue' = SendTo(queue, Event(IF numOfBlocksRemaining' = 0
                                  THEN "CloseFile" ELSE "RequestFileBlock"))
  /\ pc' = "receive"
  /\ UNCHANGED <<started, otaAgentState, otaActive, jobVars, netVars>>

CloseFile ==
  /\ Receive("CloseFile")
  /\ \E closed \in BOOLEAN :
       /\ otaPal_CloseFile(jobFields.signature, closed)
       /\ IF closed THEN DequeueAndSend(Event("ActivateImage")) ELSE Dequeue
  /\ UNCHANGED <<taskVars, Memory, netVars>>

ActivateImage ==
  /\ Receive("ActivateImage")
  /\ Dequeue
  /\ pc' = "status"
  /\ UNCHANGED <<started, otaAgentState, held, otaActive, Memory, netVars, palVars>>

\* sendStatusDetailsMessage, then activateImage.  With jobFields zeroed the
\* version is not found, and what is sent is whatever the stack held.
StatusSent ==
  /\ pc = "status"
  /\ \E version \in (IF jobFields.job = NoJob THEN Versions ELSE {running}) :
       prvMQTTPublish(Message("InProgress", AddressedJob, version))
  /\ \E outcome \in {"reset", "activated", "failed"} :
       /\ otaPal_ActivateNewImage(outcome)
       /\ pc' = IF outcome = "reset" THEN "reset" ELSE "receive"
       /\ queue' = IF outcome = "activated"
                   THEN SendTo(queue, Event("RequestJobDocument")) ELSE queue
  /\ UNCHANGED <<started, otaAgentState, held, otaActive, Memory,
                 connected, streamSub, session>>

-----------------------------------------------------------------------------
(***************************************************************************)
(* Suspend and resume: the events, and the demo task that sends them       *)
(***************************************************************************)

Suspend ==
  /\ Receive("Suspend")
  /\ Dequeue
  /\ otaAgentState' = "Suspended"
  /\ UNCHANGED <<started, pc, held, otaActive, Memory, netVars, palVars>>

Resume ==
  /\ Receive("Resume")
  /\ DequeueAndSend(Event("RequestJobDocument"))
  /\ otaAgentState' = "RequestingJob"
  /\ UNCHANGED <<started, pc, held, otaActive, Memory, netVars, palVars>>

\* One turn of the loop of prvRunOTADemo, every ten seconds.
DemoSend(id) ==
  /\ started
  /\ queue' = SendTo(queue, Event(id))
  /\ UNCHANGED <<taskVars, Memory, netVars, palVars>>

DemoSuspend == ~connected /\ DemoSend("Suspend")

DemoResume == connected /\ otaAgentState = "Suspended" /\ DemoSend("Resume")

-----------------------------------------------------------------------------
(***************************************************************************)
(* The MQTT agent task: the callbacks it runs, the connection              *)
(***************************************************************************)

\* prvMqttDefaultCallback, prvMqttJobCallback: one buffer for all documents.
JobDocArrives(doc) ==
  /\ started
  /\ connected
  /\ jobDocBuffer' = doc
  /\ queue' = SendTo(queue, Event("ReceivedJobDocument"))
  /\ UNCHANGED <<taskVars, globalJobId, jobFields, stream, countVars, dataBuffers,
                 netVars, palVars>>

BlockRouted == connected /\ streamSub /\ stream \in session

\* Mutant: the flag is read before the semaphore is taken.
FirstFree_Racing(b) == b \in Buffers

\* getOtaDataEventBuffer: the first buffer that is not used.
FirstFree(b) ==
  /\ b \in Buffers
  /\ ~dataBuffers[b].used
  /\ \A c \in Buffers : c < b => dataBuffers[c].used

\* prvMqttDataCallback.  A message longer than a buffer is refused after the
\* buffer was taken, and the buffer stays taken.
BlockArrives(payload, fits) ==
  /\ BlockRouted
  /\ \E b \in Buffers :
       /\ FirstFree(b)
       /\ IF fits
          THEN /\ dataBuffers' = [dataBuffers EXCEPT ![b] = [used |-> TRUE, data |-> payload]]
               /\ queue' = SendTo(queue, BlockEvent(b))
          ELSE /\ dataBuffers' = [dataBuffers EXCEPT ![b].used = TRUE]
               /\ UNCHANGED queue
  /\ UNCHANGED <<taskVars, countVars, jobVars, netVars, palVars>>

NoBufferFree == \A b \in Buffers : dataBuffers[b].used

Connect ==
  /\ ~connected
  /\ connected' = TRUE
  /\ session' = {}
  /\ UNCHANGED <<taskVars, queue, Memory, streamSub, uplink, palVars>>

\* Every connection is made with a clean session: the broker forgets.
Disconnect ==
  /\ connected
  /\ connected' = FALSE
  /\ session' = {}
  /\ uplink' \in UplinkKept
  /\ UNCHANGED <<taskVars, queue, Memory, streamSub, palVars>>

\* The broker serves some publish: requests go to different services.
Without(s, i) == [k \in 1 .. Len(s) - 1 |-> IF k < i THEN s[k] ELSE s[k + 1]]

UplinkServed(i) ==
  /\ i \in 1 .. Len(uplink)
  /\ uplink' = Without(uplink, i)
  /\ UNCHANGED <<taskVars, queue, Memory, connected, streamSub, session, palVars>>

-----------------------------------------------------------------------------
AgentTask ==
  \/ RequestJobDocument \/ JobRequested
  \/ DropJobDocument \/ EmptyJobDocument \/ SameJobDocument
  \/ UnparsedJobDocument \/ SelfTestJobDocument
  \/ \E status \in {"Succeeded", "Failed"} : FinalStatusSent(status)
  \/ DownloadJobDocument \/ DownloaderReady
  \/ RequestFileBlock \/ BlockRequested
  \/ DropFileBlock \/ TakeFileBlock \/ FileBlockHandled
  \/ CloseFile \/ ActivateImage \/ StatusSent
  \/ Suspend \/ Resume

DemoTask == StartDemo \/ DemoSuspend \/ DemoResume

MqttTask ==
  \/ \E doc \in Docs : JobDocArrives(doc)
  \/ \E payload \in Payloads, fits \in BOOLEAN : BlockArrives(payload, fits)
  \/ Connect \/ Disconnect
  \/ \E i \in 1 .. MaxUplink : UplinkServed(i)

Next == AgentTask \/ DemoTask \/ MqttTask \/ Reboot \/ ResetFails

Spec == Init /\ [][Next]_vars

-----------------------------------------------------------------------------
(***************************************************************************)
(* Properties                                                              *)
(***************************************************************************)

AgentStates == {"Init", "Ready", "RequestingJob", "CreatingFile",
                "RequestingFileBlock", "Suspended"}

PcValues == {"receive", "askJob", "subscribe", "askBlock", "write", "status",
             "Succeeded", "Failed", "reset"}

\* Type invariant of the orchestrator's state.
AgentTypeOK ==
  /\ started \in BOOLEAN
  /\ otaAgentState \in AgentStates
  /\ queue \in Seq(Events)
  /\ Len(queue) <= QueueLength
  /\ pc \in PcValues
  /\ held \in 0 .. NumBuffers
  /\ jobDocBuffer \in Docs
  /\ globalJobId \in [job : JobIds, extent : Nat]
  /\ jobFields \in [job : JobIds, signature : JobIds]
  /\ stream \in JobIds
  /\ currentBlockOffset \in 0 .. CounterMod - 1
  /\ numOfBlocksRemaining \in 0 .. CounterMod - 1
  /\ totalBytesReceived \in 0 .. SlotBlocks
  /\ dataBuffers \in [Buffers -> [used : BOOLEAN, data : Payloads \cup {Erased}]]
  /\ otaActive \in BOOLEAN
  /\ connected \in BOOLEAN
  /\ streamSub \in BOOLEAN
  /\ session \subseteq JobIds
  /\ uplink \in Seq(Publishes)
  /\ Len(uplink) <= MaxUplink

TypeOK == AgentTypeOK /\ PalTypeOK

\* A data buffer has one owner: the event in the queue that refers to it, or
\* the agent task that is writing its block, and it is marked used as long as
\* it has one.  getOtaDataEventBuffer in the MQTT agent task and
\* freeOtaDataEventBuffer in the OTA agent task rely on it: a block is never
\* overwritten by the next one before it has been written to the slot.
OwnedByEvent(b) == \E k \in 1 .. Len(queue) : queue[k].id = "ReceivedFileBlock" /\ queue[k].buf = b

BufferOwnership ==
  /\ \A k \in 1 .. Len(queue) : queue[k].id = "ReceivedFileBlock" =>
       /\ queue[k].buf \in Buffers
       /\ dataBuffers[queue[k].buf].used
       /\ queue[k].buf # held
       /\ \A l \in 1 .. Len(queue) :
            queue[l].id = "ReceivedFileBlock" /\ queue[l].buf = queue[k].buf => l = k
  /\ pc = "write" <=> held \in Buffers
  /\ held \in Buffers => dataBuffers[held].used

\* A buffer is marked used only while it has an owner: the comment on
\* bufferUsed says "Flag set when buffer is used otherwise cleared".
NoBufferLeak ==
  \A b \in Buffers : dataBuffers[b].used => OwnedByEvent(b) \/ held = b
=============================================================================
