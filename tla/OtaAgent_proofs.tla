--------------------------- MODULE OtaAgent_proofs ---------------------------
(***************************************************************************)
(* What holds of the OTA orchestrator whatever the broker sends and for    *)
(* every value of the constants: its types, and the ownership of the       *)
(* buffers that hand blocks from the MQTT agent task to the agent task.    *)
(***************************************************************************)
EXTENDS OtaAgent, SequenceTheorems, TLAPS

-----------------------------------------------------------------------------
(***************************************************************************)
(* The platform layer                                                      *)
(***************************************************************************)

\* Each otaPal function, and the boot loader, keeps the types of the platform
\* layer's state.
LEMMA CreateFileType ==
  ASSUME PalTypeOK, NEW filepathOk \in BOOLEAN, NEW created \in BOOLEAN,
         otaPal_CreateFileForRx(filepathOk, created)
  PROVE  PalTypeOK'
  BY DEF PalTypeOK, palVars, otaPal_CreateFileForRx, FwuStates, ErasedImage

\* otaPal_WriteBlock writes inside the slot only.
LEMMA WriteBlockType ==
  ASSUME PalTypeOK, NEW offset, NEW block \in Blocks, NEW written \in BOOLEAN,
         otaPal_WriteBlock(offset, block, written)
  PROVE  PalTypeOK'
  BY DEF PalTypeOK, palVars, otaPal_WriteBlock

\* otaPal_CloseFile, whatever it answers.
LEMMA CloseFileType ==
  ASSUME PalTypeOK, NEW signature, NEW closed, otaPal_CloseFile(signature, closed)
  PROVE  PalTypeOK'
  BY DEF PalTypeOK, palVars, otaPal_CloseFile, psa_fwu_finish, FwuStates

\* An image that starts running has the version of some job's image.
LEMMA TryImageType ==
  ASSUME PalTypeOK, TryImage
  PROVE  fwu' \in FwuStates /\ running' \in Nat /\ previous' \in Nat
  BY PalAssumption DEF PalTypeOK, TryImage, FwuStates

\* otaPal_ActivateNewImage, with a reset to come or without one.
LEMMA ActivateType ==
  ASSUME PalTypeOK, NEW outcome, otaPal_ActivateNewImage(outcome)
  PROVE  PalTypeOK'
  BY TryImageType DEF PalTypeOK, palVars, otaPal_ActivateNewImage, FwuStates

\* otaPal_SetPlatformImageState, for the two states it is called with.
LEMMA SetStateType ==
  ASSUME PalTypeOK, otaPal_SetAccepted \/ otaPal_SetRejected
  PROVE  PalTypeOK'
  BY DEF PalTypeOK, otaPal_SetAccepted, otaPal_SetRejected, FwuStates

\* The boot loader: a staged image tried, one on trial taken back, or neither.
LEMMA BootType ==
  ASSUME PalTypeOK, Boot
  PROVE  PalTypeOK'
  <1>1. CASE fwu = "STAGED" /\ TryImage
    BY <1>1, TryImageType DEF PalTypeOK, Boot
  <1>2. CASE ~(fwu = "STAGED" /\ TryImage)
    BY <1>2 DEF PalTypeOK, Boot, FwuStates
  <1> QED BY <1>1, <1>2

\* A step that calls no otaPal function.
LEMMA PalUnchangedType ==
  ASSUME PalTypeOK, UNCHANGED palVars
  PROVE  PalTypeOK'
  BY DEF PalTypeOK, palVars

-----------------------------------------------------------------------------
(***************************************************************************)
(* The event queue and the publishes                                       *)
(***************************************************************************)

QueueTypeOK(q) == q \in Seq(Events) /\ Len(q) <= QueueLength

\* Sending keeps a queue of events within its length, full or not.
LEMMA SendToType ==
  ASSUME NEW q, QueueTypeOK(q), NEW ev \in Events
  PROVE  QueueTypeOK(SendTo(q, ev))
  <1>1. CASE Len(q) < QueueLength
    BY <1>1, AppendProperties, LenProperties, AgentAssumption DEF QueueTypeOK, SendTo
  <1>2. CASE ~(Len(q) < QueueLength)
    BY <1>2 DEF QueueTypeOK, SendTo
  <1> QED BY <1>1, <1>2

\* Receiving takes an event of the queue and leaves a queue of events.
LEMMA TailType ==
  ASSUME NEW q, QueueTypeOK(q), q # <<>>
  PROVE  QueueTypeOK(Tail(q)) /\ Head(q) \in Events
  BY HeadTailProperties, LenProperties, AgentAssumption DEF QueueTypeOK

\* The events that own no buffer are events.
LEMMA EventType ==
  ASSUME NEW id \in EventIds
  PROVE  Event(id) \in Events
  BY AgentAssumption DEF Event, Events

UplinkTypeOK(u) == u \in Seq(Publishes) /\ Len(u) <= MaxUplink

\* A publish, accepted or not, keeps the uplink a sequence of publishes.
LEMMA PublishType ==
  ASSUME UplinkTypeOK(uplink), NEW m \in Publishes, prvMQTTPublish(m)
  PROVE  UplinkTypeOK(uplink')
  BY AppendProperties, LenProperties, AgentAssumption DEF UplinkTypeOK, prvMQTTPublish

\* Serving one publish leaves the others.
LEMMA WithoutType ==
  ASSUME NEW u, UplinkTypeOK(u), NEW i \in 1 .. Len(u)
  PROVE  UplinkTypeOK(Without(u, i))
  <1>1. Len(u) \in Nat /\ u \in [1 .. Len(u) -> Publishes]
    BY LenProperties DEF UplinkTypeOK
  <1>2. Without(u, i) \in [1 .. Len(u) - 1 -> Publishes]
    BY <1>1 DEF Without
  <1>3. Len(u) - 1 \in Nat
    BY <1>1
  <1>4. Without(u, i) \in Seq(Publishes) /\ Len(Without(u, i)) = Len(u) - 1
    BY <1>2, <1>3
  <1> QED BY <1>1, <1>4, AgentAssumption DEF UplinkTypeOK

\* So does losing the connection, or the power.
LEMMA KeptType ==
  ASSUME UplinkTypeOK(uplink), uplink' \in UplinkKept
  PROVE  UplinkTypeOK(uplink')
  <1>1. uplink' = uplink \/ uplink' = <<>>
    BY DEF UplinkKept
  <1>2. UplinkTypeOK(<<>>)
    BY AgentAssumption, EmptySeq DEF UplinkTypeOK
  <1> QED BY <1>1, <1>2

-----------------------------------------------------------------------------
(***************************************************************************)
(* Types                                                                   *)
(***************************************************************************)

\* AgentTypeOK with the queue and the uplink apart, as the lemmas give them.
RestTypeOK ==
  /\ started \in BOOLEAN
  /\ otaAgentState \in AgentStates
  /\ pc \in PcValues
  /\ held \in 0 .. NumBuffers
  /\ jobDocBuffer \in Docs
  /\ globalJobId \in [job : JobIds, extent : Nat]
  /\ jobFields \in [job : JobIds, signature : JobIds]
  /\ stream \in JobIds
  /\ currentBlockOffset \in 0 .. CounterMod - 1
  /\ numOfBlocksRemaining \in 0 .. CounterMod - 1
  /\ totalBytesReceived \in 0 .. SlotBlocks
  /\ dataBuffers \in [Buffers -> [used : BOOLEAN, data : Payloads \cup {Erased}]]
  /\ otaActive \in BOOLEAN
  /\ connected \in BOOLEAN
  /\ streamSub \in BOOLEAN
  /\ session \subseteq JobIds

\* The parts together are TypeOK.
LEMMA TypeParts ==
  TypeOK <=> RestTypeOK /\ QueueTypeOK(queue) /\ UplinkTypeOK(uplink) /\ PalTypeOK
  BY DEF TypeOK, AgentTypeOK, RestTypeOK, QueueTypeOK, UplinkTypeOK

\* And so they are after a step.
LEMMA TypePartsNext ==
  TypeOK' <=> RestTypeOK' /\ QueueTypeOK(queue') /\ UplinkTypeOK(uplink') /\ PalTypeOK'
  BY DEF TypeOK, AgentTypeOK, RestTypeOK, QueueTypeOK, UplinkTypeOK

\* The values RAM has after a reset.
ResetValues ==
  /\ NoDoc \in Docs
  /\ Zeroed \in [job : JobIds, signature : JobIds]
  /\ [job |-> NoJob, extent |-> 0] \in [job : JobIds, extent : Nat]
  /\ [b \in Buffers |-> Free] \in [Buffers -> [used : BOOLEAN, data : Payloads \cup {Erased}]]
  /\ 0 \in 0 .. NumBuffers
  /\ 0 \in 0 .. CounterMod - 1
  /\ 0 \in 0 .. SlotBlocks

\* They have the types of their variables.
LEMMA ResetValuesType == ResetValues
  <1>1. NoDoc \in Docs
    BY AgentAssumption DEF NoDoc, Docs
  <1>2. /\ Zeroed \in [job : JobIds, signature : JobIds]
        /\ [job |-> NoJob, extent |-> 0] \in [job : JobIds, extent : Nat]
    BY DEF Zeroed, JobIds
  <1>3. [b \in Buffers |-> Free] \in [Buffers -> [used : BOOLEAN, data : Payloads \cup {Erased}]]
    BY DEF Free
  <1>4. 0 \in 0 .. NumBuffers /\ 0 \in 0 .. CounterMod - 1 /\ 0 \in 0 .. SlotBlocks
    BY PalAssumption, AgentAssumption
  <1> QED BY <1>1, <1>2, <1>3, <1>4 DEF ResetValues

\* The state the program starts in.
LEMMA InitType == Init => TypeOK
  <1> SUFFICES ASSUME Init PROVE TypeOK
    OBVIOUS
  <1>1. RestTypeOK
    BY ResetValuesType
    DEF Init, AgentInit, RestTypeOK, ResetValues, AgentStates, PcValues, JobIds
  <1>2. QueueTypeOK(queue) /\ UplinkTypeOK(uplink)
    BY AgentAssumption, EmptySeq DEF Init, AgentInit, QueueTypeOK, UplinkTypeOK
  <1>3. PalTypeOK
    BY PalAssumption DEF Init, PalInit, PalTypeOK, FwuStates, ErasedImage
  <1> QED BY <1>1, <1>2, <1>3, TypeParts

\* Start, reset and power loss.
LEMMA StartType ==
  ASSUME TypeOK, StartDemo \/ Reboot \/ ResetFails
  PROVE  TypeOK'
  <1> USE TypeParts, TypePartsNext, PalUnchangedType, EventType
  <1>1. CASE StartDemo
    <2>1. QueueTypeOK(queue')
      BY <1>1, SendToType DEF StartDemo, EventIds
    <2>2. RestTypeOK'
      BY <1>1 DEF StartDemo, RestTypeOK, AgentStates, Memory, countVars, jobVars, netVars
    <2> QED BY <1>1, <2>1, <2>2 DEF StartDemo, netVars
  <1>2. CASE Reboot
    <2>1. RestTypeOK'
      BY <1>2, ResetValuesType
      DEF Reboot, RestTypeOK, ResetValues, AgentStates, PcValues, JobIds
    <2>2. QueueTypeOK(queue')
      BY <1>2, AgentAssumption, EmptySeq DEF Reboot, QueueTypeOK
    <2>3. UplinkTypeOK(uplink')
      BY <1>2, KeptType DEF Reboot
    <2> QED BY <1>2, <2>1, <2>2, <2>3, BootType DEF Reboot
  <1>3. CASE ResetFails
    BY <1>3 DEF ResetFails, RestTypeOK, PcValues, Memory, countVars, jobVars, netVars
  <1> QED BY <1>1, <1>2, <1>3

\* The parts of the state that are left alone keep their types.
LEMMA UplinkUnchangedType ==
  ASSUME UplinkTypeOK(uplink), UNCHANGED uplink
  PROVE  UplinkTypeOK(uplink')
  OBVIOUS

\* Job documents.
LEMMA JobDocumentType ==
  ASSUME TypeOK,
         \/ RequestJobDocument \/ JobRequested
         \/ DropJobDocument \/ EmptyJobDocument \/ SameJobDocument
  PROVE  TypeOK'
  <1> USE TypeParts, TypePartsNext, PalUnchangedType, EventType, TailType
  <1>1. CASE RequestJobDocument
    BY <1>1 DEF RequestJobDocument, Receive, Dequeue, RestTypeOK, PcValues,
                Memory, countVars, jobVars, netVars
  <1>2. CASE JobRequested
    <2>1. Message("StartNext", NoJob, 0) \in Publishes
      BY DEF Message, Publishes, JobIds
    <2>2. UplinkTypeOK(uplink')
      BY <1>2, <2>1, PublishType DEF JobRequested
    <2> QED BY <1>2, <2>2 DEF JobRequested, RestTypeOK, PcValues, AgentStates,
                              Memory, countVars, jobVars
  <1>3. CASE DropJobDocument
    BY <1>3 DEF DropJobDocument, Receive, Dequeue, RestTypeOK, taskVars,
                Memory, countVars, jobVars, netVars
  <1>4. CASE EmptyJobDocument
    BY <1>4 DEF EmptyJobDocument, Receive, Dequeue, RestTypeOK, Zeroed, JobIds,
                countVars, netVars
  <1>5. CASE SameJobDocument
    <2>1. QueueTypeOK(queue')
      BY <1>5, SendToType DEF SameJobDocument, Receive, FileCreated, EventIds
    <2>2. RestTypeOK'
      BY <1>5 DEF SameJobDocument, FileCreated, RestTypeOK, AgentStates, Zeroed, JobIds,
                  countVars, netVars
    <2> QED BY <1>5, <2>1, <2>2 DEF SameJobDocument, netVars
  <1> QED BY <1>1, <1>2, <1>3, <1>4, <1>5

\* A new job: its id is taken over, whatever its length.
LEMMA NewJobType ==
  ASSUME TypeOK, NewJobDocument
  PROVE  /\ QueueTypeOK(queue') /\ UplinkTypeOK(uplink')
         /\ globalJobId' \in [job : JobIds, extent : Nat]
         /\ jobDocBuffer.job \in Jobs /\ jobDocBuffer' \in Docs
         /\ [job |-> jobDocBuffer.job, signature |-> NoJob] \in [job : JobIds, signature : JobIds]
  <1> USE TypeParts
  <1>1. jobDocBuffer.job \in Jobs /\ jobDocBuffer' = jobDocBuffer /\ UNCHANGED netVars
    BY DEF NewJobDocument
  <1>2. IdLength[jobDocBuffer.job] \in Nat /\ globalJobId.extent \in Nat
    BY <1>1, AgentAssumption DEF RestTypeOK
  <1>3. globalJobId' \in [job : JobIds, extent : Nat]
    BY <1>1, <1>2 DEF NewJobDocument, JobIds
  <1>4. QueueTypeOK(queue')
    BY TailType DEF NewJobDocument, Dequeue, Receive
  <1> QED BY <1>1, <1>3, <1>4 DEF RestTypeOK, JobIds, netVars

\* The three things that receivedJobDocumentHandler does with a new document.
LEMMA NewJobDocumentType ==
  ASSUME TypeOK, UnparsedJobDocument \/ SelfTestJobDocument \/ DownloadJobDocument
  PROVE  TypeOK'
  <1> USE TypeParts, TypePartsNext, NewJobType
  <1>1. CASE UnparsedJobDocument
    <2>1. RestTypeOK'
      BY <1>1, ResetValuesType DEF UnparsedJobDocument, NewJobDocument, RestTypeOK, ResetValues,
                                   countVars, netVars
    <2> QED BY <1>1, <2>1, PalUnchangedType DEF UnparsedJobDocument
  <1>2. CASE SelfTestJobDocument
    <2>1. RestTypeOK'
      BY <1>2 DEF SelfTestJobDocument, NewJobDocument, RestTypeOK, PcValues, countVars, netVars
    <2> QED BY <1>2, <2>1, SetStateType DEF SelfTestJobDocument
  <1>3. CASE DownloadJobDocument
    <2>1. NumBlocks \in 0 .. CounterMod - 1 /\ 0 \in 0 .. CounterMod - 1 /\ 0 \in 0 .. SlotBlocks
      BY PalAssumption, AgentAssumption
    <2>2. stream' \in JobIds
      BY <1>3 DEF DownloadJobDocument, Download, JobIds
    <2>3. RestTypeOK'
      BY <1>3, <2>1, <2>2 DEF DownloadJobDocument, Download, NewJobDocument, RestTypeOK, PcValues, netVars
    <2> QED BY <1>3, <2>3, PalUnchangedType DEF DownloadJobDocument, Download
  <1> QED BY <1>1, <1>2, <1>3

\* The status of a job names a job, or none.
LEMMA MessageType ==
  ASSUME NEW type \in {"StartNext", "GetBlock", "InProgress", "Succeeded", "Failed"},
         NEW job \in JobIds, NEW arg \in Nat
  PROVE  Message(type, job, arg) \in Publishes
  BY DEF Message, Publishes

\* The bytes of globalJobId spell a job, or none.
LEMMA AddressedJobType == AddressedJob \in JobIds
  BY DEF AddressedJob, JobIds

\* sendFinalJobStatusMessage, for either status.
LEMMA FinalStatusType ==
  ASSUME TypeOK, NEW status \in {"Succeeded", "Failed"}, FinalStatusSent(status)
  PROVE  TypeOK'
  <1> USE TypeParts, TypePartsNext
  <1>1. UplinkTypeOK(uplink')
    BY AddressedJobType, MessageType, PublishType DEF FinalStatusSent
  <1>2. globalJobId' \in [job : JobIds, extent : Nat]
    BY DEF FinalStatusSent, RestTypeOK, JobIds
  <1>3. RestTypeOK'
    BY <1>2 DEF FinalStatusSent, RestTypeOK, PcValues, countVars
  <1> QED BY <1>1, <1>3, PalUnchangedType DEF FinalStatusSent

\* The subscription and the creation of the file.
LEMMA DownloaderReadyType ==
  ASSUME TypeOK, DownloaderReady
  PROVE  TypeOK'
  <1> USE TypeParts, TypePartsNext
  <1>1. PICK signature \in (IF jobDocBuffer.job = stream THEN {stream}
                            ELSE {jobDocBuffer.job, NoJob}), created \in BOOLEAN :
          /\ IF signature = NoJob
             THEN ~created /\ UNCHANGED <<palVars, jobFields>>
             ELSE /\ jobFields' = [jobFields EXCEPT !.signature = signature]
                  /\ \E filepathOk \in {TRUE, jobDocBuffer.job = stream} :
                       otaPal_CreateFileForRx(filepathOk, created)
          /\ IF created
             THEN FileCreated(queue)
             ELSE otaActive' = FALSE /\ UNCHANGED <<queue, otaAgentState>>
    BY DEF DownloaderReady
  <1>2. signature \in JobIds
    BY <1>1 DEF RestTypeOK, Docs, NoDoc, JobIds
  <1>3. PalTypeOK' /\ jobFields' \in [job : JobIds, signature : JobIds]
    <2>1. CASE signature = NoJob
      BY <1>1, <2>1, PalUnchangedType DEF RestTypeOK
    <2>2. CASE signature # NoJob
      BY <1>1, <1>2, <2>2, CreateFileType DEF RestTypeOK
    <2> QED BY <2>1, <2>2
  <1>4. QueueTypeOK(queue') /\ otaAgentState' \in AgentStates /\ otaActive' \in BOOLEAN
    <2>1. CASE created
      BY <1>1, <2>1, EventType, SendToType DEF FileCreated, EventIds, AgentStates
    <2>2. CASE ~created
      BY <1>1, <2>2 DEF RestTypeOK
    <2> QED BY <2>1, <2>2
  <1>5. streamSub' \in BOOLEAN /\ session' \subseteq JobIds
    BY DEF DownloaderReady, RestTypeOK
  <1>6. RestTypeOK'
    BY <1>3, <1>4, <1>5 DEF DownloaderReady, RestTypeOK, PcValues, countVars
  <1>7. UplinkTypeOK(uplink')
    BY DEF DownloaderReady
  <1> QED BY <1>3, <1>4, <1>6, <1>7

\* File blocks.
LEMMA FreeBufferType ==
  ASSUME RestTypeOK, NEW b, FreeBuffer(b)
  PROVE  dataBuffers' \in [Buffers -> [used : BOOLEAN, data : Payloads \cup {Erased}]]
  BY DEF RestTypeOK, FreeBuffer, Free

\* requestDataBlock asks for a block of the stream, if there is one.
LEMMA RequestBlockType ==
  ASSUME TypeOK, RequestFileBlock \/ BlockRequested \/ DropFileBlock \/ TakeFileBlock
  PROVE  TypeOK'
  <1> USE TypeParts, TypePartsNext, PalUnchangedType, TailType
  <1>1. CASE RequestFileBlock
    BY <1>1 DEF RequestFileBlock, Receive, Dequeue, RestTypeOK, PcValues, AgentStates,
                Memory, countVars, jobVars, netVars
  <1>2. CASE BlockRequested
    <2>1. currentBlockOffset % U16 \in Nat
      BY AgentAssumption DEF RestTypeOK
    <2>2. UplinkTypeOK(uplink')
      <3>1. CASE stream = NoJob
        BY <1>2, <3>1 DEF BlockRequested
      <3>2. CASE stream # NoJob
        BY <1>2, <2>1, <3>2, MessageType, PublishType DEF BlockRequested, RestTypeOK
      <3> QED BY <3>1, <3>2
    <2>3. RestTypeOK'
      BY <1>2 DEF BlockRequested, RestTypeOK, PcValues, Memory, countVars, jobVars
    <2> QED BY <1>2, <2>2, <2>3 DEF BlockRequested
  <1>3. CASE DropFileBlock
    <2>1. RestTypeOK'
      BY <1>3, FreeBufferType DEF DropFileBlock, RestTypeOK, taskVars, countVars, jobVars, netVars
    <2> QED BY <1>3, <2>1 DEF DropFileBlock, Receive, Dequeue, netVars
  <1>4. CASE TakeFileBlock
    <2>1. held' \in 0 .. NumBuffers
      BY <1>4 DEF TakeFileBlock, Receive, Events
    <2> QED BY <1>4, <2>1 DEF TakeFileBlock, Receive, Dequeue, RestTypeOK, PcValues,
                              Memory, countVars, jobVars, netVars
  <1> QED BY <1>1, <1>2, <1>3, <1>4

\* The counters stay within their widths, however often a block is written:
\* the slot bounds the bytes, and the two others wrap.
LEMMA FileBlockHandledType ==
  ASSUME TypeOK, FileBlockHandled
  PROVE  TypeOK'
  <1> USE TypeParts, TypePartsNext
  <1>1. PICK written \in BOOLEAN :
          /\ WriteFileBlock(written)
          /\ IF written
             THEN /\ totalBytesReceived' = totalBytesReceived + 1
                  /\ numOfBlocksRemaining' = (numOfBlocksRemaining + CounterMod - 1) % CounterMod
                  /\ currentBlockOffset' = (currentBlockOffset + 1) % CounterMod
             ELSE UNCHANGED countVars
    BY DEF FileBlockHandled
  <1>2. PalTypeOK'
    BY <1>1, WriteBlockType, PalUnchangedType DEF WriteFileBlock
  <1>3. written => totalBytesReceived \in 0 .. SlotBlocks - 1
    BY <1>1 DEF WriteFileBlock, otaPal_WriteBlock, Slot
  <1>4. /\ currentBlockOffset' \in 0 .. CounterMod - 1
        /\ numOfBlocksRemaining' \in 0 .. CounterMod - 1
        /\ totalBytesReceived' \in 0 .. SlotBlocks
    BY <1>1, <1>3, PalAssumption, AgentAssumption DEF RestTypeOK, countVars
  <1>5. QueueTypeOK(queue')
    <2>1. Event("CloseFile") \in Events /\ Event("RequestFileBlock") \in Events
      BY EventType DEF EventIds
    <2> QED BY <2>1, SendToType DEF FileBlockHandled
  <1>6. RestTypeOK'
    BY <1>4, FreeBufferType, AgentAssumption DEF FileBlockHandled, RestTypeOK, PcValues, jobVars, netVars
  <1> QED BY <1>2, <1>5, <1>6 DEF FileBlockHandled, netVars

\* Closing and activation.
LEMMA CloseType ==
  ASSUME TypeOK, CloseFile \/ ActivateImage
  PROVE  TypeOK'
  <1> USE TypeParts, TypePartsNext, TailType
  <1>1. CASE CloseFile
    <2>1. PalTypeOK'
      BY <1>1, CloseFileType DEF CloseFile
    <2>2. QueueTypeOK(queue')
      BY <1>1, EventType, SendToType DEF CloseFile, Receive, Dequeue, DequeueAndSend, EventIds
    <2>3. RestTypeOK'
      BY <1>1 DEF CloseFile, RestTypeOK, taskVars, Memory, countVars, jobVars, netVars
    <2> QED BY <1>1, <2>1, <2>2, <2>3 DEF CloseFile, netVars
  <1>2. CASE ActivateImage
    BY <1>2, PalUnchangedType
    DEF ActivateImage, Receive, Dequeue, RestTypeOK, PcValues, Memory, countVars, jobVars, netVars
  <1> QED BY <1>1, <1>2

\* sendStatusDetailsMessage and activateImage, the status version found or not.
LEMMA StatusSentType ==
  ASSUME TypeOK, StatusSent
  PROVE  TypeOK'
  <1> USE TypeParts, TypePartsNext
  <1>1. UplinkTypeOK(uplink')
    <2>1. PICK version \in (IF jobFields.job = NoJob THEN Versions ELSE {running}) :
            prvMQTTPublish(Message("InProgress", AddressedJob, version))
      BY DEF StatusSent
    <2>2. version \in Nat
      BY AgentAssumption DEF PalTypeOK
    <2> QED BY <2>1, <2>2, AddressedJobType, MessageType, PublishType
  <1>2. PalTypeOK'
    BY ActivateType DEF StatusSent
  <1>3. QueueTypeOK(queue')
    BY EventType, SendToType DEF StatusSent, EventIds
  <1>4. RestTypeOK'
    BY DEF StatusSent, RestTypeOK, PcValues, Memory, countVars, jobVars
  <1> QED BY <1>1, <1>2, <1>3, <1>4

\* Suspending and resuming, by the agent task and by the demo task.
LEMMA SuspendType ==
  ASSUME TypeOK, Suspend \/ Resume \/ DemoSuspend \/ DemoResume
  PROVE  TypeOK'
  <1> USE TypeParts, TypePartsNext, PalUnchangedType, TailType, EventType
  <1>1. CASE Suspend
    BY <1>1 DEF Suspend, Receive, Dequeue, RestTypeOK, AgentStates, Memory, countVars, jobVars, netVars
  <1>2. CASE Resume
    <2>1. QueueTypeOK(queue')
      BY <1>2, SendToType DEF Resume, Receive, DequeueAndSend, EventIds
    <2> QED BY <1>2, <2>1 DEF Resume, RestTypeOK, AgentStates, Memory, countVars, jobVars, netVars
  <1>3. ASSUME NEW id \in {"Suspend", "Resume"}, DemoSend(id) PROVE TypeOK'
    <2>1. QueueTypeOK(queue')
      BY <1>3, SendToType DEF DemoSend, EventIds
    <2> QED BY <1>3, <2>1 DEF DemoSend, RestTypeOK, taskVars, Memory, countVars, jobVars, netVars
  <1> QED BY <1>1, <1>2, <1>3 DEF DemoSuspend, DemoResume

\* The MQTT agent task.
LEMMA MqttType ==
  ASSUME TypeOK, MqttTask
  PROVE  TypeOK'
  <1> USE TypeParts, TypePartsNext, PalUnchangedType
  <1>1. ASSUME NEW doc \in Docs, JobDocArrives(doc) PROVE TypeOK'
    <2>1. QueueTypeOK(queue')
      BY <1>1, EventType, SendToType DEF JobDocArrives, EventIds
    <2> QED BY <1>1, <2>1 DEF JobDocArrives, RestTypeOK, taskVars, countVars, netVars
  <1>2. ASSUME NEW payload \in Payloads, NEW fits \in BOOLEAN, BlockArrives(payload, fits)
        PROVE  TypeOK'
    <2>1. PICK b \in Buffers :
            IF fits
            THEN /\ dataBuffers' = [dataBuffers EXCEPT ![b] = [used |-> TRUE, data |-> payload]]
                 /\ queue' = SendTo(queue, BlockEvent(b))
            ELSE /\ dataBuffers' = [dataBuffers EXCEPT ![b].used = TRUE]
                 /\ UNCHANGED queue
      BY <1>2 DEF BlockArrives
    <2>2. BlockEvent(b) \in Events
      BY DEF BlockEvent, Events, EventIds, Buffers
    <2>3. QueueTypeOK(queue')
      BY <2>1, <2>2, SendToType
    <2>4. /\ [dataBuffers[b] EXCEPT !.used = TRUE] \in [used : BOOLEAN, data : Payloads \cup {Erased}]
          /\ [used |-> TRUE, data |-> payload] \in [used : BOOLEAN, data : Payloads \cup {Erased}]
      BY DEF RestTypeOK
    <2>5. dataBuffers' \in [Buffers -> [used : BOOLEAN, data : Payloads \cup {Erased}]]
      BY <2>1, <2>4, Zenon DEF RestTypeOK
    <2> QED BY <1>2, <2>3, <2>5 DEF BlockArrives, RestTypeOK, taskVars, countVars, jobVars, netVars
  <1>3. CASE Connect
    BY <1>3 DEF Connect, RestTypeOK, taskVars, Memory, countVars, jobVars
  <1>4. CASE Disconnect
    <2>1. UplinkTypeOK(uplink')
      BY <1>4, KeptType DEF Disconnect
    <2> QED BY <1>4, <2>1 DEF Disconnect, RestTypeOK, taskVars, Memory, countVars, jobVars
  <1>5. ASSUME NEW i \in 1 .. MaxUplink, UplinkServed(i) PROVE TypeOK'
    <2>1. UplinkTypeOK(uplink')
      BY <1>5, WithoutType DEF UplinkServed
    <2> QED BY <1>5, <2>1 DEF UplinkServed, RestTypeOK, taskVars, Memory, countVars, jobVars
  <1> QED BY <1>1, <1>2, <1>3, <1>4, <1>5 DEF MqttTask

\* No step of any task, no reset and no message takes the state out of its types.
LEMMA NextType ==
  ASSUME TypeOK, [Next]_vars
  PROVE  TypeOK'
  <1>1. CASE Next
    <2>1. CASE AgentTask
      BY <2>1, JobDocumentType, NewJobDocumentType, FinalStatusType, DownloaderReadyType,
         RequestBlockType, FileBlockHandledType, CloseType, StatusSentType, SuspendType
      DEF AgentTask
    <2>2. CASE DemoTask
      BY <2>2, StartType, SuspendType DEF DemoTask
    <2> QED BY <1>1, <2>1, <2>2, MqttType, StartType DEF Next
  <1>2. CASE UNCHANGED vars
    BY <1>2 DEF vars, agentVars, taskVars, jobVars, countVars, netVars, palVars,
                TypeOK, AgentTypeOK, PalTypeOK
  <1> QED BY <1>1, <1>2

\* The state of the orchestrator has its types for ever, whatever the broker
\* sends: the counters of processOTAEvents stay within their widths, the queue
\* of ota_os_freertos.c within its length.
THEOREM TypeCorrect == Spec => []TypeOK
  <1>1. Init => TypeOK
    BY InitType
  <1>2. TypeOK /\ [Next]_vars => TypeOK'
    BY NextType
  <1> QED BY <1>1, <1>2, PTL DEF Spec

-----------------------------------------------------------------------------
(***************************************************************************)
(* Ownership of the data buffers                                           *)
(***************************************************************************)

\* BufferOwnership in two parts, over a queue q, buffers d and the buffer h the
\* agent task holds: what the queue owns, and what the agent task owns.
IsBlock(ev) == ev.id = "ReceivedFileBlock"

QueueOwns(q, d, h) ==
  \A k \in 1 .. Len(q) : IsBlock(q[k]) =>
    /\ q[k].buf \in Buffers
    /\ d[q[k].buf].used
    /\ q[k].buf # h
    /\ \A l \in 1 .. Len(q) : IsBlock(q[l]) /\ q[l].buf = q[k].buf => l = k

TaskOwns(p, d, h) ==
  /\ p = "write" <=> h \in Buffers
  /\ h \in Buffers => d[h].used

\* The parts together are BufferOwnership.
LEMMA OwnershipParts ==
  BufferOwnership <=> QueueOwns(queue, dataBuffers, held) /\ TaskOwns(pc, dataBuffers, held)
  BY DEF BufferOwnership, QueueOwns, TaskOwns, IsBlock

\* And so they are after a step.
LEMMA OwnershipPartsNext ==
  BufferOwnership' <=> QueueOwns(queue', dataBuffers', held') /\ TaskOwns(pc', dataBuffers', held')
  BY DEF BufferOwnership, QueueOwns, TaskOwns, IsBlock

\* Receiving an event of another kind takes no buffer.
LEMMA TailOwns ==
  ASSUME NEW q, NEW d, NEW h, QueueTypeOK(q), q # <<>>, QueueOwns(q, d, h)
  PROVE  QueueOwns(Tail(q), d, h)
  <1>1. /\ Len(q) \in Nat /\ Len(Tail(q)) = Len(q) - 1
        /\ \A k \in 1 .. Len(Tail(q)) : Tail(q)[k] = q[k + 1] /\ k + 1 \in 1 .. Len(q)
    BY HeadTailProperties, LenProperties DEF QueueTypeOK
  <1> QED BY <1>1 DEF QueueOwns

\* Receiving a block takes its buffer out of the queue: no other event has it.
LEMMA HeadOwns ==
  ASSUME NEW q, NEW d, NEW h, QueueTypeOK(q), q # <<>>, QueueOwns(q, d, h), IsBlock(Head(q))
  PROVE  /\ Head(q).buf \in Buffers /\ d[Head(q).buf].used
         /\ QueueOwns(Tail(q), d, Head(q).buf)
         /\ \A k \in 1 .. Len(Tail(q)) : IsBlock(Tail(q)[k]) => Tail(q)[k].buf # Head(q).buf
  <1>1. /\ Len(q) \in Nat /\ Len(Tail(q)) = Len(q) - 1 /\ 1 \in 1 .. Len(q) /\ Head(q) = q[1]
        /\ \A k \in 1 .. Len(Tail(q)) : Tail(q)[k] = q[k + 1] /\ k + 1 \in 1 .. Len(q) /\ k + 1 # 1
    BY HeadTailProperties, LenProperties DEF QueueTypeOK
  <1>2. \A k \in 1 .. Len(Tail(q)) : IsBlock(Tail(q)[k]) => Tail(q)[k].buf # Head(q).buf
    BY <1>1 DEF QueueOwns
  <1>3. QueueOwns(Tail(q), d, h)
    BY TailOwns
  <1> QED BY <1>1, <1>2, <1>3 DEF QueueOwns

\* Sending an event that owns no buffer, whether or not there is room for it.
LEMMA SendOwns ==
  ASSUME NEW q, NEW d, NEW h, QueueTypeOK(q), NEW ev \in Events, ~IsBlock(ev), QueueOwns(q, d, h)
  PROVE  QueueOwns(SendTo(q, ev), d, h)
  <1>1. CASE Len(q) < QueueLength
    <2>1. /\ Len(q) \in Nat /\ Len(SendTo(q, ev)) = Len(q) + 1
          /\ \A k \in 1 .. Len(q) : SendTo(q, ev)[k] = q[k]
          /\ SendTo(q, ev)[Len(q) + 1] = ev
      BY <1>1, AppendProperties, LenProperties DEF QueueTypeOK, SendTo
    <2>2. \A k \in 1 .. Len(SendTo(q, ev)) : IsBlock(SendTo(q, ev)[k]) =>
             k \in 1 .. Len(q) /\ SendTo(q, ev)[k] = q[k]
      BY <2>1
    <2> QED BY <2>2 DEF QueueOwns
  <1>2. CASE ~(Len(q) < QueueLength)
    BY <1>2 DEF SendTo
  <1> QED BY <1>1, <1>2

\* Sending a block whose buffer was free until now.
LEMMA SendBlockOwns ==
  ASSUME NEW q, NEW d, NEW e, NEW h, QueueTypeOK(q), NEW b \in Buffers,
         QueueOwns(q, d, h), ~d[b].used, b # h,
         \A c \in Buffers : e[c] = (IF c = b THEN e[b] ELSE d[c]), e[b].used
  PROVE  QueueOwns(q, e, h) /\ QueueOwns(SendTo(q, BlockEvent(b)), e, h)
  <1>1. \A k \in 1 .. Len(q) : IsBlock(q[k]) => q[k].buf # b
    BY DEF QueueOwns
  <1>2. QueueOwns(q, e, h)
    BY <1>1 DEF QueueOwns
  <1>3. CASE Len(q) < QueueLength
    <2>1. /\ Len(q) \in Nat /\ Len(SendTo(q, BlockEvent(b))) = Len(q) + 1
          /\ \A k \in 1 .. Len(q) : SendTo(q, BlockEvent(b))[k] = q[k]
          /\ SendTo(q, BlockEvent(b))[Len(q) + 1].buf = b
      BY <1>3, AppendProperties, LenProperties
      DEF QueueTypeOK, SendTo, BlockEvent, Events, EventIds, Buffers
    <2>2. \A k \in 1 .. Len(SendTo(q, BlockEvent(b))) : k \in 1 .. Len(q) \/ k = Len(q) + 1
      BY <2>1
    <2> QED BY <1>1, <1>2, <2>1, <2>2 DEF QueueOwns
  <1>4. CASE ~(Len(q) < QueueLength)
    BY <1>2, <1>4 DEF SendTo
  <1> QED BY <1>2, <1>3, <1>4

\* Freeing a buffer no event has.
LEMMA FreeOwns ==
  ASSUME RestTypeOK, NEW q, NEW h, NEW b, QueueOwns(q, dataBuffers, h), FreeBuffer(b),
         \A k \in 1 .. Len(q) : IsBlock(q[k]) => q[k].buf # b
  PROVE  QueueOwns(q, dataBuffers', h)
  <1>1. \A c \in Buffers : c # b => dataBuffers'[c] = dataBuffers[c]
    BY DEF FreeBuffer, RestTypeOK
  <1> QED BY <1>1 DEF QueueOwns

\* No buffer has the number of none.
LEMMA NoBuffer == 0 \notin Buffers
  BY DEF Buffers

\* No buffer is owned before the agent starts.
LEMMA InitOwnership == Init => BufferOwnership
  BY OwnershipParts, NoBuffer, EmptySeq DEF Init, AgentInit, QueueOwns, TaskOwns

\* A step of the agent task that receives an event other than a block, or none,
\* sends events that own no buffer, and neither takes nor frees a buffer.
LEMMA QuietStep ==
  ASSUME TypeOK, BufferOwnership, UNCHANGED <<dataBuffers, held>>,
         pc = "write" <=> pc' = "write",
         NEW ev \in Events, ~IsBlock(ev),
         \/ queue' \in {queue, SendTo(queue, ev)}
         \/ queue # <<>> /\ queue' \in {Tail(queue), SendTo(Tail(queue), ev)}
  PROVE  BufferOwnership'
  <1> USE TypeParts, OwnershipParts, OwnershipPartsNext
  <1>1. QueueOwns(queue', dataBuffers, held)
    <2>1. CASE queue' \in {queue, SendTo(queue, ev)}
      BY <2>1, SendOwns
    <2>2. CASE queue # <<>> /\ queue' \in {Tail(queue), SendTo(Tail(queue), ev)}
      BY <2>2, TailOwns, TailType, SendOwns
    <2> QED BY <2>1, <2>2
  <1> QED BY <1>1 DEF TaskOwns

\* The events but the blocks own no buffer.
LEMMA PlainEvents ==
  ASSUME NEW id \in EventIds, id # "ReceivedFileBlock"
  PROVE  Event(id) \in Events /\ ~IsBlock(Event(id))
  BY EventType DEF Event, IsBlock

\* The steps of the agent task that are not about a block it was sent.
LEMMA AgentQuiet ==
  ASSUME TypeOK, BufferOwnership, AgentTask,
         ~DropFileBlock, ~TakeFileBlock, ~FileBlockHandled
  PROVE  BufferOwnership'
  <1> USE QuietStep, PlainEvents
  <1> DEFINE RequestJob == Event("RequestJobDocument")
             RequestBlock == Event("RequestFileBlock")
             Activate == Event("ActivateImage")
  <1>1. /\ RequestJob \in Events /\ ~IsBlock(RequestJob)
        /\ RequestBlock \in Events /\ ~IsBlock(RequestBlock)
        /\ Activate \in Events /\ ~IsBlock(Activate)
    BY DEF EventIds
  <1> HIDE DEF RequestJob, RequestBlock, Activate
  <1>2. CASE RequestJobDocument \/ DropJobDocument \/ EmptyJobDocument
    BY <1>1, <1>2
    DEF RequestJobDocument, DropJobDocument, EmptyJobDocument, Receive, Dequeue, taskVars, Memory
  <1>3. CASE JobRequested \/ \E status \in {"Succeeded", "Failed"} : FinalStatusSent(status)
    BY <1>1, <1>3 DEF JobRequested, FinalStatusSent, Memory
  <1>4. CASE SameJobDocument
    BY <1>1, <1>4 DEF SameJobDocument, FileCreated, Receive, RequestBlock
  <1>5. CASE UnparsedJobDocument \/ SelfTestJobDocument \/ DownloadJobDocument
    BY <1>1, <1>5
    DEF UnparsedJobDocument, SelfTestJobDocument, DownloadJobDocument, Download, NewJobDocument,
        Receive, Dequeue
  <1>6. CASE DownloaderReady
    <2>1. queue' = queue \/ queue' = SendTo(queue, RequestBlock)
      BY <1>6 DEF DownloaderReady, FileCreated, RequestBlock
    <2> QED BY <1>1, <1>6, <2>1 DEF DownloaderReady
  <1>7. CASE RequestFileBlock \/ BlockRequested \/ ActivateImage
    BY <1>1, <1>7
    DEF RequestFileBlock, BlockRequested, ActivateImage, Receive, Dequeue, Memory
  <1>8. CASE CloseFile
    <2>1. queue' \in {Tail(queue), SendTo(Tail(queue), Activate)}
      BY <1>8 DEF CloseFile, Dequeue, DequeueAndSend, Activate
    <2> QED BY <1>1, <1>8, <2>1 DEF CloseFile, Receive, taskVars, Memory
  <1>9. CASE StatusSent
    <2>1. queue' \in {queue, SendTo(queue, RequestJob)} /\ pc' # "write"
      BY <1>9 DEF StatusSent, RequestJob
    <2> QED BY <1>1, <1>9, <2>1 DEF StatusSent, Memory
  <1>10. CASE Suspend \/ Resume
    BY <1>1, <1>10 DEF Suspend, Resume, Receive, Dequeue, DequeueAndSend, Memory, RequestJob
  <1> QED BY <1>2, <1>3, <1>4, <1>5, <1>6, <1>7, <1>8, <1>9, <1>10 DEF AgentTask

\* The steps of the agent task on a block: dropped, taken, written and freed.
LEMMA AgentBlocks ==
  ASSUME TypeOK, BufferOwnership, DropFileBlock \/ TakeFileBlock \/ FileBlockHandled
  PROVE  BufferOwnership'
  <1> USE TypeParts, OwnershipParts, OwnershipPartsNext
  <1>1. CASE DropFileBlock
    <2>1. queue # <<>> /\ IsBlock(Head(queue)) /\ queue' = Tail(queue) /\ UNCHANGED <<pc, held>>
      BY <1>1 DEF DropFileBlock, Receive, Dequeue, IsBlock, taskVars
    <2>2. QueueOwns(Tail(queue), dataBuffers, held)
      BY <2>1, TailOwns
    <2>3. QueueOwns(queue', dataBuffers', held)
      BY <1>1, <2>1, <2>2, HeadOwns, FreeOwns DEF DropFileBlock
    <2>4. held \notin Buffers /\ pc # "write"
      BY <1>1 DEF DropFileBlock, Receive, TaskOwns
    <2> QED BY <2>1, <2>3, <2>4 DEF TaskOwns
  <1>2. CASE TakeFileBlock
    <2>1. /\ queue # <<>> /\ IsBlock(Head(queue)) /\ queue' = Tail(queue)
          /\ held' = Head(queue).buf /\ pc' = "write" /\ UNCHANGED dataBuffers
      BY <1>2 DEF TakeFileBlock, Receive, Dequeue, IsBlock, Memory
    <2> QED BY <2>1, HeadOwns DEF TaskOwns
  <1>3. CASE FileBlockHandled
    <2>1. PICK id \in {"CloseFile", "RequestFileBlock"} : queue' = SendTo(queue, Event(id))
      BY <1>3 DEF FileBlockHandled
    <2>2. FreeBuffer(held) /\ held' = 0 /\ pc' = "receive"
      BY <1>3 DEF FileBlockHandled
    <2>3. QueueOwns(queue, dataBuffers', held)
      BY <2>2, FreeOwns DEF QueueOwns
    <2>4. QueueOwns(queue, dataBuffers', 0)
      BY <2>3, NoBuffer DEF QueueOwns
    <2>5. QueueOwns(queue', dataBuffers', held')
      BY <2>1, <2>2, <2>4, PlainEvents, SendOwns DEF EventIds
    <2> QED BY <2>2, <2>5, NoBuffer DEF TaskOwns
  <1> QED BY <1>1, <1>2, <1>3

\* The steps of the other tasks.
LEMMA OthersOwnership ==
  ASSUME TypeOK, BufferOwnership, DemoTask \/ MqttTask \/ Reboot \/ ResetFails
  PROVE  BufferOwnership'
  <1> USE TypeParts, OwnershipParts, OwnershipPartsNext
  <1>1. CASE DemoTask
    <2>1. PICK id \in {"RequestJobDocument", "Suspend", "Resume"} :
            queue' = SendTo(queue, Event(id)) /\ UNCHANGED <<pc, held, dataBuffers>>
      BY <1>1 DEF DemoTask, StartDemo, DemoSuspend, DemoResume, DemoSend, taskVars, Memory
    <2> QED BY <2>1, PlainEvents, QuietStep DEF EventIds
  <1>2. ASSUME NEW doc \in Docs, JobDocArrives(doc) PROVE BufferOwnership'
    BY <1>2, PlainEvents, QuietStep DEF JobDocArrives, taskVars, EventIds
  <1>3. ASSUME NEW payload \in Payloads, NEW fits \in BOOLEAN, BlockArrives(payload, fits)
        PROVE  BufferOwnership'
    <2>1. PICK b \in Buffers :
            /\ FirstFree(b)
            /\ IF fits
               THEN /\ dataBuffers' = [dataBuffers EXCEPT ![b] = [used |-> TRUE, data |-> payload]]
                    /\ queue' = SendTo(queue, BlockEvent(b))
               ELSE /\ dataBuffers' = [dataBuffers EXCEPT ![b].used = TRUE]
                    /\ UNCHANGED queue
      BY <1>3 DEF BlockArrives
    <2>2. ~dataBuffers[b].used /\ b # held
      BY <2>1 DEF FirstFree, TaskOwns
    <2>3. /\ dataBuffers'[b].used
          /\ \A c \in Buffers : dataBuffers'[c] = IF c = b THEN dataBuffers'[b] ELSE dataBuffers[c]
      BY <2>1 DEF RestTypeOK
    <2>4. QueueOwns(queue', dataBuffers', held)
      BY <2>1, <2>2, <2>3, SendBlockOwns
    <2>5. UNCHANGED <<pc, held>>
      BY <1>3 DEF BlockArrives, taskVars
    <2> QED BY <2>2, <2>3, <2>4, <2>5 DEF TaskOwns
  <1>4. CASE Connect \/ Disconnect \/ \E i \in 1 .. MaxUplink : UplinkServed(i)
    BY <1>4 DEF Connect, Disconnect, UplinkServed, taskVars, Memory
  <1>5. CASE Reboot
    BY <1>5, NoBuffer, EmptySeq DEF Reboot, QueueOwns, TaskOwns
  <1>6. CASE ResetFails
    BY <1>6 DEF ResetFails, Memory, TaskOwns
  <1> QED BY <1>1, <1>2, <1>3, <1>4, <1>5, <1>6 DEF MqttTask

\* A buffer handed from getOtaDataEventBuffer to freeOtaDataEventBuffer through
\* the queue has one owner all the way, and counts as used: no block is
\* overwritten before it is written, whatever is lost, refused or reordered.
THEOREM BuffersOwned == Spec => []BufferOwnership
  <1>1. Init => BufferOwnership
    BY InitOwnership
  <1>2. ASSUME TypeOK, BufferOwnership, [Next]_vars PROVE BufferOwnership'
    <2>1. CASE Next
      BY <1>2, <2>1, AgentQuiet, AgentBlocks, OthersOwnership DEF Next
    <2>2. CASE UNCHANGED vars
      BY <1>2, <2>2, OwnershipParts, OwnershipPartsNext
      DEF vars, agentVars, taskVars
    <2> QED BY <1>2, <2>1, <2>2
  <1> QED BY <1>1, <1>2, TypeCorrect, PTL DEF Spec
=============================================================================
