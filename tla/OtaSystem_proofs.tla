--------------------------- MODULE OtaSystem_proofs ---------------------------
(***************************************************************************)
(* What holds of the device together with its services, for every value of *)
(* the constants: its types, that it is one of the behaviours of the open  *)
(* OtaAgent, so that the theorems about that one hold of it too, how many  *)
(* events there can be at once, and what a job that is recorded as failed  *)
(* says of its image.                                                      *)
(***************************************************************************)
EXTENDS OtaSystem, OtaAgent_proofs, FiniteSetTheorems

-----------------------------------------------------------------------------
(***************************************************************************)
(* What the device may say.  A version it reports is a version there is,   *)
(* and a stream it subscribes to is the stream of a job: the documents and *)
(* blocks that the services make of it are such as OtaAgent expects.       *)
(***************************************************************************)

VersionsKnown == running \in Versions /\ previous \in Versions

Reported(u) == \A k \in 1 .. Len(u) : u[k].type = "InProgress" => u[k].arg \in Versions

StreamKnown == (pc = "subscribe" => stream \in Jobs) /\ session \subseteq Jobs

\* The image that is tried is that of a job, and the one that is left is the
\* one that ran.
LEMMA TryVersions ==
  ASSUME VersionsKnown, TryImage
  PROVE  VersionsKnown'
  BY AgentAssumption DEF VersionsKnown, TryImage

\* The only otaPal functions that change what runs are activation and boot.
LEMMA ActivateVersions ==
  ASSUME VersionsKnown, NEW outcome, otaPal_ActivateNewImage(outcome)
  PROVE  VersionsKnown'
  BY TryVersions DEF otaPal_ActivateNewImage, palVars, VersionsKnown

\* The boot loader chooses between versions there are.
LEMMA BootVersions ==
  ASSUME VersionsKnown, Boot
  PROVE  VersionsKnown'
  <1>1. CASE fwu = "STAGED" /\ TryImage
    BY <1>1, TryVersions
  <1>2. CASE ~(fwu = "STAGED" /\ TryImage)
    BY <1>2 DEF Boot, VersionsKnown
  <1> QED BY <1>1, <1>2

\* The others leave it alone.
LEMMA QuietVersions ==
  ASSUME VersionsKnown,
         \/ UNCHANGED palVars
         \/ otaPal_SetAccepted \/ otaPal_SetRejected
         \/ \E ok, created \in BOOLEAN : otaPal_CreateFileForRx(ok, created)
         \/ \E written \in BOOLEAN : WriteFileBlock(written)
         \/ \E closed \in BOOLEAN : otaPal_CloseFile(jobFields.signature, closed)
  PROVE  VersionsKnown'
  BY DEF VersionsKnown, palVars, otaPal_SetAccepted, otaPal_SetRejected,
         otaPal_CreateFileForRx, WriteFileBlock, otaPal_WriteBlock,
         otaPal_CloseFile, psa_fwu_finish

\* A publish reports a version there is, or none.
LEMMA PublishReported ==
  ASSUME UplinkTypeOK(uplink), Reported(uplink), NEW m \in Publishes, prvMQTTPublish(m),
         m.type = "InProgress" => m.arg \in Versions
  PROVE  Reported(uplink')
  <1>1. CASE uplink' = Append(uplink, m)
    <2>1. /\ Len(uplink') = Len(uplink) + 1
          /\ Len(uplink) \in Nat
          /\ \A k \in 1 .. Len(uplink) : uplink'[k] = uplink[k]
          /\ uplink'[Len(uplink) + 1] = m
      BY <1>1, AppendProperties, LenProperties DEF UplinkTypeOK
    <2> QED BY <2>1 DEF Reported
  <1>2. CASE UNCHANGED uplink
    BY <1>2 DEF Reported
  <1> QED BY <1>1, <1>2 DEF prvMQTTPublish

\* Serving a publish leaves the others as they are.
LEMMA WithoutReported ==
  ASSUME NEW u, UplinkTypeOK(u), Reported(u), NEW i \in 1 .. Len(u)
  PROVE  Reported(Without(u, i))
  <1>1. Len(u) \in Nat
    BY LenProperties DEF UplinkTypeOK
  <1>2. Len(Without(u, i)) = Len(u) - 1
    BY <1>1 DEF Without
  <1>3. ASSUME NEW k \in 1 .. Len(u) - 1
        PROVE  /\ Without(u, i)[k] = u[IF k < i THEN k ELSE k + 1]
               /\ (IF k < i THEN k ELSE k + 1) \in 1 .. Len(u)
    BY <1>1, <1>3 DEF Without
  <1> QED BY <1>1, <1>2, <1>3 DEF Reported

\* So does losing the connection, or the power.
LEMMA KeptReported ==
  ASSUME Reported(uplink), uplink' \in UplinkKept
  PROVE  Reported(uplink')
  BY EmptySeq DEF Reported, UplinkKept

DeviceInv == VersionsKnown /\ Reported(uplink) /\ StreamKnown

\* No step of the device makes a version up.
LEMMA NextVersions ==
  ASSUME VersionsKnown, Next
  PROVE  VersionsKnown'
  <1>1. CASE AgentTask
    <2>1. CASE StatusSent
      BY <2>1, ActivateVersions DEF StatusSent
    <2>2. CASE DownloaderReady
      BY <2>2, QuietVersions DEF DownloaderReady
    <2>3. CASE FileBlockHandled
      BY <2>3, QuietVersions DEF FileBlockHandled
    <2>4. CASE CloseFile
      BY <2>4, QuietVersions DEF CloseFile
    <2>5. CASE SelfTestJobDocument
      BY <2>5, QuietVersions DEF SelfTestJobDocument
    <2>6. CASE ~(StatusSent \/ DownloaderReady \/ FileBlockHandled \/ CloseFile
                 \/ SelfTestJobDocument)
      <3>1. UNCHANGED palVars
        BY <1>1, <2>6
        DEF AgentTask, RequestJobDocument, JobRequested, DropJobDocument, EmptyJobDocument,
            SameJobDocument, UnparsedJobDocument, FinalStatusSent, DownloadJobDocument, Download,
            RequestFileBlock, BlockRequested, DropFileBlock, TakeFileBlock, ActivateImage,
            Suspend, Resume
      <3> QED BY <3>1, QuietVersions
    <2> QED BY <2>1, <2>2, <2>3, <2>4, <2>5, <2>6
  <1>2. CASE DemoTask \/ MqttTask \/ ResetFails
    <2>1. UNCHANGED palVars
      BY <1>2
      DEF DemoTask, StartDemo, DemoSuspend, DemoResume, DemoSend, ResetFails,
          MqttTask, JobDocArrives, BlockArrives, Connect, Disconnect, UplinkServed
    <2> QED BY <2>1, QuietVersions
  <1>3. CASE Reboot
    BY <1>3, BootVersions DEF Reboot
  <1> QED BY <1>1, <1>2, <1>3 DEF Next

\* sendStatusDetailsMessage reports the running version, or what the stack
\* held, which is taken to be some version; the others report none.
LEMMA NextReported ==
  ASSUME TypeOK, VersionsKnown, Reported(uplink), Next
  PROVE  Reported(uplink')
  <1> USE TypeParts
  <1>1. CASE AgentTask
    <2>1. CASE JobRequested
      <3>1. Message("StartNext", NoJob, 0) \in Publishes
        BY MessageType DEF JobIds
      <3>2. Message("StartNext", NoJob, 0).type # "InProgress"
        BY DEF Message
      <3> QED BY <2>1, <3>1, <3>2, PublishReported DEF JobRequested
    <2>2. ASSUME NEW status \in {"Succeeded", "Failed"}, FinalStatusSent(status)
          PROVE  Reported(uplink')
      <3>1. Message(status, AddressedJob, 0) \in Publishes
        BY MessageType, AddressedJobType
      <3>2. Message(status, AddressedJob, 0).type # "InProgress"
        BY DEF Message
      <3> QED BY <2>2, <3>1, <3>2, PublishReported DEF FinalStatusSent
    <2>3. CASE BlockRequested
      <3>1. CASE stream = NoJob
        BY <2>3, <3>1 DEF BlockRequested
      <3>2. CASE stream # NoJob
        <4> DEFINE m == Message("GetBlock", stream, currentBlockOffset % U16)
        <4>1. currentBlockOffset % U16 \in Nat /\ stream \in JobIds
          BY AgentAssumption DEF RestTypeOK
        <4>2. m \in Publishes
          BY <4>1, MessageType
        <4>3. m.type # "InProgress"
          BY DEF Message
        <4>4. prvMQTTPublish(m)
          BY <2>3, <3>2 DEF BlockRequested
        <4> HIDE DEF m
        <4> QED BY <4>2, <4>3, <4>4, PublishReported
      <3> QED BY <3>1, <3>2
    <2>4. CASE StatusSent
      <3>1. PICK version \in Versions : prvMQTTPublish(Message("InProgress", AddressedJob, version))
        BY <2>4 DEF StatusSent, VersionsKnown
      <3>2. Message("InProgress", AddressedJob, version) \in Publishes
        BY <3>1, MessageType, AddressedJobType, AgentAssumption
      <3>3. Message("InProgress", AddressedJob, version).arg \in Versions
        BY DEF Message
      <3> QED BY <3>1, <3>2, <3>3, PublishReported
    <2>5. CASE ~(JobRequested \/ BlockRequested \/ StatusSent
                 \/ \E status \in {"Succeeded", "Failed"} : FinalStatusSent(status))
      <3>1. UNCHANGED uplink
        BY <1>1, <2>5
        DEF AgentTask, RequestJobDocument, DropJobDocument, EmptyJobDocument, SameJobDocument,
            UnparsedJobDocument, SelfTestJobDocument, DownloadJobDocument, Download,
            NewJobDocument, DownloaderReady, RequestFileBlock, DropFileBlock, TakeFileBlock,
            FileBlockHandled, CloseFile, ActivateImage, Suspend, Resume, netVars
      <3> QED BY <3>1 DEF Reported
    <2> QED BY <2>1, <2>2, <2>3, <2>4, <2>5
  <1>2. CASE DemoTask \/ ResetFails
    BY <1>2 DEF DemoTask, StartDemo, DemoSuspend, DemoResume, DemoSend, ResetFails, netVars, Reported
  <1>3. CASE MqttTask
    <2>1. CASE Disconnect
      BY <2>1, KeptReported DEF Disconnect
    <2>2. ASSUME NEW i \in 1 .. MaxUplink, UplinkServed(i) PROVE Reported(uplink')
      BY <2>2, WithoutReported DEF UplinkServed
    <2>3. CASE Connect \/ (\E doc \in Docs : JobDocArrives(doc))
               \/ \E payload \in Payloads, fits \in BOOLEAN : BlockArrives(payload, fits)
      BY <2>3 DEF Connect, JobDocArrives, BlockArrives, netVars, Reported
    <2> QED BY <1>3, <2>1, <2>2, <2>3 DEF MqttTask
  <1>4. CASE Reboot
    BY <1>4, KeptReported DEF Reboot
  <1> QED BY <1>1, <1>2, <1>3, <1>4 DEF Next

\* The wait for the SUBACK follows a document with a job in it.
LEMMA NextStream ==
  ASSUME StreamKnown, Next
  PROVE  StreamKnown'
  <1>1. CASE AgentTask
    <2>1. CASE DownloadJobDocument
      BY <2>1 DEF DownloadJobDocument, Download, NewJobDocument, StreamKnown, netVars
    <2>2. CASE DownloaderReady
      BY <2>2 DEF DownloaderReady, StreamKnown
    <2>3. CASE UnparsedJobDocument \/ SelfTestJobDocument
      BY <2>3 DEF UnparsedJobDocument, SelfTestJobDocument, NewJobDocument, StreamKnown, netVars
    <2>4. CASE \/ RequestJobDocument \/ JobRequested \/ DropJobDocument \/ EmptyJobDocument
               \/ SameJobDocument \/ \E status \in {"Succeeded", "Failed"} : FinalStatusSent(status)
      BY <2>4
      DEF RequestJobDocument, JobRequested, DropJobDocument, EmptyJobDocument, SameJobDocument,
          FinalStatusSent, StreamKnown, Memory, jobVars, netVars, taskVars
    <2>5. CASE \/ RequestFileBlock \/ BlockRequested \/ DropFileBlock \/ TakeFileBlock
               \/ FileBlockHandled \/ CloseFile \/ ActivateImage \/ StatusSent \/ Suspend \/ Resume
      BY <2>5
      DEF RequestFileBlock, BlockRequested, DropFileBlock, TakeFileBlock, FileBlockHandled,
          CloseFile, ActivateImage, StatusSent, Suspend, Resume, StreamKnown, Memory, jobVars,
          netVars, taskVars
    <2> QED BY <1>1, <2>1, <2>2, <2>3, <2>4, <2>5 DEF AgentTask
  <1>2. CASE DemoTask \/ MqttTask \/ ResetFails
    BY <1>2
    DEF DemoTask, StartDemo, DemoSuspend, DemoResume, DemoSend, ResetFails, MqttTask,
        JobDocArrives, BlockArrives, Connect, Disconnect, UplinkServed, StreamKnown, Memory,
        jobVars, netVars, taskVars
  <1>3. CASE Reboot
    BY <1>3 DEF Reboot, StreamKnown
  <1> QED BY <1>1, <1>2, <1>3 DEF Next

\* The device says only what the services understand, whatever it is sent.
LEMMA NextDevice ==
  ASSUME TypeOK, DeviceInv, [Next]_vars
  PROVE  DeviceInv'
  <1>1. CASE Next
    BY <1>1, NextVersions, NextReported, NextStream DEF DeviceInv, Reported, VersionsKnown, StreamKnown
  <1>2. CASE UNCHANGED vars
    BY <1>2
    DEF vars, agentVars, palVars, taskVars, jobVars, netVars, DeviceInv, Reported, VersionsKnown,
        StreamKnown
  <1> QED BY <1>1, <1>2

-----------------------------------------------------------------------------
(***************************************************************************)
(* The services, and the device among them                                 *)
(***************************************************************************)

DownTypeOK(d) == d \in Seq(Messages) /\ Len(d) <= MaxDown

CloudTypeOK ==
  /\ execution \in [Jobs -> Stages]
  /\ updatedBy \in [Jobs -> Versions]
  /\ drops \in 0 .. MaxDrops
  /\ crashes \in 0 .. MaxCrashes

\* The parts together are SystemTypeOK.
LEMMA SystemParts ==
  SystemTypeOK <=> TypeOK /\ DownTypeOK(down) /\ CloudTypeOK
  BY DEF SystemTypeOK, DownTypeOK, CloudTypeOK

\* And so they are after a step.
LEMMA SystemPartsNext ==
  SystemTypeOK' <=> TypeOK' /\ DownTypeOK(down') /\ CloudTypeOK'
  BY DEF SystemTypeOK, DownTypeOK, CloudTypeOK

\* A reply, sent or not, leaves a bounded sequence of messages.
LEMMA ReplyType ==
  ASSUME DownTypeOK(down), NEW m \in Messages, Reply(m)
  PROVE  DownTypeOK(down')
  BY AppendProperties, LenProperties, SystemAssumption DEF DownTypeOK, Reply

\* What is delivered next is a message, and what stays are messages.
LEMMA DownTail ==
  ASSUME DownTypeOK(down), down # <<>>
  PROVE  DownTypeOK(Tail(down)) /\ Head(down) \in Messages
  BY HeadTailProperties, LenProperties, SystemAssumption DEF DownTypeOK

\* Nothing is on its way after the connection is lost.
LEMMA DownEmpty == DownTypeOK(<<>>)
  BY EmptySeq, SystemAssumption DEF DownTypeOK

\* A delivery is a step of the open agent: a message of the services is a
\* document or a block.
LEMMA DeliverRefines ==
  ASSUME DownTypeOK(down), Deliver
  PROVE  [Next]_vars /\ DownTypeOK(down')
  <1>1. CASE DeliverJob
    <2>1. Head(down) \in Messages /\ Head(down).type = "job"
      BY <1>1, DownTail DEF DeliverJob
    <2>2. Head(down).doc \in Docs
      BY <2>1 DEF Messages
    <2> QED BY <1>1, <2>2, DownTail DEF DeliverJob, Next, MqttTask
  <1>2. CASE DeliverBlock
    <2>1. Head(down) \in Messages /\ Head(down).type = "block"
      BY <1>2, DownTail DEF DeliverBlock
    <2>2. Head(down).block \in Payloads /\ TRUE \in BOOLEAN
      BY <2>1 DEF Messages, Payloads
    <2> QED BY <1>2, <2>2, DownTail DEF DeliverBlock, Next, MqttTask
  <1> QED BY <1>1, <1>2 DEF Deliver

\* The services answer with documents of jobs and blocks of files there are.
LEMMA ServeType ==
  ASSUME TypeOK, DeviceInv, DownTypeOK(down), CloudTypeOK, Serve
  PROVE  [Next]_vars /\ DownTypeOK(down') /\ CloudTypeOK'
  <1>1. PICK i \in 1 .. MaxUplink : ServeStartNext(i) \/ ServeGetBlock(i) \/ ServeUpdate(i)
    BY AgentAssumption DEF Serve
  <1>2. UplinkServed(i)
    BY <1>1 DEF ServeStartNext, ServeGetBlock, ServeUpdate
  <1>3. [Next]_vars
    BY <1>2 DEF Next, MqttTask
  <1>4. i \in 1 .. Len(uplink) /\ uplink[i] \in Publishes
    BY <1>2, ElementOfSeq, TypeParts DEF UplinkServed, UplinkTypeOK
  <1>5. CASE ServeStartNext(i)
    <2>1. CASE Reply(DocMessage(NoDoc)) /\ UNCHANGED execution
      <3>1. DocMessage(NoDoc) \in Messages
        BY DEF DocMessage, Messages, Docs
      <3> QED BY <1>3, <1>5, <2>1, <3>1, ReplyType DEF ServeStartNext, boundVars, CloudTypeOK
    <2>2. ASSUME NEW j \in Jobs,
                 Reply(DocMessage([job |-> j, valid |-> TRUE, updatedBy |-> updatedBy[j]])),
                 execution' = [execution EXCEPT ![j] = IF @ = "QUEUED" THEN "IN_PROGRESS" ELSE @]
          PROVE  [Next]_vars /\ DownTypeOK(down') /\ CloudTypeOK'
      <3>1. DocMessage([job |-> j, valid |-> TRUE, updatedBy |-> updatedBy[j]]) \in Messages
        BY DEF DocMessage, Messages, Docs, CloudTypeOK
      <3>2. execution' \in [Jobs -> Stages]
        BY <2>2 DEF CloudTypeOK, Stages
      <3> QED BY <1>3, <1>5, <2>2, <3>1, <3>2, ReplyType DEF ServeStartNext, boundVars, CloudTypeOK
    <2> QED BY <1>5, <2>1, <2>2 DEF ServeStartNext, Started, Queued
  <1>6. CASE ServeGetBlock(i)
    <2>1. DownTypeOK(down')
      <3>1. CASE uplink[i].job \in session /\ uplink[i].arg < NumBlocks
        <4>1. BlockMessage([job |-> uplink[i].job, index |-> uplink[i].arg]) \in Messages
          BY <1>4, <3>1, PalAssumption
          DEF BlockMessage, Messages, Blocks, Publishes, DeviceInv, StreamKnown
        <4> QED BY <1>6, <3>1, <4>1, ReplyType DEF ServeGetBlock
      <3>2. CASE ~(uplink[i].job \in session /\ uplink[i].arg < NumBlocks)
        BY <1>6, <3>2 DEF ServeGetBlock
      <3> QED BY <3>1, <3>2
    <2> QED BY <1>3, <1>6, <2>1 DEF ServeGetBlock, boundVars, CloudTypeOK
  <1>7. CASE ServeUpdate(i)
    <2>1. execution' \in [Jobs -> Stages] /\ updatedBy' \in [Jobs -> Versions]
      <3>1. CASE uplink[i].type = "InProgress"
        <4>1. uplink[i].arg \in Versions
          BY <1>4, <3>1 DEF DeviceInv, Reported
        <4> QED BY <1>7, <3>1, <4>1 DEF ServeUpdate, CloudTypeOK, Stages
      <3>2. CASE uplink[i].type # "InProgress"
        BY <1>7, <3>2 DEF ServeUpdate, CloudTypeOK, Stages
      <3> QED BY <3>1, <3>2
    <2> QED BY <1>3, <1>7, <2>1 DEF ServeUpdate, boundVars, CloudTypeOK
  <1> QED BY <1>1, <1>5, <1>6, <1>7

\* A step of the system is a step of the open agent, or none of its business,
\* and leaves the services' state in its types.
LEMMA SystemStep ==
  ASSUME SystemTypeOK, DeviceInv, SystemNext
  PROVE  [Next]_vars /\ DownTypeOK(down') /\ CloudTypeOK'
  <1> USE SystemParts
  <1>1. CASE Device
    BY <1>1
    DEF Device, Poll, Reconnect, Next, DemoTask, MqttTask, cloudVars, boundVars, CloudTypeOK
  <1>2. CASE Serve
    BY <1>2, ServeType
  <1>3. CASE Deliver
    BY <1>3, DeliverRefines DEF Deliver, DeliverJob, DeliverBlock, boundVars, CloudTypeOK
  <1>4. CASE Drop
    BY <1>4, DownEmpty, SystemAssumption DEF Drop, Next, MqttTask, CloudTypeOK
  <1>5. CASE Crash
    BY <1>5, DownEmpty, SystemAssumption DEF Crash, Next, CloudTypeOK
  <1>6. CASE Reset
    BY <1>6, DownEmpty DEF Reset, Next, boundVars, CloudTypeOK
  <1> QED BY <1>1, <1>2, <1>3, <1>4, <1>5, <1>6 DEF SystemNext

SystemInv == SystemTypeOK /\ DeviceInv

\* The invariant holds when device and services start.
LEMMA SystemInitInv == SystemInit => SystemInv
  <1> SUFFICES ASSUME SystemInit PROVE SystemInv
    OBVIOUS
  <1>1. TypeOK
    BY InitType DEF SystemInit
  <1>2. DownTypeOK(down) /\ CloudTypeOK
    BY DownEmpty, SystemAssumption, AgentAssumption DEF SystemInit, CloudTypeOK, Stages
  <1>3. DeviceInv
    BY AgentAssumption, EmptySeq
    DEF SystemInit, Init, AgentInit, PalInit, DeviceInv, VersionsKnown, Reported, StreamKnown
  <1> QED BY <1>1, <1>2, <1>3, SystemParts DEF SystemInv

\* And every step keeps it, being a step of the agent.
LEMMA SystemNextInv ==
  ASSUME SystemInv, [SystemNext]_systemVars
  PROVE  SystemInv' /\ [Next]_vars
  <1> USE SystemParts, SystemPartsNext
  <1>1. CASE SystemNext
    BY <1>1, SystemStep, NextType, NextDevice DEF SystemInv
  <1>2. CASE UNCHANGED systemVars
    <2>1. UNCHANGED vars
      BY <1>2 DEF systemVars
    <2>2. TypeOK' /\ DeviceInv'
      BY <2>1, NextType, NextDevice DEF SystemInv
    <2>3. DownTypeOK(down') /\ CloudTypeOK'
      BY <1>2 DEF systemVars, cloudVars, boundVars, SystemInv, CloudTypeOK
    <2> QED BY <2>1, <2>2, <2>3 DEF SystemInv
  <1> QED BY <1>1, <1>2

\* The invariant of the system.
LEMMA SystemInvariant == SystemSpec => []SystemInv
  <1>1. SystemInit => SystemInv
    BY SystemInitInv
  <1>2. SystemInv /\ [SystemNext]_systemVars => SystemInv'
    BY SystemNextInv
  <1> QED BY <1>1, <1>2, PTL DEF SystemSpec

\* Device and services have their types for ever: what the services make of
\* the device's publishes are documents and blocks that the callbacks of
\* ota_orchestrator.c expect.
THEOREM SystemTypeCorrect == SystemSpec => []SystemTypeOK
  <1>1. SystemInv => SystemTypeOK
    BY DEF SystemInv
  <1> QED BY <1>1, SystemInvariant, PTL

\* The device among its services does nothing that the open agent cannot do,
\* so that what holds of the orchestrator under any broker holds of it there.
THEOREM SystemImplementsAgent == SystemSpec => ImplementsOtaAgent
  <1>1. SystemInit => Init
    BY DEF SystemInit
  <1>2. SystemInv /\ [SystemNext]_systemVars => [Next]_vars
    BY SystemNextInv
  <1> QED BY <1>1, <1>2, SystemInvariant, PTL DEF SystemSpec, Spec, ImplementsOtaAgent

\* In particular the buffers of ota_orchestrator.c keep their owners among the
\* services, whatever is lost, late or sent again.
THEOREM SystemBuffersOwned == SystemSpec => []BufferOwnership
  BY SystemImplementsAgent, BuffersOwned DEF ImplementsOtaAgent

-----------------------------------------------------------------------------
(***************************************************************************)
(* A job that failed: its image was given up before anyone said so, and    *)
(* an image that was given up is not kept or tried again.                  *)
(***************************************************************************)

\* The image in the slot is over with: nothing but an erasure, which nobody asks for
\* in these states, brings the slot back into use.
Over == fwu \in {"REJECTED", "FAILED"}

NoFailure(u) == \A k \in 1 .. Len(u) : u[k].type # "Failed"

\* Until the image is over with, nobody speaks of a failure; an image on trial was
\* started by a reset, so that it can be rejected.
FailureInv ==
  /\ fwu = "TRIAL" => ~sysCtx
  /\ ~Over => pc # "Failed" /\ NoFailure(uplink)

\* An image that is over with stays so, whatever happens.
LEMMA OverStays ==
  ASSUME Over, Next
  PROVE  Over'
  <1>1. CASE UNCHANGED palVars
    BY <1>1 DEF palVars, Over
  <1>2. CASE AgentTask
    <2>1. CASE StatusSent
      BY <2>1 DEF StatusSent, otaPal_ActivateNewImage, Over, palVars
    <2>2. CASE DownloaderReady
      BY <2>2 DEF DownloaderReady, otaPal_CreateFileForRx, Over, palVars
    <2>3. CASE FileBlockHandled
      BY <2>3 DEF FileBlockHandled, WriteFileBlock, otaPal_WriteBlock, Over, palVars
    <2>4. CASE CloseFile
      BY <2>4 DEF CloseFile, otaPal_CloseFile, psa_fwu_finish, Over, palVars
    <2>5. CASE SelfTestJobDocument
      BY <2>5 DEF SelfTestJobDocument, PendingCommit, Over
    <2>6. CASE ~(StatusSent \/ DownloaderReady \/ FileBlockHandled \/ CloseFile
                 \/ SelfTestJobDocument)
      BY <1>1, <1>2, <2>6
      DEF AgentTask, RequestJobDocument, JobRequested, DropJobDocument, EmptyJobDocument,
          SameJobDocument, UnparsedJobDocument, FinalStatusSent, DownloadJobDocument, Download,
          RequestFileBlock, BlockRequested, DropFileBlock, TakeFileBlock, ActivateImage,
          Suspend, Resume
    <2> QED BY <2>1, <2>2, <2>3, <2>4, <2>5, <2>6
  <1>3. CASE DemoTask \/ MqttTask \/ ResetFails
    BY <1>1, <1>3
    DEF DemoTask, StartDemo, DemoSuspend, DemoResume, DemoSend, ResetFails,
        MqttTask, JobDocArrives, BlockArrives, Connect, Disconnect, UplinkServed
  <1>4. CASE Reboot
    BY <1>4 DEF Reboot, Boot, Over
  <1> QED BY <1>2, <1>3, <1>4 DEF Next

\* Who publishes a failure is about to send one, or sends on what was published.
LEMMA FailurePublished ==
  ASSUME UplinkTypeOK(uplink), NoFailure(uplink), NEW m, prvMQTTPublish(m), m.type # "Failed",
         m \in Publishes
  PROVE  NoFailure(uplink')
  <1>1. CASE uplink' = Append(uplink, m)
    <2>1. /\ Len(uplink') = Len(uplink) + 1
          /\ Len(uplink) \in Nat
          /\ \A k \in 1 .. Len(uplink) : uplink'[k] = uplink[k]
          /\ uplink'[Len(uplink) + 1] = m
      BY <1>1, AppendProperties, LenProperties DEF UplinkTypeOK
    <2> QED BY <2>1 DEF NoFailure
  <1>2. CASE UNCHANGED uplink
    BY <1>2 DEF NoFailure
  <1> QED BY <1>1, <1>2 DEF prvMQTTPublish

\* No other step of the device speaks of a failure.
LEMMA NextSilent ==
  ASSUME TypeOK, VersionsKnown, pc # "Failed", NoFailure(uplink), Next
  PROVE  NoFailure(uplink')
  <1> USE TypeParts
  <1>1. CASE AgentTask
    <2>1. CASE JobRequested
      <3>1. Message("StartNext", NoJob, 0) \in Publishes
        BY MessageType DEF JobIds
      <3>2. Message("StartNext", NoJob, 0).type # "Failed"
        BY DEF Message
      <3> QED BY <2>1, <3>1, <3>2, FailurePublished DEF JobRequested
    <2>2. ASSUME NEW status \in {"Succeeded", "Failed"}, FinalStatusSent(status)
          PROVE  NoFailure(uplink')
      <3>1. Message(status, AddressedJob, 0) \in Publishes
        BY MessageType, AddressedJobType
      <3>2. status = "Succeeded"
        BY <2>2 DEF FinalStatusSent
      <3>3. Message(status, AddressedJob, 0).type # "Failed"
        BY <3>2 DEF Message
      <3> QED BY <2>2, <3>1, <3>3, FailurePublished DEF FinalStatusSent
    <2>3. CASE BlockRequested
      <3>1. CASE stream = NoJob
        BY <2>3, <3>1 DEF BlockRequested
      <3>2. CASE stream # NoJob
        <4> DEFINE m == Message("GetBlock", stream, currentBlockOffset % U16)
        <4>1. currentBlockOffset % U16 \in Nat /\ stream \in JobIds
          BY AgentAssumption DEF RestTypeOK
        <4>2. m \in Publishes
          BY <4>1, MessageType
        <4>3. m.type # "Failed"
          BY DEF Message
        <4>4. prvMQTTPublish(m)
          BY <2>3, <3>2 DEF BlockRequested
        <4> HIDE DEF m
        <4> QED BY <4>2, <4>3, <4>4, FailurePublished
      <3> QED BY <3>1, <3>2
    <2>4. CASE StatusSent
      <3>1. PICK version \in Versions : prvMQTTPublish(Message("InProgress", AddressedJob, version))
        BY <2>4 DEF StatusSent, VersionsKnown
      <3>2. Message("InProgress", AddressedJob, version) \in Publishes
        BY <3>1, MessageType, AddressedJobType, AgentAssumption
      <3>3. Message("InProgress", AddressedJob, version).type # "Failed"
        BY DEF Message
      <3> QED BY <3>1, <3>2, <3>3, FailurePublished
    <2>5. CASE ~(JobRequested \/ BlockRequested \/ StatusSent
                 \/ \E status \in {"Succeeded", "Failed"} : FinalStatusSent(status))
      <3>1. UNCHANGED uplink
        BY <1>1, <2>5
        DEF AgentTask, RequestJobDocument, DropJobDocument, EmptyJobDocument, SameJobDocument,
            UnparsedJobDocument, SelfTestJobDocument, DownloadJobDocument, Download,
            NewJobDocument, DownloaderReady, RequestFileBlock, DropFileBlock, TakeFileBlock,
            FileBlockHandled, CloseFile, ActivateImage, Suspend, Resume, netVars
      <3> QED BY <3>1 DEF NoFailure
    <2> QED BY <2>1, <2>2, <2>3, <2>4, <2>5
  <1>2. CASE DemoTask \/ ResetFails
    BY <1>2 DEF DemoTask, StartDemo, DemoSuspend, DemoResume, DemoSend, ResetFails, netVars, NoFailure
  <1>3. uplink' \in UplinkKept => NoFailure(uplink')
    BY EmptySeq DEF NoFailure, UplinkKept
  <1>4. CASE MqttTask
    <2>1. CASE Disconnect
      BY <1>3, <2>1 DEF Disconnect
    <2>2. ASSUME NEW i \in 1 .. MaxUplink, UplinkServed(i) PROVE NoFailure(uplink')
      <3>1. Len(uplink) \in Nat /\ i \in 1 .. Len(uplink) /\ uplink' = Without(uplink, i)
        BY <2>2, LenProperties DEF UplinkTypeOK, UplinkServed
      <3>2. Len(uplink') = Len(uplink) - 1
        BY <3>1 DEF Without
      <3>3. ASSUME NEW k \in 1 .. Len(uplink) - 1
            PROVE  /\ uplink'[k] = uplink[IF k < i THEN k ELSE k + 1]
                   /\ (IF k < i THEN k ELSE k + 1) \in 1 .. Len(uplink)
        BY <3>1, <3>3 DEF Without
      <3> QED BY <3>1, <3>2, <3>3 DEF NoFailure
    <2>3. CASE Connect \/ (\E doc \in Docs : JobDocArrives(doc))
               \/ \E payload \in Payloads, fits \in BOOLEAN : BlockArrives(payload, fits)
      BY <2>3 DEF Connect, JobDocArrives, BlockArrives, netVars, NoFailure
    <2> QED BY <1>4, <2>1, <2>2, <2>3 DEF MqttTask
  <1>5. CASE Reboot
    BY <1>3, <1>5 DEF Reboot
  <1> QED BY <1>1, <1>2, <1>4, <1>5 DEF Next

\* The verdict on the image on trial is put into effect before it is sent.
LEMMA NextFailureInv ==
  ASSUME TypeOK, VersionsKnown, FailureInv, TrialsEnd, Next
  PROVE  FailureInv'
  <1>1. fwu' = "TRIAL" => ~sysCtx'
    <2>1. CASE AgentTask
      <3>1. CASE StatusSent
        BY <3>1 DEF StatusSent, otaPal_ActivateNewImage, FailureInv, TrialsEnd, palVars
      <3>2. CASE DownloaderReady
        BY <3>2 DEF DownloaderReady, otaPal_CreateFileForRx, FailureInv, palVars
      <3>3. CASE FileBlockHandled
        BY <3>3 DEF FileBlockHandled, WriteFileBlock, otaPal_WriteBlock, FailureInv, palVars
      <3>4. CASE CloseFile
        BY <3>4 DEF CloseFile, otaPal_CloseFile, psa_fwu_finish, FailureInv, palVars
      <3>5. CASE SelfTestJobDocument
        BY <3>5 DEF SelfTestJobDocument, otaPal_SetAccepted, otaPal_SetRejected, FailureInv
      <3>6. CASE ~(StatusSent \/ DownloaderReady \/ FileBlockHandled \/ CloseFile
                   \/ SelfTestJobDocument)
        BY <2>1, <3>6
        DEF AgentTask, RequestJobDocument, JobRequested, DropJobDocument, EmptyJobDocument,
            SameJobDocument, UnparsedJobDocument, FinalStatusSent, DownloadJobDocument, Download,
            RequestFileBlock, BlockRequested, DropFileBlock, TakeFileBlock, ActivateImage,
            Suspend, Resume, palVars, FailureInv
      <3> QED BY <3>1, <3>2, <3>3, <3>4, <3>5, <3>6
    <2>2. CASE DemoTask \/ MqttTask \/ ResetFails
      BY <2>2
      DEF DemoTask, StartDemo, DemoSuspend, DemoResume, DemoSend, ResetFails, palVars, FailureInv,
          MqttTask, JobDocArrives, BlockArrives, Connect, Disconnect, UplinkServed
    <2>3. CASE Reboot
      BY <2>3 DEF Reboot, Boot
    <2> QED BY <2>1, <2>2, <2>3 DEF Next
  <1>2. ASSUME ~Over' PROVE pc' # "Failed" /\ NoFailure(uplink')
    <2>1. ~Over
      BY <1>2, OverStays
    <2>2. pc # "Failed" /\ NoFailure(uplink)
      BY <2>1 DEF FailureInv
    <2>3. NoFailure(uplink')
      BY <2>2, NextSilent
    <2>4. pc' # "Failed"
      <3>1. CASE SelfTestJobDocument
        BY <1>2, <3>1
        DEF SelfTestJobDocument, PendingCommit, otaPal_SetRejected, TrialsEnd, FailureInv, Over
      <3>2. CASE AgentTask /\ ~SelfTestJobDocument
        <4>1. UNCHANGED pc \/ pc' \in {"receive", "askJob", "subscribe", "askBlock", "write", "status", "reset"}
          BY <3>2
          DEF AgentTask, RequestJobDocument, JobRequested, DropJobDocument, EmptyJobDocument,
              SameJobDocument, UnparsedJobDocument, FinalStatusSent, DownloadJobDocument, Download,
              DownloaderReady, RequestFileBlock, BlockRequested, DropFileBlock, TakeFileBlock,
              FileBlockHandled, CloseFile, ActivateImage, StatusSent, Suspend, Resume, taskVars
        <4> QED BY <2>2, <4>1
      <3>3. CASE DemoTask \/ MqttTask \/ ResetFails
        BY <2>2, <3>3
        DEF DemoTask, StartDemo, DemoSuspend, DemoResume, DemoSend, ResetFails, taskVars,
            MqttTask, JobDocArrives, BlockArrives, Connect, Disconnect, UplinkServed
      <3>4. CASE Reboot
        BY <3>4 DEF Reboot
      <3> QED BY <3>1, <3>2, <3>3, <3>4 DEF Next
    <2> QED BY <2>3, <2>4
  <1> QED BY <1>1, <1>2 DEF FailureInv

\* A job is recorded as failed only with its image given up, and that for good: the call
\* of otaPal_SetPlatformImageState precedes the message, which may be lost or late, and
\* after any number of resets and losses of the connection the image is still given up.
THEOREM FailedImagesGivenUp ==
  ASSUME TrialsEnd
  PROVE  SystemSpec => FailedMeansNotKept
  <1>1. SystemInit => FailureInv
    BY EmptySeq DEF SystemInit, Init, AgentInit, PalInit, FailureInv, NoFailure
  <1>2. SystemInv /\ FailureInv /\ [SystemNext]_systemVars => FailureInv'
    <2> SUFFICES ASSUME SystemInv, FailureInv, [SystemNext]_systemVars
                 PROVE  FailureInv'
      OBVIOUS
    <2>1. CASE Next
      BY <2>1, NextFailureInv DEF SystemInv, SystemTypeOK, DeviceInv
    <2>2. CASE UNCHANGED vars
      BY <2>2 DEF vars, agentVars, taskVars, netVars, palVars, FailureInv, Over, NoFailure
    <2> QED BY <2>1, <2>2, SystemNextInv
  <1>3. SystemInv /\ FailureInv /\ [SystemNext]_systemVars
          => [\A j \in Jobs : execution[j] # "FAILED" /\ execution'[j] = "FAILED" =>
                fwu \in {"REJECTED", "FAILED"}]_systemVars
    <2> SUFFICES ASSUME SystemInv, FailureInv, SystemNext, NEW j \in Jobs,
                        execution[j] # "FAILED", execution'[j] = "FAILED"
                 PROVE  Over
      BY DEF Over
    <2>1. execution \in [Jobs -> Stages]
      BY DEF SystemInv, SystemTypeOK
    <2>2. Serve
      BY DEF SystemNext, Device, cloudVars, Deliver, DeliverJob, DeliverBlock, Drop, Crash, Reset
    <2>3. PICK i : ServeUpdate(i)
      BY <2>1, <2>2 DEF Serve, ServeStartNext, ServeGetBlock
    <2>4. i \in 1 .. Len(uplink) /\ uplink[i].type = "Failed"
      BY <2>1, <2>3 DEF ServeUpdate, UplinkServed
    <2> QED BY <2>4 DEF FailureInv, NoFailure
  <1> QED BY <1>1, <1>2, <1>3, SystemInvariant, PTL DEF SystemSpec, FailedMeansNotKept

-----------------------------------------------------------------------------
(***************************************************************************)
(* The event queue never fills up, so that no buffer is lost with an event *)
(* that found no room.  Every event, request and message is a link of a    *)
(* chain: what handles one sends at most one.  A chain begins with the     *)
(* start of the demo task, and with a resume; a resume follows a loss of   *)
(* the connection.                                                         *)
(***************************************************************************)

Has(q, id) == \E k \in 1 .. Len(q) : q[k].id = id
IsSignal(ev) == ev.id \in {"Suspend", "Resume"}
OneSignal(q) == \A k, l \in 1 .. Len(q) : IsSignal(q[k]) /\ IsSignal(q[l]) => k = l

\* The requests among the publishes: a status is not answered.
RequestsOf(u) == {k \in 1 .. Len(u) : u[k].type \in {"StartNext", "GetBlock"}}
Requests(u) == Cardinality(RequestsOf(u))

Busy(p) == IF p = "receive" THEN 0 ELSE 1
Live(s) == IF s THEN 1 ELSE 0

\* The chain that a resume will begin, before there is an event for it: queue q,
\* demo task started or not s, connection c, state of the agent a.
Due(q, s, c, a) ==
  IF s /\ ~Has(q, "Suspend") /\ (~c \/ (a = "Suspended" /\ ~Has(q, "Resume"))) THEN 1 ELSE 0

Chains ==
  Len(queue) + Len(down) + Requests(uplink) + Busy(pc)
  + Due(queue, started, connected, otaAgentState)

ChainInv ==
  /\ Chains <= MaxUplink + Live(started) + drops
  /\ OneSignal(queue)
  /\ ~started => queue = <<>> /\ pc = "receive" /\ session = {}

\* Two queues that differ in no signal.
Alike(q, r) ==
  /\ Has(r, "Suspend") <=> Has(q, "Suspend")
  /\ Has(r, "Resume") <=> Has(q, "Resume")
  /\ OneSignal(r)

\* Sending an event that is no signal.
LEMMA SendAlike ==
  ASSUME NEW q, QueueTypeOK(q), NEW ev \in Events, ~IsSignal(ev), OneSignal(q)
  PROVE  /\ Alike(q, SendTo(q, ev))
         /\ Len(SendTo(q, ev)) \in Nat /\ Len(q) \in Nat
         /\ Len(SendTo(q, ev)) <= Len(q) + 1
  <1>1. CASE Len(q) < QueueLength
    <2>1. /\ Len(q) \in Nat /\ Len(SendTo(q, ev)) = Len(q) + 1
          /\ \A k \in 1 .. Len(q) : SendTo(q, ev)[k] = q[k]
          /\ SendTo(q, ev)[Len(q) + 1] = ev
      BY <1>1, AppendProperties, LenProperties DEF QueueTypeOK, SendTo
    <2>2. \A k \in 1 .. Len(q) + 1 : k \in 1 .. Len(q) \/ k = Len(q) + 1
      BY <2>1
    <2>3. \A k \in 1 .. Len(q) : k \in 1 .. Len(q) + 1
      BY <2>1
    <2>4. OneSignal(SendTo(q, ev))
      BY <2>1, <2>2 DEF OneSignal
    <2>5. \A id \in {"Suspend", "Resume"} : Has(SendTo(q, ev), id) <=> Has(q, id)
      BY <2>1, <2>2, <2>3 DEF Has, IsSignal
    <2> QED BY <2>1, <2>4, <2>5 DEF Alike
  <1>2. CASE ~(Len(q) < QueueLength)
    BY <1>2, LenProperties DEF SendTo, Alike, QueueTypeOK
  <1> QED BY <1>1, <1>2

\* Receiving an event: what stays, and that no second signal stays.
LEMMA TailAlike ==
  ASSUME NEW q, QueueTypeOK(q), q # <<>>, OneSignal(q)
  PROVE  /\ Len(Tail(q)) = Len(q) - 1 /\ Len(q) \in Nat \ {0} /\ Len(Tail(q)) \in Nat
         /\ OneSignal(Tail(q))
         /\ ~IsSignal(Head(q)) => Alike(q, Tail(q))
         /\ IsSignal(Head(q)) => ~Has(Tail(q), "Suspend") /\ ~Has(Tail(q), "Resume")
         /\ Has(q, Head(q).id)
         /\ Head(q).id = "Resume" => ~Has(q, "Suspend")
         /\ Head(q).id = "Suspend" => ~Has(q, "Resume")
  <1>1. /\ Len(q) \in Nat /\ Len(q) # 0 /\ Len(Tail(q)) = Len(q) - 1
        /\ 1 \in 1 .. Len(q) /\ Head(q) = q[1]
        /\ \A k \in 1 .. Len(Tail(q)) : Tail(q)[k] = q[k + 1] /\ k + 1 \in 1 .. Len(q) /\ k + 1 # 1
    BY HeadTailProperties, LenProperties, EmptySeq DEF QueueTypeOK
  <1>2. \A k \in 1 .. Len(q) : k # 1 => k - 1 \in 1 .. Len(Tail(q)) /\ (k - 1) + 1 = k
    BY <1>1
  <1>3. OneSignal(Tail(q))
    <2> SUFFICES ASSUME NEW k \in 1 .. Len(Tail(q)), NEW l \in 1 .. Len(Tail(q)),
                        IsSignal(Tail(q)[k]), IsSignal(Tail(q)[l])
                 PROVE  k = l
      BY DEF OneSignal
    <2>1. k + 1 = l + 1
      BY <1>1 DEF OneSignal
    <2> QED BY <2>1
  <1>4. ASSUME ~IsSignal(Head(q)) PROVE Alike(q, Tail(q))
    <2>1. \A id \in {"Suspend", "Resume"} : Has(Tail(q), id) => Has(q, id)
      BY <1>1 DEF Has
    <2>2. \A id \in {"Suspend", "Resume"} : Has(q, id) => Has(Tail(q), id)
      BY <1>1, <1>2, <1>4 DEF Has, IsSignal
    <2> QED BY <1>3, <2>1, <2>2 DEF Alike
  <1>5. ASSUME IsSignal(Head(q)) PROVE ~Has(Tail(q), "Suspend") /\ ~Has(Tail(q), "Resume")
    BY <1>1, <1>5 DEF Has, OneSignal, IsSignal
  <1>6. /\ Has(q, Head(q).id)
        /\ Head(q).id = "Resume" => ~Has(q, "Suspend")
        /\ Head(q).id = "Suspend" => ~Has(q, "Resume")
    BY <1>1 DEF Has, OneSignal, IsSignal
  <1> QED BY <1>1, <1>3, <1>4, <1>5, <1>6

\* Receiving one and sending another.
LEMMA TailSendAlike ==
  ASSUME NEW q, QueueTypeOK(q), q # <<>>, OneSignal(q), ~IsSignal(Head(q)),
         NEW ev \in Events, ~IsSignal(ev)
  PROVE  /\ Alike(q, SendTo(Tail(q), ev))
         /\ Len(SendTo(Tail(q), ev)) \in Nat /\ Len(q) \in Nat
         /\ Len(SendTo(Tail(q), ev)) <= Len(q)
  <1>1. /\ Alike(q, Tail(q)) /\ OneSignal(Tail(q)) /\ QueueTypeOK(Tail(q))
        /\ Len(Tail(q)) = Len(q) - 1 /\ Len(q) \in Nat /\ Len(Tail(q)) \in Nat
    BY TailAlike, TailType
  <1>2. /\ Alike(Tail(q), SendTo(Tail(q), ev)) /\ Len(SendTo(Tail(q), ev)) \in Nat
        /\ Len(SendTo(Tail(q), ev)) <= Len(Tail(q)) + 1
    BY <1>1, SendAlike
  <1> QED BY <1>1, <1>2 DEF Alike

\* The events that are no signals.
LEMMA PlainSignals ==
  ASSUME NEW id \in EventIds, id \notin {"Suspend", "Resume"}
  PROVE  Event(id) \in Events /\ ~IsSignal(Event(id))
  BY EventType DEF Event, IsSignal

\* A number of requests is a number.
LEMMA RequestsFinite ==
  ASSUME NEW u, UplinkTypeOK(u)
  PROVE  /\ IsFiniteSet(RequestsOf(u)) /\ Requests(u) \in Nat /\ Requests(u) <= Len(u)
         /\ Len(u) \in Nat /\ Len(u) <= MaxUplink
  <1>1. Len(u) \in Nat
    BY LenProperties DEF UplinkTypeOK
  <1>2. IsFiniteSet(1 .. Len(u)) /\ Cardinality(1 .. Len(u)) = Len(u)
    <2>1. /\ IsFiniteSet(1 .. Len(u))
          /\ Cardinality(1 .. Len(u)) = IF 1 > Len(u) THEN 0 ELSE Len(u) - 1 + 1
      <3>1. 1 \in Int /\ Len(u) \in Int
        BY <1>1
      <3> QED BY <3>1, FS_Interval
    <2> QED BY <1>1, <2>1
  <1>3. RequestsOf(u) \in SUBSET (1 .. Len(u))
    BY DEF RequestsOf
  <1>4. IsFiniteSet(RequestsOf(u)) /\ Cardinality(RequestsOf(u)) <= Len(u)
    BY <1>2, <1>3, FS_Subset
  <1> QED BY <1>1, <1>4, FS_CardinalityType DEF Requests, UplinkTypeOK

\* A publish that is accepted is one request more at most, a status none.
LEMMA PublishRequests ==
  ASSUME UplinkTypeOK(uplink), NEW m \in Publishes, prvMQTTPublish(m)
  PROVE  /\ Requests(uplink') \in Nat /\ Requests(uplink) \in Nat
         /\ Requests(uplink') <= Requests(uplink) + 1
         /\ m.type \notin {"StartNext", "GetBlock"} => Requests(uplink') = Requests(uplink)
  <1>1. IsFiniteSet(RequestsOf(uplink)) /\ Requests(uplink) \in Nat
    BY RequestsFinite
  <1>2. CASE uplink' = Append(uplink, m)
    <2>1. /\ Len(uplink') = Len(uplink) + 1
          /\ Len(uplink) \in Nat
          /\ \A k \in 1 .. Len(uplink) : uplink'[k] = uplink[k]
          /\ uplink'[Len(uplink) + 1] = m
      BY <1>2, AppendProperties, LenProperties DEF UplinkTypeOK
    <2>2. CASE m.type \in {"StartNext", "GetBlock"}
      <3>1. RequestsOf(uplink') = RequestsOf(uplink) \cup {Len(uplink) + 1}
        BY <2>1, <2>2 DEF RequestsOf
      <3>2. \/ Cardinality(RequestsOf(uplink')) = Cardinality(RequestsOf(uplink)) + 1
            \/ Cardinality(RequestsOf(uplink')) = Cardinality(RequestsOf(uplink))
        BY <1>1, <3>1, FS_AddElement
      <3> QED BY <1>1, <2>2, <3>2 DEF Requests
    <2>3. CASE m.type \notin {"StartNext", "GetBlock"}
      <3>1. RequestsOf(uplink') = RequestsOf(uplink)
        BY <2>1, <2>3 DEF RequestsOf
      <3> QED BY <1>1, <3>1 DEF Requests
    <2> QED BY <2>2, <2>3
  <1>3. CASE UNCHANGED uplink
    BY <1>1, <1>3
  <1> QED BY <1>2, <1>3 DEF prvMQTTPublish

\* A publish that is served is one request less, unless it was a status.
LEMMA ServedRequests ==
  ASSUME UplinkTypeOK(uplink), NEW i, UplinkServed(i)
  PROVE  /\ Requests(uplink') \in Nat /\ Requests(uplink) \in Nat
         /\ Requests(uplink') <= Requests(uplink)
         /\ uplink[i].type \in {"StartNext", "GetBlock"} => Requests(uplink') <= Requests(uplink) - 1
  <1>1. i \in 1 .. Len(uplink) /\ Len(uplink) \in Nat /\ uplink' = Without(uplink, i)
    BY RequestsFinite DEF UplinkServed
  <1>2. UplinkTypeOK(uplink')
    BY <1>1, WithoutType
  <1>3. /\ IsFiniteSet(RequestsOf(uplink)) /\ Requests(uplink) \in Nat
        /\ IsFiniteSet(RequestsOf(uplink')) /\ Requests(uplink') \in Nat
    BY <1>2, RequestsFinite
  <1> DEFINE Later(k) == IF k < i THEN k ELSE k + 1
             Others == RequestsOf(uplink) \ {i}
             f == [k \in RequestsOf(uplink') |-> Later(k)]
  <1>4. Len(uplink') = Len(uplink) - 1
    BY <1>1 DEF Without
  <1>5. ASSUME NEW k \in RequestsOf(uplink') PROVE Later(k) \in Others
    <2>1. k \in 1 .. Len(uplink) - 1 /\ uplink'[k].type \in {"StartNext", "GetBlock"}
      BY <1>4 DEF RequestsOf
    <2>2. uplink'[k] = uplink[Later(k)] /\ Later(k) \in 1 .. Len(uplink) /\ Later(k) # i
      BY <1>1, <2>1 DEF Without
    <2> QED BY <2>1, <2>2 DEF RequestsOf
  <1>6. ASSUME NEW k \in RequestsOf(uplink'), NEW l \in RequestsOf(uplink'), Later(k) = Later(l)
        PROVE  k = l
    BY <1>1, <1>6 DEF RequestsOf
  <1>7. f \in Injection(RequestsOf(uplink'), Others)
    <2>1. f \in [RequestsOf(uplink') -> Others]
      BY <1>5
    <2>2. \A k, l \in RequestsOf(uplink') : f[k] = f[l] => k = l
      BY <1>6
    <2> QED BY <2>1, <2>2 DEF Injection, IsInjective
  <1>8. /\ IsFiniteSet(Others)
        /\ Cardinality(Others) = IF i \in RequestsOf(uplink) THEN Requests(uplink) - 1 ELSE Requests(uplink)
    BY <1>3, FS_RemoveElement DEF Requests
  <1>9. Requests(uplink') <= Cardinality(Others)
    BY <1>7, <1>8, FS_Injection DEF Requests
  <1>10. uplink[i].type \in {"StartNext", "GetBlock"} => i \in RequestsOf(uplink)
    BY <1>1 DEF RequestsOf
  <1> HIDE DEF Others
  <1> QED BY <1>3, <1>8, <1>9, <1>10

\* What the transport loses with the connection is no request more.
LEMMA KeptRequests ==
  ASSUME UplinkTypeOK(uplink), uplink' \in UplinkKept
  PROVE  /\ Requests(uplink') \in Nat /\ Requests(uplink) \in Nat
         /\ Requests(uplink') <= Requests(uplink) /\ Requests(uplink') <= MaxUplink
  <1>1. Requests(uplink) \in Nat /\ Requests(uplink) <= Len(uplink) /\ Len(uplink) \in Nat /\ Len(uplink) <= MaxUplink
    BY RequestsFinite
  <1>2. RequestsOf(<<>>) = {}
    BY EmptySeq DEF RequestsOf
  <1>3. Requests(<<>>) = 0
    BY <1>2, FS_EmptySet DEF Requests
  <1>4. uplink' = uplink \/ uplink' = <<>>
    BY DEF UplinkKept
  <1> QED BY <1>1, <1>3, <1>4, AgentAssumption

\* What the counts are made of.
LEMMA Counts ==
  ASSUME SystemInv
  PROVE  /\ QueueTypeOK(queue) /\ UplinkTypeOK(uplink) /\ RestTypeOK
         /\ Len(queue) \in Nat /\ Len(down) \in Nat /\ Requests(uplink) \in Nat
         /\ Busy(pc) \in 0 .. 1 /\ Live(started) \in 0 .. 1
         /\ Due(queue, started, connected, otaAgentState) \in 0 .. 1
         /\ drops \in Nat /\ drops <= MaxDrops /\ MaxDrops \in Nat /\ MaxUplink \in Nat
  <1>1. QueueTypeOK(queue) /\ UplinkTypeOK(uplink) /\ RestTypeOK /\ DownTypeOK(down) /\ CloudTypeOK
    BY TypeParts, SystemParts DEF SystemInv
  <1>2. Len(queue) \in Nat /\ Len(down) \in Nat /\ Requests(uplink) \in Nat
    BY <1>1, LenProperties, RequestsFinite DEF QueueTypeOK, DownTypeOK
  <1>3. drops \in Nat /\ drops <= MaxDrops
    BY <1>1, SystemAssumption DEF CloudTypeOK
  <1> QED BY <1>1, <1>2, <1>3, SystemAssumption, AgentAssumption DEF Busy, Live, Due

\* And after a step.
LEMMA CountsNext ==
  ASSUME SystemInv'
  PROVE  /\ Len(queue') \in Nat /\ Len(down') \in Nat /\ Requests(uplink') \in Nat
         /\ Busy(pc') \in 0 .. 1 /\ Live(started') \in 0 .. 1
         /\ Due(queue', started', connected', otaAgentState') \in 0 .. 1
         /\ drops' \in Nat
  <1>1. /\ QueueTypeOK(queue') /\ UplinkTypeOK(uplink')
        /\ DownTypeOK(down') /\ CloudTypeOK'
    BY TypePartsNext, SystemPartsNext DEF SystemInv
  <1>2. Len(queue') \in Nat /\ Len(down') \in Nat /\ Requests(uplink') \in Nat
    BY <1>1, LenProperties, RequestsFinite DEF QueueTypeOK, DownTypeOK
  <1>3. drops' \in Nat
    BY <1>1, SystemAssumption DEF CloudTypeOK
  <1> QED BY <1>2, <1>3 DEF Busy, Live, Due

\* A step that sends no more than it takes, and is about no signal.
LEMMA ChainGoesOn ==
  ASSUME SystemInv, SystemInv', ChainInv, UNCHANGED <<started, drops>>, connected => connected',
         Alike(queue, queue'),
         otaAgentState' = "Suspended" => otaAgentState = "Suspended",
         Len(queue') + Len(down') + Requests(uplink') + Busy(pc')
           <= Len(queue) + Len(down) + Requests(uplink) + Busy(pc),
         ~started => queue' = <<>> /\ pc' = "receive" /\ session' = {}
  PROVE  ChainInv'
  <1> DEFINE work == Len(queue) + Len(down) + Requests(uplink) + Busy(pc)
             workNext == Len(queue') + Len(down') + Requests(uplink') + Busy(pc')
             due == Due(queue, started, connected, otaAgentState)
             dueNext == Due(queue', started', connected', otaAgentState')
             bound == MaxUplink + Live(started) + drops
  <1>1. work \in Int /\ due \in Int /\ bound \in Int
    BY Counts
  <1>2. workNext \in Int /\ dueNext \in Int
    BY CountsNext
  <1>3. dueNext <= due
    BY DEF Due, Alike
  <1>4. work + due <= bound
    BY DEF ChainInv, Chains
  <1>5. workNext <= work
    OBVIOUS
  <1>6. Chains' = workNext + dueNext /\ MaxUplink + Live(started') + drops' = bound
    BY DEF Chains
  <1> HIDE DEF work, workNext, due, dueNext, bound
  <1>7. workNext + dueNext <= bound
    BY <1>1, <1>2, <1>3, <1>4, <1>5
  <1> QED BY <1>6, <1>7 DEF ChainInv, Alike

\* The events the orchestrator sends itself.
LEMMA OwnEvents ==
  /\ Event("RequestJobDocument") \in Events /\ ~IsSignal(Event("RequestJobDocument"))
  /\ Event("RequestFileBlock") \in Events /\ ~IsSignal(Event("RequestFileBlock"))
  /\ Event("CloseFile") \in Events /\ ~IsSignal(Event("CloseFile"))
  /\ Event("ActivateImage") \in Events /\ ~IsSignal(Event("ActivateImage"))
  /\ Event("ReceivedJobDocument") \in Events /\ ~IsSignal(Event("ReceivedJobDocument"))
  /\ \A b \in Buffers : BlockEvent(b) \in Events /\ ~IsSignal(BlockEvent(b))
  BY EventType DEF EventIds, Event, IsSignal, BlockEvent, Events, Buffers

\* The agent task receives: an event less, and an operation or an event more at most.
LEMMA ReceivedChain ==
  ASSUME SystemInv, SystemInv', ChainInv, AgentTask, UNCHANGED <<down, drops>>,
         NEW id \in EventIds, Receive(id), id \notin {"Suspend", "Resume"}
  PROVE  ChainInv'
  <1> USE Counts, CountsNext, OwnEvents
  <1>1. started /\ pc = "receive" /\ queue # <<>> /\ ~IsSignal(Head(queue)) /\ OneSignal(queue)
    BY DEF Receive, IsSignal, ChainInv
  <1>2. /\ Len(Tail(queue)) = Len(queue) - 1 /\ Alike(queue, Tail(queue))
    BY <1>1, TailAlike
  <1>3. \A ev \in Events : ~IsSignal(ev) =>
           /\ Alike(queue, SendTo(Tail(queue), ev)) /\ Len(SendTo(Tail(queue), ev)) <= Len(queue)
    BY <1>1, TailSendAlike
  <1>4. UNCHANGED <<started, connected, uplink>>
    BY <1>1
    DEF AgentTask, RequestJobDocument, JobRequested, DropJobDocument, EmptyJobDocument,
        SameJobDocument, UnparsedJobDocument, SelfTestJobDocument, NewJobDocument, FinalStatusSent,
        DownloadJobDocument, Download, DownloaderReady, RequestFileBlock, BlockRequested,
        DropFileBlock, TakeFileBlock, FileBlockHandled, CloseFile, ActivateImage, StatusSent,
        Suspend, Resume, taskVars, netVars
  <1>5. otaAgentState' = "Suspended" => otaAgentState = "Suspended"
    BY <1>1
    DEF AgentTask, RequestJobDocument, JobRequested, DropJobDocument, EmptyJobDocument,
        SameJobDocument, FileCreated, UnparsedJobDocument, SelfTestJobDocument, NewJobDocument,
        FinalStatusSent, DownloadJobDocument, Download, DownloaderReady, RequestFileBlock,
        BlockRequested, DropFileBlock, TakeFileBlock, FileBlockHandled, CloseFile, ActivateImage,
        StatusSent, Suspend, Resume, Receive, taskVars, netVars
  <1>6. \/ queue' = Tail(queue)
        \/ /\ pc' = "receive"
           /\ queue' \in {SendTo(Tail(queue), Event("RequestFileBlock")),
                          SendTo(Tail(queue), Event("ActivateImage"))}
    BY <1>1
    DEF AgentTask, RequestJobDocument, JobRequested, DropJobDocument, EmptyJobDocument,
        SameJobDocument, FileCreated, UnparsedJobDocument, SelfTestJobDocument, NewJobDocument,
        FinalStatusSent, DownloadJobDocument, Download, DownloaderReady, RequestFileBlock,
        BlockRequested, DropFileBlock, TakeFileBlock, FileBlockHandled, CloseFile, ActivateImage,
        StatusSent, Suspend, Resume, Receive, taskVars, Dequeue, DequeueAndSend
  <1>7. Alike(queue, queue') /\ Len(queue') + Busy(pc') <= Len(queue) + Busy(pc)
    <2>1. CASE queue' = Tail(queue)
      BY <1>2, <2>1, <1>1 DEF Busy
    <2>2. CASE queue' # Tail(queue)
      <3>1. PICK ev \in Events : ~IsSignal(ev) /\ queue' = SendTo(Tail(queue), ev)
        BY <1>6, <2>2
      <3>2. Busy(pc') = 0 /\ Busy(pc) = 0
        BY <1>1, <1>6, <2>2 DEF Busy
      <3>3. Alike(queue, queue') /\ Len(queue') <= Len(queue)
        BY <1>3, <3>1
      <3> QED BY <3>2, <3>3
    <2> QED BY <2>1, <2>2
  <1>8. Len(queue') + Len(down') + Requests(uplink') + Busy(pc')
           <= Len(queue) + Len(down) + Requests(uplink) + Busy(pc)
    BY <1>4, <1>7
  <1> QED BY <1>1, <1>4, <1>5, <1>7, <1>8, ChainGoesOn

\* The agent task ends an operation: with a request, or an event at most.
LEMMA OperationChain ==
  ASSUME SystemInv, SystemInv', ChainInv, AgentTask \/ ResetFails, pc # "receive",
         UNCHANGED <<down, drops>>
  PROVE  ChainInv'
  <1> USE Counts, CountsNext, OwnEvents
  <1>1. started /\ OneSignal(queue) /\ Alike(queue, queue) /\ Busy(pc) = 1
    BY DEF ChainInv, Alike, Busy
  <1>2. \A ev \in Events : ~IsSignal(ev) =>
           /\ Alike(queue, SendTo(queue, ev)) /\ Len(SendTo(queue, ev)) <= Len(queue) + 1
    BY <1>1, SendAlike
  <1>3. UNCHANGED <<started, connected>>
    BY DEF AgentTask, RequestJobDocument, JobRequested, DropJobDocument, EmptyJobDocument,
           SameJobDocument, UnparsedJobDocument, SelfTestJobDocument, NewJobDocument,
           FinalStatusSent, DownloadJobDocument, Download, DownloaderReady, RequestFileBlock,
           BlockRequested, DropFileBlock, TakeFileBlock, FileBlockHandled, CloseFile,
           ActivateImage, StatusSent, Suspend, Resume, Receive, ResetFails, taskVars, netVars
  <1>4. ASSUME UNCHANGED queue, Requests(uplink') <= Requests(uplink) + 1, pc' = "receive",
               otaAgentState' = "Suspended" => otaAgentState = "Suspended"
        PROVE  ChainInv'
    <2>1. Busy(pc') = 0
      BY <1>4 DEF Busy
    <2>2. Len(queue') + Len(down') + Requests(uplink') + Busy(pc')
             <= Len(queue) + Len(down) + Requests(uplink) + Busy(pc)
      BY <1>1, <1>4, <2>1
    <2> QED BY <1>1, <1>3, <1>4, <2>2, ChainGoesOn
  <1>5. ASSUME NEW ev \in Events, ~IsSignal(ev), queue' \in {queue, SendTo(queue, ev)},
               Requests(uplink') = Requests(uplink), pc' \in {"receive", "reset"},
               pc' = "reset" => queue' = queue,
               otaAgentState' = "Suspended" => otaAgentState = "Suspended"
        PROVE  ChainInv'
    <2>1. Len(queue') + Busy(pc') <= Len(queue) + 1 /\ Alike(queue, queue')
      BY <1>1, <1>2, <1>5 DEF Busy
    <2>2. Len(queue') + Len(down') + Requests(uplink') + Busy(pc')
             <= Len(queue) + Len(down) + Requests(uplink) + Busy(pc)
      BY <1>1, <1>5, <2>1
    <2> QED BY <1>1, <1>3, <1>5, <2>1, <2>2, ChainGoesOn
  <1>6. CASE JobRequested
    <2>1. Message("StartNext", NoJob, 0) \in Publishes
      BY MessageType DEF JobIds
    <2>2. Requests(uplink') <= Requests(uplink) + 1
      BY <1>6, <2>1, PublishRequests DEF JobRequested
    <2> QED BY <1>4, <1>6, <2>2 DEF JobRequested
  <1>7. ASSUME NEW status \in {"Succeeded", "Failed"}, FinalStatusSent(status)
        PROVE  ChainInv'
    <2>1. Message(status, AddressedJob, 0) \in Publishes
      BY MessageType, AddressedJobType
    <2>2. Requests(uplink') <= Requests(uplink) + 1
      BY <1>7, <2>1, PublishRequests DEF FinalStatusSent
    <2> QED BY <1>4, <1>7, <2>2 DEF FinalStatusSent
  <1>8. CASE DownloaderReady
    <2>1. /\ queue' \in {queue, SendTo(queue, Event("RequestFileBlock"))}
          /\ otaAgentState' = "Suspended" => otaAgentState = "Suspended"
      BY <1>8 DEF DownloaderReady, FileCreated
    <2>2. UNCHANGED uplink /\ pc' = "receive"
      BY <1>8 DEF DownloaderReady
    <2> QED BY <1>5, <2>1, <2>2
  <1>9. CASE BlockRequested
    <2>1. Requests(uplink') <= Requests(uplink) + 1
      <3>1. CASE stream = NoJob
        BY <1>9, <3>1 DEF BlockRequested
      <3>2. CASE stream # NoJob
        <4> DEFINE m == Message("GetBlock", stream, currentBlockOffset % U16)
        <4>1. currentBlockOffset % U16 \in Nat /\ stream \in JobIds
          <5>1. currentBlockOffset \in Nat /\ stream \in JobIds
            BY AgentAssumption DEF RestTypeOK
          <5>2. U16 \in Nat \ {0}
            BY AgentAssumption
          <5>3. QED  BY <5>1, <5>2
        <4>2. m \in Publishes
          BY <4>1, MessageType
        <4>3. prvMQTTPublish(m)
          BY <1>9, <3>2 DEF BlockRequested
        <4> HIDE DEF m
        <4> QED BY <4>2, <4>3, PublishRequests
      <3> QED BY <3>1, <3>2
    <2> QED BY <1>4, <1>9, <2>1 DEF BlockRequested
  <1>10. CASE FileBlockHandled
    <2>1. /\ UNCHANGED uplink /\ pc' = "receive" /\ UNCHANGED otaAgentState
          /\ \/ queue' = SendTo(queue, Event("CloseFile"))
             \/ queue' = SendTo(queue, Event("RequestFileBlock"))
      BY <1>10 DEF FileBlockHandled, netVars
    <2> QED BY <1>5, <2>1
  <1>11. CASE StatusSent
    <2>1. PICK version \in Versions : prvMQTTPublish(Message("InProgress", AddressedJob, version))
      BY <1>11 DEF StatusSent, SystemInv, DeviceInv, VersionsKnown
    <2>2. Message("InProgress", AddressedJob, version) \in Publishes
      BY <2>1, MessageType, AddressedJobType, AgentAssumption
    <2>3. Message("InProgress", AddressedJob, version).type \notin {"StartNext", "GetBlock"}
      BY DEF Message
    <2>4. Requests(uplink') = Requests(uplink)
      BY <2>1, <2>2, <2>3, PublishRequests
    <2>5. /\ queue' \in {queue, SendTo(queue, Event("RequestJobDocument"))}
          /\ pc' \in {"receive", "reset"} /\ (pc' = "reset" => queue' = queue)
          /\ UNCHANGED otaAgentState
      BY <1>11 DEF StatusSent
    <2> QED BY <1>5, <2>4, <2>5
  <1>12. CASE ResetFails
    BY <1>4, <1>12 DEF ResetFails, netVars
  <1>13. \/ JobRequested \/ DownloaderReady \/ BlockRequested \/ FileBlockHandled \/ StatusSent
         \/ ResetFails \/ \E status \in {"Succeeded", "Failed"} : FinalStatusSent(status)
    BY DEF AgentTask, RequestJobDocument, DropJobDocument, EmptyJobDocument,
           SameJobDocument, UnparsedJobDocument, SelfTestJobDocument, NewJobDocument,
           DownloadJobDocument, Download, RequestFileBlock, DropFileBlock, TakeFileBlock,
           CloseFile, ActivateImage, Suspend, Resume, Receive
  <1> QED BY <1>6, <1>7, <1>8, <1>9, <1>10, <1>11, <1>12, <1>13

\* The agent task suspends: the chain a resume will begin is owed from now on.
LEMMA SuspendChain ==
  ASSUME SystemInv, SystemInv', ChainInv, Suspend, UNCHANGED <<down, drops>>
  PROVE  ChainInv'
  <1>1. /\ started /\ pc = "receive" /\ queue # <<>> /\ Head(queue).id = "Suspend"
        /\ queue' = Tail(queue) /\ UNCHANGED <<started, pc, uplink, connected>>
    BY DEF Suspend, Receive, Dequeue, netVars
  <1>2. /\ Len(queue') = Len(queue) - 1 /\ OneSignal(queue') /\ Has(queue, "Suspend")
        /\ Len(queue) \in Nat
    BY <1>1, TailAlike, Counts DEF ChainInv
  <1>3. Due(queue, started, connected, otaAgentState) = 0
    BY <1>2 DEF Due
  <1> DEFINE rest == Len(down) + Requests(uplink) + Busy(pc)
             dueNext == Due(queue', started', connected', otaAgentState')
             bound == MaxUplink + Live(started) + drops
  <1>4. rest \in Int /\ dueNext \in 0 .. 1 /\ bound \in Int
    BY Counts, CountsNext
  <1>5. Len(queue) + rest <= bound
    BY <1>3, Counts DEF ChainInv, Chains
  <1>6. Chains' = (Len(queue) - 1) + rest + dueNext /\ MaxUplink + Live(started') + drops' = bound
    <2>1. /\ UNCHANGED <<down, drops>> /\ Len(down') = Len(down)
          /\ Requests(uplink') = Requests(uplink)
          /\ Busy(pc') = Busy(pc) /\ Live(started') = Live(started)
      BY <1>1
    <2>2. Chains' = Len(queue') + Len(down) + Requests(uplink) + Busy(pc) + dueNext
      BY <2>1 DEF Chains
    <2>3. /\ Len(queue') = Len(queue) - 1 /\ Len(queue) \in Int /\ Len(down) \in Int
          /\ Requests(uplink) \in Int /\ Busy(pc) \in Int
      BY <1>2, Counts
    <2> QED BY <1>4, <2>1, <2>2, <2>3
  <1> HIDE DEF rest, dueNext, bound
  <1>7. (Len(queue) - 1) + rest + dueNext <= bound
    BY <1>2, <1>4, <1>5
  <1> QED BY <1>1, <1>2, <1>6, <1>7 DEF ChainInv

\* The agent task resumes: the signal becomes the first event of the chain it was owed.
LEMMA ResumeChain ==
  ASSUME SystemInv, SystemInv', ChainInv, Resume, UNCHANGED <<down, drops>>
  PROVE  ChainInv'
  <1>1. /\ started /\ pc = "receive" /\ queue # <<>> /\ Head(queue).id = "Resume"
        /\ queue' = SendTo(Tail(queue), Event("RequestJobDocument"))
        /\ otaAgentState' = "RequestingJob" /\ UNCHANGED <<started, pc, uplink, connected>>
    BY DEF Resume, Receive, DequeueAndSend, netVars
  <1>2. /\ Len(Tail(queue)) = Len(queue) - 1 /\ OneSignal(Tail(queue)) /\ QueueTypeOK(Tail(queue))
        /\ ~Has(queue, "Suspend") /\ Len(queue) \in Nat
        /\ ~Has(Tail(queue), "Suspend") /\ ~Has(Tail(queue), "Resume")
    BY <1>1, TailAlike, TailType, Counts DEF ChainInv, IsSignal
  <1>3. /\ Alike(Tail(queue), queue') /\ Len(queue') <= Len(Tail(queue)) + 1 /\ Len(queue') \in Nat
    BY <1>1, <1>2, OwnEvents, SendAlike
  <1>4. Len(queue') <= Len(queue)
    BY <1>2, <1>3
  <1>5. Due(queue', started', connected', otaAgentState') <= Due(queue, started, connected, otaAgentState)
    BY <1>1, <1>2 DEF Due
  <1> DEFINE rest == Len(down) + Requests(uplink) + Busy(pc)
             due == Due(queue, started, connected, otaAgentState)
             dueNext == Due(queue', started', connected', otaAgentState')
             bound == MaxUplink + Live(started) + drops
  <1>6. rest \in Int /\ due \in Int /\ dueNext \in Int /\ bound \in Int
    BY Counts, CountsNext
  <1>7. Len(queue) + rest + due <= bound
    BY Counts DEF ChainInv, Chains
  <1>8. Chains' = Len(queue') + rest + dueNext /\ MaxUplink + Live(started') + drops' = bound
    <2>1. /\ UNCHANGED <<down, drops>> /\ Len(down') = Len(down)
          /\ Requests(uplink') = Requests(uplink)
          /\ Busy(pc') = Busy(pc) /\ Live(started') = Live(started)
      BY <1>1
    <2>2. Chains' = Len(queue') + Len(down) + Requests(uplink) + Busy(pc) + dueNext
      BY <2>1 DEF Chains
    <2>3. /\ Len(queue') \in Int /\ Len(down) \in Int
          /\ Requests(uplink) \in Int /\ Busy(pc) \in Int
      BY Counts, CountsNext
    <2> QED BY <1>6, <2>1, <2>2, <2>3
  <1>9. dueNext <= due
    BY <1>5
  <1> HIDE DEF rest, due, dueNext, bound
  <1>10. Len(queue') + rest + dueNext <= bound
    BY <1>2, <1>3, <1>4, <1>6, <1>7, <1>9
  <1> QED BY <1>1, <1>3, <1>8, <1>10 DEF ChainInv, Alike

\* The demo task starts the first chain.
LEMMA StartChain ==
  ASSUME SystemInv, SystemInv', ChainInv, StartDemo, UNCHANGED <<down, drops>>
  PROVE  ChainInv'
  <1>1. /\ ~started /\ queue = <<>> /\ pc = "receive" /\ OneSignal(queue)
        /\ started' /\ connected' /\ otaAgentState' = "Ready"
        /\ queue' = SendTo(queue, Event("RequestJobDocument"))
        /\ UNCHANGED <<pc, uplink>>
    BY DEF ChainInv, StartDemo, netVars
  <1>2. Alike(queue, queue') /\ Len(queue') <= Len(queue) + 1 /\ Len(queue) = 0
    BY <1>1, OwnEvents, SendAlike, Counts, EmptySeq
  <1>3. Due(queue', started', connected', otaAgentState') = 0
    BY <1>1 DEF Due
  <1>4. Busy(pc) = 0 /\ Busy(pc') = 0 /\ Live(started) = 0 /\ Live(started') = 1
    BY <1>1 DEF Busy, Live
  <1>5. Len(down) + Requests(uplink) <= MaxUplink + drops
    <2>1. Due(queue, started, connected, otaAgentState) = 0
      BY <1>1 DEF Due
    <2>2. 0 + Len(down) + Requests(uplink) + 0 + 0 <= MaxUplink + 0 + drops
      BY <1>2, <1>4, <2>1 DEF ChainInv, Chains
    <2> QED BY <2>2, Counts
  <1>6. Chains' = Len(queue') + Len(down) + Requests(uplink) + 0 + 0
    <2>1. Len(down') = Len(down) /\ Requests(uplink') = Requests(uplink)
      BY <1>1
    <2> QED BY <1>3, <1>4, <2>1 DEF Chains
  <1>7. Len(queue') \in Int /\ Len(down) \in Int /\ Requests(uplink) \in Int /\ MaxUplink \in Int /\ drops \in Int
    BY Counts, CountsNext
  <1>8. Chains' <= MaxUplink + 1 + drops'
    BY <1>2, <1>5, <1>6, <1>7
  <1> QED BY <1>1, <1>2, <1>4, <1>8 DEF ChainInv, Alike

\* A queue without signals gets its first one.
LEMMA SendSignal ==
  ASSUME NEW q, QueueTypeOK(q), ~Has(q, "Suspend"), ~Has(q, "Resume"),
         NEW ev \in Events, Len(q) < QueueLength
  PROVE  /\ Has(SendTo(q, ev), ev.id) /\ OneSignal(SendTo(q, ev))
         /\ Len(SendTo(q, ev)) = Len(q) + 1
  <1>1. /\ Len(q) \in Nat /\ Len(SendTo(q, ev)) = Len(q) + 1
        /\ \A k \in 1 .. Len(q) : SendTo(q, ev)[k] = q[k]
        /\ SendTo(q, ev)[Len(q) + 1] = ev /\ Len(q) + 1 \in 1 .. Len(q) + 1
    BY AppendProperties, LenProperties DEF QueueTypeOK, SendTo
  <1>2. \A k \in 1 .. Len(q) + 1 : k \in 1 .. Len(q) \/ k = Len(q) + 1
    BY <1>1
  <1>3. \A k \in 1 .. Len(q) : ~IsSignal(SendTo(q, ev)[k])
    BY <1>1 DEF Has, IsSignal
  <1>4. OneSignal(SendTo(q, ev))
    BY <1>1, <1>2, <1>3 DEF OneSignal
  <1>5. Has(SendTo(q, ev), ev.id)
    BY <1>1 DEF Has
  <1> QED BY <1>1, <1>4, <1>5

\* The demo task sends a signal: the chain that was owed is owed to the signal.
LEMMA PollChain ==
  ASSUME SystemInv, SystemInv', ChainInv, Poll, UNCHANGED <<down, drops>>
  PROVE  ChainInv'
  <1>1. PICK id \in {"Suspend", "Resume"} :
          /\ queue' = SendTo(queue, Event(id)) /\ started
          /\ id = "Suspend" => ~connected
          /\ id = "Resume" => connected /\ otaAgentState = "Suspended"
          /\ UNCHANGED <<started, otaAgentState, pc, connected, uplink>>
    BY DEF Poll, DemoSuspend, DemoResume, DemoSend, taskVars, netVars
  <1>2. ~Has(queue, "Suspend") /\ ~Has(queue, "Resume")
    BY DEF Poll, Has
  <1>3. Due(queue, started, connected, otaAgentState) = 1
    BY <1>1, <1>2 DEF Due
  <1>4. Event(id) \in Events /\ Event(id).id = id
    BY EventType DEF EventIds, Event
  <1>5. CASE Len(queue) < QueueLength
    <2>1. /\ Has(queue', id) /\ OneSignal(queue') /\ Len(queue') = Len(queue) + 1
      BY <1>1, <1>2, <1>4, <1>5, SendSignal, Counts
    <2>2. Due(queue', started', connected', otaAgentState') = 0
      BY <1>1, <2>1 DEF Due
    <2>3. /\ Len(down') = Len(down) /\ Requests(uplink') = Requests(uplink)
          /\ Busy(pc') = Busy(pc) /\ Live(started') = Live(started)
      BY <1>1
    <2>4. Chains' = (Len(queue) + 1) + Len(down) + Requests(uplink) + Busy(pc) + 0
      BY <2>1, <2>2, <2>3 DEF Chains
    <2>5. Chains = Len(queue) + Len(down) + Requests(uplink) + Busy(pc) + 1
      BY <1>3 DEF Chains
    <2>6. Len(queue) \in Int /\ Len(down) \in Int /\ Requests(uplink) \in Int /\ Busy(pc) \in Int
      BY Counts
    <2>7. Chains' = Chains
      BY <2>4, <2>5, <2>6
    <2> QED BY <1>1, <2>1, <2>3, <2>7 DEF ChainInv
  <1>6. CASE ~(Len(queue) < QueueLength)
    <2>1. queue' = queue
      BY <1>1, <1>6 DEF SendTo
    <2> QED BY <1>1, <2>1 DEF ChainInv, Chains
  <1> QED BY <1>5, <1>6

\* A reply is a message more, and the request it answers one less.
LEMMA ServeChain ==
  ASSUME SystemInv, SystemInv', ChainInv, Serve
  PROVE  ChainInv'
  <1> USE Counts, CountsNext
  <1>1. PICK i : ServeStartNext(i) \/ ServeGetBlock(i) \/ ServeUpdate(i)
    BY DEF Serve
  <1>2. /\ UplinkServed(i) /\ UNCHANGED <<queue, pc, started, otaAgentState, connected, session, drops>>
    BY <1>1 DEF ServeStartNext, ServeGetBlock, ServeUpdate, UplinkServed, taskVars, boundVars
  <1>3. Len(down') <= Len(down) + 1
    <2>1. ASSUME NEW m, Reply(m) PROVE Len(down') <= Len(down) + 1
      <3>1. Len(Append(down, m)) = Len(down) + 1
        BY AppendProperties DEF SystemInv, SystemTypeOK
      <3> QED BY <2>1, <3>1 DEF Reply
    <2>2. \/ UNCHANGED down \/ \E m : Reply(m)
      BY <1>1 DEF ServeStartNext, ServeGetBlock, ServeUpdate
    <2> QED BY <2>1, <2>2
  <1>4. down' # down => uplink[i].type \in {"StartNext", "GetBlock"}
    BY <1>1 DEF ServeStartNext, ServeGetBlock, ServeUpdate
  <1>5. Len(down') + Requests(uplink') <= Len(down) + Requests(uplink)
    BY <1>2, <1>3, <1>4, ServedRequests
  <1>6. Len(queue') + Len(down') + Requests(uplink') + Busy(pc')
           <= Len(queue) + Len(down) + Requests(uplink) + Busy(pc)
    BY <1>2, <1>5
  <1> QED BY <1>2, <1>6, ChainGoesOn DEF ChainInv, Alike

\* A message that arrives is an event at most.
LEMMA DeliverChain ==
  ASSUME SystemInv, SystemInv', ChainInv, Deliver
  PROVE  ChainInv'
  <1> USE Counts, CountsNext, OwnEvents
  <1>1. down # <<>> /\ down' = Tail(down) /\ UNCHANGED drops
    BY DEF Deliver, DeliverJob, DeliverBlock, boundVars
  <1>2. Len(down') = Len(down) - 1
    <2>1. down \in Seq(Messages)
      BY DEF SystemInv, SystemTypeOK
    <2> QED BY <1>1, <2>1, HeadTailProperties
  <1>3. OneSignal(queue) /\ Alike(queue, queue)
    BY DEF ChainInv, Alike
  <1>4. \A ev \in Events : ~IsSignal(ev) =>
           /\ Alike(queue, SendTo(queue, ev)) /\ Len(SendTo(queue, ev)) <= Len(queue) + 1
    BY <1>3, SendAlike
  <1>5. UNCHANGED <<started, otaAgentState, pc, connected, session, uplink>>
    BY DEF Deliver, DeliverJob, DeliverBlock, JobDocArrives, BlockArrives, vars, agentVars,
           taskVars, netVars
  <1>6. \/ UNCHANGED queue
        \/ started /\ \E ev \in Events : ~IsSignal(ev) /\ queue' = SendTo(queue, ev)
    <2>1. CASE DeliverJob
      BY <2>1 DEF DeliverJob, JobDocArrives, vars, agentVars
    <2>2. CASE DeliverBlock /\ BlockRouted
      <3>1. started
        BY <2>2 DEF BlockRouted, ChainInv
      <3> QED BY <2>2, <3>1 DEF DeliverBlock, BlockArrives, vars, agentVars
    <2>3. CASE DeliverBlock /\ ~BlockRouted
      BY <2>3 DEF DeliverBlock, vars, agentVars
    <2> QED BY <2>1, <2>2, <2>3 DEF Deliver
  <1>7. Alike(queue, queue') /\ Len(queue') <= Len(queue) + 1 /\ (~started => UNCHANGED queue)
    BY <1>3, <1>4, <1>6
  <1>8. Len(queue') + Len(down') + Requests(uplink') + Busy(pc')
           <= Len(queue) + Len(down) + Requests(uplink) + Busy(pc)
    BY <1>2, <1>5, <1>7
  <1> QED BY <1>1, <1>5, <1>7, <1>8, ChainGoesOn DEF ChainInv

\* A loss of the connection begins at most one chain more.
LEMMA DropSum ==
  ASSUME NEW q \in Int, NEW d \in Nat, NEW u \in Int, NEW v \in Int, v <= u, NEW b \in Int,
         NEW r \in 0 .. 1, NEW s \in 0 .. 1, NEW M \in Int, NEW l \in Int, NEW k \in Int,
         q + d + u + b + r <= M + l + k
  PROVE  q + 0 + v + b + s <= M + l + (k + 1)
  OBVIOUS

\* A loss of the connection is the occasion of one chain more.
LEMMA DropChain ==
  ASSUME SystemInv, SystemInv', ChainInv, Drop
  PROVE  ChainInv'
  <1>1. /\ UNCHANGED <<queue, pc, started, otaAgentState>> /\ drops' = drops + 1
        /\ down' = <<>> /\ session' = {} /\ uplink' \in UplinkKept
    BY DEF Drop, Disconnect, taskVars
  <1>2. Requests(uplink') <= Requests(uplink) /\ Len(down') = 0
    BY <1>1, Counts, KeptRequests
  <1>3. Live(started') = Live(started) /\ Busy(pc') = Busy(pc) /\ Len(queue') = Len(queue)
    BY <1>1
  <1> DEFINE due == Due(queue, started, connected, otaAgentState)
             dueNext == Due(queue', started', connected', otaAgentState')
  <1>4. /\ Len(queue) \in Int /\ Len(down) \in Nat /\ Requests(uplink) \in Int /\ Busy(pc) \in Int
        /\ due \in 0 .. 1 /\ dueNext \in 0 .. 1 /\ Requests(uplink') \in Int
        /\ Live(started) \in Int /\ drops \in Int /\ MaxUplink \in Int
    BY Counts, CountsNext
  <1>5. Len(queue) + Len(down) + Requests(uplink) + Busy(pc) + due <= MaxUplink + Live(started) + drops
    BY DEF ChainInv, Chains
  <1>6. Chains' = Len(queue) + 0 + Requests(uplink') + Busy(pc) + dueNext
    BY <1>2, <1>3 DEF Chains
  <1> HIDE DEF due, dueNext
  <1>7. Len(queue) + 0 + Requests(uplink') + Busy(pc) + dueNext <= MaxUplink + Live(started) + (drops + 1)
    <2> DEFINE q == Len(queue)
               d == Len(down)
               u == Requests(uplink)
               v == Requests(uplink')
               b == Busy(pc)
               l == Live(started)
    <2>1. /\ q \in Int /\ d \in Nat /\ u \in Int /\ v \in Int /\ b \in Int /\ l \in Int
          /\ v <= u /\ q + d + u + b + due <= MaxUplink + l + drops
      BY <1>2, <1>4, <1>5
    <2> HIDE DEF q, d, u, v, b, l
    <2>2. q + 0 + v + b + dueNext <= MaxUplink + l + (drops + 1)
      BY <1>4, <2>1, DropSum
    <2> QED BY <2>2 DEF q, u, v, b, l
  <1> QED BY <1>1, <1>3, <1>6, <1>7 DEF ChainInv

\* A reset ends all chains but those of the requests that are still under way.
LEMMA RebootChain ==
  ASSUME SystemInv, SystemInv', ChainInv, Crash \/ Reset
  PROVE  ChainInv'
  <1>1. /\ queue' = <<>> /\ pc' = "receive" /\ ~started' /\ session' = {} /\ down' = <<>>
        /\ uplink' \in UplinkKept /\ UNCHANGED drops
    BY DEF Crash, Reset, Reboot, boundVars
  <1>2. /\ Requests(uplink') <= MaxUplink /\ Len(down') = 0 /\ Len(queue') = 0
        /\ Busy(pc') = 0 /\ Live(started') = 0
        /\ Due(queue', started', connected', otaAgentState') = 0
    BY <1>1, Counts, KeptRequests DEF Busy, Live, Due
  <1>3. Chains' = 0 + 0 + Requests(uplink') + 0 + 0
    BY <1>2 DEF Chains
  <1>4. Requests(uplink') \in Nat /\ MaxUplink \in Nat /\ drops' \in Nat
    BY CountsNext, Counts
  <1>5. Chains' <= MaxUplink + 0 + drops'
    BY <1>2, <1>3, <1>4
  <1>6. OneSignal(queue')
    BY <1>1, EmptySeq DEF OneSignal
  <1> QED BY <1>1, <1>2, <1>5, <1>6 DEF ChainInv

\* Every step of the device among its services.
LEMMA ChainNext ==
  ASSUME SystemInv, SystemInv', ChainInv, [SystemNext]_systemVars
  PROVE  ChainInv'
  <1>1. CASE Device /\ AgentTask
    <2>1. UNCHANGED <<down, drops>>
      BY <1>1 DEF Device, cloudVars, boundVars
    <2>2. CASE pc # "receive"
      BY <1>1, <2>1, <2>2, OperationChain
    <2>3. CASE Suspend \/ Resume
      BY <2>1, <2>3, SuspendChain, ResumeChain
    <2>4. CASE pc = "receive" /\ ~Suspend /\ ~Resume
      <3>1. PICK id \in EventIds \ {"Suspend", "Resume"} : Receive(id)
        BY <1>1, <2>4
        DEF AgentTask, RequestJobDocument, JobRequested, DropJobDocument, EmptyJobDocument,
            SameJobDocument, UnparsedJobDocument, SelfTestJobDocument, NewJobDocument,
            FinalStatusSent, DownloadJobDocument, Download, DownloaderReady, RequestFileBlock,
            BlockRequested, DropFileBlock, TakeFileBlock, FileBlockHandled, CloseFile,
            ActivateImage, StatusSent, EventIds
      <3> QED BY <1>1, <2>1, <3>1, ReceivedChain
    <2> QED BY <2>2, <2>3, <2>4
  <1>2. CASE Device /\ (StartDemo \/ Poll \/ ResetFails)
    <2>1. UNCHANGED <<down, drops>>
      BY <1>2 DEF Device, cloudVars, boundVars
    <2>2. ResetFails => pc # "receive"
      BY DEF ResetFails
    <2> QED BY <1>2, <2>1, <2>2, StartChain, PollChain, OperationChain
  <1>3. CASE Device /\ Reconnect
    <2>1. /\ UNCHANGED <<down, drops, queue, pc, started, otaAgentState, uplink>>
          /\ connected' /\ session' = {}
      BY <1>3 DEF Device, cloudVars, boundVars, Reconnect, Connect, taskVars
    <2>2. Alike(queue, queue')
      BY <2>1 DEF ChainInv, Alike
    <2>3. Len(queue') + Len(down') + Requests(uplink') + Busy(pc')
             <= Len(queue) + Len(down) + Requests(uplink) + Busy(pc)
      BY <2>1, Counts
    <2> QED BY <2>1, <2>2, <2>3, ChainGoesOn DEF ChainInv
  <1>4. CASE Serve \/ Deliver \/ Drop \/ Crash \/ Reset
    BY <1>4, ServeChain, DeliverChain, DropChain, RebootChain
  <1>5. CASE UNCHANGED systemVars
    BY <1>5
    DEF systemVars, vars, agentVars, taskVars, netVars, cloudVars, boundVars, ChainInv, Chains
  <1> QED BY <1>1, <1>2, <1>3, <1>4, <1>5 DEF SystemNext, Device

\* Before the device starts nothing is under way.
LEMMA ChainInit == SystemInit => ChainInv
  <1> SUFFICES ASSUME SystemInit PROVE ChainInv
    OBVIOUS
  <1>1. /\ queue = <<>> /\ down = <<>> /\ uplink = <<>> /\ pc = "receive" /\ ~started
        /\ drops = 0 /\ session = {}
    BY DEF SystemInit, Init, AgentInit
  <1>2. RequestsOf(uplink) = {}
    BY <1>1, EmptySeq DEF RequestsOf
  <1>3. /\ Requests(uplink) = 0 /\ Len(queue) = 0 /\ Len(down) = 0 /\ Busy(pc) = 0
        /\ Live(started) = 0 /\ Due(queue, started, connected, otaAgentState) = 0
    BY <1>1, <1>2, FS_EmptySet DEF Requests, Busy, Live, Due
  <1>4. Chains = 0 + 0 + 0 + 0 + 0
    BY <1>3 DEF Chains
  <1>5. Chains <= MaxUplink + 0 + 0
    BY <1>4, AgentAssumption
  <1>6. OneSignal(queue)
    BY <1>1, EmptySeq DEF OneSignal
  <1> QED BY <1>1, <1>3, <1>5, <1>6 DEF ChainInv

\* The chains are counted for ever.
LEMMA ChainInvariant == SystemSpec => [](SystemInv /\ ChainInv)
  <1>1. SystemInit => SystemInv /\ ChainInv
    BY SystemInitInv, ChainInit
  <1>2. SystemInv /\ ChainInv /\ [SystemNext]_systemVars => SystemInv' /\ ChainInv'
    BY SystemNextInv, ChainNext
  <1> QED BY <1>1, <1>2, PTL DEF SystemSpec

\* The events never outnumber the chains, however long the queue is.
THEOREM EventsBounded == SystemSpec => [](Len(queue) <= MaxUplink + MaxDrops + 1)
  <1>1. SystemInv /\ ChainInv => Len(queue) <= MaxUplink + MaxDrops + 1
    <2> SUFFICES ASSUME SystemInv, ChainInv PROVE Len(queue) <= MaxUplink + MaxDrops + 1
      OBVIOUS
    <2> DEFINE due == Due(queue, started, connected, otaAgentState)
    <2>1. Len(queue) + Len(down) + Requests(uplink) + Busy(pc) + due <= MaxUplink + Live(started) + drops
      BY DEF ChainInv, Chains
    <2>2. /\ Len(queue) \in Nat /\ Len(down) \in Nat /\ Requests(uplink) \in Nat /\ Busy(pc) \in Nat
          /\ due \in Nat /\ Live(started) \in 0 .. 1
          /\ drops \in Nat /\ drops <= MaxDrops /\ MaxDrops \in Nat /\ MaxUplink \in Nat
      BY Counts
    <2> HIDE DEF due
    <2> QED BY <2>1, <2>2
  <1> QED BY <1>1, ChainInvariant, PTL

\* One chain is in what arrives, so the others leave room in the queue.
LEMMA RoomLeft ==
  ASSUME NEW q \in Nat, NEW d \in Nat, d # 0, NEW u \in Nat, NEW b \in Nat, NEW r \in Nat,
         NEW M \in Nat, NEW l \in 0 .. 1, NEW D \in Nat, NEW k \in Nat, k <= D,
         NEW L \in Nat, L > M + D, q + d + u + b + r <= M + l + k
  PROVE  q < L
  OBVIOUS

\* A block that arrives finds room in the queue: its own message was one of the chains.
LEMMA BlockFindsRoom ==
  ASSUME SystemInv, ChainInv, RoomForAll, down # <<>>
  PROVE  Len(queue) < QueueLength
  <1> DEFINE due == Due(queue, started, connected, otaAgentState)
  <1>1. Len(queue) + Len(down) + Requests(uplink) + Busy(pc) + due <= MaxUplink + Live(started) + drops
    BY DEF ChainInv, Chains
  <1>2. /\ Len(queue) \in Nat /\ Len(down) \in Nat /\ Requests(uplink) \in Nat /\ Busy(pc) \in Nat
        /\ due \in Nat /\ Live(started) \in 0 .. 1
        /\ drops \in Nat /\ drops <= MaxDrops /\ MaxDrops \in Nat /\ MaxUplink \in Nat
    BY Counts
  <1>3. Len(down) # 0
    BY EmptySeq DEF SystemInv, SystemTypeOK
  <1>4. QueueLength \in Nat /\ QueueLength > MaxUplink + MaxDrops
    BY AgentAssumption DEF RoomForAll
  <1> HIDE DEF due
  <1> QED BY <1>1, <1>2, <1>3, <1>4, RoomLeft

\* Every block of q is in r.
Keeps(q, r) == \A k \in 1 .. Len(q) : IsBlock(q[k]) => \E l \in 1 .. Len(r) : r[l] = q[k]

\* Sending an event takes none away.
LEMMA SendKeeps ==
  ASSUME NEW q, QueueTypeOK(q), NEW ev \in Events
  PROVE  Keeps(q, SendTo(q, ev)) /\ Keeps(q, q)
  <1>1. CASE Len(q) < QueueLength
    <2>1. /\ Len(q) \in Nat /\ Len(SendTo(q, ev)) = Len(q) + 1
          /\ \A k \in 1 .. Len(q) : SendTo(q, ev)[k] = q[k] /\ k \in 1 .. Len(q) + 1
      BY <1>1, AppendProperties, LenProperties DEF QueueTypeOK, SendTo
    <2> QED BY <2>1 DEF Keeps
  <1>2. CASE ~(Len(q) < QueueLength)
    BY <1>2 DEF SendTo, Keeps
  <1> QED BY <1>1, <1>2

\* Receiving an event takes that one away.
LEMMA TailKeeps ==
  ASSUME NEW q, QueueTypeOK(q), q # <<>>
  PROVE  \A k \in 1 .. Len(q) : k = 1 \/ \E l \in 1 .. Len(Tail(q)) : Tail(q)[l] = q[k]
  <1>1. /\ Len(q) \in Nat /\ Len(Tail(q)) = Len(q) - 1
        /\ \A k \in 1 .. Len(Tail(q)) : Tail(q)[k] = q[k + 1]
    BY HeadTailProperties, LenProperties DEF QueueTypeOK
  <1>2. \A k \in 1 .. Len(q) : k # 1 => k - 1 \in 1 .. Len(Tail(q)) /\ (k - 1) + 1 = k
    BY <1>1
  <1> QED BY <1>1, <1>2

\* Nothing is lost on the way from one queue to the next and the next.
LEMMA KeepsOn ==
  ASSUME NEW q, NEW r, NEW s, Keeps(q, r), Keeps(r, s)
  PROVE  Keeps(q, s)
  BY DEF Keeps

\* A step that neither takes nor frees a buffer, and loses no block.
LEMMA KeepsBuffers ==
  ASSUME NoBufferLeak, UNCHANGED <<dataBuffers, held>>, Keeps(queue, queue')
  PROVE  NoBufferLeak'
  <1> SUFFICES ASSUME NEW b \in Buffers, dataBuffers[b].used, held # b
               PROVE  OwnedByEvent(b)'
    BY DEF NoBufferLeak
  <1>1. PICK k \in 1 .. Len(queue) : IsBlock(queue[k]) /\ queue[k].buf = b
    BY DEF NoBufferLeak, OwnedByEvent, IsBlock
  <1>2. PICK l \in 1 .. Len(queue') : queue'[l] = queue[k]
    BY <1>1 DEF Keeps
  <1> QED BY <1>1, <1>2 DEF OwnedByEvent, IsBlock

\* The steps of the agent task that are not about a block.
LEMMA AgentKeeps ==
  ASSUME TypeOK, NoBufferLeak, AgentTask, ~DropFileBlock, ~TakeFileBlock, ~FileBlockHandled
  PROVE  NoBufferLeak'
  <1> USE TypeParts, OwnEvents
  <1>1. UNCHANGED <<dataBuffers, held>>
    BY DEF AgentTask, RequestJobDocument, JobRequested, DropJobDocument, EmptyJobDocument,
           SameJobDocument, UnparsedJobDocument, SelfTestJobDocument, NewJobDocument,
           FinalStatusSent, DownloadJobDocument, Download, DownloaderReady, RequestFileBlock,
           BlockRequested, CloseFile, ActivateImage, StatusSent, Suspend, Resume, taskVars, Memory
  <1>2. CASE pc = "receive"
    <2>1. queue # <<>> /\ ~IsBlock(Head(queue))
      BY <1>2
      DEF AgentTask, RequestJobDocument, JobRequested, DropJobDocument, EmptyJobDocument,
          SameJobDocument, UnparsedJobDocument, SelfTestJobDocument, NewJobDocument,
          FinalStatusSent, DownloadJobDocument, Download, DownloaderReady, RequestFileBlock,
          BlockRequested, CloseFile, ActivateImage, StatusSent, Suspend, Resume, Receive, IsBlock
    <2>2. \/ queue' = Tail(queue)
          \/ \E ev \in Events : queue' = SendTo(Tail(queue), ev)
      BY <1>2
      DEF AgentTask, RequestJobDocument, JobRequested, DropJobDocument, EmptyJobDocument,
          SameJobDocument, FileCreated, UnparsedJobDocument, SelfTestJobDocument, NewJobDocument,
          FinalStatusSent, DownloadJobDocument, Download, DownloaderReady, RequestFileBlock,
          BlockRequested, CloseFile, ActivateImage, StatusSent, Suspend, Resume,
          Dequeue, DequeueAndSend
    <2>3. Keeps(queue, Tail(queue))
      <3>1. Head(queue) = queue[1]
        BY <2>1, HeadTailProperties DEF QueueTypeOK
      <3> QED BY <2>1, <3>1, TailKeeps DEF Keeps
    <2>4. \A ev \in Events : Keeps(Tail(queue), SendTo(Tail(queue), ev))
      BY <2>1, TailType, SendKeeps
    <2>5. Keeps(queue, queue')
      BY <2>2, <2>3, <2>4, KeepsOn
    <2> QED BY <1>1, <2>5, KeepsBuffers
  <1>3. CASE pc # "receive"
    <2>1. UNCHANGED queue \/ \E ev \in Events : queue' = SendTo(queue, ev)
      BY <1>3
      DEF AgentTask, RequestJobDocument, JobRequested, DropJobDocument, EmptyJobDocument,
          SameJobDocument, FileCreated, UnparsedJobDocument, SelfTestJobDocument, NewJobDocument,
          FinalStatusSent, DownloadJobDocument, Download, DownloaderReady, RequestFileBlock,
          BlockRequested, CloseFile, ActivateImage, StatusSent, Suspend, Resume, Receive
    <2>2. Keeps(queue, queue')
      BY <2>1, SendKeeps, EventType
    <2> QED BY <1>1, <2>2, KeepsBuffers
  <1> QED BY <1>2, <1>3

\* The buffer of a block: handed on with the event, and freed in the end.
LEMMA BlocksKeep ==
  ASSUME TypeOK, BufferOwnership, NoBufferLeak, DropFileBlock \/ TakeFileBlock \/ FileBlockHandled
  PROVE  NoBufferLeak'
  <1> USE TypeParts
  <1>1. ASSUME NEW b \in Buffers, FreeBuffer(b)
        PROVE  \A c \in Buffers : dataBuffers'[c].used => c # b /\ dataBuffers[c].used
    BY <1>1 DEF FreeBuffer, RestTypeOK, Free
  <1>2. CASE DropFileBlock
    <2>1. /\ queue # <<>> /\ IsBlock(Head(queue)) /\ queue' = Tail(queue) /\ UNCHANGED held
          /\ FreeBuffer(Head(queue).buf)
      BY <1>2 DEF DropFileBlock, Receive, Dequeue, IsBlock, taskVars
    <2>2. Head(queue) = queue[1] /\ Head(queue).buf \in Buffers
      BY <2>1, HeadTailProperties, HeadOwns, OwnershipParts DEF QueueTypeOK
    <2> SUFFICES ASSUME NEW c \in Buffers, dataBuffers'[c].used, held # c
                 PROVE  OwnedByEvent(c)'
      BY <2>1 DEF NoBufferLeak
    <2>3. c # Head(queue).buf /\ dataBuffers[c].used
      BY <1>1, <2>1, <2>2
    <2>4. PICK k \in 1 .. Len(queue) : IsBlock(queue[k]) /\ queue[k].buf = c
      BY <2>3 DEF NoBufferLeak, OwnedByEvent, IsBlock
    <2>5. PICK l \in 1 .. Len(queue') : queue'[l] = queue[k]
      BY <2>1, <2>2, <2>3, <2>4, TailKeeps
    <2> QED BY <2>4, <2>5 DEF OwnedByEvent, IsBlock
  <1>3. CASE TakeFileBlock
    <2>1. /\ queue # <<>> /\ queue' = Tail(queue) /\ held' = Head(queue).buf /\ UNCHANGED dataBuffers
          /\ pc = "receive"
      BY <1>3 DEF TakeFileBlock, Receive, Dequeue, Memory
    <2>2. Head(queue) = queue[1]
      BY <2>1, HeadTailProperties DEF QueueTypeOK
    <2> SUFFICES ASSUME NEW c \in Buffers, dataBuffers[c].used, held' # c
                 PROVE  OwnedByEvent(c)'
      BY <2>1 DEF NoBufferLeak
    <2>3. held # c
      BY <2>1 DEF BufferOwnership
    <2>4. PICK k \in 1 .. Len(queue) : IsBlock(queue[k]) /\ queue[k].buf = c
      BY <2>3 DEF NoBufferLeak, OwnedByEvent, IsBlock
    <2>5. PICK l \in 1 .. Len(queue') : queue'[l] = queue[k]
      BY <2>1, <2>2, <2>4, TailKeeps
    <2> QED BY <2>4, <2>5 DEF OwnedByEvent, IsBlock
  <1>4. CASE FileBlockHandled
    <2>1. PICK id \in {"CloseFile", "RequestFileBlock"} : queue' = SendTo(queue, Event(id))
      BY <1>4 DEF FileBlockHandled
    <2>2. FreeBuffer(held) /\ held \in Buffers
      BY <1>4 DEF FileBlockHandled, BufferOwnership
    <2>3. Keeps(queue, queue')
      BY <2>1, OwnEvents, SendKeeps
    <2> SUFFICES ASSUME NEW c \in Buffers, dataBuffers'[c].used
                 PROVE  OwnedByEvent(c)'
      BY DEF NoBufferLeak
    <2>4. held # c /\ dataBuffers[c].used
      BY <1>1, <2>2
    <2>5. PICK k \in 1 .. Len(queue) : IsBlock(queue[k]) /\ queue[k].buf = c
      BY <2>4 DEF NoBufferLeak, OwnedByEvent, IsBlock
    <2>6. PICK l \in 1 .. Len(queue') : queue'[l] = queue[k]
      BY <2>3, <2>5 DEF Keeps
    <2> QED BY <2>5, <2>6 DEF OwnedByEvent, IsBlock
  <1> QED BY <1>2, <1>3, <1>4

\* A block that arrives takes a free buffer, and there is room for its event.
LEMMA ArrivalKeeps ==
  ASSUME SystemInv, ChainInv, RoomForAll, NoBufferLeak, DeliverBlock
  PROVE  NoBufferLeak'
  <1>1. QueueTypeOK(queue) /\ RestTypeOK
    BY Counts
  <1>2. CASE BlockRouted /\ ~NoBufferFree
    <2>1. Len(queue) < QueueLength
      BY BlockFindsRoom DEF DeliverBlock
    <2>2. PICK b \in Buffers :
            /\ dataBuffers' = [dataBuffers EXCEPT ![b] = [used |-> TRUE, data |-> Head(down).block]]
            /\ queue' = SendTo(queue, BlockEvent(b))
      BY <1>2 DEF DeliverBlock, BlockArrives
    <2>3. UNCHANGED held
      BY <1>2 DEF DeliverBlock, BlockArrives, taskVars
    <2>4. \A c \in Buffers : c # b => dataBuffers'[c] = dataBuffers[c]
      BY <1>1, <2>2 DEF RestTypeOK
    <2>5. /\ Len(queue) + 1 \in 1 .. Len(queue') /\ queue'[Len(queue) + 1] = BlockEvent(b)
          /\ Keeps(queue, queue')
      BY <1>1, <2>1, <2>2, OwnEvents, SendKeeps, AppendProperties, LenProperties DEF QueueTypeOK, SendTo
    <2> SUFFICES ASSUME NEW c \in Buffers, dataBuffers'[c].used, held # c
                 PROVE  OwnedByEvent(c)'
      BY <2>3 DEF NoBufferLeak
    <2>6. CASE c = b
      BY <2>5, <2>6 DEF OwnedByEvent, BlockEvent
    <2>7. CASE c # b
      <3>1. PICK k \in 1 .. Len(queue) : IsBlock(queue[k]) /\ queue[k].buf = c
        BY <2>4, <2>7 DEF NoBufferLeak, OwnedByEvent, IsBlock
      <3>2. PICK l \in 1 .. Len(queue') : queue'[l] = queue[k]
        BY <2>5, <3>1 DEF Keeps
      <3> QED BY <3>1, <3>2 DEF OwnedByEvent, IsBlock
    <2> QED BY <2>6, <2>7
  <1>3. CASE ~(BlockRouted /\ ~NoBufferFree)
    BY <1>3 DEF DeliverBlock, vars, agentVars, taskVars, NoBufferLeak, OwnedByEvent
  <1> QED BY <1>2, <1>3

\* The other steps send events, or clear all there is.
LEMMA SystemKeeps ==
  ASSUME SystemInv, ChainInv, BufferOwnership, RoomForAll, NoBufferLeak, [SystemNext]_systemVars
  PROVE  NoBufferLeak'
  <1> USE Counts, OwnEvents
  <1>1. TypeOK
    BY DEF SystemInv, SystemTypeOK
  <1>2. CASE AgentTask
    BY <1>1, <1>2, AgentKeeps, BlocksKeep
  <1>3. CASE StartDemo \/ Poll
    <2>1. UNCHANGED <<dataBuffers, held>> /\ \E ev \in Events : queue' = SendTo(queue, ev)
      BY <1>3, EventType
      DEF StartDemo, Poll, DemoSuspend, DemoResume, DemoSend, taskVars, Memory, EventIds
    <2> QED BY <2>1, SendKeeps, KeepsBuffers
  <1>4. CASE Reconnect \/ ResetFails \/ Serve \/ Drop \/ UNCHANGED systemVars
    <2>1. UNCHANGED <<dataBuffers, held, queue>>
      BY <1>4
      DEF Reconnect, Connect, ResetFails, Serve, ServeStartNext, ServeGetBlock, ServeUpdate,
          UplinkServed, Drop, Disconnect, systemVars, vars, agentVars, taskVars, Memory
    <2> QED BY <2>1 DEF NoBufferLeak, OwnedByEvent
  <1>5. CASE DeliverJob
    <2>1. CASE started
      <3>1. UNCHANGED <<dataBuffers, held>> /\ queue' = SendTo(queue, Event("ReceivedJobDocument"))
        BY <1>5, <2>1 DEF DeliverJob, JobDocArrives, taskVars
      <3> QED BY <3>1, SendKeeps, KeepsBuffers
    <2>2. CASE ~started
      BY <1>5, <2>2 DEF DeliverJob, vars, agentVars, taskVars, NoBufferLeak, OwnedByEvent
    <2> QED BY <2>1, <2>2
  <1>6. CASE DeliverBlock
    BY <1>6, ArrivalKeeps
  <1>7. CASE Crash \/ Reset
    BY <1>7 DEF Crash, Reset, Reboot, NoBufferLeak, Free
  <1> QED BY <1>2, <1>3, <1>4, <1>5, <1>6, <1>7 DEF SystemNext, Device, Deliver

\* Every buffer that getOtaDataEventBuffer marks used comes back, although
\* prvMqttDataCallback frees nothing when OtaSendEvent_FreeRTOS finds the queue full: with
\* room for all chains it does not, whatever is lost, late or reset.
THEOREM BuffersComeBackAlways ==
  ASSUME RoomForAll
  PROVE  SystemSpec => []NoBufferLeak
  <1>1. SystemInit => NoBufferLeak
    BY DEF SystemInit, Init, AgentInit, NoBufferLeak, Free
  <1>2. SystemInv /\ ChainInv /\ BufferOwnership /\ NoBufferLeak /\ [SystemNext]_systemVars
          => NoBufferLeak'
    BY SystemKeeps
  <1> QED BY <1>1, <1>2, ChainInvariant, SystemBuffersOwned, PTL DEF SystemSpec
=============================================================================
