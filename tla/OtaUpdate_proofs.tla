---------------------------- MODULE OtaUpdate_proofs ----------------------------
(***************************************************************************)
(* What holds of an update while the connection lasts from one reset to    *)
(* the next, whatever else fails: publishes, calls to the update service,  *)
(* the power. The handlers of processOTAEvents then pass one baton round:  *)
(* exactly one of the event queue, the agent task, the broker and the      *)
(* cloud has something to do for the update. Besides, the promise of       *)
(* UpdateJobs, where publishes and the calls that end a trial can be       *)
(* depended on.                                                            *)
(***************************************************************************)
EXTENDS OtaSystem_proofs

-----------------------------------------------------------------------------
(***************************************************************************)
(* The inductive invariant                                                 *)
(***************************************************************************)

\* Who has the baton, by the event, operation, message or request it consists in.
Baton ==
  IF queue # <<>> THEN queue[1].id
  ELSE IF pc # "receive" THEN pc
  ELSE IF down # <<>> THEN down[1].type
  ELSE IF uplink # <<>> /\ started THEN uplink[Len(uplink)].type
  ELSE "none"

JobSteps == {"RequestJobDocument", "askJob", "StartNext", "job", "ReceivedJobDocument"}
BlockSteps == {"RequestFileBlock", "askBlock", "GetBlock", "block", "ReceivedFileBlock", "write"}
EndSteps == {"CloseFile", "ActivateImage", "status"}

\* The status "InProgress" is the one publish that is not waited for: it may still
\* be under way when the reset comes, or when the next job is asked for.
UplinkShape ==
  uplink # <<>> =>
    \/ /\ Len(uplink) = 1 /\ uplink[1].type = "InProgress"
       /\ Baton \in {"RequestJobDocument", "askJob", "reset", "InProgress", "none"}
    \/ /\ queue = <<>> /\ pc = "receive"
       /\ \/ Len(uplink) = 1 /\ uplink[1].type # "InProgress"
          \/ Len(uplink) = 2 /\ uplink[1].type = "InProgress" /\ uplink[2].type = "StartNext"

OneThread ==
  /\ Len(queue) <= 1 /\ Len(down) <= 1
  /\ queue # <<>> => pc = "receive" /\ queue[1].id \in JobSteps \cup BlockSteps \cup EndSteps
  /\ down # <<>> => queue = <<>> /\ pc = "receive" /\ uplink = <<>>
  /\ UplinkShape
  /\ ~started => queue = <<>> /\ pc = "receive" /\ down = <<>> /\ (connected => uplink = <<>>)
  /\ started => connected /\ otaAgentState # "Suspended"

\* The cloud has one job under way.
OneJob == \A i, j \in Started : i = j

NoId == [job |-> NoJob, extent |-> 0]

\* The bytes of globalJobId spell the id of the job under way.
JobNamed == globalJobId.job \in Started /\ globalJobId.extent = IdLength[globalJobId.job]

\* Between the creation of the file and the next reset the job in hand is that one,
\* and the counters say how much of its file is in the slot.
InHand ==
  /\ ~started => ~sysCtx /\ globalJobId = NoId
  /\ fwu \in {"WRITING", "CANDIDATE", "STAGED"} => sysCtx
  /\ sysCtx =>
       /\ fwu \in {"WRITING", "CANDIDATE", "STAGED", "TRIAL"}
       /\ JobNamed /\ stream = globalJobId.job
       /\ fwu # "TRIAL" => jobFields.job = stream
       /\ currentBlockOffset = totalBytesReceived
       /\ totalBytesReceived = NumBlocks - numOfBlocksRemaining
       /\ fwu # "WRITING" => numOfBlocksRemaining = 0
       /\ ReportedAfterReset

InOrder ==
  fwu \in {"WRITING", "CANDIDATE", "STAGED"} =>
    \A i \in Slot : image[i] = IF i < totalBytesReceived THEN [job |-> stream, index |-> i] ELSE Erased

\* A document that arrives is the one of the job under way, and up to date.
Current(doc) ==
  doc.job \in Jobs => doc.job \in Started /\ doc.valid /\ doc.updatedBy = updatedBy[doc.job]

BlockInHand == [job |-> stream, index |-> currentBlockOffset]

\* What each step of an update finds.
JobBaton ==
  /\ Baton \in JobSteps => IF sysCtx THEN fwu = "TRIAL" ELSE globalJobId = NoId
  /\ Baton = "job" => Current(down[1].doc)
  /\ Baton = "ReceivedJobDocument" => Current(jobDocBuffer)
  /\ Baton = "subscribe" =>
        /\ ~sysCtx
        /\ JobNamed /\ stream = globalJobId.job /\ jobDocBuffer.job = stream
        /\ jobFields.job = stream
        /\ currentBlockOffset = 0 /\ totalBytesReceived = 0 /\ numOfBlocksRemaining = NumBlocks
  /\ Baton \in {"Succeeded", "Failed"} => ~sysCtx

BlockBaton ==
  /\ Baton \in BlockSteps => sysCtx /\ fwu \in {"WRITING", "TRIAL"}
  /\ Baton \in BlockSteps /\ fwu = "WRITING" => numOfBlocksRemaining > 0
  /\ Baton \in {"block", "ReceivedFileBlock", "write"} => fwu = "WRITING"
  /\ Baton = "GetBlock" => uplink[1].job = stream /\ uplink[1].arg = currentBlockOffset
  /\ Baton = "block" => down[1].block = BlockInHand
  /\ Baton = "ReceivedFileBlock" => dataBuffers[queue[1].buf].data = BlockInHand
  /\ Baton = "write" => dataBuffers[held].data = BlockInHand

EndBaton ==
  /\ Baton \in EndSteps => sysCtx /\ fwu \in {"WRITING", "CANDIDATE"} /\ numOfBlocksRemaining = 0
  /\ Baton = "CloseFile" => fwu = "WRITING"
  /\ Baton = "reset" => sysCtx /\ fwu = "STAGED"

UpdateInv ==
  /\ OneThread /\ OneJob /\ InHand /\ InOrder
  /\ JobBaton /\ BlockBaton /\ EndBaton
  /\ NoBufferLeak

-----------------------------------------------------------------------------
(***************************************************************************)
(* Sequences of at most one element                                        *)
(***************************************************************************)

\* A sequence that is not empty and has at most one element is its first element.
LEMMA OneElement ==
  ASSUME NEW S, NEW s \in Seq(S), Len(s) <= 1, s # <<>>
  PROVE  s = <<s[1]>> /\ Len(s) = 1 /\ Head(s) = s[1] /\ Tail(s) = <<>> /\ s[1] \in S
<1>1. Len(s) \in Nat /\ Len(s) # 0
  BY LenProperties, EmptySeq
<1>2. Len(s) = 1
  <2> DEFINE l == Len(s)
  <2>1. l \in Nat /\ l # 0 /\ l <= 1
    BY <1>1
  <2> HIDE DEF l
  <2>2. l = 1
    BY <2>1
  <2>3. QED  BY <2>2 DEF l
<1>3. s \in [1 .. 1 -> S]
  BY <1>2, LenProperties
<1>4. Head(s) = s[1] /\ Tail(s) = <<>>
  <2>1. Tail(s) \in Seq(S) /\ Len(Tail(s)) = 0 /\ Head(s) = s[1]
    BY <1>2, HeadTailProperties
  <2>2. QED  BY <2>1, EmptySeq
<1>5. s = <<s[1]>>
  <2>1. <<s[1]>> \in [1 .. 1 -> S]
    BY <1>3
  <2>2. QED  BY <1>3, <2>1
<1>6. QED  BY <1>2, <1>3, <1>4, <1>5

\* A sequence written with one element has that element.
LEMMA Singleton ==
  ASSUME NEW e
  PROVE  <<e>> # <<>> /\ Len(<<e>>) = 1 /\ <<e>>[1] = e
  OBVIOUS

\* The only event of the queue is sent at once.
LEMMA SendToEmpty ==
  ASSUME NEW ev
  PROVE  SendTo(<<>>, ev) = <<ev>>
  BY AgentAssumption, EmptySeq DEF SendTo

\* A publish that is accepted is the last one.
LEMMA Accepted ==
  ASSUME UplinkTypeOK(uplink), NEW m, prvMQTTPublish(m)
  PROVE  \/ UNCHANGED uplink
         \/ uplink = <<>> /\ uplink' = <<m>>
         \/ /\ uplink # <<>> /\ uplink' # <<>> /\ Len(uplink') = Len(uplink) + 1
            /\ uplink'[Len(uplink')] = m /\ uplink'[1] = uplink[1]
<1>1. CASE uplink' = Append(uplink, m)
  <2>1. uplink \in Seq(Publishes \cup {m})
    BY DEF UplinkTypeOK
  <2>2. /\ Len(uplink') = Len(uplink) + 1 /\ Len(uplink) \in Nat /\ uplink'[Len(uplink) + 1] = m
        /\ \A k \in 1 .. Len(uplink) : uplink'[k] = uplink[k]
        /\ uplink' # <<>>
    BY <1>1, <2>1, AppendProperties, LenProperties
  <2>3. CASE uplink = <<>>
    BY <1>1, <2>3
  <2>4. CASE uplink # <<>>
    <3>1. Len(uplink) # 0
      BY <2>1, <2>4, EmptySeq
    <3>2. 1 \in 1 .. Len(uplink)
      BY <2>2, <3>1
    <3>3. QED  BY <2>2, <2>4, <3>2
  <2>5. QED  BY <2>3, <2>4
<1>2. QED  BY <1>1 DEF prvMQTTPublish

\* The publish that is served is the first one.
LEMMA Served ==
  ASSUME UplinkTypeOK(uplink), UplinkServed(1)
  PROVE  /\ uplink # <<>> /\ Len(uplink') = Len(uplink) - 1
         /\ Len(uplink) = 1 => uplink' = <<>>
         /\ Len(uplink) = 2 => uplink' = <<uplink[2]>>
<1>1. Len(uplink) \in Nat /\ 1 \in 1 .. Len(uplink)
  BY LenProperties DEF UplinkServed, UplinkTypeOK
<1>2. uplink # <<>>
  BY <1>1, EmptySeq
<1>3. uplink' = [k \in 1 .. Len(uplink) - 1 |-> IF k < 1 THEN uplink[k] ELSE uplink[k + 1]]
  BY DEF UplinkServed, Without
<1>4. Len(uplink') = Len(uplink) - 1
  BY <1>1, <1>3
<1>5. CASE Len(uplink) = 1
  <2>1. uplink' \in Seq(Publishes) /\ Len(uplink') = 0
    <3>1. uplink' = Without(uplink, 1)
      BY DEF UplinkServed
    <3>2. UplinkTypeOK(Without(uplink, 1))
      BY <1>1, WithoutType
    <3>3. uplink' \in Seq(Publishes)
      BY <3>1, <3>2 DEF UplinkTypeOK
    <3>4. QED  BY <1>4, <1>5, <3>3
  <2>2. QED  BY <1>2, <1>4, <1>5, <2>1, EmptySeq
<1>6. CASE Len(uplink) = 2
  <2>1. uplink' = [k \in 1 .. 1 |-> IF k < 1 THEN uplink[k] ELSE uplink[k + 1]]
    BY <1>3, <1>6
  <2>2. uplink' = [k \in 1 .. 1 |-> uplink[2]]
    BY <2>1
  <2>3. QED  BY <1>2, <1>4, <1>6, <2>2
<1>7. QED  BY <1>2, <1>4, <1>5, <1>6
-----------------------------------------------------------------------------
(***************************************************************************)
(* How the baton passes                                                    *)
(***************************************************************************)

\* The agent task takes the only event there is.
LEMMA Receives ==
  ASSUME SystemInv, OneThread, NEW id, Receive(id)
  PROVE  /\ Baton = id /\ queue[1].id = id /\ Head(queue) = queue[1] /\ Tail(queue) = <<>>
         /\ id \in JobSteps \cup BlockSteps \cup EndSteps
         /\ pc = "receive" /\ down = <<>> /\ started /\ connected /\ otaAgentState # "Suspended"
         /\ \/ uplink = <<>>
            \/ id = "RequestJobDocument" /\ Len(uplink) = 1 /\ uplink[1].type = "InProgress"
<1>1. queue \in Seq(Events) /\ Len(queue) <= 1 /\ queue # <<>>
  BY TypeParts DEF SystemInv, SystemTypeOK, Receive, OneThread, QueueTypeOK
<1>2. queue[1] = Head(queue) /\ Tail(queue) = <<>> /\ queue[1] \in Events
  BY <1>1, OneElement
<1>3. Baton = id /\ id \in EventIds
  BY <1>1, <1>2 DEF Baton, Receive, Events
<1>4. QED
  BY <1>1, <1>2, <1>3
  DEF OneThread, UplinkShape, Receive, EventIds, JobSteps, BlockSteps, EndSteps

\* The agent task ends an operation.
LEMMA Resumes ==
  ASSUME SystemInv, OneThread, pc # "receive"
  PROVE  /\ Baton = pc /\ queue = <<>> /\ down = <<>>
         /\ started /\ connected /\ otaAgentState # "Suspended"
         /\ \/ uplink = <<>>
            \/ pc \in {"askJob", "reset"} /\ Len(uplink) = 1 /\ uplink[1].type = "InProgress"
  BY TypeParts DEF SystemInv, SystemTypeOK, RestTypeOK, PcValues, OneThread, UplinkShape, Baton

\* A message reaches the device.
LEMMA Arrives ==
  ASSUME SystemInv, OneThread, down # <<>>
  PROVE  /\ Baton = down[1].type /\ Head(down) = down[1] /\ Tail(down) = <<>> /\ down[1] \in Messages
         /\ queue = <<>> /\ pc = "receive" /\ uplink = <<>>
         /\ started /\ connected /\ otaAgentState # "Suspended"
<1>1. down \in Seq(Messages) /\ Len(down) <= 1
  BY DEF SystemInv, SystemTypeOK, OneThread
<1>2. Head(down) = down[1] /\ Tail(down) = <<>> /\ down[1] \in Messages
  BY <1>1, OneElement
<1>3. QED  BY <1>2 DEF OneThread, Baton

\* The services take a publish.
LEMMA Serves ==
  ASSUME SystemInv, OneThread, UplinkServed(1)
  PROVE  /\ uplink # <<>> /\ down = <<>>
         /\ Len(uplink) \in 1 .. 2 /\ Len(uplink') = Len(uplink) - 1
         /\ Len(uplink) = 1 => uplink' = <<>>
         /\ Len(uplink) = 2 =>
              /\ uplink' = <<uplink[2]>>
              /\ uplink[1].type = "InProgress" /\ uplink[2].type = "StartNext"
<1>1. UplinkTypeOK(uplink)
  BY TypeParts DEF SystemInv, SystemTypeOK
<1>2. QED  BY <1>1, Served DEF OneThread, UplinkShape

ToDevice ==
  /\ started' /\ connected' /\ otaAgentState' # "Suspended"
  /\ down' = <<>>

\* After a step that leaves one event in the queue, the queue has the baton.
LEMMA ToQueue ==
  ASSUME NEW e, queue' = <<e>>, e.id \in JobSteps \cup BlockSteps \cup EndSteps,
         pc' = "receive", ToDevice,
         \/ uplink' = <<>>
         \/ e.id = "RequestJobDocument" /\ Len(uplink') = 1 /\ uplink'[1].type = "InProgress"
  PROVE  OneThread' /\ Baton' = e.id
<1>1. queue' # <<>> /\ Len(queue') = 1 /\ queue'[1] = e
  OBVIOUS
<1>2. Baton' = e.id
  BY <1>1 DEF Baton
<1>3. Len(down') = 0
  BY DEF ToDevice
<1>4. QED  BY <1>1, <1>2, <1>3 DEF OneThread, UplinkShape, ToDevice

\* After a step that starts an operation of the agent task, that task has it.
LEMMA ToTask ==
  ASSUME queue' = <<>>, pc' # "receive", ToDevice,
         \/ uplink' = <<>>
         \/ pc' \in {"askJob", "reset"} /\ Len(uplink') = 1 /\ uplink'[1].type = "InProgress"
  PROVE  OneThread' /\ Baton' = pc'
<1>1. Baton' = pc'
  BY DEF Baton
<1>2. Len(queue') = 0 /\ Len(down') = 0
  BY DEF ToDevice
<1>3. QED  BY <1>1, <1>2 DEF OneThread, UplinkShape, ToDevice

\* After a step that leaves a request with the broker, the request is the baton.
LEMMA ToUplink ==
  ASSUME queue' = <<>>, pc' = "receive", ToDevice, uplink' # <<>>,
         \/ Len(uplink') = 1
         \/ Len(uplink') = 2 /\ uplink'[1].type = "InProgress" /\ uplink'[2].type = "StartNext"
  PROVE  OneThread' /\ Baton' = uplink'[Len(uplink')].type
<1>1. Baton' = uplink'[Len(uplink')].type
  BY DEF Baton, ToDevice
<1>2. Len(queue') = 0 /\ Len(down') = 0
  BY DEF ToDevice
<1>3. QED  BY <1>1, <1>2 DEF OneThread, UplinkShape, ToDevice

\* After a step that leaves an answer under way, the answer is the baton.
LEMMA ToDown ==
  ASSUME NEW m, queue' = <<>>, pc' = "receive", uplink' = <<>>, down' = <<m>>,
         started', connected', otaAgentState' # "Suspended"
  PROVE  OneThread' /\ Baton' = m.type
<1>1. down' # <<>> /\ Len(down') = 1 /\ down'[1] = m /\ Len(queue') = 0
  OBVIOUS
<1>2. QED  BY <1>1 DEF OneThread, UplinkShape, Baton

\* After a step that leaves nothing to do, nobody has it: the update waits for a reset.
LEMMA ToNobody ==
  ASSUME queue' = <<>>, pc' = "receive", uplink' = <<>>, down' = <<>>,
         started' => connected' /\ otaAgentState' # "Suspended"
  PROVE  OneThread' /\ Baton' = "none"
<1>1. Len(queue') = 0 /\ Len(down') = 0
  OBVIOUS
<1>2. QED  BY <1>1 DEF OneThread, UplinkShape, Baton
-----------------------------------------------------------------------------
(***************************************************************************)
(* What a step leaves alone                                                *)
(***************************************************************************)

\* A step that does not touch the update keeps what is known of it.
LEMMA SameUpdate ==
  ASSUME UpdateInv, UNCHANGED <<palVars, countVars, stream, globalJobId, execution, started>>,
         UNCHANGED jobFields \/ (sysCtx => fwu = "TRIAL"),
         sysCtx => ReportedAfterReset'
  PROVE  OneJob' /\ InHand' /\ InOrder'
<1>1. UNCHANGED Started
  BY DEF Started
<1>2. OneJob'
  BY <1>1 DEF UpdateInv, OneJob
<1>3. InHand'
  BY <1>1 DEF UpdateInv, InHand, JobNamed, palVars, countVars
<1>4. InOrder'
  BY DEF UpdateInv, InOrder, palVars, countVars
<1>5. QED  BY <1>2, <1>3, <1>4

\* No result is on its way when nothing is, or when it was not before.
LEMMA Unreported ==
  ASSUME UpdateInv, sysCtx \/ uplink' = <<>>, uplink' \in {uplink, <<>>}
  PROVE  ReportedAfterReset'
<1>1. CASE uplink' = <<>>
  <2>1. DOMAIN uplink' = {}
    BY <1>1
  <2>2. QED  BY <2>1 DEF ReportedAfterReset
<1>2. CASE sysCtx /\ uplink' = uplink
  BY <1>2 DEF UpdateInv, InHand, JobNamed, ReportedAfterReset
<1>3. QED  BY <1>1, <1>2

\* A buffer that belongs to no event stays that way until a block arrives.
LEMMA BuffersQuiet ==
  ASSUME UpdateInv, SystemInv, Baton # "ReceivedFileBlock", UNCHANGED <<dataBuffers, held>>
  PROVE  NoBufferLeak'
<1>1. queue \in Seq(Events) /\ Len(queue) <= 1
  BY TypeParts DEF SystemInv, SystemTypeOK, QueueTypeOK, UpdateInv, OneThread
<1>2. ASSUME NEW b \in Buffers, OwnedByEvent(b) PROVE FALSE
  <2>1. PICK k \in 1 .. Len(queue) : queue[k].id = "ReceivedFileBlock"
    BY <1>2 DEF OwnedByEvent
  <2>2. k = 1 /\ queue # <<>>
    BY <1>1, <2>1, LenProperties, EmptySeq
  <2>3. QED  BY <2>1, <2>2 DEF Baton
<1>3. QED  BY <1>2 DEF UpdateInv, NoBufferLeak

\* What the invariant asks when nothing is left to do for the update.
LEMMA NobodyKeeps ==
  ASSUME OneThread', Baton' = "none", OneJob', InHand', InOrder', NoBufferLeak'
  PROVE  UpdateInv'
  BY DEF UpdateInv, JobBaton, BlockBaton, EndBaton, JobSteps, BlockSteps, EndSteps

-----------------------------------------------------------------------------
(***************************************************************************)
(* The agent task: job documents                                           *)
(***************************************************************************)
\* requestJobDocumentHandler is entered.
LEMMA RequestJobDocumentKeeps ==
  ASSUME SystemInv, UpdateInv, RequestJobDocument, UNCHANGED cloudVars
  PROVE  UpdateInv'
<1>1. /\ Baton = "RequestJobDocument" /\ queue' = <<>> /\ pc' = "askJob" /\ ToDevice
      /\ uplink' # <<>> => Len(uplink') = 1 /\ uplink'[1].type = "InProgress"
      /\ UNCHANGED <<started, uplink, palVars, countVars, stream, globalJobId, jobFields, dataBuffers, held,
                     execution>>
  BY Receives
  DEF RequestJobDocument, UpdateInv, Dequeue, Memory, jobVars, netVars, cloudVars, ToDevice
<1>2. OneThread' /\ Baton' = "askJob"
  BY <1>1, ToTask
<1>3. OneJob' /\ InHand' /\ InOrder' /\ NoBufferLeak'
  BY <1>1, SameUpdate, Unreported, BuffersQuiet
<1>4. JobBaton' /\ BlockBaton' /\ EndBaton'
  BY <1>1, <1>2
  DEF UpdateInv, JobBaton, BlockBaton, EndBaton, JobSteps, BlockSteps, EndSteps, palVars
<1>5. QED  BY <1>2, <1>3, <1>4 DEF UpdateInv

\* requestJobDocumentHandler asks for a job, or the publish fails.
LEMMA JobRequestedKeeps ==
  ASSUME SystemInv, UpdateInv, JobRequested, UNCHANGED cloudVars
  PROVE  UpdateInv'
<1> DEFINE m == Message("StartNext", NoJob, 0)
<1>1. pc = "askJob" /\ pc # "receive" /\ prvMQTTPublish(m) /\ UplinkTypeOK(uplink)
  BY TypeParts DEF JobRequested, SystemInv, SystemTypeOK
<1>2. /\ Baton = "askJob" /\ queue' = <<>> /\ pc' = "receive" /\ ToDevice
      /\ UNCHANGED <<started, palVars, countVars, stream, globalJobId, jobFields, dataBuffers, held, execution>>
  BY <1>1, Resumes
  DEF JobRequested, UpdateInv, Memory, jobVars, cloudVars, ToDevice
<1>3. m.type = "StartNext"
  BY DEF Message
<1>4. uplink # <<>> => Len(uplink) = 1 /\ uplink[1].type = "InProgress"
  BY <1>1, Resumes DEF UpdateInv
<1> HIDE DEF m
<1>5. CASE UNCHANGED uplink
  <2>1. CASE uplink = <<>>
    <3>1. OneThread' /\ Baton' = "none"
      BY <1>2, <1>5, <2>1, ToNobody DEF ToDevice
    <3>2. OneJob' /\ InHand' /\ InOrder' /\ NoBufferLeak'
      BY <1>2, <1>5, <2>1, SameUpdate, Unreported, BuffersQuiet
    <3>3. QED  BY <3>1, <3>2, NobodyKeeps
  <2>2. CASE uplink # <<>>
    <3>1. OneThread' /\ Baton' = "InProgress"
      BY <1>2, <1>4, <1>5, <2>2, ToUplink
    <3>2. OneJob' /\ InHand' /\ InOrder' /\ NoBufferLeak'
      BY <1>2, <1>5, SameUpdate, Unreported, BuffersQuiet
    <3>3. JobBaton' /\ BlockBaton' /\ EndBaton'
      BY <3>1 DEF JobBaton, BlockBaton, EndBaton, JobSteps, BlockSteps, EndSteps
    <3>4. QED  BY <3>1, <3>2, <3>3 DEF UpdateInv
  <2>3. QED  BY <2>1, <2>2
<1>6. CASE uplink' # uplink
  <2>1. /\ uplink' # <<>> /\ uplink'[Len(uplink')] = m
        /\ \/ Len(uplink') = 1
           \/ Len(uplink') = 2 /\ uplink'[1].type = "InProgress" /\ uplink'[2] = m
    <3>1. CASE uplink = <<>> /\ uplink' = <<m>>
      BY <3>1, Singleton
    <3>2. CASE /\ uplink # <<>> /\ uplink' # <<>> /\ Len(uplink') = Len(uplink) + 1
               /\ uplink'[Len(uplink')] = m /\ uplink'[1] = uplink[1]
      <4>1. Len(uplink') = 2
        <5>1. Len(uplink) = 1
          BY <1>4, <3>2
        <5>2. Len(uplink') = 1 + 1
          BY <3>2, <5>1
        <5>3. QED  BY <5>2
      <4>2. uplink'[2] = m
        BY <3>2, <4>1
      <4>3. uplink'[1].type = "InProgress"
        BY <1>4, <3>2
      <4>4. QED  BY <3>2, <4>1, <4>2, <4>3
    <3>3. QED  BY <1>1, <1>6, <3>1, <3>2, Accepted
  <2>2. OneThread' /\ Baton' = "StartNext"
    BY <1>2, <1>3, <2>1, ToUplink
  <2>3. sysCtx => ReportedAfterReset'
    <3>1. \A k \in DOMAIN uplink' : uplink'[k].type \in {"InProgress", "StartNext"}
      BY <1>3, <2>1
    <3>2. QED  BY <3>1 DEF ReportedAfterReset
  <2>4. OneJob' /\ InHand' /\ InOrder' /\ NoBufferLeak'
    BY <1>2, <2>3, SameUpdate, BuffersQuiet
  <2>5. JobBaton' /\ BlockBaton' /\ EndBaton'
    BY <1>2, <2>2
    DEF UpdateInv, JobBaton, BlockBaton, EndBaton, JobSteps, BlockSteps, EndSteps, palVars
  <2>6. QED  BY <2>2, <2>4, <2>5 DEF UpdateInv
<1>7. QED  BY <1>5, <1>6

\* There is no job: nothing more happens.
LEMMA EmptyJobDocumentKeeps ==
  ASSUME SystemInv, UpdateInv, EmptyJobDocument, UNCHANGED cloudVars
  PROVE  UpdateInv'
<1>1. /\ Baton = "ReceivedJobDocument" /\ queue' = <<>> /\ pc' = "receive" /\ ToDevice
      /\ uplink = <<>> /\ UNCHANGED uplink
      /\ UNCHANGED <<started, palVars, countVars, stream, globalJobId, dataBuffers, held, execution>>
  BY Receives DEF EmptyJobDocument, UpdateInv, Dequeue, netVars, cloudVars, ToDevice
<1>2. OneThread' /\ Baton' = "none"
  BY <1>1, ToNobody DEF ToDevice
<1>3. sysCtx => fwu = "TRIAL"
  BY <1>1 DEF UpdateInv, JobBaton, JobSteps
<1>4. OneJob' /\ InHand' /\ InOrder' /\ NoBufferLeak'
  BY <1>1, <1>3, SameUpdate, Unreported, BuffersQuiet
<1>5. QED  BY <1>2, <1>4, NobodyKeeps

\* The document of the job in hand: it can only come after an installation at once,
\* when the image on trial has no reset to wait for.
LEMMA SameJobDocumentKeeps ==
  ASSUME SystemInv, UpdateInv, SameJobDocument, UNCHANGED cloudVars
  PROVE  UpdateInv'
<1>1. /\ Baton = "ReceivedJobDocument" /\ Tail(queue) = <<>> /\ pc' = "receive" /\ ToDevice
      /\ uplink = <<>> /\ UNCHANGED uplink
      /\ UNCHANGED <<started, palVars, countVars, stream, globalJobId, dataBuffers, held, execution>>
  BY Receives DEF SameJobDocument, FileCreated, UpdateInv, netVars, cloudVars, ToDevice
<1> DEFINE ev == Event("RequestFileBlock")
<1>7. queue' = <<ev>>
  <2>1. queue' = SendTo(<<>>, ev)
    BY <1>1 DEF SameJobDocument, FileCreated
  <2>2. QED  BY <2>1, SendToEmpty
<1>2. OneThread' /\ Baton' = "RequestFileBlock"
  BY <1>1, <1>7, ToQueue DEF Event, BlockSteps
<1>3. sysCtx /\ fwu = "TRIAL"
  BY <1>1, PalAssumption DEF UpdateInv, JobBaton, JobSteps, SameJobDocument, NoId
<1>4. OneJob' /\ InHand' /\ InOrder' /\ NoBufferLeak'
  BY <1>1, <1>3, SameUpdate, Unreported, BuffersQuiet
<1>5. JobBaton' /\ BlockBaton' /\ EndBaton'
  BY <1>1, <1>2, <1>3 DEF JobBaton, BlockBaton, EndBaton, JobSteps, BlockSteps, EndSteps, palVars
<1>6. QED  BY <1>2, <1>4, <1>5 DEF UpdateInv

\* A document of another job is one of a job that the device has no image of yet.
LEMMA NewJobFound ==
  ASSUME SystemInv, UpdateInv, NewJobDocument, pc' # "receive", UNCHANGED <<cloudVars, image>>,
         pc' \notin JobSteps \cup BlockSteps \cup EndSteps
  PROVE  /\ OneThread' /\ Baton' = pc' /\ NoBufferLeak' /\ OneJob'
         /\ ~sysCtx /\ fwu \notin {"WRITING", "CANDIDATE", "STAGED"} /\ started'
         /\ JobNamed' /\ globalJobId'.job = jobDocBuffer'.job
         /\ jobDocBuffer.job = jobDocBuffer'.job
<1>1. /\ Baton = "ReceivedJobDocument" /\ queue' = <<>> /\ ToDevice /\ started'
      /\ uplink' = <<>>
      /\ UNCHANGED <<dataBuffers, held, execution, jobDocBuffer>>
      /\ jobDocBuffer.job \in Jobs /\ jobDocBuffer.job # globalJobId.job
      /\ globalJobId' = [job |-> jobDocBuffer.job,
                          extent |-> IF IdLength[jobDocBuffer.job] > globalJobId.extent
                                     THEN IdLength[jobDocBuffer.job] ELSE globalJobId.extent]
  BY Receives DEF NewJobDocument, UpdateInv, Dequeue, netVars, cloudVars, ToDevice
<1>2. OneThread' /\ Baton' = pc'
  BY <1>1, ToTask
<1>3. NoBufferLeak'
  BY <1>1, BuffersQuiet
<1>4. jobDocBuffer.job \in Started /\ UNCHANGED Started
  BY <1>1 DEF UpdateInv, JobBaton, Current, Started
<1>5. ~sysCtx
  BY <1>1, <1>4 DEF UpdateInv, InHand, JobNamed, OneJob
<1>6. OneJob'
  BY <1>4 DEF UpdateInv, OneJob
<1>7. JobNamed'
  <2>1. globalJobId.extent = 0
    BY <1>1, <1>5 DEF UpdateInv, JobBaton, JobSteps, NoId
  <2>2. IdLength[jobDocBuffer.job] \in Nat \ {0}
    BY <1>1, AgentAssumption
  <2>3. QED  BY <1>1, <1>4, <2>1, <2>2 DEF JobNamed
<1>8. QED  BY <1>1, <1>2, <1>3, <1>5, <1>6, <1>7 DEF UpdateInv, InHand

\* The services send no document that the parser refuses.
LEMMA NotUnparsed ==
  ASSUME SystemInv, UpdateInv, UnparsedJobDocument
  PROVE  FALSE
<1>1. Baton = "ReceivedJobDocument"
  BY Receives DEF UnparsedJobDocument, NewJobDocument, UpdateInv
<1>2. QED  BY <1>1 DEF UpdateInv, JobBaton, Current, UnparsedJobDocument, NewJobDocument

\* The image on trial is judged.
LEMMA SelfTestJobDocumentKeeps ==
  ASSUME SystemInv, UpdateInv, SelfTestJobDocument, UNCHANGED cloudVars
  PROVE  UpdateInv'
<1>1. /\ NewJobDocument /\ pc' \in {"Succeeded", "Failed"} /\ UNCHANGED <<image, sysCtx>>
      /\ fwu' \in {"TRIAL", "READY", "UPDATED", "REJECTED"}
  BY DEF SelfTestJobDocument, PendingCommit, otaPal_SetAccepted, otaPal_SetRejected
<1>2. /\ OneThread' /\ Baton' \in {"Succeeded", "Failed"} /\ NoBufferLeak' /\ OneJob'
      /\ ~sysCtx' /\ started'
  BY <1>1, NewJobFound DEF JobSteps, BlockSteps, EndSteps
<1>3. InHand' /\ InOrder'
  BY <1>1, <1>2 DEF InHand, JobNamed, InOrder
<1>4. JobBaton' /\ BlockBaton' /\ EndBaton'
  BY <1>2 DEF JobBaton, BlockBaton, EndBaton, JobSteps, BlockSteps, EndSteps
<1>5. QED  BY <1>2, <1>3, <1>4 DEF UpdateInv

\* initMqttDownloader starts the counters from the beginning of the file.
LEMMA DownloadJobDocumentKeeps ==
  ASSUME SystemInv, UpdateInv, DownloadJobDocument, UNCHANGED cloudVars
  PROVE  UpdateInv'
<1>1. /\ NewJobDocument /\ pc' = "subscribe" /\ UNCHANGED palVars /\ stream' = jobDocBuffer.job
      /\ currentBlockOffset' = 0 /\ totalBytesReceived' = 0 /\ numOfBlocksRemaining' = NumBlocks
      /\ jobFields'.job = jobDocBuffer.job
  BY DEF DownloadJobDocument, Download
<1>2. /\ OneThread' /\ Baton' = "subscribe" /\ NoBufferLeak' /\ OneJob'
      /\ ~sysCtx' /\ fwu' \notin {"WRITING", "CANDIDATE", "STAGED"} /\ started'
      /\ JobNamed' /\ globalJobId'.job = stream' /\ jobDocBuffer'.job = stream'
      /\ jobFields'.job = stream'
  BY <1>1, NewJobFound DEF JobSteps, BlockSteps, EndSteps, palVars
<1>3. InHand' /\ InOrder'
  BY <1>2 DEF InHand, JobNamed, InOrder
<1>4. JobBaton' /\ BlockBaton' /\ EndBaton'
  BY <1>1, <1>2 DEF JobBaton, BlockBaton, EndBaton, JobSteps, BlockSteps, EndSteps
<1>5. QED  BY <1>2, <1>3, <1>4 DEF UpdateInv

\* A step after which the only thing to do is the publish m, if it was accepted.
LEMMA PublishPasses ==
  ASSUME UplinkTypeOK(uplink), NEW m, prvMQTTPublish(m), uplink = <<>>,
         queue' = <<>>, pc' = "receive", ToDevice
  PROVE  \/ OneThread' /\ Baton' = "none" /\ uplink' = <<>>
         \/ OneThread' /\ Baton' = m.type /\ uplink' = <<m>>
<1>1. CASE uplink' = <<>>
  BY <1>1, ToNobody DEF ToDevice
<1>2. CASE uplink' = <<m>>
  <2>1. uplink' # <<>> /\ Len(uplink') = 1 /\ uplink'[Len(uplink')] = m
    BY <1>2, Singleton
  <2>2. QED  BY <1>2, <2>1, ToUplink
<1>3. QED  BY <1>1, <1>2, Accepted

\* sendFinalJobStatusMessage: the image is judged, and the context of the download
\* went with the reset before.
LEMMA FinalStatusKeeps ==
  ASSUME SystemInv, UpdateInv, NEW status \in {"Succeeded", "Failed"}, FinalStatusSent(status),
         UNCHANGED cloudVars
  PROVE  UpdateInv'
<1> DEFINE m == Message(status, AddressedJob, 0)
<1>1. pc = status /\ pc # "receive" /\ prvMQTTPublish(m) /\ UplinkTypeOK(uplink)
  BY TypeParts DEF FinalStatusSent, SystemInv, SystemTypeOK
<1>2. /\ Baton = status /\ queue' = <<>> /\ pc' = "receive" /\ ToDevice /\ uplink = <<>>
      /\ UNCHANGED <<palVars, dataBuffers, held, execution>>
  BY <1>1, Resumes DEF FinalStatusSent, UpdateInv, cloudVars, ToDevice
<1>3. ~sysCtx /\ ~sysCtx' /\ UNCHANGED fwu
  BY <1>2 DEF UpdateInv, JobBaton, palVars
<1>4. OneThread' /\ Baton' \in {"none", status}
  BY <1>1, <1>2, PublishPasses DEF Message
<1>5. OneJob'
  BY <1>2 DEF UpdateInv, OneJob, Started
<1>6. InHand' /\ InOrder'
  BY <1>2, <1>3 DEF UpdateInv, InHand, JobNamed, InOrder, ToDevice
<1>7. NoBufferLeak'
  BY <1>2, BuffersQuiet
<1>8. JobBaton' /\ BlockBaton' /\ EndBaton'
  BY <1>3, <1>4 DEF JobBaton, BlockBaton, EndBaton, JobSteps, BlockSteps, EndSteps
<1>9. QED  BY <1>4, <1>5, <1>6, <1>7, <1>8 DEF UpdateInv

\* The SUBSCRIBE is over and the file is created, or it is not.
LEMMA DownloaderReadyKeeps ==
  ASSUME SystemInv, UpdateInv, DownloaderReady, UNCHANGED cloudVars
  PROVE  UpdateInv'
<1>1. /\ Baton = "subscribe" /\ queue = <<>> /\ pc' = "receive" /\ uplink = <<>> /\ UNCHANGED uplink
      /\ started' /\ connected' /\ down' = <<>>
      /\ otaAgentState # "Suspended"
      /\ UNCHANGED <<stream, globalJobId, countVars, dataBuffers, held, execution, jobDocBuffer>>
  <2>1. pc = "subscribe" /\ pc # "receive"
    BY DEF DownloaderReady
  <2>2. QED  BY <2>1, Resumes DEF DownloaderReady, UpdateInv, cloudVars
<1>2. /\ ~sysCtx /\ JobNamed /\ stream = globalJobId.job /\ jobFields.job = stream
      /\ currentBlockOffset = 0 /\ totalBytesReceived = 0 /\ numOfBlocksRemaining = NumBlocks
  BY <1>1 DEF UpdateInv, JobBaton
<1>8. jobFields'.job = jobFields.job
  BY TypeParts DEF DownloaderReady, SystemInv, SystemTypeOK, RestTypeOK
<1>3. OneJob' /\ NoBufferLeak' /\ UNCHANGED Started /\ ReportedAfterReset'
  BY <1>1, BuffersQuiet, Unreported DEF UpdateInv, OneJob, Started
<1>4. CASE UNCHANGED palVars /\ UNCHANGED <<queue, otaAgentState>>
  <2>1. OneThread' /\ Baton' = "none"
    BY <1>1, <1>4, ToNobody
  <2>2. InHand' /\ InOrder'
    BY <1>1, <1>2, <1>4 DEF UpdateInv, InHand, JobNamed, InOrder, palVars
  <2>3. QED  BY <1>3, <2>1, <2>2, NobodyKeeps
<1>5. CASE FileCreated(queue) /\ fwu' = "WRITING" /\ image' = ErasedImage /\ sysCtx'
  <2>1. queue' = <<Event("RequestFileBlock")>> /\ ToDevice
    BY <1>1, <1>5, SendToEmpty DEF FileCreated, ToDevice
  <2>2. OneThread' /\ Baton' = "RequestFileBlock"
    BY <1>1, <2>1, ToQueue DEF Event, BlockSteps
  <2>3. InHand'
    BY <1>1, <1>2, <1>3, <1>5, <1>8, PalAssumption DEF InHand, JobNamed, countVars
  <2>4. InOrder'
    BY <1>1, <1>2, <1>5 DEF InOrder, ErasedImage, countVars, Slot
  <2>5. JobBaton' /\ BlockBaton' /\ EndBaton'
    BY <1>1, <1>2, <1>5, <2>2, PalAssumption
    DEF JobBaton, BlockBaton, EndBaton, JobSteps, BlockSteps, EndSteps, countVars
  <2>6. QED  BY <1>3, <2>2, <2>3, <2>4, <2>5 DEF UpdateInv
<1>6. \/ UNCHANGED palVars /\ UNCHANGED <<queue, otaAgentState>>
      \/ FileCreated(queue) /\ fwu' = "WRITING" /\ image' = ErasedImage /\ sysCtx'
  BY DEF DownloaderReady, otaPal_CreateFileForRx
<1>7. QED  BY <1>4, <1>5, <1>6

-----------------------------------------------------------------------------
(***************************************************************************)
(* The agent task: file blocks                                             *)
(***************************************************************************)

\* requestDataBlock is entered.
LEMMA RequestFileBlockKeeps ==
  ASSUME SystemInv, UpdateInv, RequestFileBlock, UNCHANGED cloudVars
  PROVE  UpdateInv'
<1>1. /\ Baton = "RequestFileBlock" /\ queue' = <<>> /\ pc' = "askBlock" /\ ToDevice
      /\ uplink = <<>> /\ UNCHANGED uplink
      /\ UNCHANGED <<started, palVars, countVars, stream, globalJobId, jobFields, dataBuffers, held, execution>>
  BY Receives
  DEF RequestFileBlock, UpdateInv, Dequeue, Memory, jobVars, netVars, cloudVars, ToDevice
<1>2. OneThread' /\ Baton' = "askBlock"
  BY <1>1, ToTask
<1>3. OneJob' /\ InHand' /\ InOrder' /\ NoBufferLeak'
  BY <1>1, SameUpdate, Unreported, BuffersQuiet
<1>4. JobBaton' /\ BlockBaton' /\ EndBaton'
  BY <1>1, <1>2
  DEF UpdateInv, JobBaton, BlockBaton, EndBaton, JobSteps, BlockSteps, EndSteps, palVars, countVars
<1>5. QED  BY <1>2, <1>3, <1>4 DEF UpdateInv

\* The number of the next block survives the cast: it is at most that of the blocks.
LEMMA OffsetFits ==
  ASSUME SystemInv, UpdateInv, Undisturbed, sysCtx
  PROVE  currentBlockOffset % U16 = currentBlockOffset
<1>1. /\ currentBlockOffset \in Nat /\ numOfBlocksRemaining \in Nat
      /\ currentBlockOffset = NumBlocks - numOfBlocksRemaining
  BY TypeParts, AgentAssumption, PalAssumption
  DEF UpdateInv, InHand, JobNamed, SystemInv, SystemTypeOK, RestTypeOK
<1>2. currentBlockOffset \in 0 .. U16 - 1 /\ U16 \in Nat \ {0}
  BY <1>1, PalAssumption, AgentAssumption DEF Undisturbed
<1>3. QED  BY <1>2

\* requestDataBlock asks for the next block, or the publish fails.
LEMMA BlockRequestedKeeps ==
  ASSUME SystemInv, UpdateInv, Undisturbed, BlockRequested, UNCHANGED cloudVars
  PROVE  UpdateInv'
<1> DEFINE m == Message("GetBlock", stream, currentBlockOffset % U16)
<1>1. pc = "askBlock" /\ pc # "receive" /\ UplinkTypeOK(uplink)
  BY TypeParts DEF BlockRequested, SystemInv, SystemTypeOK
<1>2. /\ Baton = "askBlock" /\ queue' = <<>> /\ pc' = "receive" /\ ToDevice /\ uplink = <<>>
      /\ UNCHANGED <<started, palVars, countVars, stream, globalJobId, jobFields, dataBuffers, held, execution>>
  BY <1>1, Resumes DEF BlockRequested, UpdateInv, Memory, jobVars, cloudVars, ToDevice
<1>3. sysCtx /\ stream \in Jobs
  BY <1>2 DEF UpdateInv, BlockBaton, BlockSteps, InHand, JobNamed, Started
<1>4. prvMQTTPublish(m)
  BY <1>3, PalAssumption DEF BlockRequested
<1>5. m.type = "GetBlock" /\ m.job = stream /\ m.arg = currentBlockOffset
  BY <1>3, OffsetFits DEF Message
<1> HIDE DEF m
<1>6. \/ OneThread' /\ Baton' = "none" /\ uplink' = <<>>
      \/ OneThread' /\ Baton' = "GetBlock" /\ uplink' = <<m>>
  BY <1>1, <1>2, <1>4, <1>5, PublishPasses
<1>7. ReportedAfterReset'
  <2>1. uplink' = <<>> \/ (DOMAIN uplink' = {1} /\ uplink'[1] = m)
    BY <1>6
  <2>2. QED  BY <1>5, <1>6, <2>1, Unreported DEF ReportedAfterReset
<1>8. OneJob' /\ InHand' /\ InOrder' /\ NoBufferLeak'
  BY <1>2, <1>7, SameUpdate, BuffersQuiet
<1>9. JobBaton' /\ BlockBaton' /\ EndBaton'
  <2>1. uplink' = <<m>> => uplink'[1] = m
    BY Singleton
  <2>2. QED
    BY <1>2, <1>5, <1>6, <2>1
    DEF UpdateInv, JobBaton, BlockBaton, EndBaton, JobSteps, BlockSteps, EndSteps, palVars, countVars
<1>10. QED  BY <1>6, <1>8, <1>9 DEF UpdateInv

\* The only event of the queue is a block: the buffers in use are the one it has and
\* the one the agent task has.
LEMMA BlockOwner ==
  ASSUME SystemInv, OneThread, Baton = "ReceivedFileBlock", NEW b, OwnedByEvent(b)
  PROVE  queue # <<>> /\ b = queue[1].buf
<1>1. queue \in Seq(Events) /\ Len(queue) <= 1
  BY TypeParts DEF SystemInv, SystemTypeOK, QueueTypeOK, OneThread
<1>2. PICK k \in 1 .. Len(queue) : queue[k].id = "ReceivedFileBlock" /\ queue[k].buf = b
  BY DEF OwnedByEvent
<1>3. k = 1 /\ queue # <<>>
  BY <1>1, <1>2, LenProperties, EmptySeq
<1>4. QED  BY <1>2, <1>3

\* The block is taken out of the queue, its buffer with it.
LEMMA TakeFileBlockKeeps ==
  ASSUME SystemInv, UpdateInv, BufferOwnership, TakeFileBlock, UNCHANGED cloudVars
  PROVE  UpdateInv'
<1>1. /\ Baton = "ReceivedFileBlock" /\ queue' = <<>> /\ pc' = "write" /\ ToDevice
      /\ uplink = <<>> /\ UNCHANGED uplink /\ held' = queue[1].buf /\ pc = "receive"
      /\ UNCHANGED <<started, palVars, countVars, stream, globalJobId, jobFields, dataBuffers, execution>>
  BY Receives
  DEF TakeFileBlock, UpdateInv, Dequeue, Memory, jobVars, netVars, cloudVars, ToDevice
<1>2. OneThread' /\ Baton' = "write"
  BY <1>1, ToTask
<1>3. OneJob' /\ InHand' /\ InOrder'
  BY <1>1, SameUpdate, Unreported
<1>4. NoBufferLeak'
  <2>1. held \notin Buffers
    BY <1>1 DEF BufferOwnership
  <2>2. \A b \in Buffers : dataBuffers[b].used => b = queue[1].buf
    BY <1>1, <2>1, BlockOwner DEF UpdateInv, NoBufferLeak
  <2>3. QED  BY <1>1, <2>2 DEF NoBufferLeak
<1>5. JobBaton' /\ BlockBaton' /\ EndBaton'
  BY <1>1, <1>2
  DEF UpdateInv, JobBaton, BlockBaton, EndBaton, JobSteps, BlockSteps, EndSteps, BlockInHand,
      palVars, countVars
<1>6. QED  BY <1>2, <1>3, <1>4, <1>5 DEF UpdateInv

\* The number of blocks goes down by one, without wrapping, and the others up.
LEMMA Counted ==
  ASSUME SystemInv, UpdateInv, sysCtx, numOfBlocksRemaining > 0,
         totalBytesReceived' = totalBytesReceived + 1,
         numOfBlocksRemaining' = (numOfBlocksRemaining + CounterMod - 1) % CounterMod,
         currentBlockOffset' = (currentBlockOffset + 1) % CounterMod
  PROVE  /\ numOfBlocksRemaining' = numOfBlocksRemaining - 1
         /\ currentBlockOffset' = totalBytesReceived'
         /\ totalBytesReceived' = NumBlocks - numOfBlocksRemaining'
<1>1. /\ currentBlockOffset \in Nat /\ numOfBlocksRemaining \in 0 .. CounterMod - 1
      /\ totalBytesReceived = currentBlockOffset
      /\ currentBlockOffset = NumBlocks - numOfBlocksRemaining
  BY TypeParts, AgentAssumption, PalAssumption
  DEF UpdateInv, InHand, JobNamed, SystemInv, SystemTypeOK, RestTypeOK
<1>2. CounterMod \in Nat /\ NumBlocks < CounterMod /\ NumBlocks \in Nat
  BY PalAssumption, AgentAssumption
<1>3. (currentBlockOffset + 1) % CounterMod = currentBlockOffset + 1
  <2>1. currentBlockOffset + 1 \in 0 .. CounterMod - 1
    BY <1>1, <1>2
  <2>2. QED  BY <1>2, <2>1
<1>4. (numOfBlocksRemaining + CounterMod - 1) % CounterMod = numOfBlocksRemaining - 1
  <2>1. numOfBlocksRemaining - 1 \in 0 .. CounterMod - 1
    BY <1>1, <1>2
  <2>2. numOfBlocksRemaining + CounterMod - 1 = (numOfBlocksRemaining - 1) + CounterMod
    BY <1>1, <1>2
  <2>3. QED  BY <1>2, <2>1, <2>2
<1>5. QED  BY <1>1, <1>2, <1>3, <1>4

\* handleMqttStreamsBlockArrived: the block goes where it belongs, or nowhere.
LEMMA FileBlockHandledKeeps ==
  ASSUME SystemInv, UpdateInv, BufferOwnership, FileBlockHandled, UNCHANGED cloudVars
  PROVE  UpdateInv'
<1>1. /\ Baton = "write" /\ queue = <<>> /\ pc' = "receive" /\ ToDevice
      /\ uplink = <<>> /\ UNCHANGED uplink /\ held' = 0
      /\ UNCHANGED <<started, stream, globalJobId, jobFields, execution>>
      /\ dataBuffers' = [dataBuffers EXCEPT ![held] = Free]
  <2>1. pc = "write" /\ pc # "receive"
    BY DEF FileBlockHandled
  <2>2. QED
    BY <2>1, Resumes
    DEF FileBlockHandled, FreeBuffer, UpdateInv, jobVars, netVars, cloudVars, ToDevice
<1>2. /\ sysCtx /\ fwu = "WRITING" /\ numOfBlocksRemaining > 0
      /\ dataBuffers[held].data = BlockInHand
      /\ stream \in Jobs
  BY <1>1 DEF UpdateInv, BlockBaton, BlockSteps, InHand, JobNamed, Started
<1>3. /\ currentBlockOffset = totalBytesReceived /\ totalBytesReceived \in 0 .. NumBlocks - 1
      /\ numOfBlocksRemaining \in Nat
  BY <1>2, TypeParts, AgentAssumption, PalAssumption
  DEF UpdateInv, InHand, JobNamed, SystemInv, SystemTypeOK, RestTypeOK
<1>4. BlockInHand \in Blocks /\ totalBytesReceived \in Slot
  BY <1>2, <1>3, PalAssumption DEF BlockInHand, Blocks, Slot
<1>5. PICK written \in BOOLEAN :
        /\ otaPal_WriteBlock(totalBytesReceived, BlockInHand, written)
        /\ IF written
           THEN /\ totalBytesReceived' = totalBytesReceived + 1
                /\ numOfBlocksRemaining' = (numOfBlocksRemaining + CounterMod - 1) % CounterMod
                /\ currentBlockOffset' = (currentBlockOffset + 1) % CounterMod
           ELSE UNCHANGED countVars
  BY <1>2, <1>4 DEF FileBlockHandled, WriteFileBlock
<1>6. /\ sysCtx' /\ fwu' = "WRITING"
      /\ IF written THEN image' = [image EXCEPT ![totalBytesReceived] = BlockInHand]
                    ELSE UNCHANGED image
  BY <1>2, <1>5 DEF otaPal_WriteBlock, palVars
<1>7. /\ currentBlockOffset' = totalBytesReceived'
      /\ totalBytesReceived' = NumBlocks - numOfBlocksRemaining'
      /\ numOfBlocksRemaining' = numOfBlocksRemaining - (IF written THEN 1 ELSE 0)
      /\ totalBytesReceived' = totalBytesReceived + (IF written THEN 1 ELSE 0)
  <2>1. CASE written
    BY <1>2, <1>5, <2>1, Counted
  <2>2. CASE ~written
    BY <1>2, <1>3, <1>5, <2>2 DEF countVars, UpdateInv, InHand, JobNamed
  <2>3. QED  BY <2>1, <2>2
<1>8. InOrder'
  <2>1. \A i \in Slot : image[i] = IF i < totalBytesReceived
                                   THEN [job |-> stream, index |-> i] ELSE Erased
    BY <1>2 DEF UpdateInv, InOrder
  <2>2. ASSUME NEW i \in Slot
        PROVE  image'[i] = IF i < totalBytesReceived' THEN [job |-> stream', index |-> i] ELSE Erased
    <3>1. image \in [Slot -> Blocks \cup {Erased}] /\ i \in Nat
      BY TypeParts DEF SystemInv, SystemTypeOK, PalTypeOK, Slot
    <3>2. CASE written /\ i = totalBytesReceived
      BY <1>1, <1>3, <1>4, <1>6, <1>7, <3>1, <3>2 DEF BlockInHand
    <3>3. CASE ~(written /\ i = totalBytesReceived)
      <4>1. image'[i] = image[i]
        BY <1>4, <1>6, <3>1, <3>3
      <4>2. i < totalBytesReceived' <=> i < totalBytesReceived
        BY <1>3, <1>7, <3>1, <3>3
      <4>3. QED  BY <1>1, <2>1, <4>1, <4>2
    <3>4. QED  BY <3>2, <3>3
  <2>3. QED  BY <2>2 DEF InOrder
<1>9. OneJob' /\ UNCHANGED Started /\ ReportedAfterReset'
  BY <1>1, Unreported DEF UpdateInv, OneJob, Started
<1>10. InHand'
  BY <1>1, <1>2, <1>6, <1>7, <1>9 DEF UpdateInv, InHand, JobNamed, ToDevice
<1>11. NoBufferLeak'
  <2>1. \A b : ~OwnedByEvent(b)
    BY <1>1 DEF OwnedByEvent
  <2>2. \A b \in Buffers : dataBuffers[b].used => b = held
    BY <2>1 DEF UpdateInv, NoBufferLeak
  <2>3. \A b \in Buffers : ~dataBuffers'[b].used
    BY <1>1, <2>2, TypeParts DEF Free, SystemInv, SystemTypeOK, RestTypeOK
  <2>4. QED  BY <2>3 DEF NoBufferLeak
<1>12. CASE numOfBlocksRemaining' = 0
  <2>1. queue' = <<Event("CloseFile")>>
    BY <1>1, <1>12, SendToEmpty DEF FileBlockHandled
  <2>2. OneThread' /\ Baton' = "CloseFile"
    BY <1>1, <2>1, ToQueue DEF Event, EndSteps
  <2>3. JobBaton' /\ BlockBaton' /\ EndBaton'
    BY <1>6, <1>12, <2>2 DEF JobBaton, BlockBaton, EndBaton, JobSteps, BlockSteps, EndSteps
  <2>4. QED  BY <1>8, <1>9, <1>10, <1>11, <2>2, <2>3 DEF UpdateInv
<1>13. CASE numOfBlocksRemaining' # 0
  <2>1. queue' = <<Event("RequestFileBlock")>>
    BY <1>1, <1>13, SendToEmpty DEF FileBlockHandled
  <2>2. OneThread' /\ Baton' = "RequestFileBlock"
    BY <1>1, <2>1, ToQueue DEF Event, BlockSteps
  <2>3. numOfBlocksRemaining' > 0
    BY <1>2, <1>3, <1>7, <1>13
  <2>4. JobBaton' /\ BlockBaton' /\ EndBaton'
    BY <1>6, <2>2, <2>3 DEF JobBaton, BlockBaton, EndBaton, JobSteps, BlockSteps, EndSteps
  <2>5. QED  BY <1>8, <1>9, <1>10, <1>11, <2>2, <2>4 DEF UpdateInv
<1>14. QED  BY <1>12, <1>13

\* The file is closed and the image is to be activated, or the update ends here.
LEMMA CloseFileKeeps ==
  ASSUME SystemInv, UpdateInv, CloseFile, UNCHANGED cloudVars
  PROVE  UpdateInv'
<1>1. /\ Baton = "CloseFile" /\ Tail(queue) = <<>> /\ pc' = "receive" /\ ToDevice
      /\ uplink = <<>> /\ UNCHANGED uplink
      /\ UNCHANGED <<started, stream, globalJobId, jobFields, countVars, dataBuffers, held, execution>>
  BY Receives DEF CloseFile, UpdateInv, taskVars, Memory, jobVars, netVars, cloudVars, ToDevice
<1>2. sysCtx /\ fwu = "WRITING" /\ numOfBlocksRemaining = 0
  BY <1>1 DEF UpdateInv, EndBaton, EndSteps
<1>3. sysCtx' /\ fwu' \in {"WRITING", "CANDIDATE"} /\ UNCHANGED image
  BY <1>2 DEF CloseFile, otaPal_CloseFile, psa_fwu_finish, palVars
<1>4. OneJob' /\ UNCHANGED Started /\ ReportedAfterReset' /\ NoBufferLeak'
  BY <1>1, Unreported, BuffersQuiet, <1>2 DEF UpdateInv, OneJob, Started
<1>5. InHand'
  BY <1>1, <1>2, <1>3, <1>4 DEF UpdateInv, InHand, JobNamed, countVars, ToDevice
<1>6. InOrder'
  BY <1>1, <1>2, <1>3 DEF UpdateInv, InOrder, countVars
<1>7. CASE queue' = SendTo(<<>>, Event("ActivateImage"))
  <2>1. queue' = <<Event("ActivateImage")>>
    BY <1>7, SendToEmpty
  <2>2. OneThread' /\ Baton' = "ActivateImage"
    BY <1>1, <2>1, ToQueue DEF Event, EndSteps
  <2>3. JobBaton' /\ BlockBaton' /\ EndBaton'
    BY <1>1, <1>2, <1>3, <2>2
    DEF JobBaton, BlockBaton, EndBaton, JobSteps, BlockSteps, EndSteps, countVars
  <2>4. QED  BY <1>4, <1>5, <1>6, <2>2, <2>3 DEF UpdateInv
<1>8. CASE queue' = <<>>
  <2>1. OneThread' /\ Baton' = "none"
    BY <1>1, <1>8, ToNobody DEF ToDevice
  <2>2. QED  BY <1>4, <1>5, <1>6, <2>1, NobodyKeeps
<1>9. QED  BY <1>1, <1>7, <1>8 DEF CloseFile, Dequeue, DequeueAndSend

\* sendStatusDetailsMessage is entered.
LEMMA ActivateImageKeeps ==
  ASSUME SystemInv, UpdateInv, ActivateImage, UNCHANGED cloudVars
  PROVE  UpdateInv'
<1>1. /\ Baton = "ActivateImage" /\ queue' = <<>> /\ pc' = "status" /\ ToDevice
      /\ uplink = <<>> /\ UNCHANGED uplink
      /\ UNCHANGED <<started, palVars, countVars, stream, globalJobId, jobFields, dataBuffers, held, execution>>
  BY Receives
  DEF ActivateImage, UpdateInv, Dequeue, Memory, jobVars, netVars, cloudVars, ToDevice
<1>2. OneThread' /\ Baton' = "status"
  BY <1>1, ToTask
<1>3. OneJob' /\ InHand' /\ InOrder' /\ NoBufferLeak'
  BY <1>1, SameUpdate, Unreported, BuffersQuiet
<1>4. JobBaton' /\ BlockBaton' /\ EndBaton'
  BY <1>1, <1>2
  DEF UpdateInv, JobBaton, BlockBaton, EndBaton, JobSteps, BlockSteps, EndSteps, palVars, countVars
<1>5. QED  BY <1>2, <1>3, <1>4 DEF UpdateInv

\* The status is sent, or not, and the image staged, tried at once, or neither.
LEMMA StatusSentKeeps ==
  ASSUME SystemInv, UpdateInv, StatusSent, UNCHANGED cloudVars
  PROVE  UpdateInv'
<1>1. /\ Baton = "status" /\ queue = <<>> /\ ToDevice /\ uplink = <<>>
      /\ UNCHANGED <<started, stream, globalJobId, jobFields, countVars, dataBuffers, held, execution>>
      /\ UplinkTypeOK(uplink)
  <2>1. pc = "status" /\ pc # "receive"
    BY DEF StatusSent
  <2>2. QED
    BY <2>1, Resumes, TypeParts
    DEF StatusSent, UpdateInv, Memory, jobVars, cloudVars, ToDevice, SystemInv, SystemTypeOK
<1>2. sysCtx /\ fwu \in {"WRITING", "CANDIDATE"} /\ numOfBlocksRemaining = 0
  BY <1>1 DEF UpdateInv, EndBaton, EndSteps
<1>3. uplink' # <<>> => Len(uplink') = 1 /\ uplink'[1].type = "InProgress"
  <2>1. PICK version : prvMQTTPublish(Message("InProgress", AddressedJob, version))
    BY DEF StatusSent
  <2>2. uplink' \in {<<>>, <<Message("InProgress", AddressedJob, version)>>}
    BY <1>1, <2>1, Accepted
  <2>3. QED  BY <2>2, Singleton DEF Message
<1>4. PICK outcome \in {"reset", "activated", "failed"} :
        /\ otaPal_ActivateNewImage(outcome)
        /\ pc' = IF outcome = "reset" THEN "reset" ELSE "receive"
        /\ queue' = IF outcome = "activated"
                    THEN SendTo(queue, Event("RequestJobDocument")) ELSE queue
  BY DEF StatusSent
<1>5. /\ sysCtx' /\ UNCHANGED image
      /\ fwu' = CASE outcome = "reset" -> "STAGED"
                  [] outcome = "activated" -> "TRIAL"
                  [] OTHER -> fwu
  BY <1>2, <1>4 DEF otaPal_ActivateNewImage, TryImage, palVars
<1>6. OneJob' /\ UNCHANGED Started /\ NoBufferLeak'
  BY <1>1, BuffersQuiet DEF UpdateInv, OneJob, Started
<1>7. ReportedAfterReset'
  <2>1. \A k \in DOMAIN uplink' : k = 1 /\ uplink' # <<>>
    <3>1. CASE uplink' = <<>>
      BY <3>1
    <3>2. CASE uplink' # <<>>
      <4>1. PICK version : prvMQTTPublish(Message("InProgress", AddressedJob, version))
        BY DEF StatusSent
      <4>2. uplink' = <<Message("InProgress", AddressedJob, version)>>
        BY <1>1, <3>2, <4>1, Accepted
      <4>3. QED  BY <3>2, <4>2
    <3>3. QED  BY <3>1, <3>2
  <2>2. QED  BY <1>3, <2>1 DEF ReportedAfterReset
<1>8. InHand'
  BY <1>1, <1>2, <1>5, <1>6, <1>7 DEF UpdateInv, InHand, JobNamed, countVars, ToDevice
<1>9. InOrder'
  BY <1>1, <1>2, <1>5 DEF UpdateInv, InOrder, countVars
<1>10. CASE outcome = "reset"
  <2>1. OneThread' /\ Baton' = "reset"
    BY <1>1, <1>3, <1>4, <1>10, ToTask
  <2>2. JobBaton' /\ BlockBaton' /\ EndBaton'
    BY <1>5, <1>10, <2>1 DEF JobBaton, BlockBaton, EndBaton, JobSteps, BlockSteps, EndSteps
  <2>3. QED  BY <1>6, <1>8, <1>9, <2>1, <2>2 DEF UpdateInv
<1>11. CASE outcome = "activated"
  <2>1. queue' = <<Event("RequestJobDocument")>> /\ pc' = "receive"
    BY <1>1, <1>4, <1>11, SendToEmpty
  <2>2. OneThread' /\ Baton' = "RequestJobDocument"
    BY <1>1, <1>3, <2>1, ToQueue DEF Event, JobSteps
  <2>3. JobBaton' /\ BlockBaton' /\ EndBaton'
    BY <1>5, <1>11, <2>2 DEF JobBaton, BlockBaton, EndBaton, JobSteps, BlockSteps, EndSteps
  <2>4. QED  BY <1>6, <1>8, <1>9, <2>2, <2>3 DEF UpdateInv
<1>12. CASE outcome = "failed"
  <2>1. OneThread' /\ Baton' \in {"none", "InProgress"}
    <3>1. CASE uplink' = <<>>
      BY <1>1, <1>4, <1>12, <3>1, ToNobody DEF ToDevice
    <3>2. CASE uplink' # <<>>
      BY <1>1, <1>3, <1>4, <1>12, <3>2, ToUplink
    <3>3. QED  BY <3>1, <3>2
  <2>2. JobBaton' /\ BlockBaton' /\ EndBaton'
    BY <2>1 DEF JobBaton, BlockBaton, EndBaton, JobSteps, BlockSteps, EndSteps
  <2>3. QED  BY <1>6, <1>8, <1>9, <2>1, <2>2 DEF UpdateInv
<1>13. QED  BY <1>10, <1>11, <1>12

\* The reset that was asked for does not come: the update ends here.
LEMMA ResetFailsKeeps ==
  ASSUME SystemInv, UpdateInv, ResetFails, UNCHANGED cloudVars
  PROVE  UpdateInv'
<1>1. /\ Baton = "reset" /\ queue' = <<>> /\ pc' = "receive" /\ ToDevice
      /\ uplink # <<>> => Len(uplink) = 1 /\ uplink[1].type = "InProgress"
      /\ UNCHANGED <<started, palVars, countVars, stream, globalJobId, jobFields, dataBuffers, held,
                     execution, uplink>>
  <2>1. pc = "reset" /\ pc # "receive"
    BY DEF ResetFails
  <2>2. QED
    BY <2>1, Resumes DEF ResetFails, UpdateInv, Memory, jobVars, netVars, cloudVars, ToDevice
<1>2. OneThread' /\ Baton' \in {"none", "InProgress"}
  <2>1. CASE uplink = <<>>
    BY <1>1, <2>1, ToNobody DEF ToDevice
  <2>2. CASE uplink # <<>>
    BY <1>1, <2>2, ToUplink
  <2>3. QED  BY <2>1, <2>2
<1>3. OneJob' /\ InHand' /\ InOrder' /\ NoBufferLeak'
  BY <1>1, SameUpdate, Unreported, BuffersQuiet
<1>4. JobBaton' /\ BlockBaton' /\ EndBaton'
  BY <1>2 DEF JobBaton, BlockBaton, EndBaton, JobSteps, BlockSteps, EndSteps
<1>5. QED  BY <1>2, <1>3, <1>4 DEF UpdateInv

-----------------------------------------------------------------------------
(***************************************************************************)
(* The other tasks of the device                                           *)
(***************************************************************************)

\* The demo starts, and its first event is to ask for a job.
LEMMA StartDemoKeeps ==
  ASSUME SystemInv, UpdateInv, StartDemo, UNCHANGED cloudVars
  PROVE  UpdateInv'
<1>1. /\ Baton = "none" /\ queue' = <<Event("RequestJobDocument")>> /\ pc' = "receive" /\ ToDevice
      /\ uplink = <<>> /\ UNCHANGED uplink /\ ~started /\ started'
      /\ UNCHANGED <<palVars, countVars, stream, globalJobId, jobFields, dataBuffers, held, execution>>
  BY SendToEmpty
  DEF StartDemo, UpdateInv, OneThread, Memory, jobVars, netVars, cloudVars, ToDevice, Baton
<1>2. OneThread' /\ Baton' = "RequestJobDocument"
  BY <1>1, ToQueue DEF Event, JobSteps
<1>3. OneJob' /\ UNCHANGED Started /\ NoBufferLeak'
  BY <1>1, BuffersQuiet DEF UpdateInv, OneJob, Started
<1>4. ~sysCtx /\ globalJobId = NoId /\ fwu \notin {"WRITING", "CANDIDATE", "STAGED"}
  BY <1>1 DEF UpdateInv, InHand
<1>5. InHand' /\ InOrder'
  BY <1>1, <1>4 DEF InHand, JobNamed, InOrder, palVars
<1>6. JobBaton' /\ BlockBaton' /\ EndBaton'
  BY <1>1, <1>2, <1>4 DEF JobBaton, BlockBaton, EndBaton, JobSteps, BlockSteps, EndSteps, palVars
<1>7. QED  BY <1>2, <1>3, <1>5, <1>6 DEF UpdateInv

\* The connection comes up: it is the first since the reset.
LEMMA ReconnectKeeps ==
  ASSUME SystemInv, UpdateInv, Undisturbed, Reconnect, UNCHANGED cloudVars
  PROVE  UpdateInv'
<1>1. /\ Baton = "none" /\ queue' = <<>> /\ pc' = "receive" /\ down' = <<>>
      /\ uplink = <<>> /\ UNCHANGED uplink /\ ~started'
      /\ UNCHANGED <<started, palVars, countVars, stream, globalJobId, jobFields, dataBuffers, held, execution>>
  BY DEF Reconnect, Undisturbed, Connect, UpdateInv, OneThread, taskVars, Memory, jobVars,
         cloudVars, Baton
<1>2. OneThread' /\ Baton' = "none"
  BY <1>1, ToNobody
<1>3. OneJob' /\ InHand' /\ InOrder' /\ NoBufferLeak'
  BY <1>1, SameUpdate, Unreported, BuffersQuiet
<1>4. QED  BY <1>2, <1>3, NobodyKeeps

\* While the connection lasts nobody suspends the agent, and no event but those of an
\* update is in its queue.
LEMMA NeverSuspended ==
  ASSUME SystemInv, UpdateInv
  PROVE  /\ ~DropJobDocument /\ ~DropFileBlock /\ ~Suspend /\ ~Resume
         /\ ~DemoSuspend /\ ~DemoResume
<1>1. ~Suspend /\ ~Resume
  BY Receives DEF Suspend, Resume, UpdateInv, JobSteps, BlockSteps, EndSteps
<1>2. ~DropJobDocument /\ ~DropFileBlock
  BY DEF DropJobDocument, DropFileBlock, Receive, UpdateInv, OneThread
<1>3. ~DemoSuspend /\ ~DemoResume
  BY DEF DemoSuspend, DemoResume, DemoSend, UpdateInv, OneThread
<1>4. QED  BY <1>1, <1>2, <1>3

\* Every step of the device keeps the invariant.
LEMMA DeviceKeeps ==
  ASSUME SystemInv, UpdateInv, BufferOwnership, Undisturbed, Device
  PROVE  UpdateInv'
<1>1. UNCHANGED cloudVars
  BY DEF Device, cloudVars
<1>2. CASE AgentTask
  BY <1>1, <1>2, NeverSuspended, RequestJobDocumentKeeps, JobRequestedKeeps,
     EmptyJobDocumentKeeps, SameJobDocumentKeeps, NotUnparsed, SelfTestJobDocumentKeeps,
     FinalStatusKeeps, DownloadJobDocumentKeeps, DownloaderReadyKeeps, RequestFileBlockKeeps,
     BlockRequestedKeeps, TakeFileBlockKeeps, FileBlockHandledKeeps, CloseFileKeeps,
     ActivateImageKeeps, StatusSentKeeps
  DEF AgentTask
<1>3. CASE StartDemo \/ Poll \/ Reconnect \/ ResetFails
  BY <1>1, <1>3, NeverSuspended, StartDemoKeeps, ReconnectKeeps, ResetFailsKeeps DEF Poll
<1>4. QED  BY <1>2, <1>3 DEF Device

-----------------------------------------------------------------------------
(***************************************************************************)
(* The services                                                            *)
(***************************************************************************)

\* What serving the first publish does to the device: nothing.
LEMMA ServedQuietly ==
  ASSUME SystemInv, UpdateInv, UplinkServed(1)
  PROVE  /\ UNCHANGED <<started, otaAgentState, connected, queue, pc, palVars, countVars, stream,
                        globalJobId, jobFields, dataBuffers, held>>
         /\ uplink # <<>> /\ down = <<>>
         /\ uplink[1] \in Publishes
         /\ Len(uplink) = 1 => uplink' = <<>>
         /\ uplink[1].type # "InProgress" =>
              /\ uplink' = <<>> /\ queue' = <<>> /\ pc' = "receive"
              /\ started => Baton = uplink[1].type /\ connected /\ otaAgentState # "Suspended"
<1>1. /\ UNCHANGED <<started, otaAgentState, connected, queue, pc, palVars, countVars, stream,
                     globalJobId, jobFields, dataBuffers, held>>
  BY DEF UplinkServed, taskVars, Memory, jobVars
<1>2. uplink # <<>> /\ down = <<>> /\ (Len(uplink) = 1 => uplink' = <<>>)
  BY Serves DEF UpdateInv
<1>3. uplink[1] \in Publishes
  BY TypeParts, ElementOfSeq DEF SystemInv, SystemTypeOK, UplinkServed, UplinkTypeOK
<1>4. CASE uplink[1].type # "InProgress"
  <2>1. Len(uplink) = 1 /\ queue = <<>> /\ pc = "receive"
    BY <1>2, <1>4 DEF UpdateInv, OneThread, UplinkShape
  <2>2. started => Baton = uplink[1].type
    BY <1>2, <2>1 DEF Baton
  <2>3. QED  BY <1>1, <1>2, <1>3, <1>4, <2>1, <2>2 DEF UpdateInv, OneThread
<1>5. QED  BY <1>1, <1>2, <1>3, <1>4

\* The jobs service hands out the job under way, or starts one, or has none.
LEMMA StartNextKeeps ==
  ASSUME SystemInv, UpdateInv, ServeStartNext(1)
  PROVE  UpdateInv'
<1>1. /\ UNCHANGED <<started, otaAgentState, connected, palVars, countVars, stream,
                     globalJobId, jobFields, dataBuffers, held, updatedBy>>
      /\ queue' = <<>> /\ pc' = "receive" /\ uplink' = <<>> /\ down = <<>>
      /\ started => Baton = "StartNext" /\ connected /\ otaAgentState # "Suspended"
      /\ ~started => Baton = "none"
  <2>1. UplinkServed(1) /\ uplink[1].type = "StartNext" /\ UNCHANGED updatedBy
    BY DEF ServeStartNext
  <2>2. ~started => Baton = "none"
    BY DEF UpdateInv, OneThread, Baton
  <2>3. QED  BY <2>1, <2>2, ServedQuietly
<1>2. PICK doc :
        /\ Reply(DocMessage(doc))
        /\ \/ doc = NoDoc /\ UNCHANGED execution
           \/ /\ doc.job \in Jobs /\ (Started # {} => doc.job \in Started)
              /\ doc = [job |-> doc.job, valid |-> TRUE, updatedBy |-> updatedBy[doc.job]]
              /\ execution' = [execution EXCEPT ![doc.job] =
                                 IF @ = "QUEUED" THEN "IN_PROGRESS" ELSE @]
              /\ doc.job \in Started \cup Queued
  <2>1. CASE Reply(DocMessage(NoDoc)) /\ UNCHANGED execution
    BY <2>1
  <2>2. ASSUME NEW j \in (IF Started # {} THEN Started ELSE Queued),
               Reply(DocMessage([job |-> j, valid |-> TRUE, updatedBy |-> updatedBy[j]])),
               execution' = [execution EXCEPT ![j] = IF @ = "QUEUED" THEN "IN_PROGRESS" ELSE @]
        PROVE  \E doc :
        /\ Reply(DocMessage(doc))
        /\ \/ doc = NoDoc /\ UNCHANGED execution
           \/ /\ doc.job \in Jobs /\ (Started # {} => doc.job \in Started)
              /\ doc = [job |-> doc.job, valid |-> TRUE, updatedBy |-> updatedBy[doc.job]]
              /\ execution' = [execution EXCEPT ![doc.job] =
                                 IF @ = "QUEUED" THEN "IN_PROGRESS" ELSE @]
              /\ doc.job \in Started \cup Queued
    <3> DEFINE d == [job |-> j, valid |-> TRUE, updatedBy |-> updatedBy[j]]
    <3>1. d.job = j /\ j \in Jobs /\ j \in Started \cup Queued /\ (Started # {} => j \in Started)
      BY DEF Started, Queued
    <3>2. WITNESS d
    <3>3. QED  BY <2>2, <3>1
  <2>3. QED  BY <2>1, <2>2 DEF ServeStartNext
<1>3. OneJob' /\ (\A j \in Started : j \in Started') /\ Current(doc)'
  <2>1. CASE doc = NoDoc /\ UNCHANGED execution
    BY <2>1, PalAssumption DEF UpdateInv, OneJob, Started, Current, NoDoc
  <2>2. CASE /\ doc.job \in Jobs /\ (Started # {} => doc.job \in Started)
             /\ doc = [job |-> doc.job, valid |-> TRUE, updatedBy |-> updatedBy[doc.job]]
             /\ execution' = [execution EXCEPT ![doc.job] =
                                IF @ = "QUEUED" THEN "IN_PROGRESS" ELSE @]
             /\ doc.job \in Started \cup Queued
    <3>1. execution \in [Jobs -> Stages]
      BY DEF SystemInv, SystemTypeOK
    <3>2. Started' = Started \cup {doc.job}
      BY <2>2, <3>1 DEF Started, Queued
    <3>3. doc.valid /\ doc.updatedBy = updatedBy[doc.job]
      BY <2>2
    <3>4. QED  BY <1>1, <2>2, <3>2, <3>3 DEF UpdateInv, OneJob, Current
  <2>3. QED  BY <1>2, <2>1, <2>2
<1>4. InHand' /\ InOrder' /\ NoBufferLeak'
  <2>1. sysCtx => ReportedAfterReset'
    BY <1>1, Unreported
  <2>2. NoBufferLeak' /\ InOrder'
    BY <1>1, BuffersQuiet DEF UpdateInv, InOrder, palVars, countVars
  <2>3. QED  BY <1>1, <1>3, <2>1, <2>2 DEF UpdateInv, InHand, JobNamed, palVars, countVars
<1>5. CASE ~started
  <2>1. down' = <<>> \/ connected
    BY <1>1, <1>2 DEF Reply
  <2>2. ~connected
    <3>1. uplink # <<>>
      BY ServedQuietly DEF ServeStartNext
    <3>2. QED  BY <1>5, <3>1 DEF UpdateInv, OneThread
  <2>3. OneThread' /\ Baton' = "none"
    BY <1>1, <1>5, <2>1, <2>2, ToNobody
  <2>4. QED  BY <1>3, <1>4, <2>3, NobodyKeeps
<1>6. CASE started
  <2> DEFINE m == DocMessage(doc)
  <2>1. m.type = "job" /\ m.doc = doc
    BY DEF DocMessage
  <2>2. down' = Append(<<>>, m)
    BY <1>1, <1>2, <1>6 DEF Reply
  <2> HIDE DEF m
  <2>3. down' = <<m>>
    BY <2>2
  <2>4. OneThread' /\ Baton' = "job"
    BY <1>1, <1>6, <2>1, <2>3, ToDown
  <2>5. down'[1].doc = doc
    BY <2>1, <2>3, Singleton
  <2>6. JobBaton' /\ BlockBaton' /\ EndBaton'
    <3>1. Current(down[1].doc)'
      BY <1>3, <2>5 DEF Current
    <3>2. IF sysCtx' THEN fwu' = "TRIAL" ELSE globalJobId' = NoId
      BY <1>1, <1>6 DEF UpdateInv, JobBaton, JobSteps, palVars
    <3>3. QED  BY <2>4, <3>1, <3>2 DEF JobBaton, BlockBaton, EndBaton, JobSteps, BlockSteps, EndSteps
  <2>7. QED  BY <1>3, <1>4, <2>4, <2>6 DEF UpdateInv
<1>7. QED  BY <1>5, <1>6

\* The streams service sends the block it is asked for, which is the next one, or
\* refuses to, which is what happens past the end of the file.
LEMMA GetBlockKeeps ==
  ASSUME SystemInv, UpdateInv, ServeGetBlock(1)
  PROVE  UpdateInv'
<1>1. /\ UNCHANGED <<started, otaAgentState, connected, palVars, countVars, stream,
                     globalJobId, jobFields, dataBuffers, held, execution, updatedBy>>
      /\ queue' = <<>> /\ pc' = "receive" /\ uplink' = <<>> /\ down = <<>> /\ uplink # <<>>
      /\ started => Baton = "GetBlock" /\ connected /\ otaAgentState # "Suspended"
      /\ ~started => Baton = "none" /\ ~connected
  <2>1. UplinkServed(1) /\ uplink[1].type = "GetBlock" /\ UNCHANGED <<execution, updatedBy>>
    BY DEF ServeGetBlock
  <2>2. ~started => Baton = "none"
    BY DEF UpdateInv, OneThread, Baton
  <2>3. ~started => ~connected
    BY <2>1, ServedQuietly DEF UpdateInv, OneThread
  <2>4. QED  BY <2>1, <2>2, <2>3, ServedQuietly
<1>2. OneJob' /\ InHand' /\ InOrder' /\ NoBufferLeak'
  BY <1>1, SameUpdate, Unreported, BuffersQuiet
<1>3. CASE down' = <<>>
  BY <1>1, <1>2, <1>3, ToNobody, NobodyKeeps
<1>4. CASE down' # <<>>
  <2> DEFINE m == BlockMessage([job |-> uplink[1].job, index |-> uplink[1].arg])
  <2>1. uplink[1].arg < NumBlocks /\ Reply(m)
    BY <1>1, <1>4 DEF ServeGetBlock
  <2>2. started
    BY <1>1, <1>4, <2>1 DEF Reply
  <2>3. down' = Append(<<>>, m)
    BY <1>1, <2>1, <2>2 DEF Reply
  <2>4. uplink[1].job = stream /\ uplink[1].arg = currentBlockOffset
    BY <1>1, <2>2 DEF UpdateInv, BlockBaton
  <2>5. m.type = "block" /\ m.block = BlockInHand
    BY <2>4 DEF BlockMessage, BlockInHand
  <2>6. sysCtx /\ fwu = "WRITING" /\ numOfBlocksRemaining > 0
    <3>1. sysCtx /\ fwu \in {"WRITING", "TRIAL"}
      BY <1>1, <2>2 DEF UpdateInv, BlockBaton, BlockSteps
    <3>2. fwu # "WRITING" => currentBlockOffset = NumBlocks
      BY <3>1, PalAssumption DEF UpdateInv, InHand, JobNamed
    <3>3. fwu = "WRITING"
      BY <2>1, <2>4, <3>1, <3>2, PalAssumption
    <3>4. QED  BY <1>1, <2>2, <3>1, <3>3 DEF UpdateInv, BlockBaton, BlockSteps
  <2> HIDE DEF m
  <2>7. down' = <<m>>
    BY <2>3
  <2>8. OneThread' /\ Baton' = "block"
    BY <1>1, <2>2, <2>5, <2>7, ToDown
  <2>9. down'[1].block = BlockInHand'
    BY <1>1, <2>5, <2>7, Singleton DEF BlockInHand, countVars
  <2>10. JobBaton' /\ BlockBaton' /\ EndBaton'
    BY <1>1, <2>6, <2>8, <2>9
    DEF JobBaton, BlockBaton, EndBaton, JobSteps, BlockSteps, EndSteps, palVars, countVars
  <2>11. QED  BY <1>2, <2>8, <2>10 DEF UpdateInv
<1>5. QED  BY <1>3, <1>4

\* The jobs service takes the report of an installation, or refuses it; the job stays
\* the one under way.
LEMMA ReportKeeps ==
  ASSUME SystemInv, UpdateInv, ServeUpdate(1), uplink[1].type = "InProgress"
  PROVE  UpdateInv'
<1>1. /\ UplinkServed(1) /\ UNCHANGED down
      /\ IF uplink[1].job \in Jobs /\ execution[uplink[1].job] = "IN_PROGRESS"
         THEN execution' = [execution EXCEPT ![uplink[1].job] = "SELF_TEST"]
         ELSE UNCHANGED execution
  BY DEF ServeUpdate
<1>2. /\ UNCHANGED <<started, otaAgentState, connected, queue, pc, palVars, countVars, stream,
                     globalJobId, jobFields, dataBuffers, held>>
      /\ uplink # <<>> /\ down = <<>> /\ down' = <<>>
  BY <1>1, ServedQuietly
<1>3. UNCHANGED Started
  BY <1>1 DEF SystemInv, SystemTypeOK, Started
<1>4. Len(uplink) = 1 \/ Len(uplink) = 2
  BY <1>1, <1>2 DEF UpdateInv, OneThread, UplinkShape
<1>5. OneJob' /\ InOrder' /\ NoBufferLeak'
  <2>1. Baton # "ReceivedFileBlock"
    <3>1. CASE queue # <<>>
      BY <1>2, <3>1 DEF UpdateInv, OneThread, UplinkShape
    <3>2. CASE queue = <<>>
      BY <1>2, <3>2, TypeParts
      DEF Baton, SystemInv, SystemTypeOK, RestTypeOK, PcValues, UpdateInv, OneThread, UplinkShape
    <3>3. QED  BY <3>1, <3>2
  <2>2. QED
    BY <1>2, <1>3, <2>1, BuffersQuiet DEF UpdateInv, OneJob, InOrder, palVars, countVars
<1>6. CASE Len(uplink) = 1
  <2>1. uplink' = <<>>
    BY <1>1, <1>6, ServedQuietly
  <2>2. InHand'
    BY <1>2, <1>3, <2>1, Unreported DEF UpdateInv, InHand, JobNamed, palVars, countVars
  <2>3. CASE Baton \in {"InProgress", "none"}
    <3>1. queue = <<>> /\ pc = "receive"
      BY <2>3, TypeParts
      DEF Baton, UpdateInv, OneThread, JobSteps, BlockSteps, EndSteps, SystemInv, SystemTypeOK,
          RestTypeOK, PcValues
    <3>2. OneThread' /\ Baton' = "none"
      BY <1>2, <2>1, <3>1, ToNobody DEF UpdateInv, OneThread
    <3>3. QED  BY <1>5, <2>2, <3>2, NobodyKeeps
  <2>4. CASE Baton \in {"RequestJobDocument", "askJob", "reset"}
    <3>1. queue # <<>> \/ pc # "receive"
      BY <1>2, <2>4 DEF Baton, UpdateInv, OneThread, UplinkShape
    <3>2. Baton' = Baton
      BY <1>2, <3>1 DEF Baton
    <3>3. OneThread'
      BY <1>2, <2>1 DEF UpdateInv, OneThread, UplinkShape
    <3>4. JobBaton' /\ BlockBaton' /\ EndBaton'
      BY <1>2, <2>4, <3>2
      DEF UpdateInv, JobBaton, BlockBaton, EndBaton, JobSteps, BlockSteps, EndSteps, palVars
    <3>5. QED  BY <1>5, <2>2, <3>3, <3>4 DEF UpdateInv
  <2>5. Baton \in {"RequestJobDocument", "askJob", "reset", "InProgress", "none"}
    BY <1>2, <1>6 DEF UpdateInv, OneThread, UplinkShape
  <2>6. QED  BY <2>3, <2>4, <2>5
<1>7. CASE Len(uplink) = 2
  <2>1. uplink' = <<uplink[2]>> /\ uplink[2].type = "StartNext" /\ queue = <<>> /\ pc = "receive"
    BY <1>1, <1>2, <1>7, Serves DEF UpdateInv, OneThread, UplinkShape
  <2>2. uplink' # <<>> /\ Len(uplink') = 1 /\ uplink'[1] = uplink[2] /\ DOMAIN uplink' = {1}
    BY <2>1
  <2>3. ReportedAfterReset'
    BY <2>1, <2>2 DEF ReportedAfterReset
  <2>4. InHand'
    BY <1>2, <1>3, <2>3 DEF UpdateInv, InHand, JobNamed, palVars, countVars
  <2>5. CASE started
    <3>1. Baton = "StartNext"
      BY <1>2, <1>7, <2>1, <2>5 DEF Baton
    <3>2. Baton' = "StartNext"
      BY <1>2, <2>1, <2>2, <2>5 DEF Baton
    <3>3. ToDevice
      BY <1>2, <2>5 DEF ToDevice, UpdateInv, OneThread
    <3>4. OneThread'
      BY <1>2, <2>1, <2>2, <3>3, ToUplink
    <3>5. JobBaton' /\ BlockBaton' /\ EndBaton'
      BY <1>2, <3>1, <3>2
      DEF UpdateInv, JobBaton, BlockBaton, EndBaton, JobSteps, BlockSteps, EndSteps, palVars
    <3>6. QED  BY <1>5, <2>4, <3>2, <3>4, <3>5 DEF UpdateInv
  <2>6. CASE ~started
    <3>1. Baton' = "none"
      BY <1>2, <2>1, <2>6 DEF Baton
    <3>2. ~connected
      BY <1>2, <2>6 DEF UpdateInv, OneThread
    <3>3. OneThread'
      BY <1>2, <2>1, <2>2, <2>6, <3>2 DEF UpdateInv, OneThread, UplinkShape
    <3>4. QED  BY <1>5, <2>4, <3>1, <3>3, NobodyKeeps
  <2>7. QED  BY <2>5, <2>6
<1>8. QED  BY <1>4, <1>6, <1>7

\* The jobs service takes a result, or refuses it: there is no update under way, for
\* a result is only sent by a boot that downloads nothing.
LEMMA ResultKeeps ==
  ASSUME SystemInv, UpdateInv, ServeUpdate(1), uplink[1].type \in {"Succeeded", "Failed"}
  PROVE  UpdateInv'
<1>1. /\ UplinkServed(1) /\ UNCHANGED down
      /\ \/ UNCHANGED execution
         \/ \E result \in {"SUCCEEDED", "FAILED"} :
              execution' = [execution EXCEPT ![uplink[1].job] = result]
  BY DEF ServeUpdate
<1>2. /\ UNCHANGED <<started, connected, queue, pc, palVars, countVars, stream, globalJobId, jobFields,
                     dataBuffers, held>>
      /\ queue' = <<>> /\ pc' = "receive" /\ uplink' = <<>> /\ down' = <<>>
      /\ started => Baton \in {"Succeeded", "Failed"} /\ connected' /\ otaAgentState' # "Suspended"
  BY <1>1, ServedQuietly
<1>3. OneThread' /\ Baton' = "none"
  BY <1>2, ToNobody
<1>4. ~sysCtx /\ fwu \notin {"WRITING", "CANDIDATE", "STAGED"}
  <2>1. ~sysCtx
    BY <1>2 DEF UpdateInv, JobBaton, InHand, JobNamed
  <2>2. QED  BY <2>1 DEF UpdateInv, InHand, JobNamed
<1>5. OneJob'
  <2>1. Started' \subseteq Started
    BY <1>1 DEF Started, SystemInv, SystemTypeOK
  <2>2. QED  BY <2>1 DEF UpdateInv, OneJob
<1>6. InHand' /\ InOrder'
  BY <1>2, <1>4 DEF UpdateInv, InHand, JobNamed, InOrder, palVars
<1>7. NoBufferLeak'
  <2>1. Baton # "ReceivedFileBlock"
    BY <1>2 DEF Baton, UpdateInv, OneThread
  <2>2. QED  BY <1>2, <2>1, BuffersQuiet
<1>8. QED  BY <1>3, <1>5, <1>6, <1>7, NobodyKeeps

\* Every answer of the services keeps the invariant, given in order.
LEMMA ServeKeeps ==
  ASSUME SystemInv, UpdateInv, Undisturbed, Serve
  PROVE  UpdateInv'
<1>1. ServeStartNext(1) \/ ServeGetBlock(1) \/ ServeUpdate(1)
  BY DEF Serve, Undisturbed
<1>2. ServeUpdate(1) => uplink[1].type \in {"InProgress", "Succeeded", "Failed"}
  BY DEF ServeUpdate
<1>3. QED  BY <1>1, <1>2, StartNextKeeps, GetBlockKeeps, ReportKeeps, ResultKeeps

-----------------------------------------------------------------------------
(***************************************************************************)
(* Delivery and resets                                                     *)
(***************************************************************************)

\* A document is put in the buffer for documents, and the agent told.
LEMMA DeliverJobKeeps ==
  ASSUME SystemInv, UpdateInv, DeliverJob
  PROVE  UpdateInv'
<1>1. down # <<>> /\ Head(down) = down[1] /\ down[1].type = "job"
  BY Arrives DEF DeliverJob, UpdateInv
<1>2. /\ Baton = "job" /\ queue = <<>> /\ pc' = "receive" /\ uplink = <<>> /\ UNCHANGED uplink
      /\ ToDevice /\ jobDocBuffer' = down[1].doc
      /\ UNCHANGED <<started, palVars, countVars, stream, globalJobId, jobFields, dataBuffers, held,
                     execution, updatedBy>>
  BY <1>1, Arrives
  DEF DeliverJob, JobDocArrives, UpdateInv, taskVars, netVars, ToDevice
<1>3. queue' = <<Event("ReceivedJobDocument")>>
  BY <1>1, <1>2, Arrives, SendToEmpty DEF DeliverJob, JobDocArrives, UpdateInv
<1>4. OneThread' /\ Baton' = "ReceivedJobDocument"
  BY <1>2, <1>3, ToQueue DEF Event, JobSteps
<1>5. OneJob' /\ InHand' /\ InOrder' /\ NoBufferLeak'
  BY <1>2, SameUpdate, Unreported, BuffersQuiet
<1>6. Current(jobDocBuffer)'
  BY <1>2 DEF UpdateInv, JobBaton, Current, Started
<1>7. JobBaton' /\ BlockBaton' /\ EndBaton'
  BY <1>2, <1>4, <1>6
  DEF UpdateInv, JobBaton, BlockBaton, EndBaton, JobSteps, BlockSteps, EndSteps, palVars
<1>8. QED  BY <1>4, <1>5, <1>7 DEF UpdateInv

\* A block is put in a buffer, or lost when it is not routed to the agent.
LEMMA DeliverBlockKeeps ==
  ASSUME SystemInv, UpdateInv, DeliverBlock
  PROVE  UpdateInv'
<1>1. down # <<>> /\ Head(down) = down[1] /\ down[1].type = "block"
  BY Arrives DEF DeliverBlock, UpdateInv
<1>2. /\ Baton = "block" /\ queue = <<>> /\ pc' = "receive" /\ uplink = <<>> /\ UNCHANGED uplink
      /\ ToDevice
      /\ UNCHANGED <<started, palVars, countVars, stream, globalJobId, jobFields, held, execution, updatedBy>>
  BY <1>1, Arrives
  DEF DeliverBlock, BlockArrives, UpdateInv, vars, agentVars, taskVars, jobVars, netVars, ToDevice
<1>3. OneJob' /\ InHand' /\ InOrder'
  BY <1>2, SameUpdate, Unreported
<1>4. CASE UNCHANGED vars
  <2>1. queue' = <<>> /\ UNCHANGED dataBuffers
    BY <1>2, <1>4 DEF vars, agentVars
  <2>2. OneThread' /\ Baton' = "none"
    BY <1>2, <2>1, ToNobody DEF ToDevice
  <2>3. NoBufferLeak'
    BY <1>2, <2>1, BuffersQuiet
  <2>4. QED  BY <1>3, <2>2, <2>3, NobodyKeeps
<1>5. CASE BlockArrives(down[1].block, TRUE)
  <2>1. PICK b \in Buffers :
          /\ dataBuffers' = [dataBuffers EXCEPT ![b] = [used |-> TRUE, data |-> down[1].block]]
          /\ queue' = SendTo(queue, BlockEvent(b))
    BY <1>5 DEF BlockArrives
  <2>2. queue' = <<BlockEvent(b)>>
    BY <1>2, <2>1, SendToEmpty
  <2>3. BlockEvent(b).id = "ReceivedFileBlock" /\ BlockEvent(b).buf = b
    BY DEF BlockEvent
  <2>4. OneThread' /\ Baton' = "ReceivedFileBlock"
    BY <1>2, <2>2, <2>3, ToQueue DEF BlockSteps
  <2>5. queue'[1].buf = b /\ queue'[1].id = "ReceivedFileBlock" /\ Len(queue') = 1
    BY <2>2, <2>3, Singleton
  <2>6. dataBuffers \in [Buffers -> [used : BOOLEAN, data : Payloads \cup {Erased}]]
    BY TypeParts DEF SystemInv, SystemTypeOK, RestTypeOK
  <2>7. NoBufferLeak'
    <3>1. OwnedByEvent(b)'
      BY <2>5 DEF OwnedByEvent
    <3>2. \A c \in Buffers : dataBuffers[c].used => held = c
      BY <1>2 DEF UpdateInv, NoBufferLeak, OwnedByEvent
    <3>3. \A c \in Buffers : c # b => dataBuffers'[c] = dataBuffers[c]
      BY <2>1, <2>6
    <3>4. QED  BY <1>2, <3>1, <3>2, <3>3 DEF NoBufferLeak
  <2>8. dataBuffers'[queue'[1].buf].data = BlockInHand'
    <3>1. dataBuffers'[b].data = down[1].block
      BY <2>1, <2>6
    <3>2. down[1].block = BlockInHand /\ BlockInHand' = BlockInHand
      BY <1>2 DEF UpdateInv, BlockBaton, BlockInHand, countVars
    <3>3. QED  BY <2>5, <3>1, <3>2
  <2>9. JobBaton' /\ BlockBaton' /\ EndBaton'
    BY <1>2, <2>4, <2>8
    DEF UpdateInv, JobBaton, BlockBaton, EndBaton, JobSteps, BlockSteps, EndSteps, palVars, countVars
  <2>10. QED  BY <1>3, <2>4, <2>7, <2>9 DEF UpdateInv
<1>6. QED  BY <1>1, <1>4, <1>5 DEF DeliverBlock

\* After a reset nothing is left of the update but the slot.
LEMMA RebootKeeps ==
  ASSUME SystemInv, UpdateInv, Reboot, down' = <<>>, UNCHANGED execution
  PROVE  UpdateInv'
<1>1. /\ queue' = <<>> /\ pc' = "receive" /\ ~started' /\ ~connected' /\ ~sysCtx'
      /\ globalJobId' = NoId /\ uplink' \in {uplink, <<>>}
      /\ \A b \in Buffers : ~dataBuffers'[b].used
  BY DEF Reboot, Boot, UplinkKept, Free, NoId
<1>2. fwu' \notin {"WRITING", "CANDIDATE", "STAGED"}
  BY DEF Reboot, Boot, TryImage
<1>3. Baton' = "none"
  BY <1>1 DEF Baton
<1>4. OneThread'
  <2>1. UplinkShape'
    BY <1>1, <1>3 DEF UpdateInv, OneThread, UplinkShape
  <2>2. Len(queue') = 0 /\ Len(down') = 0
    BY <1>1
  <2>3. QED  BY <1>1, <2>1, <2>2 DEF OneThread
<1>5. OneJob' /\ InHand' /\ InOrder' /\ NoBufferLeak'
  BY <1>1, <1>2 DEF UpdateInv, OneJob, Started, InHand, JobNamed, InOrder, NoBufferLeak
<1>6. QED  BY <1>3, <1>4, <1>5, NobodyKeeps

\* Every step of the system keeps the invariant.
LEMMA UpdateNext ==
  ASSUME SystemInv, UpdateInv, BufferOwnership, Undisturbed, [SystemNext]_systemVars
  PROVE  UpdateInv'
<1>1. CASE Device
  BY <1>1, DeviceKeeps
<1>2. CASE Serve
  BY <1>2, ServeKeeps
<1>3. CASE Deliver
  BY <1>3, DeliverJobKeeps, DeliverBlockKeeps DEF Deliver
<1>4. CASE Drop
  BY <1>4 DEF Drop, Undisturbed, SystemInv, SystemTypeOK
<1>5. CASE Crash \/ Reset
  BY <1>5, RebootKeeps DEF Crash, Reset
<1>6. CASE UNCHANGED systemVars
  BY <1>6
  DEF systemVars, vars, agentVars, taskVars, jobVars, countVars, netVars, palVars, cloudVars,
      UpdateInv, OneThread, UplinkShape, Baton, OneJob, Started, InHand, JobNamed, InOrder, JobBaton,
      BlockBaton, EndBaton, Current, BlockInHand, ReportedAfterReset, NoBufferLeak, OwnedByEvent
<1>7. QED  BY <1>1, <1>2, <1>3, <1>4, <1>5, <1>6 DEF SystemNext

\* It holds at first, when the device has not started.
LEMMA UpdateInit ==
  ASSUME SystemInit
  PROVE  UpdateInv
<1>1. /\ queue = <<>> /\ pc = "receive" /\ ~started /\ ~connected /\ ~sysCtx /\ fwu = "READY"
      /\ globalJobId = NoId /\ uplink = <<>> /\ down = <<>> /\ Started = {}
      /\ \A b \in Buffers : ~dataBuffers[b].used
  BY DEF SystemInit, Init, AgentInit, PalInit, Free, Started, NoId
<1>2. Baton = "none"
  BY <1>1 DEF Baton
<1>3. Len(queue) = 0 /\ Len(down) = 0
  BY <1>1
<1>4. OneThread
  BY <1>1, <1>2, <1>3 DEF OneThread, UplinkShape
<1>5. QED
  BY <1>1, <1>2, <1>4
  DEF UpdateInv, OneJob, InHand, JobNamed, InOrder, JobBaton, BlockBaton, EndBaton, JobSteps, BlockSteps,
      EndSteps, NoBufferLeak

-----------------------------------------------------------------------------
(***************************************************************************)
(* What follows of the download                                            *)
(***************************************************************************)

\* The invariant of an update while the connection lasts.
LEMMA UpdateInvariant ==
  ASSUME Undisturbed
  PROVE  SystemSpec => [](SystemInv /\ UpdateInv)
<1>1. SystemInit => SystemInv /\ UpdateInv
  BY SystemInitInv, UpdateInit
<1>2. SystemInv /\ UpdateInv /\ BufferOwnership /\ [SystemNext]_systemVars => SystemInv' /\ UpdateInv'
  BY SystemNextInv, UpdateNext
<1>3. QED  BY <1>1, <1>2, SystemBuffersOwned, PTL DEF SystemSpec

\* The slot has the file of the stream, in order, up to the count of blocks, whatever
\* message is lost and whatever call fails: handleMqttStreamsBlockArrived needs no look
\* at the numbers of the blocks as long as the connection lasts.
THEOREM DownloadedInOrder ==
  ASSUME Undisturbed
  PROVE  SystemSpec => []DownloadInOrder
<1>1. SystemInv /\ UpdateInv => DownloadInOrder
  <2> SUFFICES ASSUME SystemInv, UpdateInv, fwu = "WRITING", NEW i \in 0 .. totalBytesReceived - 1
               PROVE  image[i] = [job |-> stream, index |-> i]
    BY DEF DownloadInOrder
  <2>1. totalBytesReceived \in 0 .. SlotBlocks
    BY TypeParts DEF SystemInv, SystemTypeOK, RestTypeOK
  <2>2. i \in Slot /\ i < totalBytesReceived
    BY <2>1, PalAssumption DEF Slot
  <2>3. QED  BY <2>2 DEF UpdateInv, InOrder
<1>2. QED  BY <1>1, UpdateInvariant, PTL

\* numOfBlocksRemaining counts the blocks of the file that the slot has not: zero, which
\* makes processOTAEvents close the file, says that it is all there.
THEOREM RemainingCounted ==
  ASSUME Undisturbed
  PROVE  SystemSpec => []RemainingIsBlocksLeft
<1>1. SystemInv /\ UpdateInv => RemainingIsBlocksLeft
  <2> SUFFICES ASSUME SystemInv, UpdateInv, fwu = "WRITING"
               PROVE  numOfBlocksRemaining =
                        Cardinality({n \in 0 .. NumBlocks - 1 :
                           \A i \in Slot : image[i] # [job |-> stream, index |-> n]})
    BY DEF RemainingIsBlocksLeft
  <2> DEFINE left == {n \in 0 .. NumBlocks - 1 :
                        \A i \in Slot : image[i] # [job |-> stream, index |-> n]}
  <2>1. /\ totalBytesReceived \in 0 .. SlotBlocks /\ numOfBlocksRemaining \in Nat
        /\ totalBytesReceived = NumBlocks - numOfBlocksRemaining
        /\ stream \in Jobs
    BY TypeParts, AgentAssumption, PalAssumption
    DEF SystemInv, SystemTypeOK, RestTypeOK, UpdateInv, InHand, JobNamed, Started
  <2>2. \A i \in Slot : image[i] = IF i < totalBytesReceived
                                   THEN [job |-> stream, index |-> i] ELSE Erased
    BY DEF UpdateInv, InOrder
  <2>3. \A n : [job |-> stream, index |-> n] # Erased
    BY <2>1, PalAssumption DEF Erased
  <2>4. left = totalBytesReceived .. NumBlocks - 1
    <3>1. ASSUME NEW n \in left PROVE n \in totalBytesReceived .. NumBlocks - 1
      <4>1. n \in Slot /\ image[n] # [job |-> stream, index |-> n]
        BY PalAssumption DEF Slot
      <4>2. ~(n < totalBytesReceived)
        BY <2>2, <4>1
      <4>3. QED  BY <2>1, <4>2, PalAssumption
    <3>2. ASSUME NEW n \in totalBytesReceived .. NumBlocks - 1 PROVE n \in left
      <4>1. n \in 0 .. NumBlocks - 1 /\ ~(n < totalBytesReceived)
        BY <2>1, PalAssumption
      <4>2. ASSUME NEW i \in Slot PROVE image[i] # [job |-> stream, index |-> n]
        <5>1. CASE i < totalBytesReceived
          <6>1. i # n
            BY <4>1, <5>1
          <6>2. image[i] = [job |-> stream, index |-> i]
            BY <2>2, <5>1
          <6>3. QED  BY <6>1, <6>2
        <5>2. CASE ~(i < totalBytesReceived)
          BY <2>2, <2>3, <5>2
        <5>3. QED  BY <5>1, <5>2
      <4>3. QED  BY <4>1, <4>2
    <3>3. QED  BY <3>1, <3>2
  <2>5. Cardinality(totalBytesReceived .. NumBlocks - 1) = numOfBlocksRemaining
    BY <2>1, PalAssumption, FS_Interval
  <2>6. QED  BY <2>4, <2>5
<1>2. QED  BY <1>1, UpdateInvariant, PTL

\* At most one element.
LEMMA AtMostOne ==
  ASSUME NEW S, NEW e, S \subseteq {e}
  PROVE  Cardinality(S) \in {0, 1} /\ (S = {} => Cardinality(S) = 0)
<1>1. S = {} \/ S = {e}
  OBVIOUS
<1>2. QED  BY <1>1, FS_EmptySet, FS_Singleton

\* One block is asked for, on its way, queued or being written: nothing in
\* processOTAEvents says so, and a lost block is never made up for by another.
THEOREM OneBlockAtATime ==
  ASSUME Undisturbed
  PROVE  SystemSpec => []OneBlockInFlight
<1>1. SystemInv /\ UpdateInv => OneBlockInFlight
  <2> SUFFICES ASSUME SystemInv, UpdateInv PROVE OneBlockInFlight
    OBVIOUS
  <2> DEFINE events == {k \in DOMAIN queue :
                          queue[k].id \in {"RequestFileBlock", "ReceivedFileBlock"}}
             requests == {k \in DOMAIN uplink : uplink[k].type = "GetBlock"}
             blocks == {k \in DOMAIN down : down[k].type = "block"}
             busy == IF pc \in {"askBlock", "write"} THEN 1 ELSE 0
  <2>1. /\ queue \in Seq(Events) /\ Len(queue) <= 1
        /\ down \in Seq(Messages) /\ Len(down) <= 1
        /\ uplink \in Seq(Publishes)
        /\ UplinkShape
    BY TypeParts
    DEF SystemInv, SystemTypeOK, QueueTypeOK, UplinkTypeOK, UpdateInv, OneThread
  <2>2. events \subseteq {1} /\ (queue = <<>> => events = {})
    BY <2>1, LenProperties
  <2>3. blocks \subseteq {1} /\ (down = <<>> => blocks = {})
    BY <2>1, LenProperties
  <2>4. requests \subseteq {1}
        /\ (requests # {} => uplink # <<>> /\ queue = <<>> /\ pc = "receive")
    BY <2>1, LenProperties DEF UplinkShape
  <2>5. /\ queue # <<>> => pc = "receive" /\ down = <<>>
        /\ pc # "receive" => down = <<>>
        /\ down # <<>> => uplink = <<>>
    BY DEF UpdateInv, OneThread
  <2>6. /\ Cardinality(events) \in {0, 1} /\ (events = {} => Cardinality(events) = 0)
        /\ Cardinality(requests) \in {0, 1} /\ (requests = {} => Cardinality(requests) = 0)
        /\ Cardinality(blocks) \in {0, 1} /\ (blocks = {} => Cardinality(blocks) = 0)
    BY <2>2, <2>3, <2>4, AtMostOne
  <2>7. BlocksUnderWay = Cardinality(events) + Cardinality(requests) + Cardinality(blocks) + busy
    BY DEF BlocksUnderWay
  <2> HIDE DEF events, requests, blocks
  <2>8. QED  BY <2>2, <2>3, <2>4, <2>5, <2>6, <2>7 DEF OneBlockInFlight
<1>2. QED  BY <1>1, UpdateInvariant, PTL

\* A result is only sent by a boot that did not download the image: the comparison of
\* job ids in receivedJobDocumentHandler is enough to keep an image that was installed
\* at once from being reported before the reset.
THEOREM ResultsFollowReset ==
  ASSUME Undisturbed
  PROVE  SystemSpec => []ReportedAfterReset
<1>1. UpdateInv => ReportedAfterReset
  BY DEF UpdateInv, InHand, JobNamed, ReportedAfterReset
<1>2. QED  BY <1>1, UpdateInvariant, PTL

\* The pool of buffers loses none: freeOtaDataEventBuffer is reached for every buffer
\* that getOtaDataEventBuffer gave out.
THEOREM BuffersComeBack ==
  ASSUME Undisturbed
  PROVE  SystemSpec => []NoBufferLeak
<1>1. UpdateInv => NoBufferLeak
  BY DEF UpdateInv
<1>2. QED  BY <1>1, UpdateInvariant, PTL

-----------------------------------------------------------------------------
(***************************************************************************)
(* The promise of UpdateJobs                                               *)
(***************************************************************************)

\* The report of an installation is on its way.
Told == uplink # <<>> /\ uplink[1].type = "InProgress"

BeforeTrial == {"READY", "WRITING", "CANDIDATE", "STAGED"}

\* The image on trial is that of the job under way.
OnTrial == fwu = "TRIAL" => \E j \in Started : running = ImageVersion[j]

\* What is reported is the version that the image on trial replaces.
Reports ==
  Told =>
    /\ uplink[1].job \in Started
    /\ fwu \in BeforeTrial => uplink[1].arg = running
    /\ fwu = "TRIAL" => uplink[1].arg = previous

\* So is what was reported, or else the image was kept already and its job not ended.
Recorded ==
  \A j \in Started :
    /\ fwu \in BeforeTrial /\ execution[j] = "SELF_TEST" =>
         updatedBy[j] = running \/ running = ImageVersion[j]
    /\ fwu = "TRIAL" /\ execution[j] = "SELF_TEST" =>
         updatedBy[j] = previous \/ previous = ImageVersion[j]
    /\ fwu \in {"STAGED", "TRIAL"} => execution[j] = "SELF_TEST" \/ Told

Kept(j) == j \in Started /\ fwu \in {"READY", "UPDATED"} /\ running = ImageVersion[j]
GivenUp(j) == j \in Started /\ fwu \in {"REJECTED", "FAILED"}

\* A result that is about to be sent, or on its way, is what became of the image.
Verdicts ==
  /\ pc \in {"Succeeded", "Failed"} => JobNamed
  /\ pc = "Succeeded" => Kept(globalJobId.job)
  /\ pc = "Failed" => GivenUp(globalJobId.job)
  /\ uplink # <<>> /\ uplink[1].type = "Succeeded" => Kept(uplink[1].job)
  /\ uplink # <<>> /\ uplink[1].type = "Failed" => GivenUp(uplink[1].job)

TrialInv == OnTrial /\ Reports /\ Recorded /\ Verdicts

\* What a step keeps and does for the promise.
Promised == TrialInv' /\ [Promise!Next]_(Promise!vars)

\* A step that neither ends a download nor a trial keeps the promise: seen from outside
\* nothing happens.
LEMMA SameTrial ==
  ASSUME TrialInv, UNCHANGED <<running, previous, execution, updatedBy>>,
         \/ UNCHANGED fwu
         \/ uplink = <<>> /\ fwu \in BeforeTrial \ {"STAGED"} /\ fwu' \in BeforeTrial \ {"STAGED"},
         pc' \notin {"Succeeded", "Failed"},
         \/ UNCHANGED uplink
         \/ uplink # <<>> /\ uplink' # <<>> /\ uplink'[1] = uplink[1]
         \/ /\ ~Told
            /\ uplink' # <<>> => uplink'[1].type \notin {"InProgress", "Succeeded", "Failed"}
  PROVE  Promised
<1>1. UNCHANGED Started
  BY DEF Started
<1>2. OnTrial'
  BY <1>1 DEF TrialInv, OnTrial, BeforeTrial
<1>3. Told' => Told /\ uplink'[1] = uplink[1]
  BY DEF Told
<1>4. Told => Told' \/ UNCHANGED uplink
  BY DEF Told
<1>5. Reports'
  BY <1>1, <1>3 DEF TrialInv, Reports, BeforeTrial, Told
<1>6. Recorded'
  BY <1>1, <1>4 DEF TrialInv, Recorded, BeforeTrial, Told
<1>7. Verdicts'
  BY <1>1 DEF TrialInv, Verdicts, Kept, GivenUp, BeforeTrial, Told
<1>8. UNCHANGED Promise!vars
  BY DEF Promise!vars, BeforeTrial
<1>9. QED  BY <1>2, <1>5, <1>6, <1>7, <1>8 DEF TrialInv, Promised

\* The steps that leave the platform layer and the publishes alone.
LEMMA QuietPromised ==
  ASSUME TrialInv, UNCHANGED cloudVars,
         \/ RequestJobDocument \/ EmptyJobDocument \/ SameJobDocument \/ DownloadJobDocument
         \/ RequestFileBlock \/ TakeFileBlock \/ ActivateImage \/ ResetFails
         \/ (StartDemo \/ Reconnect) /\ pc = "receive"
  PROVE  Promised
<1>1. UNCHANGED <<palVars, uplink>> /\ pc' \notin {"Succeeded", "Failed"}
  <2>1. CASE RequestJobDocument \/ RequestFileBlock \/ TakeFileBlock \/ ActivateImage \/ ResetFails
    BY <2>1 DEF RequestJobDocument, RequestFileBlock, TakeFileBlock, ActivateImage, ResetFails, netVars
  <2>2. CASE EmptyJobDocument \/ SameJobDocument
    BY <2>2 DEF EmptyJobDocument, SameJobDocument, Receive, netVars
  <2>3. CASE DownloadJobDocument
    BY <2>3 DEF DownloadJobDocument, Download, NewJobDocument, netVars
  <2>4. CASE (StartDemo \/ Reconnect) /\ pc = "receive"
    BY <2>4 DEF StartDemo, Reconnect, Connect, netVars, taskVars
  <2>5. QED  BY <2>1, <2>2, <2>3, <2>4
<1>2. QED  BY <1>1, SameTrial DEF cloudVars, palVars

\* The steps that move the download on in the platform layer.
LEMMA DownloadPromised ==
  ASSUME SystemInv, UpdateInv, TrialInv, UNCHANGED cloudVars,
         DownloaderReady \/ FileBlockHandled \/ CloseFile
  PROVE  Promised
<1>1. /\ UNCHANGED uplink /\ uplink = <<>> /\ pc' \notin {"Succeeded", "Failed"}
      /\ UNCHANGED <<running, previous>>
      /\ \/ UNCHANGED fwu
         \/ fwu = "READY" /\ fwu' = "WRITING"
         \/ fwu = "WRITING" /\ fwu' = "CANDIDATE"
  <2>1. CASE DownloaderReady
    <3>1. pc = "subscribe" /\ pc # "receive" /\ UNCHANGED uplink /\ pc' = "receive"
      BY <2>1 DEF DownloaderReady
    <3>2. uplink = <<>>
      BY <3>1, Resumes DEF UpdateInv
    <3>3. UNCHANGED palVars \/ \E ok \in BOOLEAN, created \in BOOLEAN : otaPal_CreateFileForRx(ok, created)
      BY <2>1 DEF DownloaderReady
    <3>4. QED  BY <3>1, <3>2, <3>3 DEF otaPal_CreateFileForRx, palVars
  <2>2. CASE FileBlockHandled
    <3>1. pc = "write" /\ pc # "receive" /\ UNCHANGED uplink /\ pc' = "receive"
      BY <2>2 DEF FileBlockHandled, netVars
    <3>2. uplink = <<>>
      BY <3>1, Resumes DEF UpdateInv
    <3>3. UNCHANGED <<fwu, running, previous>>
      BY <2>2 DEF FileBlockHandled, WriteFileBlock, otaPal_WriteBlock, palVars
    <3>4. QED  BY <3>1, <3>2, <3>3
  <2>3. CASE CloseFile
    <3>1. uplink = <<>> /\ UNCHANGED uplink /\ pc' = "receive"
      BY <2>3, Receives DEF CloseFile, UpdateInv, netVars, taskVars
    <3>2. QED  BY <2>3, <3>1 DEF CloseFile, otaPal_CloseFile, psa_fwu_finish, palVars
  <2>4. QED  BY <2>1, <2>2, <2>3
<1>2. QED  BY <1>1, SameTrial DEF cloudVars, BeforeTrial

\* The requests say nothing of the trial.
LEMMA RequestPromised ==
  ASSUME SystemInv, UpdateInv, TrialInv, UNCHANGED cloudVars, JobRequested \/ BlockRequested
  PROVE  Promised
<1>1. PICK m \in {Message("StartNext", NoJob, 0), Message("GetBlock", stream, currentBlockOffset % U16)} :
        UNCHANGED uplink \/ prvMQTTPublish(m)
  BY DEF JobRequested, BlockRequested
<1>2. m.type \notin {"InProgress", "Succeeded", "Failed"}
  BY DEF Message
<1>3. UNCHANGED palVars /\ pc' = "receive" /\ UplinkTypeOK(uplink)
  BY TypeParts DEF JobRequested, BlockRequested, SystemInv, SystemTypeOK
<1>4. \/ UNCHANGED uplink
      \/ uplink = <<>> /\ uplink' = <<m>>
      \/ uplink # <<>> /\ uplink' # <<>> /\ uplink'[1] = uplink[1]
  BY <1>1, <1>3, Accepted
<1>5. \/ UNCHANGED uplink
      \/ uplink # <<>> /\ uplink' # <<>> /\ uplink'[1] = uplink[1]
      \/ /\ ~Told
         /\ uplink' # <<>> => uplink'[1].type \notin {"InProgress", "Succeeded", "Failed"}
  BY <1>2, <1>4, Singleton DEF Told
<1>6. QED  BY <1>3, <1>5, SameTrial DEF cloudVars, palVars

\* The device reports what it has made of the image.
LEMMA FinalStatusPromised ==
  ASSUME SystemInv, UpdateInv, TrialInv, NEW status \in {"Succeeded", "Failed"},
         FinalStatusSent(status), UNCHANGED cloudVars
  PROVE  Promised
<1> DEFINE m == Message(status, AddressedJob, 0)
<1>1. /\ pc = status /\ pc # "receive" /\ prvMQTTPublish(m) /\ UplinkTypeOK(uplink)
      /\ UNCHANGED palVars /\ pc' = "receive"
  BY TypeParts DEF FinalStatusSent, SystemInv, SystemTypeOK
<1>2. uplink = <<>>
  BY <1>1, Resumes DEF UpdateInv
<1>3. JobNamed
  BY <1>1 DEF TrialInv, Verdicts
<1>4. AddressedJob = globalJobId.job
  BY <1>3 DEF AddressedJob, JobNamed, Started
<1>5. m.type = status /\ m.job = globalJobId.job
  BY <1>4 DEF Message
<1> HIDE DEF m
<1>6. UNCHANGED uplink \/ (uplink' = <<m>> /\ uplink' # <<>> /\ uplink'[1] = m)
  BY <1>1, <1>2, Accepted, Singleton
<1>7. UNCHANGED Started /\ ~Told /\ ~Told'
  BY <1>2, <1>5, <1>6 DEF cloudVars, Started, Told
<1>8. OnTrial' /\ Reports' /\ Recorded'
  BY <1>1, <1>7 DEF TrialInv, OnTrial, Reports, Recorded, palVars, cloudVars
<1>9. Verdicts'
  <2>2. uplink' # <<>> /\ uplink'[1].type = "Succeeded" => Kept(uplink[1].job)'
    <3>1. SUFFICES ASSUME uplink' # <<>>, uplink'[1].type = "Succeeded" PROVE Kept(uplink[1].job)'
      OBVIOUS
    <3>2. uplink'[1].job = globalJobId.job /\ Kept(globalJobId.job)
      BY <1>1, <1>2, <1>5, <1>6, <3>1 DEF TrialInv, Verdicts
    <3>3. QED  BY <1>1, <1>7, <3>2 DEF Kept, palVars
  <2>3. uplink' # <<>> /\ uplink'[1].type = "Failed" => GivenUp(uplink[1].job)'
    <3>1. SUFFICES ASSUME uplink' # <<>>, uplink'[1].type = "Failed" PROVE GivenUp(uplink[1].job)'
      OBVIOUS
    <3>2. uplink'[1].job = globalJobId.job /\ GivenUp(globalJobId.job)
      BY <1>1, <1>2, <1>5, <1>6, <3>1 DEF TrialInv, Verdicts
    <3>3. QED  BY <1>1, <1>7, <3>2 DEF GivenUp, palVars
  <2>4. QED  BY <1>1, <2>2, <2>3 DEF Verdicts
<1>10. UNCHANGED Promise!vars
  BY <1>1 DEF Promise!vars, palVars, cloudVars
<1>11. QED  BY <1>8, <1>9, <1>10 DEF TrialInv, Promised

\* The device keeps the image on trial or gives it up, and only keeps one that is not
\* older than the one it replaced.
LEMMA SelfTestDecides ==
  ASSUME SystemInv, UpdateInv, TrialInv, Dependable, SelfTestJobDocument, UNCHANGED cloudVars
  PROVE  /\ JobNamed' /\ globalJobId'.job \in Started /\ running = ImageVersion[globalJobId'.job]
         /\ fwu = "TRIAL" /\ uplink = <<>> /\ uplink' = <<>>
         /\ UNCHANGED <<running, previous>>
         /\ \/ fwu' \in {"READY", "UPDATED"} /\ pc' = "Succeeded" /\ running >= previous
            \/ fwu' = "REJECTED" /\ pc' = "Failed"
<1>1. /\ NewJobDocument /\ pc' \in {"Succeeded", "Failed"} /\ fwu = "TRIAL"
      /\ Receive("ReceivedJobDocument") /\ jobDocBuffer.job \in Jobs
      /\ UNCHANGED <<image, sysCtx, running, previous, uplink, jobDocBuffer>>
  BY DEF SelfTestJobDocument, PendingCommit, otaPal_SetAccepted, otaPal_SetRejected, NewJobDocument,
         netVars
<1>2. JobNamed' /\ ~sysCtx /\ globalJobId'.job = jobDocBuffer.job
  BY <1>1, NewJobFound DEF JobSteps, BlockSteps, EndSteps
<1>3. Baton = "ReceivedJobDocument" /\ uplink = <<>>
  BY <1>1, Receives DEF UpdateInv
<1> DEFINE j == jobDocBuffer.job
<1>4. j \in Started /\ jobDocBuffer.updatedBy = updatedBy[j]
  BY <1>1, <1>3 DEF UpdateInv, JobBaton, Current, Started
<1>5. running = ImageVersion[j]
  BY <1>1, <1>4 DEF TrialInv, OnTrial, UpdateInv, OneJob
<1>6. updatedBy[j] = previous \/ previous = running
  BY <1>1, <1>3, <1>4, <1>5 DEF TrialInv, Recorded, Told
<1>7. /\ running \in Nat /\ previous \in Nat /\ updatedBy[j] \in Nat
      /\ updatedBy[j] % U16 = updatedBy[j]
  <2>1. updatedBy[j] \in Versions
    BY <1>1 DEF SystemInv, SystemTypeOK
  <2>2. \A v \in Versions : v \in 0 .. U16 - 1
    BY DEF Dependable
  <2>3. updatedBy[j] \in 0 .. U16 - 1
    BY <2>1, <2>2
  <2>4. U16 \in Nat \ {0}
    BY AgentAssumption
  <2>5. running \in Nat /\ previous \in Nat
    BY TypeParts DEF SystemInv, SystemTypeOK, PalTypeOK
  <2>6. \A v \in 0 .. U16 - 1 : v \in Nat /\ v % U16 = v
    BY <2>4
  <2>7. QED  BY <2>3, <2>5, <2>6
<1>8. \/ fwu' \in {"READY", "UPDATED"} /\ pc' = "Succeeded" /\ running >= previous
      \/ fwu' = "REJECTED" /\ pc' = "Failed"
  <2>1. CASE jobDocBuffer.updatedBy % U16 < running /\ otaPal_SetAccepted /\ pc' = "Succeeded"
    <3>1. running >= previous
      BY <1>4, <1>6, <1>7, <2>1
    <3>2. fwu' \in {"READY", "UPDATED"}
      BY <1>1, <1>2, <2>1 DEF otaPal_SetAccepted, Dependable
    <3>3. QED  BY <2>1, <3>1, <3>2
  <2>2. CASE otaPal_SetRejected /\ pc' = "Failed"
    BY <1>1, <1>2, <2>2 DEF otaPal_SetRejected, Dependable
  <2>3. QED  BY <2>1, <2>2 DEF SelfTestJobDocument
<1>9. QED  BY <1>1, <1>2, <1>3, <1>4, <1>5, <1>8

\* Seen from outside, the self test keeps the image on trial or gives it up.
LEMMA SelfTestPromised ==
  ASSUME SystemInv, UpdateInv, TrialInv, Dependable, SelfTestJobDocument, UNCHANGED cloudVars
  PROVE  Promised
<1> DEFINE j == globalJobId'.job
<1>1. /\ JobNamed' /\ j \in Started /\ running = ImageVersion[j]
      /\ fwu = "TRIAL" /\ uplink = <<>> /\ uplink' = <<>> /\ UNCHANGED <<running, previous>>
      /\ \/ fwu' \in {"READY", "UPDATED"} /\ pc' = "Succeeded" /\ running >= previous
         \/ fwu' = "REJECTED" /\ pc' = "Failed"
  BY SelfTestDecides
<1>2. ~Told /\ ~Told' /\ UNCHANGED Started
  BY <1>1 DEF Told, Started, cloudVars
<1>3. OnTrial' /\ Reports' /\ Verdicts'
  BY <1>1, <1>2 DEF OnTrial, Reports, Verdicts, Kept, GivenUp
<1>4. Recorded'
  <2>1. ASSUME NEW i \in Started' PROVE running' = ImageVersion[i]
    BY <1>1, <1>2, <2>1 DEF UpdateInv, OneJob
  <2>2. QED  BY <1>1, <2>1 DEF Recorded
<1>5. Promise!Keep \/ Promise!GiveUp
  BY <1>1 DEF Promise!Keep, Promise!GiveUp, cloudVars
<1>6. QED  BY <1>3, <1>4, <1>5 DEF TrialInv, Promised, Promise!Next

\* The only genuine image that the slot can hold is that of the job under way.
LEMMA GenuineIsStream ==
  ASSUME SystemInv, UpdateInv, fwu \in {"CANDIDATE", "STAGED"}, NEW j \in Jobs, Genuine(j)
  PROVE  j = stream /\ stream \in Started
<1>1. /\ JobNamed /\ stream = globalJobId.job /\ totalBytesReceived = NumBlocks - numOfBlocksRemaining
      /\ numOfBlocksRemaining = 0
  BY DEF UpdateInv, InHand
<1>2. totalBytesReceived = NumBlocks /\ 0 \in Slot /\ 0 < NumBlocks /\ 0 \in 0 .. NumBlocks - 1
  BY <1>1, PalAssumption DEF Slot
<1>3. image[0] = [job |-> stream, index |-> 0]
  BY <1>2 DEF UpdateInv, InOrder
<1>4. image[0] = [job |-> j, index |-> 0]
  BY <1>2 DEF Genuine
<1>5. [job |-> stream, index |-> 0].job = stream /\ [job |-> j, index |-> 0].job = j
  OBVIOUS
<1>6. j = stream
  BY <1>3, <1>4, <1>5
<1>7. QED  BY <1>1, <1>6 DEF JobNamed

\* The image of the job under way goes on trial.
LEMMA Tried ==
  ASSUME SystemInv, UpdateInv, TrialInv, fwu \in {"CANDIDATE", "STAGED"}, TryImage,
         UNCHANGED <<execution, updatedBy>>, pc' \notin {"Succeeded", "Failed"},
         \/ UNCHANGED uplink /\ fwu = "STAGED"
         \/ Told' /\ uplink'[1].job \in Started /\ uplink'[1].arg = running
  PROVE  Promised
<1>1. PICK j \in Jobs : Genuine(j) /\ running' = ImageVersion[j]
  BY DEF TryImage
<1>2. j \in Started /\ UNCHANGED Started /\ fwu' = "TRIAL" /\ previous' = running
  BY <1>1, GenuineIsStream DEF TryImage, Started
<1>3. OnTrial'
  BY <1>1, <1>2 DEF OnTrial
<1>4. Reports'
  BY <1>2 DEF TrialInv, Reports, BeforeTrial, Told
<1>5. Recorded'
  BY <1>2 DEF TrialInv, Recorded, BeforeTrial, Told
<1>6. Verdicts'
  BY <1>2 DEF TrialInv, Verdicts, Kept, GivenUp, Told
<1>7. Promise!Try(j)
  BY <1>1, <1>2 DEF Promise!Try, Started
<1>8. QED  BY <1>3, <1>4, <1>5, <1>6, <1>7 DEF TrialInv, Promised, Promise!Next

\* The installation is reported, and the image staged, tried at once, or neither.
LEMMA StatusSentPromised ==
  ASSUME SystemInv, UpdateInv, TrialInv, Dependable, StatusSent, UNCHANGED cloudVars
  PROVE  Promised
<1>1. /\ Baton = "status" /\ connected /\ uplink = <<>> /\ UplinkTypeOK(uplink)
      /\ UNCHANGED <<execution, updatedBy>>
  <2>1. pc = "status" /\ pc # "receive"
    BY DEF StatusSent
  <2>2. QED  BY <2>1, Resumes, TypeParts DEF UpdateInv, SystemInv, SystemTypeOK, cloudVars
<1>2. /\ fwu \in {"WRITING", "CANDIDATE"} /\ JobNamed /\ globalJobId.job \in Started
      /\ jobFields.job \in Jobs
  BY <1>1 DEF UpdateInv, EndBaton, EndSteps, InHand, JobNamed, Started
<1>3. AddressedJob = globalJobId.job
  BY <1>2 DEF AddressedJob, JobNamed, Started
<1> DEFINE m == Message("InProgress", AddressedJob, running)
<1>4. prvMQTTPublish(m)
  BY <1>2, PalAssumption DEF StatusSent
<1>5. m.type = "InProgress" /\ m.job \in Started /\ m.arg = running
  BY <1>2, <1>3 DEF Message
<1> HIDE DEF m
<1>6. uplink' = <<m>>
  BY <1>1, <1>4 DEF prvMQTTPublish, Dependable
<1>7. Told' /\ uplink'[1].job \in Started /\ uplink'[1].arg = running
  BY <1>5, <1>6, Singleton DEF Told
<1>8. pc' \in {"reset", "receive"}
  BY DEF StatusSent
<1>9. \/ fwu = "CANDIDATE" /\ TryImage
      \/ fwu' \in BeforeTrial /\ UNCHANGED <<running, previous>>
  BY <1>2 DEF StatusSent, otaPal_ActivateNewImage, BeforeTrial, palVars
<1>10. CASE fwu = "CANDIDATE" /\ TryImage
  BY <1>1, <1>7, <1>8, <1>10, Tried
<1>11. CASE fwu' \in BeforeTrial /\ UNCHANGED <<running, previous>>
  <2>1. UNCHANGED Started
    BY <1>1 DEF Started
  <2>2. OnTrial' /\ Reports'
    BY <1>7, <1>11, <2>1 DEF OnTrial, Reports, BeforeTrial
  <2>3. Recorded'
    BY <1>1, <1>2, <1>7, <1>11, <2>1 DEF TrialInv, Recorded, BeforeTrial
  <2>4. Verdicts'
    BY <1>7, <1>8 DEF Verdicts, Told
  <2>5. UNCHANGED Promise!vars
    BY <1>1, <1>2, <1>11 DEF Promise!vars, BeforeTrial
  <2>6. QED  BY <2>2, <2>3, <2>4, <2>5 DEF TrialInv, Promised
<1>12. QED  BY <1>9, <1>10, <1>11

\* A reset starts a trial, or ends one, or neither.
LEMMA RebootPromised ==
  ASSUME SystemInv, UpdateInv, TrialInv, Dependable, Reboot, UNCHANGED <<execution, updatedBy>>
  PROVE  Promised
<1>1. UNCHANGED <<uplink, Started, Told>> /\ pc' = "receive"
  BY DEF Reboot, UplinkKept, Dependable, Started, Told
<1>2. CASE fwu = "STAGED" /\ TryImage
  BY <1>1, <1>2, Tried
<1>3. CASE fwu \in {"TRIAL", "REJECTED"} /\ fwu' = "FAILED" /\ running' = previous /\ UNCHANGED previous
  <2>1. OnTrial' /\ Reports' /\ Recorded'
    BY <1>1, <1>3 DEF TrialInv, OnTrial, Reports, Recorded, BeforeTrial, Told
  <2>2. Verdicts'
    BY <1>1, <1>3 DEF TrialInv, Verdicts, Kept, GivenUp
  <2>3. Promise!GoBack
    BY <1>3 DEF Promise!GoBack
  <2>4. QED  BY <2>1, <2>2, <2>3 DEF TrialInv, Promised, Promise!Next
<1>4. CASE /\ UNCHANGED <<running, previous>>
           /\ \/ fwu = "STAGED" /\ fwu' = "FAILED"
              \/ fwu \in {"WRITING", "CANDIDATE"} /\ fwu' = "READY"
              \/ fwu \in {"READY", "FAILED", "UPDATED"} /\ UNCHANGED fwu
  <2>1. OnTrial'
    BY <1>4 DEF OnTrial
  <2>2. Reports' /\ Recorded'
    BY <1>1, <1>4 DEF TrialInv, Reports, Recorded, BeforeTrial, Told
  <2>3. Verdicts'
    BY <1>1, <1>4 DEF TrialInv, Verdicts, Kept, GivenUp
  <2>4. UNCHANGED Promise!vars
    BY <1>4 DEF Promise!vars
  <2>5. QED  BY <2>1, <2>2, <2>3, <2>4 DEF TrialInv, Promised
<1>5. QED  BY <1>2, <1>3, <1>4 DEF Reboot, Boot

\* A job is started while no other is: an image that is staged or on trial has one.
LEMMA StartNextPromised ==
  ASSUME SystemInv, UpdateInv, TrialInv, ServeStartNext(1)
  PROVE  Promised
<1>1. /\ UNCHANGED <<palVars, updatedBy>> /\ pc' = "receive" /\ ~Told /\ uplink' = <<>>
  <2>1. UplinkServed(1) /\ uplink[1].type = "StartNext" /\ UNCHANGED updatedBy
    BY DEF ServeStartNext
  <2>2. QED  BY <2>1, ServedQuietly DEF Told
<1>2. CASE UNCHANGED execution
  <2>1. UNCHANGED Started /\ ~Told'
    BY <1>1, <1>2 DEF Started, Told
  <2>2. QED  BY <1>1, <1>2, SameTrial DEF palVars
<1>3. ASSUME NEW j \in (IF Started # {} THEN Started ELSE Queued),
             execution' = [execution EXCEPT ![j] = IF @ = "QUEUED" THEN "IN_PROGRESS" ELSE @],
             ~UNCHANGED execution
      PROVE  Promised
  <2>1. execution \in [Jobs -> Stages] /\ j \in Jobs
    BY <1>3 DEF SystemInv, SystemTypeOK, Started, Queued
  <2>2. Started = {} /\ j \in Queued
    <3>1. execution[j] = "QUEUED"
      BY <1>3, <2>1
    <3>2. QED  BY <1>3, <3>1 DEF Started, Queued
  <2>3. fwu \notin {"STAGED", "TRIAL"}
    BY <2>2 DEF TrialInv, OnTrial, UpdateInv, InHand, JobNamed
  <2>4. Started' = {j} /\ execution'[j] = "IN_PROGRESS"
    BY <1>3, <2>1, <2>2 DEF Started, Queued
  <2>5. OnTrial' /\ Reports' /\ Recorded' /\ Verdicts'
    BY <1>1, <2>3, <2>4 DEF OnTrial, Reports, Recorded, Verdicts, Told, palVars
  <2>6. UNCHANGED Promise!vars
    BY <1>1, <1>3, <2>1 DEF Promise!vars, palVars
  <2>7. QED  BY <2>5, <2>6 DEF TrialInv, Promised
<1>4. QED  BY <1>2, <1>3 DEF ServeStartNext

\* Blocks say nothing of the trial.
LEMMA GetBlockPromised ==
  ASSUME SystemInv, UpdateInv, TrialInv, ServeGetBlock(1)
  PROVE  Promised
<1>1. UplinkServed(1) /\ uplink[1].type = "GetBlock" /\ UNCHANGED <<execution, updatedBy>>
  BY DEF ServeGetBlock
<1>2. UNCHANGED palVars /\ pc' = "receive" /\ uplink' = <<>> /\ ~Told
  BY <1>1, ServedQuietly DEF Told
<1>3. QED  BY <1>1, <1>2, SameTrial DEF palVars

\* The report of the installation is recorded with the job.
LEMMA ReportPromised ==
  ASSUME SystemInv, UpdateInv, TrialInv, ServeUpdate(1), uplink[1].type = "InProgress"
  PROVE  Promised
<1> DEFINE j == uplink[1].job
<1>1. /\ UplinkServed(1)
      /\ IF j \in Jobs /\ execution[j] = "IN_PROGRESS"
         THEN /\ execution' = [execution EXCEPT ![j] = "SELF_TEST"]
              /\ updatedBy' = [updatedBy EXCEPT ![j] = uplink[1].arg]
         ELSE UNCHANGED <<execution, updatedBy>>
  BY DEF ServeUpdate
<1>2. UNCHANGED <<palVars, queue, pc>> /\ uplink # <<>> /\ Told
  BY <1>1, ServedQuietly DEF Told
<1>3. pc \notin {"Succeeded", "Failed"}
  BY <1>2 DEF UpdateInv, OneThread, UplinkShape, Baton
<1>4. uplink' # <<>> => uplink'[1].type = "StartNext"
  <2>1. Len(uplink) = 1 => uplink' = <<>>
    BY <1>1, ServedQuietly
  <2>2. Len(uplink) = 2 => uplink' = <<uplink[2]>> /\ uplink[2].type = "StartNext"
    BY <1>1, Serves DEF UpdateInv
  <2>3. Len(uplink) \in 1 .. 2
    BY <1>1, Serves DEF UpdateInv
  <2>4. QED  BY <2>1, <2>2, <2>3, Singleton
<1>5. /\ j \in Started
      /\ fwu \in BeforeTrial => uplink[1].arg = running
      /\ fwu = "TRIAL" => uplink[1].arg = previous
  BY <1>2 DEF TrialInv, Reports
<1>6. execution \in [Jobs -> Stages] /\ updatedBy \in [Jobs -> Versions] /\ j \in Jobs
  BY <1>5 DEF SystemInv, SystemTypeOK, Started
<1> HIDE DEF j
<1>7. UNCHANGED Started /\ execution'[j] = "SELF_TEST"
  BY <1>1, <1>5, <1>6 DEF Started
<1>8. /\ execution[j] = "IN_PROGRESS" => updatedBy'[j] = uplink[1].arg
      /\ execution[j] # "IN_PROGRESS" => updatedBy'[j] = updatedBy[j] /\ execution[j] = "SELF_TEST"
  BY <1>1, <1>5, <1>6 DEF Started
<1>9. OnTrial' /\ Reports' /\ Verdicts'
  BY <1>2, <1>3, <1>4, <1>7 DEF TrialInv, OnTrial, Reports, Verdicts, Told, palVars
<1>10. Recorded'
  <2>1. \A i \in Started' : i = j
    BY <1>5, <1>7 DEF UpdateInv, OneJob
  <2>2. QED
    BY <1>2, <1>5, <1>7, <1>8, <2>1 DEF TrialInv, Recorded, palVars
<1>11. UNCHANGED Promise!vars
  BY <1>1, <1>2, <1>6 DEF Promise!vars, palVars
<1>12. QED  BY <1>9, <1>10, <1>11 DEF TrialInv, Promised

\* The outcome that is recorded is the one the device came to.
LEMMA ResultPromised ==
  ASSUME SystemInv, UpdateInv, TrialInv, ServeUpdate(1), uplink[1].type \in {"Succeeded", "Failed"}
  PROVE  Promised
<1>0. PICK j : j = uplink[1].job
  OBVIOUS
<1> DEFINE result == IF uplink[1].type = "Succeeded" THEN "SUCCEEDED" ELSE "FAILED"
<1>1. /\ UplinkServed(1) /\ UNCHANGED updatedBy
      /\ \/ UNCHANGED execution
         \/ execution' = [execution EXCEPT ![j] = result]
  BY <1>0 DEF ServeUpdate
<1>2. /\ UNCHANGED palVars /\ pc' = "receive" /\ uplink' = <<>> /\ uplink # <<>> /\ ~Told /\ ~Told'
  BY <1>1, ServedQuietly DEF Told
<1>3. /\ uplink[1].type = "Succeeded" => Kept(j)
      /\ uplink[1].type = "Failed" => GivenUp(j)
  BY <1>0, <1>2 DEF TrialInv, Verdicts
<1>4. /\ execution \in [Jobs -> Stages] /\ j \in Jobs
      /\ execution[j] \notin {"SUCCEEDED", "FAILED"}
      /\ fwu \notin {"TRIAL", "STAGED"}
  BY <1>3 DEF SystemInv, SystemTypeOK, Kept, GivenUp, Started
<1>5. CASE UNCHANGED execution
  BY <1>1, <1>2, <1>5, SameTrial DEF palVars
<1>6. CASE execution' = [execution EXCEPT ![j] = result]
  <2>1. \A i \in Started' : i \in Started /\ execution'[i] = execution[i]
    BY <1>4, <1>6 DEF Started
  <2>2. OnTrial' /\ Reports' /\ Verdicts'
    BY <1>2, <1>4 DEF OnTrial, Reports, Verdicts, palVars
  <2>3. Recorded'
    BY <1>1, <1>2, <1>4, <2>1 DEF TrialInv, Recorded, palVars
  <2>4. Promise!Succeed(j) \/ Promise!Fail(j)
    <3>1. CASE uplink[1].type = "Succeeded"
      BY <1>2, <1>3, <1>4, <1>6, <3>1 DEF Promise!Succeed, Kept, palVars
    <3>2. CASE uplink[1].type = "Failed"
      BY <1>2, <1>3, <1>4, <1>6, <3>2 DEF Promise!Fail, GivenUp, palVars
    <3>3. QED  BY <3>1, <3>2
  <2>5. QED  BY <1>4, <2>2, <2>3, <2>4 DEF TrialInv, Promised, Promise!Next
<1>7. QED  BY <1>1, <1>5, <1>6

\* What is delivered says nothing of the trial until the agent task takes it.
LEMMA DeliverPromised ==
  ASSUME SystemInv, UpdateInv, TrialInv, Deliver
  PROVE  Promised
<1>1. pc = "receive"
  BY Arrives DEF Deliver, DeliverJob, DeliverBlock, UpdateInv
<1>2. UNCHANGED <<palVars, uplink, pc>>
  BY DEF Deliver, DeliverJob, DeliverBlock, JobDocArrives, BlockArrives, vars, agentVars, netVars, taskVars
<1>3. UNCHANGED <<execution, updatedBy>>
  BY DEF Deliver, DeliverJob, DeliverBlock
<1>4. QED  BY <1>1, <1>2, <1>3, SameTrial DEF palVars

\* Every step of the device keeps the promise.
LEMMA DevicePromised ==
  ASSUME SystemInv, UpdateInv, TrialInv, Dependable, Device
  PROVE  Promised
<1>1. UNCHANGED cloudVars
  BY DEF Device, cloudVars
<1>2. CASE AgentTask
  BY <1>1, <1>2, NeverSuspended, NotUnparsed, QuietPromised, DownloadPromised, RequestPromised,
     FinalStatusPromised, SelfTestPromised, StatusSentPromised
  DEF AgentTask
<1>3. CASE StartDemo \/ Reconnect
  <2>1. pc = "receive"
    BY <1>3 DEF StartDemo, Reconnect, Connect, UpdateInv, OneThread
  <2>2. QED  BY <1>1, <1>3, <2>1, QuietPromised
<1>4. CASE Poll \/ ResetFails
  BY <1>1, <1>4, NeverSuspended, QuietPromised DEF Poll
<1>5. QED  BY <1>2, <1>3, <1>4 DEF Device

\* Every step of the system keeps the promise.
LEMMA UpdatePromised ==
  ASSUME SystemInv, UpdateInv, TrialInv, Dependable, [SystemNext]_systemVars
  PROVE  Promised
<1>1. Undisturbed
  BY DEF Dependable
<1>2. CASE Device
  BY <1>2, DevicePromised
<1>3. CASE Serve
  <2>1. ServeStartNext(1) \/ ServeGetBlock(1) \/ ServeUpdate(1)
    BY <1>1, <1>3 DEF Serve, Undisturbed
  <2>2. ServeUpdate(1) => uplink[1].type \in {"InProgress", "Succeeded", "Failed"}
    BY DEF ServeUpdate
  <2>3. QED  BY <2>1, <2>2, StartNextPromised, GetBlockPromised, ReportPromised, ResultPromised
<1>4. CASE Deliver
  BY <1>4, DeliverPromised
<1>5. CASE Drop
  BY <1>1, <1>5 DEF Drop, Undisturbed, SystemInv, SystemTypeOK
<1>6. CASE Crash \/ Reset
  BY <1>6, RebootPromised DEF Crash, Reset
<1>7. CASE UNCHANGED systemVars
  <2>1. UNCHANGED <<palVars, execution, updatedBy, uplink, pc, globalJobId>>
    BY <1>7 DEF systemVars, vars, agentVars, taskVars, jobVars, netVars, cloudVars
  <2>2. TrialInv'
    BY <2>1
    DEF TrialInv, OnTrial, Reports, Recorded, Verdicts, Kept, GivenUp, JobNamed, Told, Started, palVars
  <2>3. UNCHANGED Promise!vars
    BY <2>1 DEF Promise!vars, palVars
  <2>4. QED  BY <2>2, <2>3 DEF Promised
<1>8. QED  BY <1>2, <1>3, <1>4, <1>5, <1>6, <1>7 DEF SystemNext

\* Over-the-air updates keep the promise of UpdateJobs: an image is tried only for a job
\* that is open, kept only if it is not older than the one it replaced, and the outcome
\* that receivedJobDocumentHandler and sendFinalJobStatusMessage bring about in the cloud
\* is the one the device came to, wherever the power fails and whatever call of the
\* download fails.
THEOREM UpdateKeepsPromise ==
  ASSUME Dependable
  PROVE  SystemSpec => ImplementsUpdateJobs
<1>1. Undisturbed
  BY DEF Dependable
<1>2. SystemInit => TrialInv /\ Promise!Init
  <2> SUFFICES ASSUME SystemInit PROVE TrialInv /\ Promise!Init
    OBVIOUS
  <2>1. /\ fwu = "READY" /\ uplink = <<>> /\ pc = "receive" /\ Started = {} /\ ~Told
        /\ running = FactoryVersion /\ previous = FactoryVersion
        /\ \A j \in Jobs : execution[j] = "QUEUED"
    BY DEF SystemInit, Init, AgentInit, PalInit, Started, Told
  <2>2. TrialInv
    BY <2>1 DEF TrialInv, OnTrial, Reports, Recorded, Verdicts
  <2>3. Promise!Init
    BY <2>1 DEF Promise!Init
  <2>4. QED  BY <2>2, <2>3
<1>3. SystemInv /\ UpdateInv /\ TrialInv /\ [SystemNext]_systemVars
        => TrialInv' /\ [Promise!Next]_(Promise!vars)
  BY UpdatePromised DEF Promised
<1>4. QED
  BY <1>1, <1>2, <1>3, UpdateInvariant, PTL DEF SystemSpec, ImplementsUpdateJobs, Promise!Spec

\* In particular a job is recorded as succeeded only when the device has its image for
\* good: the result of otaPal_SetPlatformImageState, which receivedJobDocumentHandler does
\* not look at, does not matter while the call does not fail.
THEOREM SucceededImagesKept ==
  ASSUME Dependable
  PROVE  SystemSpec => SucceededMeansCommitted
<1>1. Undisturbed
  BY DEF Dependable
<1>2. SystemInit => TrialInv
  BY DEF SystemInit, Init, AgentInit, PalInit, Started, Told, TrialInv, OnTrial, Reports, Recorded, Verdicts
<1>3. SystemInv /\ UpdateInv /\ TrialInv /\ [SystemNext]_systemVars => TrialInv'
  BY UpdatePromised DEF Promised
<1>4. SystemInv /\ TrialInv /\ [SystemNext]_systemVars
        => [\A j \in Jobs : execution[j] # "SUCCEEDED" /\ execution'[j] = "SUCCEEDED" =>
              KeptVersion = ImageVersion[j]]_systemVars
  <2> SUFFICES ASSUME SystemInv, TrialInv, SystemNext, NEW j \in Jobs,
                      execution[j] # "SUCCEEDED", execution'[j] = "SUCCEEDED"
               PROVE  KeptVersion = ImageVersion[j]
    OBVIOUS
  <2>1. execution \in [Jobs -> Stages]
    BY DEF SystemInv, SystemTypeOK
  <2>2. Serve
    BY DEF SystemNext, Device, cloudVars, Deliver, DeliverJob, DeliverBlock, Drop, Crash, Reset
  <2>3. ServeUpdate(1)
    BY <1>1, <2>1, <2>2 DEF Serve, ServeStartNext, ServeGetBlock, Undisturbed
  <2>4. uplink # <<>> /\ uplink[1].type = "Succeeded" /\ uplink[1].job = j
    BY <2>1, <2>3 DEF ServeUpdate, UplinkServed
  <2>5. Kept(j)
    BY <2>4 DEF TrialInv, Verdicts
  <2>6. QED  BY <2>5 DEF Kept, KeptVersion
<1>5. QED
  BY <1>1, <1>2, <1>3, <1>4, UpdateInvariant, PTL DEF SystemSpec, SucceededMeansCommitted

\* Nothing but the self test keeps an image on trial.
LEMMA KeptByTheSelfTest ==
  ASSUME SystemNext, fwu = "TRIAL", fwu' \in {"READY", "UPDATED"}
  PROVE  SelfTestJobDocument /\ UNCHANGED cloudVars
<1>1. ~UNCHANGED fwu /\ ~UNCHANGED palVars /\ ~UNCHANGED vars
  BY DEF vars, palVars
<1>2. Device
  <2>1. ~Serve
    BY <1>1 DEF Serve, ServeStartNext, ServeGetBlock, ServeUpdate, UplinkServed
  <2>2. ~Deliver
    BY <1>1 DEF Deliver, DeliverJob, DeliverBlock, JobDocArrives, BlockArrives
  <2>3. ~Drop
    BY <1>1 DEF Drop, Disconnect
  <2>4. ~Crash /\ ~Reset
    BY DEF Crash, Reset, Reboot, Boot
  <2>5. QED  BY <2>1, <2>2, <2>3, <2>4 DEF SystemNext
<1>3. AgentTask
  <2>1. ~StartDemo /\ ~Poll /\ ~Reconnect /\ ~ResetFails
    BY <1>1 DEF StartDemo, Poll, DemoSuspend, DemoResume, DemoSend, Reconnect, Connect, ResetFails
  <2>2. QED  BY <1>2, <2>1 DEF Device
<1>4. SelfTestJobDocument
  <2>1. ~RequestJobDocument /\ ~JobRequested /\ ~DropJobDocument /\ ~EmptyJobDocument
    BY <1>1 DEF RequestJobDocument, JobRequested, DropJobDocument, EmptyJobDocument
  <2>2. ~SameJobDocument /\ ~UnparsedJobDocument /\ ~DownloadJobDocument
    BY <1>1 DEF SameJobDocument, UnparsedJobDocument, DownloadJobDocument, Download
  <2>3. \A status : ~FinalStatusSent(status)
    BY <1>1 DEF FinalStatusSent
  <2>4. ~DownloaderReady
    BY <1>1 DEF DownloaderReady, otaPal_CreateFileForRx
  <2>5. ~RequestFileBlock /\ ~BlockRequested /\ ~DropFileBlock /\ ~TakeFileBlock
    BY <1>1 DEF RequestFileBlock, BlockRequested, DropFileBlock, TakeFileBlock
  <2>6. ~FileBlockHandled
    BY <1>1 DEF FileBlockHandled, WriteFileBlock, otaPal_WriteBlock
  <2>7. ~CloseFile /\ ~ActivateImage
    BY <1>1 DEF CloseFile, otaPal_CloseFile, psa_fwu_finish, ActivateImage
  <2>8. ~StatusSent
    BY <1>1 DEF StatusSent, otaPal_ActivateNewImage
  <2>9. ~Suspend /\ ~Resume
    BY <1>1 DEF Suspend, Resume
  <2>10. QED
    BY <1>3, <2>1, <2>2, <2>3, <2>4, <2>5, <2>6, <2>7, <2>8, <2>9 DEF AgentTask
<1>5. QED  BY <1>2, <1>4 DEF Device

\* An image that the device keeps is never older than the one it replaced:
\* receivedJobDocumentHandler sets it as rejected otherwise. Once the connection is lost
\* that is false, as the run V_Downgrade shows.
THEOREM VersionsNeverFall ==
  ASSUME Dependable
  PROVE  SystemSpec => NeverDowngraded
<1>1. Undisturbed
  BY DEF Dependable
<1>2. SystemInit => TrialInv
  BY DEF SystemInit, Init, AgentInit, PalInit, Started, Told, TrialInv, OnTrial, Reports, Recorded, Verdicts
<1>3. SystemInv /\ UpdateInv /\ TrialInv /\ [SystemNext]_systemVars => TrialInv'
  BY UpdatePromised DEF Promised
<1>4. SystemInv /\ UpdateInv /\ TrialInv /\ [SystemNext]_systemVars
        => [fwu = "TRIAL" /\ fwu' \in {"READY", "UPDATED"} => running >= previous]_systemVars
  BY KeptByTheSelfTest, SelfTestDecides
<1>5. QED
  BY <1>1, <1>2, <1>3, <1>4, UpdateInvariant, PTL DEF SystemSpec, NeverDowngraded

\* What is appended to the empty sequence is alone in it.
LEMMA AppendToEmpty ==
  ASSUME NEW e
  PROVE  Append(<<>>, e) = <<e>>
<1>1. <<>> \in Seq({e}) /\ Len(<<>>) = 0
  BY EmptySeq
<1>2. Append(<<>>, e) \in [1 .. 1 -> {e}] /\ Append(<<>>, e)[1] = e
  <2>1. /\ Append(<<>>, e) \in Seq({e}) /\ Len(Append(<<>>, e)) = 1
        /\ Append(<<>>, e)[1] = e
    BY <1>1, AppendProperties
  <2>2. QED  BY <2>1, LenProperties
<1>3. <<e>> \in [1 .. 1 -> {e}]
  OBVIOUS
<1>4. QED  BY <1>2, <1>3

\* Nothing but the end of the download asks for the activation.
LEMMA AskedByCloseFile ==
  ASSUME SystemInv, UpdateInv, Undisturbed, SystemNext, Receive("CloseFile"),
         queue' = Append(Tail(queue), Event("ActivateImage"))
  PROVE  CloseFile
<1>1. /\ Baton = "CloseFile" /\ queue[1].id = "CloseFile" /\ Head(queue).id = "CloseFile"
      /\ Tail(queue) = <<>> /\ queue # <<>>
      /\ pc = "receive" /\ down = <<>> /\ started /\ connected /\ otaAgentState # "Suspended"
  BY Receives DEF UpdateInv, Receive
<1>2. queue' = <<Event("ActivateImage")>> /\ queue'[1].id = "ActivateImage"
  <2>1. queue' = Append(<<>>, Event("ActivateImage"))
    BY <1>1
  <2>2. queue' = <<Event("ActivateImage")>>
    BY <2>1, AppendToEmpty
  <2>3. Event("ActivateImage").id = "ActivateImage"
    BY DEF Event
  <2>4. QED  BY <2>2, <2>3, Singleton
<1>3. ~UNCHANGED queue /\ queue' # <<>>
  BY <1>1, <1>2
<1>4. \A id : Receive(id) => id = "CloseFile"
  BY <1>1 DEF Receive
<1>5. Device
  <2>1. ~Serve
    BY <1>3 DEF Serve, ServeStartNext, ServeGetBlock, ServeUpdate, UplinkServed
  <2>2. ~Deliver
    BY <1>1 DEF Deliver, DeliverJob, DeliverBlock
  <2>3. ~Drop
    BY DEF Drop, Undisturbed, SystemInv, SystemTypeOK
  <2>4. ~Crash /\ ~Reset
    BY <1>3 DEF Crash, Reset, Reboot
  <2>5. QED  BY <2>1, <2>2, <2>3, <2>4 DEF SystemNext
<1>6. AgentTask
  <2>1. ~StartDemo /\ ~Poll /\ ~Reconnect /\ ~ResetFails
    BY <1>1 DEF StartDemo, Poll, DemoSuspend, DemoResume, Reconnect, Connect, ResetFails
  <2>2. QED  BY <1>5, <2>1 DEF Device
<1>7. QED
  <2>1. ~RequestJobDocument /\ ~JobRequested /\ ~DropJobDocument /\ ~EmptyJobDocument
    BY <1>1, <1>4 DEF RequestJobDocument, JobRequested, DropJobDocument, EmptyJobDocument
  <2>2. /\ ~SameJobDocument /\ ~UnparsedJobDocument /\ ~SelfTestJobDocument
        /\ ~DownloadJobDocument
    BY <1>4
    DEF SameJobDocument, UnparsedJobDocument, SelfTestJobDocument, DownloadJobDocument, Download,
        NewJobDocument
  <2>3. \A status \in {"Succeeded", "Failed"} : ~FinalStatusSent(status)
    BY <1>1 DEF FinalStatusSent
  <2>4. ~DownloaderReady /\ ~BlockRequested /\ ~FileBlockHandled /\ ~StatusSent
    BY <1>1 DEF DownloaderReady, BlockRequested, FileBlockHandled, StatusSent
  <2>5. ~RequestFileBlock /\ ~DropFileBlock /\ ~TakeFileBlock /\ ~ActivateImage
    BY <1>4 DEF RequestFileBlock, DropFileBlock, TakeFileBlock, ActivateImage
  <2>6. ~Suspend /\ ~Resume
    BY <1>4 DEF Suspend, Resume
  <2>7. QED
    BY <1>6, <2>1, <2>2, <2>3, <2>4, <2>5, <2>6 DEF AgentTask

\* otaPal_CloseFile reports a file as closed only when the slot holds the image that was
\* signed, while psa_fwu_finish does not fail for a reason of its own. When it is refused,
\* as after a loss of the connection it may be, the answer is -1, that is true: the run
\* V_Close.
THEOREM ClosedFilesVerified ==
  ASSUME Undisturbed, "finish" \notin FwuFaults
  PROVE  SystemSpec => ClosedMeansVerified
<1>1. SystemInv /\ UpdateInv /\ [SystemNext]_systemVars
        => [Receive("CloseFile") /\ queue' = Append(Tail(queue), Event("ActivateImage")) =>
              fwu = "WRITING" /\ fwu' = "CANDIDATE" /\ Genuine(jobFields.signature)]_systemVars
  <2> SUFFICES ASSUME SystemInv, UpdateInv, SystemNext, Receive("CloseFile"),
                      queue' = Append(Tail(queue), Event("ActivateImage"))
               PROVE  fwu = "WRITING" /\ fwu' = "CANDIDATE" /\ Genuine(jobFields.signature)
    OBVIOUS
  <2>1. CloseFile
    BY AskedByCloseFile
  <2>2. fwu = "WRITING" /\ Tail(queue) = <<>>
    BY Receives DEF UpdateInv, EndBaton
  <2>3. queue' # Tail(queue)
    <3>1. queue' = Append(<<>>, Event("ActivateImage"))
      BY <2>2
    <3>2. queue' = <<Event("ActivateImage")>>
      BY <3>1, AppendToEmpty
    <3>3. QED  BY <2>2, <3>2, Singleton
  <2>4. otaPal_CloseFile(jobFields.signature, TRUE)
    BY <2>1, <2>3 DEF CloseFile, Dequeue
  <2>5. QED
    BY <2>2, <2>4 DEF otaPal_CloseFile, otaPal_CheckSignature, psa_fwu_finish
<1>2. QED
  BY <1>1, UpdateInvariant, PTL DEF SystemSpec, ClosedMeansVerified
=============================================================================
