----------------------------- MODULE OtaSystem -----------------------------
(***************************************************************************)
(* The device of OtaAgent with the services it talks to: the broker, the   *)
(* jobs service and the streams service (all external, modelled from what  *)
(* the device asks of them).  Requests may be served in any order; what    *)
(* the broker sends down arrives in order, or is lost with the connection. *)
(***************************************************************************)
EXTENDS OtaAgent, FiniteSets

CONSTANTS
  SlowCloud,   \* whether requests may be served in another order, or after
               \* the device has lost the connection and come back
  MaxDown,     \* bound: messages on their way to the device
  MaxDrops,    \* bound: losses of the connection
  MaxCrashes   \* bound: resets nobody asked for

ASSUME SystemAssumption ==
  /\ SlowCloud \in BOOLEAN
  /\ MaxDown \in Nat \ {0}
  /\ MaxDrops \in Nat
  /\ MaxCrashes \in Nat

VARIABLES
  down,        \* messages on their way to the device
  execution,   \* [Jobs -> stage of the job's execution]
  updatedBy,   \* [Jobs -> updatedBy in its status details, 0 when absent]
  drops, crashes

cloudVars == <<down, execution, updatedBy>>
boundVars == <<drops, crashes>>
systemVars == <<vars, cloudVars, boundVars>>

-----------------------------------------------------------------------------
\* Each update names the version of the execution it expects: "2" for the one
\* that sets updatedBy, "3" for the final one.  The stages are those versions.
Stages == {"QUEUED", "IN_PROGRESS", "SELF_TEST", "SUCCEEDED", "FAILED"}
Started == {j \in Jobs : execution[j] \in {"IN_PROGRESS", "SELF_TEST"}}
Queued == {j \in Jobs : execution[j] = "QUEUED"}

DocMessage(doc) == [type |-> "job", doc |-> doc]
BlockMessage(block) == [type |-> "block", block |-> block]
Messages == [type : {"job"}, doc : Docs] \cup [type : {"block"}, block : Blocks]

SystemInit ==
  /\ Init
  /\ down = <<>>
  /\ execution = [j \in Jobs |-> "QUEUED"]
  /\ updatedBy = [j \in Jobs |-> 0]
  /\ drops = 0
  /\ crashes = 0

-----------------------------------------------------------------------------
(***************************************************************************)
(* The services                                                            *)
(***************************************************************************)

\* The broker keeps nothing for a device that is away.
Reply(m) ==
  /\ Len(down) < MaxDown
  /\ down' = IF connected THEN Append(down, m) ELSE down

\* StartNextPendingJobExecution: a started job first, else a queued one.
ServeStartNext(i) ==
  /\ UplinkServed(i)
  /\ uplink[i].type = "StartNext"
  /\ \/ /\ Started \cup Queued = {}
        /\ Reply(DocMessage(NoDoc))
        /\ UNCHANGED execution
     \/ \E j \in (IF Started # {} THEN Started ELSE Queued) :
          /\ Reply(DocMessage([job |-> j, valid |-> TRUE, updatedBy |-> updatedBy[j]]))
          /\ execution' = [execution EXCEPT ![j] = IF @ = "QUEUED" THEN "IN_PROGRESS" ELSE @]
  /\ UNCHANGED <<updatedBy, boundVars>>

\* A block past the end of the file is refused, on a topic nobody listens to.
ServeGetBlock(i) ==
  /\ UplinkServed(i)
  /\ uplink[i].type = "GetBlock"
  /\ IF uplink[i].job \in session /\ uplink[i].arg < NumBlocks
     THEN Reply(BlockMessage([job |-> uplink[i].job, index |-> uplink[i].arg]))
     ELSE UNCHANGED down
  /\ UNCHANGED <<execution, updatedBy, boundVars>>

\* An update of no known job, or of another version, is refused.
ServeUpdate(i) ==
  /\ UplinkServed(i)
  /\ LET m == uplink[i] IN
       \/ /\ m.type = "InProgress"
          /\ IF m.job \in Jobs /\ execution[m.job] = "IN_PROGRESS"
             THEN /\ execution' = [execution EXCEPT ![m.job] = "SELF_TEST"]
                  /\ updatedBy' = [updatedBy EXCEPT ![m.job] = m.arg]
             ELSE UNCHANGED <<execution, updatedBy>>
       \/ /\ m.type \in {"Succeeded", "Failed"}
          /\ IF m.job \in Jobs /\ execution[m.job] = "SELF_TEST"
             THEN execution' = [execution EXCEPT ![m.job] =
                                  IF m.type = "Succeeded" THEN "SUCCEEDED" ELSE "FAILED"]
             ELSE UNCHANGED execution
          /\ UNCHANGED updatedBy
  /\ UNCHANGED <<down, boundVars>>

Serve == \E i \in IF SlowCloud THEN 1 .. MaxUplink ELSE {1} :
           ServeStartNext(i) \/ ServeGetBlock(i) \/ ServeUpdate(i)

-----------------------------------------------------------------------------
(***************************************************************************)
(* Delivery, faults                                                        *)
(***************************************************************************)

DeliverJob ==
  /\ down # <<>>
  /\ Head(down).type = "job"
  /\ down' = Tail(down)
  /\ IF started THEN JobDocArrives(Head(down).doc) ELSE UNCHANGED vars
  /\ UNCHANGED <<execution, updatedBy, boundVars>>

DeliverBlock ==
  /\ down # <<>>
  /\ Head(down).type = "block"
  /\ down' = Tail(down)
  /\ IF BlockRouted /\ ~NoBufferFree
     THEN BlockArrives(Head(down).block, TRUE)
     ELSE UNCHANGED vars
  /\ UNCHANGED <<execution, updatedBy, boundVars>>

Deliver == DeliverJob \/ DeliverBlock

Drop ==
  /\ drops < MaxDrops
  /\ Disconnect
  /\ down' = <<>>
  /\ drops' = drops + 1
  /\ UNCHANGED <<execution, updatedBy, crashes>>

Crash ==
  /\ crashes < MaxCrashes
  /\ Reboot
  /\ down' = <<>>
  /\ crashes' = crashes + 1
  /\ UNCHANGED <<execution, updatedBy, drops>>

\* The reset that otaPal_ResetDevice requested.
Reset ==
  /\ pc = "reset"
  /\ Reboot
  /\ down' = <<>>
  /\ UNCHANGED <<execution, updatedBy, boundVars>>

\* Mutant: the demo task resumes an agent that is not suspended.
Poll_Always ==
  /\ \A k \in 1 .. Len(queue) : queue[k].id \notin {"Suspend", "Resume"}
  /\ DemoSuspend \/ (connected /\ DemoSend("Resume"))

\* A turn of the demo task's loop; the tasks it feeds are faster than its ten
\* seconds, so it does not find its last event still in the queue.
Poll ==
  /\ \A k \in 1 .. Len(queue) : queue[k].id \notin {"Suspend", "Resume"}
  /\ DemoSuspend \/ DemoResume

\* With a fast cloud every request is answered, or lost, before the device is back.
Reconnect == (SlowCloud \/ uplink = <<>>) /\ Connect

Device ==
  /\ AgentTask \/ StartDemo \/ Poll \/ Reconnect \/ ResetFails
  /\ UNCHANGED <<cloudVars, boundVars>>

SystemNext == Device \/ Serve \/ Deliver \/ Drop \/ Crash \/ Reset

SystemSpec == SystemInit /\ [][SystemNext]_systemVars

\* The tasks are scheduled, the connection is retried for ever, the services
\* answer, a requested reset happens.
Fairness ==
  /\ WF_systemVars(AgentTask /\ UNCHANGED <<cloudVars, boundVars>>)
  /\ WF_systemVars(StartDemo /\ UNCHANGED <<cloudVars, boundVars>>)
  /\ WF_systemVars(Poll /\ UNCHANGED <<cloudVars, boundVars>>)
  /\ WF_systemVars(Reconnect /\ UNCHANGED <<cloudVars, boundVars>>)
  /\ WF_systemVars(Serve)
  /\ WF_systemVars(Deliver)
  /\ WF_systemVars(Reset)

FairSpec == SystemSpec /\ Fairness

-----------------------------------------------------------------------------
(***************************************************************************)
(* Properties                                                              *)
(***************************************************************************)

\* The conditions under which an update is a single loop of requests: the connection
\* lasts until a reset, requests are served in their order and before the device is
\* back, and the number of a block survives the cast to uint16_t.  Messages may be lost
\* and calls fail.
Undisturbed == MaxDrops = 0 /\ ~SlowCloud /\ NumBlocks < U16

\* What else it takes for the outcome of an update to be right: no publish is lost, the
\* calls that end a trial do not fail, and a version survives the cast to uint16_t.
Dependable ==
  /\ Undisturbed
  /\ ~Lossy
  /\ {"accept", "reject"} \cap FwuFaults = {}
  /\ Versions \subseteq 0 .. U16 - 1

\* An image goes on trial with a reset, never at once, and the call that rejects it does
\* not fail.
TrialsEnd == "PSA_SUCCESS" \notin InstallAnswers /\ "reject" \notin FwuFaults

\* The event queue is as long as the number of events there can be at once: one for the
\* demo task, one for each request under way, one more for each loss of the connection,
\* after which a request is made although the last one may still be answered.
RoomForAll == QueueLength > MaxUplink + MaxDrops

\* Type invariant of the device and the services.
SystemTypeOK ==
  /\ TypeOK
  /\ down \in Seq(Messages)
  /\ Len(down) <= MaxDown
  /\ execution \in [Jobs -> Stages]
  /\ updatedBy \in [Jobs -> Versions]
  /\ drops \in 0 .. MaxDrops
  /\ crashes \in 0 .. MaxCrashes

\* Every step of the device in the system is a step of the open OtaAgent, or
\* none of its business: what is shown of OtaAgent under any broker holds here.
ImplementsOtaAgent == Spec

\* What is in the slot, up to the count of blocks written, is the file of the
\* stream in order, although handleMqttStreamsBlockArrived never looks at the
\* number of the block it is given.
DownloadInOrder ==
  fwu = "WRITING" =>
    \A i \in 0 .. totalBytesReceived - 1 : image[i] = [job |-> stream, index |-> i]

\* numOfBlocksRemaining is documented as the "Number of file blocks left to be
\* streamed": the blocks of the file that are not in the slot yet.  Closing the
\* file at zero, processOTAEvents relies on it.
RemainingIsBlocksLeft ==
  fwu = "WRITING" =>
    numOfBlocksRemaining =
      Cardinality({n \in 0 .. NumBlocks - 1 :
                     \A i \in Slot : image[i] # [job |-> stream, index |-> n]})

\* The download is a single loop, although nothing in processOTAEvents says
\* so: at most one block is asked for, on its way, queued or being written.
BlocksUnderWay ==
  Cardinality({k \in DOMAIN queue : queue[k].id \in {"RequestFileBlock", "ReceivedFileBlock"}})
  + Cardinality({k \in DOMAIN uplink : uplink[k].type = "GetBlock"})
  + Cardinality({k \in DOMAIN down : down[k].type = "block"})
  + (IF pc \in {"askBlock", "write"} THEN 1 ELSE 0)

OneBlockInFlight == BlocksUnderWay <= 1

\* The version the device has for good: what it runs once any trial is given up.
KeptVersion == IF fwu \in {"TRIAL", "REJECTED"} THEN previous ELSE running

\* The cloud records a job as succeeded only when the device has the job's
\* image for good, if it runs another one on trial or not:
\* sendFinalJobStatusMessage(Succeeded) follows a call of
\* otaPal_SetPlatformImageState whose result nobody looks at.
SucceededMeansCommitted ==
  [][\A j \in Jobs : execution[j] # "SUCCEEDED" /\ execution'[j] = "SUCCEEDED" =>
       KeptVersion = ImageVersion[j]]_systemVars

\* The cloud records a job as failed only when the device has given its image
\* up: a failed job never leaves its image running on trial or kept.
FailedMeansNotKept ==
  [][\A j \in Jobs : execution[j] # "FAILED" /\ execution'[j] = "FAILED" =>
       fwu \in {"REJECTED", "FAILED"}]_systemVars

\* An image is kept only when it is not older than the one it replaced, which
\* receivedJobDocumentHandler decides from what the cloud sends back.
NeverDowngraded ==
  [][fwu = "TRIAL" /\ fwu' \in {"READY", "UPDATED"} => running >= previous]_systemVars

\* An image is reported as good only by a boot that did not download it: "the
\* image can only be set as accepted after a reboot", and the guard against
\* doing it sooner is the comparison of job ids in receivedJobDocumentHandler.
ReportedAfterReset ==
  sysCtx => \A k \in DOMAIN uplink : uplink[k].type \notin {"Succeeded", "Failed"}

\* A job the cloud has handed out ends, with the image kept or given up: the
\* chain of events from receivedJobDocumentHandler to sendFinalJobStatusMessage
\* does not break off while no operation fails.
JobFinishes ==
  \A j \in Jobs :
    (execution[j] = "IN_PROGRESS") ~> (execution[j] \in {"SUCCEEDED", "FAILED"})

\* closeFile answers true only for a file it closed, whose signature verified.
ClosedMeansVerified ==
  [][Receive("CloseFile") /\ queue' = Append(Tail(queue), Event("ActivateImage")) =>
       fwu = "WRITING" /\ fwu' = "CANDIDATE" /\ Genuine(jobFields.signature)]_systemVars

\* The promise of UpdateJobs is kept: an image on trial is one whose trial is
\* open, a rejected one waits for the reset that brings the other one back.
Promise == INSTANCE UpdateJobs WITH
  fallback <- previous,
  trial <- IF fwu = "TRIAL" THEN "open" ELSE IF fwu = "REJECTED" THEN "over" ELSE "none",
  outcome <- [j \in Jobs |-> IF execution[j] = "SUCCEEDED" THEN "succeeded"
                             ELSE IF execution[j] = "FAILED" THEN "failed" ELSE "open"]

ImplementsUpdateJobs == Promise!Spec
=============================================================================
