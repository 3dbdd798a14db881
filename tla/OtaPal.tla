------------------------------- MODULE OtaPal -------------------------------
(***************************************************************************)
(* The platform layer of the OTA update: the otaPal_* functions as this    *)
(* repository patches them, over the PSA Firmware Update service (external,*)
(* modelled from the calls made to it) and the boot loader.                *)
(*                                                                         *)
(* One updatable component is modelled.  Its staging slot is an array of   *)
(* SlotBlocks blocks; an image is the NumBlocks blocks of one job's file.  *)
(***************************************************************************)
EXTENDS Integers

CONSTANTS
  Jobs,            \* the OTA jobs the cloud may hand out
  NoJob,           \* "no job": an empty id, a zeroed field
  NumBlocks,       \* blocks in the file of every job
  SlotBlocks,      \* blocks that fit in the staging slot
  ImageVersion,    \* [Jobs -> Nat]: version of the image each job carries
  FactoryVersion,  \* version running before the first update
  FwuFaults,       \* calls to the service that may fail for no visible reason
  InstallAnswers   \* what psa_fwu_install may answer when it succeeds

ASSUME PalAssumption ==
  /\ NoJob \notin Jobs
  /\ NumBlocks \in Nat \ {0}
  /\ SlotBlocks \in Nat /\ SlotBlocks >= NumBlocks
  /\ ImageVersion \in [Jobs -> Nat]
  /\ FactoryVersion \in Nat
  /\ FwuFaults \subseteq {"start", "write", "finish", "install",
                           "accept", "clean", "reject", "reset"}
  /\ InstallAnswers \subseteq {"PSA_SUCCESS", "PSA_SUCCESS_REBOOT"}

VARIABLES
  fwu,       \* state of the component in the update service
  image,     \* contents of the staging slot
  sysCtx,    \* pxSystemContext # NULL
  running,   \* version of the running image
  previous   \* version the boot loader would roll back to

palVars == <<fwu, image, sysCtx, running, previous>>

-----------------------------------------------------------------------------
FwuStates == {"READY", "WRITING", "CANDIDATE", "STAGED", "FAILED",
              "TRIAL", "REJECTED", "UPDATED"}

Slot == 0 .. SlotBlocks - 1

\* A block of a job's file, and what an erased block of the slot reads as.
Blocks == [job : Jobs, index : 0 .. NumBlocks - 1]
Erased == [job |-> NoJob, index |-> 0]
ErasedImage == [i \in Slot |-> Erased]

\* The slot starts with the file of job j, whole and in order.
Genuine(j) == \A i \in 0 .. NumBlocks - 1 : image[i] = [job |-> j, index |-> i]

PalTypeOK ==
  /\ fwu \in FwuStates
  /\ image \in [Slot -> Blocks \cup {Erased}]
  /\ sysCtx \in BOOLEAN
  /\ running \in Nat
  /\ previous \in Nat

PalInit ==
  /\ fwu = "READY"
  /\ image = ErasedImage
  /\ sysCtx = FALSE
  /\ running = FactoryVersion
  /\ previous = FactoryVersion

-----------------------------------------------------------------------------
(***************************************************************************)
(* One operator per PAL function; the last argument is the result the      *)
(* caller sees.  A call to the service fails when the component is not in  *)
(* the state the call requires, and may fail anyway if FwuFaults has it.   *)
(***************************************************************************)

otaPal_CreateFileForRx(filepathOk, created) ==
  \/ /\ created
     /\ filepathOk
     /\ fwu = "READY"
     /\ fwu' = "WRITING"
     /\ image' = ErasedImage
     /\ sysCtx' = TRUE
     /\ UNCHANGED <<running, previous>>
  \/ /\ ~created
     /\ ~filepathOk \/ fwu # "READY" \/ "start" \in FwuFaults
     /\ UNCHANGED palVars

\* Mutant: the bound of the slot is off by one.
otaPal_WriteBlock_OffByOne(offset, block, written) ==
  \/ /\ written
     /\ sysCtx
     /\ fwu = "WRITING"
     /\ offset \in 0 .. SlotBlocks
     /\ image' = [image EXCEPT ![offset] = block]
     /\ UNCHANGED <<fwu, sysCtx, running, previous>>
  \/ ~written /\ UNCHANGED palVars

otaPal_WriteBlock(offset, block, written) ==
  \/ /\ written
     /\ sysCtx
     /\ fwu = "WRITING"
     /\ offset \in Slot
     /\ image' = [image EXCEPT ![offset] = block]
     /\ UNCHANGED <<fwu, sysCtx, running, previous>>
  \/ /\ ~written
     /\ ~sysCtx \/ fwu # "WRITING" \/ offset \notin Slot \/ "write" \in FwuFaults
     /\ UNCHANGED palVars

otaPal_CheckSignature(signature) == signature \in Jobs /\ Genuine(signature)

psa_fwu_finish(done) ==
  \/ /\ done
     /\ fwu = "WRITING"
     /\ fwu' = "CANDIDATE"
     /\ UNCHANGED <<image, sysCtx, running, previous>>
  \/ /\ ~done
     /\ fwu # "WRITING" \/ "finish" \in FwuFaults
     /\ UNCHANGED palVars

\* Mutant: the status of the service is returned, where zero means success.
otaPal_CloseFile_Status(signature, closed) ==
  psa_fwu_finish(~closed)

\* The function returns bool, and on a failed finish it returns -1: true.
otaPal_CloseFile(signature, closed) ==
  \/ psa_fwu_finish(TRUE) /\ closed = otaPal_CheckSignature(signature)
  \/ psa_fwu_finish(FALSE) /\ closed

\* A genuine image starts running, on trial until it is accepted.
TryImage ==
  \E j \in Jobs : /\ Genuine(j)
                 /\ fwu' = "TRIAL"
                 /\ running' = ImageVersion[j]
                 /\ previous' = running

\* "reset": the service wants a reboot and otaPal_ResetDevice requests it;
\* "activated": the service has installed the image at once.
otaPal_ActivateNewImage(outcome) ==
  \/ /\ outcome = "reset"
     /\ "PSA_SUCCESS_REBOOT" \in InstallAnswers
     /\ sysCtx
     /\ fwu = "CANDIDATE"
     /\ fwu' = "STAGED"
     /\ UNCHANGED <<image, sysCtx, running, previous>>
  \/ /\ outcome = "activated"
     /\ "PSA_SUCCESS" \in InstallAnswers
     /\ sysCtx
     /\ fwu = "CANDIDATE"
     /\ TryImage
     /\ UNCHANGED <<image, sysCtx>>
  \/ /\ outcome = "failed"
     /\ \/ ~sysCtx \/ fwu # "CANDIDATE" \/ "install" \in FwuFaults
        \/ "PSA_SUCCESS" \in InstallAnswers /\ \A j \in Jobs : ~Genuine(j)
     /\ UNCHANGED palVars

\* Mutants: the image on trial is left as it is.
otaPal_SetAccepted_Forgotten == UNCHANGED palVars
otaPal_SetRejected_Forgotten == UNCHANGED palVars

\* accept, then clean; each may fail.  The callers ignore the result.
otaPal_SetAccepted ==
  /\ IF sysCtx \/ fwu # "TRIAL"
     THEN UNCHANGED fwu
     ELSE \/ fwu' = "READY"
          \/ "accept" \in FwuFaults /\ UNCHANGED fwu
          \/ "clean" \in FwuFaults /\ fwu' = "UPDATED"
  /\ UNCHANGED <<image, sysCtx, running, previous>>

\* The image on trial is given up; it runs until the next reset.
otaPal_SetRejected ==
  /\ IF sysCtx \/ fwu # "TRIAL"
     THEN UNCHANGED fwu
     ELSE \/ fwu' = "REJECTED"
          \/ "reject" \in FwuFaults /\ UNCHANGED fwu
  /\ UNCHANGED <<image, sysCtx, running, previous>>

PendingCommit == fwu = "TRIAL"

\* What a reset does to the component: staging is volatile, a staged genuine
\* image is tried, an image on trial that was not accepted is rolled back.
Boot ==
  /\ sysCtx' = FALSE
  /\ UNCHANGED image
  /\ \/ fwu = "STAGED" /\ TryImage
     \/ /\ \/ fwu \in {"TRIAL", "REJECTED"}
           \/ fwu = "STAGED" /\ \A j \in Jobs : ~Genuine(j)
        /\ fwu' = "FAILED"
        /\ running' = IF fwu = "STAGED" THEN running ELSE previous
        /\ UNCHANGED previous
     \/ /\ fwu \in {"WRITING", "CANDIDATE"}
        /\ fwu' = "READY"
        /\ UNCHANGED <<running, previous>>
     \/ /\ fwu \in {"READY", "FAILED", "UPDATED"}
        /\ UNCHANGED <<fwu, running, previous>>
=============================================================================
