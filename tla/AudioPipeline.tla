---------------------------- MODULE AudioPipeline ----------------------------
(***************************************************************************)
(* Speech recognition: the audio driver, the DSP task and the ML task,     *)
(* with the hooks by which the OTA agent stops recognition for a download  *)
(* and starts it again.  InferenceResults has what becomes of a result.    *)
(*                                                                         *)
(* The driver fills the blocks of a ring and announces each through the    *)
(* VSI callback task.  The DSP task copies the newest block, slides a      *)
(* window over the blocks and hands the window over through two buffers    *)
(* that it exchanges under a mutex; the ML task copies the other buffer    *)
(* under the same mutex.  A semaphore, not a counter, says that there is   *)
(* a new block or a new window.                                            *)
(*                                                                         *)
(* Audio is abstracted to the number of the scheduler's launch in which it *)
(* was captured, 0 for silence that nobody captured.  A block is longer    *)
(* than the work on it: copying one is a single step.  A copy of a window  *)
(* takes two, so that the tasks may interleave with it.                    *)
(***************************************************************************)
EXTENDS Naturals, Sequences

CONSTANTS
  BlockCount,    \* AUDIO_BLOCK_NUM
  BlocksPerRun,  \* blocks of a turn of the scheduler, the window's stride
  WindowBlocks,  \* AUDIOFEATURELENGTH, in blocks
  MaxHooks       \* bound: calls of the OTA hooks

ASSUME AudioAssumption ==
  /\ BlockCount \in Nat /\ BlockCount >= 3
  /\ BlocksPerRun \in Nat \ {0}
  /\ WindowBlocks \in Nat
  /\ BlocksPerRun <= WindowBlocks
  /\ WindowBlocks <= 3 * BlocksPerRun  \* 47360 <= 3 * 16000 samples
  /\ MaxHooks \in Nat

VARIABLES
  hookPc,    \* where the OTA agent is in vOtaActiveHook or vOtaNotActiveHook
  bits,      \* EVENT_MASK_ML_START, _ML_STOP, _DSP_START that are set
  hooks,     \* hooks called so far
  hw,        \* the block that the driver writes
  sound,     \* launch in which each block was captured
  vsi,       \* [notified, current_block, block_under_write, semaphore]
  dspPc,     \* where vDspTask is
  launch,    \* launches of the scheduler
  input,     \* blocks of this turn
  window,    \* what SlidingBuffer has put out last
  frames,    \* mFrameCount
  dspml,     \* [mutex, semaphore, dspBuffer, mlBuffer]
  buffers,   \* both halves of what bufferA and bufferB hold
  mlPc,      \* where vMlTask is
  taken,     \* inferenceWindow: both halves of what it holds
  reading,   \* the buffer it copies
  results,   \* inferences not yet reported
  wanted,    \* history: the hook called last is vOtaNotActiveHook
  late       \* history: inferences begun since recognition was stopped

hookVars == <<hookPc, bits, hooks, wanted>>
driverVars == <<hw, sound, vsi>>
dspVars == <<dspPc, launch, input, window, frames>>
mlVars == <<mlPc, taken, reading, results, late>>
vars == <<hookVars, driverVars, dspVars, dspml, buffers, mlVars>>

-----------------------------------------------------------------------------
Slots == 0 .. BlockCount - 1
Launches == Nat
Buffers == {"A", "B"}

\* A window: the launch in which the first of it was captured, and the launch
\* that put it out.
Segments == [oldest : Launches, of : Launches]
Halves == [low : Segments, high : Segments]
Nothing == [oldest |-> 0, of |-> 0]
Whole(s) == [low |-> s, high |-> s]

\* What SlidingBuffer holds before the first capture.
Silence == [k \in 1 .. WindowBlocks |-> 0]
SegmentOf(w) == [oldest |-> w[1], of |-> launch]

NextSlot(s) == (s + 1) % BlockCount

AudioInit ==
  /\ hookPc = "idle" /\ bits = {} /\ hooks = 0 /\ wanted = FALSE
  /\ hw = 0
  /\ sound = [s \in Slots |-> 0]
  /\ vsi = [notified |-> FALSE, current_block |-> 0, block_under_write |-> 0, semaphore |-> FALSE]
  /\ dspPc = "start" /\ launch = 0 /\ input = <<>> /\ window = Silence /\ frames = 0
  /\ dspml = [mutex |-> "free", semaphore |-> FALSE, dspBuffer |-> "A", mlBuffer |-> "B"]
  /\ buffers = [b \in Buffers |-> Whole(Nothing)]
  /\ mlPc = "start" /\ taken = Whole(Nothing) /\ reading = "B" /\ results = 0 /\ late = 0

-----------------------------------------------------------------------------
(***************************************************************************)
(* The hooks, called by the OTA agent one after the other                  *)
(***************************************************************************)

HookStep(from, to, b) ==
  /\ hookPc = from
  /\ hookPc' = to
  /\ bits' = b
  /\ UNCHANGED <<hooks, wanted, driverVars, dspVars, dspml, buffers, mlVars>>

\* Mutant: the start that nobody has waited for is left behind.
OtaActiveHook_KeepsStart ==
  /\ hookPc = "idle" /\ hooks < MaxHooks
  /\ hooks' = hooks + 1
  /\ hookPc' = "stop"
  /\ wanted' = FALSE
  /\ UNCHANGED <<bits, driverVars, dspVars, dspml, buffers, mlVars>>

\* vMlTaskInferenceStop: clear ML_START, ...
OtaActiveHook ==
  /\ hookPc = "idle" /\ hooks < MaxHooks
  /\ hooks' = hooks + 1
  /\ hookPc' = "stop"
  /\ wanted' = FALSE
  /\ bits' = bits \ {"ML_START"}
  /\ UNCHANGED <<driverVars, dspVars, dspml, buffers, mlVars>>

\* ... then set ML_STOP; vDspStop.
StopMl == HookStep("stop", "dspStop", bits \cup {"ML_STOP"})

\* Recognition is stopped until the other hook is called.
StopDsp ==
  /\ hookPc = "dspStop"
  /\ hookPc' = "idle"
  /\ bits' = bits \ {"DSP_START"}
  /\ late' = 0
  /\ UNCHANGED <<hooks, wanted, driverVars, dspVars, dspml, buffers, mlPc, taken, reading, results>>

\* vMlTaskInferenceStart: clear ML_STOP, then set ML_START; vDspStart.
OtaNotActiveHook ==
  /\ hookPc = "idle" /\ hooks < MaxHooks
  /\ hooks' = hooks + 1
  /\ hookPc' = "start"
  /\ wanted' = TRUE
  /\ bits' = bits \ {"ML_STOP"}
  /\ late' = 0
  /\ UNCHANGED <<driverVars, dspVars, dspml, buffers, mlPc, taken, reading, results>>

StartMl == HookStep("start", "dspStart", bits \cup {"ML_START"})

\* Mutant: the DSP is not started again.
StartDsp_Forgotten == HookStep("dspStart", "idle", bits)

StartDsp == HookStep("dspStart", "idle", bits \cup {"DSP_START"})

-----------------------------------------------------------------------------
(***************************************************************************)
(* The driver and the VSI callback task                                    *)
(***************************************************************************)

\* The driver runs from the first launch on.  The callback task comes before
\* the DSP and ML tasks, and has announced a block before the next is complete.
BlockComplete ==
  /\ launch > 0
  /\ ~vsi.notified
  /\ sound' = [sound EXCEPT ![hw] = launch]
  /\ hw' = NextSlot(hw)
  /\ vsi' = [vsi EXCEPT !.notified = TRUE]
  /\ UNCHANGED <<hookVars, dspVars, dspml, buffers, mlVars>>

\* Mutant: the block that comes next is announced.
prvNewAudioBlockReceived_Next ==
  /\ vsi.notified
  /\ vsi' = [notified |-> FALSE,
             current_block |-> NextSlot(vsi.block_under_write),
             block_under_write |-> NextSlot(vsi.block_under_write),
             semaphore |-> TRUE]
  /\ UNCHANGED <<hw, sound, hookVars, dspVars, dspml, buffers, mlVars>>

prvNewAudioBlockReceived ==
  /\ vsi.notified
  /\ vsi' = [notified |-> FALSE,
             current_block |-> vsi.block_under_write,
             block_under_write |-> NextSlot(vsi.block_under_write),
             semaphore |-> TRUE]
  /\ UNCHANGED <<hw, sound, hookVars, dspVars, dspml, buffers, mlVars>>

-----------------------------------------------------------------------------
(***************************************************************************)
(* The DSP task                                                            *)
(***************************************************************************)

\* Mutant: the window and the count of frames outlive a pause.
Launch_Kept ==
  /\ dspPc = "start"
  /\ "DSP_START" \in bits
  /\ dspPc' = "mic"
  /\ launch' = launch + 1
  /\ input' = <<>>
  /\ sound' = [s \in Slots |-> IF s = vsi.current_block \/ NextSlot(s) = hw THEN launch + 1 ELSE sound[s]]
  /\ UNCHANGED <<window, frames, hw, vsi, hookVars, dspml, buffers, mlVars>>

\* ulScheduler makes its nodes anew.  A block that is announced counts as captured
\* in the new launch.
Launch ==
  /\ dspPc = "start"
  /\ "DSP_START" \in bits
  /\ dspPc' = "mic"
  /\ launch' = launch + 1
  /\ input' = <<>> /\ window' = Silence /\ frames' = 0
  /\ sound' = [s \in Slots |-> IF s = vsi.current_block \/ NextSlot(s) = hw THEN launch + 1 ELSE sound[s]]
  /\ UNCHANGED <<hw, vsi, hookVars, dspml, buffers, mlVars>>

\* CHECKERROR_OR_PAUSE after each node.
DspGoesTo(pc) == dspPc' = IF "DSP_START" \in bits THEN pc ELSE "start"

vWaitForNewBuffer ==
  /\ dspPc = "mic"
  /\ vsi.semaphore
  /\ vsi' = [vsi EXCEPT !.semaphore = FALSE]
  /\ dspPc' = "read"
  /\ UNCHANGED <<hw, sound, launch, input, window, frames, hookVars, dspml, buffers, mlVars>>

\* The DSP nodes copy it on.
MicrophoneSource ==
  /\ dspPc = "read"
  /\ input' = Append(input, sound[vsi.current_block])
  /\ DspGoesTo(IF Len(input') = BlocksPerRun THEN "slide" ELSE "mic")
  /\ UNCHANGED <<launch, window, frames, hookVars, driverVars, dspml, buffers, mlVars>>

\* Mutant: one block too many is kept.
SlidingBuffer_OffByOne ==
  /\ dspPc = "slide"
  /\ window' = SubSeq(window, BlocksPerRun, WindowBlocks) \o input
  /\ input' = <<>>
  /\ DspGoesTo("ml")
  /\ UNCHANGED <<launch, frames, hookVars, driverVars, dspml, buffers, mlVars>>

SlidingBuffer ==
  /\ dspPc = "slide"
  /\ window' = SubSeq(window, BlocksPerRun + 1, WindowBlocks) \o input
  /\ input' = <<>>
  /\ DspGoesTo("ml")
  /\ UNCHANGED <<launch, frames, hookVars, driverVars, dspml, buffers, mlVars>>

\* mFrameCount < 2: three turns fill the window.
Skipping == frames < 2

\* The windows that still hold silence are not handed over.
SkipFrame ==
  /\ dspPc = "ml"
  /\ Skipping
  /\ frames' = frames + 1
  /\ DspGoesTo("mic")
  /\ UNCHANGED <<launch, input, window, hookVars, driverVars, dspml, buffers, mlVars>>

\* vCopyToDSPBufferFrom, both halves.
CopyToDSPBuffer ==
  /\ dspPc = "ml"
  /\ ~Skipping
  /\ dspml.mutex = "free"
  /\ dspml' = [dspml EXCEPT !.mutex = "dsp"]
  /\ buffers' = [buffers EXCEPT ![dspml.dspBuffer].low = SegmentOf(window)]
  /\ dspPc' = "copying"
  /\ UNCHANGED <<launch, input, window, frames, hookVars, driverVars, mlVars>>

DSPBufferCopied ==
  /\ dspPc = "copying"
  /\ buffers' = [buffers EXCEPT ![dspml.dspBuffer].high = SegmentOf(window)]
  /\ dspml' = [dspml EXCEPT !.mutex = "free"]
  /\ dspPc' = "swap"
  /\ UNCHANGED <<launch, input, window, frames, hookVars, driverVars, mlVars>>

vSwapBuffers ==
  /\ dspPc = "swap"
  /\ dspml.mutex = "free"
  /\ dspml' = [dspml EXCEPT !.dspBuffer = dspml.mlBuffer, !.mlBuffer = dspml.dspBuffer]
  /\ dspPc' = "wake"
  /\ UNCHANGED <<launch, input, window, frames, hookVars, driverVars, buffers, mlVars>>

WakeUpMLThread ==
  /\ dspPc = "wake"
  /\ dspml' = [dspml EXCEPT !.semaphore = TRUE]
  /\ DspGoesTo("mic")
  /\ UNCHANGED <<launch, input, window, frames, hookVars, driverVars, buffers, mlVars>>

-----------------------------------------------------------------------------
(***************************************************************************)
(* The ML task                                                             *)
(***************************************************************************)

MlStarts ==
  /\ mlPc = "start"
  /\ "ML_START" \in bits
  /\ bits' = bits \ {"ML_START"}
  /\ mlPc' = "poll"
  /\ UNCHANGED <<hookPc, hooks, wanted, taken, reading, results, late, driverVars, dspVars, dspml, buffers>>

MlStops ==
  /\ mlPc = "poll"
  /\ "ML_STOP" \in bits
  /\ bits' = bits \ {"ML_STOP"}
  /\ mlPc' = "start"
  /\ UNCHANGED <<hookPc, hooks, wanted, taken, reading, results, late, driverVars, dspVars, dspml, buffers>>

NotStopped ==
  /\ mlPc = "poll"
  /\ "ML_STOP" \notin bits
  /\ mlPc' = "data"
  /\ UNCHANGED <<taken, reading, results, late, hookVars, driverVars, dspVars, dspml, buffers>>

vWaitForDSPData ==
  /\ mlPc = "data"
  /\ dspml.semaphore
  /\ dspml' = [dspml EXCEPT !.semaphore = FALSE]
  /\ mlPc' = "copy"
  /\ UNCHANGED <<taken, reading, results, late, hookVars, driverVars, dspVars, buffers>>

\* Mutant: the copy does not lock.
CopyFromMLBuffer_Unlocked ==
  /\ mlPc = "copy"
  /\ taken' = [taken EXCEPT !.low = buffers[dspml.mlBuffer].low]
  /\ reading' = dspml.mlBuffer
  /\ mlPc' = "copying"
  /\ UNCHANGED <<dspml, results, late, hookVars, driverVars, dspVars, buffers>>

\* vCopyFromMLBufferInto, both halves.
CopyFromMLBuffer ==
  /\ mlPc = "copy"
  /\ dspml.mutex = "free"
  /\ dspml' = [dspml EXCEPT !.mutex = "ml"]
  /\ taken' = [taken EXCEPT !.low = buffers[dspml.mlBuffer].low]
  /\ reading' = dspml.mlBuffer
  /\ mlPc' = "copying"
  /\ UNCHANGED <<results, late, hookVars, driverVars, dspVars, buffers>>

\* An inference begins.
MLBufferCopied ==
  /\ mlPc = "copying"
  /\ taken' = [taken EXCEPT !.high = buffers[reading].high]
  /\ dspml' = [dspml EXCEPT !.mutex = IF @ = "ml" THEN "free" ELSE @]
  /\ mlPc' = "infer"
  /\ reading' = "B"
  /\ late' = IF ~wanted /\ late < 2 THEN late + 1 ELSE late
  /\ UNCHANGED <<results, hookVars, driverVars, dspVars, buffers>>

\* prvProcessAudio returns, and the task with it.
InferenceFails ==
  /\ mlPc = "infer"
  /\ mlPc' = "ended"
  /\ UNCHANGED <<taken, reading, results, late, hookVars, driverVars, dspVars, dspml, buffers>>

\* What the window held is not used again.
FirstInference ==
  /\ mlPc = "infer"
  /\ results = 0
  /\ results' = 1
  /\ mlPc' = "poll"
  /\ taken' = Whole(Nothing)
  /\ UNCHANGED <<reading, late, hookVars, driverVars, dspVars, dspml, buffers>>

\* The result of two inferences is reported, which never makes the task wait.
SecondInference ==
  /\ mlPc = "infer"
  /\ results = 1
  /\ results' = 0
  /\ mlPc' = "poll"
  /\ taken' = Whole(Nothing)
  /\ UNCHANGED <<reading, late, hookVars, driverVars, dspVars, dspml, buffers>>

-----------------------------------------------------------------------------
HookCalls == OtaActiveHook \/ OtaNotActiveHook

HookReturns == StopMl \/ StopDsp \/ StartMl \/ StartDsp

DspTask ==
  \/ Launch \/ vWaitForNewBuffer \/ MicrophoneSource \/ SlidingBuffer \/ SkipFrame
  \/ CopyToDSPBuffer \/ DSPBufferCopied \/ vSwapBuffers \/ WakeUpMLThread

MlTask ==
  \/ MlStarts \/ MlStops \/ NotStopped \/ vWaitForDSPData \/ CopyFromMLBuffer \/ MLBufferCopied
  \/ InferenceFails \/ FirstInference \/ SecondInference

Next ==
  \/ HookCalls \/ HookReturns
  \/ BlockComplete \/ prvNewAudioBlockReceived
  \/ DspTask \/ MlTask

Spec == AudioInit /\ [][Next]_vars

\* Audio keeps coming, and every task is scheduled.  The mutex is a FreeRTOS
\* mutex, and a task that waits for it gets it.
Fairness ==
  /\ WF_vars(HookReturns)
  /\ WF_vars(BlockComplete) /\ WF_vars(prvNewAudioBlockReceived)
  /\ WF_vars(DspTask) /\ SF_vars(CopyToDSPBuffer) /\ SF_vars(vSwapBuffers)
  /\ WF_vars(MlTask) /\ SF_vars(CopyFromMLBuffer)

FairSpec == Spec /\ Fairness

-----------------------------------------------------------------------------
(***************************************************************************)
(* Properties                                                              *)
(***************************************************************************)

\* Type invariant of the pipeline.
AudioTypeOK ==
  /\ hookPc \in {"idle", "stop", "dspStop", "start", "dspStart"}
  /\ bits \subseteq {"ML_START", "ML_STOP", "DSP_START"}
  /\ hooks \in 0 .. MaxHooks
  /\ wanted \in BOOLEAN
  /\ hw \in Slots
  /\ sound \in [Slots -> Launches]
  /\ vsi \in [notified : BOOLEAN, current_block : Slots, block_under_write : Slots, semaphore : BOOLEAN]
  /\ dspPc \in {"start", "mic", "read", "slide", "ml", "copying", "swap", "wake"}
  /\ launch \in Launches
  /\ input \in Seq(Launches) /\ Len(input) <= BlocksPerRun
  /\ window \in Seq(Launches) /\ Len(window) = WindowBlocks
  /\ frames \in 0 .. 2
  /\ dspml \in [mutex : {"free", "dsp", "ml"}, semaphore : BOOLEAN, dspBuffer : Buffers, mlBuffer : Buffers]
  /\ buffers \in [Buffers -> Halves]
  /\ mlPc \in {"start", "poll", "data", "copy", "copying", "infer", "ended"}
  /\ taken \in Halves
  /\ reading \in Buffers
  /\ results \in 0 .. 1
  /\ late \in 0 .. 2

\* An inference runs on one window, not on halves of two: vCopyFromMLBufferInto
\* and vSwapBuffersAndWakeUpMLThread exclude each other, and the DSP task writes
\* the buffer that the ML task does not read.
WindowWhole == mlPc = "infer" => taken.low = taken.high

\* An inference never runs on silence that was not captured, nor on a mixture of
\* audio from before and after a pause: "we start our recognition only after
\* enough data has been received", again after each restart of the scheduler.
WindowFresh == mlPc = "infer" => taken.low.oldest = taken.low.of /\ taken.low.of > 0

\* The DSP task never copies the block that the driver is filling.
BlockAtRest == dspPc = "read" => vsi.current_block # hw

\* Recognition that was stopped before a download begins one more inference at
\* most, with the window it was waiting for, until it is started again.
StopsSoon == ~wanted /\ hookPc = "idle" => late <= 1

\* However the hooks interleave with the tasks, once they leave recognition
\* started inferences go on for ever, unless one fails and ends the task.
RecognitionResumes ==
  <>[](hookPc = "idle" /\ wanted)
    => []<>(mlPc = "infer") \/ <>[](mlPc = "ended")
=============================================================================
