-------------------------- MODULE KeywordDetection --------------------------
(***************************************************************************)
(* Keyword detection: the audio driver fills the blocks of a ring, the VSI *)
(* callback task announces them, and the ML task slides a window over the  *)
(* ring in strides shorter than a block.  It computes one feature from     *)
(* each window and runs an inference on a row of features, half of which   *)
(* it takes from the inference before.  The OTA agent's hooks stop and     *)
(* start it between two inferences, while the driver goes on.              *)
(*                                                                         *)
(* A stride of audio is the number of strides captured before it, and a    *)
(* feature is the strides it was computed from.                            *)
(***************************************************************************)
EXTENDS Integers, Sequences

CONSTANTS
  BlockCount,      \* AUDIO_BLOCK_NUM
  StridesPerBlock, \* block_size / stride_size
  WindowStrides,   \* window_size / stride_size
  Overlap,         \* numberOfReusedFeatureVectors, half the features of an inference
  QueueLength,     \* of xMlMqttQueue
  Keywords,        \* what an inference may say
  MaxBlocks,       \* bound: blocks captured
  MaxHooks         \* bound: calls of the OTA hooks

\* The requirements that CircularSlidingWindow asserts, for whole strides.
ASSUME KeywordAssumption ==
  /\ BlockCount \in Nat /\ BlockCount >= 3
  /\ WindowStrides \in Nat /\ WindowStrides > 1
  /\ StridesPerBlock \in Nat /\ StridesPerBlock > WindowStrides
  /\ Overlap \in Nat \ {0}
  /\ QueueLength \in Nat \ {0}
  /\ MaxBlocks \in Nat /\ MaxHooks \in Nat
  /\ "silence" \notin Keywords /\ Keywords # {}

VARIABLES
  hookPc,        \* where the OTA agent is in vOtaActiveHook or vOtaNotActiveHook
  bits,          \* EVENT_MASK_ML_START, _ML_STOP that are set
  hooks,         \* hooks called so far
  listening,     \* prvAudioDrvSetup has been called
  captured,      \* blocks the driver has completed
  vsiPc,         \* where vVsiCallbackTask is
  window,        \* circularSlider: [block_under_write, current_stride, semaphore]
  mlPc,          \* where vMlTask is
  stride_index,  \* features of this inference
  inputTensor,   \* the features
  featureCache,  \* the features that the next inference takes over
  firstIteration,
  report,        \* [state, queued]: ml_processing_state, entries of xMlMqttQueue
  gap            \* history: recognition was stopped since the last inference

hookVars == <<hookPc, bits, hooks>>
driverVars == <<listening, captured, vsiPc>>
featureVars == <<stride_index, inputTensor, featureCache, firstIteration, gap>>
vars == <<hookVars, driverVars, window, mlPc, featureVars, report>>

-----------------------------------------------------------------------------
Blocks == 0 .. BlockCount - 1
StrideCount == BlockCount * StridesPerBlock
Features == 2 * Overlap  \* audioDataWindowSize / mfccWindowStride

\* Mutant: the count does not come round.
NextBlock_Unbounded(b) == b + 1

NextBlock(b) == (b + 1) % BlockCount

\* The block that the driver fills.
Filling == captured % BlockCount

\* Audio that was never captured, or that the driver is overwriting.
Torn == -1
Strides == Nat \cup {Torn}

\* What position p of the ring holds: the stride of the last block completed there.
Sample(p) ==
  LET b == p \div StridesPerBlock
      back == (Filling - b) % BlockCount
      block == captured - back
  IN IF back = 0 \/ block < 0 THEN Torn ELSE block * StridesPerBlock + (p % StridesPerBlock)

Feature == [0 .. WindowStrides - 1 -> Strides]
Moved == <<>>  \* a vector that std::move has emptied, or that was never filled

\* What next() copies: the rest of a window that ends past the buffer is at its
\* beginning.
Window == [j \in 0 .. WindowStrides - 1 |-> Sample((window.current_stride + j) % StrideCount)]

first_block == window.current_stride \div StridesPerBlock

\* Mutant: the last stride of the window is left out.
last_block_Short ==
  ((window.current_stride + WindowStrides - 2) \div StridesPerBlock) % BlockCount

last_block == ((window.current_stride + WindowStrides - 1) \div StridesPerBlock) % BlockCount

KeywordInit ==
  /\ hookPc = "idle" /\ bits = {} /\ hooks = 0
  /\ listening = FALSE /\ captured = 0 /\ vsiPc = "idle"
  /\ window = [block_under_write |-> 0, current_stride |-> 0, semaphore |-> TRUE]
  /\ mlPc = "start"
  /\ stride_index = 0
  /\ inputTensor = [i \in 0 .. Features - 1 |-> Moved]
  /\ featureCache = [i \in 0 .. Overlap - 1 |-> Moved]
  /\ firstIteration = TRUE
  /\ report = [state |-> "silence", queued |-> 0]
  /\ gap = FALSE

-----------------------------------------------------------------------------
(***************************************************************************)
(* The hooks                                                               *)
(***************************************************************************)

\* vMlTaskInferenceStop and vMlTaskInferenceStart: one bit is cleared, ...
HookCalled(set, clear) ==
  /\ hookPc = "idle" /\ hooks < MaxHooks
  /\ hooks' = hooks + 1
  /\ hookPc' = set
  /\ bits' = bits \ {clear}
  /\ UNCHANGED <<driverVars, window, mlPc, featureVars, report>>

vOtaActiveHook == HookCalled("ML_STOP", "ML_START")

vOtaNotActiveHook == HookCalled("ML_START", "ML_STOP")

\* ... then the other is set.
HookSets ==
  /\ hookPc # "idle"
  /\ hookPc' = "idle"
  /\ bits' = bits \cup {hookPc}
  /\ UNCHANGED <<hooks, driverVars, window, mlPc, featureVars, report>>

-----------------------------------------------------------------------------
(***************************************************************************)
(* The driver and the VSI callback task                                    *)
(***************************************************************************)

Paused == mlPc \in {"restart", "ended"}

\* While it is not stopped the ML task keeps up: the driver does not come round
\* to the block that is read next.  The callback task has announced a block before
\* the next is complete.
BlockComplete ==
  /\ listening
  /\ captured < MaxBlocks
  /\ vsiPc = "idle"
  /\ Paused \/ NextBlock(Filling) # first_block
  /\ captured' = captured + 1
  /\ vsiPc' = "notified"
  /\ UNCHANGED <<listening, hookVars, window, mlPc, featureVars, report>>

BlockCounted(from, to) ==
  /\ vsiPc = from
  /\ window' = [window EXCEPT !.block_under_write = NextBlock(@)]
  /\ vsiPc' = to
  /\ UNCHANGED <<listening, captured, hookVars, mlPc, featureVars, report>>

SemaphoreGiven(from, to) ==
  /\ vsiPc = from
  /\ window' = [window EXCEPT !.semaphore = TRUE]
  /\ vsiPc' = to
  /\ UNCHANGED <<listening, captured, hookVars, mlPc, featureVars, report>>

\* Mutant: the reader is woken before it can see the block.
prvSignalBlockWritten_GivesFirst == SemaphoreGiven("notified", "half") \/ BlockCounted("half", "idle")

\* The block under write is counted, then the reader is woken.
prvSignalBlockWritten == BlockCounted("notified", "half") \/ SemaphoreGiven("half", "idle")

-----------------------------------------------------------------------------
(***************************************************************************)
(* The ML task                                                             *)
(***************************************************************************)

\* The driver is set up when the first start is seen.  The callback task, woken
\* first, runs before a task that the start wakes.
MlStarts ==
  /\ mlPc \in {"start", "restart"}
  /\ vsiPc = "idle"
  /\ "ML_START" \in bits
  /\ bits' = bits \ {"ML_START"}
  /\ listening' = TRUE
  /\ mlPc' = "poll"
  /\ UNCHANGED <<hookPc, hooks, captured, vsiPc, window, featureVars, report>>

MlStops ==
  /\ mlPc = "poll"
  /\ "ML_STOP" \in bits
  /\ bits' = bits \ {"ML_STOP"}
  /\ mlPc' = "restart"
  /\ gap' = TRUE
  /\ UNCHANGED <<hookPc, hooks, driverVars, window, stride_index, inputTensor, featureCache,
                 firstIteration, report>>

\* The first window does not have the cache ready.
useCache == ~firstIteration

NeedsAudio(i) == ~useCache \/ i >= Overlap

\* The next feature is taken from the cache, or its window is waited for.
Continue(i) == mlPc' = IF i = Features THEN "infer" ELSE IF NeedsAudio(i) THEN "first" ELSE "cached"

NotStopped ==
  /\ mlPc = "poll"
  /\ "ML_STOP" \notin bits
  /\ stride_index' = 0
  /\ Continue(0)
  /\ UNCHANGED <<hookVars, driverVars, window, inputTensor, featureCache, firstIteration, report, gap>>

\* The block under write is read once for each of the two comparisons.
FirstBlockChecked ==
  /\ mlPc = "first"
  /\ mlPc' = IF first_block = window.block_under_write THEN "take" ELSE "last"
  /\ UNCHANGED <<hookVars, driverVars, window, featureVars, report>>

LastBlockUnderWrite ==
  /\ mlPc = "last"
  /\ last_block = window.block_under_write
  /\ mlPc' = "take"
  /\ UNCHANGED <<hookVars, driverVars, window, featureVars, report>>

SemaphoreTaken ==
  /\ mlPc = "take"
  /\ window.semaphore
  /\ window' = [window EXCEPT !.semaphore = FALSE]
  /\ mlPc' = "first"
  /\ UNCHANGED <<hookVars, driverVars, featureVars, report>>

\* The cache is renewed as soon as the features are past the overlap.
Cached(f) ==
  IF stride_index >= Overlap THEN [featureCache EXCEPT ![stride_index - Overlap] = f] ELSE featureCache

\* next() copies the window, and its feature is computed.
WindowCopied ==
  /\ mlPc = "last"
  /\ last_block # window.block_under_write
  /\ inputTensor' = [inputTensor EXCEPT ![stride_index] = Window]
  /\ featureCache' = Cached(Window)
  /\ window' = [window EXCEPT !.current_stride = (@ + 1) % StrideCount]
  /\ stride_index' = stride_index + 1
  /\ Continue(stride_index + 1)
  /\ UNCHANGED <<hookVars, driverVars, firstIteration, report, gap>>

\* The feature is moved out of the cache: what is empty leaves the tensor as it is.
FeatureReused ==
  /\ mlPc = "cached"
  /\ inputTensor' = IF featureCache[stride_index] = Moved THEN inputTensor
                    ELSE [inputTensor EXCEPT ![stride_index] = featureCache[stride_index]]
  /\ featureCache' = [featureCache EXCEPT ![stride_index] = Moved]
  /\ stride_index' = stride_index + 1
  /\ Continue(stride_index + 1)
  /\ UNCHANGED <<hookVars, driverVars, window, firstIteration, report, gap>>

\* prvProcessAudio returns, and the task with it.
InferenceFails ==
  /\ mlPc = "infer"
  /\ mlPc' = "ended"
  /\ UNCHANGED <<hookVars, driverVars, window, featureVars, report>>

\* prvSetMlProcessingState: a change is queued if there is room, and is the state
\* from then on in any case.
Inference ==
  /\ mlPc = "infer"
  /\ \E s \in Keywords :
       report' = [state |-> s,
                  queued |-> IF s # report.state /\ report.queued < QueueLength
                               THEN report.queued + 1 ELSE report.queued]
  /\ firstIteration' = FALSE
  /\ gap' = FALSE
  /\ mlPc' = "poll"
  /\ UNCHANGED <<hookVars, driverVars, window, stride_index, inputTensor, featureCache>>

\* prvMqttSendMessage ends, sent or not.
vMlMqttTask ==
  /\ report.queued > 0
  /\ report' = [report EXCEPT !.queued = @ - 1]
  /\ UNCHANGED <<hookVars, driverVars, window, mlPc, featureVars>>

-----------------------------------------------------------------------------
Hook == vOtaActiveHook \/ vOtaNotActiveHook \/ HookSets

Vsi == BlockComplete \/ prvSignalBlockWritten

MlTask ==
  \/ MlStarts \/ MlStops \/ NotStopped
  \/ FirstBlockChecked \/ LastBlockUnderWrite \/ SemaphoreTaken \/ WindowCopied \/ FeatureReused
  \/ InferenceFails \/ Inference

Next == Hook \/ Vsi \/ MlTask \/ vMlMqttTask

Spec == KeywordInit /\ [][Next]_vars

-----------------------------------------------------------------------------
(***************************************************************************)
(* Properties                                                              *)
(***************************************************************************)

\* Type invariant of the detector.
KeywordTypeOK ==
  /\ hookPc \in {"idle", "ML_START", "ML_STOP"}
  /\ bits \subseteq {"ML_START", "ML_STOP"}
  /\ hooks \in 0 .. MaxHooks
  /\ listening \in BOOLEAN
  /\ captured \in 0 .. MaxBlocks
  /\ vsiPc \in {"idle", "notified", "half"}
  /\ window \in [block_under_write : Blocks, current_stride : 0 .. StrideCount - 1, semaphore : BOOLEAN]
  /\ mlPc \in {"start", "restart", "poll", "first", "last", "take", "cached", "infer", "ended"}
  /\ stride_index \in 0 .. Features
  /\ inputTensor \in [0 .. Features - 1 -> Feature \cup {Moved}]
  /\ featureCache \in [0 .. Overlap - 1 -> Feature \cup {Moved}]
  /\ firstIteration \in BOOLEAN
  /\ report \in [state : Keywords \cup {"silence"}, queued : 0 .. QueueLength]
  /\ gap \in BOOLEAN

\* Features that were computed from the strides that follow one another.
Contiguous(from, to) ==
  /\ \A i \in from .. to : inputTensor[i] # Moved /\ \A j \in 0 .. WindowStrides - 1 : inputTensor[i][j] # Torn
  /\ \A i \in from .. to, j \in 0 .. WindowStrides - 1 :
       inputTensor[i][j] = inputTensor[from][0] + (i - from) + j

\* What next() has read for an inference is audio without a hole, a repetition or a
\* block that was being written, however the blocks and strides meet: the feature
\* cache, the wrap of the ring and the two comparisons agree.
WindowsContiguous ==
  mlPc = "infer" => IF useCache /\ gap THEN Contiguous(Overlap, Features - 1)
                                       ELSE Contiguous(0, Features - 1)

\* The ML task never sleeps over a window that it could read: if neither block of it
\* is under write, the semaphore has been given or is about to be.
NoLostWakeup ==
  mlPc = "take" =>
    window.semaphore \/ vsiPc = "half" \/ window.block_under_write \in {first_block, last_block}
=============================================================================
