------------------------ MODULE AudioPipeline_proofs ------------------------
(***************************************************************************)
(* Proofs about speech recognition.  The pipeline, for every number of     *)
(* blocks, every size of the window and any number of calls of the hooks:  *)
(* types and sizes, windows that are whole, blocks that are at rest while  *)
(* they are copied, and recognition that stops.  And its results, for any  *)
(* memory, queue and number of commands: that each has one holder, and is  *)
(* not freed while the agent may read it.                                  *)
(***************************************************************************)
EXTENDS AudioPipeline, InferenceResults, SequenceTheorems, TLAPS

-----------------------------------------------------------------------------
(***************************************************************************)
(* Types                                                                   *)
(***************************************************************************)

\* How many blocks a turn of the scheduler has read, by where the DSP task is.
BlocksRead ==
  /\ dspPc = "slide" => Len(input) = BlocksPerRun
  /\ dspPc \in {"mic", "read"} => Len(input) < BlocksPerRun

\* A launch, and every turn, begins with no block read.
TurnBegins == dspPc \in {"ml", "copying", "swap", "wake"} => input = <<>>

TypeInv == AudioTypeOK /\ BlocksRead /\ TurnBegins

LEMMA NextSlotType ==
  /\ 0 \in Slots
  /\ \A s \in Slots : NextSlot(s) \in Slots
  BY AudioAssumption DEF Slots, NextSlot

\* A window keeps its length, and holds launches.
LEMMA WindowSlides ==
  ASSUME NEW w \in Seq(Launches), Len(w) = WindowBlocks,
         NEW i \in Seq(Launches), Len(i) = BlocksPerRun
  PROVE  /\ SubSeq(w, BlocksPerRun + 1, WindowBlocks) \o i \in Seq(Launches)
         /\ Len(SubSeq(w, BlocksPerRun + 1, WindowBlocks) \o i) = WindowBlocks
         /\ \A k \in 1 .. WindowBlocks :
              (SubSeq(w, BlocksPerRun + 1, WindowBlocks) \o i)[k] =
                IF k <= WindowBlocks - BlocksPerRun
                  THEN w[k + BlocksPerRun] ELSE i[k - (WindowBlocks - BlocksPerRun)]
<1> DEFINE v == SubSeq(w, BlocksPerRun + 1, WindowBlocks)
<1>1. /\ v \in Seq(Launches)
      /\ Len(v) = WindowBlocks - BlocksPerRun
      /\ \A k \in 1 .. WindowBlocks - BlocksPerRun : v[k] = w[k + BlocksPerRun]
  BY AudioAssumption
<1> HIDE DEF v
<1>2. v \o i \in Seq(Launches) /\ Len(v \o i) = WindowBlocks
  BY <1>1, AudioAssumption, ConcatProperties
<1>3. \A k \in 1 .. WindowBlocks :
        (v \o i)[k] = IF k <= WindowBlocks - BlocksPerRun
                        THEN w[k + BlocksPerRun] ELSE i[k - (WindowBlocks - BlocksPerRun)]
  BY <1>1, <1>2, AudioAssumption, ConcatProperties
<1>4. QED  BY <1>2, <1>3 DEF v

LEMMA SegmentType == ASSUME AudioTypeOK PROVE SegmentOf(window) \in Segments
<1>1. window[1] \in Launches
  BY AudioAssumption DEF AudioTypeOK
<1>2. QED  BY <1>1 DEF AudioTypeOK, SegmentOf, Segments

LEMMA SilenceType == Silence \in Seq(Launches) /\ Len(Silence) = WindowBlocks
  BY AudioAssumption DEF Silence, Launches

LEMMA NothingType == Whole(Nothing) \in Halves
  BY DEF Whole, Nothing, Halves, Segments, Launches

LEMMA InitTypes == AudioInit => TypeInv
<1> SUFFICES ASSUME AudioInit PROVE TypeInv
  OBVIOUS
<1>1. sound \in [Slots -> Launches] /\ hw \in Slots
  BY NextSlotType DEF AudioInit, Launches
<1>2. vsi \in [notified : BOOLEAN, current_block : Slots, block_under_write : Slots, semaphore : BOOLEAN]
  BY NextSlotType DEF AudioInit
<1>3. window \in Seq(Launches) /\ Len(window) = WindowBlocks
  BY SilenceType DEF AudioInit
<1>4. input \in Seq(Launches) /\ Len(input) = 0
  BY DEF AudioInit
<1>5. dspml \in [mutex : {"free", "dsp", "ml"}, semaphore : BOOLEAN, dspBuffer : Buffers, mlBuffer : Buffers]
  BY DEF AudioInit, Buffers
<1>6. buffers \in [Buffers -> Halves] /\ taken \in Halves /\ reading \in Buffers
  BY NothingType DEF AudioInit, Buffers
<1>7. launch \in Launches /\ hooks \in 0 .. MaxHooks
  BY AudioAssumption DEF AudioInit, Launches
<1>8. /\ hookPc = "idle" /\ bits = {} /\ wanted = FALSE
      /\ dspPc = "start" /\ frames = 0
      /\ mlPc = "start" /\ results = 0 /\ late = 0
  BY DEF AudioInit
<1>9. Len(input) <= BlocksPerRun
  BY <1>4, AudioAssumption
<1>10. AudioTypeOK
  <2>1. /\ hookPc \in {"idle", "stop", "dspStop", "start", "dspStart"}
        /\ bits \subseteq {"ML_START", "ML_STOP", "DSP_START"}
        /\ dspPc \in {"start", "mic", "read", "slide", "ml", "copying", "swap", "wake"}
        /\ mlPc \in {"start", "poll", "data", "copy", "copying", "infer", "ended"}
        /\ frames \in 0 .. 2 /\ results \in 0 .. 1 /\ late \in 0 .. 2
    BY <1>8
  <2>2. wanted \in BOOLEAN
    BY <1>8
  <2>3. QED
    BY <1>1, <1>2, <1>3, <1>4, <1>5, <1>6, <1>7, <1>9, <2>1, <2>2 DEF AudioTypeOK
<1>11. BlocksRead /\ TurnBegins
  BY <1>8 DEF BlocksRead, TurnBegins
<1>12. QED  BY <1>10, <1>11 DEF TypeInv

LEMMA HookTypes ==
  ASSUME TypeInv, HookCalls \/ HookReturns
  PROVE  TypeInv'
<1>1. UNCHANGED <<dspVars, driverVars, dspml, buffers, mlPc, taken, reading, results>>
  BY DEF HookCalls, HookReturns, OtaActiveHook, OtaNotActiveHook, StopMl, StopDsp, StartMl, StartDsp,
         HookStep, mlVars
<1>2. /\ hookPc' \in {"idle", "stop", "dspStop", "start", "dspStart"}
      /\ bits' \subseteq {"ML_START", "ML_STOP", "DSP_START"}
      /\ wanted' \in BOOLEAN /\ late' \in 0 .. 2
  <2>1. CASE OtaActiveHook
    BY <2>1 DEF OtaActiveHook, mlVars, TypeInv, AudioTypeOK
  <2>2. CASE OtaNotActiveHook
    BY <2>2 DEF OtaNotActiveHook, TypeInv, AudioTypeOK
  <2>3. CASE StopDsp
    BY <2>3 DEF StopDsp, TypeInv, AudioTypeOK
  <2>4. CASE StopMl \/ StartMl \/ StartDsp
    BY <2>4 DEF StopMl, StartMl, StartDsp, HookStep, mlVars, TypeInv, AudioTypeOK
  <2>5. QED  BY <2>1, <2>2, <2>3, <2>4 DEF HookCalls, HookReturns
<1>3. hooks' \in 0 .. MaxHooks
  BY AudioAssumption
    DEF HookCalls, HookReturns, OtaActiveHook, OtaNotActiveHook, StopMl, StopDsp, StartMl, StartDsp,
        HookStep, TypeInv, AudioTypeOK
<1>4. QED
  BY <1>1, <1>2, <1>3 DEF TypeInv, AudioTypeOK, BlocksRead, TurnBegins, dspVars, driverVars

LEMMA DriverTypes ==
  ASSUME TypeInv, BlockComplete \/ prvNewAudioBlockReceived
  PROVE  TypeInv'
<1>1. UNCHANGED <<hookVars, dspVars, dspml, buffers, mlVars>>
  BY DEF BlockComplete, prvNewAudioBlockReceived
<1>2. hw' \in Slots /\ sound' \in [Slots -> Launches]
  <2>1. hw \in Slots /\ sound \in [Slots -> Launches] /\ launch \in Launches
    BY DEF TypeInv, AudioTypeOK
  <2>2. CASE BlockComplete
    BY <2>1, <2>2, NextSlotType DEF BlockComplete
  <2>3. CASE prvNewAudioBlockReceived
    BY <2>1, <2>3 DEF prvNewAudioBlockReceived
  <2>4. QED  BY <2>2, <2>3
<1>3. vsi' \in [notified : BOOLEAN, current_block : Slots, block_under_write : Slots, semaphore : BOOLEAN]
  <2>1. CASE BlockComplete
    BY <2>1 DEF BlockComplete, TypeInv, AudioTypeOK
  <2>2. CASE prvNewAudioBlockReceived
    <3>1. vsi.block_under_write \in Slots
      BY DEF TypeInv, AudioTypeOK
    <3>2. QED  BY <2>2, <3>1, NextSlotType DEF prvNewAudioBlockReceived
  <2>3. QED  BY <2>1, <2>2
<1>4. QED
  BY <1>1, <1>2, <1>3
    DEF TypeInv, AudioTypeOK, BlocksRead, TurnBegins, hookVars, dspVars, mlVars

LEMMA DspTypes ==
  ASSUME TypeInv, DspTask
  PROVE  TypeInv'
<1>1. CASE Launch
  <2>1. launch' \in Launches /\ launch + 1 \in Launches
    BY <1>1 DEF Launch, TypeInv, AudioTypeOK, Launches
  <2>2. sound' \in [Slots -> Launches]
    BY <1>1, <2>1 DEF Launch, TypeInv, AudioTypeOK
  <2>3. input' = <<>> /\ input' \in Seq(Launches) /\ Len(input') = 0
    BY <1>1 DEF Launch
  <2>4. QED
    BY <1>1, <2>1, <2>2, <2>3, SilenceType, AudioAssumption
      DEF Launch, TypeInv, AudioTypeOK, BlocksRead, TurnBegins, hookVars, mlVars
<1>2. CASE vWaitForNewBuffer
  <2>1. vsi' \in [notified : BOOLEAN, current_block : Slots, block_under_write : Slots, semaphore : BOOLEAN]
    BY <1>2 DEF vWaitForNewBuffer, TypeInv, AudioTypeOK
  <2>2. QED
    BY <1>2, <2>1
      DEF vWaitForNewBuffer, TypeInv, AudioTypeOK, BlocksRead, TurnBegins, hookVars, mlVars
<1>3. CASE MicrophoneSource
  <2>1. sound[vsi.current_block] \in Launches
    BY DEF TypeInv, AudioTypeOK
  <2>2. input' \in Seq(Launches) /\ Len(input') = Len(input) + 1 /\ Len(input) < BlocksPerRun
    BY <1>3, <2>1 DEF MicrophoneSource, TypeInv, AudioTypeOK, BlocksRead
  <2>3. Len(input') <= BlocksPerRun
    BY <2>2, AudioAssumption DEF TypeInv, AudioTypeOK
  <2>4. /\ dspPc' \in {"slide", "mic", "start"}
        /\ dspPc' = "slide" => Len(input') = BlocksPerRun
        /\ dspPc' = "mic" => Len(input') # BlocksPerRun
    BY <1>3 DEF MicrophoneSource, DspGoesTo
  <2>5. BlocksRead' /\ TurnBegins'
    BY <2>2, <2>3, <2>4, AudioAssumption DEF BlocksRead, TurnBegins, TypeInv, AudioTypeOK
  <2>6. AudioTypeOK'
    BY <1>3, <2>2, <2>3, <2>4
      DEF MicrophoneSource, TypeInv, AudioTypeOK, hookVars, driverVars, mlVars
  <2>7. QED  BY <2>5, <2>6 DEF TypeInv
<1>4. CASE SlidingBuffer
  <2>1. window' \in Seq(Launches) /\ Len(window') = WindowBlocks
    BY <1>4, WindowSlides DEF SlidingBuffer, TypeInv, AudioTypeOK, BlocksRead
  <2>2. input' = <<>> /\ input' \in Seq(Launches) /\ Len(input') = 0
    BY <1>4 DEF SlidingBuffer
  <2>3. dspPc' \in {"ml", "start"}
    BY <1>4 DEF SlidingBuffer, DspGoesTo
  <2>4. QED
    BY <1>4, <2>1, <2>2, <2>3, AudioAssumption
      DEF SlidingBuffer, TypeInv, AudioTypeOK, BlocksRead, TurnBegins, hookVars, driverVars, mlVars
<1>5. CASE SkipFrame
  <2>1. frames' \in 0 .. 2 /\ dspPc' \in {"mic", "start"} /\ input' = <<>> /\ Len(input') = 0
    BY <1>5 DEF SkipFrame, Skipping, DspGoesTo, TypeInv, AudioTypeOK, TurnBegins
  <2>2. QED
    BY <1>5, <2>1, AudioAssumption
      DEF SkipFrame, TypeInv, AudioTypeOK, BlocksRead, TurnBegins, hookVars, driverVars, mlVars
<1>6. CASE CopyToDSPBuffer
  <2>1. buffers' \in [Buffers -> Halves]
    BY <1>6, SegmentType DEF CopyToDSPBuffer, TypeInv, AudioTypeOK, Halves
  <2>2. dspml' \in [mutex : {"free", "dsp", "ml"}, semaphore : BOOLEAN, dspBuffer : Buffers, mlBuffer : Buffers]
    BY <1>6 DEF CopyToDSPBuffer, TypeInv, AudioTypeOK
  <2>3. QED
    BY <1>6, <2>1, <2>2
      DEF CopyToDSPBuffer, TypeInv, AudioTypeOK, BlocksRead, TurnBegins, hookVars, driverVars, mlVars
<1>7. CASE DSPBufferCopied
  <2>1. buffers' \in [Buffers -> Halves]
    BY <1>7, SegmentType DEF DSPBufferCopied, TypeInv, AudioTypeOK, Halves
  <2>2. dspml' \in [mutex : {"free", "dsp", "ml"}, semaphore : BOOLEAN, dspBuffer : Buffers, mlBuffer : Buffers]
    BY <1>7 DEF DSPBufferCopied, TypeInv, AudioTypeOK
  <2>3. QED
    BY <1>7, <2>1, <2>2
      DEF DSPBufferCopied, TypeInv, AudioTypeOK, BlocksRead, TurnBegins, hookVars, driverVars, mlVars
<1>8. CASE vSwapBuffers
  <2>1. dspml' \in [mutex : {"free", "dsp", "ml"}, semaphore : BOOLEAN, dspBuffer : Buffers, mlBuffer : Buffers]
    BY <1>8 DEF vSwapBuffers, TypeInv, AudioTypeOK
  <2>2. QED
    BY <1>8, <2>1
      DEF vSwapBuffers, TypeInv, AudioTypeOK, BlocksRead, TurnBegins, hookVars, driverVars, mlVars
<1>9. CASE WakeUpMLThread
  <2>1. dspml' \in [mutex : {"free", "dsp", "ml"}, semaphore : BOOLEAN, dspBuffer : Buffers, mlBuffer : Buffers]
    BY <1>9 DEF WakeUpMLThread, TypeInv, AudioTypeOK
  <2>2. dspPc' \in {"mic", "start"} /\ input' = <<>> /\ Len(input') = 0
    BY <1>9 DEF WakeUpMLThread, DspGoesTo, TypeInv, TurnBegins
  <2>3. QED
    BY <1>9, <2>1, <2>2, AudioAssumption
      DEF WakeUpMLThread, TypeInv, AudioTypeOK, BlocksRead, TurnBegins, hookVars, driverVars, mlVars
<1>10. QED
  BY <1>1, <1>2, <1>3, <1>4, <1>5, <1>6, <1>7, <1>8, <1>9 DEF DspTask

LEMMA MlTypes ==
  ASSUME TypeInv, MlTask
  PROVE  TypeInv'
<1>1. UNCHANGED <<hookPc, hooks, wanted, driverVars, dspVars, buffers>>
  BY DEF MlTask, MlStarts, MlStops, NotStopped, vWaitForDSPData, CopyFromMLBuffer,
         MLBufferCopied, InferenceFails, FirstInference, SecondInference, hookVars
<1>2. /\ bits' \subseteq {"ML_START", "ML_STOP", "DSP_START"}
      /\ mlPc' \in {"start", "poll", "data", "copy", "copying", "infer", "ended"}
      /\ results' \in 0 .. 1 /\ late' \in 0 .. 2
  BY DEF MlTask, MlStarts, MlStops, NotStopped, vWaitForDSPData, CopyFromMLBuffer,
         MLBufferCopied, InferenceFails, FirstInference, SecondInference, hookVars, mlVars,
         TypeInv, AudioTypeOK
<1>3. dspml' \in [mutex : {"free", "dsp", "ml"}, semaphore : BOOLEAN, dspBuffer : Buffers, mlBuffer : Buffers]
  BY DEF MlTask, MlStarts, MlStops, NotStopped, vWaitForDSPData, CopyFromMLBuffer,
         MLBufferCopied, InferenceFails, FirstInference, SecondInference, TypeInv, AudioTypeOK
<1>4. reading' \in Buffers
  BY DEF MlTask, MlStarts, MlStops, NotStopped, vWaitForDSPData, CopyFromMLBuffer,
         MLBufferCopied, InferenceFails, FirstInference, SecondInference, mlVars, TypeInv, AudioTypeOK,
         Buffers
<1>5. taken' \in Halves
  <2>1. CASE CopyFromMLBuffer
    BY <2>1 DEF CopyFromMLBuffer, TypeInv, AudioTypeOK, Halves
  <2>2. CASE MLBufferCopied
    BY <2>2 DEF MLBufferCopied, TypeInv, AudioTypeOK, Halves
  <2>3. CASE FirstInference \/ SecondInference
    BY <2>3, NothingType DEF FirstInference, SecondInference
  <2>4. QED
    BY <2>1, <2>2, <2>3
      DEF MlTask, MlStarts, MlStops, NotStopped, vWaitForDSPData, InferenceFails, mlVars,
          TypeInv, AudioTypeOK
<1>6. QED
  BY <1>1, <1>2, <1>3, <1>4, <1>5
    DEF TypeInv, AudioTypeOK, BlocksRead, TurnBegins, driverVars, dspVars

LEMMA StepTypes == TypeInv /\ [Next]_vars => TypeInv'
<1>1. ASSUME TypeInv, UNCHANGED vars PROVE TypeInv'
  BY <1>1 DEF vars, hookVars, driverVars, dspVars, mlVars, TypeInv, AudioTypeOK, BlocksRead,
              TurnBegins
<1>2. QED
  BY <1>1, HookTypes, DriverTypes, DspTypes, MlTypes DEF Next

\* Every variable keeps its type; no turn reads a block too many, and the window
\* always has WindowBlocks blocks.
THEOREM AudioTypesCorrect == Spec => []AudioTypeOK
<1>1. AudioInit => TypeInv
  BY InitTypes
<1>2. TypeInv => AudioTypeOK
  BY DEF TypeInv
<1>3. QED  BY <1>1, <1>2, StepTypes, PTL DEF Spec

-----------------------------------------------------------------------------
(***************************************************************************)
(* Windows are whole                                                       *)
(***************************************************************************)

\* The tasks never have the same buffer, and hold the mutex while they copy.
Exclusion ==
  /\ dspml.dspBuffer # dspml.mlBuffer
  /\ dspml.mutex = "dsp" <=> dspPc = "copying"
  /\ dspml.mutex = "ml" <=> mlPc = "copying"

IsWhole(h) == h.low = h.high

\* The buffer that the ML task reads is whole, and so is the other one when it is
\* about to be exchanged.
Handover ==
  /\ IsWhole(buffers[dspml.mlBuffer])
  /\ dspPc = "copying" => buffers[dspml.dspBuffer].low = SegmentOf(window)
  /\ dspPc = "swap" => IsWhole(buffers[dspml.dspBuffer])
  /\ mlPc = "copying" => reading = dspml.mlBuffer /\ taken.low = buffers[reading].low

WholeInv == TypeInv /\ Exclusion /\ Handover /\ WindowWhole

LEMMA InitWhole == AudioInit => Exclusion /\ Handover /\ WindowWhole
  BY DEF AudioInit, Exclusion, Handover, WindowWhole, IsWhole, Whole, Buffers

LEMMA HookDriverWhole ==
  ASSUME WholeInv,
         HookCalls \/ HookReturns \/ BlockComplete \/ prvNewAudioBlockReceived
  PROVE  WholeInv'
<1>1. UNCHANGED <<dspPc, window, launch, dspml, buffers, mlPc, taken, reading>>
  BY DEF HookCalls, HookReturns, OtaActiveHook, OtaNotActiveHook, StopMl, StopDsp, StartMl, StartDsp,
         HookStep, BlockComplete, prvNewAudioBlockReceived, dspVars, mlVars
<1>2. TypeInv'
  BY HookTypes, DriverTypes, MlTypes DEF WholeInv
<1>3. QED
  BY <1>1, <1>2 DEF WholeInv, Exclusion, Handover, WindowWhole, IsWhole, SegmentOf

LEMMA DspWhole ==
  ASSUME WholeInv, DspTask
  PROVE  WholeInv'
<1> USE DEF WholeInv
<1>1. TypeInv'
  BY DspTypes
<1>2. UNCHANGED <<mlPc, taken, reading>> /\ WindowWhole'
  BY DEF DspTask, Launch, vWaitForNewBuffer, MicrophoneSource, SlidingBuffer, SkipFrame,
         CopyToDSPBuffer, DSPBufferCopied, vSwapBuffers, WakeUpMLThread, mlVars, WindowWhole
<1>3. CASE Launch \/ vWaitForNewBuffer \/ MicrophoneSource \/ SlidingBuffer \/ SkipFrame
  <2>1. /\ UNCHANGED <<dspml, buffers>>
        /\ dspPc # "copying" /\ dspPc' \notin {"copying", "swap"}
    BY <1>3 DEF Launch, vWaitForNewBuffer, MicrophoneSource, SlidingBuffer, SkipFrame, DspGoesTo
  <2>2. QED  BY <1>1, <1>2, <2>1 DEF Exclusion, Handover
<1>4. CASE CopyToDSPBuffer
  <2>1. dspml'.mutex = "dsp" /\ dspml'.dspBuffer = dspml.dspBuffer /\ dspml'.mlBuffer = dspml.mlBuffer
    BY <1>4 DEF CopyToDSPBuffer, TypeInv, AudioTypeOK
  <2>2. /\ buffers'[dspml.dspBuffer].low = SegmentOf(window)
        /\ buffers'[dspml.mlBuffer] = buffers[dspml.mlBuffer]
    BY <1>4 DEF CopyToDSPBuffer, TypeInv, AudioTypeOK, Halves, Exclusion
  <2>3. dspPc' = "copying" /\ mlPc # "copying" /\ SegmentOf(window)' = SegmentOf(window)
    BY <1>4 DEF CopyToDSPBuffer, Exclusion, SegmentOf
  <2>4. QED  BY <1>1, <1>2, <2>1, <2>2, <2>3 DEF Exclusion, Handover
<1>5. CASE DSPBufferCopied
  <2>1. dspml'.mutex = "free" /\ dspml'.dspBuffer = dspml.dspBuffer /\ dspml'.mlBuffer = dspml.mlBuffer
    BY <1>5 DEF DSPBufferCopied, TypeInv, AudioTypeOK
  <2>2. /\ IsWhole(buffers'[dspml.dspBuffer])
        /\ buffers'[dspml.mlBuffer] = buffers[dspml.mlBuffer]
    BY <1>5 DEF DSPBufferCopied, TypeInv, AudioTypeOK, Halves, Exclusion, Handover, IsWhole
  <2>3. dspPc' = "swap" /\ mlPc # "copying"
    BY <1>5 DEF DSPBufferCopied, Exclusion
  <2>4. QED  BY <1>1, <1>2, <2>1, <2>2, <2>3 DEF Exclusion, Handover
<1>6. CASE vSwapBuffers
  <2>1. /\ dspml'.mutex = "free"
        /\ dspml'.dspBuffer = dspml.mlBuffer /\ dspml'.mlBuffer = dspml.dspBuffer
    BY <1>6 DEF vSwapBuffers, TypeInv, AudioTypeOK
  <2>2. dspPc = "swap" /\ dspPc' = "wake" /\ mlPc # "copying" /\ buffers' = buffers
    BY <1>6 DEF vSwapBuffers, Exclusion
  <2>3. QED  BY <1>1, <1>2, <2>1, <2>2 DEF Exclusion, Handover
<1>7. CASE WakeUpMLThread
  <2>1. /\ dspml'.mutex = dspml.mutex
        /\ dspml'.dspBuffer = dspml.dspBuffer /\ dspml'.mlBuffer = dspml.mlBuffer
    BY <1>7 DEF WakeUpMLThread, TypeInv, AudioTypeOK
  <2>2. dspPc = "wake" /\ dspPc' \in {"mic", "start"} /\ buffers' = buffers
    BY <1>7 DEF WakeUpMLThread, DspGoesTo
  <2>3. QED  BY <1>1, <1>2, <2>1, <2>2 DEF Exclusion, Handover
<1>8. QED
  BY <1>3, <1>4, <1>5, <1>6, <1>7 DEF DspTask

LEMMA MlWhole ==
  ASSUME WholeInv, MlTask
  PROVE  WholeInv'
<1> USE DEF WholeInv
<1>1. TypeInv'
  BY MlTypes
<1>2. UNCHANGED <<dspPc, window, launch, buffers>> /\ SegmentOf(window)' = SegmentOf(window)
  BY DEF MlTask, MlStarts, MlStops, NotStopped, vWaitForDSPData, CopyFromMLBuffer,
         MLBufferCopied, InferenceFails, FirstInference, SecondInference, dspVars, SegmentOf
<1>3. CASE MlStarts \/ MlStops \/ NotStopped \/ InferenceFails \/ FirstInference \/ SecondInference
  <2>1. UNCHANGED dspml /\ mlPc # "copying" /\ mlPc' \notin {"copying", "infer"}
    BY <1>3 DEF MlStarts, MlStops, NotStopped, InferenceFails, FirstInference, SecondInference
  <2>2. QED  BY <1>1, <1>2, <2>1 DEF Exclusion, Handover, WindowWhole
<1>4. CASE vWaitForDSPData
  <2>1. /\ dspml'.mutex = dspml.mutex
        /\ dspml'.dspBuffer = dspml.dspBuffer /\ dspml'.mlBuffer = dspml.mlBuffer
    BY <1>4 DEF vWaitForDSPData, TypeInv, AudioTypeOK
  <2>2. mlPc = "data" /\ mlPc' = "copy"
    BY <1>4 DEF vWaitForDSPData
  <2>3. QED  BY <1>1, <1>2, <2>1, <2>2 DEF Exclusion, Handover, WindowWhole
<1>5. CASE CopyFromMLBuffer
  <2>1. /\ dspml'.mutex = "ml"
        /\ dspml'.dspBuffer = dspml.dspBuffer /\ dspml'.mlBuffer = dspml.mlBuffer
    BY <1>5 DEF CopyFromMLBuffer, TypeInv, AudioTypeOK
  <2>2. reading' = dspml.mlBuffer /\ taken'.low = buffers[dspml.mlBuffer].low
    BY <1>5 DEF CopyFromMLBuffer, TypeInv, AudioTypeOK, Halves
  <2>3. mlPc = "copy" /\ mlPc' = "copying" /\ dspPc # "copying"
    BY <1>5 DEF CopyFromMLBuffer, Exclusion
  <2>4. QED  BY <1>1, <1>2, <2>1, <2>2, <2>3 DEF Exclusion, Handover, WindowWhole
<1>6. CASE MLBufferCopied
  <2>1. /\ dspml'.mutex = "free"
        /\ dspml'.dspBuffer = dspml.dspBuffer /\ dspml'.mlBuffer = dspml.mlBuffer
    BY <1>6 DEF MLBufferCopied, TypeInv, AudioTypeOK, Exclusion
  <2>2. taken'.low = buffers[reading].low /\ taken'.high = buffers[reading].high
    BY <1>6 DEF MLBufferCopied, TypeInv, AudioTypeOK, Halves, Handover
  <2>3. mlPc = "copying" /\ mlPc' = "infer" /\ dspPc # "copying" /\ reading = dspml.mlBuffer
    BY <1>6 DEF MLBufferCopied, Exclusion, Handover
  <2>4. QED  BY <1>1, <1>2, <2>1, <2>2, <2>3 DEF Exclusion, Handover, WindowWhole, IsWhole
<1>7. QED
  BY <1>3, <1>4, <1>5, <1>6 DEF MlTask

LEMMA StepWhole == WholeInv /\ [Next]_vars => WholeInv'
<1>1. WholeInv /\ UNCHANGED vars => WholeInv'
  <2> SUFFICES ASSUME WholeInv, UNCHANGED vars PROVE WholeInv'
    OBVIOUS
  <2>1. TypeInv'
    BY StepTypes DEF WholeInv
  <2>2. QED
    BY <2>1 DEF vars, dspVars, mlVars, WholeInv, Exclusion, Handover, WindowWhole, IsWhole, SegmentOf
<1>2. QED
  BY <1>1, HookDriverWhole, DspWhole, MlWhole DEF Next

\* An inference runs on one window: vCopyFromMLBufferInto, vCopyToDSPBufferFrom and
\* vSwapBuffersAndWakeUpMLThread exclude each other, and the buffers are exchanged
\* only when both halves have been written.
THEOREM WindowsAreWhole == Spec => []WindowWhole
<1>1. AudioInit => WholeInv
  BY InitTypes, InitWhole DEF WholeInv
<1>2. WholeInv => WindowWhole
  BY DEF WholeInv
<1>3. QED  BY <1>1, <1>2, StepWhole, PTL DEF Spec

-----------------------------------------------------------------------------
(***************************************************************************)
(* Recognition stops                                                       *)
(***************************************************************************)

\* Nothing starts the ML task, and it stops when it polls.
Stopped ==
  /\ "ML_START" \notin bits
  /\ mlPc \in {"start", "ended"} \/ "ML_STOP" \in bits

\* What each step of the hooks has established.
HooksOrdered ==
  /\ hookPc \in {"start", "dspStart"} => wanted
  /\ hookPc = "stop" => ~wanted /\ "ML_START" \notin bits
  /\ hookPc = "dspStop" => ~wanted /\ Stopped
  /\ hookPc = "idle" /\ ~wanted => Stopped

\* One inference has begun, and no window is on its way for another.
LastWindow ==
  hookPc = "idle" /\ ~wanted =>
    late <= 1 /\ (late = 1 => mlPc \notin {"data", "copy", "copying"})

StopInv == TypeInv /\ HooksOrdered /\ LastWindow

LEMMA InitStop == AudioInit => HooksOrdered /\ LastWindow
  BY DEF AudioInit, HooksOrdered, LastWindow, Stopped

LEMMA HookStop ==
  ASSUME StopInv, HookCalls \/ HookReturns
  PROVE  StopInv'
<1>1. TypeInv'
  BY HookTypes DEF StopInv
<1>2. HooksOrdered'
  BY DEF StopInv, HookCalls, HookReturns, OtaActiveHook, OtaNotActiveHook, StopMl, StopDsp, StartMl,
         StartDsp, HookStep, HooksOrdered, Stopped, mlVars
<1>3. LastWindow'
  BY DEF StopInv, HookCalls, HookReturns, OtaActiveHook, OtaNotActiveHook, StopMl, StopDsp, StartMl,
         StartDsp, HookStep, HooksOrdered, LastWindow
<1>4. QED  BY <1>1, <1>2, <1>3 DEF StopInv

LEMMA MlStop ==
  ASSUME StopInv, MlTask
  PROVE  StopInv'
<1>1. TypeInv'
  BY MlTypes DEF StopInv
<1>2. UNCHANGED <<hookPc, wanted>>
  BY DEF MlTask, MlStarts, MlStops, NotStopped, vWaitForDSPData, CopyFromMLBuffer,
         MLBufferCopied, InferenceFails, FirstInference, SecondInference, hookVars
<1>3. HooksOrdered'
  BY <1>2 DEF StopInv, MlTask, MlStarts, MlStops, NotStopped, vWaitForDSPData, CopyFromMLBuffer,
         MLBufferCopied, InferenceFails, FirstInference, SecondInference, hookVars,
         HooksOrdered, Stopped
<1>4. LastWindow'
  <2>1. CASE MLBufferCopied
    BY <1>2, <2>1 DEF StopInv, TypeInv, AudioTypeOK, MLBufferCopied, LastWindow
  <2>2. CASE ~MLBufferCopied
    <3>1. late' = late
      BY <2>2 DEF MlTask, MlStarts, MlStops, NotStopped, vWaitForDSPData, CopyFromMLBuffer,
         InferenceFails, FirstInference, SecondInference
    <3>2. hookPc = "idle" /\ ~wanted /\ mlPc' \in {"data", "copy", "copying"} =>
            mlPc \in {"data", "copy", "copying"}
      BY <2>2 DEF StopInv, HooksOrdered, Stopped, MlTask, MlStarts, MlStops, NotStopped,
         vWaitForDSPData, CopyFromMLBuffer, InferenceFails, FirstInference, SecondInference
    <3>3. QED  BY <1>2, <3>1, <3>2 DEF StopInv, LastWindow
  <2>3. QED  BY <2>1, <2>2
<1>5. QED  BY <1>1, <1>3, <1>4 DEF StopInv

LEMMA OtherStop ==
  ASSUME StopInv,
         DspTask \/ BlockComplete \/ prvNewAudioBlockReceived \/ UNCHANGED vars
  PROVE  StopInv'
<1>1. UNCHANGED <<hookPc, wanted, bits, mlPc, late>>
  BY DEF DspTask, Launch, vWaitForNewBuffer, MicrophoneSource, SlidingBuffer, SkipFrame,
         CopyToDSPBuffer, DSPBufferCopied, vSwapBuffers, WakeUpMLThread, BlockComplete,
         prvNewAudioBlockReceived, vars, hookVars, mlVars
<1>2. TypeInv'
  BY StepTypes DEF StopInv, Next
<1>3. QED  BY <1>1, <1>2 DEF StopInv, HooksOrdered, LastWindow, Stopped

\* Stopped recognition begins one more inference at most: vMlTaskInferenceStop takes
\* back the start that nobody has waited for before it leaves the stop.
THEOREM RecognitionStopsSoon == Spec => []StopsSoon
<1>1. AudioInit => StopInv
  BY InitTypes, InitStop DEF StopInv
<1>2. StopInv /\ [Next]_vars => StopInv'
  BY HookStop, MlStop, OtherStop DEF Next
<1>3. StopInv => StopsSoon
  BY DEF StopInv, LastWindow, StopsSoon
<1>4. QED  BY <1>1, <1>2, <1>3, PTL DEF Spec

-----------------------------------------------------------------------------
(***************************************************************************)
(* Blocks are at rest                                                      *)
(***************************************************************************)

LEMMA SlotsApart ==
  ASSUME NEW s \in Slots
  PROVE  NextSlot(s) # s /\ NextSlot(NextSlot(s)) # s
<1>1. \A t \in Slots : NextSlot(t) = IF t = BlockCount - 1 THEN 0 ELSE t + 1
  BY AudioAssumption DEF Slots, NextSlot
<1>2. QED
  BY <1>1, AudioAssumption DEF Slots

\* The callback task is a block behind the driver until it has run, and the DSP
\* task copies the block before.
BlocksOrdered ==
  /\ hw = IF vsi.notified THEN NextSlot(vsi.block_under_write) ELSE vsi.block_under_write
  /\ vsi.semaphore \/ dspPc = "read" => vsi.block_under_write = NextSlot(vsi.current_block)

RestInv == TypeInv /\ BlocksOrdered

LEMMA StepRest == RestInv /\ [Next]_vars => RestInv'
<1> SUFFICES ASSUME RestInv, [Next]_vars PROVE RestInv'
  OBVIOUS
<1>1. TypeInv'
  BY StepTypes DEF RestInv
<1>2. CASE BlockComplete
  <2>1. /\ vsi'.notified = TRUE /\ ~vsi.notified /\ vsi'.semaphore = vsi.semaphore
        /\ vsi'.current_block = vsi.current_block
        /\ vsi'.block_under_write = vsi.block_under_write
        /\ hw' = NextSlot(hw) /\ dspPc' = dspPc
    BY <1>2 DEF BlockComplete, dspVars, RestInv, TypeInv, AudioTypeOK
  <2>2. QED  BY <1>1, <2>1 DEF RestInv, BlocksOrdered
<1>3. CASE prvNewAudioBlockReceived
  BY <1>1, <1>3 DEF prvNewAudioBlockReceived, RestInv, BlocksOrdered
<1>4. CASE vWaitForNewBuffer
  <2>1. /\ vsi'.notified = vsi.notified /\ vsi.semaphore
        /\ vsi'.current_block = vsi.current_block
        /\ vsi'.block_under_write = vsi.block_under_write
        /\ hw' = hw
    BY <1>4 DEF vWaitForNewBuffer, RestInv, TypeInv, AudioTypeOK
  <2>2. QED  BY <1>1, <2>1 DEF RestInv, BlocksOrdered
<1>5. CASE Launch \/ MicrophoneSource \/ SlidingBuffer \/ SkipFrame \/ CopyToDSPBuffer
           \/ DSPBufferCopied \/ vSwapBuffers \/ WakeUpMLThread
  <2>1. UNCHANGED <<hw, vsi>> /\ dspPc' # "read"
    BY <1>5 DEF Launch, MicrophoneSource, SlidingBuffer, SkipFrame, CopyToDSPBuffer,
                DSPBufferCopied, vSwapBuffers, WakeUpMLThread, DspGoesTo, driverVars
  <2>2. QED  BY <1>1, <2>1 DEF RestInv, BlocksOrdered
<1>6. CASE HookCalls \/ HookReturns \/ MlTask \/ UNCHANGED vars
  <2>1. UNCHANGED <<hw, vsi, dspPc>>
    BY <1>6 DEF HookCalls, HookReturns, OtaActiveHook, OtaNotActiveHook, StopMl, StopDsp, StartMl,
         StartDsp, HookStep, MlTask, MlStarts, MlStops, NotStopped, vWaitForDSPData, CopyFromMLBuffer,
         MLBufferCopied, InferenceFails, FirstInference, SecondInference, vars, driverVars,
         dspVars
  <2>2. QED  BY <1>1, <2>1 DEF RestInv, BlocksOrdered
<1>7. QED
  BY <1>2, <1>3, <1>4, <1>5, <1>6 DEF Next, DspTask

\* With three blocks or more, the block that MicrophoneSource copies is not the one
\* the driver is writing.
THEOREM BlocksAreAtRest == Spec => []BlockAtRest
<1>1. AudioInit => RestInv
  <2>1. ASSUME AudioInit PROVE BlocksOrdered
    BY <2>1 DEF AudioInit, BlocksOrdered
  <2>2. QED  BY <2>1, InitTypes DEF RestInv
<1>2. RestInv => BlockAtRest
  <2> SUFFICES ASSUME RestInv, dspPc = "read" PROVE vsi.current_block # hw
    BY DEF BlockAtRest
  <2>1. vsi.current_block \in Slots
    BY DEF RestInv, TypeInv, AudioTypeOK
  <2>2. QED  BY <2>1, SlotsApart DEF RestInv, BlocksOrdered
<1>3. QED  BY <1>1, <1>2, StepRest, PTL DEF Spec

-----------------------------------------------------------------------------
(***************************************************************************)
(* Windows are fresh                                                       *)
(***************************************************************************)

\* The newest n turns' blocks of the window were captured in this launch.
Filled(n) ==
  \A k \in 1 .. WindowBlocks : k > WindowBlocks - n * BlocksPerRun => window[k] = launch

Fresh(h) == h.low.oldest = h.low.of /\ h.low.of > 0

\* What the DSP task can read, has read and has put together in this launch.
CapturedNow ==
  /\ dspPc # "start" => launch > 0
  /\ sound[vsi.current_block] = launch
  /\ vsi.notified => sound[vsi.block_under_write] = launch
  /\ \A k \in 1 .. Len(input) : input[k] = launch
  /\ dspPc \notin {"start", "ml"} => Filled(frames)
  /\ dspPc = "ml" => Filled(frames + 1)

\* What is handed over was fresh when it was handed over.
HandedFresh ==
  /\ dspPc \in {"copying", "swap"} => Fresh(buffers[dspml.dspBuffer])
  /\ dspPc = "wake" \/ dspml.semaphore \/ mlPc \in {"copy", "copying"} => Fresh(buffers[dspml.mlBuffer])
  /\ mlPc \in {"copying", "infer"} => Fresh(taken)

FreshInv == WholeInv /\ BlocksOrdered /\ CapturedNow /\ HandedFresh

LEMMA InitFresh == AudioInit => CapturedNow /\ HandedFresh
<1> SUFFICES ASSUME AudioInit PROVE CapturedNow /\ HandedFresh
  OBVIOUS
<1>1. input = <<>> /\ Len(input) = 0
  BY DEF AudioInit
<1>2. sound[vsi.current_block] = launch /\ ~vsi.notified
  BY NextSlotType DEF AudioInit
<1>3. CapturedNow
  BY <1>1, <1>2 DEF AudioInit, CapturedNow
<1>4. HandedFresh
  BY DEF AudioInit, HandedFresh
<1>5. QED  BY <1>3, <1>4

LEMMA DriverFresh ==
  ASSUME FreshInv, BlockComplete \/ prvNewAudioBlockReceived
  PROVE  CapturedNow' /\ HandedFresh'
<1>1. UNCHANGED <<dspPc, launch, input, window, frames, dspml, buffers, mlPc, taken>>
  BY DEF BlockComplete, prvNewAudioBlockReceived, dspVars, mlVars
<1>2. HandedFresh'
  BY <1>1 DEF FreshInv, HandedFresh, Fresh
<1>3. \A n : Filled(n)' <=> Filled(n)
  BY <1>1 DEF Filled
<1>4. /\ launch \in Nat /\ hw \in Slots /\ sound \in [Slots -> Launches]
      /\ vsi.current_block \in Slots /\ vsi.block_under_write \in Slots
  BY DEF FreshInv, WholeInv, TypeInv, AudioTypeOK, Launches
<1>5. CASE BlockComplete
  <2>1. /\ ~vsi.notified /\ hw = vsi.block_under_write
        /\ vsi'.current_block = vsi.current_block
        /\ vsi'.block_under_write = vsi.block_under_write
    BY <1>5 DEF BlockComplete, FreshInv, BlocksOrdered, WholeInv, TypeInv, AudioTypeOK
  <2>2. sound'[hw] = launch /\ sound'[vsi.current_block] = launch
    BY <1>4, <1>5 DEF BlockComplete, FreshInv, CapturedNow
  <2>3. QED  BY <1>1, <1>2, <1>3, <2>1, <2>2 DEF FreshInv, CapturedNow
<1>6. CASE prvNewAudioBlockReceived
  <2>1. /\ vsi.notified /\ ~vsi'.notified /\ sound' = sound
        /\ vsi'.current_block = vsi.block_under_write
    BY <1>6 DEF prvNewAudioBlockReceived
  <2>2. QED  BY <1>1, <1>2, <1>3, <2>1 DEF FreshInv, CapturedNow
<1>7. QED  BY <1>5, <1>6

\* Tasks that do not capture, and what a task that does leaves alone.
LEMMA SameCaptured ==
  ASSUME FreshInv, UNCHANGED <<dspPc, launch, input, window, frames, vsi, sound>>
  PROVE  CapturedNow'
  BY DEF FreshInv, CapturedNow, Filled

LEMMA LaunchFresh ==
  ASSUME FreshInv, Launch
  PROVE  CapturedNow' /\ HandedFresh'
<1>1. launch \in Nat /\ hw \in Slots /\ sound \in [Slots -> Launches]
      /\ vsi.current_block \in Slots /\ vsi.block_under_write \in Slots
  BY DEF FreshInv, WholeInv, TypeInv, AudioTypeOK, Launches
<1>2. /\ launch' = launch + 1 /\ input' = <<>> /\ Len(input') = 0 /\ frames' = 0
      /\ dspPc' = "mic" /\ vsi' = vsi
  BY DEF Launch
<1>3. sound'[vsi.current_block] = launch'
  BY <1>1, <1>2 DEF Launch
<1>4. vsi.notified => sound'[vsi.block_under_write] = launch'
  BY <1>1, <1>2 DEF Launch, FreshInv, BlocksOrdered
<1>5. Filled(0)'
  BY AudioAssumption DEF Filled
<1>6. CapturedNow'
  BY <1>1, <1>2, <1>3, <1>4, <1>5 DEF CapturedNow
<1>7. HandedFresh'
  BY <1>2 DEF Launch, FreshInv, HandedFresh, Fresh, mlVars
<1>8. QED  BY <1>6, <1>7

LEMMA ReadFresh ==
  ASSUME FreshInv, MicrophoneSource
  PROVE  CapturedNow'
<1>1. input \in Seq(Launches) /\ sound[vsi.current_block] = launch /\ launch \in Launches
  BY DEF FreshInv, WholeInv, TypeInv, AudioTypeOK, CapturedNow
<1>2. \A k \in 1 .. Len(input') : input'[k] = launch
  BY <1>1 DEF MicrophoneSource, FreshInv, CapturedNow
<1>3. /\ UNCHANGED <<launch, window, frames, vsi, sound>>
      /\ dspPc = "read" /\ dspPc' \in {"start", "slide", "mic"}
  BY DEF MicrophoneSource, DspGoesTo, driverVars
<1>4. QED  BY <1>2, <1>3 DEF FreshInv, CapturedNow, Filled

LEMMA SlideFresh ==
  ASSUME FreshInv, SlidingBuffer
  PROVE  CapturedNow'
<1>1. /\ window \in Seq(Launches) /\ Len(window) = WindowBlocks
      /\ input \in Seq(Launches) /\ Len(input) = BlocksPerRun
      /\ frames \in 0 .. 2 /\ launch \in Nat
  BY DEF SlidingBuffer, FreshInv, WholeInv, TypeInv, AudioTypeOK, BlocksRead, Launches
<1>2. /\ UNCHANGED <<launch, frames, vsi, sound>>
      /\ dspPc = "slide" /\ dspPc' \in {"start", "ml"}
      /\ input' = <<>> /\ Len(input') = 0
  BY DEF SlidingBuffer, DspGoesTo, driverVars
<1>3. ASSUME NEW k \in 1 .. WindowBlocks, k > WindowBlocks - (frames + 1) * BlocksPerRun
      PROVE  window'[k] = launch
  <2>1. window'[k] = IF k <= WindowBlocks - BlocksPerRun
                       THEN window[k + BlocksPerRun] ELSE input[k - (WindowBlocks - BlocksPerRun)]
    BY <1>1, WindowSlides DEF SlidingBuffer
  <2>2. CASE k <= WindowBlocks - BlocksPerRun
    <3>1. (frames + 1) * BlocksPerRun = frames * BlocksPerRun + BlocksPerRun
      BY <1>1, AudioAssumption
    <3>2. frames * BlocksPerRun \in Nat
      BY <1>1, AudioAssumption
    <3>3. k + BlocksPerRun \in 1 .. WindowBlocks /\ k + BlocksPerRun > WindowBlocks - frames * BlocksPerRun
      BY <1>3, <2>2, <3>1, <3>2, AudioAssumption
    <3>4. window[k + BlocksPerRun] = launch
      BY <1>2, <3>3 DEF FreshInv, CapturedNow, Filled
    <3>5. QED  BY <2>1, <2>2, <3>4
  <2>3. CASE ~(k <= WindowBlocks - BlocksPerRun)
    <3>1. k - (WindowBlocks - BlocksPerRun) \in 1 .. Len(input)
      BY <1>1, <2>3, AudioAssumption
    <3>2. QED  BY <2>1, <2>3, <3>1 DEF FreshInv, CapturedNow
  <2>4. QED  BY <2>2, <2>3
<1>4. Filled(frames + 1)'
  BY <1>2, <1>3 DEF Filled
<1>5. QED  BY <1>2, <1>4 DEF FreshInv, CapturedNow

\* After three turns the whole window was captured in this launch.
LEMMA WindowFilled ==
  ASSUME FreshInv, dspPc = "ml", ~Skipping
  PROVE  frames = 2 /\ Filled(2) /\ window[1] = launch /\ launch > 0
<1>1. frames = 2 /\ launch \in Nat
  BY DEF Skipping, FreshInv, WholeInv, TypeInv, AudioTypeOK, Launches
<1>2. Filled(3)
  BY <1>1 DEF FreshInv, CapturedNow
<1>3. 3 * BlocksPerRun >= WindowBlocks /\ 3 * BlocksPerRun \in Nat /\ 2 * BlocksPerRun \in Nat
      /\ 2 * BlocksPerRun <= 3 * BlocksPerRun /\ WindowBlocks \in Nat /\ WindowBlocks >= 1
  BY AudioAssumption
<1>4. \A k \in 1 .. WindowBlocks : window[k] = launch
  BY <1>2, <1>3 DEF Filled
<1>5. QED
  BY <1>1, <1>3, <1>4 DEF Filled, FreshInv, CapturedNow

LEMMA DspFresh ==
  ASSUME FreshInv, DspTask
  PROVE  CapturedNow' /\ HandedFresh'
<1> USE DEF FreshInv
<1>1. CASE Launch
  BY <1>1, LaunchFresh
<1>2. CASE vWaitForNewBuffer
  <2>1. /\ vsi'.notified = vsi.notified
        /\ vsi'.current_block = vsi.current_block
        /\ vsi'.block_under_write = vsi.block_under_write
    BY <1>2 DEF vWaitForNewBuffer, WholeInv, TypeInv, AudioTypeOK
  <2>2. dspPc = "mic" /\ dspPc' = "read" /\ UNCHANGED <<sound, launch, input, window, frames>>
    BY <1>2 DEF vWaitForNewBuffer
  <2>3. CapturedNow'
    BY <2>1, <2>2 DEF CapturedNow, Filled
  <2>4. HandedFresh'
    BY <1>2, <2>2 DEF vWaitForNewBuffer, HandedFresh, Fresh, mlVars
  <2>5. QED  BY <2>3, <2>4
<1>3. CASE MicrophoneSource \/ SlidingBuffer \/ SkipFrame
  <2>1. UNCHANGED <<dspml, buffers, mlPc, taken>> /\ dspPc' \notin {"copying", "swap", "wake"}
    BY <1>3 DEF MicrophoneSource, SlidingBuffer, SkipFrame, DspGoesTo, mlVars
  <2>2. HandedFresh'
    BY <2>1 DEF HandedFresh, Fresh
  <2>3. CASE SkipFrame
    <3>1. /\ frames' = frames + 1 /\ dspPc = "ml" /\ dspPc' \in {"mic", "start"}
          /\ UNCHANGED <<launch, input, window, vsi, sound>>
      BY <2>3 DEF SkipFrame, DspGoesTo, driverVars
    <3>2. Filled(frames)'
      BY <3>1 DEF CapturedNow, Filled
    <3>3. QED  BY <2>2, <3>1, <3>2 DEF CapturedNow
  <2>4. QED  BY <1>3, <2>2, <2>3, ReadFresh, SlideFresh
<1>4. CASE CopyToDSPBuffer
  <2>1. frames = 2 /\ Filled(2) /\ window[1] = launch /\ launch > 0
    BY <1>4, WindowFilled DEF CopyToDSPBuffer
  <2>2. /\ dspPc = "ml" /\ dspPc' = "copying"
        /\ UNCHANGED <<launch, input, window, frames, vsi, sound, mlPc, taken>>
    BY <1>4 DEF CopyToDSPBuffer, driverVars, mlVars
  <2>3. CapturedNow'
    BY <2>1, <2>2 DEF CapturedNow, Filled
  <2>4. /\ dspml'.dspBuffer = dspml.dspBuffer /\ dspml'.mlBuffer = dspml.mlBuffer
        /\ dspml'.semaphore = dspml.semaphore
    BY <1>4 DEF CopyToDSPBuffer, WholeInv, TypeInv, AudioTypeOK
  <2>5. buffers'[dspml.dspBuffer].low = SegmentOf(window)
    BY <1>4 DEF CopyToDSPBuffer, WholeInv, TypeInv, AudioTypeOK, Halves
  <2>6. buffers'[dspml.mlBuffer] = buffers[dspml.mlBuffer]
    BY <1>4 DEF CopyToDSPBuffer, WholeInv, TypeInv, AudioTypeOK, Exclusion
  <2>7. Fresh(buffers'[dspml.dspBuffer])
    BY <2>1, <2>5 DEF Fresh, SegmentOf
  <2>8. HandedFresh'
    BY <2>2, <2>4, <2>6, <2>7 DEF HandedFresh, Fresh
  <2>9. QED  BY <2>3, <2>8
<1>5. CASE DSPBufferCopied
  <2>1. /\ dspPc = "copying" /\ dspPc' = "swap"
        /\ UNCHANGED <<launch, input, window, frames, vsi, sound, mlPc, taken>>
    BY <1>5 DEF DSPBufferCopied, driverVars, mlVars
  <2>2. CapturedNow'
    BY <2>1 DEF CapturedNow, Filled
  <2>3. /\ dspml'.dspBuffer = dspml.dspBuffer /\ dspml'.mlBuffer = dspml.mlBuffer
        /\ dspml'.semaphore = dspml.semaphore
    BY <1>5 DEF DSPBufferCopied, WholeInv, TypeInv, AudioTypeOK
  <2>4. buffers'[dspml.dspBuffer].low = buffers[dspml.dspBuffer].low
    BY <1>5 DEF DSPBufferCopied, WholeInv, TypeInv, AudioTypeOK, Halves
  <2>5. buffers'[dspml.mlBuffer] = buffers[dspml.mlBuffer]
    BY <1>5 DEF DSPBufferCopied, WholeInv, TypeInv, AudioTypeOK, Exclusion
  <2>6. HandedFresh'
    BY <2>1, <2>3, <2>4, <2>5 DEF HandedFresh, Fresh
  <2>7. QED  BY <2>2, <2>6
<1>6. CASE vSwapBuffers \/ WakeUpMLThread
  <2>1. /\ dspPc \in {"swap", "wake"} /\ dspPc' \in {"wake", "mic", "start"}
        /\ UNCHANGED <<launch, input, window, frames, vsi, sound, mlPc, taken, buffers>>
    BY <1>6 DEF vSwapBuffers, WakeUpMLThread, DspGoesTo, driverVars, mlVars
  <2>2. CapturedNow'
    BY <2>1 DEF CapturedNow, Filled
  <2>3. CASE vSwapBuffers
    <3>1. dspPc = "swap" /\ dspPc' = "wake" /\ dspml'.mlBuffer = dspml.dspBuffer
          /\ mlPc # "copying"
      BY <2>3 DEF vSwapBuffers, WholeInv, TypeInv, AudioTypeOK, Exclusion
    <3>2. QED  BY <2>1, <2>2, <3>1 DEF HandedFresh
  <2>4. CASE WakeUpMLThread
    <3>1. dspPc = "wake" /\ dspPc' \in {"mic", "start"} /\ dspml'.mlBuffer = dspml.mlBuffer
      BY <2>4 DEF WakeUpMLThread, WholeInv, TypeInv, AudioTypeOK, DspGoesTo
    <3>2. QED  BY <2>1, <2>2, <3>1 DEF HandedFresh
  <2>5. QED  BY <1>6, <2>3, <2>4
<1>7. QED  BY <1>1, <1>2, <1>3, <1>4, <1>5, <1>6 DEF DspTask

LEMMA MlFresh ==
  ASSUME FreshInv, MlTask
  PROVE  CapturedNow' /\ HandedFresh'
<1> USE DEF FreshInv
<1>1. UNCHANGED <<dspPc, launch, input, window, frames, vsi, sound, buffers>>
  BY DEF MlTask, MlStarts, MlStops, NotStopped, vWaitForDSPData, CopyFromMLBuffer,
         MLBufferCopied, InferenceFails, FirstInference, SecondInference, dspVars, driverVars
<1>2. CapturedNow'
  BY <1>1, SameCaptured
<1>3. dspml'.dspBuffer = dspml.dspBuffer /\ dspml'.mlBuffer = dspml.mlBuffer
  BY DEF WholeInv, TypeInv, AudioTypeOK, MlTask, MlStarts, MlStops, NotStopped, vWaitForDSPData,
         CopyFromMLBuffer, MLBufferCopied, InferenceFails, FirstInference, SecondInference
<1>4. CASE MlStarts \/ MlStops \/ NotStopped \/ InferenceFails \/ FirstInference \/ SecondInference
  <2>1. UNCHANGED dspml /\ mlPc' \notin {"copy", "copying", "infer"}
    BY <1>4 DEF MlStarts, MlStops, NotStopped, InferenceFails, FirstInference, SecondInference
  <2>2. QED  BY <1>1, <1>2, <2>1 DEF HandedFresh
<1>5. CASE vWaitForDSPData
  <2>1. dspml.semaphore /\ mlPc' = "copy"
    BY <1>5 DEF vWaitForDSPData
  <2>2. QED  BY <1>1, <1>2, <1>3, <2>1 DEF HandedFresh
<1>6. CASE CopyFromMLBuffer
  <2>1. mlPc = "copy" /\ mlPc' = "copying" /\ taken'.low = buffers[dspml.mlBuffer].low
    BY <1>6 DEF CopyFromMLBuffer, WholeInv, TypeInv, AudioTypeOK, Halves
  <2>2. dspml'.semaphore = dspml.semaphore
    BY <1>6 DEF CopyFromMLBuffer, WholeInv, TypeInv, AudioTypeOK
  <2>3. QED  BY <1>1, <1>2, <1>3, <2>1, <2>2 DEF HandedFresh, Fresh
<1>7. CASE MLBufferCopied
  <2>1. mlPc = "copying" /\ mlPc' = "infer" /\ taken'.low = taken.low
    BY <1>7 DEF MLBufferCopied, WholeInv, TypeInv, AudioTypeOK, Halves
  <2>2. dspml'.semaphore = dspml.semaphore
    BY <1>7 DEF MLBufferCopied, WholeInv, TypeInv, AudioTypeOK
  <2>3. QED  BY <1>1, <1>2, <1>3, <2>1, <2>2 DEF HandedFresh, Fresh
<1>8. QED  BY <1>4, <1>5, <1>6, <1>7 DEF MlTask

LEMMA OtherFresh ==
  ASSUME FreshInv, HookCalls \/ HookReturns \/ UNCHANGED vars
  PROVE  CapturedNow' /\ HandedFresh'
<1>1. UNCHANGED <<dspPc, launch, input, window, frames, vsi, sound, buffers, dspml, mlPc, taken>>
  BY DEF HookCalls, HookReturns, OtaActiveHook, OtaNotActiveHook, StopMl, StopDsp, StartMl, StartDsp,
         HookStep, vars, dspVars, driverVars, mlVars
<1>2. QED  BY <1>1, SameCaptured DEF FreshInv, HandedFresh, Fresh

\* An inference never runs on silence, nor on audio of two launches: the scheduler's
\* nodes are made anew and the first frames are skipped until the window is full.
THEOREM WindowsAreFresh == Spec => []WindowFresh
<1>1. AudioInit => FreshInv
  <2>1. ASSUME AudioInit PROVE BlocksOrdered
    BY <2>1 DEF AudioInit, BlocksOrdered
  <2>2. QED  BY <2>1, InitTypes, InitWhole, InitFresh DEF FreshInv, WholeInv
<1>2. FreshInv /\ [Next]_vars => FreshInv'
  <2>1. FreshInv /\ [Next]_vars => WholeInv'
    BY StepWhole DEF FreshInv
  <2>2. FreshInv /\ [Next]_vars => BlocksOrdered'
    BY StepRest DEF FreshInv, RestInv, WholeInv
  <2>3. FreshInv /\ [Next]_vars => CapturedNow' /\ HandedFresh'
    BY DriverFresh, DspFresh, MlFresh, OtherFresh DEF Next
  <2>4. QED  BY <2>1, <2>2, <2>3 DEF FreshInv
<1>3. FreshInv => WindowFresh
  BY DEF FreshInv, HandedFresh, Fresh, WindowFresh
<1>4. QED  BY <1>1, <1>2, <1>3, PTL DEF Spec

-----------------------------------------------------------------------------
(***************************************************************************)
(* Results are owned                                                       *)
(***************************************************************************)

\* A task has a pointer to a result while it works on one.
PointersInHand ==
  /\ report.at = "idle" <=> report.result = NULL
  /\ publisher.at = "receive" <=> publisher.result = NULL

\* As long as no call has left a command behind, the only command is that of the
\* call which waits, and the notification is its own.
CallInOrder == ~overdue =>
  /\ publisher.at # "wait" => commands = 0 /\ sent = 0
  /\ publisher.at = "wait" => commands + sent = IF notice THEN 0 ELSE 1
  /\ publisher.at = "enqueue" => ~notice
  /\ publisher.at \in {"enqueue", "wait"} => pPayload = publisher.result

ResultsInv == ResultsTypeOK /\ PointersInHand /\ OneHolderEach /\ CallInOrder

LEMMA InitResults == ResultsInit => ResultsInv
<1> SUFFICES ASSUME ResultsInit PROVE ResultsInv
  OBVIOUS
<1>1. xMlMqttQueue \in Seq(Memory) /\ Len(xMlMqttQueue) = 0
  BY DEF ResultsInit
<1>2. ResultsTypeOK
  <2>1. /\ report \in [at : {"idle", "send", "free"}, result : Pointers]
        /\ publisher \in [at : {"receive", "publish", "enqueue", "wait", "free"}, result : Pointers]
    BY DEF ResultsInit, NoReport, Receiving, Pointers
  <2>2. heap = {} /\ pPayload \in Pointers /\ commands = 0 /\ sent = 0 /\ notice = FALSE /\ overdue = FALSE
    BY DEF ResultsInit, Pointers
  <2>3. Len(xMlMqttQueue) <= QueueLength
    BY <1>1, ResultsAssumption
  <2>4. QED  BY <1>1, <2>1, <2>2, <2>3 DEF ResultsTypeOK
<1>3. PointersInHand /\ CallInOrder
  BY DEF ResultsInit, PointersInHand, CallInOrder, NoReport, Receiving
<1>4. OneHolderEach
  BY <1>1 DEF ResultsInit, OneHolderEach, NoReport, Receiving, Queued
<1>5. QED  BY <1>2, <1>3, <1>4 DEF ResultsInv

\* What xQueueSendToBack and xQueueReceive do to the queue.
LEMMA SendQueued ==
  ASSUME NEW q \in Seq(Memory), NEW r \in Memory
  PROVE  /\ Append(q, r) \in Seq(Memory) /\ Len(Append(q, r)) = Len(q) + 1
         /\ Append(q, r)[Len(q) + 1] = r
         /\ \A k \in 1 .. Len(q) : Append(q, r)[k] = q[k]
  OBVIOUS

LEMMA ReceiveQueued ==
  ASSUME NEW q \in Seq(Memory), q # <<>>
  PROVE  /\ Head(q) = q[1] /\ Head(q) \in Memory /\ 1 \in 1 .. Len(q)
         /\ Tail(q) \in Seq(Memory) /\ Len(Tail(q)) = Len(q) - 1
         /\ \A k \in 1 .. Len(Tail(q)) : k + 1 \in 1 .. Len(q) /\ Tail(q)[k] = q[k + 1]
         /\ \A k \in 1 .. Len(q) : k = 1 \/ (k - 1 \in 1 .. Len(Tail(q)) /\ Tail(q)[k - 1] = q[k])
  OBVIOUS

\* The ML task: what it allocates is new, and it lets go of what it has queued or
\* freed.
LEMMA ReportResults ==
  ASSUME ResultsInv, prvSetMlProcessingstate
  PROVE  ResultsInv'
<1> USE DEF ResultsInv
<1>1. CallInOrder'
  BY DEF prvSetMlProcessingstate, AllocateResult, SendResult, ResultRefused, FreeRefused, CallInOrder,
         publisherVars, agentVars
<1>2. UNCHANGED <<publisher, pPayload, commands, sent, notice, overdue>>
  BY DEF prvSetMlProcessingstate, AllocateResult, SendResult, ResultRefused, FreeRefused,
         publisherVars, agentVars
<1>3. CASE AllocateResult
  <2>1. PICK r \in Memory \ heap : heap' = heap \cup {r} /\ report' = [at |-> "send", result |-> r]
    BY <1>3 DEF AllocateResult
  <2>2. xMlMqttQueue' = xMlMqttQueue /\ report.at = "idle"
    BY <1>3 DEF AllocateResult
  <2>3. ResultsTypeOK' /\ PointersInHand'
    BY <1>2, <2>1, <2>2, ResultsAssumption DEF ResultsTypeOK, PointersInHand, Pointers
  <2>4. OneHolderEach'
    BY <1>2, <2>1, <2>2, ResultsAssumption
      DEF ResultsTypeOK, PointersInHand, OneHolderEach, Queued, Pointers
  <2>5. QED  BY <1>1, <2>3, <2>4
<1>4. CASE SendResult
  <2>1. /\ report.result \in Memory /\ ~Queued(report.result)
        /\ heap' = heap /\ report' = NoReport
        /\ xMlMqttQueue' = Append(xMlMqttQueue, report.result)
    BY <1>4 DEF SendResult, ResultsTypeOK, PointersInHand, OneHolderEach, Pointers
  <2>2. ResultsTypeOK' /\ PointersInHand'
    BY <1>2, <1>4, <2>1, SendQueued, ResultsAssumption
      DEF SendResult, ResultsTypeOK, PointersInHand, NoReport, Pointers
  <2>3. \A r \in Pointers : Queued(r)' <=> Queued(r) \/ r = report.result
    BY <2>1, SendQueued DEF Queued, ResultsTypeOK
  <2>4. \A k, l \in 1 .. Len(xMlMqttQueue') : xMlMqttQueue'[k] = xMlMqttQueue'[l] => k = l
    BY <2>1, SendQueued DEF Queued, ResultsTypeOK, OneHolderEach
  <2>5. OneHolderEach'
    BY <1>2, <2>1, <2>3, <2>4, ResultsAssumption
      DEF ResultsTypeOK, PointersInHand, OneHolderEach, NoReport, Pointers
  <2>6. QED  BY <1>1, <2>2, <2>5
<1>5. CASE ResultRefused
  <2>1. report' = [report EXCEPT !.at = "free"] /\ report.at = "send"
        /\ UNCHANGED <<heap, xMlMqttQueue>>
    BY <1>5 DEF ResultRefused
  <2>2. report'.at = "free" /\ report'.result = report.result
    BY <2>1 DEF ResultsTypeOK
  <2>3. ResultsTypeOK' /\ PointersInHand'
    BY <1>2, <2>1, <2>2 DEF ResultsTypeOK, PointersInHand
  <2>4. OneHolderEach'
    BY <1>2, <2>1, <2>2 DEF OneHolderEach, Queued
  <2>5. QED  BY <1>1, <2>3, <2>4
<1>6. CASE FreeRefused
  <2>1. /\ report.result \in Memory
        /\ heap' = heap \ {report.result} /\ report' = NoReport
        /\ xMlMqttQueue' = xMlMqttQueue
    BY <1>6 DEF FreeRefused, ResultsTypeOK, PointersInHand, Pointers
  <2>2. ResultsTypeOK' /\ PointersInHand'
    BY <1>2, <2>1, ResultsAssumption DEF ResultsTypeOK, PointersInHand, NoReport, Pointers
  <2>3. OneHolderEach'
    BY <1>2, <2>1, ResultsAssumption DEF OneHolderEach, Queued, NoReport, ResultsTypeOK, Pointers
  <2>4. QED  BY <1>1, <2>2, <2>3
<1>7. QED  BY <1>3, <1>4, <1>5, <1>6 DEF prvSetMlProcessingstate

\* vMlMqttTask: a result keeps its holder from the queue until it is freed, and the
\* call that publishes it begins without an old notification.
LEMMA PublisherResults ==
  ASSUME ResultsInv, vMlMqttTask
  PROVE  ResultsInv'
<1> USE DEF ResultsInv
<1>1. CASE ReceiveResult
  <2>1. /\ publisher.at = "receive" /\ publisher.result = NULL
        /\ publisher' = [at |-> "publish", result |-> Head(xMlMqttQueue)]
        /\ xMlMqttQueue # <<>> /\ xMlMqttQueue' = Tail(xMlMqttQueue)
        /\ UNCHANGED <<heap, report, pPayload, notice, overdue, commands, sent>>
    BY <1>1 DEF ReceiveResult, PointersInHand, agentVars
  <2>2. Head(xMlMqttQueue) \in Memory /\ Queued(Head(xMlMqttQueue))
    BY <2>1, ReceiveQueued DEF ResultsTypeOK, Queued
  <2>3. ResultsTypeOK' /\ PointersInHand' /\ CallInOrder'
    BY <2>1, <2>2, ReceiveQueued, ResultsAssumption DEF ResultsTypeOK, PointersInHand, CallInOrder, Pointers
  <2> DEFINE q == xMlMqttQueue
  <2>4. /\ Head(q) = q[1] /\ 1 \in 1 .. Len(q)
        /\ \A k \in 1 .. Len(q') : k \in Nat \ {0} /\ k + 1 \in 1 .. Len(q) /\ q'[k] = q[k + 1]
        /\ \A k \in 1 .. Len(q) : k = 1 \/ (k - 1 \in 1 .. Len(q') /\ q'[k - 1] = q[k])
    BY <2>1, ReceiveQueued DEF ResultsTypeOK
  <2>5. \A k, l \in 1 .. Len(q) : q[k] = q[l] => k = l
    BY DEF OneHolderEach
  <2> HIDE DEF q
  <2>6. \A r \in Pointers : (\E k \in 1 .. Len(q) : q[k] = r)
                               <=> (\E k \in 1 .. Len(q') : q'[k] = r) \/ r = Head(q)
    BY <2>4
  <2>7. ~\E k \in 1 .. Len(q') : q'[k] = Head(q)
    BY <2>4, <2>5
  <2>8. \A k, l \in 1 .. Len(q') : q'[k] = q'[l] => k = l
    BY <2>4, <2>5
  <2>9. \A r \in Pointers : Queued(r) <=> Queued(r)' \/ r = Head(xMlMqttQueue)
    BY <2>6 DEF Queued, q
  <2>10. /\ ~Queued(publisher.result)'
        /\ \A k, l \in 1 .. Len(xMlMqttQueue') : xMlMqttQueue'[k] = xMlMqttQueue'[l] => k = l
    BY <2>1, <2>7, <2>8 DEF Queued, q
  <2>11. OneHolderEach'
    BY <2>1, <2>2, <2>9, <2>10, ResultsAssumption DEF ResultsTypeOK, OneHolderEach, Pointers
  <2>12. QED  BY <2>3, <2>11
<1>2. CASE prvMqttSendMessage \/ PublishQueued \/ PublishRefused \/ PublishEnded \/ PublishTimedOut
  <2>1. /\ UNCHANGED <<heap, report, xMlMqttQueue>>
        /\ publisher'.result = publisher.result /\ publisher'.at # "receive" /\ publisher.at # "receive"
    BY <1>2 DEF prvMqttSendMessage, PublishQueued, PublishRefused, PublishEnded, PublishTimedOut, ResultsTypeOK
  <2>2. OneHolderEach' /\ PointersInHand'
    BY <2>1 DEF OneHolderEach, PointersInHand, Queued
  <2>3. ResultsTypeOK'
    <3>1. publisher' \in [at : {"receive", "publish", "enqueue", "wait", "free"}, result : Pointers]
      BY <1>2 DEF prvMqttSendMessage, PublishQueued, PublishRefused, PublishEnded, PublishTimedOut, ResultsTypeOK
    <3>2. pPayload' \in Pointers /\ commands' \in Nat /\ sent' \in Nat
      BY <1>2 DEF prvMqttSendMessage, PublishQueued, PublishRefused, PublishEnded, PublishTimedOut,
                  ResultsTypeOK, agentVars
    <3>3. notice' \in BOOLEAN
      BY <1>2 DEF prvMqttSendMessage, PublishQueued, PublishRefused, PublishEnded, PublishTimedOut, ResultsTypeOK
    <3>4. overdue' \in BOOLEAN
      <4>1. CASE prvMqttSendMessage
        <5>1. overdue' = (commands + sent > 0)
          BY <4>1 DEF prvMqttSendMessage
        <5>2. CASE commands + sent > 0
          BY <5>1, <5>2
        <5>3. CASE ~(commands + sent > 0)
          BY <5>1, <5>3
        <5>4. QED  BY <5>2, <5>3
      <4>2. QED
        BY <1>2, <4>1 DEF PublishQueued, PublishRefused, PublishEnded, PublishTimedOut, ResultsTypeOK
    <3>5. QED  BY <2>1, <3>1, <3>2, <3>3, <3>4 DEF ResultsTypeOK
  <2>4. CASE prvMqttSendMessage
    <3>1. /\ publisher'.at = "enqueue" /\ pPayload' = publisher'.result /\ ~notice'
          /\ overdue' = (commands + sent > 0) /\ commands' = commands /\ sent' = sent
      BY <2>4 DEF prvMqttSendMessage, ResultsTypeOK, agentVars
    <3>2. ASSUME ~overdue' PROVE commands' = 0 /\ sent' = 0
      <4>1. ~(commands + sent > 0)
        BY <3>1, <3>2
      <4>2. QED  BY <3>1, <4>1 DEF ResultsTypeOK
    <3>3. CallInOrder'
      BY <3>1, <3>2 DEF CallInOrder
    <3>4. QED  BY <2>2, <2>3, <3>3
  <2>5. CASE PublishQueued
    <3>1. /\ publisher.at = "enqueue" /\ publisher'.at = "wait"
          /\ commands' = commands + 1 /\ UNCHANGED <<pPayload, notice, overdue, sent>>
      BY <2>5 DEF PublishQueued, ResultsTypeOK
    <3>2. CallInOrder'
      BY <2>1, <3>1 DEF CallInOrder, ResultsTypeOK
    <3>3. QED  BY <2>2, <2>3, <3>2
  <2>6. CASE PublishRefused
    <3>1. /\ publisher.at = "enqueue" /\ publisher'.at = "free"
          /\ UNCHANGED <<pPayload, notice, overdue, commands, sent>>
      BY <2>6 DEF PublishRefused, ResultsTypeOK, agentVars
    <3>2. CallInOrder'
      BY <3>1 DEF CallInOrder
    <3>3. QED  BY <2>2, <2>3, <3>2
  <2>7. CASE PublishEnded
    <3>1. /\ publisher.at = "wait" /\ notice /\ publisher'.at = "free"
          /\ UNCHANGED <<overdue, commands, sent>>
      BY <2>7 DEF PublishEnded, ResultsTypeOK, agentVars
    <3>2. CallInOrder'
      BY <3>1 DEF CallInOrder, ResultsTypeOK
    <3>3. QED  BY <2>2, <2>3, <3>2
  <2>8. CASE PublishTimedOut
    BY <2>2, <2>3, <2>8 DEF PublishTimedOut, CallInOrder
  <2>9. QED  BY <1>2, <2>4, <2>5, <2>6, <2>7, <2>8
<1>3. CASE FreePublished
  <2>1. /\ publisher.at = "free" /\ publisher.result \in Memory
        /\ heap' = heap \ {publisher.result} /\ publisher' = Receiving
        /\ UNCHANGED <<report, xMlMqttQueue, pPayload, notice, overdue, commands, sent>>
    BY <1>3 DEF FreePublished, ResultsTypeOK, PointersInHand, Pointers, agentVars
  <2>2. ResultsTypeOK' /\ PointersInHand' /\ CallInOrder'
    BY <2>1, ResultsAssumption DEF ResultsTypeOK, PointersInHand, CallInOrder, Receiving, Pointers
  <2>3. OneHolderEach'
    BY <2>1, ResultsAssumption DEF OneHolderEach, Queued, Receiving, ResultsTypeOK, Pointers
  <2>4. QED  BY <2>2, <2>3
<1>4. QED  BY <1>1, <1>2, <1>3 DEF vMlMqttTask

\* The agent concludes commands; it has none to conclude unless a call waits or has
\* left one behind.
LEMMA AgentResults ==
  ASSUME ResultsInv, Agent
  PROVE  ResultsInv'
<1> USE DEF ResultsInv
<1>1. UNCHANGED <<heap, report, xMlMqttQueue, publisher, pPayload, overdue>>
  BY DEF Agent, PublishSent, PublishFails, PublishAcknowledged, PublishesCancelled, publisherVars
<1>2. commands' \in Nat /\ sent' \in Nat
  BY DEF Agent, PublishSent, PublishFails, PublishAcknowledged, PublishesCancelled, ResultsTypeOK
<1>3. notice' \in BOOLEAN
  BY DEF Agent, PublishSent, PublishFails, PublishAcknowledged, PublishesCancelled, ResultsTypeOK,
         publisherVars
<1>4. ResultsTypeOK' /\ PointersInHand' /\ OneHolderEach'
  BY <1>1, <1>2, <1>3 DEF ResultsTypeOK, PointersInHand, OneHolderEach, Queued
<1>5. CallInOrder'
  <2> SUFFICES ASSUME ~overdue PROVE CallInOrder'
    BY <1>1 DEF CallInOrder
  <2>1. publisher.at = "wait" /\ ~notice /\ commands + sent = 1
    BY DEF Agent, PublishSent, PublishFails, PublishAcknowledged, PublishesCancelled, CallInOrder,
           ResultsTypeOK
  <2>2. commands' + sent' = IF notice' THEN 0 ELSE 1
    BY <2>1 DEF Agent, PublishSent, PublishFails, PublishAcknowledged, PublishesCancelled,
                ResultsTypeOK, publisherVars
  <2>3. QED  BY <1>1, <2>1, <2>2 DEF CallInOrder
<1>6. QED  BY <1>4, <1>5

\* Whoever is slow, refuses or cancels, a result has one holder until it is freed,
\* and the agent reads no freed one as long as prvMqttSendMessage has not given up
\* on a command: prvSetMlProcessingstate, vMlMqttTask.
THEOREM ResultsAreOwned == ResultsSpec => []ResultsOwned
<1>1. ResultsInv /\ [ResultsNext]_resultVars => ResultsInv'
  <2>1. ASSUME ResultsInv, UNCHANGED resultVars PROVE ResultsInv'
    BY <2>1 DEF resultVars, publisherVars, agentVars, ResultsInv, ResultsTypeOK, PointersInHand,
                OneHolderEach, CallInOrder, Queued
  <2>2. QED  BY <2>1, ReportResults, PublisherResults, AgentResults DEF ResultsNext
<1>2. ResultsInv => ResultsOwned
  <2> SUFFICES ASSUME ResultsInv, commands > 0, ~overdue PROVE pPayload \in heap
    BY DEF ResultsInv, ResultsOwned, PayloadInScope
  <2>1. publisher.at = "wait" /\ pPayload = publisher.result
    BY DEF ResultsInv, ResultsTypeOK, CallInOrder
  <2>2. publisher.result \in heap
    BY <2>1 DEF ResultsInv, PointersInHand, OneHolderEach
  <2>3. QED  BY <2>1, <2>2
<1>3. QED  BY <1>1, <1>2, InitResults, PTL DEF ResultsSpec
=============================================================================
