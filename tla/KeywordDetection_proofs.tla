------------------------ MODULE KeywordDetection_proofs ------------------------
(***************************************************************************)
(* Proofs about keyword detection, for every ring, window and overlap:     *)
(* types, that the ML task does not sleep over a window that it could      *)
(* read, and that the audio of an inference has no hole in it.             *)
(***************************************************************************)
EXTENDS KeywordDetection, TLAPS

\* A feature that is about to be computed or reused has its place in the tensor.
PlaceLeft ==
  /\ mlPc \in {"first", "last", "take"} => stride_index < Features
  /\ mlPc = "cached" => stride_index < Overlap

KeywordInv == KeywordTypeOK /\ PlaceLeft /\ NoLostWakeup

-----------------------------------------------------------------------------
(***************************************************************************)
(* Arithmetic                                                              *)
(***************************************************************************)

LEMMA Modulo ==
  ASSUME NEW a \in Int, NEW n \in Nat \ {0}
  PROVE  a % n \in 0 .. n - 1
  OBVIOUS

LEMMA RingSize == StrideCount \in Nat \ {0} /\ BlockCount \in Nat \ {0} /\ StridesPerBlock \in Nat \ {0}
<1>1. ASSUME NEW a \in Nat \ {0}, NEW b \in Nat \ {0} PROVE a * b \in Nat \ {0}
  OBVIOUS
<1>2. BlockCount \in Nat \ {0} /\ StridesPerBlock \in Nat \ {0}
  BY KeywordAssumption
<1>3. QED  BY <1>1, <1>2 DEF StrideCount

LEMMA NextBlockType == ASSUME NEW b \in Blocks PROVE NextBlock(b) \in Blocks
<1>1. b + 1 \in Int  BY DEF Blocks
<1>2. QED  BY <1>1, RingSize, Modulo DEF NextBlock, Blocks

LEMMA NextStrideType ==
  ASSUME NEW s \in 0 .. StrideCount - 1
  PROVE  (s + 1) % StrideCount \in 0 .. StrideCount - 1
<1>1. s + 1 \in Int  OBVIOUS
<1>2. QED  BY <1>1, RingSize, Modulo

\* What a position of the ring holds is a stride or torn.
LEMMA SampleType ==
  ASSUME captured \in Nat, NEW p \in 0 .. StrideCount - 1
  PROVE  Sample(p) \in Strides
<1> DEFINE b == p \div StridesPerBlock
           back == (Filling - b) % BlockCount
           block == captured - back
<1>1. b \in Int
  <2>1. \A n \in Nat \ {0} : p \div n \in Int  OBVIOUS
  <2>2. QED  BY <2>1, RingSize
<1>2. back \in Nat
  <2>1. Filling \in Int
    BY RingSize, Modulo DEF Filling
  <2>2. Filling - b \in Int  BY <1>1, <2>1
  <2>3. QED  BY <2>2, RingSize, Modulo
<1>3. block \in Int
  BY <1>2
<1>4. p % StridesPerBlock \in Nat
  BY RingSize, Modulo
<1>5. block >= 0 => block * StridesPerBlock + (p % StridesPerBlock) \in Nat
  <2>1. \A k, m, n \in Nat : k * m + n \in Nat  OBVIOUS
  <2>2. QED  BY <1>3, <1>4, <2>1, RingSize
<1>6. QED
  BY <1>3, <1>5 DEF Sample, Strides, Torn

LEMMA WindowType ==
  ASSUME KeywordTypeOK
  PROVE  Window \in Feature
<1>1. ASSUME NEW j \in 0 .. WindowStrides - 1
      PROVE  Sample((window.current_stride + j) % StrideCount) \in Strides
  <2>1. window.current_stride + j \in Int
    BY DEF KeywordTypeOK
  <2>2. (window.current_stride + j) % StrideCount \in 0 .. StrideCount - 1
    BY <2>1, RingSize, Modulo
  <2>3. QED  BY <2>2, SampleType DEF KeywordTypeOK
<1>2. QED  BY <1>1 DEF Window, Feature

\* Where the loop over the features goes next.
LEMMA ContinueType ==
  ASSUME NEW i \in 0 .. Features, Continue(i)
  PROVE  /\ mlPc' \in {"infer", "first", "cached"}
         /\ mlPc' = "first" => i < Features
         /\ mlPc' = "cached" => i < Overlap
  BY KeywordAssumption DEF Continue, NeedsAudio, Features

-----------------------------------------------------------------------------
(***************************************************************************)
(* The invariant                                                           *)
(***************************************************************************)

LEMMA InitHolds == KeywordInit => KeywordInv
<1>1. SUFFICES ASSUME KeywordInit PROVE KeywordInv
  OBVIOUS
<1>2. 0 \in Blocks /\ 0 \in 0 .. StrideCount - 1 /\ 0 \in 0 .. Features
  BY RingSize, KeywordAssumption DEF Blocks, Features
<1>3. KeywordTypeOK
  <2>1. 0 \in 0 .. MaxHooks /\ 0 \in 0 .. MaxBlocks /\ 0 \in 0 .. QueueLength
    BY KeywordAssumption
  <2>2. /\ inputTensor \in [0 .. Features - 1 -> Feature \cup {Moved}]
        /\ featureCache \in [0 .. Overlap - 1 -> Feature \cup {Moved}]
    BY <1>1 DEF KeywordInit
  <2>3. QED
    BY <1>1, <1>2, <2>1, <2>2 DEF KeywordInit, KeywordTypeOK
<1>4. PlaceLeft /\ NoLostWakeup
  BY <1>1 DEF KeywordInit, PlaceLeft, NoLostWakeup
<1>5. QED  BY <1>3, <1>4 DEF KeywordInv

\* The hooks, the driver and the MQTT task leave the ML task where it is.
LEMMA HookSteps == ASSUME KeywordInv, Hook \/ vMlMqttTask PROVE KeywordInv'
<1> USE DEF KeywordInv, KeywordTypeOK, PlaceLeft, NoLostWakeup, driverVars, featureVars, hookVars,
            first_block, last_block, Features
<1>1. CASE vOtaActiveHook \/ vOtaNotActiveHook
  <2>1. hooks' \in 0 .. MaxHooks
    BY <1>1, KeywordAssumption DEF vOtaActiveHook, vOtaNotActiveHook, HookCalled
  <2>2. /\ hookPc' \in {"ML_START", "ML_STOP"} /\ bits' \subseteq bits
        /\ UNCHANGED <<driverVars, window, mlPc, featureVars, report>>
    BY <1>1 DEF vOtaActiveHook, vOtaNotActiveHook, HookCalled
  <2>3. QED  BY <2>1, <2>2
<1>2. CASE HookSets
  BY <1>2 DEF HookSets
<1>3. CASE vMlMqttTask
  <2>1. report' \in [state : Keywords \cup {"silence"}, queued : 0 .. QueueLength]
    <3>1. report.queued \in 1 .. QueueLength  BY <1>3, KeywordAssumption DEF vMlMqttTask
    <3>2. report.queued - 1 \in 0 .. QueueLength  BY <3>1, KeywordAssumption
    <3>3. QED  BY <1>3, <3>2 DEF vMlMqttTask
  <2>2. QED  BY <1>3, <2>1 DEF vMlMqttTask
<1>4. QED  BY <1>1, <1>2, <1>3 DEF Hook

LEMMA VsiSteps == ASSUME KeywordInv, Vsi PROVE KeywordInv'
<1> USE DEF KeywordInv, KeywordTypeOK, PlaceLeft, NoLostWakeup, driverVars, featureVars, hookVars,
            Features
<1>1. CASE BlockComplete
  BY <1>1, KeywordAssumption DEF BlockComplete, first_block, last_block
<1>2. CASE BlockCounted("notified", "half")
  BY <1>2, NextBlockType DEF BlockCounted
<1>3. CASE SemaphoreGiven("half", "idle")
  <2>1. /\ window' = [window EXCEPT !.semaphore = TRUE] /\ vsiPc' = "idle"
        /\ UNCHANGED <<listening, captured, hookVars, mlPc, featureVars, report>>
    BY <1>3 DEF SemaphoreGiven
  <2>2. window' \in [block_under_write : Blocks, current_stride : 0 .. StrideCount - 1, semaphore : BOOLEAN]
        /\ window'.semaphore
    BY <2>1
  <2>3. KeywordTypeOK'
    BY <2>1, <2>2
  <2>4. PlaceLeft' /\ NoLostWakeup'
    BY <2>1, <2>2
  <2>5. QED  BY <2>3, <2>4
<1>4. QED  BY <1>1, <1>2, <1>3 DEF Vsi, prvSignalBlockWritten

\* Of the ML task's steps only the two comparisons lead to the wait, each with its
\* block under write.
LEMMA WaitSteps ==
  ASSUME KeywordInv, FirstBlockChecked \/ LastBlockUnderWrite \/ SemaphoreTaken
  PROVE  KeywordInv'
<1> USE DEF KeywordInv, KeywordTypeOK, PlaceLeft, NoLostWakeup, driverVars, featureVars, hookVars,
            first_block, last_block, Features
<1>1. CASE FirstBlockChecked
  BY <1>1 DEF FirstBlockChecked
<1>2. CASE LastBlockUnderWrite
  BY <1>2 DEF LastBlockUnderWrite
<1>3. CASE SemaphoreTaken
  BY <1>3 DEF SemaphoreTaken
<1>4. QED  BY <1>1, <1>2, <1>3

LEMMA StartSteps ==
  ASSUME KeywordInv, MlStarts \/ MlStops \/ NotStopped \/ InferenceFails \/ Inference
  PROVE  KeywordInv'
<1> USE DEF KeywordInv, KeywordTypeOK, PlaceLeft, NoLostWakeup, driverVars, featureVars, hookVars
<1>1. CASE MlStarts
  BY <1>1 DEF MlStarts
<1>2. CASE MlStops
  BY <1>2 DEF MlStops
<1>3. CASE NotStopped
  <2>1. 0 \in 0 .. Features  BY KeywordAssumption DEF Features
  <2>2. QED  BY <1>3, <2>1, ContinueType DEF NotStopped
<1>4. CASE InferenceFails
  BY <1>4 DEF InferenceFails
<1>5. CASE Inference
  <2>1. report' \in [state : Keywords \cup {"silence"}, queued : 0 .. QueueLength]
    BY <1>5, KeywordAssumption DEF Inference
  <2>2. QED  BY <1>5, <2>1 DEF Inference
<1>6. QED  BY <1>1, <1>2, <1>3, <1>4, <1>5

LEMMA FeatureSteps == ASSUME KeywordInv, WindowCopied \/ FeatureReused PROVE KeywordInv'
<1> USE DEF KeywordInv, KeywordTypeOK, driverVars, featureVars, hookVars
<1>1. CASE WindowCopied
  <2>1. stride_index \in 0 .. Features - 1 /\ stride_index + 1 \in 0 .. Features
    <3>1. mlPc = "last"  BY <1>1 DEF WindowCopied
    <3>2. stride_index < Features  BY <3>1 DEF PlaceLeft
    <3>3. Features \in Nat  BY KeywordAssumption DEF Features
    <3>4. QED  BY <3>2, <3>3
  <2>2. inputTensor' \in [0 .. Features - 1 -> Feature \cup {Moved}]
    BY <1>1, <2>1, WindowType DEF WindowCopied
  <2>3. featureCache' \in [0 .. Overlap - 1 -> Feature \cup {Moved}]
    BY <1>1, <2>1, WindowType DEF WindowCopied, Cached
  <2>4. window' \in [block_under_write : Blocks, current_stride : 0 .. StrideCount - 1, semaphore : BOOLEAN]
    BY <1>1, NextStrideType DEF WindowCopied
  <2>5. /\ mlPc' \in {"infer", "first", "cached"} /\ PlaceLeft'
    BY <1>1, <2>1, ContinueType DEF WindowCopied, PlaceLeft, Features
  <2>6. QED
    BY <1>1, <2>1, <2>2, <2>3, <2>4, <2>5 DEF WindowCopied, NoLostWakeup
<1>2. CASE FeatureReused
  <2>1. /\ stride_index \in 0 .. Features - 1 /\ stride_index + 1 \in 0 .. Features
        /\ stride_index \in 0 .. Overlap - 1
    BY <1>2, KeywordAssumption DEF FeatureReused, PlaceLeft, Features
  <2>2. inputTensor' \in [0 .. Features - 1 -> Feature \cup {Moved}]
    BY <1>2, <2>1 DEF FeatureReused
  <2>3. featureCache' \in [0 .. Overlap - 1 -> Feature \cup {Moved}]
    BY <1>2, <2>1 DEF FeatureReused
  <2>4. /\ mlPc' \in {"infer", "first", "cached"} /\ PlaceLeft'
    BY <1>2, <2>1, ContinueType DEF FeatureReused, PlaceLeft, Features
  <2>5. QED
    BY <1>2, <2>1, <2>2, <2>3, <2>4 DEF FeatureReused, NoLostWakeup
<1>3. QED  BY <1>1, <1>2

LEMMA StepHolds == KeywordInv /\ [Next]_vars => KeywordInv'
<1>1. ASSUME KeywordInv, UNCHANGED vars PROVE KeywordInv'
  BY <1>1
    DEF vars, hookVars, driverVars, featureVars, KeywordInv, KeywordTypeOK, PlaceLeft, NoLostWakeup,
        first_block, last_block
<1>2. QED
  BY <1>1, HookSteps, VsiSteps, WaitSteps, StartSteps, FeatureSteps DEF Next, MlTask

LEMMA Invariant == Spec => []KeywordInv
  BY InitHolds, StepHolds, PTL DEF Spec

\* Positions stay in the ring, the features in the tensor and the cache, and the
\* queue in its length.
THEOREM KeywordTypesCorrect == Spec => []KeywordTypeOK
<1>1. KeywordInv => KeywordTypeOK  BY DEF KeywordInv
<1>2. QED  BY <1>1, Invariant, PTL

\* CircularSlidingWindow::next and prvSignalBlockWritten lose no wake-up, although the
\* block under write is read twice and the semaphore given after it has changed.
THEOREM WakeupsAreKept == Spec => []NoLostWakeup
<1>1. KeywordInv => NoLostWakeup  BY DEF KeywordInv
<1>2. QED  BY <1>1, Invariant, PTL

-----------------------------------------------------------------------------
(***************************************************************************)
(* Positions of the ring                                                   *)
(***************************************************************************)

\* A multiple of a greater number is greater by at least the factor.
LEMMA Times ==
  ASSUME NEW p \in Int, NEW q \in Int, NEW n \in Nat, p < q
  PROVE  p * n + n <= q * n
<1>1. (p + 1) * n = p * n + n /\ p * n \in Int /\ q * n \in Int
  OBVIOUS
<1>2. (p + 1) * n <= q * n
  OBVIOUS
<1>3. QED  BY <1>1, <1>2

\* Quotient and remainder make up the number ...
LEMMA Division ==
  ASSUME NEW a \in Int, NEW n \in Nat \ {0}
  PROVE  a \div n \in Int /\ a % n \in 0 .. n - 1 /\ a = (a \div n) * n + (a % n)
  OBVIOUS

\* ... and no others do.
LEMMA DivisionUnique ==
  ASSUME NEW n \in Nat \ {0}, NEW q \in Int, NEW r \in 0 .. n - 1, NEW a, a = q * n + r
  PROVE  a \div n = q /\ a % n = r
<1>1. PICK x \in Int, y \in 0 .. n - 1 : a \div n = x /\ a % n = y /\ a = x * n + y
  BY Division
<1>2. x * n \in Int /\ q * n \in Int
  OBVIOUS
<1>3. ~(x < q)
  <2>1. x < q => x * n + n <= q * n  BY Times
  <2>2. QED  BY <1>1, <1>2, <2>1
<1>4. ~(q < x)
  <2>1. q < x => q * n + n <= x * n  BY Times
  <2>2. QED  BY <1>1, <1>2, <2>1
<1>5. x = q  BY <1>3, <1>4
<1>6. y = r  BY <1>1, <1>2, <1>5
<1>7. QED  BY <1>1, <1>5, <1>6

\* The same for the divisors there are.
LEMMA InBlock ==
  ASSUME NEW q \in Int, NEW r \in 0 .. StridesPerBlock - 1, NEW a, a = q * StridesPerBlock + r
  PROVE  a \div StridesPerBlock = q /\ a % StridesPerBlock = r
  BY RingSize, DivisionUnique

\* The place of a stride in the ring is its remainder, whichever turn it is in.
LEMMA InRing ==
  ASSUME NEW q \in Int, NEW r \in 0 .. StrideCount - 1, NEW a, a = q * StrideCount + r
  PROVE  a % StrideCount = r
  BY RingSize, DivisionUnique

\* So is the block of a count of blocks.
LEMMA InBlocks ==
  ASSUME NEW q \in Int, NEW r \in 0 .. BlockCount - 1, NEW a, a = q * BlockCount + r
  PROVE  a % BlockCount = r
  BY RingSize, DivisionUnique

\* A position is a place in a block of the ring.
LEMMA Position ==
  ASSUME NEW p \in 0 .. StrideCount - 1
  PROVE  /\ p \div StridesPerBlock \in Blocks /\ p % StridesPerBlock \in 0 .. StridesPerBlock - 1
         /\ p = (p \div StridesPerBlock) * StridesPerBlock + (p % StridesPerBlock)
<1>1. PICK b \in Int, o \in 0 .. StridesPerBlock - 1 :
        p \div StridesPerBlock = b /\ p % StridesPerBlock = o /\ p = b * StridesPerBlock + o
  BY RingSize, Division
<1>2. b * StridesPerBlock \in Int /\ BlockCount * StridesPerBlock \in Int
  BY RingSize
<1>3. b < BlockCount
  <2>1. BlockCount < b => BlockCount * StridesPerBlock + StridesPerBlock <= b * StridesPerBlock
    BY RingSize, Times
  <2>2. ~(BlockCount <= b)
    BY <1>1, <1>2, <2>1, RingSize DEF StrideCount
  <2>3. QED  BY <2>2, RingSize
<1>4. 0 <= b
  <2>1. b < 0 => b * StridesPerBlock + StridesPerBlock <= 0 * StridesPerBlock
    BY RingSize, Times
  <2>2. QED  BY <1>1, <1>2, <2>1, RingSize
<1>5. QED  BY <1>1, <1>3, <1>4, RingSize DEF Blocks

\* The block after a block is the next position, or the first.
LEMMA NextBlockIs ==
  ASSUME NEW b \in Blocks
  PROVE  NextBlock(b) = IF b = BlockCount - 1 THEN 0 ELSE b + 1
<1>1. CASE b = BlockCount - 1
  <2>1. b + 1 = 1 * BlockCount + 0 /\ 0 \in 0 .. BlockCount - 1
    BY <1>1, RingSize
  <2>2. QED  BY <1>1, <2>1, InBlocks DEF NextBlock
<1>2. CASE b # BlockCount - 1
  <2>1. b + 1 = 0 * BlockCount + (b + 1) /\ b + 1 \in 0 .. BlockCount - 1
    BY <1>2, RingSize DEF Blocks
  <2>2. QED  BY <1>2, <2>1, InBlocks DEF NextBlock
<1>3. QED  BY <1>1, <1>2

\* Less than a block ahead of a position is its block or the next one, with and without
\* the wrap of the ring.
LEMMA Ahead ==
  ASSUME NEW b \in Blocks, NEW o \in 0 .. StridesPerBlock - 1, NEW d \in 0 .. StridesPerBlock - 1,
         NEW s, s = b * StridesPerBlock + o + d
  PROVE  /\ o + d < StridesPerBlock =>
              /\ (s % StrideCount) \div StridesPerBlock = b
              /\ (s % StrideCount) % StridesPerBlock = o + d
              /\ (s \div StridesPerBlock) % BlockCount = b
         /\ o + d >= StridesPerBlock =>
              /\ (s % StrideCount) \div StridesPerBlock = NextBlock(b)
              /\ (s % StrideCount) % StridesPerBlock = o + d - StridesPerBlock
              /\ (s \div StridesPerBlock) % BlockCount = NextBlock(b)
<1>1. /\ b \in Nat /\ b < BlockCount /\ o \in Nat /\ d \in Nat /\ o < StridesPerBlock /\ d < StridesPerBlock
      /\ b * StridesPerBlock \in Nat /\ BlockCount * StridesPerBlock = StrideCount
      /\ s \in Nat /\ StridesPerBlock \in Nat /\ BlockCount \in Nat /\ StrideCount \in Nat
  <2>1. \A m, n \in Nat : m * n \in Nat  OBVIOUS
  <2>2. b \in Nat /\ b < BlockCount  BY RingSize DEF Blocks
  <2>3. b * StridesPerBlock \in Nat  BY <2>1, <2>2, RingSize
  <2>4. QED  BY <2>2, <2>3, RingSize DEF StrideCount
<1>2. CASE o + d < StridesPerBlock
  <2>1. b * StridesPerBlock + StridesPerBlock <= StrideCount
    BY <1>1, RingSize, Times
  <2>2. s = 0 * StrideCount + s /\ s \in 0 .. StrideCount - 1
    BY <1>1, <1>2, <2>1
  <2>3. s % StrideCount = s
    BY <2>2, InRing
  <2>4. s = b * StridesPerBlock + (o + d) /\ o + d \in 0 .. StridesPerBlock - 1 /\ b \in Int
    BY <1>1, <1>2
  <2>5. s \div StridesPerBlock = b /\ s % StridesPerBlock = o + d
    BY <2>4, InBlock
  <2>6. b = 0 * BlockCount + b /\ b \in 0 .. BlockCount - 1
    BY <1>1
  <2>7. b % BlockCount = b
    BY <2>6, InBlocks
  <2>8. QED  BY <1>1, <1>2, <2>3, <2>5, <2>7
<1>3. CASE o + d >= StridesPerBlock
  <2>0. PICK e \in 0 .. StridesPerBlock - 1 : e = o + d - StridesPerBlock
    BY <1>1, <1>3
  <2>1. (b + 1) * StridesPerBlock = b * StridesPerBlock + StridesPerBlock
    BY <1>1
  <2>2. s = (b + 1) * StridesPerBlock + e /\ b + 1 \in Int
    BY <1>1, <2>0, <2>1
  <2>3. s \div StridesPerBlock = b + 1 /\ s % StridesPerBlock = e
    BY <2>2, InBlock
  <2>4. (s \div StridesPerBlock) % BlockCount = NextBlock(b)
    BY <2>3 DEF NextBlock
  <2>5. CASE b = BlockCount - 1
    <3>1. (b + 1) * StridesPerBlock = StrideCount
      BY <1>1, <2>5
    <3>2. StridesPerBlock <= StrideCount
      <4>1. 0 * StridesPerBlock + StridesPerBlock <= BlockCount * StridesPerBlock
        BY RingSize, Times
      <4>2. QED  BY <1>1, <4>1
    <3>3. s = 1 * StrideCount + e /\ e \in 0 .. StrideCount - 1
      BY <1>1, <2>0, <2>2, <3>1, <3>2
    <3>4. s % StrideCount = e
      BY <3>3, InRing
    <3>5. e = 0 * StridesPerBlock + e
      BY <1>1
    <3>6. e \div StridesPerBlock = 0 /\ e % StridesPerBlock = e
      BY <3>5, InBlock
    <3>7. QED  BY <1>1, <1>3, <2>0, <2>4, <2>5, <3>4, <3>6, NextBlockIs
  <2>6. CASE b # BlockCount - 1
    <3>1. (b + 1) * StridesPerBlock + StridesPerBlock <= StrideCount
      BY <1>1, <2>6, RingSize, Times
    <3>2. s = 0 * StrideCount + s /\ s \in 0 .. StrideCount - 1
      BY <1>1, <2>0, <2>2, <3>1
    <3>3. s % StrideCount = s
      BY <3>2, InRing
    <3>4. QED  BY <1>1, <1>3, <2>0, <2>3, <2>4, <2>6, <3>3, NextBlockIs
  <2>7. QED  BY <2>5, <2>6
<1>4. QED  BY <1>1, <1>2, <1>3

\* How far a block is behind the one that is filled.
LEMMA Behind ==
  ASSUME NEW f \in Blocks, NEW b \in Blocks
  PROVE  (f - b) % BlockCount = IF b <= f THEN f - b ELSE f - b + BlockCount
<1>1. CASE b <= f
  <2>1. f - b = 0 * BlockCount + (f - b) /\ f - b \in 0 .. BlockCount - 1
    BY <1>1, RingSize DEF Blocks
  <2>2. QED  BY <1>1, <2>1, InBlocks
<1>2. CASE ~(b <= f)
  <2>1. (-1) * BlockCount = -BlockCount
    BY RingSize
  <2>2. f - b = (-1) * BlockCount + (f - b + BlockCount) /\ f - b + BlockCount \in 0 .. BlockCount - 1
    BY <1>2, <2>1, RingSize DEF Blocks
  <2>3. QED  BY <1>2, <2>2, InBlocks
<1>3. QED  BY <1>1, <1>2

\* One block more makes the next one the one that is filled.
LEMMA FillingNext ==
  ASSUME captured \in Nat
  PROVE  /\ Filling \in Blocks
         /\ (captured + 1) % BlockCount = NextBlock(Filling)
<1>1. PICK q \in Int, f \in 0 .. BlockCount - 1 :
        captured % BlockCount = f /\ captured = q * BlockCount + f
  <2>1. captured \in Int /\ BlockCount \in Nat \ {0}
    BY RingSize
  <2>2. QED  BY <2>1, Division
<1>2. q * BlockCount \in Int /\ (q + 1) * BlockCount = q * BlockCount + BlockCount
  BY RingSize
<1>3. f \in Blocks /\ Filling = f
  BY <1>1 DEF Blocks, Filling
<1>4. CASE f = BlockCount - 1
  <2>1. captured + 1 = (q + 1) * BlockCount + 0 /\ 0 \in 0 .. BlockCount - 1
    BY <1>1, <1>2, <1>4, RingSize
  <2>2. (captured + 1) % BlockCount = 0
    BY <2>1, InBlocks
  <2>3. QED  BY <1>3, <1>4, <2>2, NextBlockIs
<1>5. CASE f # BlockCount - 1
  <2>1. captured + 1 = q * BlockCount + (f + 1) /\ f + 1 \in 0 .. BlockCount - 1
    BY <1>1, <1>2, <1>5, RingSize
  <2>2. (captured + 1) % BlockCount = f + 1
    BY <2>1, InBlocks
  <2>3. QED  BY <1>3, <1>5, <2>2, NextBlockIs
<1>6. QED  BY <1>4, <1>5, <1>3

\* How far, when the block or the one that is filled moves on.
LEMMA BehindMoves ==
  ASSUME NEW f \in Blocks, NEW b \in Blocks
  PROVE  /\ f # b => (f - b) % BlockCount # 0
         /\ f # b => (f - NextBlock(b)) % BlockCount = ((f - b) % BlockCount) - 1
         /\ (NextBlock(f) - b) % BlockCount =
              IF NextBlock(f) = b THEN 0 ELSE ((f - b) % BlockCount) + 1
         /\ (f - b) % BlockCount \in 0 .. BlockCount - 1
<1>1. NextBlock(b) \in Blocks /\ NextBlock(f) \in Blocks
  BY NextBlockType
<1>2. b \in Nat /\ f \in Nat /\ b < BlockCount /\ f < BlockCount
  BY RingSize DEF Blocks
<1>3. (f - b) % BlockCount = IF b <= f THEN f - b ELSE f - b + BlockCount
  BY Behind
<1>4. (f - NextBlock(b)) % BlockCount = IF NextBlock(b) <= f THEN f - NextBlock(b)
                                        ELSE f - NextBlock(b) + BlockCount
  BY <1>1, Behind
<1>5. (NextBlock(f) - b) % BlockCount = IF b <= NextBlock(f) THEN NextBlock(f) - b
                                        ELSE NextBlock(f) - b + BlockCount
  BY <1>1, Behind
<1>6. /\ NextBlock(b) = IF b = BlockCount - 1 THEN 0 ELSE b + 1
      /\ NextBlock(f) = IF f = BlockCount - 1 THEN 0 ELSE f + 1
  BY NextBlockIs
<1>7. QED  BY <1>2, <1>3, <1>4, <1>5, <1>6, RingSize

\* No two blocks have the same next one.
LEMMA NextBlockInjective ==
  ASSUME NEW b \in Blocks, NEW c \in Blocks, NextBlock(b) = NextBlock(c)
  PROVE  b = c
  BY NextBlockIs, RingSize DEF Blocks

-----------------------------------------------------------------------------
(***************************************************************************)
(* What is read                                                            *)
(***************************************************************************)

\* The count of the block that the reader is in, were it the last one completed there
\* or the one that is filled: CircularSlidingWindow only has its position.
BlockRead == captured - ((Filling - first_block) % BlockCount)

\* The stride that next() copies next.
Reader == BlockRead * StridesPerBlock + (window.current_stride % StridesPerBlock)

Inferring == mlPc \in {"first", "last", "take", "cached", "infer"}

\* The stride of the first feature of this inference.
Base == Reader - (IF useCache /\ stride_index < Overlap THEN Overlap ELSE stride_index)

\* The features of this inference that follow one another.
FirstWhole == IF useCache /\ gap THEN Overlap ELSE 0

\* A feature that was computed from the strides from s on.
From(f, s) == s \in Nat /\ f = [j \in 0 .. WindowStrides - 1 |-> s + j]

\* The driver's block is the one the reader sees, or the next.
Announced ==
  Filling = IF vsiPc = "notified" THEN NextBlock(window.block_under_write)
            ELSE window.block_under_write

\* The driver stays out of the block that is read.
Apart ==
  /\ BlockRead >= 0
  /\ ~Paused /\ vsiPc = "notified" => first_block # Filling
  /\ mlPc = "last" => first_block \notin {Filling, window.block_under_write}

Place ==
  /\ mlPc = "restart" => gap
  /\ mlPc \in {"first", "last", "take"} => NeedsAudio(stride_index)
  /\ mlPc = "cached" => ~NeedsAudio(stride_index)
  /\ mlPc = "infer" => stride_index = Features

TensorRead ==
  Inferring => \A i \in FirstWhole .. stride_index - 1 : From(inputTensor[i], Base + i)

CacheRead ==
  /\ mlPc \in {"start", "poll"} /\ useCache /\ ~gap =>
       \A k \in 0 .. Overlap - 1 : From(featureCache[k], Reader - Overlap + k)
  /\ mlPc = "cached" /\ ~gap =>
       \A k \in stride_index .. Overlap - 1 : From(featureCache[k], Base + k)
  /\ Inferring =>
       \A k \in 0 .. Overlap - 1 :
         Overlap + k < stride_index => From(featureCache[k], Base + Overlap + k)

ReadInv == Announced /\ Apart /\ Place /\ TensorRead /\ CacheRead

\* What next() copies are the strides from the reader's on, and the reader moves on by
\* one: neither block of the window is the one that is filled.
LEMMA WindowReads ==
  ASSUME KeywordTypeOK, Announced, Apart, mlPc = "last", last_block # window.block_under_write
  PROVE  /\ From(Window, Reader)
         /\ Reader \in Nat
         /\ /\ UNCHANGED captured
            /\ window' = [window EXCEPT !.current_stride = (@ + 1) % StrideCount]
            => Reader' = Reader + 1 /\ BlockRead' >= 0 /\ first_block' # Filling
<1>1. PICK b \in Blocks, o \in 0 .. StridesPerBlock - 1 :
        /\ first_block = b /\ window.current_stride % StridesPerBlock = o
        /\ window.current_stride = b * StridesPerBlock + o
  BY Position DEF KeywordTypeOK, first_block
<1>2. PICK f \in Blocks : f = Filling
  BY FillingNext DEF KeywordTypeOK
<1>3. PICK k \in 1 .. BlockCount - 1 : k = (f - b) % BlockCount
  <2>1. f # b
    BY <1>1, <1>2 DEF Apart
  <2>2. QED  BY <2>1, BehindMoves
<1>4. f # b /\ b # window.block_under_write
  BY <1>1, <1>2 DEF Apart
<1>5. PICK r \in Nat : r = BlockRead /\ r = captured - k
  <2>1. captured \in Nat
    BY DEF KeywordTypeOK
  <2>2. QED  BY <1>1, <1>2, <1>3, <2>1 DEF BlockRead, Apart
<1>6. r * StridesPerBlock \in Nat /\ (r + 1) * StridesPerBlock = r * StridesPerBlock + StridesPerBlock
  <2>1. \A m, n \in Nat : m * n \in Nat /\ (m + 1) * n = m * n + n  OBVIOUS
  <2>2. QED  BY <2>1, RingSize
<1>7. Reader = r * StridesPerBlock + o /\ Reader \in Nat
  BY <1>1, <1>5, <1>6 DEF Reader
<1>8. b * StridesPerBlock \in Nat
  <2>1. \A m, n \in Nat : m * n \in Nat  OBVIOUS
  <2>2. b \in Nat  BY DEF Blocks
  <2>3. QED  BY <2>1, <2>2, RingSize
<1>9. WindowStrides - 1 \in 1 .. StridesPerBlock - 1 /\ WindowStrides \in Nat /\ StridesPerBlock \in Nat
  BY KeywordAssumption
<1>10. o + (WindowStrides - 1) >= StridesPerBlock => NextBlock(b) # f
  <2> SUFFICES ASSUME o + (WindowStrides - 1) >= StridesPerBlock, NextBlock(b) = f PROVE FALSE
    OBVIOUS
  <2>1. window.current_stride + WindowStrides - 1 = b * StridesPerBlock + o + (WindowStrides - 1)
    BY <1>1, <1>8, <1>9
  <2>2. last_block = NextBlock(b)
    BY <1>9, <2>1, Ahead DEF last_block
  <2>3. Filling = NextBlock(window.block_under_write)
    BY <1>2, <2>2 DEF Announced
  <2>4. window.block_under_write = b
    BY <1>2, <2>3, NextBlockInjective DEF KeywordTypeOK
  <2>5. QED  BY <1>4, <2>4
<1>11. ASSUME NEW j \in 0 .. WindowStrides - 1
       PROVE  Sample((window.current_stride + j) % StrideCount) = Reader + j
  <2>1. /\ j \in 0 .. StridesPerBlock - 1 /\ j \in Nat
        /\ window.current_stride + j = b * StridesPerBlock + o + j
    BY <1>1, <1>8, <1>9
  <2> DEFINE p == (window.current_stride + j) % StrideCount
  <2>2. CASE o + j < StridesPerBlock
    <3>1. p \div StridesPerBlock = b /\ p % StridesPerBlock = o + j
      BY <2>1, <2>2, Ahead
    <3> HIDE DEF p
    <3>2. Sample(p) = r * StridesPerBlock + (o + j)
      BY <1>2, <1>3, <1>5, <3>1 DEF Sample
    <3> USE DEF p
    <3>3. QED  BY <1>6, <1>7, <2>1, <3>2
  <2>3. CASE o + j >= StridesPerBlock
    <3>1. p \div StridesPerBlock = NextBlock(b) /\ p % StridesPerBlock = o + j - StridesPerBlock
      BY <2>1, <2>3, Ahead
    <3> HIDE DEF p
    <3>2. NextBlock(b) # f /\ NextBlock(b) \in Blocks
      BY <1>9, <1>10, <2>1, <2>3, NextBlockType
    <3>3. (f - NextBlock(b)) % BlockCount = k - 1 /\ k - 1 # 0
      BY <1>3, <1>4, <3>2, BehindMoves
    <3>4. captured - (k - 1) = r + 1
      BY <1>5 DEF KeywordTypeOK
    <3>5. Sample(p) = (r + 1) * StridesPerBlock + (o + j - StridesPerBlock)
      BY <1>2, <1>5, <3>1, <3>3, <3>4 DEF Sample
    <3>6. (r + 1) * StridesPerBlock + (o + j - StridesPerBlock) = Reader + j
      BY <1>6, <1>7, <1>9, <2>1
    <3> USE DEF p
    <3>7. QED  BY <3>5, <3>6
  <2>4. QED  BY <1>9, <2>1, <2>2, <2>3
<1>12. From(Window, Reader)
  BY <1>7, <1>11 DEF From, Window
<1>13. ASSUME UNCHANGED captured,
              window' = [window EXCEPT !.current_stride = (@ + 1) % StrideCount]
       PROVE  Reader' = Reader + 1 /\ BlockRead' >= 0 /\ first_block' # Filling
  <2>1. /\ window'.current_stride = (window.current_stride + 1) % StrideCount
        /\ window.current_stride + 1 = b * StridesPerBlock + o + 1
        /\ 1 \in 0 .. StridesPerBlock - 1 /\ UNCHANGED Filling
    <3>1. window'.current_stride = (window.current_stride + 1) % StrideCount
      BY <1>13 DEF KeywordTypeOK
    <3>2. UNCHANGED Filling
      BY <1>13 DEF Filling
    <3>3. /\ window.current_stride + 1 = b * StridesPerBlock + o + 1
          /\ 1 \in 0 .. StridesPerBlock - 1
      BY <1>1, <1>8, <1>9
    <3>4. QED  BY <3>1, <3>2, <3>3
  <2>2. CASE o + 1 < StridesPerBlock
    <3>1. first_block' = b /\ window'.current_stride % StridesPerBlock = o + 1
      BY <2>1, <2>2, Ahead DEF first_block
    <3>2. BlockRead' = r
      BY <1>2, <1>3, <1>5, <1>13, <2>1, <3>1 DEF BlockRead
    <3>3. QED  BY <1>2, <1>4, <1>6, <1>7, <3>1, <3>2 DEF Reader
  <2>3. CASE o + 1 >= StridesPerBlock
    <3>1. first_block' = NextBlock(b) /\ window'.current_stride % StridesPerBlock = o + 1 - StridesPerBlock
      BY <2>1, <2>3, Ahead DEF first_block
    <3>2. (f - NextBlock(b)) % BlockCount = k - 1
      BY <1>3, <1>4, BehindMoves
    <3>3. BlockRead' = r + 1
      BY <1>2, <1>3, <1>5, <1>13, <2>1, <3>1, <3>2 DEF BlockRead, KeywordTypeOK
    <3>4. Reader' = (r + 1) * StridesPerBlock + (o + 1 - StridesPerBlock)
      BY <3>1, <3>3 DEF Reader
    <3>5. NextBlock(b) # f
      BY <1>9, <1>10, <2>3
    <3>6. QED  BY <1>2, <1>6, <1>7, <1>9, <2>1, <3>1, <3>3, <3>4, <3>5
  <2>4. QED  BY <1>9, <2>2, <2>3
<1>14. QED  BY <1>7, <1>12, <1>13

\* While the ML task keeps up, a block that is completed does not move the reader.
LEMMA ReaderStays ==
  ASSUME KeywordTypeOK, BlockRead >= 0, captured' = captured + 1, UNCHANGED window
  PROVE  /\ BlockRead' >= 0
         /\ NextBlock(Filling) # first_block => Reader' = Reader
         /\ Filling' = NextBlock(Filling)
<1>1. captured \in Nat /\ UNCHANGED first_block /\ first_block \in Blocks
  BY Position DEF KeywordTypeOK, first_block
<1>2. Filling \in Blocks /\ Filling' = NextBlock(Filling)
  BY <1>1, FillingNext DEF Filling
<1>3. PICK k \in 0 .. BlockCount - 1 :
        /\ (Filling - first_block) % BlockCount = k
        /\ (NextBlock(Filling) - first_block) % BlockCount = IF NextBlock(Filling) = first_block THEN 0 ELSE k + 1
  BY <1>1, <1>2, BehindMoves
<1>4. BlockRead = captured - k
  BY <1>3 DEF BlockRead
<1>5. BlockRead' = captured + 1 - (IF NextBlock(Filling) = first_block THEN 0 ELSE k + 1)
  BY <1>1, <1>2, <1>3 DEF BlockRead
<1>6. BlockRead' >= 0 /\ (NextBlock(Filling) # first_block => BlockRead' = BlockRead)
  BY <1>1, <1>4, <1>5, RingSize
<1>7. QED  BY <1>2, <1>6 DEF Reader

\* A feature is not an empty vector.
LEMMA RowNotMoved ==
  ASSUME NEW f, NEW s, From(f, s)
  PROVE  f # Moved
<1>1. DOMAIN f = 0 .. WindowStrides - 1
  BY DEF From
<1>2. 0 \in DOMAIN f
  BY <1>1, KeywordAssumption
<1>3. DOMAIN Moved = {}
  BY DEF Moved
<1>4. QED  BY <1>2, <1>3

\* The reader is in the audio, and in a block of the ring.
LEMMA ReaderType ==
  ASSUME KeywordTypeOK, BlockRead >= 0
  PROVE  Reader \in Nat /\ first_block \in Blocks
<1>1. first_block \in Blocks /\ window.current_stride % StridesPerBlock \in 0 .. StridesPerBlock - 1
  BY Position DEF KeywordTypeOK, first_block
<1>2. BlockRead \in Nat
  <2>1. Filling \in Blocks
    BY FillingNext DEF KeywordTypeOK
  <2>2. (Filling - first_block) % BlockCount \in 0 .. BlockCount - 1
    BY <1>1, <2>1, BehindMoves
  <2>3. BlockRead \in Int
    BY <2>2 DEF BlockRead, KeywordTypeOK
  <2>4. QED  BY <2>3
<1>3. \A m, n \in Nat : m * n \in Nat
  OBVIOUS
<1>4. BlockRead * StridesPerBlock \in Nat
  BY <1>2, <1>3, RingSize
<1>5. QED  BY <1>1, <1>4 DEF Reader

\* The reader moves with the driver and the window only.
LEMMA SameReader ==
  ASSUME UNCHANGED <<captured, window.current_stride>>
  PROVE  UNCHANGED <<Reader, BlockRead, first_block, Filling>>
  BY DEF Reader, BlockRead, first_block, Filling

\* Nothing has been read when the detector starts.
LEMMA ReadInit == KeywordInit => ReadInv
<1> SUFFICES ASSUME KeywordInit PROVE ReadInv
  OBVIOUS
<1>1. captured = 0 /\ window.current_stride = 0 /\ window.block_under_write = 0 /\ vsiPc = "idle"
      /\ mlPc = "start" /\ firstIteration = TRUE
  BY DEF KeywordInit
<1>2. 0 \in Blocks /\ 0 \in 0 .. StridesPerBlock - 1 /\ 0 \in 0 .. BlockCount - 1
  BY RingSize DEF Blocks
<1>3. first_block = 0
  <2>1. 0 = 0 * StridesPerBlock + 0
    BY RingSize
  <2>2. QED  BY <1>1, <1>2, <2>1, InBlock DEF first_block
<1>4. Filling = 0
  <2>1. 0 = 0 * BlockCount + 0
    BY RingSize
  <2>2. QED  BY <1>1, <1>2, <2>1, InBlocks DEF Filling
<1>5. BlockRead = 0
  <2>1. (0 - 0) % BlockCount = 0
    BY <1>2, Behind
  <2>2. QED  BY <1>1, <1>3, <1>4, <2>1 DEF BlockRead
<1>6. QED
  BY <1>1, <1>4, <1>5
  DEF ReadInv, Announced, Apart, Place, TensorRead, CacheRead, Inferring, useCache, Paused

\* The hooks and the MQTT task do not touch what is read.
LEMMA HookReads == ASSUME ReadInv, Hook \/ vMlMqttTask \/ UNCHANGED vars PROVE ReadInv'
<1>1. UNCHANGED <<driverVars, window, mlPc, featureVars>>
  BY DEF Hook, vOtaActiveHook, vOtaNotActiveHook, HookCalled, HookSets, vMlMqttTask, vars
<1>2. UNCHANGED <<Reader, BlockRead, first_block, Filling>>
  BY <1>1, SameReader DEF driverVars
<1>3. QED
  BY <1>1, <1>2
  DEF ReadInv, Announced, Apart, Place, TensorRead, CacheRead, Inferring, Base, FirstWhole, useCache,
      Paused, NeedsAudio, driverVars, featureVars, From

\* A block that is completed is one the reader is not in, or nobody reads.
LEMMA VsiReads == ASSUME KeywordTypeOK, ReadInv, Vsi PROVE ReadInv'
<1>1. CASE BlockComplete
  <2>1. /\ captured' = captured + 1 /\ vsiPc = "idle" /\ vsiPc' = "notified"
        /\ Paused \/ NextBlock(Filling) # first_block
        /\ UNCHANGED <<window, mlPc, featureVars>>
    BY <1>1 DEF BlockComplete
  <2>2. /\ BlockRead' >= 0 /\ Filling' = NextBlock(Filling) /\ UNCHANGED first_block
        /\ NextBlock(Filling) # first_block => Reader' = Reader
    BY <2>1, ReaderStays DEF ReadInv, Apart, first_block
  <2>3. Announced' /\ Apart' /\ Place'
    BY <2>1, <2>2 DEF ReadInv, Announced, Apart, Place, Paused, NeedsAudio, useCache, featureVars
  <2>4. TensorRead' /\ CacheRead'
    <3>1. CASE Paused
      BY <2>1, <3>1 DEF TensorRead, CacheRead, Inferring, Paused
    <3>2. CASE ~Paused
      <4>1. UNCHANGED <<Reader, mlPc, featureVars>>
        BY <2>1, <2>2, <3>2
      <4>2. QED
        BY <4>1
        DEF ReadInv, TensorRead, CacheRead, Inferring, Base, FirstWhole, useCache, featureVars, From
    <3>3. QED  BY <3>1, <3>2
  <2>5. QED  BY <2>3, <2>4 DEF ReadInv
<1>2. CASE BlockCounted("notified", "half") \/ SemaphoreGiven("half", "idle")
  <2>1. /\ UNCHANGED <<captured, window.current_stride, mlPc, featureVars>>
        /\ \/ /\ vsiPc = "notified" /\ vsiPc' = "half"
              /\ window'.block_under_write = NextBlock(window.block_under_write)
           \/ /\ vsiPc = "half" /\ vsiPc' = "idle"
              /\ UNCHANGED window.block_under_write
    BY <1>2 DEF BlockCounted, SemaphoreGiven, KeywordTypeOK
  <2>2. UNCHANGED <<Reader, BlockRead, first_block, Filling>>
    BY <2>1, SameReader
  <2>3. Announced' /\ Apart' /\ Place'
    BY <2>1, <2>2 DEF ReadInv, Announced, Apart, Place, Paused, NeedsAudio, useCache, featureVars
  <2>4. TensorRead' /\ CacheRead'
    BY <2>1, <2>2
    DEF ReadInv, TensorRead, CacheRead, Inferring, Base, FirstWhole, useCache, featureVars, From
  <2>5. QED  BY <2>3, <2>4 DEF ReadInv
<1>3. QED  BY <1>1, <1>2 DEF Vsi, prvSignalBlockWritten

\* Of the two comparisons the first holds until the copy: the driver does not enter the
\* block of the reader.
LEMMA WaitReads ==
  ASSUME KeywordTypeOK, ReadInv, FirstBlockChecked \/ LastBlockUnderWrite \/ SemaphoreTaken
  PROVE  ReadInv'
<1>1. /\ UNCHANGED <<captured, vsiPc, window.current_stride, window.block_under_write, featureVars>>
      /\ mlPc \in {"first", "last", "take"} /\ mlPc' \in {"first", "last", "take"}
      /\ mlPc' = "last" => first_block # window.block_under_write /\ mlPc = "first"
  BY DEF FirstBlockChecked, LastBlockUnderWrite, SemaphoreTaken, driverVars, KeywordTypeOK
<1>2. UNCHANGED <<Reader, BlockRead, first_block, Filling>>
  BY <1>1, SameReader
<1>3. Announced' /\ Apart' /\ Place'
  BY <1>1, <1>2 DEF ReadInv, Announced, Apart, Place, Paused, NeedsAudio, useCache, featureVars
<1>4. TensorRead' /\ CacheRead'
  BY <1>1, <1>2
  DEF ReadInv, TensorRead, CacheRead, Inferring, Base, FirstWhole, useCache, featureVars, From
<1>5. QED  BY <1>3, <1>4 DEF ReadInv

\* Between two inferences the cache has what the next one takes over, unless there is a
\* gap in what is read.
LEMMA StartReads ==
  ASSUME KeywordTypeOK, ReadInv, MlStarts \/ MlStops \/ NotStopped \/ InferenceFails \/ Inference
  PROVE  ReadInv'
<1>1. UNCHANGED <<captured, vsiPc, window, inputTensor, featureCache>>
  BY DEF MlStarts, MlStops, NotStopped, InferenceFails, Inference, driverVars, featureVars
<1>2. UNCHANGED <<Reader, BlockRead, first_block, Filling>>
  BY <1>1, SameReader
<1>3. Announced'
  BY <1>1, <1>2 DEF ReadInv, Announced
<1>4. Reader \in Nat
  BY ReaderType DEF ReadInv, Apart
<1>5. Overlap \in Nat \ {0} /\ Features = 2 * Overlap
  BY KeywordAssumption DEF Features
<1>6. CASE MlStarts
  <2>1. mlPc \in {"start", "restart"} /\ vsiPc = "idle" /\ mlPc' = "poll" /\ UNCHANGED featureVars
    BY <1>6 DEF MlStarts
  <2>2. mlPc = "restart" => gap
    BY DEF ReadInv, Place
  <2>3. Apart' /\ Place' /\ TensorRead'
    BY <1>1, <1>2, <2>1 DEF ReadInv, Apart, Place, TensorRead, Inferring
  <2>4. CacheRead'
    BY <1>1, <1>2, <2>1, <2>2 DEF ReadInv, CacheRead, Inferring, useCache, featureVars, From
  <2>5. QED  BY <1>3, <2>3, <2>4 DEF ReadInv
<1>7. CASE MlStops \/ InferenceFails
  <2>1. Paused' /\ (mlPc' = "restart" => gap')
    BY <1>7 DEF MlStops, InferenceFails, Paused
  <2>2. QED
    BY <1>1, <1>2, <1>3, <2>1 DEF ReadInv, Apart, Place, TensorRead, CacheRead, Inferring, Paused
<1>8. CASE NotStopped
  <2>1. /\ mlPc = "poll" /\ stride_index' = 0 /\ UNCHANGED <<firstIteration, gap>>
        /\ mlPc' = IF useCache THEN "cached" ELSE "first"
    BY <1>5, <1>8 DEF NotStopped, Continue, NeedsAudio
  <2>2. Apart' /\ Place'
    BY <1>1, <1>2, <1>5, <2>1 DEF ReadInv, Apart, Place, Paused, NeedsAudio, useCache
  <2>3. TensorRead'
    BY <1>5, <2>1 DEF TensorRead, FirstWhole
  <2>4. mlPc' = "cached" => Base' = Reader - Overlap
    BY <1>2, <1>5, <2>1 DEF Base, useCache
  <2>5. ASSUME mlPc' = "cached", ~gap, NEW k \in 0 .. Overlap - 1
        PROVE  From(featureCache'[k], Base' + k)
    <3>1. From(featureCache[k], Reader - Overlap + k)
      BY <2>1, <2>5 DEF ReadInv, CacheRead
    <3>2. QED  BY <1>1, <2>4, <2>5, <3>1
  <2>6. CacheRead'
    BY <1>5, <2>1, <2>5 DEF CacheRead
  <2>7. QED  BY <1>3, <2>2, <2>3, <2>6 DEF ReadInv
<1>9. CASE Inference
  <2>1. mlPc = "infer" /\ mlPc' = "poll" /\ ~gap' /\ stride_index = Features
    BY <1>9 DEF Inference, ReadInv, Place
  <2>2. Apart' /\ Place' /\ TensorRead'
    BY <1>1, <1>2, <2>1 DEF ReadInv, Apart, Place, TensorRead, Inferring, Paused
  <2>3. Base = Reader - 2 * Overlap
    BY <1>4, <1>5, <2>1 DEF Base
  <2>4. ASSUME NEW k \in 0 .. Overlap - 1 PROVE From(featureCache'[k], Reader' - Overlap + k)
    <3>1. Overlap + k < stride_index
      BY <1>5, <2>1
    <3>2. From(featureCache[k], Base + Overlap + k)
      BY <2>1, <3>1 DEF ReadInv, CacheRead, Inferring
    <3>3. Base + Overlap + k = Reader - Overlap + k
      BY <1>4, <1>5, <2>3
    <3>4. QED  BY <1>1, <1>2, <3>2, <3>3
  <2>5. CacheRead'
    BY <2>1, <2>4 DEF CacheRead, Inferring
  <2>6. QED  BY <1>3, <2>2, <2>5 DEF ReadInv
<1>10. QED  BY <1>6, <1>7, <1>8, <1>9

\* A feature that is computed continues the row, and one that is taken over is the one
\* that belongs there.
LEMMA FeatureReads ==
  ASSUME KeywordInv, ReadInv, WindowCopied \/ FeatureReused
  PROVE  ReadInv'
<1>1. KeywordTypeOK /\ Overlap \in Nat \ {0} /\ Features = 2 * Overlap /\ Reader \in Nat
  BY KeywordAssumption, ReaderType DEF Features, KeywordInv, ReadInv, Apart
<1>2. PICK s \in 0 .. Features - 1 : s = stride_index
  BY <1>1 DEF KeywordInv, KeywordTypeOK, PlaceLeft, WindowCopied, FeatureReused
<1>3. /\ inputTensor \in [0 .. Features - 1 -> Feature \cup {Moved}]
      /\ featureCache \in [0 .. Overlap - 1 -> Feature \cup {Moved}]
  BY <1>1 DEF KeywordTypeOK
<1>4. FirstWhole \in Nat /\ (mlPc = "cached" /\ gap => FirstWhole = Overlap)
  BY <1>1 DEF FirstWhole, ReadInv, Place, NeedsAudio
<1>5. CASE WindowCopied
  <2>1. /\ mlPc = "last" /\ last_block # window.block_under_write
        /\ inputTensor' = [inputTensor EXCEPT ![s] = Window]
        /\ featureCache' = IF s >= Overlap THEN [featureCache EXCEPT ![s - Overlap] = Window] ELSE featureCache
        /\ window' = [window EXCEPT !.current_stride = (@ + 1) % StrideCount]
        /\ stride_index' = s + 1
        /\ UNCHANGED <<captured, vsiPc, firstIteration, gap>>
        /\ window'.block_under_write = window.block_under_write
    BY <1>1, <1>2, <1>5 DEF WindowCopied, Cached, driverVars, KeywordTypeOK
  <2>2. From(Window, Reader) /\ Reader' = Reader + 1 /\ BlockRead' >= 0 /\ first_block' # Filling
    BY <1>1, <2>1, WindowReads DEF ReadInv
  <2>3. ~useCache \/ s >= Overlap
    BY <1>2, <2>1 DEF ReadInv, Place, NeedsAudio
  <2>4. mlPc' = IF s + 1 = Features THEN "infer" ELSE "first"
    BY <1>1, <1>2, <1>5, <2>3 DEF WindowCopied, Continue, NeedsAudio
  <2>5. Base = Reader - s /\ Base' = Base
    BY <1>1, <1>2, <2>1, <2>2, <2>3 DEF Base, useCache
  <2>6. Announced' /\ Apart' /\ Place'
    <3>1. Announced'
      BY <2>1 DEF ReadInv, Announced, Filling
    <3>2. Apart'
      BY <2>1, <2>2, <2>4 DEF Apart, Filling
    <3>3. Place'
      BY <1>1, <2>1, <2>3, <2>4 DEF Place, NeedsAudio, useCache
    <3>4. QED  BY <3>1, <3>2, <3>3
  <2>7. TensorRead'
    <3> SUFFICES ASSUME NEW i \in FirstWhole .. s PROVE From(inputTensor'[i], Base + i)
      BY <1>1, <1>2, <2>1, <2>5 DEF TensorRead, FirstWhole, useCache
    <3>1. CASE i = s
      BY <1>1, <1>2, <1>3, <2>1, <2>2, <2>5, <3>1
    <3>2. CASE i # s
      <4>1. i \in FirstWhole .. s - 1 /\ i # s
        BY <1>2, <1>4, <3>2
      <4>2. From(inputTensor[i], Base + i)
        BY <1>2, <2>1, <4>1 DEF ReadInv, TensorRead, Inferring
      <4>3. inputTensor'[i] = inputTensor[i]
        BY <1>2, <1>3, <1>4, <2>1, <4>1
      <4>4. QED  BY <4>2, <4>3
    <3>3. QED  BY <3>1, <3>2
  <2>8. CacheRead'
    <3>1. ASSUME NEW k \in 0 .. Overlap - 1, Overlap + k < s + 1
          PROVE  From(featureCache'[k], Base + Overlap + k)
      <4>1. CASE k = s - Overlap
        <5>1. featureCache'[k] = Window
          BY <1>1, <1>2, <1>3, <2>1, <3>1, <4>1
        <5>2. Base + Overlap + k = Reader
          BY <1>1, <1>2, <2>5, <4>1
        <5>3. QED  BY <2>2, <5>1, <5>2
      <4>2. CASE k # s - Overlap
        <5>1. Overlap + k < s
          BY <1>1, <1>2, <3>1, <4>2
        <5>2. From(featureCache[k], Base + Overlap + k)
          BY <1>2, <2>1, <5>1 DEF ReadInv, CacheRead, Inferring
        <5>3. featureCache'[k] = featureCache[k]
          BY <1>3, <2>1, <4>2
        <5>4. QED  BY <5>2, <5>3
      <4>3. QED  BY <4>1, <4>2
    <3>2. mlPc' \notin {"start", "poll", "cached"}
      BY <2>4
    <3>3. QED  BY <2>1, <2>5, <3>1, <3>2 DEF CacheRead
  <2>9. QED  BY <2>6, <2>7, <2>8 DEF ReadInv
<1>6. CASE FeatureReused
  <2>1. /\ mlPc = "cached"
        /\ inputTensor' = IF featureCache[s] = Moved THEN inputTensor
                          ELSE [inputTensor EXCEPT ![s] = featureCache[s]]
        /\ featureCache' = [featureCache EXCEPT ![s] = Moved]
        /\ stride_index' = s + 1
        /\ UNCHANGED <<captured, vsiPc, window, firstIteration, gap>>
    BY <1>2, <1>6 DEF FeatureReused, driverVars
  <2>2. UNCHANGED <<Reader, BlockRead, first_block, Filling>>
    BY <2>1, SameReader
  <2>3. useCache /\ s < Overlap
    BY <1>1, <1>2, <2>1 DEF ReadInv, Place, NeedsAudio, KeywordTypeOK
  <2>4. mlPc' = IF s + 1 < Overlap THEN "cached" ELSE "first"
    BY <1>1, <1>2, <1>6, <2>3 DEF FeatureReused, Continue, NeedsAudio
  <2>5. Base = Reader - Overlap /\ Base' = Base
    BY <1>1, <1>2, <2>1, <2>2, <2>3 DEF Base, useCache
  <2>6. Announced' /\ Apart' /\ Place'
    BY <1>1, <1>2, <2>1, <2>2, <2>3, <2>4
    DEF ReadInv, Announced, Apart, Place, Paused, NeedsAudio, useCache
  <2>7. ASSUME ~gap PROVE \A k \in s .. Overlap - 1 : From(featureCache[k], Base + k)
    BY <1>2, <2>1, <2>7 DEF ReadInv, CacheRead
  <2>8. TensorRead'
    <3> SUFFICES ASSUME NEW i \in FirstWhole .. s PROVE From(inputTensor'[i], Base + i)
      BY <1>1, <1>2, <2>1, <2>5 DEF TensorRead, FirstWhole, useCache
    <3>1. ~gap
      BY <1>1, <1>2, <1>4, <2>1, <2>3
    <3>2. CASE i = s
      <4>0. s \in s .. Overlap - 1
        BY <1>1, <1>2, <2>3
      <4>1. From(featureCache[s], Base + s)
        BY <2>7, <3>1, <4>0
      <4>2. featureCache[s] # Moved
        BY <4>1, RowNotMoved
      <4>3. QED  BY <1>2, <1>3, <2>1, <3>2, <4>1, <4>2
    <3>3. CASE i # s
      <4>1. i \in FirstWhole .. s - 1 /\ i # s
        BY <1>2, <1>4, <3>3
      <4>2. From(inputTensor[i], Base + i)
        BY <1>2, <2>1, <4>1 DEF ReadInv, TensorRead, Inferring
      <4>3. inputTensor'[i] = inputTensor[i]
        BY <1>2, <1>3, <1>4, <2>1, <4>1
      <4>4. QED  BY <4>2, <4>3
    <3>4. QED  BY <3>2, <3>3
  <2>9. CacheRead'
    <3>1. ASSUME ~gap, NEW k \in s + 1 .. Overlap - 1
          PROVE  From(featureCache'[k], Base + k)
      <4>1. k \in s .. Overlap - 1 /\ k # s /\ k \in 0 .. Overlap - 1
        BY <1>2
      <4>2. featureCache'[k] = featureCache[k]
        BY <1>3, <2>1, <4>1
      <4>3. QED  BY <2>7, <3>1, <4>1, <4>2
    <3>2. \A k \in 0 .. Overlap - 1 : ~(Overlap + k < s + 1)
      BY <1>1, <1>2, <2>3
    <3>3. mlPc' \notin {"start", "poll"}
      BY <2>4
    <3>4. QED  BY <2>1, <2>5, <3>1, <3>2, <3>3 DEF CacheRead
  <2>10. QED  BY <2>6, <2>8, <2>9 DEF ReadInv
<1>7. QED  BY <1>5, <1>6

\* Every step of the detector keeps what has been read in order.
LEMMA ReadNext == KeywordInv /\ ReadInv /\ [Next]_vars => ReadInv'
<1>1. KeywordInv => KeywordTypeOK
  BY DEF KeywordInv
<1>2. QED
  BY <1>1, HookReads, VsiReads, WaitReads, StartReads, FeatureReads DEF Next, MlTask

\* What an inference is computed from is audio without a hole, a repetition or a torn
\* block: the wrap of the ring, the two comparisons of CircularSlidingWindow::next and the
\* cache of features that prvProcessAudio moves from one inference to the next agree,
\* however the sizes of block, window and overlap are chosen within what the classes
\* assert, and wherever the recognition is stopped and started again.
THEOREM AudioIsContiguous == Spec => []WindowsContiguous
<1>1. KeywordInv /\ ReadInv => WindowsContiguous
  <2> SUFFICES ASSUME KeywordInv, ReadInv, mlPc = "infer"
               PROVE  IF useCache /\ gap THEN Contiguous(Overlap, Features - 1)
                                         ELSE Contiguous(0, Features - 1)
    BY DEF WindowsContiguous
  <2>1. KeywordTypeOK /\ Reader \in Nat /\ Overlap \in Nat \ {0} /\ Features = 2 * Overlap
        /\ stride_index = Features
    BY KeywordAssumption, ReaderType DEF Features, KeywordInv, ReadInv, Apart, Place
  <2>2. \A i \in FirstWhole .. Features - 1 : From(inputTensor[i], Base + i)
    BY <2>1 DEF ReadInv, TensorRead, Inferring
  <2>3. Base \in Int
    BY <2>1 DEF Base
  <2>4. FirstWhole \in Nat /\ FirstWhole <= Features - 1
    BY <2>1 DEF FirstWhole
  <2>5. \A i \in FirstWhole .. Features - 1 :
          /\ inputTensor[i] # Moved
          /\ \A j \in 0 .. WindowStrides - 1 : inputTensor[i][j] = Base + i + j /\ inputTensor[i][j] # Torn
    <3> SUFFICES ASSUME NEW i \in FirstWhole .. Features - 1
                 PROVE  /\ inputTensor[i] # Moved
                        /\ \A j \in 0 .. WindowStrides - 1 :
                             inputTensor[i][j] = Base + i + j /\ inputTensor[i][j] # Torn
      OBVIOUS
    <3>1. From(inputTensor[i], Base + i)
      BY <2>2
    <3>2. QED  BY <3>1, RowNotMoved DEF From, Torn
  <2>6. 0 \in 0 .. WindowStrides - 1
    BY KeywordAssumption
  <2>7. \A i \in FirstWhole .. Features - 1, j \in 0 .. WindowStrides - 1 :
          inputTensor[i][j] = inputTensor[FirstWhole][0] + (i - FirstWhole) + j
    BY <2>3, <2>4, <2>5, <2>6
  <2>8. Contiguous(FirstWhole, Features - 1)
    BY <2>5, <2>7 DEF Contiguous
  <2>9. QED  BY <2>8 DEF FirstWhole
<1>2. QED  BY <1>1, InitHolds, StepHolds, ReadInit, ReadNext, PTL DEF Spec
=============================================================================
