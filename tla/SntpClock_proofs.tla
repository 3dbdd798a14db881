---------------------------- MODULE SntpClock_proofs ----------------------------
(***************************************************************************)
(* Proofs about the wall clock, for every width of its counts, every       *)
(* interval, drift and number of retries: types, that a reader never mixes *)
(* two synchronisations, and when the back-off stops the device; and, with *)
(* the second and the poll interval of the build, how far off the clock    *)
(* may be.                                                                 *)
(***************************************************************************)
EXTENDS SntpClock, TLAPS

\* The mutex is with the task that is in its critical section; what a reader passed by
\* value is the clock's.
MutexHeld ==
  /\ mutex = "reader" <=> readPc = "compute"
  /\ mutex = "sntp" <=> sntpPc \in {"base", "tick"}
  /\ ReadsConsistent

\* While the back-off goes on, every retry is a rejection in a row.
RetriesCounted ==
  /\ backoff.mode => refused >= backoff.done
  /\ refused <= missed
  /\ StopsWhenRefused

ClockInv == ClockTypeOK /\ MutexHeld /\ RetriesCounted

-----------------------------------------------------------------------------
(***************************************************************************)
(* Arithmetic                                                              *)
(***************************************************************************)

LEMMA Modulo ==
  ASSUME NEW a \in Int, NEW n \in Nat \ {0}
  PROVE  a % n \in 0 .. n - 1
  OBVIOUS

LEMMA SecondsFit ==
  ASSUME NEW p \in 0 .. MaxBackoff
  PROVE  p * Second \in 0 .. MaxBackoff * Second
  BY ClockAssumption

LEMMA LongestDelay == MaxBackoff * Second \in Nat
  BY ClockAssumption

LEMMA DivisionIsInteger ==
  ASSUME NEW a \in Int, NEW b \in Nat \ {0}
  PROVE  Quotient(a, b) \in Int
<1>1. \A k \in Int : k \div b \in Int
  OBVIOUS
<1>2. QED  BY <1>1 DEF Quotient

LEMMA TimeIsInteger ==
  ASSUME ClockTypeOK
  PROVE  Error \in Int
<1> DEFINE ms == (tick - clock.lastSyncTickCount) % TickMod
<1>1. ms \in Nat
  <2>1. tick - clock.lastSyncTickCount \in Int  BY ClockAssumption DEF ClockTypeOK
  <2>2. ms \in 0 .. TickMod - 1  BY <2>1, Modulo, ClockAssumption
  <2>3. QED  BY <2>2, ClockAssumption
<1>2. ms \div Second \in Int
  BY <1>1, ClockAssumption
<1>3. clock.slewRate \in Int
  BY DEF ClockTypeOK
<1>4. clock.slewRate * (ms \div Second) \in Int
  BY <1>2, <1>3
<1>5. (ms + clock.slewRate * (ms \div Second)) % Wide \in Int
  <2>1. ms + clock.slewRate * (ms \div Second) \in Int  BY <1>1, <1>4
  <2>2. QED  BY <2>1, Modulo, ClockAssumption
<1>6. calculateCurrentTime(clock.lastSyncTickCount, clock.slewRate) \in Int
  BY <1>5, ClockAssumption DEF calculateCurrentTime, Signed
<1>7. QED  BY <1>6 DEF Error, ClockTypeOK

\* The longest delay never passes its limit.
LEMMA JitterBounded ==
  ASSUME NEW j \in 0 .. MaxBackoff
  PROVE  NextJitter(j) \in 0 .. MaxBackoff
  BY ClockAssumption DEF NextJitter

-----------------------------------------------------------------------------
(***************************************************************************)
(* The invariant                                                           *)
(***************************************************************************)

LEMMA InitHolds == ClockInit => ClockInv
  BY ClockAssumption
    DEF ClockInit, ClockInv, ClockTypeOK, MutexHeld, ReadsConsistent, RetriesCounted,
        StopsWhenRefused

LEMMA TimeStep == ASSUME ClockInv, Tick PROVE ClockInv'
<1> USE DEF ClockInv, ClockTypeOK, MutexHeld, ReadsConsistent, RetriesCounted, StopsWhenRefused,
            readVars
<1> DEFINE t == IF phase = Second - 1 THEN 1 + drift ELSE 1
<1>1. t \in Nat
  BY ClockAssumption
<1>2. tick' = (tick + t) % TickMod /\ wait' = IF wait > t THEN wait - t ELSE 0
  BY DEF Tick
<1>3. tick' \in 0 .. TickMod - 1
  <2>1. tick + t \in Int  BY <1>1, ClockAssumption
  <2>2. QED  BY <1>2, <2>1, Modulo, ClockAssumption
<1>4. phase' \in 0 .. Second - 1
  <2>1. phase + 1 \in Int  BY ClockAssumption
  <2>2. phase' = (phase + 1) % Second  BY DEF Tick
  <2>3. QED  BY <2>1, <2>2, Modulo, ClockAssumption
<1>5. since' \in Nat
  BY DEF Tick
<1>6. wait' \in 0 .. MaxBackoff * Second
  BY <1>1, <1>2, LongestDelay
<1>7. QED
  BY <1>3, <1>4, <1>5, <1>6 DEF Tick

LEMMA PollSteps ==
  ASSUME ClockInv, RequestSent \/ RequestFails \/ ResponseLost \/ PollDue
  PROVE  ClockInv'
<1> USE DEF ClockInv, ClockTypeOK, MutexHeld, ReadsConsistent, RetriesCounted, StopsWhenRefused,
            readVars, timeVars
<1>1. CASE RequestSent \/ RequestFails \/ PollDue
  BY <1>1 DEF RequestSent, RequestFails, PollDue
<1>2. CASE ResponseLost
  <2>1. wait' \in 0 .. MaxBackoff * Second
    BY <1>2, SecondsFit DEF ResponseLost
  <2>2. backoff' \in [mode : BOOLEAN, done : 0 .. MaxRetries, jitter : 0 .. MaxBackoff] /\ ~backoff'.mode
    BY <1>2 DEF ResponseLost
  <2>3. missed' \in 0 .. MaxMissed /\ refused' \in 0 .. MaxMissed /\ refused' <= missed'
    BY <1>2, ClockAssumption DEF ResponseLost
  <2>4. QED
    BY <1>2, <2>1, <2>2, <2>3 DEF ResponseLost, Running
<1>3. QED  BY <1>1, <1>2

LEMMA RejectedStep == ASSUME ClockInv, Rejected PROVE ClockInv'
<1> USE DEF ClockInv, ClockTypeOK, MutexHeld, ReadsConsistent, RetriesCounted, StopsWhenRefused,
            readVars, timeVars
<1> DEFINE b == BackoffContext
<1>1. /\ b \in [mode : BOOLEAN, done : 0 .. MaxRetries, jitter : 0 .. MaxBackoff]
      /\ b.mode /\ b.done <= refused
  BY ClockAssumption DEF BackoffContext, Restarted
<1>2. CASE b.done < MaxRetries
  <2>1. PICK p \in 0 .. b.jitter :
          /\ pollPeriod' = p /\ wait' = p * Second
          /\ backoff' = [b EXCEPT !.done = @ + 1, !.jitter = NextJitter(b.jitter)]
          /\ sntpPc' = "delay" /\ assertion' = assertion
    BY <1>2 DEF Rejected
  <2>2. p \in 0 .. MaxBackoff /\ wait' \in 0 .. MaxBackoff * Second
    BY <1>1, <2>1, SecondsFit, ClockAssumption
  <2>3. /\ backoff' \in [mode : BOOLEAN, done : 0 .. MaxRetries, jitter : 0 .. MaxBackoff]
        /\ backoff'.done = b.done + 1
    <3>1. b.done + 1 \in 0 .. MaxRetries
      BY <1>1, <1>2, ClockAssumption
    <3>2. NextJitter(b.jitter) \in 0 .. MaxBackoff
      BY <1>1, JitterBounded
    <3>3. QED  BY <1>1, <2>1, <3>1, <3>2
  <2>4. QED
    BY <1>1, <2>1, <2>2, <2>3, ClockAssumption DEF Rejected, Running
<1>3. CASE ~(b.done < MaxRetries)
  BY <1>1, <1>3, ClockAssumption DEF Rejected
<1>4. QED  BY <1>2, <1>3

LEMMA SetTimeSteps == ASSUME ClockInv, SetTime PROVE ClockInv'
<1> USE DEF ClockInv, ClockTypeOK, MutexHeld, ReadsConsistent, RetriesCounted, StopsWhenRefused,
            readVars, timeVars
<1>1. CASE SetTimeBegins
  BY <1>1 DEF SetTimeBegins
<1>2. CASE BaseAndRateSet
  <2>1. ASSUME ~(clock.firstTimeSyncDone /\ clock.slewRate = 0 /\ pollPeriod = 0)
        PROVE  slewRateOf(-Error) \in 0 .. Wide - 1
    <3>1. -Error \in Int
      BY TimeIsInteger
    <3>2. CASE clock.firstTimeSyncDone /\ clock.slewRate = 0
      <4>1. Quotient(-Error, pollPeriod) \in Int
        BY <2>1, <3>1, <3>2, DivisionIsInteger, ClockAssumption
      <4>2. QED  BY <3>2, <4>1, Modulo, ClockAssumption DEF slewRateOf
    <3>3. QED  BY <3>2 DEF slewRateOf
  <2>2. clock' \in [msecs : 0 .. Second - 1, lastSyncTickCount : 0 .. TickMod - 1,
                    slewRate : 0 .. Wide - 1, firstTimeSyncDone : BOOLEAN]
    BY <1>2, <2>1 DEF BaseAndRateSet
  <2>3. exact' \in BOOLEAN /\ assertion' \in {"none", "divide"}
    BY <1>2 DEF BaseAndRateSet, Running
  <2>4. QED
    BY <1>2, <2>2, <2>3 DEF BaseAndRateSet
<1>3. CASE SetTimeEnds
  <2>1. wait' \in 0 .. MaxBackoff * Second
    BY <1>3, SecondsFit DEF SetTimeEnds
  <2>2. backoff' \in [mode : BOOLEAN, done : 0 .. MaxRetries, jitter : 0 .. MaxBackoff] /\ ~backoff'.mode
    BY <1>3 DEF SetTimeEnds
  <2>3. missed' \in 0 .. MaxMissed /\ refused' \in 0 .. MaxMissed /\ refused' <= missed'
    BY <1>3, ClockAssumption DEF SetTimeEnds
  <2>4. clock' \in [msecs : 0 .. Second - 1, lastSyncTickCount : 0 .. TickMod - 1,
                    slewRate : 0 .. Wide - 1, firstTimeSyncDone : BOOLEAN]
    BY <1>3 DEF SetTimeEnds
  <2>5. QED
    BY <1>3, <2>1, <2>2, <2>3, <2>4 DEF SetTimeEnds, Running
<1>4. QED  BY <1>1, <1>2, <1>3 DEF SetTime

LEMMA ReaderSteps == ASSUME ClockInv, Reader PROVE ClockInv'
  BY ClockAssumption
    DEF Reader, ReadBegins, ReadEnds, ClockInv, ClockTypeOK, MutexHeld, ReadsConsistent,
        RetriesCounted, StopsWhenRefused, timeVars, pollVars

LEMMA StepHolds == ClockInv /\ [Next]_vars => ClockInv'
<1>1. ASSUME ClockInv, UNCHANGED vars PROVE ClockInv'
  BY <1>1
    DEF vars, timeVars, pollVars, readVars, ClockInv, ClockTypeOK, MutexHeld, ReadsConsistent,
        RetriesCounted, StopsWhenRefused
<1>2. QED
  BY <1>1, TimeStep, PollSteps, RejectedStep, SetTimeSteps, ReaderSteps DEF Next, SntpTask

LEMMA Invariant == Spec => []ClockInv
  BY InitHolds, StepHolds, PTL DEF Spec

\* The counts stay in their width, the poll period and the back-off in their limits.
THEOREM ClockTypesCorrect == Spec => []ClockTypeOK
<1>1. ClockInv => ClockTypeOK  BY DEF ClockInv
<1>2. QED  BY <1>1, Invariant, PTL

\* The mutex of sntpClient_SetTime and systemGetWallClockTime keeps the parts of the
\* clock together, although calculateCurrentTime gets some by value and reads others.
THEOREM ReadsAreConsistent == Spec => []ReadsConsistent
<1>1. ClockInv => ReadsConsistent  BY DEF ClockInv, MutexHeld
<1>2. QED  BY <1>1, Invariant, PTL

\* The assertion on exhausted retries needs one rejection more than the retries, and
\* none of them answered or lost in between.
THEOREM BackoffStopsLate == Spec => []StopsWhenRefused
<1>1. ClockInv => StopsWhenRefused  BY DEF ClockInv, RetriesCounted
<1>2. QED  BY <1>1, Invariant, PTL

-----------------------------------------------------------------------------
(***************************************************************************)
(* How far the clock is from the true time, with the constants of the      *)
(* build.  The runs count a few milliseconds in a second; here it has a    *)
(* thousand, and any delay up to the longest back-off may come.            *)
(*                                                                         *)
(* The clock is the ticks since the last synchronisation and the rate      *)
(* times their seconds.  The ticks differ from the true time by the drift  *)
(* of each second that ended, and the rate is what the drift and the       *)
(* forgotten milliseconds made of one poll period, so it is small.         *)
(***************************************************************************)

\* The poll interval of core_sntp_config.h, an oscillator that is wrong by one part in
\* a thousand at most, no more polls in a row without a response than the tick count
\* can measure, and the widths of the two counts, 2^32 and 2^64 in the code.
DeviceConstants ==
  /\ Second = 1000 /\ PollInterval = 16
  /\ Drifts \subseteq {-1, 0, 1}
  /\ (MaxMissed + 1) * (MaxBackoff * Second + 1) < TickMod
  /\ Wide >= 200 * TickMod

\* Seconds of a count of milliseconds, and what is left.
LEMMA SecondsOf ==
  ASSUME NEW x \in Nat
  PROVE  /\ x \div 1000 \in Nat /\ x % 1000 \in 0 .. 999
         /\ x = (1000 * (x \div 1000)) + (x % 1000)
  OBVIOUS

\* Sums and differences of variables, for steps in which these are not numbers to the provers.
LEMMA AMillisecond ==
  ASSUME NEW a \in Nat, NEW b \in Nat
  PROVE  a + b \in Nat /\ (a + b) + 1 = a + (b + 1)
  OBVIOUS

LEMMA Negated ==
  ASSUME NEW a \in Int, NEW b \in Int
  PROVE  -(a - b) = b - a
  OBVIOUS

\* A millisecond later it is the next second, or the same one.
LEMMA NextSecond ==
  ASSUME NEW x \in Nat
  PROVE  /\ x % 1000 = 999 => (x + 1) \div 1000 = (x \div 1000) + 1 /\ (x + 1) % 1000 = 0
         /\ x % 1000 # 999 => (x + 1) \div 1000 = x \div 1000 /\ (x + 1) % 1000 = (x % 1000) + 1
  OBVIOUS

\* A number and its remainder, for any width.
LEMMA Remainder ==
  ASSUME NEW M \in Nat \ {0}, NEW x \in Int
  PROVE  x = M * (x \div M) + (x % M) /\ x % M \in 0 .. M - 1 /\ x \div M \in Int
  OBVIOUS

\* Multiples of the width do not change a remainder.
LEMMA RemainderIs ==
  ASSUME NEW M \in Nat \ {0}, NEW q \in Int, NEW r \in 0 .. M - 1
  PROVE  (M * q + r) % M = r
  OBVIOUS

\* Numbers below the width, and those a width away from them, are their own remainder.
LEMMA SmallRemainder ==
  ASSUME NEW M \in Nat \ {0}, NEW x \in 0 .. M - 1
  PROVE  x % M = x /\ (x + M) % M = x /\ (x - M) % M = x
  OBVIOUS

\* The tick count after some ticks, and how many there were between two counts.
LEMMA TicksLater ==
  ASSUME NEW M \in Nat \ {0}, NEW a \in Int, NEW k \in Int
  PROVE  ((a % M) + k) % M = (a + k) % M
<1> DEFINE q == a \div M
           r == a % M
           p == (r + k) \div M
           s == (r + k) % M
<1>1. a = M * q + r /\ q \in Int /\ r \in 0 .. M - 1
  BY Remainder
<1>2. r + k = M * p + s /\ p \in Int /\ s \in 0 .. M - 1
  <2>1. r + k \in Int  BY <1>1
  <2>2. QED  BY <2>1, Remainder
<1> HIDE DEF q, r, p, s
<1>3. a + k = M * (q + p) + s
  BY <1>1, <1>2
<1>4. (a + k) % M = s
  <2>1. q + p \in Int  BY <1>1, <1>2
  <2>2. QED  BY <1>2, <1>3, <2>1, RemainderIs
<1>5. QED  BY <1>4 DEF r, s

\* The difference of two tick counts is the ticks between them, also across a wrap.
LEMMA TicksBetween ==
  ASSUME NEW M \in Nat \ {0}, NEW a \in 0 .. M - 1, NEW e \in 0 .. M - 1
  PROVE  (((a + e) % M) - a) % M = e
<1>1. ((a + e) % M) + (-a) \in Int /\ ((a + e) % M) - a = ((a + e) % M) + (-a)
  BY Remainder
<1>2. (((a + e) % M) + (-a)) % M = (a + e + (-a)) % M
  <2>1. a + e \in Int /\ -a \in Int
    OBVIOUS
  <2>2. QED  BY <2>1, TicksLater
<1>3. a + e + (-a) = e
  OBVIOUS
<1>4. QED  BY <1>1, <1>2, <1>3, SmallRemainder

\* A factor between two bounds.
LEMMA Between ==
  ASSUME NEW k \in Nat, NEW lo \in Int, NEW hi \in Int, NEW r \in Int, lo <= r, r <= hi
  PROVE  lo * k <= r * k /\ r * k <= hi * k /\ r * k \in Int
  OBVIOUS

\* The rates that one poll period can give: it forgets less than a second, and loses or
\* gains no more than a millisecond in each of its seconds.
Rates(d) == {r \in -1 .. 63 : /\ d = 1 => r <= 61
                              /\ d = 0 => r <= 62
                              /\ d # 1 => r >= 0}

\* A small rate, stored as an unsigned number, adds what it says.
LEMMA RateAdds ==
  ASSUME DeviceConstants, NEW d, NEW r \in Rates(d), NEW e \in 0 .. TickMod - 1, NEW k \in 0 .. e
  PROVE  Signed((e + ((r % Wide) * k)) % Wide) = e + (r * k)
<1>0. r \in -1 .. 63
  BY DEF Rates
<1>1. Wide \in Nat \ {0} /\ TickMod \in Nat \ {0} /\ Wide >= 200 * TickMod
  BY ClockAssumption DEF DeviceConstants
<1>2. e + (r * k) \in Nat /\ e + (r * k) < 100 * TickMod
  <2>1. k \in Nat /\ (-1) * k <= r * k /\ r * k <= 63 * k /\ r * k \in Int
    BY <1>0, Between
  <2>2. QED  BY <1>1, <2>1
<1>3. (e + ((r % Wide) * k)) % Wide = e + (r * k)
  <2>1. e + (r * k) \in 0 .. Wide - 1
    BY <1>1, <1>2
  <2>2. CASE r >= 0
    <3>1. r % Wide = r
      <4>1. r \in 0 .. Wide - 1  BY <1>0, <1>1, <2>2
      <4>2. QED  BY <1>1, <4>1, SmallRemainder
    <3>2. QED  BY <1>1, <2>1, <3>1, SmallRemainder
  <2>3. CASE r = -1
    <3>1. r % Wide = Wide - 1
      <4>1. Wide - 1 \in 0 .. Wide - 1 /\ (Wide - 1) - Wide = r  BY <1>1, <2>3
      <4>2. QED  BY <1>1, <4>1, SmallRemainder
    <3>2. e + ((Wide - 1) * k) = (Wide * k) + (e + (r * k))
      BY <1>1, <2>3
    <3>3. PICK y \in 0 .. Wide - 1 : y = e + (r * k)
      BY <2>1
    <3>4. ((Wide * k) + y) % Wide = y
      <4>1. k \in Int  BY <1>1
      <4>2. QED  BY <1>1, <4>1, RemainderIs
    <3>5. QED  BY <3>1, <3>2, <3>3, <3>4
  <2>4. QED  BY <1>0, <2>2, <2>3
<1>4. e + (r * k) < Wide \div 2
  <2>1. Wide \div 2 >= 100 * TickMod
    BY <1>1
  <2>2. Wide \div 2 \in Int
    BY <1>1
  <2>3. QED  BY <1>1, <1>2, <2>1, <2>2
<1>5. Wide \div 2 \in Int /\ e + (r * k) \in Int
  BY <1>1, <1>2
<1>6. QED
  BY <1>3, <1>4, <1>5 DEF Signed

\* The offset of one poll period, of which n seconds ended, divided by the period.
LEMMA RateIsSmall ==
  ASSUME DeviceConstants, NEW d \in Drifts, NEW m \in 0 .. Second - 1, NEW s \in Nat, NEW n,
         n = (m + s) \div Second, NEW p \in Nat, p >= PollInterval,
         s + (d * n) \in {p * Second, (p * Second) + 1}
  PROVE  Quotient(m - (d * n), p) \in Rates(d)
<1>0. /\ d \in {-1, 0, 1} /\ m \in 0 .. 999 /\ p >= 16 /\ n \in Nat
      /\ 1000 * n <= m + s /\ m + s <= (1000 * n) + 999
      /\ s + (d * n) >= 1000 * p /\ s + (d * n) <= (1000 * p) + 1
  <2>1. d \in {-1, 0, 1} /\ m \in 0 .. 999 /\ p >= 16
    BY DEF DeviceConstants
  <2>2. n \in Nat /\ 1000 * n <= m + s /\ m + s <= (1000 * n) + 999
    <3>1. m + s \in Nat /\ n = (m + s) \div 1000
      BY <2>1 DEF DeviceConstants
    <3>2. QED  BY <3>1, SecondsOf
  <2>3. p * Second = 1000 * p
    BY DEF DeviceConstants
  <2>4. QED  BY <2>1, <2>2, <2>3
<1>1. ASSUME NEW a \in Nat
      PROVE  a \div p \in Nat /\ p * (a \div p) <= a /\ \A b \in Nat : a \div p >= b => b * p <= a
  <2>1. p \in Nat \ {0} /\ a \div p \in Int /\ a = (p * (a \div p)) + (a % p) /\ a % p \in 0 .. p - 1
    <3>1. p \in Nat \ {0} /\ a \in Int  BY <1>0
    <3>2. QED  BY <3>1, Remainder
  <2>2. a \div p >= 0
    BY <1>0, <2>1
  <2>3. ASSUME NEW b \in Nat, a \div p >= b PROVE b * p <= a
    <3>1. b * p <= (a \div p) * p
      BY <2>1, <2>3, Between
    <3>2. QED  BY <2>1, <3>1
  <2>4. QED  BY <2>1, <2>2, <2>3
<1>2. CASE d = 0
  <2>1. m - (d * n) = m /\ Quotient(m, p) = m \div p
    BY <1>0, <1>2 DEF Quotient
  <2>2. m \div p \in Nat /\ (m \div p >= 63 => 63 * p <= m)
    BY <1>0, <1>1
  <2>3. QED  BY <1>0, <1>2, <2>1, <2>2 DEF Rates
<1>3. CASE d = -1
  <2>1. m - (d * n) = m + n /\ Quotient(m + n, p) = (m + n) \div p
    BY <1>0, <1>3 DEF Quotient
  <2>2. (m + n) \div p \in Nat /\ ((m + n) \div p >= 64 => 64 * p <= m + n)
    BY <1>0, <1>1
  <2>3. s - n <= (1000 * p) + 1
    BY <1>0, <1>3
  <2>4. (m + n) \div p <= 63
    <3>1. 999 * n <= m + (1000 * p) + 1
      BY <1>0, <2>3
    <3>2. m + n < 64 * p
      BY <1>0, <3>1
    <3>3. QED  BY <1>0, <2>2, <3>2
  <2>5. QED  BY <1>0, <1>3, <2>1, <2>2, <2>4 DEF Rates
<1>4. CASE d = 1
  <2>1. s + n >= 1000 * p /\ s + n <= (1000 * p) + 1
    BY <1>0, <1>4
  <2>2. CASE m >= n
    <3>1. m - (d * n) = m - n /\ Quotient(m - n, p) = (m - n) \div p
      BY <1>0, <1>4, <2>2 DEF Quotient
    <3>2. (m - n) \div p \in Nat /\ ((m - n) \div p >= 62 => 62 * p <= m - n)
      BY <1>0, <1>1, <2>2
    <3>3. (m - n) \div p <= 61
      BY <1>0, <2>1, <3>2
    <3>4. QED  BY <1>0, <1>4, <3>1, <3>2, <3>3 DEF Rates
  <2>3. CASE m < n
    <3>1. m - (d * n) = m - n /\ Quotient(m - n, p) = -((n - m) \div p)
      <4>1. m - (d * n) = m - n /\ -(m - n) = n - m /\ ~(m - n >= 0)
        BY <1>0, <1>4, <2>3
      <4>2. QED  BY <4>1 DEF Quotient
    <3>2. (n - m) \div p \in Nat /\ ((n - m) \div p >= 2 => 2 * p <= n - m)
      BY <1>0, <1>1, <2>3
    <3>3. n <= p
      BY <1>0, <2>1
    <3>4. (n - m) \div p <= 1
      BY <1>0, <3>2, <3>3
    <3>5. QED  BY <1>0, <1>4, <3>1, <3>2, <3>4 DEF Rates
  <2>4. QED  BY <1>0, <2>2, <2>3
<1>5. QED  BY <1>0, <1>2, <1>3, <1>4

\* The drift of n seconds and the rate of the k that the clock has counted.
LEMMA ErrorIsSmall ==
  ASSUME DeviceConstants, NEW d \in Drifts, NEW m \in 0 .. Second - 1, NEW s \in Nat, NEW n,
         n = (m + s) \div Second, NEW r \in Rates(d), NEW e, e = s + (d * n),
         NEW k, k = e \div Second
  PROVE  Magnitude(((e + (r * k)) - s) - m)
           <= Second + (s \div Second) * (Second \div PollInterval + 1)
<1> DEFINE S == s \div 1000
           z == ((e + (r * k)) - s) - m
<1>0. d \in {-1, 0, 1} /\ m \in 0 .. 999 /\ r \in -1 .. 63 /\ Second = 1000
  BY DEF DeviceConstants, Rates
<1>1. n \in Nat /\ 1000 * n <= m + s /\ m + s <= (1000 * n) + 999
  <2>1. m + s \in Nat /\ n = (m + s) \div 1000
    BY <1>0
  <2>2. QED  BY <2>1, SecondsOf
<1>2. e \in Nat
  BY <1>0, <1>1
<1>3. k \in Nat /\ 1000 * k <= e
  BY <1>0, <1>2, SecondsOf
<1>4. S \in Nat /\ 1000 * S <= s /\ s <= (1000 * S) + 999
  BY SecondsOf
<1>5. n >= S /\ n <= S + 1
  BY <1>0, <1>1, <1>4
<1>6. z = ((d * n) + (r * k)) - m /\ r * k \in Int
  BY <1>0, <1>1, <1>2, <1>3
<1>7. Second + (s \div Second) * (Second \div PollInterval + 1) = 1000 + (S * 63)
  BY <1>0, <1>4 DEF DeviceConstants
<1> HIDE DEF S, z
<1>8. z <= 1000 + (S * 63) /\ z >= -(1000 + (S * 63)) /\ z \in Int
  <2>1. CASE d = 1
    <3>1. (-1) * k <= r * k /\ r * k <= 61 * k
      BY <1>0, <1>3, <2>1, Between DEF Rates
    <3>2. d * n = n /\ e = s + n
      BY <1>1, <2>1
    <3>3. z <= 1000 + (S * 63)
      BY <1>0, <1>1, <1>3, <1>4, <1>5, <1>6, <3>1, <3>2
    <3>4. z >= -(1000 + (S * 63))
      BY <1>0, <1>1, <1>3, <1>4, <1>5, <1>6, <3>1, <3>2
    <3>5. QED  BY <1>0, <1>1, <1>6, <3>2, <3>3, <3>4
  <2>2. CASE d = 0
    <3>1. 0 * k <= r * k /\ r * k <= 62 * k
      BY <1>0, <1>3, <2>2, Between DEF Rates
    <3>2. d * n = 0 /\ e = s
      BY <1>1, <2>2
    <3>3. z <= 1000 + (S * 63)
      BY <1>0, <1>1, <1>3, <1>4, <1>5, <1>6, <3>1, <3>2
    <3>4. z >= -(1000 + (S * 63))
      BY <1>0, <1>1, <1>3, <1>4, <1>5, <1>6, <3>1, <3>2
    <3>5. QED  BY <1>0, <1>6, <3>2, <3>3, <3>4
  <2>3. CASE d = -1
    <3>1. 0 * k <= r * k /\ r * k <= 63 * k
      BY <1>0, <1>3, <2>3, Between DEF Rates
    <3>2. d * n = -n /\ e = s - n
      BY <1>1, <2>3
    <3>3. z <= 1000 + (S * 63)
      BY <1>0, <1>1, <1>3, <1>4, <1>5, <1>6, <3>1, <3>2
    <3>4. z >= -(1000 + (S * 63))
      BY <1>0, <1>1, <1>3, <1>4, <1>5, <1>6, <3>1, <3>2
    <3>5. QED  BY <1>0, <1>1, <1>6, <3>2, <3>3, <3>4
  <2>4. QED  BY <1>0, <2>1, <2>2, <2>3
<1>9. Magnitude(z) <= 1000 + (S * 63)
  BY <1>4, <1>8 DEF Magnitude
<1>10. QED  BY <1>7, <1>9 DEF z

\* Since the last response: the seconds that ended, and the ticks counted.
Ended == (clock.msecs + since) \div Second
Elapsed == since + (drift * Ended)

\* The clock is set, and not being set: its base time and its tick count belong together.
Synced == clock.firstTimeSyncDone /\ sntpPc # "tick"

\* The true time and the tick count follow from the base time.
TimeKept ==
  Synced => /\ phase = (clock.msecs + since) % Second
            /\ tick = (clock.lastSyncTickCount + Elapsed) % TickMod

Settled ==
  /\ sntpPc # "delay" => wait = 0
  /\ sntpPc = "tick" /\ Running => since = 0 /\ clock.msecs = phase
  /\ ~clock.firstTimeSyncDone => clock.slewRate = 0

\* The ticks never wrap round; of the first poll they are the poll period, or one more.
Measured ==
  Synced =>
    /\ Elapsed + wait <= (missed + 1) * (MaxBackoff * Second + 1)
    /\ wait > 0 => Elapsed + wait < (missed + 1) * (MaxBackoff * Second + 1)
    /\ missed = 0 => /\ Elapsed + wait \in {pollPeriod * Second, (pollPeriod * Second) + 1}
                     /\ wait > 0 => Elapsed + wait = pollPeriod * Second

\* The rate, if it was measured over one undisturbed poll period.
SmallRate == exact => \E r \in Rates(drift) : clock.slewRate = r % Wide

DriftInv == ClockInv /\ TimeKept /\ Settled /\ Measured /\ SmallRate

\* The milliseconds that have passed since the last whole second of the base time.
LEMMA TimeIsNatural ==
  ASSUME DeviceConstants, ClockTypeOK
  PROVE  clock.msecs \in Nat /\ since \in Nat /\ clock.msecs + since \in Nat
<1>1. clock.msecs \in Nat /\ since \in Nat
  BY DEF DeviceConstants, ClockTypeOK
<1>2. QED  BY <1>1

\* What the types say of these with the constants of the build.
LEMMA TimeFacts ==
  ASSUME DeviceConstants, ClockTypeOK
  PROVE  /\ drift \in {-1, 0, 1} /\ clock.msecs \in 0 .. 999 /\ since \in Nat /\ Ended \in Nat
         /\ 1000 * Ended <= clock.msecs + since /\ clock.msecs + since <= (1000 * Ended) + 999
         /\ Elapsed \in Nat
<1>1. drift \in {-1, 0, 1} /\ clock.msecs \in 0 .. 999 /\ since \in Nat
  BY DEF DeviceConstants, ClockTypeOK
<1>2. /\ Ended \in Nat /\ 1000 * Ended <= clock.msecs + since
      /\ clock.msecs + since <= (1000 * Ended) + 999
  <2>1. Ended = (clock.msecs + since) \div 1000
    BY DEF Ended, DeviceConstants
  <2>2. clock.msecs + since \in Nat
    BY TimeIsNatural
  <2> DEFINE x == clock.msecs + since
  <2>3. x \in Nat /\ Ended = x \div 1000
    BY <2>1, <2>2
  <2> HIDE DEF x
  <2>4. Ended \in Nat /\ x % 1000 \in 0 .. 999 /\ x = (1000 * Ended) + (x % 1000)
    BY <2>3, SecondsOf
  <2>5. Ended \in Nat /\ 1000 * Ended <= x /\ x <= (1000 * Ended) + 999
    BY <2>3, <2>4
  <2>6. QED  BY <2>5 DEF x
<1>3. Elapsed \in Nat
  <2>1. CASE drift = -1
    BY <1>1, <1>2, <2>1 DEF Elapsed
  <2>2. CASE drift \in {0, 1}
    BY <1>1, <1>2, <2>2 DEF Elapsed
  <2>3. QED  BY <1>1, <2>1, <2>2
<1>4. QED  BY <1>1, <1>2, <1>3

\* The ticks since the last response are those between the two tick counts.
LEMMA ElapsedFits ==
  ASSUME DeviceConstants, DriftInv, Synced
  PROVE  /\ Elapsed \in 0 .. TickMod - 1
         /\ (tick - clock.lastSyncTickCount) % TickMod = Elapsed
<1> USE DEF DriftInv, ClockInv
<1>1. Elapsed \in Nat
  BY TimeFacts
<1>2. TickMod \in Nat \ {0} /\ clock.lastSyncTickCount \in 0 .. TickMod - 1
  BY ClockAssumption DEF ClockTypeOK
<1>3. (missed + 1) * (MaxBackoff * Second + 1) <= (MaxMissed + 1) * (MaxBackoff * Second + 1)
  <2>1. MaxBackoff * Second + 1 \in Nat
    BY LongestDelay
  <2>2. missed + 1 \in Int /\ MaxMissed + 1 \in Int /\ missed + 1 <= MaxMissed + 1 /\ 0 <= missed + 1
    BY ClockAssumption DEF ClockTypeOK
  <2>3. QED  BY <2>1, <2>2, Between
<1>4. Elapsed + wait <= (missed + 1) * (MaxBackoff * Second + 1) /\ wait \in Nat
  BY LongestDelay DEF Measured, ClockTypeOK
<1>5. /\ (missed + 1) * (MaxBackoff * Second + 1) \in Int
      /\ (MaxMissed + 1) * (MaxBackoff * Second + 1) \in Int
      /\ (MaxMissed + 1) * (MaxBackoff * Second + 1) < TickMod
  BY LongestDelay, ClockAssumption DEF ClockTypeOK, DeviceConstants
<1>6. Elapsed \in 0 .. TickMod - 1
  BY <1>1, <1>2, <1>3, <1>4, <1>5
<1>7. tick = (clock.lastSyncTickCount + Elapsed) % TickMod
  BY DEF TimeKept
<1>8. QED  BY <1>2, <1>6, <1>7, TicksBetween

\* The clock counts the ticks since the last response while it has no rate.
LEMMA OffsetIs ==
  ASSUME DeviceConstants, DriftInv, Synced, clock.slewRate = 0
  PROVE  Error = (drift * Ended) - clock.msecs
<1> USE DEF DriftInv, ClockInv
<1>1. Elapsed \in 0 .. TickMod - 1 /\ (tick - clock.lastSyncTickCount) % TickMod = Elapsed
  BY ElapsedFits
<1>2. Elapsed \div Second \in 0 .. Elapsed
  <2>1. Elapsed \in Nat /\ Second = 1000
    BY <1>1, ClockAssumption DEF DeviceConstants
  <2>2. QED  BY <2>1, SecondsOf
<1>3. Signed((Elapsed + ((0 % Wide) * (Elapsed \div Second))) % Wide) = Elapsed + (0 * (Elapsed \div Second))
  <2>1. 0 \in Rates(0)
    BY DEF Rates
  <2>2. QED  BY <1>1, <1>2, <2>1, RateAdds
<1>4. 0 % Wide = 0
  <2>1. Wide \in Nat \ {0} /\ 0 \in 0 .. Wide - 1  BY ClockAssumption
  <2>2. QED  BY <2>1, SmallRemainder
<1>5. calculateCurrentTime(clock.lastSyncTickCount, clock.slewRate) = Elapsed
  BY <1>1, <1>2, <1>3, <1>4 DEF calculateCurrentTime
<1>6. QED
  BY <1>5, TimeFacts DEF Error, Elapsed

\* The invariant bounds the error as ClockAccurate says.
LEMMA DriftImplies ==
  ASSUME DeviceConstants, DriftInv
  PROVE  ClockAccurate
<1> USE DEF DriftInv, ClockInv
<1> SUFFICES ASSUME clock.firstTimeSyncDone, exact, sntpPc \in {"delay", "poll", "receive"}
             PROVE  Magnitude(Error) <= Second + (since \div Second) * (Second \div PollInterval + 1)
  BY DEF ClockAccurate
<1>1. Synced
  BY DEF Synced
<1>2. PICK r \in Rates(drift) : clock.slewRate = r % Wide
  BY DEF SmallRate
<1>3. Elapsed \in 0 .. TickMod - 1 /\ (tick - clock.lastSyncTickCount) % TickMod = Elapsed
  BY <1>1, ElapsedFits
<1>4. PICK k \in 0 .. Elapsed : k = Elapsed \div Second
  <2>1. Elapsed \in Nat /\ Second = 1000
    BY <1>3, ClockAssumption DEF DeviceConstants
  <2>2. Elapsed \div Second \in 0 .. Elapsed
    BY <2>1, SecondsOf
  <2>3. QED  BY <2>2
<1>5. Signed((Elapsed + ((r % Wide) * k)) % Wide) = Elapsed + (r * k)
  BY <1>2, <1>3, <1>4, RateAdds
<1>6. calculateCurrentTime(clock.lastSyncTickCount, clock.slewRate)
        = Signed((Elapsed + ((r % Wide) * k)) % Wide)
  BY <1>2, <1>3, <1>4 DEF calculateCurrentTime
<1>7. Error = ((Elapsed + (r * k)) - since) - clock.msecs
  BY <1>5, <1>6 DEF Error
<1>8. drift \in Drifts /\ clock.msecs \in 0 .. Second - 1 /\ since \in Nat
  BY DEF ClockTypeOK
<1>9. Elapsed = since + (drift * Ended) /\ Ended = (clock.msecs + since) \div Second
  BY DEF Elapsed, Ended
<1>10. Magnitude(((Elapsed + (r * k)) - since) - clock.msecs)
         <= Second + (since \div Second) * (Second \div PollInterval + 1)
  BY <1>2, <1>4, <1>8, <1>9, ErrorIsSmall
<1>11. QED  BY <1>7, <1>10

\* The clock has not been set at the start, and its rate is zero.
LEMMA InitDrift == ClockInit => TimeKept /\ Settled /\ Measured /\ SmallRate
<1> SUFFICES ASSUME ClockInit PROVE TimeKept /\ Settled /\ Measured /\ SmallRate
  OBVIOUS
<1>1. 0 % Wide = 0
  <2>1. Wide \in Nat \ {0} /\ 0 \in 0 .. Wide - 1  BY ClockAssumption
  <2>2. QED  BY <2>1, SmallRemainder
<1>2. 0 \in Rates(drift)
  BY DEF Rates
<1>3. SmallRate
  BY <1>1, <1>2 DEF ClockInit, SmallRate
<1>4. QED
  BY <1>3 DEF ClockInit, TimeKept, Settled, Measured, Synced

\* Only the step of a reader or the poll: the clock and its times stay.
LEMMA QuietDrift ==
  ASSUME DriftInv, UNCHANGED <<timeVars, clock, pollPeriod, wait, missed, exact>>,
         (sntpPc' # "tick" /\ sntpPc # "tick") \/ (sntpPc' = sntpPc /\ assertion' = assertion),
         sntpPc' # "delay" => wait = 0
  PROVE  (TimeKept /\ Settled /\ Measured /\ SmallRate)'
<1>1. Ended' = Ended /\ Elapsed' = Elapsed /\ (Synced' <=> Synced)
  BY DEF Ended, Elapsed, Synced, timeVars
<1>2. TimeKept' /\ Measured'
  BY <1>1 DEF DriftInv, TimeKept, Measured, timeVars
<1>3. Settled'
  BY DEF DriftInv, Settled, Running, timeVars
<1>4. SmallRate'
  BY DEF DriftInv, SmallRate, timeVars
<1>5. QED  BY <1>2, <1>3, <1>4

\* A millisecond: a second may end, and the oscillator has gained or lost by then.
LEMMA TickDrift ==
  ASSUME DeviceConstants, DriftInv, Tick
  PROVE  (TimeKept /\ Settled /\ Measured /\ SmallRate)'
<1> USE DEF DriftInv, ClockInv
<1>1. sntpPc = "delay" /\ wait > 0 /\ UNCHANGED <<drift, clock, pollPeriod, sntpPc, missed, exact>>
  BY DEF Tick
<1>2. SmallRate' /\ Settled'
  BY <1>1 DEF SmallRate, Settled
<1>3. CASE ~clock.firstTimeSyncDone
  BY <1>1, <1>2, <1>3 DEF TimeKept, Measured, Synced
<1>4. CASE clock.firstTimeSyncDone
  <2> DEFINE t == IF phase = Second - 1 THEN 1 + drift ELSE 1
  <2>1. Synced
    BY <1>1, <1>4 DEF Synced
  <2>2. /\ since' = since + 1
        /\ phase' = (phase + 1) % 1000
        /\ tick' = (tick + t) % TickMod
        /\ wait' = IF wait > t THEN wait - t ELSE 0
    BY <1>4 DEF Tick, DeviceConstants
  <2>3. t \in 0 .. 2
    BY TimeFacts
  <2>4. /\ clock.msecs + since \in Nat /\ (clock.msecs + since) + 1 = clock.msecs + since'
        /\ Ended = (clock.msecs + since) \div 1000 /\ Ended' = (clock.msecs + since') \div 1000
        /\ phase = (clock.msecs + since) % 1000
    <3>1. clock.msecs \in 0 .. 999 /\ since \in Nat /\ Second = 1000
      BY TimeFacts DEF DeviceConstants
    <3>2. clock' = clock /\ since' = since + 1
      BY <1>1, <2>2
    <3>3. Ended = (clock.msecs + since) \div 1000 /\ Ended' = (clock.msecs + since') \div 1000
      BY <3>1, <3>2 DEF Ended
    <3>4. phase = (clock.msecs + since) % 1000
      BY <2>1, <3>1 DEF TimeKept
    <3>5. clock.msecs + since \in Nat /\ (clock.msecs + since) + 1 = clock.msecs + since'
      <4>1. clock.msecs \in Nat /\ since \in Nat
        BY TimeIsNatural DEF DriftInv, ClockInv
      <4>2. QED  BY <3>2, <4>1, AMillisecond
    <3>6. QED  BY <3>3, <3>4, <3>5
  <2>5. /\ phase = 999 => Ended' = Ended + 1 /\ (clock.msecs + since') % 1000 = 0
        /\ phase # 999 => Ended' = Ended /\ (clock.msecs + since') % 1000 = phase + 1
    <3>1. PICK x \in Nat : x = clock.msecs + since
      BY <2>4
    <3>2. /\ x % 1000 = 999 => (x + 1) \div 1000 = (x \div 1000) + 1 /\ (x + 1) % 1000 = 0
          /\ x % 1000 # 999 => (x + 1) \div 1000 = x \div 1000 /\ (x + 1) % 1000 = (x % 1000) + 1
      BY NextSecond
    <3>3. QED  BY <2>4, <3>1, <3>2
  <2>6. phase \in 0 .. 999 /\ Second = 1000
    BY DEF ClockTypeOK, DeviceConstants
  <2>7. phase' = (clock.msecs + since') % 1000
    BY <2>2, <2>5, <2>6
  <2>8. Elapsed' = Elapsed + t
    <3>1. since \in Nat /\ Ended \in Nat /\ drift \in {-1, 0, 1}
      BY TimeFacts
    <3>2. Elapsed' = (since + 1) + (drift * Ended') /\ Elapsed = since + (drift * Ended)
      BY <1>1, <2>2 DEF Elapsed
    <3>3. CASE phase = 999
      <4>1. drift * Ended' = (drift * Ended) + drift
        BY <2>5, <3>1, <3>3
      <4>2. QED  BY <2>6, <3>1, <3>2, <3>3, <4>1
    <3>4. CASE phase # 999
      BY <2>5, <2>6, <3>1, <3>2, <3>4
    <3>5. QED  BY <3>3, <3>4
  <2>9. Elapsed \in Nat /\ wait \in Nat /\ TickMod \in Nat \ {0} /\ clock.lastSyncTickCount \in Nat
    BY TimeFacts, LongestDelay, ClockAssumption DEF ClockTypeOK
  <2> HIDE DEF t
  <2>10. tick' = (clock.lastSyncTickCount + Elapsed') % TickMod
    <3>1. tick = (clock.lastSyncTickCount + Elapsed) % TickMod
      BY <2>1 DEF TimeKept
    <3>2. clock.lastSyncTickCount + Elapsed \in Int /\ t \in Int
      BY <2>3, <2>9
    <3>3. tick' = ((clock.lastSyncTickCount + Elapsed) + t) % TickMod
      BY <2>2, <2>9, <3>1, <3>2, TicksLater
    <3>4. (clock.lastSyncTickCount + Elapsed) + t = clock.lastSyncTickCount + Elapsed'
      BY <2>3, <2>8, <2>9
    <3>5. QED  BY <3>3, <3>4
  <2>11. TimeKept'
    BY <1>1, <2>6, <2>7, <2>10 DEF TimeKept
  <2>12. /\ Elapsed' + wait' = Elapsed + wait \/ (wait' = 0 /\ Elapsed' + wait' = (Elapsed + wait) + 1)
         /\ Elapsed + wait \in Int
    BY <1>1, <2>2, <2>3, <2>8, <2>9
  <2>13. Measured'
    <3>1. /\ Elapsed + wait < (missed + 1) * (MaxBackoff * Second + 1)
          /\ missed = 0 => Elapsed + wait = pollPeriod * Second
          /\ (missed + 1) * (MaxBackoff * Second + 1) \in Int /\ pollPeriod * Second \in Int
      BY <1>1, <2>1, LongestDelay, ClockAssumption DEF Measured, ClockTypeOK
    <3>2. /\ Elapsed' + wait' <= (missed + 1) * (MaxBackoff * Second + 1)
          /\ wait' > 0 => Elapsed' + wait' < (missed + 1) * (MaxBackoff * Second + 1)
      BY <2>12, <3>1
    <3>3. missed = 0 => /\ Elapsed' + wait' \in {pollPeriod * Second, (pollPeriod * Second) + 1}
                        /\ wait' > 0 => Elapsed' + wait' = pollPeriod * Second
      BY <2>12, <3>1
    <3>4. QED  BY <1>1, <3>2, <3>3 DEF Measured
  <2>14. QED  BY <1>2, <2>11, <2>13
<1>5. QED  BY <1>3, <1>4

\* A poll without a response: another delay, no longer than the longest, begins.
LEMMA MissedDrift ==
  ASSUME DeviceConstants, DriftInv, ResponseLost \/ Rejected
  PROVE  (TimeKept /\ Settled /\ Measured /\ SmallRate)'
<1> USE DEF DriftInv, ClockInv
<1>1. /\ sntpPc = "receive" /\ wait = 0 /\ missed' = missed + 1
      /\ UNCHANGED <<timeVars, clock, exact>>
  BY DEF ResponseLost, Rejected, Settled
<1>2. /\ sntpPc' \in {"delay", "receive"}
      /\ wait' \in 0 .. MaxBackoff * Second
      /\ sntpPc' = "receive" => wait' = wait
  <2>1. CASE ResponseLost
    BY <2>1, SecondsFit DEF ResponseLost, ClockTypeOK
  <2>2. CASE Rejected
    <3>1. BackoffContext.jitter \in 0 .. MaxBackoff
      BY ClockAssumption DEF BackoffContext, Restarted, ClockTypeOK
    <3>2. CASE BackoffContext.done < MaxRetries
      <4>1. PICK p \in 0 .. BackoffContext.jitter : wait' = p * Second /\ sntpPc' = "delay"
        BY <2>2, <3>2 DEF Rejected
      <4>2. p \in 0 .. MaxBackoff
        BY <3>1, <4>1, ClockAssumption
      <4>3. QED  BY <4>1, <4>2, SecondsFit
    <3>3. CASE ~(BackoffContext.done < MaxRetries)
      <4>1. wait' = wait /\ sntpPc' = sntpPc
        BY <2>2, <3>3 DEF Rejected
      <4>2. QED  BY <1>1, <4>1, LongestDelay
    <3>4. QED  BY <3>2, <3>3
  <2>3. QED  BY <2>1, <2>2
<1>3. Ended' = Ended /\ Elapsed' = Elapsed /\ (Synced' <=> Synced)
  BY <1>1, <1>2 DEF Ended, Elapsed, Synced, timeVars
<1>4. TimeKept'
  BY <1>1, <1>3 DEF TimeKept, timeVars
<1>5. Settled'
  BY <1>1, <1>2 DEF Settled
<1>6. SmallRate'
  BY <1>1 DEF SmallRate, timeVars
<1>7. Measured'
  <2> SUFFICES ASSUME Synced
               PROVE  /\ Elapsed' + wait' <= (missed' + 1) * (MaxBackoff * Second + 1)
                      /\ wait' > 0 => Elapsed' + wait' < (missed' + 1) * (MaxBackoff * Second + 1)
                      /\ missed' # 0
    BY <1>3 DEF Measured
  <2> DEFINE L == MaxBackoff * Second + 1
  <2>1. L \in Nat /\ wait' \in Nat /\ wait' < L
    BY <1>2, LongestDelay
  <2>2. missed \in Nat /\ Elapsed \in Nat
    BY TimeFacts, ClockAssumption DEF ClockTypeOK
  <2>3. Elapsed <= (missed + 1) * L
    BY <1>1, <2>2 DEF Measured
  <2> HIDE DEF L
  <2>4. (missed' + 1) * L = ((missed + 1) * L) + L /\ (missed + 1) * L \in Int
    BY <1>1, <2>1, <2>2
  <2>5. Elapsed' + wait' < (missed' + 1) * L
    BY <1>3, <2>1, <2>2, <2>3, <2>4
  <2>6. missed' # 0
    BY <1>1, <2>2
  <2>7. Elapsed' + wait' \in Int /\ (missed' + 1) * L \in Int
    BY <1>3, <2>1, <2>2, <2>4
  <2>8. QED  BY <2>5, <2>6, <2>7 DEF L
<1>8. QED  BY <1>4, <1>5, <1>6, <1>7

\* The base time and the rate: the offset is that of one poll period exactly when
\* the rate counts as measured.
LEMMA BaseDrift ==
  ASSUME DeviceConstants, DriftInv, BaseAndRateSet
  PROVE  (TimeKept /\ Settled /\ Measured /\ SmallRate)'
<1> USE DEF DriftInv, ClockInv
<1>1. /\ sntpPc = "base" /\ sntpPc' = "tick" /\ wait = 0 /\ wait' = 0
      /\ since' = 0 /\ drift' = drift /\ phase' = phase
  BY DEF BaseAndRateSet, Settled
<1>2. TimeKept' /\ Measured'
  BY <1>1 DEF TimeKept, Measured, Synced
<1>3. Settled'
  <2>1. Running' => clock'.msecs = phase'
    BY <1>1 DEF BaseAndRateSet, Running, ClockTypeOK
  <2>2. ~clock'.firstTimeSyncDone => clock'.slewRate = 0
    BY DEF BaseAndRateSet, Settled, ClockTypeOK
  <2>3. QED  BY <1>1, <2>1, <2>2 DEF Settled
<1>4. CASE clock'.slewRate = clock.slewRate /\ exact' = exact
  BY <1>1, <1>2, <1>3, <1>4 DEF SmallRate
<1>5. CASE ~(clock'.slewRate = clock.slewRate /\ exact' = exact)
  <2>1. /\ clock.firstTimeSyncDone /\ clock.slewRate = 0
        /\ clock'.slewRate = slewRateOf(-Error)
        /\ exact' = (missed = 0 /\ pollPeriod >= PollInterval)
    BY <1>5 DEF BaseAndRateSet, slewRateOf, ClockTypeOK
  <2>2. SUFFICES ASSUME missed = 0, pollPeriod >= PollInterval
                 PROVE  \E r \in Rates(drift) : clock'.slewRate = r % Wide
    BY <1>1, <1>2, <1>3, <2>1 DEF SmallRate
  <2>3. Synced
    BY <1>1, <2>1 DEF Synced
  <2>4. clock'.slewRate = Quotient(-Error, pollPeriod) % Wide
    BY <2>1 DEF slewRateOf
  <2>5. -Error = clock.msecs - (drift * Ended)
    <3>1. Error = (drift * Ended) - clock.msecs
      BY <2>1, <2>3, OffsetIs
    <3>2. drift * Ended \in Int /\ clock.msecs \in Int
      BY TimeFacts
    <3>3. QED  BY <3>1, <3>2, Negated
  <2>6. since + (drift * Ended) \in {pollPeriod * Second, (pollPeriod * Second) + 1}
    <3>1. Elapsed + wait \in {pollPeriod * Second, (pollPeriod * Second) + 1} /\ Elapsed \in Nat
      BY <2>2, <2>3, TimeFacts DEF Measured
    <3>2. QED  BY <1>1, <3>1 DEF Elapsed
  <2>7. /\ drift \in Drifts /\ clock.msecs \in 0 .. Second - 1 /\ since \in Nat
        /\ pollPeriod \in Nat /\ Ended = (clock.msecs + since) \div Second
    BY DEF ClockTypeOK, Ended
  <2>8. Quotient(clock.msecs - (drift * Ended), pollPeriod) \in Rates(drift)
    BY <2>2, <2>6, <2>7, RateIsSmall
  <2>9. QED  BY <2>4, <2>5, <2>8
<1>6. QED  BY <1>4, <1>5

\* The tick count is stored in the millisecond of the base time, and the delay begins.
LEMMA TickStoredDrift ==
  ASSUME DeviceConstants, DriftInv, SetTimeEnds
  PROVE  (TimeKept /\ Settled /\ Measured /\ SmallRate)'
<1> USE DEF DriftInv, ClockInv
<1>1. /\ sntpPc = "tick" /\ sntpPc' = "delay" /\ since = 0 /\ clock.msecs = phase
      /\ missed' = 0 /\ wait' = pollPeriod * Second
      /\ UNCHANGED <<timeVars, pollPeriod, exact>>
  BY DEF SetTimeEnds, Settled
<1>2. clock' = [clock EXCEPT !.lastSyncTickCount = tick]
  BY DEF SetTimeEnds
<1>3. /\ clock'.msecs = clock.msecs /\ clock'.slewRate = clock.slewRate
      /\ clock'.firstTimeSyncDone = clock.firstTimeSyncDone /\ clock'.lastSyncTickCount = tick
  BY <1>2 DEF ClockTypeOK
<1>4. phase \in 0 .. 999 /\ Second = 1000 /\ drift \in Int /\ TickMod \in Nat \ {0} /\ tick \in 0 .. TickMod - 1
  BY ClockAssumption DEF ClockTypeOK, DeviceConstants
<1>5. phase' = (clock'.msecs + since') % Second /\ Ended' = 0 /\ Elapsed' = 0
  <2>1. clock'.msecs + since' = phase
    BY <1>1, <1>3, <1>4 DEF timeVars
  <2>2. phase % 1000 = phase /\ phase \div 1000 = 0
    BY <1>4
  <2>3. phase' = (clock'.msecs + since') % Second /\ Ended' = 0
    BY <1>1, <1>4, <2>1, <2>2 DEF Ended, timeVars
  <2>4. Elapsed' = 0
    BY <1>1, <1>4, <2>3 DEF Elapsed, timeVars
  <2>5. QED  BY <2>3, <2>4
<1>6. TimeKept'
  <2>1. (tick + 0) % TickMod = tick
    BY <1>4, SmallRemainder
  <2>2. tick' = (clock'.lastSyncTickCount + Elapsed') % TickMod
    BY <1>1, <1>3, <1>5, <2>1 DEF timeVars
  <2>3. QED  BY <1>5, <2>2 DEF TimeKept
<1>7. Settled'
  BY <1>1, <1>3 DEF Settled
<1>8. SmallRate'
  BY <1>1, <1>3 DEF SmallRate, timeVars
<1>9. Measured'
  <2>1. wait' \in 0 .. MaxBackoff * Second /\ MaxBackoff * Second \in Nat
    BY <1>1, SecondsFit, LongestDelay DEF ClockTypeOK
  <2>2. (missed' + 1) * (MaxBackoff * Second + 1) = MaxBackoff * Second + 1
    BY <1>1, <2>1
  <2>3. Elapsed' + wait' = wait'
    <3>1. \A w \in Nat : 0 + w = w
      OBVIOUS
    <3>2. wait' \in Nat
      BY <2>1
    <3>3. QED  BY <1>5, <3>1, <3>2, Zenon
  <2>4. wait' < MaxBackoff * Second + 1
    BY <2>1
  <2>5. pollPeriod' * Second = wait'
    BY <1>1
  <2>6. QED  BY <2>1, <2>2, <2>3, <2>4, <2>5 DEF Measured
<1>10. QED  BY <1>6, <1>7, <1>8, <1>9

\* Every step keeps what is known of the drift, with the build's constants.
LEMMA StepDrift ==
  ASSUME DeviceConstants
  PROVE  DriftInv /\ [Next]_vars => (TimeKept /\ Settled /\ Measured /\ SmallRate)'
<1> SUFFICES ASSUME DriftInv, [Next]_vars PROVE (TimeKept /\ Settled /\ Measured /\ SmallRate)'
  OBVIOUS
<1>1. CASE RequestSent \/ RequestFails \/ PollDue \/ SetTimeBegins \/ Reader \/ UNCHANGED vars
  <2>1. UNCHANGED <<timeVars, clock, pollPeriod, wait, missed, exact>>
    BY <1>1 DEF RequestSent, RequestFails, PollDue, SetTimeBegins, Reader, ReadBegins, ReadEnds,
                vars, pollVars
  <2>2. (sntpPc' # "tick" /\ sntpPc # "tick") \/ (sntpPc' = sntpPc /\ assertion' = assertion)
    <3>1. CASE RequestSent \/ RequestFails \/ PollDue \/ SetTimeBegins
      BY <3>1 DEF RequestSent, RequestFails, PollDue, SetTimeBegins
    <3>2. CASE Reader \/ UNCHANGED vars
      BY <3>2 DEF Reader, ReadBegins, ReadEnds, vars, pollVars
    <3>3. QED  BY <1>1, <3>1, <3>2
  <2>3. sntpPc' # "delay" => wait = 0
    BY <1>1 DEF RequestSent, RequestFails, PollDue, SetTimeBegins, Reader, ReadBegins, ReadEnds,
                vars, pollVars, DriftInv, Settled
  <2>4. QED  BY <2>1, <2>2, <2>3, QuietDrift
<1>2. QED
  BY <1>1, TickDrift, MissedDrift, BaseDrift, TickStoredDrift DEF Next, SntpTask, SetTime

\* With the constants of the build the clock is within a second of the true time after a
\* synchronisation, and no second adds more than 63 milliseconds, as long as the rate was
\* measured over a whole poll period: at any drift of a part in a thousand, after up to
\* as many polls without a response as the tick count can measure, also when it wraps.
THEOREM ClockIsAccurate ==
  ASSUME DeviceConstants
  PROVE  Spec => []ClockAccurate
<1>1. ClockInit => DriftInv
  BY InitHolds, InitDrift DEF DriftInv
<1>2. DriftInv /\ [Next]_vars => DriftInv'
  BY StepHolds, StepDrift DEF DriftInv
<1>3. DriftInv => ClockAccurate
  BY DriftImplies
<1>4. QED  BY <1>1, <1>2, <1>3, PTL DEF Spec
=============================================================================
