------------------------------ MODULE SntpClock ------------------------------
(***************************************************************************)
(* The wall clock of the device advisor build: the SNTP client polls a     *)
(* time server, steps the clock at each response and derives a slew rate   *)
(* from the second one; mbedTLS reads the clock from the agent's task.     *)
(*                                                                         *)
(* Time is counted in milliseconds, of which a second has a few, and a     *)
(* tick is a millisecond, as in the build.  What matters is how far the    *)
(* clock is from the true time, so times are relative to the last          *)
(* synchronisation.  A response takes no time, and a poll that is not      *)
(* answered no more than one that is.                                      *)
(***************************************************************************)
EXTENDS Integers

CONSTANTS
  Second,        \* milliseconds in a second
  TickMod,       \* 2^32, the width of the tick count
  Wide,          \* 2^64, the width of slewRate
  PollInterval,  \* democonfigSNTP_CLIENT_POLLING_INTERVAL_SECONDS
  MaxBackoff,    \* SNTP_DEMO_POLL_MAX_BACKOFF_DELAY_SEC
  MaxRetries,    \* SNTP_DEMO_MAX_SERVER_BACKOFF_RETRIES
  Drifts,        \* milliseconds that the oscillator may gain in a second
  MaxMissed      \* bound: polls in a row that do not synchronise

ASSUME ClockAssumption ==
  /\ Second \in Nat \ {0}
  /\ PollInterval \in Nat \ {0}
  /\ MaxBackoff \in Nat /\ MaxBackoff >= PollInterval
  /\ MaxRetries \in Nat \ {0}
  /\ Drifts \subseteq Int /\ \A d \in Drifts : d >= -1
  /\ MaxMissed \in Nat
  /\ TickMod \in Nat \ {0} /\ Wide \in Nat \ {0}

VARIABLES
  drift,      \* what the oscillator gains
  phase,      \* the true time within its second
  since,      \* the true time since the last response
  tick,       \* xTickCount
  clock,      \* systemClock: the milliseconds of the base time, tick and rate
  pollPeriod, \* systemClock.pollPeriod
  mutex,      \* who has xMutex
  sntpPc,     \* where sntpTask is
  backoff,    \* backoffContext and backoffModeFlag
  wait,       \* what is left of its delay
  missed,     \* polls since the last synchronisation
  refused,    \* rejections since a poll that was not rejected
  assertion,  \* the assertion or operation that stopped the device
  readPc,     \* where systemGetWallClockTime is
  args,       \* the arguments it has passed by value
  exact       \* history: the rate was measured over one undisturbed interval

timeVars == <<drift, phase, since, tick>>
pollVars == <<pollPeriod, sntpPc, backoff, wait, missed, refused, assertion>>
readVars == <<readPc, args>>
vars == <<timeVars, clock, mutex, pollVars, readVars, exact>>

-----------------------------------------------------------------------------
\* Before the first synchronisation the base time is years away, and no rate is derived
\* from the offset.
ClockInit ==
  /\ drift \in Drifts
  /\ phase \in 0 .. Second - 1
  /\ since = 0
  /\ tick = 0
  /\ clock = [msecs |-> 0, lastSyncTickCount |-> 0, slewRate |-> 0, firstTimeSyncDone |-> FALSE]
  /\ pollPeriod = PollInterval
  /\ mutex = "free"
  /\ sntpPc = "poll"
  /\ backoff = [mode |-> FALSE, done |-> 0, jitter |-> 0]
  /\ wait = 0
  /\ missed = 0 /\ refused = 0
  /\ assertion = "none"
  /\ readPc = "idle" /\ args = [lastSyncTickCount |-> 0, slewRate |-> 0]
  /\ exact = TRUE

Running == assertion = "none"

\* A number of 64 bits as a signed one.
Signed(n) == IF n >= Wide \div 2 THEN n - Wide ELSE n

\* C division, towards zero.
Quotient(a, b) == IF a >= 0 THEN a \div b ELSE -((-a) \div b)

\* Mutant: the difference of the tick counts is not taken modulo their width.
calculateCurrentTime_NoWrap(lastSyncTickCount, slewRate) ==
  LET ms == tick - lastSyncTickCount
  IN Signed((ms + slewRate * (ms \div Second)) % Wide)

\* The milliseconds the clock adds to its base time; it forgets those of the base time
\* itself.
calculateCurrentTime(lastSyncTickCount, slewRate) ==
  LET ms == (tick - lastSyncTickCount) % TickMod
  IN Signed((ms + slewRate * (ms \div Second)) % Wide)

\* How far the clock is from the true time.
Error == calculateCurrentTime(clock.lastSyncTickCount, clock.slewRate) - since - clock.msecs

-----------------------------------------------------------------------------
(***************************************************************************)
(* Time                                                                    *)
(***************************************************************************)

\* A true millisecond passes; the oscillator gains or loses at the end of the second.
Tick ==
  /\ Running
  /\ sntpPc = "delay" /\ wait > 0
  /\ LET ticks == IF phase = Second - 1 THEN 1 + drift ELSE 1 IN
       /\ tick' = (tick + ticks) % TickMod
       /\ wait' = IF wait > ticks THEN wait - ticks ELSE 0
  /\ phase' = (phase + 1) % Second
  /\ since' = IF clock.firstTimeSyncDone THEN since + 1 ELSE 0
  /\ UNCHANGED <<drift, clock, mutex, pollPeriod, sntpPc, backoff, missed, refused,
                 assertion, readVars, exact>>

-----------------------------------------------------------------------------
(***************************************************************************)
(* The poll                                                                *)
(***************************************************************************)

\* A new socket, and the request; it is stamped with sntpClient_GetTime.
RequestSent ==
  /\ Running
  /\ sntpPc = "poll"
  /\ mutex = "free"
  /\ sntpPc' = "receive"
  /\ UNCHANGED <<timeVars, clock, mutex, pollPeriod, backoff, wait, missed, refused,
                 assertion, readVars, exact>>

\* The server's name is not resolved, or the request is not sent in time.
RequestFails ==
  /\ Running
  /\ sntpPc = "poll"
  /\ assertion' = "request"
  /\ UNCHANGED <<timeVars, clock, mutex, pollPeriod, sntpPc, backoff, wait, missed, refused,
                 readVars, exact>>

\* No response until the time-out.
ResponseLost ==
  /\ Running
  /\ sntpPc = "receive"
  /\ missed < MaxMissed
  /\ missed' = missed + 1
  /\ refused' = 0
  /\ backoff' = [backoff EXCEPT !.mode = FALSE]
  /\ wait' = pollPeriod * Second
  /\ sntpPc' = "delay"
  /\ UNCHANGED <<timeVars, clock, mutex, pollPeriod, assertion, readVars, exact>>

\* BackoffAlgorithm_InitializeParams.
Restarted == [mode |-> TRUE, done |-> 0, jitter |-> pollPeriod]

\* Mutant: the retries are counted over all sequences of rejections.
BackoffContext_Kept ==
  IF backoff.mode THEN backoff
  ELSE IF backoff.done = 0 THEN Restarted ELSE [backoff EXCEPT !.mode = TRUE]

BackoffContext == IF backoff.mode THEN backoff ELSE Restarted

\* Mutant: the longest delay doubles past its limit.
NextJitter_Unbounded(j) == 2 * j

\* The longest delay doubles with each retry.
NextJitter(j) == IF j < MaxBackoff \div 2 THEN 2 * j ELSE MaxBackoff

\* calculateBackoffForNextPoll: any delay up to the longest one is the new poll period,
\* until the retries are exhausted.
Rejected ==
  /\ Running
  /\ sntpPc = "receive"
  /\ missed < MaxMissed
  /\ missed' = missed + 1
  /\ refused' = refused + 1
  /\ LET b == BackoffContext IN
       IF b.done < MaxRetries
       THEN \E p \in 0 .. b.jitter :
              /\ pollPeriod' = p
              /\ wait' = p * Second
              /\ backoff' = [b EXCEPT !.done = @ + 1, !.jitter = NextJitter(b.jitter)]
              /\ sntpPc' = "delay"
              /\ UNCHANGED assertion
       ELSE assertion' = "backoff" /\ UNCHANGED <<pollPeriod, wait, backoff, sntpPc>>
  /\ UNCHANGED <<timeVars, clock, mutex, readVars, exact>>

\* The delay ends.
PollDue ==
  /\ Running
  /\ sntpPc = "delay" /\ wait = 0
  /\ sntpPc' = "poll"
  /\ UNCHANGED <<timeVars, clock, mutex, pollPeriod, backoff, wait, missed, refused,
                 assertion, readVars, exact>>

-----------------------------------------------------------------------------
(***************************************************************************)
(* sntpClient_SetTime                                                      *)
(***************************************************************************)

\* Mutant: the clock is set without the mutex.
SetTimeBegins_Unlocked ==
  /\ Running
  /\ sntpPc = "receive"
  /\ sntpPc' = "base"
  /\ UNCHANGED <<timeVars, clock, mutex, pollPeriod, backoff, wait, missed, refused,
                 assertion, readVars, exact>>

SetTimeBegins ==
  /\ Running
  /\ sntpPc = "receive"
  /\ mutex = "free"
  /\ mutex' = "sntp"
  /\ sntpPc' = "base"
  /\ UNCHANGED <<timeVars, clock, pollPeriod, backoff, wait, missed, refused, assertion,
                 readVars, exact>>

\* The rate after a response: once, at the second one or later.
slewRateOf(offset) ==
  IF clock.firstTimeSyncDone /\ clock.slewRate = 0
  THEN Quotient(offset, pollPeriod) % Wide
  ELSE clock.slewRate

\* The offset, measured when the response came, is divided by the poll period, which may
\* be zero: the run-time library then answers zero, or raises an error.
BaseAndRateSet ==
  /\ Running
  /\ sntpPc = "base"
  /\ LET divides == clock.firstTimeSyncDone /\ clock.slewRate = 0 IN
       \/ /\ ~(divides /\ pollPeriod = 0)
          /\ clock' = [clock EXCEPT !.msecs = phase, !.slewRate = slewRateOf(-Error),
                                    !.firstTimeSyncDone = TRUE]
          /\ exact' = IF divides THEN missed = 0 /\ pollPeriod >= PollInterval ELSE exact
          /\ UNCHANGED assertion
       \/ /\ divides /\ pollPeriod = 0
          /\ \/ assertion' = "divide" /\ UNCHANGED <<clock, exact>>
             \/ clock' = [clock EXCEPT !.msecs = phase] /\ UNCHANGED <<assertion, exact>>
  /\ since' = 0
  /\ sntpPc' = "tick"
  /\ UNCHANGED <<drift, phase, tick, mutex, pollPeriod, backoff, wait, missed, refused,
                 readVars>>

\* Mutant: the mutex is not given back.
SetTimeEnds_Keeps ==
  /\ Running
  /\ sntpPc = "tick"
  /\ clock' = [clock EXCEPT !.lastSyncTickCount = tick]
  /\ missed' = 0 /\ refused' = 0
  /\ backoff' = [backoff EXCEPT !.mode = FALSE]
  /\ wait' = pollPeriod * Second
  /\ sntpPc' = "delay"
  /\ UNCHANGED <<timeVars, mutex, pollPeriod, assertion, readVars, exact>>

\* The tick count is stored, the mutex given and the socket closed; the delay begins.
SetTimeEnds ==
  /\ Running
  /\ sntpPc = "tick"
  /\ clock' = [clock EXCEPT !.lastSyncTickCount = tick]
  /\ mutex' = "free"
  /\ missed' = 0 /\ refused' = 0
  /\ backoff' = [backoff EXCEPT !.mode = FALSE]
  /\ wait' = pollPeriod * Second
  /\ sntpPc' = "delay"
  /\ UNCHANGED <<timeVars, pollPeriod, assertion, readVars, exact>>

-----------------------------------------------------------------------------
(***************************************************************************)
(* systemGetWallClockTime, in the agent's task                             *)
(***************************************************************************)

ReadBegins ==
  /\ Running
  /\ readPc = "idle"
  /\ mutex = "free"
  /\ mutex' = "reader"
  /\ args' = [lastSyncTickCount |-> clock.lastSyncTickCount, slewRate |-> clock.slewRate]
  /\ readPc' = "compute"
  /\ UNCHANGED <<timeVars, clock, pollVars, exact>>

\* calculateCurrentTime has its arguments, and reads the base time last.
ReadEnds ==
  /\ Running
  /\ readPc = "compute"
  /\ mutex' = "free"
  /\ readPc' = "idle"
  /\ args' = [lastSyncTickCount |-> 0, slewRate |-> 0]
  /\ UNCHANGED <<timeVars, clock, pollVars, exact>>

-----------------------------------------------------------------------------
SetTime == SetTimeBegins \/ BaseAndRateSet \/ SetTimeEnds

SntpTask ==
  \/ RequestSent
  \/ ResponseLost \/ Rejected \/ SetTime
  \/ PollDue

Reader == ReadBegins \/ ReadEnds

Next == Tick \/ SntpTask \/ RequestFails \/ Reader

Spec == ClockInit /\ [][Next]_vars

\* Time passes and the tasks run.  The agent's task reads the clock once per handshake,
\* so the SNTP task is not kept from the mutex.  Nothing makes a request fail.
FairSpec == Spec /\ WF_vars(Tick) /\ SF_vars(SntpTask) /\ WF_vars(ReadEnds)

-----------------------------------------------------------------------------
(***************************************************************************)
(* Properties                                                              *)
(***************************************************************************)

Magnitude(n) == IF n < 0 THEN -n ELSE n

\* Type invariant of the clock and its client.
ClockTypeOK ==
  /\ drift \in Drifts
  /\ phase \in 0 .. Second - 1
  /\ since \in Nat
  /\ tick \in 0 .. TickMod - 1
  /\ clock \in [msecs : 0 .. Second - 1, lastSyncTickCount : 0 .. TickMod - 1,
                slewRate : 0 .. Wide - 1, firstTimeSyncDone : BOOLEAN]
  /\ pollPeriod \in 0 .. MaxBackoff
  /\ mutex \in {"free", "sntp", "reader"}
  /\ sntpPc \in {"poll", "receive", "base", "tick", "delay"}
  /\ backoff \in [mode : BOOLEAN, done : 0 .. MaxRetries, jitter : 0 .. MaxBackoff]
  /\ wait \in 0 .. MaxBackoff * Second
  /\ missed \in 0 .. MaxMissed
  /\ refused \in 0 .. MaxMissed
  /\ assertion \in {"none", "request", "backoff", "divide"}
  /\ readPc \in {"idle", "compute"}
  /\ args \in [lastSyncTickCount : 0 .. TickMod - 1, slewRate : 0 .. Wide - 1]
  /\ exact \in BOOLEAN

\* A reader never mixes the clock of two synchronisations: what it passed by value is
\* still the clock's when it reads the base time.
ReadsConsistent ==
  readPc = "compute" =>
    args = [lastSyncTickCount |-> clock.lastSyncTickCount, slewRate |-> clock.slewRate]

\* Between two synchronisations the clock stays within a second of the true time, but
\* for what each second adds: the drift, and the part of a second that the base time
\* forgot before the rate was measured.  The tick count may wrap in between.
ClockAccurate ==
  clock.firstTimeSyncDone /\ exact /\ sntpPc \in {"delay", "poll", "receive"} =>
    Magnitude(Error) <= Second + (since \div Second) * (Second \div PollInterval + 1)

\* The retries are exhausted only by that many rejections in a row.
StopsWhenRefused == assertion = "backoff" => refused > MaxRetries

\* The clock is synchronised again and again, unless an assertion or a division stops
\* the device, when the server answers at least one of so many polls.
Synchronises == []<>(sntpPc = "tick") \/ <>(assertion # "none")
=============================================================================
