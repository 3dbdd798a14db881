# A verification of the Corstone-3xx IoT reference integration

TLA+ models of the program's own logic, model-checked with TLC and proved about
with TLAPS. This document says what the system consists of, what is modelled and
how, what each check and each proof shows, and what is left.

## 1. The system

The repository integrates FreeRTOS, the AWS IoT libraries and Trusted Firmware-M
on Arm Corstone-3xx boards. Most of its files are board support, build glue and
patches of third-party code. Its own logic is in these parts.

| Part | State | Operations | Talks to |
|---|---|---|---|
| OTA orchestrator (`applications/helpers/ota_orchestrator`) | agent state, event queue, job fields, counters, pool of data buffers | `processOTAEvents`, publish callbacks, `prvRunOTADemo` | MQTT helpers, PAL, application hooks |
| MQTT helpers (`mqtt_helpers.c`) | static command contexts | publish, subscribe and wait for the completion | MQTT agent task |
| OTA PAL (`freertos_ota_pal_psa`, patched here) | `pxSystemContext`, component id | create, write, close, activate, accept, reject | PSA Firmware Update service, boot loader |
| MQTT agent (`coremqtt_agent/integration`) | connection, command queue and pool, subscription list | connection loop, commands, cancellation, subscriptions | every task with MQTT business, transport |
| Application events (`helpers/events`) | event group | set and wait for "MQTT connected", ML and DSP start and stop | all tasks |
| Speech recognition | ring of blocks, sliding window, double buffer, results | VSI callback, DSP cycle, inference, start/stop hooks | OTA hooks, MQTT |
| Keyword detection | ring of blocks, circular window, feature cache | announce a block, next window, inference, start/stop hooks | OTA hooks, MQTT |
| SNTP client | clock parameters under a mutex, back-off | poll, back off, set, slew, read | TLS (time), sockets, PKCS #11 |
| TLS and socket transports | socket, TLS context, PKCS #11 session | connect, send, receive, disconnect | MQTT agent |
| Logging task | queue of allocated messages | log, drain, drop when full | all tasks |
| Device advisor | one subscription, one context | subscribe, publish | MQTT agent, subscription list |

### What is hard

* *Concurrency.* Three tasks share the orchestrator's state: the OTA agent task,
  the MQTT agent task, which runs the publish callbacks, and the demo task. Every
  MQTT operation is a command to another task, whose answer may come after the
  caller has given up. The recognition applications hand audio from an interrupt
  through three tasks, while the OTA hooks stop and start them.
* *Failure.* The connection is lost and comes back with a clean session; all
  messages of the orchestrator travel with QoS 0; the results of most calls are not
  looked at; a connect that fails half-way is retried without a disconnect.
* *Resets.* The update itself asks for a reset in the middle of the protocol, and
  a reset may come at any other moment. RAM is lost; the staging slot, the boot
  loader's choice of image and the cloud's record of the job are not.
* *Boundaries.* Counters of fixed width, a cast of a version to 16 bits, a tick count
  that wraps, rings that come round, queues whose overflow is ignored, small pools
  of buffers, commands, sockets and sessions.

`PROJECT.json` lists the hazards one by one, at their lines.

### What makes each part correct

* *OTA orchestrator:* a block is written once, at its place, before its buffer is
  used again; the file is closed when it is complete, with its signature; the
  status the cloud records is what the device did; a job that was started ends.
* *OTA PAL:* an image is accepted only after a reset, a failure is reported as one.
* *MQTT agent and helpers:* a completion reaches the task that waits for it; each
  command is completed once; a subscription that was reported as made is in the list.
* *Speech recognition, keyword detection:* the block or buffer that is being written
  is not the one being read; the windows of an inference are whole and follow one
  another; stopping takes effect, and a start that follows it is not lost.
* *SNTP:* a reader never mixes two synchronisations, the clock stays near the true
  time, and polls go on. *Transports:* what a connection took is given back once.

## 2. The modules

| Module | What it models |
|---|---|
| `OtaPal` | the `otaPal_*` functions as the repository's patches 0002 and 0005 leave them, over the PSA Firmware Update state machine, and the boot loader |
| `OtaAgent` (extends `OtaPal`) | `ota_orchestrator.c`, `mqtt_helpers.c`, `ota_os_freertos.c`: all three tasks, in an arbitrary environment |
| `OtaSystem` (extends `OtaAgent`) | the same device with broker, jobs service and streams service, losses and resets |
| `UpdateJobs` | the abstract specification: what an update promises |
| `MqttAgent` | `mqtt_agent_task.c`, `freertos_command_pool.c`, `freertos_agent_message.c`, `subscription_manager.c`, and the functions of `mqtt_helpers.c`, the applications and the device advisor that give commands |
| `AudioPipeline` | speech recognition: driver, VSI callback task, DSP task and scheduler, double buffer, ML task, OTA hooks |
| `InferenceResults` | the way of a result to the broker, in speech recognition and object detection: allocation, `xMlMqttQueue`, `vMlMqttTask`, its publish and the free |
| `KeywordDetection` | keyword detection: driver, VSI callback task, circular window, feature cache, ML task, result queue, OTA hooks |
| `TlsTransport` | `Transport_Connect` to `Transport_Disconnect` on both network stacks, `iot_tls.c`, the connection loop, and the SNTP client's use of the same pools |
| `SntpClock` | the clock, polls, back-off, slew rate and readers of `sntp_client_task.c` |
| `OtaAgent_proofs`, `OtaSystem_proofs`, `MqttAgent_proofs`, `AudioPipeline_proofs`, `KeywordDetection_proofs`, `TlsTransport_proofs`, `SntpClock_proofs` | theorems of the module each is named after |
| `OtaUpdate_proofs` (extends `OtaSystem_proofs`) | theorems of `OtaSystem` about one update: the download and the promise of `UpdateJobs` |
| `MC...` | constants for TLC |

### OtaPal

The staging slot is an array of `SlotBlocks` blocks and an image is a sequence of
`NumBlocks` blocks tagged with their job, so a block that is missing, doubled or of
another file can be told apart. `fwu` is the state of the component in the service
(`READY`, `WRITING`, `CANDIDATE`, `STAGED`, `TRIAL`, ...), `sysCtx` says whether
`pxSystemContext` is set, `running` and `previous` are the versions the boot loader
can choose between. Each `otaPal_*` operator has the result its caller sees as its
last argument. `otaPal_CloseFile` returns a `bool` and answers `-1` when the service
refuses: the operator returns TRUE there, as the code does. The service (external)
fails when the component is not in the state a call requires and,
for the calls in `FwuFaults`, at any time. `InstallAnswers` is the set of answers
(`PSA_SUCCESS`, `PSA_SUCCESS_REBOOT`) that `psa_fwu_install` may give. `Boot` is the boot loader: it
tries a genuine staged image and rolls an unaccepted one back.

### OtaAgent

One action per case of `processOTAEvents`; where a handler blocks in an MQTT
operation the action is split there and `pc` says what the agent task waits for, so
the other tasks run in between:

| Code | Actions |
|---|---|
| RequestJobDocument | `RequestJobDocument`, then `JobRequested` |
| ReceivedJobDocument | `DropJobDocument`, `EmptyJobDocument`, `SameJobDocument`, `UnparsedJobDocument`, `SelfTestJobDocument` then `FinalStatusSent`, `DownloadJobDocument` then `DownloaderReady` |
| RequestFileBlock | `RequestFileBlock`, then `BlockRequested` |
| ReceivedFileBlock | `DropFileBlock`; or `TakeFileBlock` then `FileBlockHandled` |
| CloseFile, ActivateImage | `CloseFile`; `ActivateImage` then `StatusSent` |
| Suspend, Resume | `Suspend`, `Resume` |
| `prvRunOTADemo` | `StartDemo`, `DemoSuspend`, `DemoResume` |
| publish callbacks | `JobDocArrives`, `BlockArrives` |
| connection, broker | `Connect`, `Disconnect`, `UplinkServed` |
| reset | `Reboot`, `ResetFails` |

`globalJobId` is kept as the id last copied and the number of bytes in use in its
array (`extent`): `memcpy` writes no terminator and the final status clears only the
first byte, and `AddressedJob` is the job the bytes spell. `jobFields` holds the job
and the signature, zeroed where the code zeroes them. `jobDocBuffer` is the single
buffer for documents that the callback overwrites while the parsed fields still point
into it. The counters wrap at `CounterMod`, and the two casts to `uint16_t` are
`% U16`.

In this module the environment is arbitrary: any document and any block of a
subscribed stream may arrive at any time, any number of times.

### OtaSystem and UpdateJobs

`OtaSystem` adds the services: a job goes through the stages `QUEUED`,
`IN_PROGRESS`, `SELF_TEST` and `SUCCEEDED` or `FAILED`, which are the execution
versions 1, 2, 3 that the device names as expected in its updates, and an update
with another expected version is refused. The broker keeps nothing for a device that
is away. `Drop` and `Crash` are losses of the connection and unasked resets, both
bounded. `ImplementsOtaAgent` states that each step is a step of the open `OtaAgent`,
so what is proved there holds here; it is checked in `Faults` and proved.

`UpdateJobs` is the promise, seen from outside: one trial at a time, begun for a job
whose outcome is open; an image is kept only if it is not older than the one it
replaced; any trial that is not kept ends with a return to the previous image; an
outcome is recorded once, and `succeeded` only for the image that runs for good.
The refinement mapping is at the end of `OtaSystem`.

The download is right and the promise kept only in some environments, and
`OtaSystem` names them, as the proofs need them:

| Condition | What it says | Without it TLC finds |
|---|---|---|
| `Undisturbed` | the connection lasts from one reset to the next, the cloud answers in order, block numbers fit in 16 bits | with one loss, or with late answers, a block that counts twice (section 3, *Seen while modelling*) |
| `Dependable` | besides, no publish is lost, accept and reject do not fail, versions fit in 16 bits | a trial or a recorded outcome that `UpdateJobs` does not allow |
| `TrialsEnd` | an image is tried after a reset, and reject does not fail | a job that ends as failed with its image kept |
| `RoomForAll` | the event queue is longer than the requests under way and the losses together | with a queue of 2, a buffer that never comes back |

The rest stays free in each: `Undisturbed` allows lost publishes and failures of any
call to the platform layer, `Dependable` failures of every call but two, and all of
them resets at any moment, any number of jobs and files of any length.

### MqttAgent

A call of `prvMQTTSubscribe`, `prvMQTTPublish`, `prvMqttSendMessage` or
`prvSubscribeToTopic` is `BeginCall` (the context is filled, the notification
cleared), `Agent_GetCommand` or `NoCommand` (the pool), `Agent_MessageSend` or
`QueueFull` (the queue), and `Notified` or `TimedOut`. The contexts are static, one
per function, so a command that is still with the agent after its time-out completes
into the context of the next call. The agent's task goes through
`prvMQTTAgentTask`: socket, back-off, `prvMQTTConnect` with its cancellation,
`MQTTAgent_CommandLoop`, and after the loop the connected bit, then
`MQTTAgent_CancelAll`. `Conclude` is the completion callback with the return of the
structure to the pool. The demo task's `prvRegisterOTACallback` is three steps
(`ChooseSlot`, `WriteFilter`, `WriteCallback`), because the agent's task may run
`addSubscription` between them; `Preempted` says that the agent's priority is the
higher one.

### AudioPipeline and KeywordDetection

Audio is what a property has to tell apart: in `AudioPipeline` the scheduler's launch
in which a block was captured, so a window that mixes launches, or holds silence, can
be seen, and a window in a buffer has two halves, because a copy takes two steps; in
`KeywordDetection` each stride of audio has its number, a feature is the numbers it
was computed from, and `Torn` is what the driver is overwriting. The hooks are
`OtaActiveHook` and `OtaNotActiveHook` with one action per event-group call. The ML
task's loops are split at each call that may block or be overtaken: in the window's
`next`, the block under write is read once for each of the two comparisons.

### InferenceResults

A result is an address that `malloc` returned. `prvSetMlProcessingstate` is four
actions (`AllocateResult`, `SendResult`, `ResultRefused`, `FreeRefused`) and
`vMlMqttTask` seven: it receives, fills the static `publishInfo`, queues a command or is
refused, waits until it is notified or the wait times out, and frees the result. The
command points to `publishInfo` and not to the result, so one left over from a call that
has timed out sees the payload of a later call, or one that is freed. The agent is
reduced to four actions: a command is sent, fails, is acknowledged, or all are cancelled.
`overdue` is a history variable: there may be a command of a call that is over.

The pipeline hands a result over without waiting and never learns what becomes of it.
`MCAudioPipeline` therefore runs each of the two modules while the other rests.

### TlsTransport and SntpClock

In `TlsTransport` a handle is the number of its slot in a pool, so one that is kept
too long may be another task's. One action per step of `Transport_Connect`,
`TLS_Init` and `TLS_Connect`, and a failure of each; `prvFreeContext` is one operator,
used where the code calls it. What is allocated and not given back stays in `sockets`
and `contexts`.

`SntpClock` counts time in milliseconds relative to the true time, ticks modulo
`TickMod`, and the slew rate modulo `Wide`, as it is stored without a sign. The
clock's parts change in two steps under the mutex (`BaseAndRateSet`, `SetTimeEnds`),
and a reader passes two of them by value before it reads the third.

### Abstractions

* A file's last block may be partial in the code; blocks here have one size, and
  offsets count blocks. `fileSize / blockSize` rounded up is `NumBlocks`.
* Job documents are the job, whether the parser accepts it, and `updatedBy`.
  Prefixes among job ids (`strncmp` over the new id's length) are not modelled.
* Contents of messages, topic building, JSON and base64 are abstract; whether they
  decode is a choice. The topics route as the subscription callbacks route them.
* One updatable component; the boot loader checks an image's genuineness.
* The version used when `otaPal_GetPlatformImageVersion` fails is an uninitialized
  local in the code, and any member of `Versions` here.
* In `OtaAgent` a `prvMQTTPublish` and a `prvMQTTSubscribe` complete or fail in one
  step; `MqttAgent` has the steps in between.
* `DownloaderReady` succeeds for every intact document: that a signature does not convert
  to DER, or that a file path is not known, is not represented.
* `StatusSent` ends the status publish and makes the call that activates the image in one
  step. A reset in between is an install that fails, which changes nothing, followed by a
  reset; the runs with resets have failing installs.
* The jobs service of `OtaSystem` only sends documents that the parser accepts, so
  `UnparsedJobDocument` is a step of the open agent's environments alone.
* The demo task polls every ten seconds. In `OtaSystem` it does not find its last
  event still in the queue; in `OtaAgent` it may poll at any rate.
* In `MqttAgent` a call of the coreMQTT-Agent library is atomic but for the waits in
  it, and the calling tasks have a lower priority than the agent.
* In `AudioPipeline` the work on a block is shorter than a block, and in both audio
  modules the callback task has announced a block before the next is complete. In
  `KeywordDetection` the ML task keeps up with the driver while it is not stopped:
  the code has no protection if it does not. `Launch` counts a block that is announced
  and not yet taken as audio of the new launch, so `WindowFresh` says nothing of that block.
* In `TlsTransport` delays are left out, and so are a failing bind and the SNTP
  client's own network failures. In `SntpClock` the oscillator gains or loses at the
  end of a second, and an answer takes no time. `calculateCurrentTime` reads a negative sum
  with its sign, which the unsigned arithmetic of the code would not; under `exact`, where
  `ClockAccurate` speaks, there is none.

## 3. The runs

| Run | Question | Bounds | Distinct states |
|---|---|---|---|
| `Update` | the download, no report by the boot that downloaded, and refinement of `UpdateJobs` | 2 jobs (one newer, one older), 3 blocks in a slot of 4, 2 resets, install with or without a reset, any call to the service may fail but accept and reject, casts to 2 bits | 1447 |
| `Progress` | every started job ends | 2 jobs, 6 blocks, no faults | 115 |
| `Faults` | types, buffers and `ImplementsOtaAgent` under all faults | 1 loss, 1 reset, any call to the service may fail, late and reordered answers | 224 thousand |
| `Reconnect` | what the cloud records is what the device did | 2 losses, 1 reset, lost publishes, any call to the service may fail but accept and reject | 209 thousand |
| `Commands` | one holder per command, answers to their own calls, nothing kept for ever | 3 contexts of 2 tasks, pool of 2, queue of 1, 1 loss | 174 thousand |
| `Audio` | what an inference runs on, stop and restart; who holds a result | ring of 3, window of 3 blocks, 3 hooks; 4 addresses, result queue of 2, 2 commands | 256 thousand |
| `Keyword` | contiguous windows, no lost wake-up | ring of 4 blocks of 3 strides, windows of 2 strides, inferences of 4 features of which 2 are reused, 12 blocks, 3 hooks | 143 thousand |
| `Transport` | what connections take and give back, reconnection | 4 sockets, 2 sessions, 3 contexts, 2 failures, both stacks | 332 thousand |
| `Clock` | consistency, accuracy, back-off, polls for ever | a second of 4 ms, polls of 2 s, 1 retry, 2 missed polls, drifts of -1, 0, 1 ms/s, ticks modulo 48 | 444 thousand |

*Why these bounds.* Buffers interact in pairs, so 2 buffers show a double owner. Two
or three blocks have a first, a next and a last one, and the slot is larger than the
file, so an offset too far is a wrong block and not just an error. Two jobs, one
newer and one older than the factory image, exercise both verdicts of the self test
and the document that follows the first job. One loss together with one reset, or two
resets, put a fault before, inside and after the self test. `U16` is 4 in `Update`, so
three blocks and versions up to 3 are the largest that survive the casts. `Progress` has no faults
because the code repeats nothing that is lost; it uses more blocks because nothing
else makes the run long. In `Commands` the pool is larger than the queue and smaller
than the commands that three functions may leave behind, so both run out. In `Audio`
three hooks are a stop, a start and a stop, or a start, a stop and a start, and the
window needs as many turns as the code skips; four addresses are one for each place that
can hold a result, and with two commands one is left over while another is queued. In
`Keyword` three strides per block
make windows of two strides end with a block, inside it, and across two, the ring
comes round three times, and hooks may leave it anywhere. `Transport` has one socket
and one context more than the failures leave behind and the users need, the least for
which `SntpServed` holds. `Clock` lets the tick count wrap between two polls and
the rate become negative. All cfgs say `CHECK_DEADLOCK FALSE`: the device may come to
rest with no job left, the bounds on hooks and blocks are reached, or an assertion
stops it.

*Fairness.*

* `Progress`: weak fairness of the agent task, of the start, of the demo task's poll,
  of the reconnection, of the services, of delivery, and of a requested reset.
  FreeRTOS schedules every ready task of these priorities, the connection loop retries
  for ever, and `otaPal_ResetDevice` is a call. No operation is assumed to succeed
  beyond the run's constants (`Lossy` FALSE, `FwuFaults` empty).
* `Commands`: weak fairness of the agent's task, of the demo task, of each
  acknowledgement, and of a caller's attempt to queue (it ends, with success or not).
  No caller has to call, and no time-out has to come.
* `Audio`: weak fairness of the driver, of every task and of a hook that has begun;
  strong fairness of the three steps that take the mutex, as FreeRTOS gives a mutex to
  the waiting task and both holders give it back.
* `Transport`: weak fairness of the agent's task only. The sockets have time-outs.
  Nothing is assumed of the SNTP client, and the number of failures is bounded, so
  `Reconnects` says that what earlier failures left behind does not stop the agent.
* `Clock`: time passes; strong fairness of the SNTP task, since the readers of the
  clock take the mutex only once per handshake; a reader ends. Polls that miss in a
  row are bounded by `MaxMissed`.

### Properties

Each is stated in words at its definition. Operators whose name ends in a suffix such
as `_OffByOne` or `_Forgotten` are mutated forms of the operator that follows them:
replacing it by them violates the property named in `PROJECT.json`, which shows the
property is about that code.

### Disagreements found

Each is a run in which TLC exhibits what the code does.

| Run | The code | The text |
|---|---|---|
| `V_Downgrade` | when the status that carries `updatedBy` is lost, an older image is accepted (updatedBy absent is read as 0) | "New images are expected to have a higher version number" |
| `V_Close` | `otaPal_CloseFile` returns `-1`, that is true, when the service refuses | "returns true if the file was closed successfully, otherwise returns false" |
| `V_Slots` | with the device advisor's test the demo task and the agent's task add subscriptions, choose the same slot, and one subscription is lost | "No thread safety is required to this array, since the updates the array elements are done only from one task at a time." |

`SubscriptionsKept` holds in `Commands`, where only the applications' own contexts are
active: the OTA agent's first event is sent after the demo task's subscription is in
the list.

### Seen while modelling

Read in the code, present in the models as the code has them, and not given a run of
their own:

* *Updates.* The cast of `updatedBy` to 16 bits compares build numbers only of a packed
  version. A second document of the job in hand starts a second loop of requests, so a
  block counts twice, and zeroes the fields that `otaPal_CloseFile` is then called with,
  against the note in patch 0002 that "pSignature will never be NULL". A shorter job id
  is copied over a longer one without a terminator. A failed accept is reported as a
  success of the job. A refused message keeps its buffer. The passing runs exclude what
  brings these about: no loss in `Update`, no failing accept in `Reconnect` or `Update`, ids of one
  length, messages that fit and a queue that does not fill in `Faults`. When an
  answer of the jobs service is late by a reset, a new job's document may be taken
  between the close and the activation of another job's file, which is then installed
  and reported as the new job's. A lost request or block stops a download until the next
  suspend and resume. An image that was rejected leaves the component in a failed state
  that nothing cleans, so no later update starts. Where the service installs without a
  reset, the job is never finished by that boot.
* *MQTT.* The comment at `mqtt_agent_task.c:596` says "Further reconnects will include a
  session resume operation", but every turn of the loop sets `cleanSession` (line 715),
  so the branch that subscribes again is not reached and a stream is lost with the
  connection. A call that times out leaves its command, with pointers to the caller's
  stack, in the queue (`mqtt_helpers.c:190`). A context's result may be that of an older
  command (`AnswerIsOwn` says for which calls it is not). The comment in `prvMqttSendMessage`
  (`speech_recognition/ml_interface.cc:150`) says "Wait for command to complete so
  MQTTSubscribeInfo_t remains in scope", but the wait is bounded: after a time-out the
  result is freed while the command is queued, and is read when it is sent, or the next
  result is sent twice. `ResultsOwned` states what holds while no such command is left.
* *Transport.* A failed `Transport_Connect` leaves its socket and its context, and is
  retried without a disconnect: `LeaksBounded` counts what stays, and with as many
  failures as the pools have room for the device never reconnects, and the SNTP client's
  assertions fail. The comment "End TLS session, then close TCP connection."
  (`mqtt_agent_task.c:722`) is not the order of `Transport_Disconnect`.
* *Clock.* The milliseconds of the base time are dropped; the rate is measured once, over
  the first interval, and kept for ever, also when polls were missed in it
  (`ClockAccurate` excludes that by `exact`). The random back-off may be shorter than the
  poll interval, or zero, by which the offset is then divided, and the poll period is
  not restored after a back-off. `configASSERT` stops the device when a
  request cannot be sent.
* *Recognition.* In `AudioPipeline` the buffers are exchanged before, and outside the
  lock of, the semaphore, so a window may be inferred on twice; the window taken after a
  stop may be inferred on after the next start; the results of a recognition may combine
  an inference from before a pause and one from after it. In `KeywordDetection` half of
  the features of the first inference after a pause are of the audio before it. In
  `object_detection` the ML task returns when it is stopped, and is not started again.

## 4. The proofs

Every theorem is proved for every value of the constants that satisfies the assumptions
of the module that declares them; the assumptions are positive sizes and the relations
between sizes that the code asserts or needs. TLC evaluates them in every run. Where a
theorem needs more it is a named hypothesis: one of the conditions of section 2, or one
explained below. Each
proof is an inductive invariant, one lemma per group of actions, and a last step that
takes the property from the invariant.

| Module | Theorems | What the induction needs besides |
|---|---|---|
| `OtaAgent_proofs` | `TypeCorrect`, `BuffersOwned` | what the queue owns and what the task owns; the buffer that `BlockArrives` claims is not used, so nobody has it |
| `OtaSystem_proofs` | `SystemTypeCorrect`, `SystemImplementsAgent`, `SystemBuffersOwned` | what the services know: versions that run and are reported, streams of jobs, and blocks within what was subscribed |
| | `EventsBounded`, `BuffersComeBackAlways` | `ChainInv`: the chains of events there are |
| | `FailedImagesGivenUp` | that nobody speaks of a failure before an image is given up, and that this is for good |
| `OtaUpdate_proofs` | `DownloadedInOrder`, `RemainingCounted`, `OneBlockAtATime`, `ResultsFollowReset`, `BuffersComeBack`, `ClosedFilesVerified` | `UpdateInv`: who has the baton, and what each holder finds |
| | `UpdateKeepsPromise`, `SucceededImagesKept`, `VersionsNeverFall` | `TrialInv`: what is on trial and what was reported of it |
| `MqttAgent_proofs` | `CommandTypesCorrect`, `OneHolderEach`, `BitClearedBeforeCancel`, `AnswersAreOwn` | positions in the queue, and that a task's notification is pending only after its commands are concluded |
| | `SubscriptionsStay` | `ListInv`: how much of an entry is written |
| `AudioPipeline_proofs` | `AudioTypesCorrect`, `WindowsAreWhole`, `WindowsAreFresh`, `BlocksAreAtRest`, `RecognitionStopsSoon`, `ResultsAreOwned` | who has the mutex and which buffer; how much of the window is of this launch after so many turns; which bits are set while a hook runs; for results, which pointer is in whose hand and whose command or notification is pending (`ResultsInv`) |
| `KeywordDetection_proofs` | `KeywordTypesCorrect`, `WakeupsAreKept` | that a feature about to be computed has its place |
| | `AudioIsContiguous` | `ReadInv`: where in the audio the window is |
| `TlsTransport_proofs` | `TransportTypesCorrect`, `SessionsAreAccounted`, `ConnectedMeansReady`, `LeaksAreBounded`, `SntpIsServed` | what the agent and the SNTP client hold at each stage (`AgentHolds`, `SntpHolds`); for the last two, the cardinalities (`Leaks`) |
| `SntpClock_proofs` | `ClockTypesCorrect`, `ReadsAreConsistent`, `BackoffStopsLate` | who has the mutex; retries are no more than the rejections in a row |
| | `ClockIsAccurate` | `DriftInv`: how long ago the clock was set, and the rate it got |

Some need a word.

* *`TypeCorrect`:* a reader may doubt that `totalBytesReceived` stays within the slot (a
  write succeeds only at an offset inside it) and that the counters stay below
  `CounterMod` although they wrap. *`SystemImplementsAgent`:* a delivery is a step of
  the open agent only if what is delivered is a document or a block the agent knows,
  which depends in turn on what the device said.
* *One update.* Each handler of `processOTAEvents` sends the next event, a request or
  nothing, so in an `Undisturbed` environment exactly one of the queue, the agent task,
  the broker and the cloud has something to do: `Baton` says who, `OneThread` that nobody
  else has, and `JobBaton`, `BlockBaton` and `EndBaton` what each holder finds (a block
  that arrives is the one at the offset, a file that is closed has no block left). The
  exception is the `InProgress` publish, which nobody waits for and which `UplinkShape`
  lets stay before the next request. Lemmas such as `ToQueue` and `ToTask` pass the
  baton; each action has one lemma that uses them. Any number of blocks and jobs, a
  service that installs at once, and all failures of the platform layer are covered. `Update` is an
  instance.
* *The promise.* `UpdateKeepsPromise` is the refinement of `UpdateJobs`, step by step:
  `SelfTestPromised` is a `Keep` or a `GiveUp`, `ResultPromised` a `Succeed` or a `Fail`,
  `RebootPromised` a `Try` or a `GoBack`, and `StatusSentPromised` a `Try` where the
  service installs at once. The invariant that it needs relates the version under
  `updatedBy` in the cloud, or still on its way there, to `previous`: that is what the
  comparison in `receivedJobDocumentHandler` rests on. From the same invariant follow
  `SucceededImagesKept` and `VersionsNeverFall`. The latter and `ClosedFilesVerified` state
  the properties that `V_Downgrade` and `V_Close` refute, and thereby say how far the two
  disagreements reach: without a loss of the connection, and a finish that fails for a
  reason of its own, they do not show.
* *The event queue.* No sender looks at the result of a send, so an event that finds the
  queue full is lost, and a block's buffer with it. `EventsBounded` has no hypothesis:
  every event, request and answer belongs to a chain that `StartDemo`, a `Resume` or
  a request of an earlier boot begins and nothing splits, and a `Resume` needs a loss of the
  connection; so there are never more than `MaxUplink + MaxDrops + 1` events. `BuffersComeBackAlways` draws the
  conclusion for queues that are long enough, in every environment; `Faults` checks an
  instance.
* *`AudioIsContiguous`:* the position of the window is the number of a stride of audio
  modulo the ring, and `ReadInv` keeps that number, which the code does not. That the
  two comparisons with the block under write suffice is a matter of quotients by the
  strides per block; `InBlock`, `InRing` and `InBlocks` say what the provers need of them.
  The geometry is arbitrary, and it is assumed, as in the model, that the ML task keeps
  up while it is not stopped.
* *`SubscriptionsStay`* assumes `NoAdvisor`, that is the applications as they are built;
  with the device advisor's test `V_Slots` is the counterexample. The demo task has
  registered before any task subscribes to a stream, so the slot that a completion
  chooses is never one that is half-written.
* *`ClockIsAccurate`* is about the constants of the build, `DeviceConstants`: a second of
  1000 ms, a poll interval of 16 s, a drift of a millisecond in a second at most, and a tick count
  that does not come round within the longest time without a response (with the longest
  back-off of 65535 s and 2^32 ticks, 64 polls in a row). `Clock` checks the same formula with a
  second of 4 ms, where the rate and the bound are of other sizes, so neither stands for the other.
* *`LeaksAreBounded` and `SntpIsServed`* have assumptions about the pools: a session for
  each user, one context more than failures, and for the second two sockets more. Without
  them the code does run out, as section 3 says.

Only model-checked: `SucceededMeansCommitted` in environments that are not `Dependable`,
where publishes and connections are lost: `Reconnect` checks it, but the invariant would
have to follow every stale request and document. The liveness properties
`JobFinishes`, `CommandsEnd`, `RecognitionResumes`, `Reconnects` and `Synchronises`, which
rest on fairness and `ENABLED`, are out of the prover's reach. There is no induction over data
and no recursive operator in the modules that are proved about.

## 5. Plan

1. `SucceededMeansCommitted` with losses of the connection, from an invariant about the
   requests and documents of earlier connections.
2. The composition of `MqttAgent` with `OtaAgent`: what a download sees of a command that
   completes late.
3. An abstract clock that `SntpClock` implements.

## 6. Not modelled

Board support, display and Ethos-U adaptation, provisioning, the library
tests, Blinky, Trusted Firmware-M integration and the build are hardware access, start-up
sequences, test harnesses, examples or third-party code, and make up most of the
repository's lines, configuration headers included. Object detection is one task in a
sequence, with hooks of the form that `KeywordDetection` models; its results take the way
that `InferenceResults` models. The
logging task is one queue and one reader; the same hand-over of allocated messages is
`ResultsOwned`. The builds of the recognition applications on audio clips have no driver
and no concurrency. `otaAgentShutdown`, `otaPal_Abort`,
`OtaDeinitEvent_FreeRTOS`, `prvMQTTUnsubscribe`, `prvDisconnectFromMQTTBroker` have no
caller, and `prvHandleResubscribe` is not reached.
