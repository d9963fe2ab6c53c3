# kontrol-monitoring-listrik in TLA+

A verification development for the smart socket system of this repository: an
ESP32 firmware that meters and switches one socket, an MQTT broker, a Node.js
worker, a REST API, a realtime gateway and a web dashboard. The modules are
translated from the source; every definition that stands for code is listed in
`PROJECT.json` ("map") with its lines. Source paths are relative to `src/`.

    tlc -workers 2 -config MCRelayControl.cfg RelayControl.tla
    tlapm RelayControlProofs.tla

Contents: 1 inventory, 2 modules and code, 3 runs, 4 fairness, 5 proofs,
6 disagreements found, 7 what is left out, 8 plan.

## 1. Inventory

### 1.1 Components

| Component | State | Operations | What makes it correct |
|---|---|---|---|
| Firmware, telemetry (`firmware/devices/smart_socket/app_main.c`, `telemetry.c`, `ascon.c`, `mqtt_client.c`) | ring buffer of samples, batch count, transmit counter, high-water mark in RAM and NVS | sample, flush, save the mark, boot | counters never repeat through crashes; batches are the oldest samples in order; nothing is stranded |
| Firmware, relay, automatic control, parameters (`relay.c`, `auto_control.c`, `device_state.c`) | pin, `s_is_on`, mode, no-motion timer, parameters, NVS copies | loop round, command callback, boot | pin, memory and flash agree; a user's command is not undone; automatic control acts; parameters are those of the registry |
| Firmware, connectivity (`wifi_manager.c`, `mqtt_client.c`, `time_sync.c`) | WiFi state and retry count, MQTT client and its flags, start-up task | connect, reconnect, announce ONLINE, will OFFLINE | the device comes back after any outage; what it announced is true |
| Firmware, drivers (`pzem.c`, `pir.c`, `oled.c`) | UART, debounce state, screen | read, show | frames are checked before use |
| Ascon-AEAD128 (`asconAead128.js`, `ascon.c`) | the sponge while a message is worked on | encrypt, decrypt | inverse of each other; damage is rejected; the published answers |
| Worker, ingest (`telemetryHandler.js`, `deviceEventHandler.js`, `replayGuard.js`, `discovery.js`, `influxWriter.js`) | replay counters and their file, suspended handlers, samples buffered for the database | message, flush, shutdown | no envelope twice; few forgotten by a crash; what is accepted is stored |
| Worker, commands (`commandHandler.js`, `commandCounter.js`, `pendingCommands.js`) | counter and its file, table of pending commands with timers | forward, ack, timeout, clear | counters rise; every command settles one way, the right one |
| Registry file (`registry.js`, `stateFile.js`, `deviceRegistryRepo.js`, `registryFile.js`) | `devices.json`, its temporary file, a copy in the worker | touch, setRelay, upsert; patch, remove | the file is whole; no process undoes the other's change |
| REST API (`backend/api`) | none but requests under way | login, commands, device, history | registry and device agree on mode and parameters; dead tokens only are refused |
| Realtime gateway (`realtime_gateway/websocket_server.js`) | sockets | forward | every client gets the messages |
| Dashboard, device page (`useDevice.ts`, `useCommand.ts`, `usePatchDevice.ts`, `DeviceDetailPage.tsx`) | copy of the device, relay and mode shown, requests | press, refresh, live patch | what is shown is what is |
| Dashboard, session and socket (`authStore.ts`, `api.ts`, `ws.ts`, `App.tsx`) | token in `localStorage` and in memory, sockets, reconnect timer | login, logout, refusal, reconnect | a valid session is not lost; the tab gets connected |
| Dashboard, settings (`settingsStore.ts`, `SettingsPage.tsx`) | saved and draft values, form | edit, save, seed | what is shown as saved is held |
| Dashboard, history (`useTelemetryHistory.ts`, `telemetryService.js`, `influxRepo.js`) | points, spinner, range | pick a range, answer | the chart is that of the range, and covers its axis |

### 1.2 How they interact

* Device and worker talk over MQTT (QoS 1, Ascon envelopes): telemetry, ack,
  status and connectivity upwards, commands downwards. Messages may be repeated,
  delayed or lost; the broker publishes the will OFFLINE for a device whose
  connection dies.
* Worker and API share one registry file and no lock. The API reaches the worker
  over MQTT, as the dashboard's requests do through it.
* Within the device two FreeRTOS tasks share relay, mode and parameters: the main
  loop, and the MQTT task in which commands run.
* Within the worker the handlers are `async` functions on one thread and
  interleave at their awaits. The packets of one read of the socket are handed
  over before any handler resumes.
* The gateway forwards what the worker publishes to the sockets of dashboards;
  a dashboard also polls the API every 10 s. Tabs share one `localStorage`.

### 1.3 What is hard

`PROJECT.json` ("hazards") lists each at its line. The groups: crashes between
two writes (NVS mark, state files, relay and mode, buffered samples), two tasks or
processes without a lock (relay, registry), state checked before an await and
used after (replay counter, mode, pending table, the flip of the relay button),
a network that repeats and reorders, requests that overtake each other
(refreshes, saves, histories, a late 401), resource limits (ring buffer) and
progress (pending commands, automatic control, reconnects).

## 2. Modules and code

| Module | Models |
|---|---|
| `SampleQueue` | abstract: what the telemetry buffer promises, a bounded FIFO that loses old samples only |
| `DeviceTelemetry` | ring buffer, flush, transmit counter and NVS mark, crash and boot; implements `SampleQueue` (`Fifo`, the refinement mapping `BufferAsQueue`) |
| `SwitchedSocket` | abstract: a relay with a memory, what the socket promises its user |
| `RelayControl` | loop and callback switching one relay, flash, power cuts; implements `SwitchedSocket` (`Socket`) |
| `EnvelopeLog` | abstract: a log that takes each envelope once, in order and complete, until a device is `loose` |
| `TelemetryIngest` | telemetry and connectivity handlers, replay guard, registry gate, Influx writer, life of the worker; implements `EnvelopeLog` (`Log`) |
| `RegistryStore` | abstract: one document that two processes change an entry at a time |
| `DeviceRegistry` | worker and API changing `devices.json`, one system call at a time; implements `RegistryStore` (`Store`) |
| `CommandLedger` | abstract: numbered commands, executed in that order, one final outcome each |
| `CommandTracking` | a command through worker, network and device and back as an ack; implements `CommandLedger` (`Ledger`) |
| `AsconAead` | the cipher between two ends, and damage on the way (`MCAsconAead`: test vectors) |
| `LiveView` | relay and mode from the device over worker, API and gateway to the page and back as commands |
| `Parameters` | the PIR timeout through two forms, API, registry, device and flash |
| `Session` | tokens in several tabs, requests and their refusal |
| `LiveSocket` | the reconnecting sockets of one tab and the gateway |
| `TelemetryHistory` | the chart of past readings, from the range picked to the database |
| `MC*` | definitions for TLC: symmetry, test vectors, the texts of a field and their rounding |
| `*Proofs` | theorems and proofs; `DevicePageProofs` is about `LiveView` and `TelemetryHistory`, `BrowserProofs` about `Session`, `LiveSocket` and `Parameters` |

`LiveView` composes device, worker, API, gateway and page for one relay; it takes
from the smaller modules what they establish (one command at a time in the
device, registry changes as one step) and leaves out what they take apart.
`Parameters` does so for one parameter.

**DeviceTelemetry.** `items`, `head`, `count` are `s_telemetry_buffer`, `tx` is
`s_ascon.tx_counter`, `hwm` is `s_ctr_hwm`, `nvs` the key `tx_ctr`. `pc` is the
place of the main loop: one reading (`Sample`, with the overflow of
`telemetry_buffer_push`), the flush (one action for each outcome of a round:
`PublishBatch`, `PublishFails`, `BuildFails`, `FlushDone`), the reset of the
batch count with `ascon_ctr_nvs_maybe_save` (`SaveCounter`). A sample is the
number of its reading, so order and gaps show. `NvsFaults` names the calls that may
fail: the firmware ignores the result of all but `nvs_open`. `nvsSound`
is history: no NVS call has failed so far.

**RelayControl.** `relay_set` is two writes, `gpio_set_level` and `s_is_on`, and
the state is read again before it is saved: `DrivePin`, `SetState`, `ReadState`,
`SaveRelay`, each taken by either task. The loop reads its sensors (`Sense`),
reads the mode and decides (`Decide`), and only then switches. The callback
switches, sets the mode, saves it, acknowledges. Rounds and commands overlap
freely; the history variable `overlapped` records that they ever did, `crossed` that the
last `relay_set` began inside another one. While the PZEM does
not initialise, a round is `RetryPzem` and `Pause` and nothing else. Under `Socket` the
memory of `SwitchedSocket` is the two keys in flash, and a command is asked for while
the callback is at work on it; `s_is_on`, the copies and the loop's decision are hidden.

**TelemetryIngest.** `handlers` is the queue of suspended handlers, `stage` says
whether packets come in or microtasks run. `Arrive` is a handler up to its first
await: gate with its registry write, replay check. `StoreSample` is one await of
the loop over samples and leaves a point in `buffered`, the batch of the Influx
client; `FlushPoints` and `DropPoints` are what becomes of a batch. `Commit` is what
follows the last await, `Discard` the early returns after decryption.
`Connectivity` is the ONLINE message or the will. `Shutdown` and `Exit` are the
two halves of the signal handler, `Crash` the death of the process anywhere. Two variables are
history: `overlapped`, the devices that had two handlers suspended at once in this run, and
`midway`, those whose latest news is an OFFLINE that came while a handler of theirs was suspended. Under `Log`
the mark is the guard's counter, the samples are those stored or buffered, and a device is
`loose`, so that nothing is promised of its envelopes until the next start, once two of its
handlers were suspended together; handlers, stages, files and the registry are hidden.

**DeviceRegistry.** The file system is inodes and two names. A change reads the
file (`WorkerEdit`, `Upsert`, `ApiEdit`), then opens, writes and renames the
temporary file (`OpenTmp`, `WriteTmp`, `Rename`); a process may die between any
two of these. `happened` is history: whether changes raced, whether one died. Under
`Store` the document is what the name `devices.json` leads to, so a change takes effect
at its rename; the rest of it stutters.

**CommandTracking.** `Forward` is the handler up to the publish, `Confirmed` and
`PublishFails` what follows its await, `ReceiveAck` (`Resolve`) and `Timeout` the two
ways out of the table. A shutdown takes two steps, as in `worker.js`: `ClearAll` empties the
table and saves the counter, after which handlers still run, enter commands and report
timeouts until `Stop` ends the process; a crash is a `Stop` without the first step, and
`Start` is the next run. The
device keeps `lastRx` in RAM and refuses what is not above it. The network
repeats (a message may stay in its set), reorders and loses. `Outcome` is what the sender
can tell of a command; `answered` is history, the commands the device has ever answered, and `early`, those whose ack
came before their entry in the table. Under `Ledger` a command is `sent` until it enters the table,
and an ack that finds it so tells nothing.

**AsconAead.** A word of 64 bits is the set of its one bits, so XOR is the
symmetric difference; a buffer is a length and the bits set. The actions are
one permutation round group each: `AbsorbAd`, `EncryptText` or `DecryptText`,
`Finalize` by either end, then `Deliver` with or without damage, and `Verify`.

**LiveView.** Commands, status messages, the gateway's feed, requests and
refreshes are queues or sets of messages under way. `Effects` is the React
effects that run after a render, so a live message may be overtaken by the flip
in `ControlAnswers`. `history` names what happened: a fault, a missed
message, overlapping presses. At the start the registry may say manual of a device that is in
automatic mode: the gate registers new devices as manual (`discovery.js:30`), and the first boot
of the firmware is automatic (`app_main.c:604`). "told" says that the device has executed
a command since, or agreed from the start.

**Parameters.** `Open` is navigation or reload, `Ask` and `Fill` the read that
seeds the form, `EditDraft`, `Revert` and `EditForm` the user, `SaveSettings` and
`SaveForm` the two handlers up to their await, `Answered` and `SaveFails` the
rest. `Texts` is what a field may hold and `Round` what `Math.round(Number(...))` makes of it;
`SettingsValue` and `FormValue` are what the two forms send for a text, and the settings store
keeps the text itself. A save of the settings may also be due to another field than the
timeout, which it sends all the same. `unsaved` is history: the pages whose last save failed or
was refused, and that show its value all the same.

**Session.** `storage` is the token in `localStorage`, `signedIn` the store of
each tab, `calls` the requests with the token they carried. `Refused` is the
interceptor: it removes whatever token is stored. `Load` is a page load.

**LiveSocket.** `newest` is `this.ws`; replaced sockets keep their handlers.
`timerSet` is the field, `armed` the timeout. `OnOpen`, `OnClose`, `OnTimer` are the
handlers; `Stop`, `Start`, `Lose` are the gateway and the network.

**TelemetryHistory.** A request is its range and the time at which the database
was read (`Query`). Points are the request that brought them: they reach from
`at` back by `Span(RangeMap(range))`. `AxisStart` is the lower end of the axis,
which `Tick` moves with the day.

## 3. Runs

| Run | Bounds | Shows |
|---|---|---|
| `device` | buffer 6 in batches of 2, reserve 4, every NVS fault, 11 readings, 3 boots (2.2 M states) | `CounterStaysFresh`, `BufferHoldsNewest`, `FlushStrandsNothing`, `SamplesGoForward`, `ImplementsSampleQueue` |
| `ingest` | 2 devices, 2 counters, 2 samples, a flush every 2 commits, 2 runs of the worker, two handlers suspended together (3.0 M) | `ReplayWindow`, `ReplayNeedsOverlap`, `WrongOnlyMidway`, `GhostOnce`, `AcceptedIsStored`, `ImplementsLog` |
| `ingest_replay` | 1 device, 2 samples, two handlers suspended together | a violation of `NoReplayWithinRun` (section 6) |
| `registry` | 2 devices, 5 changes, any overlap, crashes anywhere (1.9 M) | `FileWhole`, `ApiChangesKept`, `ImplementsStore` |
| `relay` | delay of 2 rounds, any overlap, PZEM may fail, power cuts anywhere (0.45 M) | `RelayCoherent`, `UserCommandHolds`, `StrayOnce`, `ImplementsSocket`, liveness `AutoControlActs` |
| `command_tracking` | 2 commands, 2 clock values (the clock may go back), 1 reboot, the worker stops and starts at will, acks may overtake the confirmation (0.9 M) | `ExecutedOnce`, `FalseTimeoutIsEarly`, `ImplementsLedger`, liveness `PendingSettles` |
| `ascon_aead` | 10 vectors: last blocks of 0, 1, 7, 8, 9, 15 bytes, 0 to 2 whole blocks, with and without associated data; every field damaged (720) | `RoundTrip`, `AlteredRejected`, `KnownAnswer` |
| `live_view` | 2 presses, 1 command of automatic control, 1 refresh beside live messages, loss, crash, failure and drop (1.1 M) | `ModeAgrees`, `ShownRelayHolds`, `ShownModeHolds`, liveness `CopyCatchesUp` |
| `parameters` | the texts 0 (or blank), 2, 3, 4 and a half that rounds to a valid value; 2 and 3 are valid; 2 saves, every fault (1.8 M) | `ParamAgrees`, `SavedIsHeld`, `FormHolds` |
| `session` | 2 tabs, 2 logins, 1 request per tab (12 k) | `SessionEndsForReason`, liveness `EndIsNoticed` |
| `live_socket` | 3 sockets, 2 surplus ones, 2 stops of the gateway (4.5 k) | `NeverStranded`, `OneSocket`, liveness `Reconnects` |
| `history` | days of 2 units, 5 units of time, 3 requests under way (0.37 M) | `ChartFollowsRange`, `AxisIsCovered` |

`CounterRises` is stated and proved and has no run of its own, since the abstract
specification says it: `Send` of `CommandLedger` numbers a command above all others.

`ingest_replay` is to find a violation: it checks what the documents say of the replay guard.
`ReplayNeedsOverlap`, checked by `ingest` under wider bounds, says in which case alone the code
breaks it.

Why the bounds are enough to be of interest. The buffer holds three batches and 11
readings overflow it and wrap both indices; the reserve of 4 is just above the 3
batches a full buffer spends in one flush, so a flush may pass the mark (the code
has 256 against 18). A flush every 2 commits, of two devices with two counters each, leaves
every number of unsaved commits, and commits behind a flush. Two devices show that counters and entries do not mix; two
packets in a chunk are what it takes for two handlers to overlap, or for an OFFLINE to come
during a handler. One refresh beside live messages
is what it takes for an older state to land last. Five changes let
two processes overlap, one die, and a third change heal or expose what
they left. Two rounds of delay separate "timer running" from "timer due". Two
commands can overtake each other on the wire and in the table, and one reboot
makes the device forget its counter. The vectors take every branch of the last
block. Two presses are what it takes for relay and mode requests to overlap, and for
a second press to start from what the first left shown. The texts of
`MCParameters` are a blank, each of two valid values, one too large and one that is not whole. Two
logins give an older and a newer token, two tabs a storage that is shared. Three
sockets hold the newest, a replaced one and a closing one. Three requests
let the second overtake the first while the third is picked, and five units of
time cross two midnights.

Bounds are named constants (`MaxSamples`, `MaxBoots`, `MaxChanges`, `MaxRuns`,
`MaxClock`, `MaxReboots`, `MaxClicks`, `MaxAuto`, `MaxGets`, `MaxSaves`,
`MaxLogins`, `MaxCalls`, `MaxSurplus`, `MaxStops`, `Duration`, `MaxRequests`) and
appear in guards only. Configurations with such a budget that may be used up, and a
system that stops when the user does nothing more, do not check for deadlock.

Several properties name conditions under which the code does not keep them,
through history variables: overlapped tasks, raced file changes, a lost command, a
missed message. The runs explore those behaviours too, and the property says what
holds in the others. Section 6 lists what happens otherwise.

## 4. Fairness

* `RelayControl!FairSpec`: both tasks keep running. The main loop sleeps between
  rounds and the MQTT task blocks on its queue, so neither starves the other.
  Nothing is assumed of commands, the room, power or the PZEM: `AutoControlActs` speaks of
  behaviours in which mode, room, power and driver settle.
* `CommandTracking!FairSpec`: a timer of a running Node.js process fires unless
  it is cleared (`pendingCommands.js:10`), and a stopped worker is started again
  (`restart: unless-stopped` in `infra/digitalocean/docker-compose.yml`). No
  message is assumed to arrive.
* `LiveView!Fairness`: the refresh timer of the page goes on for ever
  (`useDevice.ts`), the API answers again and again (strong fairness: single
  requests may fail), messages that reached worker and gateway are handled, the browser
  runs effects.
* `Session!Fairness`: a signed-in page asks every 10 s, a request ends within 12 s,
  not every one without an answer, and a browser follows a change of location.
* `LiveSocket!SocketFairness`: the browser fires timers and socket events, except for
  a connection lost without a word, and the gateway is started again.

The other modules state safety only.

## 5. Proofs

All are checked by TLAPS for every value of the constants that satisfies the
named assumptions of the module; TLC evaluates these in the runs. The proofs of the
modules of the dashboard are in two modules, each of which extends several specifications
that share no state; this is why their definitions have names of their own (`SocketInit`,
`ParamNext`, `ChartSpec`). The bounds on clicks, saves, refreshes and requests are
constants, so the theorems hold for behaviours as long as one likes.

| Theorem | States | Argument |
|---|---|---|
| `DeviceTelemetryProofs!TypeCorrect` | `TypeOK` | inductive as it stands |
| `...!CounterFreshness` | `CounterStaysFresh` | `CounterInReserve`: in the flush `tx * BatchSize + count` never grows before the publish that ends it, so `tx` stays within `Capacity / BatchSize` of the mark, less than the reserve a boot adds |
| `...!NewestReadings` | `BufferHoldsNewest` | inductive with the types; arithmetic modulo `Capacity` |
| `...!NothingStranded` | `FlushStrandsNothing` | `TriggerAligned`: outside a full buffer the samples beyond whole batches are those counted since the last trigger |
| `...!EnvelopesInOrder` | `SamplesGoForward` | `SentBehind`: the last envelope starts before the oldest sample held, or is the batch at the head of the buffer that its publish left there; with `BufferHoldsNewest` a batch is consecutive |
| `...!BufferIsQueue` | `ImplementsSampleQueue` | each step is a step of the queue or a stutter under `BufferAsQueue`; what the ring indices do to it follows from `BufferIsWindow`: the buffer read as a queue is the last `count` readings |
| `RelayControlProofs!TypeCorrect` | `TypeOK` | inductive |
| `...!StraySwitchOnce` | `StrayOnce` | `StrayInv`: a stray switch is behind the loop's `Decide`, which reads the mode |
| `...!RelayStaysCoherent` | `RelayCoherent` | `CoherentInv`: which of pin, memory and flash agree at each place of the task at work; `CrossingInv`: two tasks inside `relay_set` have crossed, and a lone one has written its own value to the pin |
| `...!CommandHolds` | `UserCommandHolds` | `PromiseInv` on top of it: a promise is made behind a saved manual mode, and the loop does not decide in that mode |
| `...!RelayIsSocket` | `ImplementsSocket` | `PromiseInv` with `ModeSaved`: flash has the mode in use but for the moment before it is saved, so the loop switches only where the memory says automatic |
| `CommandTrackingProofs!TypeCorrect` | `TypeOK` | inductive |
| `...!CountersRise` | `CounterRises` | `CounterInv`: every counter sent is at most the one in memory and the one saved |
| `...!ExecutesOnce` | `ExecutedOnce` | `ExecutionInv`: what this boot has executed is at most `lastRx` |
| `...!TimeoutsAreTrue` | `FalseTimeoutIsEarly` | `HeardInv`: a command heard of is past the confirmation and no longer pending, or was early |
| `...!PathIsLedger` | `ImplementsLedger` | `CounterInv` and `ExecutionInv`: an execution is above all earlier ones; `AnswerInv`: an ack on its way belongs to an answered command |
| `TelemetryIngestProofs!TypeCorrect` | `TypeOK` | inductive |
| `...!AcceptedReachesDatabase` | `AcceptedIsStored` | `WriterInv`: the samples a suspended handler is done with are covered too, and a process that is gone has neither handlers nor a buffer |
| `...!ReplayIsOverlap` | `ReplayNeedsOverlap` | `OrderInv`: as long as no two handlers of a device were suspended together, its accepted counters are at most the guard's and the one under way is above it |
| `...!RestartForgetsFew` | `ReplayWindow` | `WindowInv` on top of it: what is forgotten is at most the commits since the last write of the file |
| `...!GuardAndWriterAreLog` | `ImplementsLog` | `PointsInv`: what a run has written belongs to envelopes the guard has passed or to the handler at work, up to its position; with `OrderInv`, `WriterInv` and `ReplayWindow` every step is one of the log or a stutter |
| `...!GhostPassesOnce` | `GhostOnce` | `GhostInv`: a pass leaves the device out of cache and file alike |
| `...!RegistryFollowsNews` | `WrongOnlyMidway` | `NewsInv`: the file contradicts the news in that case only, and a suspended handler belongs to a device that was last heard alive or is in `midway` |
| `DeviceRegistryProofs!TypeCorrect` | `TypeOK` | inductive |
| `...!FileStaysWhole` | `FileWhole` | `Alone`: a process that has the files to itself finds its document in the temporary file; `Healing`: whoever truncated an inode that has a name is about to fill it, or has died |
| `...!ChangesAreKept` | `ApiChangesKept` | `Promise` on top of it: each process at work holds a document that keeps what was reported, the API's with its own change |
| `...!FileIsStore` | `ImplementsStore` | `Prepared`: whoever is in the middle of a change holds the document of the file but for one entry, and `Alone` says that the rename puts just that in place |
| `AsconAeadProofs!IntactRoundTrip` | `RoundTrip` | `IInv`: the receiver is at a place of the sender's trail with the same state, and what it has written is the text so far; the permutation is never expanded |
| `BrowserProofs!SessionEnds` | `SessionEndsForReason` | only a refusal or a logout clears the storage; tokens that died stay dead, with the types |
| `...!TabNeverStranded` | `NeverStranded` | `SocketsInv`: a wanted tab has a live socket or an armed timer, and the field tells which |
| `...!SocketsAccountedFor` | `OneSocket` | the same, with the cardinality of the live sockets |
| `...!DeviceHasParam` | `ParamAgrees` | `Agreement`: the last save the API published is the last command for the device, and the device refuses no value the API accepts |
| `...!SettingsAreHeld` | `SavedIsHeld` | `TabWaits`: what a page waits for, and which reads saw the registry of now; `SettingsHeld`: an answered save is in the registry, or the page was opened anew since, or the page is in `unsaved`; nothing is assumed of `Round` but that it keeps valid values |
| `...!FormIsHeld` | `FormHolds` | `TabWaits` with `FormShown`: an answered save and an unedited form are in the registry, or the page is in `unsaved` |
| `DevicePageProofs!ModesAgree` | `ModeAgrees` | `LastCommand`: the last command published, if any is under way, sets the mode of both sides; before the first they may differ |
| `...!ModeIsShown` | `ShownModeHolds` | `ModeShown`: where the only press is, and what the page shows while it is there; no press comes before the first effect |
| `...!RelayIsShown` | `ShownRelayHolds` | `LastReport`: the last report on its way is the relay; `RelayShown`: the relay shown, or pressed and published, was seen last or is still to be seen |
| `...!ChartIsOfRange` | `ChartFollowsRange` | `Chart`: until an answer overtakes another, the last request carries the range of the page, and an overlap takes two requests |
| `...!AxisHasReadings` | `AxisIsCovered` | `Chart` with `Past`: no reading is newer than the clock; arithmetic of the days |

`CounterStaysFresh`, `StrayOnce`, `ReplayWindow` and the others are not inductive
by themselves: each says nothing of the states in the middle of a flush, a round or
a handler, from which one step would break it. The strengthenings say it.

Five modules implement an abstract specification: each proof has the initial states and
one lemma or step for every action. Where the code does not keep its word the abstract
specification says so: `RegistryStore` and `SwitchedSocket` have a step after which nothing is
promised (two changes, or a round and a command, overlapped), `EnvelopeLog` one after which
nothing is promised of the envelopes of one device until the next start (two of its handlers
overlapped). `SampleQueue` and `CommandLedger` promise without condition; the ledger says of a
command that an answer settles it only if it finds it in the table. No theorem assumes more of
the constants than the modules do.

The dashboard's properties speak of moments when all is quiet; their strengthenings say
where a press, a save or a message is until then. TLC checked each of them as an
invariant of its run before it was proved. `QueueGrows` and `QueueShrinks` are the two
facts about channels those of `LiveView` and `Parameters` rest on: `Final(queue, v)` is what a variable comes to
hold when the queued writes are done, and taking the head of a queue does not change it.

Only model-checked: liveness (`AutoControlActs`, `PendingSettles`, `CopyCatchesUp`,
`EndIsNoticed`, `Reconnects`), which needs ENABLED and fairness, out of reach of
this prover; `AlteredRejected`, which no argument about control gives: it holds of the
ten vectors because the permutation maps no damaged one of them to the same tag, and a
proof for every key would have to assume just that; and `KnownAnswer`, the
computation of given test vectors.

## 6. Where the code and its words part

Shown by the run `ingest_replay`, which finds a violation: the replay counter is checked before
the awaits of the handler and committed after them (`telemetryHandler.js:81`, `167`). Two copies
of an envelope in one read of the socket are both stored, against "replay guard: tolak ctr <=
last_ctr per device" (README.md:145) and README.md:320-321.

Excluded by name in the properties, which hold of everything else; weakening the property in the
run of the module shows the behaviour. First those against which a document speaks:

* The telemetry handler touches the device online at its end (`telemetryHandler.js:168`) and so
  undoes an OFFLINE handled while it was suspended: the registry shows a dead device online until
  the device is heard of again, against `topics.js:13`. `WrongOnlyMidway` says that this is the
  only case.
* Two `relay_set` of two tasks may cross and leave pin and `s_is_on` different (`relay.c:48-57`)
  until a `relay_set` meets no other, or the next boot. Automatic control reads `s_is_on`, so a
  room may stay lit that should be dark, against README.md:183-184. `RelayCoherent` and
  `AutoControlActs` exclude it.
* While `pzem_init` fails, as it does when the UART driver cannot be installed, the loop never
  reaches automatic control (`app_main.c:718`), against the comment at 790-793 ("Auto-control +
  PIR SELALU dievaluasi tiap loop"). `AutoControlActs` names a driver that works.
* An ack that comes before the confirmation of the publish finds no entry
  (`commandHandler.js:98`, `115`); the entry made afterwards times out, and the dashboard is told
  of a timeout of a command that was executed, against "jika tidak ada ACK 8s" (README.md:176)
  and README.md:324-325. `FalseTimeoutIsEarly` says that this is the only case.
* A 401 that comes late for an earlier token removes a newer login, of any tab (`api.ts:53-57`,
  against 51-52); requests are not cancelled at logout. `SessionEndsForReason` lists it among the
  ways a session ends.

And those of which no document speaks, or only in passing:

* The worker reads the registry, the API saves a change, the worker writes its
  older document (`registry.js:52`, `ApiChangesKept`). The two may also rename each
  other's half written temporary file (`FileWhole`).
* The loop reads "automatic", a command switches the relay, sets manual and is
  acknowledged, and the loop switches the relay back (`app_main.c:820-831`).
  `StrayOnce` is what does hold.
* When the device reports its new relay before the request of the button is answered,
  the flip shows the opposite of the relay until the next change
  (`DeviceDetailPage.tsx:339`, against the comment at 188).
* A relay press and a mode press that overlap leave the mode of the earlier one shown
  (`DeviceDetailPage.tsx:341`, `347`); a failed mode press is never taken back.
* A lost command or a crash of the API between publish and patch leaves device and
  registry with different modes or parameters (`commandService.js:16`, `38`, `62`).
* The settings keep the text that was typed and send it rounded: the page shows 600.5 as saved
  where the registry holds 601 (`SettingsPage.tsx:79`, `84`).
* After a save that failed or was refused, the form of the device page counts as saved and shows
  a value the registry does not hold (`DeviceDetailPage.tsx:364-373`).
* A new device is registered as manual while its first boot is automatic
  (`discovery.js:30`, `app_main.c:604`): the dashboard shows manual until the first command.
* A page opened while a reconnect is pending leaves the tab with two sockets, and every
  message arrives twice (`ws.ts:44`, `116-126`). `disconnect()`, "dipanggil saat
  pengguna logout" (`ws.ts:49`), has no caller. A connection lost without a word is never
  noticed: there are no pings.
* `save()` of the settings page stores the draft also when device and API refused
  (`SettingsPage.tsx:84`), and the button stays enabled while a save is under way. A blank
  timeout sends 600 and saves the blank. A read answered late seeds the value before.
* Samples whose counter is committed are lost, and a resend refused, when the worker dies
  before the Influx client has sent its batch, or the database refuses it
  (`telemetryHandler.js:167`, `influxWriter.js:25`).
* Two histories answered out of order leave the points of another range
  (`useTelemetryHistory.ts:46`). An error of the older request empties the chart of the newer.
* Erasing NVS at boot (`app_main.c:587`) restarts the telemetry counter, and the
  worker takes the data of the device for replays.

Met while reading and not modelled as a property:

* A failed power reading counts as 0 W and lets automatic control switch off a load
  (`app_main.c:794`).
* With two packets in a chunk the guard's counter may go back.
* A device the API removed passes the gate once more (`discovery.js:13`, against
  `registry.js:3-4`); `GhostOnce` is what does hold.
* A worker that stops drops its pending commands without reporting them (`worker.js:219`).
  Its error path publishes inside the `catch` (`worker.js:207`), and a failure
  there is an unhandled rejection.
* `PATCH /devices/:id` changes the registry and not the device. `deviceController.setMode`
  has no route. "pir 30–7200" (`DeviceDetailPage.tsx:354`) is clamped at 5.
  `upsert` uses "automatic" where the others use "auto".
* The first fetch of `useDevice` is the only one that may fail loudly, and its error stays
  though later silent refreshes succeed (`useDevice.ts:50`, against 130-132).
* `useDevices` runs on the security page only, which has no route: its notifications
  never fire.
* The head of `useTelemetryHistory.ts` says 30H asks for 7d; `RANGE_MAP` says 30d. The
  chart "24 jam terakhir" starts at midnight (`DeviceDetailPage.tsx:54`, `263`), is never
  loaded again, and is empty on a page left open past midnight.

## 7. Not modelled, and abstractions

* `wifi_manager.c`, `time_sync.c` and the start-up task: planned. `pzem.c`, `pir.c`,
  `oled.c`: frames, debouncing and output; their failures are inputs of `RelayControl`.
* `ascon.c`: the cipher is taken from the JavaScript; its counters are in
  `DeviceTelemetry` and `CommandTracking`.
* JSON schemas, topics, HTTP routes without state, rate limits, health check, live check
  tool, tests, icons, layout, tariffs and notifications of the dashboard, the event log.
* RelayControl: every flash write succeeds, the mutex of `device_state` is granted,
  `ping`, status messages and the screen are left out.
* CommandTracking: one device, unique command ids, timers without durations.
* DeviceRegistry: `label`, `room` and provisioning fields are left out; a document
  is one `write(2)`; disks do not lose what was renamed.
* TelemetryIngest: registry changes are atomic there, the event points of the writer
  are left out, and errors on writing state files too.
* LiveView: the buttons being disabled while the device is shown off line, so the model has more
  presses than the page; the relay shown falling back to the on-line status for a registry entry
  without `relay_on` (`DeviceDetailPage.tsx:178`), which the seeded `devices.json` has until
  the first report of the relay.
* LiveSocket: a constructor of `WebSocket` that throws (`ws.ts:80-83`). It does so for a URL the
  browser does not accept, which is fixed by the configuration; the tab then tries again every 3 s.
* LiveView and Parameters: one device, one dashboard tab, the API and the worker change the
  registry in one step.
* TelemetryHistory: one clock; the windows of the aggregation and readings the sanity
  filter drops are left out.

## 8. Plan

Done: `DeviceTelemetry` with `SampleQueue`, `RelayControl` with `SwitchedSocket`,
`TelemetryIngest` with `EnvelopeLog` and the Influx writer, `DeviceRegistry` with
`RegistryStore`, `CommandTracking` with `CommandLedger`, `AsconAead`, `LiveView` (which took in
the planned `ModeControl`), `Parameters`, `Session`, `LiveSocket`, `TelemetryHistory`.

Next:

1. `StatusChannel`: retained and live status messages, will and ONLINE announcement, error
   acks after ok acks, what a late subscriber believes.
2. `Connectivity`: WiFi retries, the start-up task, MQTT reconnects; "the device
   comes back", and where it does not.
3. `AutoConfig`: the two fields of `config_update` against the loop that evaluates both.
4. `EndToEnd`: telemetry composed with ingest through an at-least-once broker.
5. `Frames`: PZEM frames and their checksum against a reference definition.

The composition of `EndToEnd` can be stated between `SampleQueue` and `EnvelopeLog`, which
the two ends are proved to implement. Theorems to prove: the properties of the modules
above.
