--------------------------- MODULE TelemetryIngest ---------------------------
(***************************************************************************)
(* The telemetry path of the MQTT worker (handleTelemetryMessage): the      *)
(* registry gate, the anti-replay counter with its file, and the             *)
(* connectivity messages that share the registry, across restarts.          *)
(*                                                                          *)
(* A handler runs up to its first await when its packet arrives and goes on *)
(* in microtasks.  mqtt.js hands over all the packets of one read of the    *)
(* socket before any microtask runs, so the handlers of a chunk pass their  *)
(* checks together and only then resume, first come first served: `stage'   *)
(* is "intake" while packets of a chunk come in and "drain" while the       *)
(* microtasks run.                                                          *)
(*                                                                          *)
(* The broker delivers at least once and keeps no order between a packet    *)
(* and its retransmissions: any envelope may arrive at any time.            *)
(***************************************************************************)
EXTENDS Naturals, Sequences, FiniteSets

CONSTANTS
  Devices,
  Samples,       \* samples of an envelope
  PersistEveryN, \* commits of the replay guard between two writes of its file
  AllowAutoRegister,
  MaxCtr,        \* bound: counters the devices use
  MaxChunk,      \* bound: handlers suspended during one read of the socket
  MaxRuns        \* bound: runs of the worker process

ASSUME ConstantsAssumption ==
  /\ Samples \in Nat \ {0} /\ PersistEveryN \in Nat \ {0}
  /\ AllowAutoRegister \in BOOLEAN
  /\ MaxCtr \in Nat \ {0} /\ MaxChunk \in Nat \ {0} /\ MaxRuns \in Nat \ {0}

Ctrs      == 1 .. MaxCtr
Envelopes == [dev : Devices, ctr : Ctrs]
Entries   == {"absent", "offline", "online"}

VARIABLES
  mode,     \* of the process: "up", "closing" (after SIGTERM) or "down"
  stage,    \* of the event loop: "intake" or "drain"
  handlers, \* suspended handlers, in the order they resume
  last,     \* state of the replay guard, 0 for a device it does not know
  saved,    \* replay_state.json
  unsaved,  \* writesSinceFlush
  cache,    \* the registry in memory
  file,     \* devices.json
  buffered, \* samples in the Influx writer, each with its envelope
  runs,
  \* history
  stored,   \* samples of this run in the database
  spilled,  \* whether the writer has lost samples in this run
  accepted, \* envelopes committed in this run, or in the last one when down
  again,    \* those of them committed more than once
  heard,    \* the latest news of each device: "alive", "gone" or "none"
  ghosts,   \* gate passes of each device since the API removed it
  overlapped, \* devices that had two handlers suspended at once in this run
  midway    \* devices last heard of as gone, while a handler of theirs was suspended

guard    == <<last, saved, unsaved>>
registry == <<cache, file>>
writer   == <<buffered, stored, spilled>>
overlaps == <<overlapped, midway>>
history  == <<accepted, again, heard, ghosts, overlaps>>
vars     == <<mode, stage, handlers, guard, registry, writer, runs, history>>

\* left - 1 is the number of samples still to be stored; at Samples + 1 the
\* envelope is archived and not decrypted yet.
Handlers == [env : Envelopes, left : 1 .. Samples + 1]

TypeOK ==
  /\ mode \in {"up", "closing", "down"} /\ stage \in {"intake", "drain"}
  /\ handlers \in Seq(Handlers) /\ Len(handlers) <= MaxChunk
  /\ last \in [Devices -> Nat] /\ saved \in [Devices -> Nat]
  /\ unsaved \in 0 .. PersistEveryN - 1
  /\ cache \in [Devices -> Entries] /\ file \in [Devices -> Entries]
  /\ runs \in 1 .. MaxRuns
  /\ buffered \subseteq Envelopes \X (1 .. Samples)
  /\ stored \subseteq Envelopes \X (1 .. Samples) /\ spilled \in BOOLEAN
  /\ accepted \subseteq Envelopes /\ again \subseteq accepted
  /\ heard \in [Devices -> {"alive", "gone", "none"}]
  /\ ghosts \in [Devices -> Nat]
  /\ overlapped \subseteq Devices /\ midway \subseteq Devices

Init ==
  /\ mode = "up" /\ stage = "intake" /\ handlers = <<>>
  /\ last = [d \in Devices |-> 0] /\ saved = last /\ unsaved = 0
  /\ file \in [Devices -> {"absent", "offline"}] /\ cache = file
  /\ runs = 1
  /\ buffered = {} /\ stored = {} /\ spilled = FALSE
  /\ accepted = {} /\ again = {}
  /\ heard = [d \in Devices |-> "none"] /\ ghosts = [d \in Devices |-> 0]
  /\ overlapped = {} /\ midway = {}

-----------------------------------------------------------------------------
(* The registry as the worker uses it.                                      *)

\* Mutant of TouchSeen: the change is not persisted.
TouchInMemory(d, entry) ==
  /\ cache' = [file EXCEPT ![d] = IF @ = "absent" THEN @ ELSE entry]
  /\ UNCHANGED file

\* Mutant of TouchSeen: a missing entry leaves the old copy in memory.
TouchKeepsStale(d, entry) ==
  IF file[d] = "absent"
  THEN UNCHANGED registry
  ELSE cache' = [file EXCEPT ![d] = entry] /\ file' = cache'

\* touchSeen: the file is read again, and written only when it has the device.
TouchSeen(d, entry) ==
  /\ cache' = [file EXCEPT ![d] = IF @ = "absent" THEN @ ELSE entry]
  /\ file' = cache'

\* upsert of a device seen for the first time.
Register(d) ==
  /\ cache' = [file EXCEPT ![d] = "online"]
  /\ file' = cache'

\* discovery.ingest: exists() looks at the cache alone.
Gate(d) ==
  IF cache[d] # "absent" THEN TouchSeen(d, "online") ELSE Register(d)

Admits(d) == cache[d] # "absent" \/ AllowAutoRegister

-----------------------------------------------------------------------------
(* The replay guard.                                                        *)

\* Mutant of Fresh: the last counter is accepted again.
FreshOrLast(d, c) == c >= last[d]

\* replayGuard.check
Fresh(d, c) == c > last[d]

\* replayGuard.commit, with the flush it makes every PersistEveryN calls.
CommitCtr(d, c) ==
  /\ last' = [last EXCEPT ![d] = c]
  /\ IF unsaved + 1 >= PersistEveryN
     THEN saved' = last' /\ unsaved' = 0
     ELSE unsaved' = unsaved + 1 /\ UNCHANGED saved

\* Mutant of FlushGuard: only the count of unsaved commits is reset.
FlushNothing == unsaved' = 0 /\ UNCHANGED <<last, saved>>

FlushGuard == saved' = last /\ unsaved' = 0 /\ UNCHANGED last

-----------------------------------------------------------------------------
(* Packets.                                                                 *)

Receiving == mode # "down" /\ stage = "intake" /\ Len(handlers) < MaxChunk

\* Devices with a suspended handler.
Suspended == {handlers[i].env.dev : i \in DOMAIN handlers}

\* An envelope arrives and its handler runs to its first await.  After SIGTERM
\* the Influx writer is closed and the handler fails there.
Arrive(d, c) ==
  /\ Receiving
  /\ IF Admits(d)
     THEN /\ Gate(d)
          /\ IF Fresh(d, c) /\ mode = "up"
             THEN /\ handlers' = Append(handlers, [env  |-> [dev |-> d, ctr |-> c],
                                                   left |-> Samples + 1])
                  /\ overlapped' = overlapped \union ({d} \intersect Suspended)
             ELSE UNCHANGED <<handlers, overlapped>>
          /\ heard' = [heard EXCEPT ![d] = "alive"]
          /\ ghosts' = [ghosts EXCEPT ![d] = IF file'[d] = "absent"
                                             THEN @ + 1 ELSE 0]
          /\ midway' = midway \ {d}
     ELSE UNCHANGED <<registry, handlers, heard, ghosts, overlaps>>
  /\ UNCHANGED <<mode, stage, guard, writer, runs, accepted, again>>

\* A connectivity message: ONLINE from the device, OFFLINE from the broker (its
\* last will).  The event and the dashboard message that follow keep no state.
Connectivity(d, news) ==
  /\ Receiving
  /\ TouchSeen(d, IF news = "alive" THEN "online" ELSE "offline")
  /\ heard' = [heard EXCEPT ![d] = news]
  /\ midway' = IF news = "gone" /\ d \in Suspended THEN midway \union {d} ELSE midway \ {d}
  /\ UNCHANGED <<mode, stage, handlers, guard, writer, runs, accepted, again, ghosts, overlapped>>

-----------------------------------------------------------------------------
(* Microtasks.  Each handles the first suspended handler; the event loop      *)
(* takes packets again when none is left.                                   *)

Resuming == mode # "down" /\ handlers # <<>>
NextStage == stage' = IF handlers' = <<>> THEN "intake" ELSE "drain"

\* The envelope does not decrypt, or what it holds is not valid telemetry.
Discard ==
  /\ Resuming /\ Head(handlers).left = Samples + 1
  /\ handlers' = Tail(handlers) /\ NextStage
  /\ UNCHANGED <<mode, guard, registry, writer, runs, history>>

\* writeTelemetrySample: the point waits in the buffer of the writer.
WritePoint(e, n) ==
  /\ buffered' = buffered \union {<<e, n>>}
  /\ UNCHANGED <<stored, spilled>>

\* Decryption with the first sample, or the next sample: stored, and the
\* handler waits behind the others.
StoreSample ==
  /\ Resuming /\ Head(handlers).left > 1
  /\ handlers' = Append(Tail(handlers), [Head(handlers) EXCEPT !.left = @ - 1])
  /\ NextStage
  /\ WritePoint(Head(handlers).env, Head(handlers).left - 1)
  /\ UNCHANGED <<mode, guard, registry, runs, history>>

\* Mutant of Commit: the counter is committed before the last sample is stored.
CommitBeforeLast ==
  /\ Resuming /\ Head(handlers).left = 2
  /\ LET e == Head(handlers).env IN
       /\ CommitCtr(e.dev, e.ctr)
       /\ TouchSeen(e.dev, "online")
       /\ accepted' = accepted \union {e}
       /\ again' = again \union ({e} \intersect accepted)
  /\ handlers' = Tail(handlers) /\ NextStage
  /\ UNCHANGED <<mode, writer, runs, heard, ghosts, overlaps>>

\* All samples are stored: the counter is committed, the device is online.
Commit ==
  /\ Resuming /\ Head(handlers).left = 1
  /\ LET e == Head(handlers).env IN
       /\ CommitCtr(e.dev, e.ctr)
       /\ TouchSeen(e.dev, "online")
       /\ accepted' = accepted \union {e}
       /\ again' = again \union ({e} \intersect accepted)
  /\ handlers' = Tail(handlers) /\ NextStage
  /\ UNCHANGED <<mode, writer, runs, heard, ghosts, overlaps>>

-----------------------------------------------------------------------------
(* The Influx writer sends its buffer when it is full and every few seconds; *)
(* it may be sent in parts, which makes no difference here.                  *)

Sending == mode # "down" /\ stage = "intake" /\ buffered # {}

FlushPoints ==
  /\ Sending
  /\ stored' = stored \union buffered /\ buffered' = {}
  /\ UNCHANGED <<mode, stage, handlers, guard, registry, spilled, runs, history>>

\* The database refuses the points, and three times again.
DropPoints ==
  /\ Sending
  /\ buffered' = {} /\ spilled' = TRUE
  /\ UNCHANGED <<mode, stage, handlers, guard, registry, stored, runs, history>>

-----------------------------------------------------------------------------
(* The API process and the life of the worker.                              *)

\* DELETE /api/devices/:id
ApiRemove(d) ==
  /\ file[d] # "absent"
  /\ file' = [file EXCEPT ![d] = "absent"]
  /\ ghosts' = [ghosts EXCEPT ![d] = 0]
  /\ UNCHANGED <<mode, stage, handlers, guard, cache, writer, runs, accepted, again, heard,
                 overlaps>>

\* SIGTERM or SIGINT, taken between two chunks; it may come again.
Shutdown ==
  /\ Receiving /\ handlers = <<>>
  /\ mode' = "closing"
  /\ FlushGuard
  /\ UNCHANGED <<stage, handlers, registry, writer, runs, history>>

\* Mutant of Exit: the writer is not closed.
ExitUnclosed ==
  /\ mode = "closing" /\ handlers = <<>>
  /\ mode' = "down" /\ buffered' = {}
  /\ UNCHANGED <<stage, handlers, guard, registry, stored, spilled, runs, history>>

\* influxWriter.close, which sends what is buffered, and mqttClient.end are done.
Exit ==
  /\ mode = "closing" /\ handlers = <<>> /\ buffered = {}
  /\ mode' = "down"
  /\ UNCHANGED <<stage, handlers, guard, registry, writer, runs, history>>

\* The process dies anywhere; the files are renamed into place, so each is the
\* old one or the new one.
Crash ==
  /\ mode # "down"
  /\ mode' = "down" /\ stage' = "intake" /\ handlers' = <<>>
  /\ buffered' = {} /\ spilled' = (spilled \/ buffered # {})
  /\ UNCHANGED <<guard, registry, stored, runs, history>>

Start ==
  /\ mode = "down" /\ runs < MaxRuns
  /\ mode' = "up" /\ runs' = runs + 1
  /\ last' = saved /\ unsaved' = 0 /\ cache' = file
  /\ accepted' = {} /\ again' = {} /\ stored' = {} /\ spilled' = FALSE
  /\ overlapped' = {}
  /\ UNCHANGED <<stage, handlers, saved, file, buffered, heard, ghosts, midway>>

Next ==
  \/ \E d \in Devices, c \in Ctrs : Arrive(d, c)
  \/ \E d \in Devices, news \in {"alive", "gone"} : Connectivity(d, news)
  \/ \E d \in Devices : ApiRemove(d)
  \/ Discard \/ StoreSample \/ Commit \/ FlushPoints \/ DropPoints
  \/ Shutdown \/ Exit \/ Crash \/ Start

Spec == Init /\ [][Next]_vars

-----------------------------------------------------------------------------
(* Properties.                                                              *)

\* The worker accepts no envelope twice in a run, whatever the broker repeats
\* or reorders (README.md:145, replayGuard.js).  The code breaks it when two
\* packets of a device come in one chunk.
NoReplayWithinRun == again = {}

\* An envelope is accepted again in a run only if two handlers of its device were
\* suspended together in that run: repetitions, reordering, refused batches, the
\* handlers of other devices and restarts do not get past the guard
\* (telemetryHandler.js:81-167, replayGuard.js:15-36).
ReplayNeedsOverlap == \A e \in again : e.dev \in overlapped

\* The counters a restart forgets: at any moment, and after a crash, fewer than
\* PersistEveryN accepted envelopes would be accepted again by a worker that
\* starts from the file, and none after a clean exit (replayGuard.js:27-33,
\* worker.js:217-238).  Envelopes of a device whose handlers overlapped in the run
\* do not count: they may be committed out of order, newest first.
Forgotten == {e \in accepted : e.dev \notin overlapped /\ e.ctr > saved[e.dev]}
ReplayWindow ==
  /\ TypeOK
  /\ Cardinality(Forgotten) < PersistEveryN
  /\ mode = "closing" => Forgotten = {}

\* An envelope whose counter is committed, so that a repetition would be refused,
\* has all its samples in the database or on their way there, and in the database
\* once the worker has left; not so after the database refused a batch or the worker
\* died with samples in its buffer (telemetryHandler.js:150-167, influxWriter.js:25-34,
\* worker.js:217-238).
AcceptedIsStored ==
  ~spilled => \A e \in accepted, n \in 1 .. Samples :
    <<e, n>> \in IF mode = "down" THEN stored ELSE stored \union buffered

\* The registry file says of a registered device what its latest message or last
\* will said (topics.js:13), whatever the API removes and however handlers overlap,
\* save in one case: an OFFLINE that came while a handler of the same device was
\* suspended is undone by the late touch of that handler (telemetryHandler.js:168,
\* deviceEventHandler.js:195).
WrongOnlyMidway ==
  \A d \in Devices : /\ heard[d] = "alive" => file[d] # "offline"
                     /\ heard[d] = "gone" /\ d \notin midway => file[d] # "online"

\* A device the API removed passes the gate at most once on the stale copy of
\* the registry, even when its packets come in one chunk: the pass itself
\* refreshes the copy (discovery.js:13-16, registry.js:51-54).
GhostOnce == \A d \in Devices : ghosts[d] <= 1

Log == INSTANCE EnvelopeLog WITH
  Window <- PersistEveryN, taken <- accepted, mark <- last,
  samples <- stored \union buffered, lossy <- spilled, loose <- overlapped

\* The worker is a log of envelopes: whatever the broker repeats or reorders,
\* however many packets a chunk holds and wherever the process dies, no envelope is
\* taken before its samples are stored or on their way; and of a device whose
\* handlers have not overlapped in the run, envelopes are taken in the order of
\* their counters, no sample is written twice, and a restart sets the guard back
\* over fewer than PersistEveryN of them (telemetryHandler.js:82-167,
\* replayGuard.js:22-48, influxWriter.js:25-34).
ImplementsLog == Log!Spec
=============================================================================
