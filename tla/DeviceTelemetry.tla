--------------------------- MODULE DeviceTelemetry ---------------------------
(***************************************************************************)
(* The telemetry path of the smart socket firmware (app_main.c): the ring   *)
(* buffer of power samples, the batch flush with its encryption counter,    *)
(* and the high-water mark of that counter in NVS, across crashes.          *)
(*                                                                          *)
(* A sample is the number of the PZEM reading it came from, so the order of *)
(* sampling is visible in the data.  `sentCtr' and `sentBatch' are history: *)
(* the counter and the samples of the last envelope handed to the MQTT      *)
(* client by any boot of the device.                                        *)
(***************************************************************************)
EXTENDS Naturals, Sequences, FiniteSets

CONSTANTS
  Capacity,   \* TELEMETRY_BUFFER_CAPACITY (180)
  BatchSize,  \* TELEMETRY_BATCH_SIZE (10)
  Reserve,    \* ASCON_CTR_RESERVE (256)
  NvsFaults,  \* which NVS failures may happen, out of AllNvsFaults
  MaxSamples, \* bound: PZEM readings in a behaviour
  MaxBoots    \* bound: boots in a behaviour

\* "lost": the stored value is gone (nvs_flash_erase, or nvs_get_u64 fails)
\* "open": nvs_open fails      "commit": nvs_set_u64 or nvs_commit fails
AllNvsFaults == {"lost", "open", "commit"}

ASSUME ConstantsAssumption ==
  /\ Capacity \in Nat \ {0} /\ BatchSize \in Nat \ {0} /\ Reserve \in Nat
  /\ \E k \in 1 .. Capacity : Capacity = k * BatchSize
  /\ Capacity < Reserve * BatchSize
  /\ NvsFaults \subseteq AllNvsFaults
  /\ MaxSamples \in Nat /\ MaxBoots \in Nat

VARIABLES
  pc,         \* where the main loop stands: "off", "loop", "flush" or "save"
  items, head, count,  \* s_telemetry_buffer
  batchCount, \* s_batch_count
  tx,         \* s_ascon.tx_counter
  hwm,        \* s_ctr_hwm
  nvs,        \* the value of key tx_ctr in flash, 0 when there is none
  reading,    \* the number of the last PZEM reading
  sentCtr, sentBatch,
  boots,
  nvsSound    \* history: whether no NVS call has failed yet

buffer == <<items, head, count>>
sent   == <<sentCtr, sentBatch>>
flash  == <<nvs, nvsSound>>
vars   == <<pc, buffer, batchCount, tx, hwm, flash, reading, sent, boots>>

Slots == 0 .. Capacity - 1

TypeOK ==
  /\ pc \in {"off", "loop", "flush", "save"}
  /\ items \in [Slots -> Nat] /\ head \in Slots /\ count \in 0 .. Capacity
  /\ batchCount \in 0 .. BatchSize
  /\ pc \in {"off", "loop"} => batchCount < BatchSize
  /\ tx \in Nat /\ hwm \in Nat /\ nvs \in Nat
  /\ reading \in Nat /\ boots \in Nat /\ nvsSound \in BOOLEAN
  /\ sentCtr \in Nat /\ sentBatch \in [1 .. BatchSize -> Nat]

Init ==
  /\ pc = "off"
  /\ items = [s \in Slots |-> 0] /\ head = 0 /\ count = 0
  /\ batchCount = 0 /\ tx = 0 /\ hwm = 0 /\ nvs = 0
  /\ reading = 0 /\ boots = 0 /\ nvsSound = TRUE
  /\ sentCtr = 0 /\ sentBatch = [i \in 1 .. BatchSize |-> 0]

-----------------------------------------------------------------------------
(* The ring buffer.                                                         *)

\* The i-th oldest sample in the buffer, counted from 1.
SampleAt(i) == items[(head + i - 1) % Capacity]

\* Mutant of Push: a full buffer overwrites its oldest slot, head stays.
PushKeepsHead(s) ==
  /\ items' = [items EXCEPT ![(head + count) % Capacity] = s]
  /\ count' = IF count = Capacity THEN count ELSE count + 1
  /\ UNCHANGED head

\* telemetry_buffer_push: a full buffer loses its oldest sample.
Push(s) ==
  LET full == count = Capacity
      h    == IF full THEN (head + 1) % Capacity ELSE head
      n    == IF full THEN count - 1 ELSE count
  IN  /\ items' = [items EXCEPT ![(h + n) % Capacity] = s]
      /\ head' = h
      /\ count' = n + 1

\* Mutant of Batch: newest sample first.
BatchNewestFirst == [i \in 1 .. BatchSize |-> SampleAt(count + 1 - i)]

Batch == [i \in 1 .. BatchSize |-> SampleAt(i)]

\* Mutant of DropBatch: one slot short.
DropBatchShort ==
  /\ head' = (head + BatchSize - 1) % Capacity
  /\ count' = count - BatchSize
  /\ UNCHANGED items

DropBatch ==
  /\ head' = (head + BatchSize) % Capacity
  /\ count' = count - BatchSize
  /\ UNCHANGED items

-----------------------------------------------------------------------------
(* The counter in NVS.                                                      *)

Fails(f) == f \in NvsFaults /\ nvsSound' = FALSE

\* Mutant of LoadAndReserve: the reserved mark is not written back.
LoadWithoutReserving == hwm' = nvs + Reserve /\ UNCHANGED flash

\* ascon_ctr_nvs_load_and_reserve; the result of every NVS call but nvs_open
\* is ignored.
LoadAndReserve ==
  \/ hwm' = nvs + Reserve /\ nvs' = hwm' /\ UNCHANGED nvsSound
  \/ Fails("lost") /\ hwm' = Reserve /\ nvs' = hwm'
  \/ Fails("open") /\ hwm' = Reserve /\ UNCHANGED nvs
  \/ Fails("commit") /\ hwm' = nvs + Reserve /\ UNCHANGED nvs

\* ascon_ctr_nvs_maybe_save(tx)
MaybeSave ==
  \/ tx < hwm /\ UNCHANGED <<hwm, flash>>
  \/ tx >= hwm /\ hwm' = tx + Reserve /\ nvs' = hwm' /\ UNCHANGED nvsSound
  \/ tx >= hwm /\ Fails("open") /\ UNCHANGED <<hwm, nvs>>
  \/ tx >= hwm /\ Fails("commit") /\ hwm' = tx + Reserve /\ UNCHANGED nvs

-----------------------------------------------------------------------------
(* The main loop.                                                           *)

Boot ==
  /\ pc = "off" /\ boots < MaxBoots
  /\ LoadAndReserve
  /\ tx' = hwm'
  /\ pc' = "loop" /\ boots' = boots + 1
  /\ UNCHANGED <<buffer, batchCount, reading, sent>>

\* A successful PZEM reading.  The flag mqtt_app_is_connected is written by the
\* MQTT task at any moment, so the loop may read either value.
Sample ==
  /\ pc = "loop" /\ reading < MaxSamples
  /\ reading' = reading + 1
  /\ Push(reading')
  /\ batchCount' = batchCount + 1
  /\ \/ batchCount' < BatchSize /\ pc' = "loop"
     \/ batchCount' >= BatchSize /\ pc' \in {"flush", "save"}
  /\ UNCHANGED <<tx, hwm, flash, sent, boots>>

\* One round of telemetry_buffer_flush whose publish the client accepts.
PublishBatch ==
  /\ pc = "flush" /\ count >= BatchSize
  /\ sentCtr' = tx /\ sentBatch' = Batch
  /\ tx' = tx + 1
  /\ DropBatch
  /\ UNCHANGED <<pc, batchCount, hwm, flash, reading, boots>>

\* The publish is refused: the batch stays in the buffer and its counter is
\* spent.  The client may have stored the envelope before the error.
PublishFails ==
  /\ pc = "flush" /\ count >= BatchSize
  /\ \/ sentCtr' = tx /\ sentBatch' = Batch
     \/ UNCHANGED sent
  /\ tx' = tx + 1
  /\ pc' = "save"
  /\ UNCHANGED <<buffer, batchCount, hwm, flash, reading, boots>>

\* The envelope cannot be built, before or after the counter is spent: the
\* batch is discarded and the loop goes on.
BuildFails ==
  /\ pc = "flush" /\ count >= BatchSize
  /\ tx' \in {tx, tx + 1}
  /\ DropBatch
  /\ UNCHANGED <<pc, batchCount, hwm, flash, reading, sent, boots>>

FlushDone ==
  /\ pc = "flush" /\ count < BatchSize
  /\ pc' = "save"
  /\ UNCHANGED <<buffer, batchCount, tx, hwm, flash, reading, sent, boots>>

\* Mutant of SaveCounter: s_batch_count is not reset.
SaveKeepsBatchCount ==
  /\ pc = "save"
  /\ MaybeSave
  /\ pc' = "loop"
  /\ UNCHANGED <<buffer, batchCount, tx, reading, sent, boots>>

SaveCounter ==
  /\ pc = "save"
  /\ batchCount' = 0
  /\ MaybeSave
  /\ pc' = "loop"
  /\ UNCHANGED <<buffer, tx, reading, sent, boots>>

\* A reset or power cut at any point: everything but flash is lost.
Crash ==
  /\ pc # "off"
  /\ pc' = "off"
  /\ items' = [s \in Slots |-> 0] /\ head' = 0 /\ count' = 0
  /\ batchCount' = 0 /\ tx' = 0 /\ hwm' = 0
  /\ UNCHANGED <<flash, reading, sent, boots>>

Next ==
  \/ Boot \/ Sample \/ PublishBatch \/ PublishFails \/ BuildFails
  \/ FlushDone \/ SaveCounter \/ Crash

Spec == Init /\ [][Next]_vars

-----------------------------------------------------------------------------
(* Properties.                                                              *)

\* As long as no NVS call has failed, the next counter the device will use is
\* above every counter it ever put on the wire, in this boot and, when it is
\* off, in the boot to come: the worker never sees a telemetry counter twice or
\* going back (app_main.c:38-44).
CounterStaysFresh ==
  nvsSound => IF pc = "off" THEN nvs + Reserve > sentCtr ELSE tx > sentCtr

\* The buffer holds exactly the newest `count' readings of this boot, oldest
\* first: the wrap-around of head and tail never leaves a gap, a duplicate or
\* a stale slot (telemetry_buffer_push, telemetry_buffer_flush).
BufferHoldsNewest ==
  \A i \in 1 .. count : SampleAt(i) + count = reading + i

\* A flush that empties all the complete batches leaves no sample behind: the
\* trigger and the buffer stay in step although overflow, failed publishes and
\* discarded batches move them separately (app_main.c:232, 767, 777).
FlushStrandsNothing ==
  /\ TypeOK
  /\ pc = "flush" /\ count < BatchSize => count = 0

\* An envelope holds consecutive readings, oldest first, and two envelopes in a
\* row never step back: the later starts behind the start of the earlier, even
\* when a refused batch is sent again after samples were lost from its front
\* (telemetry_buffer_flush, app_main.c:231-254).
SamplesGoForward ==
  [][sentBatch' # sentBatch =>
       /\ sentBatch'[1] > sentBatch[1]
       /\ \A i \in 1 .. BatchSize - 1 : sentBatch'[i + 1] = sentBatch'[i] + 1]_sent

-----------------------------------------------------------------------------
(* The inductive invariant behind CounterStaysFresh when NVS works: between *)
(* two saves the counter moves by at most one per batch the buffer can      *)
(* hold, and that is less than the reserve.                                 *)

\* Counters spent since the last save, with those the buffer can still spend.
CounterInReserve ==
  nvsSound =>
    /\ pc # "off" => hwm = nvs
    /\ pc = "loop" => tx <= nvs
    /\ pc = "flush" => tx * BatchSize + count <= nvs * BatchSize + Capacity
    /\ pc = "save" => tx * BatchSize <= nvs * BatchSize + Capacity

CounterInv == TypeOK /\ CounterInReserve /\ CounterStaysFresh

(* The one behind FlushStrandsNothing: outside an overflowing buffer the     *)
(* samples that do not fill a batch are those counted since the last trigger.*)
TriggerAligned ==
  /\ pc = "off" => count = 0 /\ batchCount = 0
  /\ pc = "loop" => \/ count = Capacity
                    \/ \E k \in 0 .. Capacity : count = k * BatchSize + batchCount
  /\ pc \in {"flush", "save"} => \E k \in 0 .. Capacity : count = k * BatchSize

-----------------------------------------------------------------------------
(* The abstract queue that the ring buffer implements.                      *)

\* The ring buffer read as a sequence, oldest sample first.
BufferAsQueue == [i \in 1 .. count |-> SampleAt(i)]

Fifo == INSTANCE SampleQueue WITH
          QueueCapacity <- Capacity, Size <- BatchSize,
          Samples <- 1 .. MaxSamples,
          queue <- BufferAsQueue, out <- sentBatch

\* The ring buffer with its flush implements the bounded FIFO of samples
\* (telemetry_buffer_push, telemetry_buffer_flush, app_main.c).
ImplementsSampleQueue == Fifo!Spec

-----------------------------------------------------------------------------
(* The inductive invariant behind SamplesGoForward: the last envelope starts *)
(* before the oldest sample held, or it is the batch a publish left behind. *)
SentBehind ==
  \/ sentBatch[1] + count < reading + 1
  \/ count >= BatchSize /\ \A i \in 1 .. BatchSize : sentBatch[i] + count = reading + i
=============================================================================
