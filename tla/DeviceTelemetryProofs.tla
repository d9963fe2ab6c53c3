------------------------ MODULE DeviceTelemetryProofs ------------------------
(***************************************************************************)
(* Proofs about DeviceTelemetry, for every capacity, batch size and reserve *)
(* that satisfy ConstantsAssumption.                                        *)
(***************************************************************************)
EXTENDS DeviceTelemetry, Integers, TLAPS

\* The slot arithmetic of the ring buffer stays inside the array.
LEMMA SlotInRange ==
  ASSUME NEW n \in Nat
  PROVE  n % Capacity \in Slots
  BY ConstantsAssumption DEF Slots

\* A counter spent for every batch the buffer can hold does not use up the
\* reserve.
LEMMA WithinReserve ==
  ASSUME NEW a \in Nat, NEW b \in Nat,
         a * BatchSize <= b * BatchSize + Capacity
  PROVE  a < b + Reserve
<1> DEFINE r == b + Reserve
<1>1. b * BatchSize + Reserve * BatchSize = r * BatchSize
  BY ConstantsAssumption
<1>2. a * BatchSize < r * BatchSize
  BY <1>1, ConstantsAssumption
<1>3. ASSUME a >= r PROVE FALSE
  <2>1. PICK d \in Nat : a = r + d
    BY <1>3, ConstantsAssumption
  <2>2. a * BatchSize = r * BatchSize + d * BatchSize
    BY <2>1, ConstantsAssumption
  <2>3. d * BatchSize \in Nat
    BY ConstantsAssumption
  <2> QED BY <1>2, <2>2, <2>3, ConstantsAssumption
<1> QED BY <1>3, ConstantsAssumption

LEMMA MultiplyMonotone ==
  ASSUME NEW a \in Nat, NEW b \in Nat, a <= b
  PROVE  a * BatchSize <= b * BatchSize
<1>1. PICK d \in Nat : b = a + d
  OBVIOUS
<1>2. b * BatchSize = a * BatchSize + d * BatchSize
  BY <1>1, ConstantsAssumption
<1>3. d * BatchSize \in Nat /\ a * BatchSize \in Nat
  BY ConstantsAssumption
<1> QED BY <1>2, <1>3

\* A product of naturals with a positive factor is at least the other factor.
LEMMA AtMostProduct ==
  ASSUME NEW a \in Nat
  PROVE  a <= a * BatchSize
<1>1. PICK c \in Nat : BatchSize = c + 1
  BY ConstantsAssumption
<1>2. a * BatchSize = a * c + a /\ a * c \in Nat
  BY <1>1
<1> QED BY <1>2

LEMMA AddBoth ==
  ASSUME NEW a \in Nat, NEW b \in Nat, NEW c \in Nat, NEW d \in Nat, a <= b, c <= d
  PROVE  a + c <= b + d /\ a <= b + d
  OBVIOUS

\* The constants are numbers.
LEMMA ConstantTypes ==
  BatchSize \in Nat \ {0} /\ Capacity \in Nat \ {0} /\ Reserve \in Nat
  BY ConstantsAssumption

\* There is a reserve at all.
LEMMA ReservePositive == Reserve > 0
  BY ConstantsAssumption

\* Spending one counter costs one batch.
LEMMA OneMore ==
  ASSUME NEW a \in Nat
  PROVE  (a + 1) * BatchSize = a * BatchSize + BatchSize
  BY ConstantsAssumption

-----------------------------------------------------------------------------
\* Type correctness: the buffer indices, the trigger and the counters of
\* app_main.c stay in range, whatever NVS does.
THEOREM TypeCorrect == Spec => []TypeOK
<1>1. Init => TypeOK
  BY ConstantsAssumption DEF Init, TypeOK, Slots
<1>2. TypeOK /\ [Next]_vars => TypeOK'
  <2> SUFFICES ASSUME TypeOK, [Next]_vars PROVE TypeOK'
    OBVIOUS
  <2> USE ConstantsAssumption
  <2>a. BatchSize \in Nat /\ Capacity \in Nat /\ Reserve \in Nat
    OBVIOUS
  <2>b. \A i \in Nat \ {0} : SampleAt(i) \in Nat
    <3> SUFFICES ASSUME NEW i \in Nat \ {0} PROVE SampleAt(i) \in Nat
      OBVIOUS
    <3>1. head + i - 1 \in Nat
      BY DEF TypeOK, Slots
    <3> QED BY <3>1, SlotInRange DEF TypeOK, SampleAt
  <2>c. Batch \in [1 .. BatchSize -> Nat]
    BY <2>b DEF Batch
  <2>d. DropBatch /\ count >= BatchSize
          => items' \in [Slots -> Nat] /\ head' \in Slots /\ count' \in 0 .. Capacity
    <3> SUFFICES ASSUME DropBatch, count >= BatchSize
                 PROVE  items' \in [Slots -> Nat] /\ head' \in Slots /\ count' \in 0 .. Capacity
      OBVIOUS
    <3>1. head + BatchSize \in Nat
      BY DEF TypeOK, Slots
    <3>2. head' \in Slots
      BY <3>1, SlotInRange DEF DropBatch
    <3>3. count' \in 0 .. Capacity
      BY DEF DropBatch, TypeOK
    <3> QED BY <3>2, <3>3 DEF DropBatch, TypeOK
  <2>1. CASE Boot
    <3>1. hwm' \in Nat /\ nvs' \in Nat
      BY <2>1 DEF Boot, LoadAndReserve, Fails, TypeOK
    <3>2. nvsSound' \in BOOLEAN
      BY <2>1, Zenon DEF Boot, LoadAndReserve, Fails, TypeOK
    <3> QED BY <2>1, <3>1, <3>2 DEF Boot, TypeOK, buffer, sent
  <2>2. CASE Sample
    <3>1. reading' \in Nat /\ count \in Nat /\ head \in Nat /\ Capacity \in Nat \ {0}
      BY <2>2 DEF Sample, TypeOK, Slots
    <3>2. (head + 1) % Capacity \in Slots
      BY <3>1, SlotInRange
    <3>3. items' \in [Slots -> Nat] /\ head' \in Slots /\ count' \in 0 .. Capacity
      BY <2>2, <3>1, <3>2 DEF Sample, Push, TypeOK, Slots
    <3>4. batchCount' \in 0 .. BatchSize /\ (pc' = "loop" => batchCount' < BatchSize)
      BY <2>2 DEF Sample, TypeOK
    <3>5. pc' \in {"loop", "flush", "save"}
      BY <2>2 DEF Sample
    <3> QED BY <2>2, <3>1, <3>3, <3>4, <3>5 DEF Sample, TypeOK, sent, flash
  <2>3. CASE PublishBatch
    BY <2>3, <2>c, <2>d DEF PublishBatch, TypeOK, flash
  <2>4. CASE PublishFails
    BY <2>4, <2>c DEF PublishFails, TypeOK, buffer, sent, flash
  <2>5. CASE BuildFails
    BY <2>5, <2>d DEF BuildFails, TypeOK, sent, flash
  <2>6. CASE FlushDone
    BY <2>6 DEF FlushDone, TypeOK, buffer, sent, flash
  <2>7. CASE SaveCounter
    <3>1. hwm' \in Nat /\ nvs' \in Nat
      BY <2>7 DEF SaveCounter, MaybeSave, Fails, TypeOK, flash
    <3>2. nvsSound' \in BOOLEAN
      BY <2>7, Zenon DEF SaveCounter, MaybeSave, Fails, TypeOK, flash
    <3> QED BY <2>7, <3>1, <3>2 DEF SaveCounter, TypeOK, buffer, sent
  <2>8. CASE Crash
    BY <2>8 DEF Crash, TypeOK, sent, Slots, flash
  <2>9. CASE UNCHANGED vars
    BY <2>9 DEF vars, buffer, sent, TypeOK, flash
  <2> QED BY <2>1, <2>2, <2>3, <2>4, <2>5, <2>6, <2>7, <2>8, <2>9 DEF Next
<1> QED BY <1>1, <1>2, PTL DEF Spec

-----------------------------------------------------------------------------
\* As long as no NVS call fails, the counter the device encrypts with is above every counter
\* it used before, through any number of crashes at any point of the loop: the
\* reserve of ascon_ctr_nvs_load_and_reserve covers what a flush can spend
\* before ascon_ctr_nvs_maybe_save runs.
THEOREM CounterFreshness == Spec => []CounterStaysFresh
<1>1. Init => CounterInReserve /\ CounterStaysFresh
  BY ConstantsAssumption, SMT DEF Init, CounterInReserve, CounterStaysFresh
<1>2. TypeOK /\ CounterInReserve /\ CounterStaysFresh /\ [Next]_vars
        => CounterInReserve' /\ CounterStaysFresh'
  <2> SUFFICES ASSUME TypeOK, CounterInReserve, CounterStaysFresh, [Next]_vars
               PROVE  CounterInReserve' /\ CounterStaysFresh'
    OBVIOUS
  <2> SUFFICES ASSUME nvsSound' PROVE CounterInReserve' /\ CounterStaysFresh'
    BY DEF CounterInReserve, CounterStaysFresh
  <2>s. nvsSound
    BY DEF Next, Boot, LoadAndReserve, Sample, PublishBatch, PublishFails, BuildFails,
           FlushDone, SaveCounter, MaybeSave, Crash, Fails, flash, vars
  <2> USE <2>s
  <2>a. /\ BatchSize \in Nat /\ Capacity \in Nat /\ Reserve \in Nat
        /\ tx \in Nat /\ nvs \in Nat /\ hwm \in Nat /\ sentCtr \in Nat /\ count \in Nat
    BY ConstantTypes DEF TypeOK
  <2>b. (tx + 1) * BatchSize = tx * BatchSize + BatchSize
    BY <2>a, OneMore
  <2>c. tx * BatchSize \in Nat /\ nvs * BatchSize \in Nat
    BY <2>a
  <2>1. CASE Boot
    BY <2>1, <2>a DEF Boot, LoadAndReserve, Fails, CounterInReserve, CounterStaysFresh, sent, flash
  <2>2. CASE Sample
    <3>1. tx <= nvs => tx * BatchSize <= nvs * BatchSize
      BY <2>a, MultiplyMonotone
    <3>2. count' \in Nat /\ count' <= Capacity
      BY <2>2, ConstantTypes DEF Sample, Push, TypeOK
    <3>3. /\ pc = "loop" /\ pc' \in {"loop", "flush", "save"} /\ tx <= nvs
          /\ tx' = tx /\ hwm' = hwm /\ nvs' = nvs /\ sentCtr' = sentCtr
          /\ hwm = nvs
      BY <2>2, <2>a DEF Sample, CounterInReserve, sent, flash
    <3>4. /\ tx * BatchSize + count' <= nvs * BatchSize + Capacity
          /\ tx * BatchSize <= nvs * BatchSize + Capacity
      BY <2>a, <2>c, <3>1, <3>2, <3>3, AddBoth
    <3>5. CounterInReserve'
      BY <3>3, <3>4 DEF CounterInReserve
    <3> QED BY <3>3, <3>5 DEF CounterStaysFresh
  <2>3. CASE PublishBatch
    BY <2>3, <2>a, <2>b DEF PublishBatch, DropBatch, CounterInReserve, CounterStaysFresh, flash
  <2>4. CASE PublishFails
    BY <2>4, <2>a, <2>b DEF PublishFails, CounterInReserve, CounterStaysFresh, buffer, sent, flash
  <2>5. CASE BuildFails
    <3>1. CASE tx' = tx
      BY <2>5, <3>1, <2>a, <2>c
         DEF BuildFails, DropBatch, CounterInReserve, CounterStaysFresh, sent, flash
    <3>2. CASE tx' = tx + 1
      BY <2>5, <3>2, <2>a, <2>b, <2>c
         DEF BuildFails, DropBatch, CounterInReserve, CounterStaysFresh, sent, flash
    <3> QED BY <2>5, <3>1, <3>2 DEF BuildFails
  <2>6. CASE FlushDone
    <3>1. tx * BatchSize <= nvs * BatchSize + Capacity
      BY <2>6, <2>a, <2>c DEF FlushDone, CounterInReserve
    <3> QED BY <2>6, <2>a, <3>1 DEF FlushDone, CounterInReserve, CounterStaysFresh, sent, flash
  <2>7. CASE SaveCounter
    BY <2>7, <2>a, ReservePositive DEF SaveCounter, MaybeSave, Fails, CounterInReserve, CounterStaysFresh, sent, flash
  <2>8. CASE Crash
    <3>1. tx < nvs + Reserve
      <4>1. pc = "loop" => tx < nvs + Reserve
        BY <2>a, ReservePositive DEF CounterInReserve
      <4>2. pc \in {"flush", "save"} => tx * BatchSize <= nvs * BatchSize + Capacity
        BY <2>a, <2>c DEF CounterInReserve
      <4> QED BY <2>8, <2>a, <4>1, <4>2, WithinReserve DEF Crash, TypeOK
    <3> QED BY <2>8, <2>a, <3>1 DEF Crash, CounterInReserve, CounterStaysFresh, sent, flash
  <2>9. CASE UNCHANGED vars
    BY <2>9 DEF vars, buffer, sent, flash, CounterInReserve, CounterStaysFresh
  <2> QED BY <2>1, <2>2, <2>3, <2>4, <2>5, <2>6, <2>7, <2>8, <2>9 DEF Next
<1> QED BY <1>1, <1>2, TypeCorrect, PTL DEF Spec
-----------------------------------------------------------------------------
\* Indices wrap at most once.
LEMMA Wrap ==
  ASSUME NEW a \in Nat, a < Capacity + Capacity
  PROVE  a % Capacity = IF a < Capacity THEN a ELSE a - Capacity
<1>1. CASE a < Capacity
  BY <1>1, ConstantTypes
<1>2. CASE a >= Capacity
  <2>1. PICK b \in Nat : a = b + Capacity /\ b < Capacity
    BY <1>2, ConstantTypes
  <2>2. a % Capacity = b
    BY <2>1, ConstantTypes
  <2> QED BY <1>2, <2>1, <2>2, ConstantTypes
<1> QED BY <1>1, <1>2, ConstantTypes

\* The buffer of telemetry_buffer_push and telemetry_buffer_flush holds the
\* newest readings in order, with no gap, for every capacity and batch size.
THEOREM NewestReadings == Spec => []BufferHoldsNewest
<1>1. Init => BufferHoldsNewest
  BY DEF Init, BufferHoldsNewest
<1>2. TypeOK /\ BufferHoldsNewest /\ [Next]_vars => BufferHoldsNewest'
  <2> SUFFICES ASSUME TypeOK, BufferHoldsNewest, [Next]_vars
               PROVE  BufferHoldsNewest'
    OBVIOUS
  <2>a. /\ head \in Nat /\ head < Capacity /\ count \in Nat /\ count <= Capacity
        /\ reading \in Nat /\ Capacity \in Nat /\ Capacity > 0
        /\ BatchSize \in Nat /\ BatchSize > 0
    BY ConstantTypes DEF TypeOK, Slots
  <2>b. UNCHANGED <<items, head, count, reading>> => BufferHoldsNewest'
    BY DEF BufferHoldsNewest, SampleAt
  <2>1. CASE Sample
    <3>1. CASE count < Capacity
      <4>1. /\ items' = [items EXCEPT ![(head + count) % Capacity] = reading + 1]
            /\ head' = head /\ count' = count + 1 /\ reading' = reading + 1
        <5>1. count # Capacity
          BY <3>1, <2>a
        <5>2. Push(reading + 1) /\ reading' = reading + 1
          BY <2>1 DEF Sample
        <5> QED BY <5>1, <5>2 DEF Push
      <4>2. SUFFICES ASSUME NEW i \in 1 .. count'
                     PROVE  SampleAt(i)' + count' = reading' + i
        BY DEF BufferHoldsNewest
      <4>3. CASE i = count + 1
        <5>1. SampleAt(i)' = reading + 1
          BY <4>1, <4>3, <2>a, SlotInRange DEF SampleAt, TypeOK
        <5> QED BY <4>1, <4>3, <5>1, <2>a
      <4>4. CASE i <= count
        <5>1. (head + i - 1) % Capacity # (head + count) % Capacity
          BY <4>1, <4>4, <3>1, <2>a, Wrap
        <5>2. (head + i - 1) % Capacity \in Slots
          BY <4>4, <2>a, SlotInRange
        <5>3. SampleAt(i)' = SampleAt(i)
          BY <4>1, <5>1, <5>2 DEF SampleAt, TypeOK
        <5>4. SampleAt(i) + count = reading + i
          BY <4>1, <4>4, <2>a DEF BufferHoldsNewest
        <5>5. SampleAt(i) \in Nat
          BY <5>2 DEF SampleAt, TypeOK
        <5> QED BY <4>1, <5>3, <5>4, <5>5, <2>a
      <4> QED BY <4>1, <4>3, <4>4, <2>a
    <3>2. CASE count = Capacity
      <4> DEFINE h == (head + 1) % Capacity
      <4>1. /\ items' = [items EXCEPT ![(h + (Capacity - 1)) % Capacity] = reading + 1]
            /\ head' = h /\ count' = Capacity /\ reading' = reading + 1
        BY <2>1, <3>2, <2>a DEF Sample, Push
      <4>2. SUFFICES ASSUME NEW i \in 1 .. Capacity
                     PROVE  SampleAt(i)' + Capacity = reading + 1 + i
        BY <4>1 DEF BufferHoldsNewest
      <4>3. h \in Nat /\ h < Capacity
        BY <2>a, SlotInRange DEF Slots
      <4>4. CASE i = Capacity
        <5>1. (h + (Capacity - 1)) % Capacity \in Slots
          BY <4>3, <2>a, SlotInRange
        <5>2. SampleAt(i)' = reading + 1
          BY <4>1, <4>4, <5>1, <4>3, <2>a DEF SampleAt, TypeOK
        <5> QED BY <4>4, <5>2, <2>a
      <4>5. CASE i < Capacity
        <5>1. (h + i - 1) % Capacity # (h + (Capacity - 1)) % Capacity
          BY <4>3, <4>5, <2>a, Wrap
        <5>2. (h + i - 1) % Capacity \in Slots
          BY <4>3, <4>5, <2>a, SlotInRange
        <5>3. (h + i - 1) % Capacity = (head + (i + 1) - 1) % Capacity
          BY <4>3, <4>5, <2>a, Wrap
        <5>4. SampleAt(i)' = SampleAt(i + 1)
          BY <4>1, <5>1, <5>2, <5>3 DEF SampleAt, TypeOK
        <5>5. SampleAt(i + 1) + Capacity = reading + (i + 1)
          BY <3>2, <4>5, <2>a DEF BufferHoldsNewest
        <5>6. SampleAt(i + 1) \in Nat
          BY <5>2, <5>3 DEF SampleAt, TypeOK
        <5> QED BY <5>4, <5>5, <5>6, <2>a
      <4> QED BY <4>4, <4>5, <2>a
    <3> QED BY <3>1, <3>2, <2>a
  <2>2. ASSUME DropBatch, reading' = reading, count >= BatchSize
        PROVE  BufferHoldsNewest'
    <3>1. /\ head' = (head + BatchSize) % Capacity /\ items' = items
          /\ count' = count - BatchSize
      BY <2>2 DEF DropBatch
    <3>2. SUFFICES ASSUME NEW i \in 1 .. count - BatchSize
                   PROVE  SampleAt(i)' + (count - BatchSize) = reading + i
      BY <3>1, <2>2 DEF BufferHoldsNewest
    <3>3. i \in Nat /\ i > 0 /\ i + BatchSize <= count
      BY <2>a, <2>2
    <3>4. (((head + BatchSize) % Capacity) + i - 1) % Capacity
            = (head + (i + BatchSize) - 1) % Capacity
      BY <3>3, <2>a, Wrap
    <3>5. SampleAt(i)' = SampleAt(i + BatchSize)
      BY <3>1, <3>4 DEF SampleAt
    <3>6. SampleAt(i + BatchSize) + count = reading + (i + BatchSize)
      BY <3>3, <2>a DEF BufferHoldsNewest
    <3>7. SampleAt(i + BatchSize) \in Nat
      <4>1. head + (i + BatchSize) - 1 \in Nat
        BY <3>3, <2>a
      <4> QED BY <4>1, SlotInRange DEF SampleAt, TypeOK
    <3> QED BY <3>5, <3>6, <3>7, <3>3, <2>a
  <2>3. CASE PublishBatch
    BY <2>2, <2>3 DEF PublishBatch
  <2>4. CASE BuildFails
    BY <2>2, <2>4 DEF BuildFails
  <2>5. CASE Crash
    BY <2>5 DEF Crash, BufferHoldsNewest
  <2>6. CASE Boot \/ PublishFails \/ FlushDone \/ SaveCounter \/ UNCHANGED vars
    BY <2>6, <2>b DEF Boot, PublishFails, FlushDone, SaveCounter, vars, buffer
  <2> QED BY <2>1, <2>3, <2>4, <2>5, <2>6 DEF Next
<1> QED BY <1>1, <1>2, TypeCorrect, PTL DEF Spec
-----------------------------------------------------------------------------
\* A flush that sends all the complete batches leaves the buffer empty: the
\* overflow of telemetry_buffer_push and the trigger of the main loop stay
\* aligned because the capacity is a multiple of the batch size.
THEOREM NothingStranded == Spec => []FlushStrandsNothing
<1>1. Init => TriggerAligned
  BY DEF Init, TriggerAligned
<1>2. TypeOK /\ TriggerAligned /\ [Next]_vars => TriggerAligned'
  <2> SUFFICES ASSUME TypeOK, TriggerAligned, [Next]_vars
               PROVE  TriggerAligned'
    OBVIOUS
  <2>a. /\ count \in Nat /\ count <= Capacity /\ batchCount \in Nat
        /\ Capacity \in Nat /\ Capacity > 0 /\ BatchSize \in Nat /\ BatchSize > 0
    BY ConstantTypes DEF TypeOK
  <2>b. PICK m \in 1 .. Capacity : Capacity = m * BatchSize
    BY ConstantsAssumption
  <2>1. CASE Boot
    <3>1. count' = 0 /\ batchCount' = 0 /\ pc' = "loop"
      BY <2>1 DEF Boot, TriggerAligned, buffer
    <3>2. count' = 0 * BatchSize + batchCount' /\ 0 \in 0 .. Capacity
      BY <3>1, <2>a
    <3> QED BY <3>1, <3>2 DEF TriggerAligned
  <2>2. CASE Sample
    <3>0. /\ pc = "loop" /\ batchCount' = batchCount + 1 /\ batchCount < BatchSize
          /\ pc' = "loop" \/ (pc' \in {"flush", "save"} /\ batchCount' = BatchSize)
      BY <2>2, <2>a DEF Sample, TypeOK
    <3>1. CASE count = Capacity
      <4>1. count' = Capacity
        BY <2>2, <3>1, <2>a DEF Sample, Push
      <4> QED BY <3>0, <4>1, <2>b, <2>a DEF TriggerAligned
    <3>2. CASE count # Capacity
      <4>1. count' = count + 1
        <5>1. Push(reading + 1)
          BY <2>2 DEF Sample
        <5> QED BY <5>1, <3>2 DEF Push
      <4>2. PICK k \in 0 .. Capacity : count = k * BatchSize + batchCount
        BY <3>0, <3>2 DEF TriggerAligned
      <4>3. k * BatchSize \in Nat
        BY <4>2, <2>a
      <4>4. count' = k * BatchSize + batchCount'
        BY <4>1, <4>2, <4>3, <3>0, <2>a
      <4>5. CASE pc' = "loop"
        BY <4>4, <4>5 DEF TriggerAligned
      <4>6. CASE pc' \in {"flush", "save"}
        <5>1. count' = (k + 1) * BatchSize
          BY <4>4, <4>6, <3>0, <4>2, <2>a, OneMore
        <5>2. k < Capacity
          BY <4>1, <5>1, <4>2, <3>2, <2>a, AtMostProduct
        <5> QED BY <5>1, <5>2, <4>6, <2>a DEF TriggerAligned
      <4> QED BY <4>5, <4>6, <3>0
    <3> QED BY <3>1, <3>2
  <2>3. ASSUME DropBatch, count >= BatchSize, pc = "flush", pc' = "flush"
        PROVE  TriggerAligned'
    <3>1. PICK k \in 0 .. Capacity : count = k * BatchSize
      BY <2>3 DEF TriggerAligned
    <3>2. k > 0
      BY <3>1, <2>3, <2>a
    <3>3. PICK j \in Nat : k = j + 1
      BY <3>1, <3>2
    <3>4. count = j * BatchSize + BatchSize /\ j * BatchSize \in Nat
      BY <3>1, <3>3, <2>a, OneMore
    <3>5. count' = j * BatchSize
      BY <2>3, <3>4, <2>a DEF DropBatch
    <3> QED BY <3>1, <3>3, <3>5, <2>3, <2>a DEF TriggerAligned
  <2>4. CASE PublishBatch
    BY <2>3, <2>4 DEF PublishBatch
  <2>5. CASE BuildFails
    BY <2>3, <2>5 DEF BuildFails
  <2>6. CASE PublishFails \/ FlushDone
    BY <2>6 DEF PublishFails, FlushDone, buffer, TriggerAligned
  <2>7. CASE SaveCounter
    <3>1. PICK k \in 0 .. Capacity : count = k * BatchSize
      BY <2>7 DEF SaveCounter, TriggerAligned
    <3>2. count' = k * BatchSize + batchCount'
      BY <2>7, <3>1, <2>a DEF SaveCounter, buffer
    <3> QED BY <2>7, <3>2 DEF SaveCounter, TriggerAligned
  <2>8. CASE Crash
    BY <2>8 DEF Crash, TriggerAligned
  <2>9. CASE UNCHANGED vars
    BY <2>9 DEF vars, buffer, TriggerAligned
  <2> QED BY <2>1, <2>2, <2>4, <2>5, <2>6, <2>7, <2>8, <2>9 DEF Next
<1>3. TypeOK /\ TriggerAligned => FlushStrandsNothing
  <2> SUFFICES ASSUME TypeOK, TriggerAligned, pc = "flush", count < BatchSize
               PROVE  count = 0
    BY DEF FlushStrandsNothing
  <2>1. PICK k \in 0 .. Capacity : count = k * BatchSize
    BY DEF TriggerAligned
  <2>2. CASE k = 0
    BY <2>1, <2>2, ConstantTypes
  <2>3. CASE k > 0
    <3>1. PICK j \in Nat : k = j + 1
      BY <2>1, <2>3, ConstantTypes
    <3>2. count = j * BatchSize + BatchSize /\ j * BatchSize \in Nat
      BY <2>1, <3>1, ConstantTypes, OneMore
    <3> QED BY <3>2, ConstantTypes
  <2> QED BY <2>1, <2>2, <2>3, ConstantTypes
<1> QED BY <1>1, <1>2, <1>3, TypeCorrect, PTL DEF Spec

-----------------------------------------------------------------------------
(* Envelopes in the order of sampling.                                      *)

\* What the numbers in the state are.
LEMMA Numbers ==
  ASSUME TypeOK
  PROVE  /\ count \in Nat /\ count <= Capacity /\ reading \in Nat
         /\ Capacity \in Nat /\ Capacity > 0 /\ BatchSize \in Nat /\ BatchSize > 0
         /\ 1 \in 1 .. BatchSize /\ sentBatch \in [1 .. BatchSize -> Nat]
         /\ sentBatch[1] \in Nat
<1>1. BatchSize \in Nat /\ BatchSize > 0
  BY ConstantTypes
<1>2. sentBatch \in [1 .. BatchSize -> Nat] /\ 1 \in 1 .. BatchSize
  BY <1>1 DEF TypeOK
<1> QED  BY <1>1, <1>2, ConstantTypes DEF TypeOK

\* The batch taken from the buffer holds the oldest of the newest readings.
LEMMA BatchNumbers ==
  ASSUME TypeOK, BufferHoldsNewest, count >= BatchSize
  PROVE  /\ DOMAIN Batch = 1 .. BatchSize
         /\ \A i \in 1 .. BatchSize : Batch[i] \in Nat /\ Batch[i] + count = reading + i
<1> SUFFICES ASSUME NEW i \in 1 .. BatchSize
             PROVE  SampleAt(i) \in Nat /\ SampleAt(i) + count = reading + i
  BY DEF Batch
<1>1. head + i - 1 \in Nat
  BY Numbers DEF TypeOK, Slots
<1>2. SampleAt(i) \in Nat
  BY <1>1, SlotInRange DEF SampleAt, TypeOK
<1> QED  BY <1>2, Numbers DEF BufferHoldsNewest

\* Two batches that agree are equal.
LEMMA SameBatch ==
  ASSUME NEW f \in [1 .. BatchSize -> Nat], NEW g \in [1 .. BatchSize -> Nat],
         \A i \in 1 .. BatchSize : f[i] = g[i]
  PROVE  f = g
<1>1. f = [i \in 1 .. BatchSize |-> f[i]] /\ g = [i \in 1 .. BatchSize |-> g[i]]
  OBVIOUS
<1>2. [i \in 1 .. BatchSize |-> f[i]] = [i \in 1 .. BatchSize |-> g[i]]
  OBVIOUS
<1> QED  BY <1>1, <1>2

\* The last envelope is behind the buffer, or still at its front.
LEMMA SentBehindInvariant == Spec => []SentBehind
<1>1. Init => SentBehind
  BY ConstantTypes DEF Init, SentBehind
<1>2. ASSUME TypeOK, TypeOK', BufferHoldsNewest, SentBehind, [Next]_vars
      PROVE  SentBehind'
  <2> USE <1>2
  <2>1. CASE Sample
    <3>1. /\ reading' = reading + 1 /\ sentBatch' = sentBatch
          /\ (count' = count + 1 \/ (count = Capacity /\ count' = count))
      BY <2>1, Numbers DEF Sample, Push, sent
    <3>2. CASE sentBatch[1] + count < reading + 1
      BY <3>1, <3>2, Numbers DEF SentBehind
    <3>3. CASE /\ count >= BatchSize
               /\ \A i \in 1 .. BatchSize : sentBatch[i] + count = reading + i
      <4>1. CASE count' = count
        <5>1. sentBatch[1] + count = reading + 1
          BY <3>3, Numbers
        <5> QED  BY <3>1, <4>1, <5>1, Numbers DEF SentBehind
      <4>2. CASE count' = count + 1
        <5>1. ASSUME NEW i \in 1 .. BatchSize PROVE sentBatch'[i] + count' = reading' + i
          <6>1. i \in Nat /\ sentBatch[i] \in Nat /\ count \in Nat /\ reading \in Nat
            BY Numbers
          <6>2. sentBatch[i] + count = reading + i
            BY <3>3
          <6> QED  BY <3>1, <4>2, <6>1, <6>2
        <5> QED  BY <3>3, <4>2, <5>1, Numbers DEF SentBehind
      <4> QED  BY <3>1, <4>1, <4>2
    <3> QED  BY <3>2, <3>3 DEF SentBehind
  <2>2. CASE PublishBatch
    <3>1. /\ count' = count - BatchSize /\ reading' = reading /\ count >= BatchSize
          /\ sentBatch' = Batch
      BY <2>2 DEF PublishBatch, DropBatch
    <3>2. sentBatch'[1] + count = reading + 1 /\ sentBatch'[1] \in Nat
      BY <3>1, BatchNumbers, Numbers
    <3> QED  BY <3>1, <3>2, Numbers DEF SentBehind
  <2>3. CASE PublishFails
    <3>1. UNCHANGED <<count, reading>> /\ count >= BatchSize
          /\ (sentBatch' = Batch \/ sentBatch' = sentBatch)
      BY <2>3 DEF PublishFails, buffer, sent
    <3> QED  BY <3>1, BatchNumbers DEF SentBehind
  <2>4. CASE BuildFails
    <3>1. /\ count' = count - BatchSize /\ reading' = reading /\ count >= BatchSize
          /\ sentBatch' = sentBatch
      BY <2>4 DEF BuildFails, DropBatch, sent
    <3>2. sentBatch[1] + count <= reading + 1
      BY Numbers DEF SentBehind
    <3> QED  BY <3>1, <3>2, Numbers DEF SentBehind
  <2>5. CASE Crash
    <3>1. count' = 0 /\ reading' = reading /\ sentBatch' = sentBatch
      BY <2>5 DEF Crash, sent
    <3>2. sentBatch[1] < reading + 1
      BY Numbers DEF SentBehind
    <3> QED  BY <3>1, <3>2, Numbers DEF SentBehind
  <2>6. CASE Boot \/ FlushDone \/ SaveCounter \/ UNCHANGED vars
    BY <2>6 DEF Boot, FlushDone, SaveCounter, vars, buffer, sent, SentBehind
  <2> QED  BY <2>1, <2>2, <2>3, <2>4, <2>5, <2>6 DEF Next
<1> QED  BY <1>1, <1>2, TypeCorrect, NewestReadings, PTL DEF Spec

\* A batch holds consecutive readings.
LEMMA BatchRuns ==
  ASSUME TypeOK, BufferHoldsNewest, count >= BatchSize, NEW i \in 1 .. BatchSize - 1
  PROVE  Batch[i + 1] = Batch[i] + 1
<1>1. i \in 1 .. BatchSize /\ i + 1 \in 1 .. BatchSize /\ i \in Nat
  BY Numbers
<1>2. /\ Batch[i] \in Nat /\ Batch[i] + count = reading + i
      /\ Batch[i + 1] \in Nat /\ Batch[i + 1] + count = reading + (i + 1)
  BY <1>1, BatchNumbers
<1>3. count \in Nat /\ reading \in Nat
  BY Numbers
<1> QED  BY <1>1, <1>2, <1>3

\* SamplesGoForward for every capacity and batch size: what telemetry_buffer_flush
\* sends is consecutive and never steps back, refused batches and crashes included
\* (app_main.c:231-254).
THEOREM EnvelopesInOrder == Spec => SamplesGoForward
<1> DEFINE Forward == sentBatch' # sentBatch =>
                        /\ sentBatch'[1] > sentBatch[1]
                        /\ \A i \in 1 .. BatchSize - 1 : sentBatch'[i + 1] = sentBatch'[i] + 1
<1>1. ASSUME TypeOK, TypeOK', BufferHoldsNewest, SentBehind, [Next]_vars
      PROVE  [Forward]_sent
  <2> USE <1>1
  <2> SUFFICES ASSUME sentBatch' # sentBatch PROVE Forward
    OBVIOUS
  <2>1. count >= BatchSize /\ sentBatch' = Batch
    BY DEF Next, Boot, Sample, PublishBatch, PublishFails, BuildFails, FlushDone,
           SaveCounter, Crash, vars, sent
  <2>2. sentBatch[1] + count < reading + 1
    <3> SUFFICES ASSUME \A i \in 1 .. BatchSize : sentBatch[i] + count = reading + i
                 PROVE  FALSE
      BY DEF SentBehind
    <3>1. ASSUME NEW i \in 1 .. BatchSize PROVE sentBatch'[i] = sentBatch[i]
      <4>1. i \in Nat /\ sentBatch[i] \in Nat /\ count \in Nat /\ reading \in Nat
        BY Numbers
      <4>2. Batch[i] \in Nat /\ Batch[i] + count = reading + i
        BY <2>1, BatchNumbers
      <4>3. sentBatch[i] + count = reading + i
        OBVIOUS
      <4> QED  BY <2>1, <4>1, <4>2, <4>3
    <3>2. sentBatch \in [1 .. BatchSize -> Nat] /\ sentBatch' \in [1 .. BatchSize -> Nat]
      BY DEF TypeOK
    <3>3. sentBatch' = sentBatch
      BY <3>1, <3>2, SameBatch
    <3> QED  BY <3>3
  <2>3. sentBatch'[1] > sentBatch[1]
    <3>1. /\ Batch[1] \in Nat /\ sentBatch[1] \in Nat /\ count \in Nat /\ reading \in Nat
          /\ Batch[1] + count = reading + 1
      BY <2>1, BatchNumbers, Numbers
    <3> QED  BY <2>1, <2>2, <3>1
  <2>4. ASSUME NEW i \in 1 .. BatchSize - 1 PROVE sentBatch'[i + 1] = sentBatch'[i] + 1
    <3>1. Batch[i + 1] = Batch[i] + 1
      BY <2>1, BatchRuns
    <3> QED  BY <2>1, <3>1
  <2> QED  BY <2>3, <2>4
<1> QED
  BY <1>1, TypeCorrect, NewestReadings, SentBehindInvariant, PTL DEF Spec, SamplesGoForward

-----------------------------------------------------------------------------
(* The ring buffer implements the queue.                                    *)

\* The readings r - c + 1 .. r, oldest first.
Window(r, c) == [i \in 1 .. c |-> r - c + i]

\* What the queue operations do to a window of readings.
LEMMA WindowGrows ==
  ASSUME NEW r \in Nat, NEW c \in Nat
  PROVE  /\ Window(r, c) \in Seq(Int) /\ Len(Window(r, c)) = c
         /\ Append(Window(r, c), r + 1) = Window(r + 1, c + 1)
<1>1. Window(r, c) \in Seq(Int) /\ Len(Window(r, c)) = c
  BY DEF Window
<1>2. Append(Window(r, c), r + 1) = Window(r + 1, c + 1)
  <2>1. Append(Window(r, c), r + 1) \in Seq(Int) /\ Window(r + 1, c + 1) \in Seq(Int)
    BY <1>1 DEF Window
  <2>2. Len(Append(Window(r, c), r + 1)) = c + 1 /\ Len(Window(r + 1, c + 1)) = c + 1
    BY <1>1 DEF Window
  <2>3. ASSUME NEW i \in 1 .. c + 1
        PROVE  Append(Window(r, c), r + 1)[i] = Window(r + 1, c + 1)[i]
    <3>1. CASE i <= c
      BY <1>1, <3>1 DEF Window
    <3>2. CASE i = c + 1
      BY <1>1, <3>2 DEF Window
    <3>3. i <= c \/ i = c + 1
      OBVIOUS
    <3> QED  BY <3>1, <3>2, <3>3
  <2> QED  BY <2>1, <2>2, <2>3
<1> QED  BY <1>1, <1>2

\* Batches and single readings leave it at the old end.
LEMMA WindowShrinks ==
  ASSUME NEW r \in Nat, NEW c \in Nat, NEW n \in Nat, n <= c
  PROVE  /\ SubSeq(Window(r, c), 1, n) = [i \in 1 .. n |-> r - c + i]
         /\ SubSeq(Window(r, c), n + 1, c) = Window(r, c - n)
         /\ c > 0 => Tail(Window(r, c)) = Window(r, c - 1)
<1>1. Window(r, c) \in Seq(Int) /\ Len(Window(r, c)) = c
  BY WindowGrows
<1>2. SubSeq(Window(r, c), 1, n) = [i \in 1 .. n |-> r - c + i]
  BY <1>1 DEF Window
<1>3. SubSeq(Window(r, c), n + 1, c) = Window(r, c - n)
  <2>1. SubSeq(Window(r, c), n + 1, c) = [i \in 1 .. c - n |-> Window(r, c)[n + i]]
    BY <1>1
  <2>2. ASSUME NEW i \in 1 .. c - n PROVE Window(r, c)[n + i] = r - (c - n) + i
    BY DEF Window
  <2> QED  BY <2>1, <2>2 DEF Window
<1>4. c > 0 => Tail(Window(r, c)) = Window(r, c - 1)
  BY <1>1 DEF Window
<1> QED  BY <1>2, <1>3, <1>4
\* The refinement mapping in terms of readings.
BufferIsWindow == BufferAsQueue = Window(reading, count)

\* The buffer read as a queue is a window of the readings.
LEMMA QueueOfReadings == Spec => []BufferIsWindow
<1>1. TypeOK /\ BufferHoldsNewest => BufferIsWindow
  <2> SUFFICES ASSUME TypeOK, BufferHoldsNewest, NEW i \in 1 .. count
               PROVE  SampleAt(i) = reading - count + i
    BY DEF BufferIsWindow, BufferAsQueue, Window
  <2>1. head + i - 1 \in Nat
    BY Numbers DEF TypeOK, Slots
  <2>2. SampleAt(i) \in Nat /\ i \in Nat
    BY <2>1, SlotInRange, Numbers DEF SampleAt, TypeOK
  <2>3. SampleAt(i) + count = reading + i
    BY DEF BufferHoldsNewest
  <2> QED  BY <2>2, <2>3, Numbers
<1> QED  BY <1>1, TypeCorrect, NewestReadings, PTL

\* The ring buffer, its flush, its overflow and its resets implement the FIFO
\* of the newest samples that SampleQueue states, for every capacity and batch
\* size (telemetry_buffer_push, telemetry_buffer_flush, app_main.c:206-260).
THEOREM BufferIsQueue == Spec => ImplementsSampleQueue
<1>1. Init => Fifo!Init
  BY DEF Init, Fifo!Init, BufferAsQueue
<1>2. ASSUME TypeOK, TypeOK', BufferHoldsNewest, BufferIsWindow, BufferIsWindow', [Next]_vars
      PROVE  [Fifo!Next]_<<BufferAsQueue, sentBatch>>
  <2> USE <1>2
  <2>a. BufferAsQueue = Window(reading, count) /\ BufferAsQueue' = Window(reading', count')
    BY DEF BufferIsWindow
  <2>b. Len(BufferAsQueue) = count
    BY <2>a, WindowGrows, Numbers
  <2>c. UNCHANGED <<count, reading>> => UNCHANGED BufferAsQueue
    BY <2>a
  <2>d. count >= BatchSize => Fifo!Oldest = Batch
    <3> SUFFICES ASSUME count >= BatchSize PROVE Fifo!Oldest = Batch
      OBVIOUS
    <3>1. Fifo!Oldest = [i \in 1 .. BatchSize |-> reading - count + i]
      <4>1. SubSeq(Window(reading, count), 1, BatchSize)
              = [i \in 1 .. BatchSize |-> reading - count + i]
        <5>1. reading \in Nat /\ count \in Nat /\ BatchSize \in Nat /\ BatchSize <= count
          BY Numbers
        <5> QED  BY <5>1, WindowShrinks
      <4> QED  BY <2>a, <4>1 DEF Fifo!Oldest
    <3>2. ASSUME NEW i \in 1 .. BatchSize PROVE SampleAt(i) = reading - count + i
      <4>1. i \in Nat /\ Batch[i] \in Nat /\ Batch[i] + count = reading + i
        BY BatchNumbers, Numbers
      <4> QED  BY <4>1, Numbers DEF Batch
    <3> QED  BY <3>1, <3>2 DEF Batch
  <2>e. ASSUME count >= BatchSize, count' = count - BatchSize, reading' = reading
        PROVE  Fifo!RemoveOldest
    <3>1. SubSeq(Window(reading, count), BatchSize + 1, count)
            = Window(reading, count - BatchSize)
      <4>1. reading \in Nat /\ count \in Nat /\ BatchSize \in Nat /\ BatchSize <= count
        BY <2>e, Numbers
      <4> QED  BY <4>1, WindowShrinks
    <3> QED  BY <2>a, <2>b, <2>e, <3>1 DEF Fifo!RemoveOldest
  <2>1. CASE Sample
    <3>1. /\ reading' = reading + 1 /\ reading' \in 1 .. MaxSamples /\ sentBatch' = sentBatch
          /\ (count < Capacity /\ count' = count + 1) \/ (count = Capacity /\ count' = count)
      <4>1. /\ reading' = reading + 1 /\ reading < MaxSamples /\ sentBatch' = sentBatch
            /\ Push(reading + 1)
        BY <2>1 DEF Sample, sent
      <4>2. reading' \in 1 .. MaxSamples
        BY <4>1, Numbers, ConstantsAssumption
      <4>3. (count < Capacity /\ count' = count + 1) \/ (count = Capacity /\ count' = count)
        BY <4>1, Numbers DEF Push
      <4> QED  BY <4>1, <4>2, <4>3
    <3>2. CASE count < Capacity /\ count' = count + 1
      <4>1. BufferAsQueue' = Append(BufferAsQueue, reading + 1)
        BY <2>a, <3>1, <3>2, WindowGrows, Numbers
      <4> QED  BY <2>b, <3>1, <3>2, <4>1 DEF Fifo!Next, Fifo!Accept
    <3>3. CASE count = Capacity /\ count' = count
      <4>1. Tail(BufferAsQueue) = Window(reading, count - 1)
        BY <2>a, <3>3, WindowShrinks, Numbers
      <4>2. Append(Window(reading, count - 1), reading + 1) = Window(reading + 1, count)
        <5>1. count - 1 \in Nat /\ (count - 1) + 1 = count /\ reading \in Nat
          BY <3>3, Numbers
        <5> QED  BY <5>1, WindowGrows
      <4>3. BufferAsQueue' = Append(Tail(BufferAsQueue), reading + 1)
        BY <2>a, <3>1, <3>3, <4>1, <4>2
      <4>4. ~(Len(BufferAsQueue) < Capacity)
        BY <2>b, <3>3, Numbers
      <4> QED  BY <3>1, <4>3, <4>4 DEF Fifo!Next, Fifo!Accept
    <3> QED  BY <3>1, <3>2, <3>3
  <2>2. CASE PublishBatch
    <3>1. /\ count >= BatchSize /\ count' = count - BatchSize /\ reading' = reading
          /\ sentBatch' = Batch
      BY <2>2 DEF PublishBatch, DropBatch
    <3> QED  BY <2>b, <2>d, <2>e, <3>1 DEF Fifo!Next, Fifo!Emit
  <2>3. CASE PublishFails
    <3>1. /\ count >= BatchSize /\ UNCHANGED <<count, reading>>
          /\ sentBatch' = Batch \/ sentBatch' = sentBatch
      BY <2>3 DEF PublishFails, buffer, sent
    <3> QED  BY <2>b, <2>c, <2>d, <3>1 DEF Fifo!Next, Fifo!Emit
  <2>4. CASE BuildFails
    <3>1. /\ count >= BatchSize /\ count' = count - BatchSize /\ reading' = reading
          /\ sentBatch' = sentBatch
      BY <2>4 DEF BuildFails, DropBatch, sent
    <3> QED  BY <2>b, <2>e, <3>1 DEF Fifo!Next, Fifo!Discard
  <2>5. CASE Crash
    <3>1. count' = 0 /\ sentBatch' = sentBatch
      BY <2>5 DEF Crash, sent
    <3>2. BufferAsQueue' = <<>>
      BY <2>a, <3>1 DEF Window
    <3> QED  BY <3>1, <3>2 DEF Fifo!Next, Fifo!Forget
  <2>6. CASE Boot \/ FlushDone \/ SaveCounter \/ UNCHANGED vars
    BY <2>6, <2>c DEF Boot, FlushDone, SaveCounter, vars, buffer, sent
  <2> QED  BY <2>1, <2>2, <2>3, <2>4, <2>5, <2>6 DEF Next
<1> QED
  BY <1>1, <1>2, TypeCorrect, NewestReadings, QueueOfReadings, PTL
     DEF Spec, ImplementsSampleQueue, Fifo!Spec
=============================================================================
