------------------------ MODULE TelemetryIngestProofs ------------------------
(* Theorems about TelemetryIngest, for every chunk size and every number of   *)
(* devices, samples and runs.                                                *)
EXTENDS TelemetryIngest, FiniteSetTheorems, TLAPS

-----------------------------------------------------------------------------
(* The queue of handlers.                                                   *)

\* What Head, Tail and Append leave of the elements of a queue.
LEMMA QueueFacts ==
  ASSUME NEW S, NEW q \in Seq(S), q # <<>>, NEW a \in S
  PROVE  /\ Head(q) \in S /\ Head(q) = q[1] /\ 1 \in DOMAIN q
         /\ Tail(q) \in Seq(S) /\ Len(Tail(q)) = Len(q) - 1
         /\ \A i \in DOMAIN Tail(q) : i + 1 \in DOMAIN q /\ Tail(q)[i] = q[i + 1]
  OBVIOUS

\* What an added element leaves of a queue.
LEMMA AppendFacts ==
  ASSUME NEW S, NEW q \in Seq(S), NEW a \in S
  PROVE  /\ Append(q, a) \in Seq(S) /\ Len(Append(q, a)) = Len(q) + 1
         /\ \A i \in DOMAIN Append(q, a) :
              (i \in DOMAIN q /\ Append(q, a)[i] = q[i]) \/ Append(q, a)[i] = a
  OBVIOUS

-----------------------------------------------------------------------------
(* The types that the other theorems need.                                  *)

RegistryTyped == cache \in [Devices -> Entries] /\ file \in [Devices -> Entries]
QueueTyped    == handlers \in Seq(Handlers)
GhostsTyped   == ghosts \in [Devices -> Nat]
Typed         == RegistryTyped /\ QueueTyped /\ GhostsTyped

\* touchSeen keeps the types, leaves file and cache equal and brings no device back.
LEMMA TouchSeenTyped ==
  ASSUME RegistryTyped, NEW d \in Devices, NEW entry \in Entries, TouchSeen(d, entry)
  PROVE  RegistryTyped' /\ cache' = file' /\ \A e \in Devices : file[e] = "absent" => file'[e] = "absent"
  BY DEF RegistryTyped, TouchSeen, Entries

\* Each handler is of a device.
LEMMA HandlerTyped ==
  ASSUME QueueTyped, NEW i \in DOMAIN handlers
  PROVE  handlers[i].env \in Envelopes /\ handlers[i].env.dev \in Devices
<1>1. handlers[i] \in Handlers
  BY DEF QueueTyped
<1> QED  BY <1>1 DEF Handlers, Envelopes

\* A handler advances by a step of its own.
LEMMA AdvanceTyped ==
  ASSUME QueueTyped, StoreSample
  PROVE  QueueTyped'
<1>1. handlers # <<>> /\ Head(handlers) \in Handlers /\ Tail(handlers) \in Seq(Handlers)
  BY QueueFacts DEF StoreSample, Resuming, QueueTyped
<1>2. [Head(handlers) EXCEPT !.left = @ - 1] \in Handlers
  <2>1. Head(handlers).left - 1 \in 1 .. Samples + 1
    BY <1>1, ConstantsAssumption DEF StoreSample, Handlers
  <2> QED  BY <1>1, <2>1 DEF Handlers
<1> QED  BY <1>1, <1>2, AppendFacts DEF StoreSample, QueueTyped

\* The basic types hold of every behaviour.
LEMMA TypedInvariant == Spec => []Typed
<1>1. Init => Typed
  BY DEF Init, Typed, RegistryTyped, QueueTyped, GhostsTyped, Entries
<1>2. ASSUME Typed, [Next]_vars PROVE Typed'
  <2> USE <1>2 DEF Typed
  <2>1. ASSUME NEW d \in Devices, NEW c \in Ctrs, Arrive(d, c) PROVE Typed'
    <3>1. CASE Admits(d)
      <4>1. RegistryTyped'
        BY <2>1, <3>1, TouchSeenTyped
           DEF Arrive, Gate, Register, RegistryTyped, Entries
      <4>2. QueueTyped'
        <5>1. [env |-> [dev |-> d, ctr |-> c], left |-> Samples + 1] \in Handlers
          BY ConstantsAssumption DEF Handlers, Envelopes
        <5> QED  BY <2>1, <3>1, <5>1, AppendFacts DEF Arrive, QueueTyped
      <4>3. GhostsTyped'
        <5>1. ghosts[d] + 1 \in Nat /\ 0 \in Nat
          BY DEF GhostsTyped
        <5>2. \E n \in Nat : ghosts' = [ghosts EXCEPT ![d] = n]
          BY <2>1, <3>1, <5>1 DEF Arrive
        <5> QED  BY <5>2 DEF GhostsTyped
      <4> QED  BY <4>1, <4>2, <4>3
    <3>2. CASE ~Admits(d)
      BY <2>1, <3>2 DEF Arrive, registry, RegistryTyped, QueueTyped, GhostsTyped
    <3> QED  BY <3>1, <3>2
  <2>2. ASSUME NEW d \in Devices, NEW news \in {"alive", "gone"}, Connectivity(d, news)
        PROVE  Typed'
    <3>1. RegistryTyped'
      BY <2>2, TouchSeenTyped DEF Connectivity, Entries
    <3> QED  BY <2>2, <3>1 DEF Connectivity, QueueTyped, GhostsTyped
  <2>3. ASSUME NEW d \in Devices, ApiRemove(d) PROVE Typed'
    BY <2>3 DEF ApiRemove, RegistryTyped, QueueTyped, GhostsTyped, Entries
  <2>4. CASE Discard
    <3>1. QueueTyped'
      BY <2>4, QueueFacts DEF Discard, Resuming, QueueTyped
    <3> QED  BY <2>4, <3>1 DEF Discard, registry, history, overlaps, RegistryTyped, GhostsTyped
  <2>5. CASE StoreSample
    <3>1. QueueTyped'
      BY <2>5, AdvanceTyped
    <3> QED  BY <2>5, <3>1 DEF StoreSample, registry, history, overlaps, RegistryTyped, GhostsTyped
  <2>6. CASE Commit
    <3>1. QueueTyped' /\ Head(handlers).env.dev \in Devices
      <4>1. Head(handlers) \in Handlers /\ Tail(handlers) \in Seq(Handlers)
        BY <2>6, QueueFacts DEF Commit, Resuming, QueueTyped
      <4> QED  BY <2>6, <4>1 DEF Commit, QueueTyped, Handlers, Envelopes
    <3>2. RegistryTyped'
      BY <2>6, <3>1, TouchSeenTyped DEF Commit, Entries
    <3> QED  BY <2>6, <3>1, <3>2 DEF Commit, GhostsTyped
  <2>7. CASE FlushPoints \/ DropPoints
    BY <2>7 DEF FlushPoints, DropPoints, registry, history, overlaps, RegistryTyped, QueueTyped,
                GhostsTyped
  <2>8. CASE Shutdown \/ Exit
    BY <2>8 DEF Shutdown, Exit, registry, history, overlaps, RegistryTyped, QueueTyped, GhostsTyped
  <2>9. CASE Crash
    BY <2>9 DEF Crash, registry, history, overlaps, RegistryTyped, QueueTyped, GhostsTyped
  <2>10. CASE Start
    BY <2>10 DEF Start, RegistryTyped, QueueTyped, GhostsTyped
  <2>11. CASE UNCHANGED vars
    BY <2>11 DEF vars, registry, history, overlaps, RegistryTyped, QueueTyped, GhostsTyped
  <2> QED
    BY <2>1, <2>2, <2>3, <2>4, <2>5, <2>6, <2>7, <2>8, <2>9, <2>10, <2>11 DEF Next
<1> QED  BY <1>1, <1>2, PTL DEF Spec

-----------------------------------------------------------------------------
(* A removed device passes the gate once.                                    *)

\* A device that has passed since its removal is in neither copy any more.
GhostInv ==
  \A d \in Devices : /\ ghosts[d] <= 1
                     /\ ghosts[d] = 1 => cache[d] = "absent" /\ file[d] = "absent"

\* A touch of any device leaves a device that is in neither copy there.
LEMMA AbsentStays ==
  ASSUME Typed, NEW d \in Devices, NEW entry, TouchSeen(d, entry), NEW e \in Devices,
         file[e] = "absent"
  PROVE  cache'[e] = "absent" /\ file'[e] = "absent"
  BY DEF TouchSeen, Typed, RegistryTyped

\* However many packets of a removed device come in one chunk, the gate lets it
\* pass at most once on the stale copy of the registry.
THEOREM GhostPassesOnce == Spec => []GhostOnce
<1>1. Init => GhostInv
  BY DEF Init, GhostInv
<1>2. ASSUME Typed, GhostInv, [Next]_vars PROVE GhostInv'
  <2> USE <1>2
  <2>1. ASSUME NEW d \in Devices, NEW c \in Ctrs, Arrive(d, c) PROVE GhostInv'
    <3> SUFFICES ASSUME NEW e \in Devices
                 PROVE  /\ ghosts'[e] <= 1
                        /\ ghosts'[e] = 1 => cache'[e] = "absent" /\ file'[e] = "absent"
      BY DEF GhostInv
    <3>1. CASE Admits(d)
      <4>1. CASE cache[d] # "absent"
        <5>1. TouchSeen(d, "online") /\ ghosts[d] = 0
          BY <2>1, <3>1, <4>1 DEF Arrive, Gate, GhostInv, Typed, GhostsTyped
        <5>2. CASE e = d
          BY <2>1, <3>1, <5>1, <5>2 DEF Arrive, TouchSeen, Typed, RegistryTyped, GhostsTyped
        <5>3. CASE e # d
          <6>1. ghosts'[e] = ghosts[e]
            BY <2>1, <3>1, <5>3 DEF Arrive, Typed, GhostsTyped
          <6> QED  BY <5>1, <6>1, AbsentStays DEF GhostInv
        <5> QED  BY <5>2, <5>3
      <4>2. CASE cache[d] = "absent"
        <5>1. Register(d)
          BY <2>1, <3>1, <4>2 DEF Arrive, Gate
        <5>2. CASE e = d
          BY <2>1, <3>1, <5>1, <5>2 DEF Arrive, Register, Typed, RegistryTyped, GhostsTyped
        <5>3. CASE e # d
          <6>1. ghosts'[e] = ghosts[e]
            BY <2>1, <3>1, <5>3 DEF Arrive, Typed, GhostsTyped
          <6> QED  BY <5>1, <5>3, <6>1 DEF GhostInv, Register, Typed, RegistryTyped
        <5> QED  BY <5>2, <5>3
      <4> QED  BY <4>1, <4>2
    <3>2. CASE ~Admits(d)
      BY <2>1, <3>2 DEF Arrive, registry, GhostInv
    <3> QED  BY <3>1, <3>2
  <2>2. ASSUME NEW d \in Devices, NEW news \in {"alive", "gone"}, Connectivity(d, news)
        PROVE  GhostInv'
    BY <2>2, AbsentStays DEF Connectivity, GhostInv
  <2>3. ASSUME NEW d \in Devices, ApiRemove(d) PROVE GhostInv'
    BY <2>3 DEF ApiRemove, GhostInv, Typed, RegistryTyped, GhostsTyped
  <2>4. CASE Commit
    <3>1. Head(handlers).env.dev \in Devices
      <4>1. Head(handlers) \in Handlers
        BY <2>4, QueueFacts DEF Commit, Resuming, Typed, QueueTyped
      <4> QED  BY <4>1 DEF Handlers, Envelopes
    <3> QED  BY <2>4, <3>1, AbsentStays DEF Commit, GhostInv
  <2>5. CASE Start
    BY <2>5 DEF Start, GhostInv
  <2>6. CASE \/ Discard \/ StoreSample \/ FlushPoints \/ DropPoints
             \/ Shutdown \/ Exit \/ Crash \/ UNCHANGED vars
    BY <2>6 DEF Discard, StoreSample, FlushPoints, DropPoints, Shutdown, Exit, Crash,
                vars, registry, history, GhostInv
  <2> QED  BY <2>1, <2>2, <2>3, <2>4, <2>5, <2>6 DEF Next
<1>3. GhostInv => GhostOnce
  BY DEF GhostInv, GhostOnce
<1> QED  BY <1>1, <1>2, <1>3, TypedInvariant, PTL DEF Spec
-----------------------------------------------------------------------------
(* The other types.                                                         *)

OthersTyped ==
  /\ mode \in {"up", "closing", "down"} /\ stage \in {"intake", "drain"}
  /\ Len(handlers) <= MaxChunk
  /\ last \in [Devices -> Nat] /\ saved \in [Devices -> Nat]
  /\ unsaved \in 0 .. PersistEveryN - 1
  /\ runs \in 1 .. MaxRuns
  /\ buffered \subseteq Envelopes \X (1 .. Samples)
  /\ stored \subseteq Envelopes \X (1 .. Samples) /\ spilled \in BOOLEAN
  /\ accepted \subseteq Envelopes /\ again \subseteq accepted
  /\ heard \in [Devices -> {"alive", "gone", "none"}]
  /\ overlapped \subseteq Devices /\ midway \subseteq Devices

\* The handler that resumes, and the queue behind it.
LEMMA ResumingFacts ==
  ASSUME Typed, handlers # <<>>
  PROVE  /\ Head(handlers) = handlers[1] /\ 1 \in DOMAIN handlers
         /\ Head(handlers).env \in Envelopes
         /\ Head(handlers).left \in 1 .. Samples + 1
         /\ Len(Tail(handlers)) = Len(handlers) - 1 /\ Len(handlers) \in Nat
         /\ \A i \in DOMAIN Tail(handlers) :
              i + 1 \in DOMAIN handlers /\ Tail(handlers)[i] = handlers[i + 1]
<1>1. Head(handlers) \in Handlers
  BY QueueFacts DEF Typed, QueueTyped
<1> QED  BY <1>1, QueueFacts DEF Typed, QueueTyped, Handlers

\* Storing a sample changes one handler, which keeps its envelope and its length.
LEMMA AdvanceFacts ==
  ASSUME Typed, StoreSample
  PROVE  /\ Len(handlers') = Len(handlers)
         /\ \A i \in DOMAIN handlers' :
              \/ \E j \in DOMAIN handlers : handlers'[i] = handlers[j]
              \/ /\ handlers'[i].env = Head(handlers).env
                 /\ handlers'[i].left = Head(handlers).left - 1
<1> DEFINE h == [Head(handlers) EXCEPT !.left = @ - 1]
<1>1. handlers # <<>>
  BY DEF StoreSample, Resuming
<1>2. Head(handlers) \in Handlers /\ Tail(handlers) \in Seq(Handlers)
  BY <1>1, QueueFacts DEF Typed, QueueTyped
<1>3. h \in Handlers /\ h.env = Head(handlers).env /\ h.left = Head(handlers).left - 1
  <2>1. Head(handlers).left - 1 \in 1 .. Samples + 1
    BY <1>2, ConstantsAssumption DEF StoreSample, Handlers
  <2> QED  BY <1>2, <2>1 DEF Handlers
<1>4. handlers' = Append(Tail(handlers), h)
  BY DEF StoreSample
<1> HIDE DEF h
<1> QED  BY <1>1, <1>2, <1>3, <1>4, AppendFacts, ResumingFacts

\* Types of every variable, for any constants.
THEOREM TypeCorrect == Spec => []TypeOK
<1>1. Init => OthersTyped
  <2> SUFFICES ASSUME Init PROVE OthersTyped
    OBVIOUS
  <2>1. Len(handlers) <= MaxChunk
    BY ConstantsAssumption DEF Init
  <2>2. unsaved \in 0 .. PersistEveryN - 1 /\ runs \in 1 .. MaxRuns
    BY ConstantsAssumption DEF Init
  <2>3. last \in [Devices -> Nat] /\ saved \in [Devices -> Nat]
    BY DEF Init
  <2> QED  BY <2>1, <2>2, <2>3 DEF Init, OthersTyped
<1>2. ASSUME Typed, OthersTyped, [Next]_vars PROVE OthersTyped'
  <2> USE <1>2 DEF OthersTyped
  <2>1. ASSUME NEW d \in Devices, NEW c \in Ctrs, Arrive(d, c) PROVE OthersTyped'
    <3>1. Len(handlers') <= MaxChunk
      <4>1. [env |-> [dev |-> d, ctr |-> c], left |-> Samples + 1] \in Handlers
        BY ConstantsAssumption DEF Handlers, Envelopes
      <4>2. handlers' = handlers
            \/ handlers' = Append(handlers, [env |-> [dev |-> d, ctr |-> c],
                                             left |-> Samples + 1])
        BY <2>1 DEF Arrive
      <4> QED  BY <2>1, <4>1, <4>2, AppendFacts, ConstantsAssumption
                 DEF Arrive, Receiving, Typed, QueueTyped
    <3>2. /\ heard' \in [Devices -> {"alive", "gone", "none"}]
          /\ overlapped' \subseteq Devices /\ midway' \subseteq Devices
      BY <2>1 DEF Arrive, overlaps
    <3> QED  BY <2>1, <3>1, <3>2 DEF Arrive, guard, writer
  <2>2. ASSUME NEW d \in Devices, NEW news \in {"alive", "gone"}, Connectivity(d, news)
        PROVE  OthersTyped'
    BY <2>2 DEF Connectivity, guard, writer
  <2>3. ASSUME NEW d \in Devices, ApiRemove(d) PROVE OthersTyped'
    BY <2>3 DEF ApiRemove, guard, writer, overlaps
  <2>4. CASE Discard
    <3>1. Len(handlers') <= MaxChunk
      BY <2>4, ResumingFacts, ConstantsAssumption DEF Discard, Resuming
    <3> QED  BY <2>4, <3>1 DEF Discard, NextStage, guard, writer, history, overlaps
  <2>5. CASE StoreSample
    <3>1. Len(handlers') <= MaxChunk
      BY <2>5, AdvanceFacts
    <3>2. <<Head(handlers).env, Head(handlers).left - 1>> \in Envelopes \X (1 .. Samples)
      BY <2>5, ResumingFacts, ConstantsAssumption DEF StoreSample, Resuming
    <3> QED  BY <2>5, <3>1, <3>2 DEF StoreSample, NextStage, WritePoint, guard, history, overlaps
  <2>6. CASE Commit
    <3>1. Len(handlers') <= MaxChunk /\ Head(handlers).env \in Envelopes
      BY <2>6, ResumingFacts, ConstantsAssumption DEF Commit, Resuming
    <3>2. Head(handlers).env.dev \in Devices /\ Head(handlers).env.ctr \in Nat
      BY <3>1 DEF Envelopes, Ctrs
    <3>3. /\ last' \in [Devices -> Nat] /\ saved' \in [Devices -> Nat]
          /\ unsaved' \in 0 .. PersistEveryN - 1
      BY <2>6, <3>2, ConstantsAssumption DEF Commit, CommitCtr
    <3>4. accepted' \subseteq Envelopes /\ again' \subseteq accepted'
      BY <2>6, <3>1 DEF Commit
    <3> QED  BY <2>6, <3>1, <3>3, <3>4 DEF Commit, NextStage, writer, overlaps
  <2>7. CASE FlushPoints \/ DropPoints
    BY <2>7 DEF FlushPoints, DropPoints, guard, history, overlaps
  <2>8. CASE Shutdown \/ Exit
    BY <2>8, ConstantsAssumption DEF Shutdown, Exit, FlushGuard, guard, writer, history, overlaps
  <2>9. CASE Crash
    <3>1. Len(<<>>) <= MaxChunk
      BY ConstantsAssumption
    <3>2. spilled' \in BOOLEAN
      BY <2>9 DEF Crash
    <3> QED  BY <2>9, <3>1, <3>2 DEF Crash, guard, history, overlaps
  <2>10. CASE Start
    <3>1. runs' \in 1 .. MaxRuns /\ unsaved' \in 0 .. PersistEveryN - 1
      BY <2>10, ConstantsAssumption DEF Start
    <3> QED  BY <2>10, <3>1 DEF Start
  <2>11. CASE UNCHANGED vars
    BY <2>11 DEF vars, guard, writer, history, overlaps
  <2> QED
    BY <2>1, <2>2, <2>3, <2>4, <2>5, <2>6, <2>7, <2>8, <2>9, <2>10, <2>11 DEF Next
<1>3. Typed /\ OthersTyped => TypeOK
  BY DEF Typed, RegistryTyped, QueueTyped, GhostsTyped, OthersTyped, TypeOK
<1> QED  BY <1>1, <1>2, <1>3, TypedInvariant, PTL DEF Spec
-----------------------------------------------------------------------------
(* What is accepted reaches the database.                                   *)

\* The samples of envelope e from number n on are among the points.
Covered(e, n, points) == \A m \in n .. Samples : <<e, m>> \in points

\* The samples a suspended handler is done with are stored or on their way; a
\* process that is gone has neither handlers nor a buffer.
WriterInv ==
  /\ mode = "down" => handlers = <<>> /\ buffered = {}
  /\ ~spilled => /\ \A i \in DOMAIN handlers :
                      Covered(handlers[i].env, handlers[i].left, stored \union buffered)
                 /\ \A e \in accepted : Covered(e, 1, stored \union buffered)

\* Storing one sample more extends what is covered by one.
LEMMA CoveredStep ==
  ASSUME NEW e, NEW n \in Nat \ {0}, NEW points, Covered(e, n, points)
  PROVE  Covered(e, n - 1, points \union {<<e, n - 1>>})
<1> SUFFICES ASSUME NEW m \in (n - 1) .. Samples
             PROVE  <<e, m>> \in points \union {<<e, n - 1>>}
  BY DEF Covered
<1>1. m = n - 1 \/ m \in n .. Samples
  BY ConstantsAssumption
<1> QED  BY <1>1 DEF Covered

\* More points cover at least as much.
LEMMA CoveredGrows ==
  ASSUME NEW e, NEW n, NEW points, NEW more, points \subseteq more, Covered(e, n, points)
  PROVE  Covered(e, n, more)
  BY DEF Covered

\* No step leaves the samples of a handler or of an accepted envelope uncovered.
LEMMA WriterInvariant == Spec => []WriterInv
<1>1. Init => WriterInv
  BY DEF Init, WriterInv
<1>2. ASSUME Typed, WriterInv, [Next]_vars PROVE WriterInv'
  <2> USE <1>2
  <2>1. ASSUME NEW d \in Devices, NEW c \in Ctrs, Arrive(d, c) PROVE WriterInv'
    <3> DEFINE h == [env |-> [dev |-> d, ctr |-> c], left |-> Samples + 1]
    <3>1. h \in Handlers /\ Covered(h.env, h.left, stored' \union buffered')
      BY ConstantsAssumption DEF Handlers, Envelopes, Covered
    <3>2. handlers' = handlers \/ handlers' = Append(handlers, h)
      BY <2>1 DEF Arrive
    <3>3. UNCHANGED <<stored, buffered, spilled, accepted, mode>> /\ mode # "down"
      BY <2>1 DEF Arrive, writer, Receiving
    <3> HIDE DEF h
    <3>4. CASE handlers' = handlers
      BY <3>3, <3>4 DEF WriterInv
    <3>5. CASE handlers' = Append(handlers, h)
      <4>1. \A i \in DOMAIN handlers' :
              (i \in DOMAIN handlers /\ handlers'[i] = handlers[i]) \/ handlers'[i] = h
        BY <3>1, <3>5, AppendFacts DEF Typed, QueueTyped
      <4> QED  BY <3>1, <3>3, <4>1 DEF WriterInv
    <3> QED  BY <3>2, <3>4, <3>5
  <2>2. ASSUME NEW d \in Devices, NEW news \in {"alive", "gone"}, Connectivity(d, news)
        PROVE  WriterInv'
    BY <2>2 DEF Connectivity, writer, WriterInv
  <2>3. ASSUME NEW d \in Devices, ApiRemove(d) PROVE WriterInv'
    BY <2>3 DEF ApiRemove, writer, WriterInv
  <2>4. CASE Discard
    <3>1. \A i \in DOMAIN handlers' : \E j \in DOMAIN handlers : handlers'[i] = handlers[j]
      BY <2>4, ResumingFacts DEF Discard, Resuming
    <3> QED  BY <2>4, <3>1 DEF Discard, Resuming, writer, history, overlaps, WriterInv
  <2>5. CASE StoreSample
    <3> DEFINE e == Head(handlers).env
               n == Head(handlers).left
    <3>1. /\ 1 \in DOMAIN handlers /\ Head(handlers) = handlers[1] /\ n \in Nat \ {0}
          /\ mode # "down"
      BY <2>5, ResumingFacts, ConstantsAssumption DEF StoreSample, Resuming
    <3>2. /\ stored' \union buffered' = (stored \union buffered) \union {<<e, n - 1>>}
          /\ UNCHANGED <<spilled, accepted, mode>>
      BY <2>5 DEF StoreSample, WritePoint, history, overlaps
    <3>3. \A i \in DOMAIN handlers' :
            \/ \E j \in DOMAIN handlers : handlers'[i] = handlers[j]
            \/ handlers'[i].env = e /\ handlers'[i].left = n - 1
      BY <2>5, AdvanceFacts
    <3> HIDE DEF e, n
    <3>4. ASSUME ~spilled PROVE Covered(e, n - 1, stored' \union buffered')
      <4>1. Covered(e, n, stored \union buffered)
        BY <3>1, <3>4 DEF WriterInv, e, n
      <4> QED  BY <3>1, <3>2, <4>1, CoveredStep
    <3>5. stored \union buffered \subseteq stored' \union buffered'
      BY <3>2
    <3>6. ASSUME ~spilled, NEW i \in DOMAIN handlers'
          PROVE  Covered(handlers'[i].env, handlers'[i].left, stored' \union buffered')
      BY <3>3, <3>4, <3>5, <3>6, CoveredGrows DEF WriterInv
    <3>7. ASSUME ~spilled, NEW f \in accepted
          PROVE  Covered(f, 1, stored' \union buffered')
      BY <3>5, <3>7, CoveredGrows DEF WriterInv
    <3> QED  BY <3>1, <3>2, <3>6, <3>7 DEF WriterInv
  <2>6. CASE Commit
    <3>1. /\ 1 \in DOMAIN handlers /\ Head(handlers) = handlers[1] /\ handlers[1].left = 1
          /\ mode # "down"
      BY <2>6, ResumingFacts DEF Commit, Resuming
    <3>2. \A i \in DOMAIN handlers' : \E j \in DOMAIN handlers : handlers'[i] = handlers[j]
      BY <2>6, ResumingFacts DEF Commit, Resuming
    <3>3. accepted' = accepted \union {handlers[1].env}
          /\ UNCHANGED <<stored, buffered, spilled, mode>>
      BY <2>6, <3>1 DEF Commit, writer
    <3> QED  BY <3>1, <3>2, <3>3 DEF WriterInv
  <2>7. CASE FlushPoints
    <3>1. stored' \union buffered' = stored \union buffered
      BY <2>7 DEF FlushPoints
    <3> QED  BY <2>7, <3>1 DEF FlushPoints, Sending, history, overlaps, WriterInv
  <2>8. CASE DropPoints
    BY <2>8 DEF DropPoints, Sending, WriterInv
  <2>9. CASE Shutdown \/ Exit
    BY <2>9 DEF Shutdown, Exit, writer, history, overlaps, WriterInv
  <2>10. CASE Crash
    <3>1. ~spilled' => ~spilled /\ buffered = {}
      <4>1. spilled' = (spilled \/ buffered # {})
        BY <2>10 DEF Crash
      <4>2. CASE spilled \/ buffered # {}
        BY <4>1, <4>2
      <4>3. CASE ~(spilled \/ buffered # {})
        BY <4>3
      <4> QED  BY <4>2, <4>3
    <3>2. stored' = stored /\ accepted' = accepted /\ handlers' = <<>> /\ buffered' = {}
      BY <2>10 DEF Crash, history, overlaps
    <3>3. DOMAIN handlers' = {}
      BY <3>2
    <3>4. ASSUME ~spilled', NEW e \in accepted'
          PROVE  Covered(e, 1, stored' \union buffered')
      <4>1. stored' \union buffered' = stored \union buffered
        BY <3>1, <3>2, <3>4
      <4> QED  BY <3>1, <3>2, <3>4, <4>1 DEF WriterInv
    <3> QED  BY <3>2, <3>3, <3>4 DEF WriterInv
  <2>11. CASE Start
    BY <2>11 DEF Start, WriterInv
  <2>12. CASE UNCHANGED vars
    BY <2>12 DEF vars, writer, history, overlaps, WriterInv
  <2> QED
    BY <2>1, <2>2, <2>3, <2>4, <2>5, <2>6, <2>7, <2>8, <2>9, <2>10, <2>11, <2>12 DEF Next
<1> QED  BY <1>1, <1>2, TypedInvariant, PTL DEF Spec

\* AcceptedIsStored for any chunk size: no interleaving of handlers, flushes and
\* restarts commits the counter of an envelope before its samples are safe
\* (telemetryHandler.js:150-167, influxWriter.js:25-34).
THEOREM AcceptedReachesDatabase == Spec => []AcceptedIsStored
<1>1. WriterInv => AcceptedIsStored
  BY DEF WriterInv, AcceptedIsStored, Covered
<1> QED  BY <1>1, WriterInvariant, PTL

-----------------------------------------------------------------------------
(* The replay guard.                                                        *)

\* Of a device whose handlers never overlapped in this run, the guard remembers
\* what was accepted, what is under way is newer, and nothing was accepted twice.
OrderInv ==
  /\ \A e \in accepted : e.dev \notin overlapped => e.ctr <= last[e.dev]
  /\ \A i \in DOMAIN handlers :
       handlers[i].env.dev \notin overlapped => handlers[i].env.ctr > last[handlers[i].env.dev]
  /\ \A i, j \in DOMAIN handlers :
       handlers[i].env.dev = handlers[j].env.dev /\ handlers[i].env.dev \notin overlapped => i = j
  /\ \A e \in again : e.dev \in overlapped

\* The handler that commits, with the guard before and after.
LEMMA CommitFacts ==
  ASSUME Typed, TypeOK, Commit
  PROVE  /\ 1 \in DOMAIN handlers /\ Head(handlers) = handlers[1]
         /\ handlers[1].env \in Envelopes
         /\ handlers[1].env.dev \in Devices /\ handlers[1].env.ctr \in Nat
         /\ last' = [last EXCEPT ![handlers[1].env.dev] = handlers[1].env.ctr]
         /\ accepted' = accepted \union {handlers[1].env}
         /\ \A e \in accepted : e.dev \in Devices /\ e.ctr \in Nat
<1>1. 1 \in DOMAIN handlers /\ Head(handlers) = handlers[1] /\ handlers[1].env \in Envelopes
  BY ResumingFacts DEF Commit, Resuming
<1>2. last' = [last EXCEPT ![handlers[1].env.dev] = handlers[1].env.ctr]
      /\ accepted' = accepted \union {handlers[1].env}
  BY <1>1 DEF Commit, CommitCtr
<1> QED  BY <1>1, <1>2 DEF TypeOK, Envelopes, Ctrs

\* A new handler of a device with none stands alone; otherwise the device overlaps.
LEMMA ArrivalInOrder ==
  ASSUME Typed, TypeOK, OrderInv, NEW d \in Devices, NEW c \in Ctrs, Arrive(d, c)
  PROVE  OrderInv'
<1> DEFINE h == [env |-> [dev |-> d, ctr |-> c], left |-> Samples + 1]
<1>1. UNCHANGED <<last, accepted, again>>
  BY DEF Arrive, guard
<1>2. h \in Handlers /\ h.env.dev = d /\ h.env.ctr = c
  BY ConstantsAssumption DEF Handlers, Envelopes
<1>3. CASE UNCHANGED <<handlers, overlapped>>
  BY <1>1, <1>3 DEF OrderInv
<1>4. CASE /\ handlers' = Append(handlers, h) /\ Fresh(d, c)
           /\ overlapped' = overlapped \union ({d} \intersect Suspended)
  <2> HIDE DEF h
  <2>1. /\ DOMAIN handlers = 1 .. Len(handlers) /\ Len(handlers) \in Nat
        /\ DOMAIN handlers' = 1 .. Len(handlers) + 1
        /\ handlers'[Len(handlers) + 1] = h
        /\ \A i \in DOMAIN handlers : handlers'[i] = handlers[i]
    BY <1>2, <1>4 DEF TypeOK
  <2>2. \A i \in DOMAIN handlers : handlers[i].env.dev = d => d \in overlapped'
    BY <1>4 DEF Suspended
  <2>3. overlapped \subseteq overlapped'
    BY <1>4
  <2>4. \A i \in DOMAIN handlers' : i \in DOMAIN handlers \/ i = Len(handlers) + 1
    BY <2>1
  <2>5. ASSUME NEW i \in DOMAIN handlers', handlers'[i].env.dev \notin overlapped'
        PROVE  handlers'[i].env.ctr > last'[handlers'[i].env.dev]
    BY <1>1, <1>2, <1>4, <2>1, <2>3, <2>4, <2>5 DEF OrderInv, Fresh
  <2>6. ASSUME NEW i \in DOMAIN handlers', NEW j \in DOMAIN handlers',
               handlers'[i].env.dev = handlers'[j].env.dev, handlers'[i].env.dev \notin overlapped'
        PROVE  i = j
    BY <1>2, <2>1, <2>2, <2>3, <2>4, <2>6 DEF OrderInv
  <2> QED  BY <1>1, <2>3, <2>5, <2>6 DEF OrderInv
<1> QED  BY <1>3, <1>4 DEF Arrive, overlaps

\* A handler that stores a sample goes to the end of the queue; the others move up.
LEMMA AdvancePositions ==
  ASSUME Typed, TypeOK, StoreSample, NEW n, n = Len(handlers)
  PROVE  /\ n \in Nat \ {0} /\ DOMAIN handlers = 1 .. n /\ DOMAIN handlers' = 1 .. n
         /\ Head(handlers) = handlers[1]
         /\ \A i \in 1 .. n : i # n => handlers'[i] = handlers[i + 1]
         /\ handlers'[n].env = handlers[1].env /\ handlers'[n].left = handlers[1].left - 1
<1> DEFINE h == [Head(handlers) EXCEPT !.left = @ - 1]
<1>1. handlers # <<>> /\ Head(handlers) = handlers[1] /\ Tail(handlers) \in Seq(Handlers)
      /\ Head(handlers) \in Handlers
  BY QueueFacts DEF StoreSample, Resuming, Typed, QueueTyped
<1>2. h \in Handlers /\ h.env = handlers[1].env /\ h.left = handlers[1].left - 1
  <2>1. Head(handlers).left - 1 \in 1 .. Samples + 1
    BY <1>1, ConstantsAssumption DEF StoreSample, Handlers
  <2> QED  BY <1>1, <2>1 DEF Handlers
<1>3. handlers' = Append(Tail(handlers), h)
  BY DEF StoreSample
<1> HIDE DEF h
<1>4. Len(Tail(handlers)) = n - 1 /\ n \in Nat \ {0} /\ DOMAIN handlers = 1 .. n
  BY <1>1 DEF TypeOK
<1>5. \A i \in 1 .. n - 1 : Tail(handlers)[i] = handlers[i + 1]
  BY <1>1, <1>4 DEF TypeOK
<1>6. DOMAIN handlers' = 1 .. n /\ handlers'[n] = h
      /\ \A i \in 1 .. n - 1 : handlers'[i] = Tail(handlers)[i]
  BY <1>1, <1>2, <1>3, <1>4
<1>7. n \in 1 .. n /\ \A i \in 1 .. n : i # n => i \in 1 .. n - 1
  BY <1>4
<1> QED  BY <1>1, <1>2, <1>4, <1>5, <1>6, <1>7

\* There it is as much alone as it was.
LEMMA AdvanceInOrder ==
  ASSUME Typed, TypeOK, OrderInv, StoreSample
  PROVE  OrderInv'
<1>1. UNCHANGED <<last, accepted, again, overlapped>>
  BY DEF StoreSample, guard, history, overlaps
<1> DEFINE n == Len(handlers)
<1>2. /\ n \in Nat \ {0} /\ DOMAIN handlers = 1 .. n /\ DOMAIN handlers' = 1 .. n
      /\ \A i \in 1 .. n : i # n => handlers'[i] = handlers[i + 1]
      /\ handlers'[n].env = handlers[1].env
  BY AdvancePositions
<1> HIDE DEF n
<1> DEFINE from(i) == IF i = n THEN 1 ELSE i + 1
<1>3. \A i \in 1 .. n : from(i) \in 1 .. n /\ handlers'[i].env = handlers[from(i)].env
  BY <1>2
<1>4. \A i \in 1 .. n, j \in 1 .. n : from(i) = from(j) => i = j
  BY <1>2
<1> HIDE DEF from
<1>5. ASSUME NEW i \in 1 .. n, handlers'[i].env.dev \notin overlapped
      PROVE  handlers'[i].env.ctr > last[handlers'[i].env.dev]
  BY <1>2, <1>3, <1>5 DEF OrderInv
<1>6. ASSUME NEW i \in 1 .. n, NEW j \in 1 .. n,
             handlers'[i].env.dev = handlers'[j].env.dev, handlers'[i].env.dev \notin overlapped
      PROVE  i = j
  <2>1. from(i) = from(j)
    BY <1>2, <1>3, <1>6 DEF OrderInv
  <2> QED  BY <1>4, <2>1
<1> QED  BY <1>1, <1>2, <1>5, <1>6 DEF OrderInv

\* The head of the queue leaves it; what is left keeps its order.
LEMMA TailInOrder ==
  ASSUME Typed, TypeOK, handlers # <<>>
  PROVE  \A i \in DOMAIN Tail(handlers) :
           i + 1 \in DOMAIN handlers /\ Tail(handlers)[i] = handlers[i + 1] /\ i + 1 # 1
           /\ i \in Nat
  BY ResumingFacts, QueueFacts DEF TypeOK

\* What commits is newer than all that did, if its device has not overlapped.
LEMMA CommitInOrder ==
  ASSUME Typed, TypeOK, OrderInv, Commit
  PROVE  OrderInv'
<1> DEFINE e == handlers[1].env
<1>1. /\ 1 \in DOMAIN handlers /\ e \in Envelopes /\ e.dev \in Devices /\ e.ctr \in Nat
      /\ last' = [last EXCEPT ![e.dev] = e.ctr] /\ accepted' = accepted \union {e}
      /\ overlapped' = overlapped /\ last \in [Devices -> Nat]
      /\ \A f \in accepted : f.dev \in Devices /\ f.ctr \in Nat
  BY CommitFacts DEF Commit, overlaps, TypeOK
<1>2. again' = again \union ({e} \intersect accepted)
  BY CommitFacts DEF Commit
<1>3. e.dev \notin overlapped => e.ctr > last[e.dev] /\ e \notin accepted
  BY <1>1 DEF OrderInv
<1>4. \A f \in again' : f.dev \in overlapped'
  BY <1>1, <1>2, <1>3 DEF OrderInv
<1>5. ASSUME NEW f \in accepted', f.dev \notin overlapped' PROVE f.ctr <= last'[f.dev]
  <2>1. CASE f = e
    BY <1>1, <2>1
  <2>2. CASE f \in accepted /\ f.dev = e.dev
    BY <1>1, <1>3, <1>5, <2>2 DEF OrderInv
  <2>3. CASE f \in accepted /\ f.dev # e.dev
    BY <1>1, <1>5, <2>3 DEF OrderInv
  <2> QED  BY <1>1, <2>1, <2>2, <2>3
<1>6. \A i \in DOMAIN handlers' : /\ i + 1 \in DOMAIN handlers /\ i + 1 # 1 /\ i \in Nat
                                  /\ handlers'[i] = handlers[i + 1]
                                  /\ handlers[i + 1].env.dev \in Devices
  <2>1. handlers' = Tail(handlers) /\ handlers # <<>>
    BY DEF Commit, Resuming
  <2>2. \A i \in DOMAIN handlers : handlers[i].env.dev \in Devices
    BY HandlerTyped DEF Typed
  <2> QED  BY <2>1, <2>2, TailInOrder
<1> HIDE DEF e
<1>7. ASSUME NEW i \in DOMAIN handlers', handlers'[i].env.dev \notin overlapped'
      PROVE  handlers'[i].env.ctr > last'[handlers'[i].env.dev]
  <2>1. handlers[i + 1].env.dev # handlers[1].env.dev
    BY <1>1, <1>6, <1>7 DEF OrderInv
  <2> QED  BY <1>1, <1>6, <1>7, <2>1 DEF OrderInv, e
<1>8. ASSUME NEW i \in DOMAIN handlers', NEW j \in DOMAIN handlers',
             handlers'[i].env.dev = handlers'[j].env.dev, handlers'[i].env.dev \notin overlapped'
      PROVE  i = j
  <2>1. i + 1 = j + 1
    BY <1>1, <1>6, <1>8 DEF OrderInv
  <2> QED  BY <1>6, <2>1
<1> QED  BY <1>4, <1>5, <1>7, <1>8 DEF OrderInv

\* The order invariant holds whatever chunks come.
LEMMA OrderInvariant == Spec => []OrderInv
<1>1. Init => OrderInv
  BY DEF Init, OrderInv
<1>2. ASSUME Typed, TypeOK, WriterInv, OrderInv, [Next]_vars PROVE OrderInv'
  <2> USE <1>2
  <2>1. ASSUME NEW d \in Devices, NEW c \in Ctrs, Arrive(d, c) PROVE OrderInv'
    BY <2>1, ArrivalInOrder
  <2>2. ASSUME NEW d \in Devices, NEW news \in {"alive", "gone"}, Connectivity(d, news)
        PROVE  OrderInv'
    BY <2>2 DEF Connectivity, guard, OrderInv
  <2>3. ASSUME NEW d \in Devices, ApiRemove(d) PROVE OrderInv'
    BY <2>3 DEF ApiRemove, guard, overlaps, OrderInv
  <2>4. CASE Discard
    <3>1. \A i \in DOMAIN handlers' : /\ i + 1 \in DOMAIN handlers /\ i \in Nat
                                      /\ handlers'[i] = handlers[i + 1]
      BY <2>4, TailInOrder DEF Discard, Resuming
    <3>2. UNCHANGED <<last, accepted, again, overlapped>>
      BY <2>4 DEF Discard, guard, history, overlaps
    <3>3. ASSUME NEW i \in DOMAIN handlers', NEW j \in DOMAIN handlers',
                 handlers'[i].env.dev = handlers'[j].env.dev,
                 handlers'[i].env.dev \notin overlapped
          PROVE  i = j
      <4>1. i + 1 = j + 1
        BY <3>1, <3>3 DEF OrderInv
      <4> QED  BY <3>1, <4>1
    <3> QED  BY <3>1, <3>2, <3>3 DEF OrderInv
  <2>5. CASE StoreSample
    BY <2>5, AdvanceInOrder
  <2>6. CASE Commit
    BY <2>6, CommitInOrder
  <2>7. CASE FlushPoints \/ DropPoints
    BY <2>7 DEF FlushPoints, DropPoints, guard, history, overlaps, OrderInv
  <2>8. CASE Shutdown \/ Exit
    BY <2>8 DEF Shutdown, Exit, FlushGuard, guard, history, overlaps, OrderInv
  <2>9. CASE Crash
    BY <2>9 DEF Crash, guard, history, overlaps, OrderInv
  <2>10. CASE Start
    BY <2>10 DEF Start, WriterInv, OrderInv
  <2>11. CASE UNCHANGED vars
    BY <2>11 DEF vars, guard, history, overlaps, OrderInv
  <2> QED
    BY <2>1, <2>2, <2>3, <2>4, <2>5, <2>6, <2>7, <2>8, <2>9, <2>10, <2>11 DEF Next
<1> QED  BY <1>1, <1>2, TypedInvariant, TypeCorrect, WriterInvariant, PTL DEF Spec

\* ReplayNeedsOverlap, for chunks of any size and any number of devices, samples,
\* counters and runs: an envelope is accepted again in a run only if two handlers of
\* its device were suspended together in that run (telemetryHandler.js:81-167,
\* replayGuard.js:15-36).
THEOREM ReplayIsOverlap == Spec => []ReplayNeedsOverlap
<1>1. OrderInv => ReplayNeedsOverlap
  BY DEF OrderInv, ReplayNeedsOverlap
<1> QED  BY <1>1, OrderInvariant, PTL

\* The commits since the last write of the file bound what a restart forgets.
WindowInv ==
  /\ IsFiniteSet(Forgotten) /\ Cardinality(Forgotten) <= unsaved
  /\ mode = "closing" => handlers = <<>> /\ Forgotten = {}

\* A file that holds what the guard holds forgets nothing, before or after a step.
LEMMA NothingForgotten ==
  ASSUME NEW acc \in SUBSET Envelopes, NEW f \in [Devices -> Nat], NEW out,
         \A e \in acc : e.dev \notin out => e.ctr <= f[e.dev]
  PROVE  {e \in acc : e.dev \notin out /\ e.ctr > f[e.dev]} = {}
<1>1. \A e \in acc : e.ctr \in Nat /\ f[e.dev] \in Nat
  BY DEF Envelopes, Ctrs
<1> QED  BY <1>1

\* A step that leaves the guard and the accepted envelopes alone keeps the window,
\* handlers that come to overlap included.
LEMMA WindowUnchanged ==
  ASSUME TypeOK, WindowInv, UNCHANGED <<accepted, saved, unsaved>>, overlapped \subseteq overlapped',
         mode' = "closing" => mode = "closing" /\ handlers' = handlers
  PROVE  WindowInv'
<1>1. Forgotten' \subseteq Forgotten
  BY DEF Forgotten
<1>2. IsFiniteSet(Forgotten') /\ Cardinality(Forgotten') <= Cardinality(Forgotten)
      /\ Cardinality(Forgotten') \in Nat /\ Cardinality(Forgotten) \in Nat
  BY <1>1, FS_Subset, FS_CardinalityType DEF WindowInv
<1>3. Cardinality(Forgotten') <= unsaved'
  BY <1>2 DEF WindowInv, TypeOK
<1> QED  BY <1>1, <1>2, <1>3 DEF WindowInv

\* A commit adds one envelope to what the file lacks, or writes the file.
LEMMA CommitInWindow ==
  ASSUME Typed, TypeOK, TypeOK', OrderInv', WindowInv, Commit
  PROVE  WindowInv'
<1> DEFINE e == handlers[1].env
<1>1. mode' = mode /\ mode # "closing"
  BY CommitFacts DEF Commit, Resuming, WindowInv
<1>2. CASE saved' = last' /\ unsaved' = 0
  <2>1. Forgotten' = {}
    BY <1>2, NothingForgotten DEF Forgotten, TypeOK, OrderInv
  <2> QED  BY <1>1, <1>2, <2>1, FS_EmptySet DEF WindowInv
<1>3. CASE saved' = saved /\ unsaved' = unsaved + 1
  <2>1. Forgotten' \subseteq Forgotten \union {e}
    BY <1>3, CommitFacts DEF Forgotten, Commit, overlaps
  <2>2. IsFiniteSet(Forgotten \union {e})
        /\ Cardinality(Forgotten \union {e}) <= Cardinality(Forgotten) + 1
        /\ Cardinality(Forgotten \union {e}) \in Nat /\ Cardinality(Forgotten) \in Nat
    <3>1. IsFiniteSet(Forgotten) /\ Cardinality(Forgotten) \in Nat
      BY FS_CardinalityType DEF WindowInv
    <3>2. IsFiniteSet(Forgotten \union {e})
          /\ Cardinality(Forgotten \union {e})
               = IF e \in Forgotten THEN Cardinality(Forgotten) ELSE Cardinality(Forgotten) + 1
      BY <3>1, FS_AddElement
    <3> QED  BY <3>1, <3>2
  <2>3. IsFiniteSet(Forgotten') /\ Cardinality(Forgotten') <= Cardinality(Forgotten \union {e})
        /\ Cardinality(Forgotten') \in Nat
    BY <2>1, <2>2, FS_Subset, FS_CardinalityType
  <2>4. Cardinality(Forgotten') <= unsaved'
    BY <1>3, <2>2, <2>3 DEF WindowInv, TypeOK
  <2> QED  BY <1>1, <2>3, <2>4 DEF WindowInv
<1> QED  BY <1>2, <1>3 DEF Commit, CommitCtr

\* ReplayWindow, for chunks of any size: of the devices whose handlers have not
\* overlapped in the run, a restart forgets fewer than PersistEveryN accepted
\* envelopes, a clean exit none (replayGuard.js:27-48, worker.js:217-238).
THEOREM RestartForgetsFew == Spec => []ReplayWindow
<1>1. Init => WindowInv
  <2> SUFFICES ASSUME Init PROVE WindowInv
    OBVIOUS
  <2>1. Forgotten = {} /\ unsaved = 0 /\ mode # "closing"
    BY DEF Init, Forgotten
  <2> QED  BY <2>1, FS_EmptySet DEF WindowInv
<1>2. ASSUME Typed, TypeOK, TypeOK', WriterInv, OrderInv', WindowInv, [Next]_vars
      PROVE  WindowInv'
  <2> USE <1>2
  <2>1. ASSUME NEW d \in Devices, NEW c \in Ctrs, Arrive(d, c) PROVE WindowInv'
    BY <2>1, WindowUnchanged DEF Arrive, guard, overlaps
  <2>2. ASSUME NEW d \in Devices, NEW news \in {"alive", "gone"}, Connectivity(d, news)
        PROVE  WindowInv'
    BY <2>2, WindowUnchanged DEF Connectivity, guard
  <2>3. ASSUME NEW d \in Devices, ApiRemove(d) PROVE WindowInv'
    BY <2>3, WindowUnchanged DEF ApiRemove, guard, overlaps
  <2>4. CASE Discard \/ StoreSample
    <3>1. mode' = mode /\ handlers # <<>> /\ UNCHANGED <<accepted, saved, unsaved, overlapped>>
      BY <2>4 DEF Discard, StoreSample, Resuming, guard, history, overlaps
    <3>2. mode # "closing"
      BY <3>1 DEF WindowInv
    <3> QED  BY <3>1, <3>2, WindowUnchanged
  <2>5. CASE Commit
    BY <2>5, CommitInWindow
  <2>6. CASE FlushPoints \/ DropPoints
    BY <2>6, WindowUnchanged DEF FlushPoints, DropPoints, guard, history, overlaps
  <2>7. CASE Shutdown
    <3>1. saved' = last' /\ unsaved' = 0 /\ handlers' = <<>>
      BY <2>7 DEF Shutdown, FlushGuard
    <3>2. Forgotten' = {}
      BY <3>1, NothingForgotten DEF Forgotten, TypeOK, OrderInv
    <3> QED  BY <3>1, <3>2, FS_EmptySet DEF WindowInv
  <2>8. CASE Exit \/ Crash
    BY <2>8, WindowUnchanged DEF Exit, Crash, guard, history, overlaps
  <2>9. CASE Start
    <3>1. Forgotten' = {} /\ unsaved' = 0 /\ mode' # "closing"
      BY <2>9 DEF Start, Forgotten
    <3> QED  BY <3>1, FS_EmptySet DEF WindowInv
  <2>10. CASE UNCHANGED vars
    BY <2>10, WindowUnchanged DEF vars, guard, history, overlaps
  <2> QED
    BY <2>1, <2>2, <2>3, <2>4, <2>5, <2>6, <2>7, <2>8, <2>9, <2>10 DEF Next
<1>3. ASSUME TypeOK, WindowInv PROVE ReplayWindow
  <2>1. Cardinality(Forgotten) < PersistEveryN
    <3>1. Cardinality(Forgotten) \in Nat
      BY <1>3, FS_CardinalityType DEF WindowInv
    <3>2. Cardinality(Forgotten) <= unsaved
      BY <1>3 DEF WindowInv
    <3>3. unsaved \in 0 .. PersistEveryN - 1
      BY <1>3 DEF TypeOK
    <3> QED  BY <3>1, <3>2, <3>3, ConstantsAssumption
  <2> QED  BY <1>3, <2>1 DEF WindowInv, ReplayWindow
<1> QED
  BY <1>1, <1>2, <1>3, TypedInvariant, TypeCorrect, WriterInvariant, OrderInvariant, PTL
     DEF Spec

-----------------------------------------------------------------------------
(* What the registry says of a device.                                      *)

\* The file never contradicts the latest news except of a device in `midway', and
\* whoever is about to touch the registry speaks for a device that was last heard
\* alive, or is in `midway'.
NewsInv ==
  /\ \A d \in Devices : /\ heard[d] = "alive" => file[d] # "offline"
                        /\ heard[d] = "gone" /\ d \notin midway => file[d] # "online"
  /\ \A i \in DOMAIN handlers :
       heard[handlers[i].env.dev] = "alive" \/ handlers[i].env.dev \in midway
  /\ \A d \in midway : heard[d] = "gone"

\* A touch or a registration sets one entry, and only if that device is there or
\* becomes known, whatever the cache holds.
LEMMA TouchedEntry ==
  ASSUME RegistryTyped, NEW d \in Devices, NEW entry \in {"online", "offline"},
         TouchSeen(d, entry) \/ (entry = "online" /\ Register(d))
  PROVE  \A e \in Devices : IF e = d THEN file'[e] \in {"absent", entry}
                                     ELSE file'[e] = file[e]
  BY DEF RegistryTyped, TouchSeen, Register

\* WrongOnlyMidway, for chunks of any size: the late touch of a telemetry handler
\* undoes an OFFLINE only when the OFFLINE came while a handler of the same device
\* was suspended, through removals by the API, crashes and restarts
\* (telemetryHandler.js:168, deviceEventHandler.js:195).
THEOREM RegistryFollowsNews == Spec => []WrongOnlyMidway
<1>1. Init => NewsInv
  BY DEF Init, NewsInv
<1>2. ASSUME Typed, TypeOK, NewsInv, [Next]_vars PROVE NewsInv'
  <2> USE <1>2
  <2>1. ASSUME NEW d \in Devices, NEW c \in Ctrs, Arrive(d, c) PROVE NewsInv'
    <3>1. CASE Admits(d)
      <4> DEFINE h == [env |-> [dev |-> d, ctr |-> c], left |-> Samples + 1]
      <4>1. \A e \in Devices : IF e = d THEN file'[e] \in {"absent", "online"}
                                        ELSE file'[e] = file[e]
        BY <2>1, <3>1, TouchedEntry DEF Arrive, Gate, Typed
      <4>2. /\ heard' = [heard EXCEPT ![d] = "alive"] /\ midway' = midway \ {d}
            /\ handlers' = handlers \/ handlers' = Append(handlers, h)
        BY <2>1, <3>1 DEF Arrive
      <4>3. h \in Handlers /\ h.env.dev = d
        BY ConstantsAssumption DEF Handlers, Envelopes
      <4> HIDE DEF h
      <4>4. \A i \in DOMAIN handlers' :
              handlers'[i] = h \/ (i \in DOMAIN handlers /\ handlers'[i] = handlers[i])
        BY <4>2, <4>3, AppendFacts DEF Typed, QueueTyped
      <4>5. \A i \in DOMAIN handlers : handlers[i].env.dev \in Devices
        BY HandlerTyped DEF Typed
      <4>6. ASSUME NEW i \in DOMAIN handlers'
            PROVE  heard'[handlers'[i].env.dev] = "alive" \/ handlers'[i].env.dev \in midway'
        BY <4>2, <4>3, <4>4, <4>5 DEF NewsInv, TypeOK
      <4> QED  BY <4>1, <4>2, <4>6 DEF NewsInv, TypeOK
    <3>2. CASE ~Admits(d)
      BY <2>1, <3>2 DEF Arrive, registry, overlaps, NewsInv
    <3> QED  BY <3>1, <3>2
  <2>2. ASSUME NEW d \in Devices, NEW news \in {"alive", "gone"}, Connectivity(d, news)
        PROVE  NewsInv'
    <3>1. \A e \in Devices :
            IF e = d THEN file'[e] \in {"absent", IF news = "alive" THEN "online" ELSE "offline"}
                     ELSE file'[e] = file[e]
      BY <2>2, TouchedEntry DEF Connectivity, Typed
    <3>2. /\ heard' = [heard EXCEPT ![d] = news] /\ handlers' = handlers
          /\ midway' = IF news = "gone" /\ d \in Suspended THEN midway \union {d}
                                                          ELSE midway \ {d}
      BY <2>2 DEF Connectivity
    <3>3. ASSUME NEW i \in DOMAIN handlers
          PROVE  heard'[handlers[i].env.dev] = "alive" \/ handlers[i].env.dev \in midway'
      <4>1. handlers[i].env.dev \in Suspended /\ handlers[i].env.dev \in Devices
        BY HandlerTyped DEF Suspended, Typed
      <4> QED  BY <3>2, <4>1 DEF NewsInv, TypeOK
    <3> QED  BY <3>1, <3>2, <3>3 DEF NewsInv, TypeOK
  <2>3. ASSUME NEW d \in Devices, ApiRemove(d) PROVE NewsInv'
    BY <2>3 DEF ApiRemove, overlaps, NewsInv, TypeOK
  <2>4. CASE Discard
    <3>1. \A i \in DOMAIN handlers' : \E j \in DOMAIN handlers : handlers'[i] = handlers[j]
      BY <2>4, ResumingFacts DEF Discard, Resuming
    <3> QED  BY <2>4, <3>1 DEF Discard, registry, history, overlaps, NewsInv
  <2>5. CASE StoreSample
    <3>1. \A i \in DOMAIN handlers' : \E j \in DOMAIN handlers :
            handlers'[i].env = handlers[j].env
      BY <2>5, AdvanceFacts, ResumingFacts DEF StoreSample, Resuming
    <3> QED  BY <2>5, <3>1 DEF StoreSample, registry, history, overlaps, NewsInv
  <2>6. CASE Commit
    <3>1. \A i \in DOMAIN handlers' : \E j \in DOMAIN handlers : handlers'[i] = handlers[j]
      BY <2>6, ResumingFacts DEF Commit, Resuming
    <3>2. /\ handlers[1].env.dev \in Devices
          /\ heard[handlers[1].env.dev] = "alive" \/ handlers[1].env.dev \in midway
      BY <2>6, CommitFacts DEF NewsInv
    <3>3. \A e \in Devices : IF e = handlers[1].env.dev THEN file'[e] \in {"absent", "online"}
                                                       ELSE file'[e] = file[e]
      BY <2>6, <3>2, CommitFacts, TouchedEntry DEF Commit, Typed
    <3> QED  BY <2>6, <3>1, <3>2, <3>3 DEF Commit, overlaps, NewsInv
  <2>7. CASE FlushPoints \/ DropPoints \/ Shutdown \/ Exit \/ UNCHANGED vars
    BY <2>7 DEF FlushPoints, DropPoints, Shutdown, Exit, registry, history, overlaps, vars, NewsInv
  <2>8. CASE Crash \/ Start
    BY <2>8 DEF Crash, Start, registry, history, overlaps, NewsInv
  <2> QED  BY <2>1, <2>2, <2>3, <2>4, <2>5, <2>6, <2>7, <2>8 DEF Next
<1>3. NewsInv => WrongOnlyMidway
  BY DEF NewsInv, WrongOnlyMidway
<1> QED  BY <1>1, <1>2, <1>3, TypedInvariant, TypeCorrect, PTL DEF Spec
-----------------------------------------------------------------------------
(* The log of envelopes.                                                    *)

\* Of a device whose handlers have not overlapped in the run, the file of the guard
\* is not ahead of the guard, and each point belongs to what the guard has passed or
\* to a suspended handler, which wrote it.
Owned(p) ==
  \/ p[1].dev \in overlapped
  \/ p[1].ctr <= last[p[1].dev]
  \/ \E i \in DOMAIN handlers : handlers[i].env = p[1] /\ handlers[i].left <= p[2]

PointsInv ==
  /\ \A d \in Devices \ overlapped : saved[d] <= last[d]
  /\ mode # "down" => \A p \in stored \union buffered : Owned(p)

\* A step that writes nothing, keeps the guard and ends no handler keeps it.
LEMMA PointsKept ==
  ASSUME PointsInv, UNCHANGED <<mode, last, saved>>, overlapped \subseteq overlapped',
         stored' \union buffered' \subseteq stored \union buffered,
         \A i \in DOMAIN handlers : i \in DOMAIN handlers' /\ handlers'[i] = handlers[i]
  PROVE  PointsInv'
  BY DEF PointsInv, Owned

\* A point is one of an envelope, with its device and its counter.
LEMMA PointFacts ==
  ASSUME TypeOK, NEW p \in stored \union buffered
  PROVE  /\ p[1] \in Envelopes /\ p[1].dev \in Devices /\ p[1].ctr \in Nat
         /\ p[2] \in 1 .. Samples /\ p = <<p[1], p[2]>>
         /\ last[p[1].dev] \in Nat
<1>1. p \in Envelopes \X (1 .. Samples)
  BY DEF TypeOK
<1> QED  BY <1>1 DEF TypeOK, Envelopes, Ctrs

\* A handler that stores a sample owns the point, and no point changes hands.
LEMMA StoredPointOwned ==
  ASSUME Typed, TypeOK, PointsInv, StoreSample
  PROVE  PointsInv'
<1> DEFINE n == Len(handlers)
<1>1. /\ n \in Nat \ {0} /\ DOMAIN handlers = 1 .. n /\ DOMAIN handlers' = 1 .. n
      /\ Head(handlers) = handlers[1]
      /\ \A i \in 1 .. n : i # n => handlers'[i] = handlers[i + 1]
      /\ handlers'[n].env = handlers[1].env /\ handlers'[n].left = handlers[1].left - 1
  BY AdvancePositions
<1>2. handlers[1].left \in Nat
  <2>1. handlers # <<>>
    BY DEF StoreSample, Resuming
  <2>2. handlers[1].left \in 1 .. Samples + 1
    BY <1>1, <2>1, ResumingFacts
  <2> QED  BY <2>2, ConstantsAssumption
<1>3. UNCHANGED <<last, saved, mode, overlapped>> /\ mode # "down"
  BY DEF StoreSample, Resuming, guard, history, overlaps
<1>4. stored' \union buffered'
        = stored \union buffered \union {<<handlers[1].env, handlers[1].left - 1>>}
  BY <1>1 DEF StoreSample, WritePoint
<1> HIDE DEF n
<1>5. ASSUME NEW p, p = <<handlers[1].env, handlers[1].left - 1>> PROVE Owned(p)'
  <2>1. n \in DOMAIN handlers'
    BY <1>1
  <2>2. p[1] = handlers[1].env /\ p[2] = handlers[1].left - 1
    BY <1>5
  <2> QED  BY <1>1, <1>2, <2>1, <2>2 DEF Owned
<1>6. ASSUME NEW p \in stored \union buffered PROVE Owned(p)'
  <2>1. CASE p[1].dev \in overlapped \/ p[1].ctr <= last[p[1].dev]
    BY <1>3, <2>1 DEF Owned
  <2>2. ASSUME NEW i \in 1 .. n, handlers[i].env = p[1], handlers[i].left <= p[2]
        PROVE  Owned(p)'
    <3>1. CASE i = 1
      <4>1. p[2] \in Nat
        BY PointFacts
      <4>2. n \in DOMAIN handlers' /\ handlers'[n].env = p[1] /\ handlers'[n].left <= p[2]
        BY <1>1, <1>2, <2>2, <3>1, <4>1
      <4> QED  BY <4>2 DEF Owned
    <3>2. CASE i # 1
      <4>1. i - 1 \in DOMAIN handlers' /\ handlers'[i - 1] = handlers[i]
        BY <1>1, <2>2, <3>2
      <4> QED  BY <2>2, <4>1 DEF Owned
    <3> QED  BY <3>1, <3>2
  <2>3. \/ p[1].dev \in overlapped \/ p[1].ctr <= last[p[1].dev]
        \/ \E i \in DOMAIN handlers : handlers[i].env = p[1] /\ handlers[i].left <= p[2]
    BY <1>3 DEF PointsInv, Owned
  <2> QED  BY <1>1, <2>1, <2>2, <2>3
<1>7. \A p \in stored' \union buffered' : Owned(p)'
  BY <1>4, <1>5, <1>6
<1> QED  BY <1>3, <1>7 DEF PointsInv

\* The points of the handler that commits come under the guard.
LEMMA CommittedPointsOwned ==
  ASSUME Typed, TypeOK, OrderInv, PointsInv, Commit
  PROVE  PointsInv'
<1> DEFINE e == handlers[1].env
<1>1. /\ 1 \in DOMAIN handlers
      /\ e \in Envelopes /\ e.dev \in Devices /\ e.ctr \in Nat
      /\ last' = [last EXCEPT ![e.dev] = e.ctr] /\ last \in [Devices -> Nat]
  BY CommitFacts DEF TypeOK
<1>2. UNCHANGED <<stored, buffered, overlapped>> /\ mode # "down"
  BY DEF Commit, Resuming, writer, overlaps
<1>3. e.dev \notin overlapped => e.ctr > last[e.dev]
  BY <1>1 DEF OrderInv
<1>4. \A d \in Devices \ overlapped :
        last[d] \in Nat /\ last'[d] \in Nat /\ last[d] <= last'[d]
  BY <1>1, <1>3
<1>5. \A d \in Devices \ overlapped : saved'[d] <= last'[d]
  <2>1. saved' = last' \/ saved' = saved
    BY DEF Commit, CommitCtr
  <2> QED  BY <1>4, <2>1 DEF PointsInv, TypeOK
<1>6. handlers # <<>> /\ handlers' = Tail(handlers) /\ DOMAIN handlers = 1 .. Len(handlers)
      /\ Len(handlers) \in Nat /\ DOMAIN handlers' = 1 .. Len(handlers) - 1
      /\ \A i \in DOMAIN handlers' : handlers'[i] = handlers[i + 1]
  <2>1. handlers # <<>> /\ handlers' = Tail(handlers) /\ handlers \in Seq(Handlers)
    BY DEF Commit, Resuming, TypeOK
  <2> QED  BY <2>1
<1> HIDE DEF e
<1>7. ASSUME NEW p \in stored \union buffered PROVE Owned(p)'
  <2>1. p[1].dev \in Devices /\ p[1].ctr \in Nat
    BY PointFacts
  <2>2. CASE p[1].dev \in overlapped
    BY <1>2, <2>2 DEF Owned
  <2>3. CASE p[1].dev \notin overlapped /\ p[1] = e
    BY <1>1, <2>3 DEF Owned
  <2>4. CASE p[1].dev \notin overlapped /\ p[1].ctr <= last[p[1].dev]
    <3>1. p[1].ctr <= last'[p[1].dev]
      BY <1>4, <2>1, <2>4
    <3> QED  BY <3>1 DEF Owned
  <2>5. ASSUME NEW i \in DOMAIN handlers, handlers[i].env = p[1], handlers[i].left <= p[2],
               p[1] # e
        PROVE  Owned(p)'
    <3>1. i # 1
      BY <2>5 DEF e
    <3>2. i - 1 \in DOMAIN handlers' /\ handlers'[i - 1] = handlers[i]
      BY <1>6, <3>1
    <3> QED  BY <2>5, <3>2 DEF Owned
  <2> QED  BY <1>2, <2>2, <2>3, <2>4, <2>5 DEF PointsInv, Owned
<1> QED  BY <1>2, <1>5, <1>7 DEF PointsInv

\* The invariant holds whatever chunks come.
LEMMA PointsInvariant == Spec => []PointsInv
<1>1. Init => PointsInv
  BY DEF Init, PointsInv
<1>2. ASSUME Typed, TypeOK, WriterInv, OrderInv, PointsInv, [Next]_vars PROVE PointsInv'
  <2> USE <1>2
  <2>1. ASSUME NEW d \in Devices, NEW c \in Ctrs, Arrive(d, c) PROVE PointsInv'
    <3> DEFINE h == [env |-> [dev |-> d, ctr |-> c], left |-> Samples + 1]
    <3>1. h \in Handlers
      BY ConstantsAssumption DEF Handlers, Envelopes
    <3>2. handlers' = handlers \/ handlers' = Append(handlers, h)
      BY <2>1 DEF Arrive
    <3> HIDE DEF h
    <3>3. \A i \in DOMAIN handlers : i \in DOMAIN handlers' /\ handlers'[i] = handlers[i]
      <4>1. ASSUME handlers' = Append(handlers, h), NEW i \in DOMAIN handlers
            PROVE  i \in DOMAIN handlers' /\ handlers'[i] = handlers[i]
        <5>1. handlers \in Seq(Handlers)
          BY DEF TypeOK
        <5> QED  BY <3>1, <4>1, <5>1
      <4> QED  BY <3>2, <4>1
    <3>4. overlapped \subseteq overlapped'
      BY <2>1 DEF Arrive, overlaps
    <3> QED  BY <2>1, <3>3, <3>4, PointsKept DEF Arrive, guard, writer
  <2>2. ASSUME NEW d \in Devices, NEW news \in {"alive", "gone"}, Connectivity(d, news)
        PROVE  PointsInv'
    BY <2>2, PointsKept DEF Connectivity, guard, writer
  <2>3. ASSUME NEW d \in Devices, ApiRemove(d) PROVE PointsInv'
    BY <2>3, PointsKept DEF ApiRemove, guard, writer, overlaps
  <2>4. CASE Discard
    <3>1. /\ Head(handlers) = handlers[1] /\ handlers[1].left = Samples + 1
          /\ UNCHANGED <<last, saved, mode, overlapped, stored, buffered>>
      BY <2>4, ResumingFacts DEF Discard, Resuming, guard, writer, history, overlaps
    <3>2. /\ Len(handlers) \in Nat /\ DOMAIN handlers = 1 .. Len(handlers)
          /\ DOMAIN handlers' = 1 .. Len(handlers) - 1
          /\ \A i \in DOMAIN handlers' : handlers'[i] = handlers[i + 1]
      <4>1. handlers # <<>> /\ handlers' = Tail(handlers) /\ handlers \in Seq(Handlers)
        BY <2>4 DEF Discard, Resuming, TypeOK
      <4> QED  BY <4>1
    <3>3. ASSUME NEW p \in stored \union buffered, NEW i \in DOMAIN handlers,
                 handlers[i].env = p[1], handlers[i].left <= p[2]
          PROVE  Owned(p)'
      <4>1. p[2] \in 1 .. Samples
        BY PointFacts
      <4>2. i # 1
        BY <3>1, <3>3, <4>1, ConstantsAssumption
      <4>3. i - 1 \in DOMAIN handlers' /\ handlers'[i - 1] = handlers[i]
        BY <3>2, <4>2
      <4> QED  BY <3>3, <4>3 DEF Owned
    <3>4. \A p \in stored \union buffered : Owned(p) => Owned(p)'
      BY <3>1, <3>3 DEF Owned
    <3> QED  BY <3>1, <3>4 DEF PointsInv
  <2>5. CASE StoreSample
    BY <2>5, StoredPointOwned
  <2>6. CASE Commit
    BY <2>6, CommittedPointsOwned
  <2>7. CASE FlushPoints \/ DropPoints
    <3>1. stored' \union buffered' \subseteq stored \union buffered
      BY <2>7 DEF FlushPoints, DropPoints
    <3> QED  BY <2>7, <3>1, PointsKept DEF FlushPoints, DropPoints, guard, history, overlaps
  <2>8. CASE Shutdown
    <3>1. saved' = last /\ UNCHANGED <<last, stored, buffered, handlers, overlapped>>
          /\ mode # "down"
      BY <2>8 DEF Shutdown, FlushGuard, Receiving, writer, history, overlaps
    <3> QED  BY <3>1 DEF PointsInv, Owned, TypeOK
  <2>9. CASE Exit \/ Crash
    BY <2>9 DEF Exit, Crash, guard, history, overlaps, PointsInv
  <2>10. CASE Start
    <3>1. last' = saved /\ saved' = saved /\ stored' \union buffered' = {}
      BY <2>10 DEF Start, WriterInv
    <3> QED  BY <3>1 DEF PointsInv, TypeOK
  <2>11. CASE UNCHANGED vars
    BY <2>11, PointsKept DEF vars, guard, writer, history, overlaps
  <2> QED
    BY <2>1, <2>2, <2>3, <2>4, <2>5, <2>6, <2>7, <2>8, <2>9, <2>10, <2>11 DEF Next
<1> QED
  BY <1>1, <1>2, TypedInvariant, TypeCorrect, WriterInvariant, OrderInvariant, PTL DEF Spec

\* Steps of the log: nothing, a sample, an envelope, a loss, a restart.
LEMMA LogUnchanged ==
  ASSUME UNCHANGED <<accepted, last, stored, buffered, spilled, overlapped>>
  PROVE  UNCHANGED Log!vars
  BY DEF Log!vars

\* A packet that overlaps another of its device makes the device loose.
LEMMA ArriveIsLoosen ==
  ASSUME NEW d \in Devices, NEW c \in Ctrs, Arrive(d, c)
  PROVE  Log!Next \/ UNCHANGED Log!vars
<1>1. UNCHANGED <<accepted, last, stored, buffered, spilled>>
  BY DEF Arrive, guard, writer
<1>2. overlapped' = overlapped \/ overlapped' = overlapped \union {d}
  BY DEF Arrive, overlaps
<1>3. CASE overlapped' = overlapped
  BY <1>1, <1>3, LogUnchanged
<1>4. CASE overlapped' = overlapped \union {d}
  BY <1>1, <1>4 DEF Log!Loosen, Log!Next
<1> QED  BY <1>2, <1>3, <1>4

\* What is stored belongs to a new envelope and was not stored before, or its
\* device is loose.
LEMMA StoreIsWrite ==
  ASSUME Typed, TypeOK, OrderInv, PointsInv, StoreSample
  PROVE  Log!Next
<1> DEFINE e == handlers[1].env
           n == handlers[1].left - 1
<1>1. /\ 1 \in DOMAIN handlers /\ e \in Envelopes /\ n \in 1 .. Samples
      /\ handlers[1].left \in Nat /\ Head(handlers) = handlers[1]
  BY ResumingFacts, ConstantsAssumption DEF StoreSample, Resuming
<1>2. e.dev \notin overlapped => e.ctr > last[e.dev]
  BY <1>1 DEF OrderInv
<1>3. e.dev \notin overlapped => <<e, n>> \notin stored \union buffered
  <2> SUFFICES ASSUME e.dev \notin overlapped, <<e, n>> \in stored \union buffered
               PROVE  FALSE
    OBVIOUS
  <2>1. last[e.dev] \in Nat /\ e.ctr \in Nat
    BY <1>1 DEF TypeOK, Envelopes, Ctrs
  <2>2. Owned(<<e, n>>)
    BY DEF PointsInv, StoreSample, Resuming
  <2>3. \E i \in DOMAIN handlers : handlers[i].env = e /\ handlers[i].left <= n
    BY <1>2, <2>1, <2>2 DEF Owned
  <2>4. handlers[1].left <= n
    BY <1>1, <2>3 DEF OrderInv
  <2> QED  BY <1>1, <2>4
<1>4. stored' \union buffered' = stored \union buffered \union {<<e, n>>}
  BY <1>1 DEF StoreSample, WritePoint
<1>5. UNCHANGED <<accepted, last, spilled, overlapped>>
  BY DEF StoreSample, guard, history, overlaps, WritePoint
<1> HIDE DEF e, n
<1>6. Log!Write(e, n)
  BY <1>2, <1>3, <1>4, <1>5 DEF Log!Write, Log!IsNew
<1> QED  BY <1>1, <1>6 DEF Log!Next

\* What is committed is new or its device is loose, and its samples are there.
LEMMA CommitIsTake ==
  ASSUME Typed, TypeOK, WriterInv, OrderInv, Commit
  PROVE  Log!Next
<1> DEFINE e == handlers[1].env
<1>1. /\ 1 \in DOMAIN handlers /\ e \in Envelopes
      /\ accepted' = accepted \union {e}
      /\ last' = [last EXCEPT ![e.dev] = e.ctr]
  BY CommitFacts
<1>2. e.dev \in overlapped \/ e.ctr > last[e.dev]
  BY <1>1 DEF OrderInv
<1>3. spilled \/ \A n \in 1 .. Samples : <<e, n>> \in stored \union buffered
  <2>1. handlers[1].left = 1
    BY CommitFacts DEF Commit
  <2> QED  BY <1>1, <2>1 DEF WriterInv, Covered
<1>4. UNCHANGED <<stored, buffered, spilled, overlapped>>
  BY DEF Commit, writer, overlaps
<1> HIDE DEF e
<1>5. Log!Take(e)
  BY <1>1, <1>2, <1>3, <1>4 DEF Log!Take, Log!IsNew, Log!Complete
<1> QED  BY <1>1, <1>5 DEF Log!Next

\* A restart from the file sets no counter forward and forgets fewer than
\* PersistEveryN envelopes, loose devices aside.
LEMMA StartIsRestart ==
  ASSUME Typed, TypeOK, WriterInv, ReplayWindow, PointsInv, Start
  PROVE  Log!Next
<1>1. /\ last' = saved /\ accepted' = {} /\ stored' \union buffered' = {} /\ spilled' = FALSE
      /\ overlapped' = {}
  BY DEF Start, WriterInv
<1>2. last' \in [Devices -> Nat] /\ \A d \in Devices \ overlapped : last'[d] <= last[d]
  BY <1>1 DEF TypeOK, PointsInv
<1>3. Cardinality({e \in accepted : e.dev \notin overlapped /\ e.ctr > last'[e.dev]})
        < PersistEveryN
  BY <1>1 DEF ReplayWindow, Forgotten
<1>4. \A S : Log!Cardinality(S) = Cardinality(S)
  BY DEF Log!Cardinality, Cardinality
<1>5. Log!Restart
  BY <1>1, <1>2, <1>3, <1>4 DEF Log!Restart
<1> QED  BY <1>5 DEF Log!Next

\* ImplementsLog, for chunks of any size and every number of devices, samples and
\* runs: through repetitions, refused batches, overlapping handlers, crashes and
\* restarts the guard, the writer and their order in the handler amount to a log
\* that takes only complete envelopes, and of a device whose handlers have not
\* overlapped in the run takes each once and in order and writes each sample once
\* (telemetryHandler.js:82-167, replayGuard.js:22-48, influxWriter.js:25-34).
THEOREM GuardAndWriterAreLog == Spec => ImplementsLog
<1>1. Init => Log!Init
  BY DEF Init, Log!Init
<1>2. ASSUME Typed, TypeOK, WriterInv, OrderInv, ReplayWindow, PointsInv, [Next]_vars
      PROVE  [Log!Next]_Log!vars
  <2> USE <1>2
  <2>1. ASSUME NEW d \in Devices, NEW c \in Ctrs, Arrive(d, c)
        PROVE  Log!Next \/ UNCHANGED Log!vars
    BY <2>1, ArriveIsLoosen
  <2>2. ASSUME NEW d \in Devices, NEW news \in {"alive", "gone"}, Connectivity(d, news)
        PROVE  UNCHANGED Log!vars
    BY <2>2, LogUnchanged DEF Connectivity, guard, writer
  <2>3. ASSUME NEW d \in Devices, ApiRemove(d) PROVE UNCHANGED Log!vars
    BY <2>3, LogUnchanged DEF ApiRemove, guard, writer, overlaps
  <2>4. CASE Discard \/ Exit \/ UNCHANGED vars
    BY <2>4, LogUnchanged DEF Discard, Exit, vars, guard, writer, history, overlaps
  <2>5. CASE StoreSample
    BY <2>5, StoreIsWrite
  <2>6. CASE Commit
    BY <2>6, CommitIsTake
  <2>7. CASE FlushPoints
    <3>1. stored' \union buffered' = stored \union buffered
      BY <2>7 DEF FlushPoints
    <3> QED  BY <2>7, <3>1 DEF FlushPoints, guard, history, overlaps, Log!vars
  <2>8. CASE DropPoints
    <3>1. Log!Lose
      BY <2>8 DEF DropPoints, guard, history, overlaps, Log!Lose
    <3> QED  BY <3>1 DEF Log!Next
  <2>9. CASE Shutdown
    BY <2>9, LogUnchanged DEF Shutdown, FlushGuard, writer, history, overlaps
  <2>10. CASE Crash
    <3>1. stored' \union buffered' = stored /\ UNCHANGED <<last, accepted, stored, overlapped>>
      BY <2>10 DEF Crash, guard, history, overlaps
    <3>2. CASE buffered = {}
      <4>1. buffered' = {} /\ spilled' = (spilled \/ FALSE)
        BY <2>10, <3>2 DEF Crash
      <4>2. spilled' = spilled
        BY <4>1 DEF TypeOK
      <4> QED  BY <3>1, <3>2, <4>1, <4>2, LogUnchanged
    <3>3. CASE buffered # {}
      <4>1. spilled' = TRUE
        BY <2>10, <3>3 DEF Crash
      <4>2. Log!Lose
        BY <3>1, <4>1 DEF Log!Lose
      <4> QED  BY <4>2 DEF Log!Next
    <3> QED  BY <3>2, <3>3
  <2>11. CASE Start
    BY <2>11, StartIsRestart
  <2> QED
    BY <2>1, <2>2, <2>3, <2>4, <2>5, <2>6, <2>7, <2>8, <2>9, <2>10, <2>11 DEF Next
<1> QED
  BY <1>1, <1>2, TypedInvariant, TypeCorrect, WriterInvariant, OrderInvariant,
     RestartForgetsFew, PointsInvariant, PTL
  DEF Spec, ImplementsLog, Log!Spec

=============================================================================
