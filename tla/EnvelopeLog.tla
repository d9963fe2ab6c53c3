----------------------------- MODULE EnvelopeLog -----------------------------
(***************************************************************************)
(* What the telemetry path of the worker is meant to be in the eyes of one   *)
(* run: a log that takes the envelopes of a device in the order of their     *)
(* counters, each once, and each only when all its samples are kept, every    *)
(* sample written once.  Samples may be lost, and the log knows it; a restart *)
(* may set the mark of a device back, over fewer than Window envelopes.  Of a *)
(* device that has come loose only completeness is promised until a restart.  *)
(***************************************************************************)
EXTENDS Naturals, FiniteSets

CONSTANTS
  Devices,
  Envelopes, \* records with a device `dev' and a counter `ctr'
  Samples,   \* samples of an envelope
  Window

VARIABLES
  taken,   \* envelopes taken since the last restart
  mark,    \* counter of the newest envelope of each device
  samples, \* samples kept, each with its envelope
  lossy,   \* whether samples were lost since the last restart
  loose    \* devices of which no order is promised since the last restart

vars == <<taken, mark, samples, lossy, loose>>

Init ==
  /\ taken = {} /\ mark = [d \in Devices |-> 0]
  /\ samples = {} /\ lossy = FALSE /\ loose = {}

IsNew(e) == e.ctr > mark[e.dev]

\* A sample of an envelope that is not taken yet is written, for the first time.
Write(e, n) ==
  /\ e.dev \in loose \/ (IsNew(e) /\ <<e, n>> \notin samples)
  /\ samples' = samples \union {<<e, n>>}
  /\ UNCHANGED <<taken, mark, lossy, loose>>

Complete(e) == \A n \in 1 .. Samples : <<e, n>> \in samples

Take(e) ==
  /\ e.dev \in loose \/ IsNew(e)
  /\ taken' = taken \union {e}
  /\ mark' = [mark EXCEPT ![e.dev] = e.ctr]
  /\ lossy \/ Complete(e)
  /\ UNCHANGED <<samples, lossy, loose>>

Lose ==
  /\ lossy' = TRUE /\ samples' \subseteq samples
  /\ UNCHANGED <<taken, mark, loose>>

Loosen(d) == loose' = loose \union {d} /\ UNCHANGED <<taken, mark, samples, lossy>>

Restart ==
  /\ taken' = {} /\ samples' = {} /\ lossy' = FALSE /\ loose' = {}
  /\ mark' \in [Devices -> Nat] /\ \A d \in Devices \ loose : mark'[d] <= mark[d]
  /\ Cardinality({e \in taken : e.dev \notin loose /\ e.ctr > mark'[e.dev]}) < Window

Next ==
  \/ Restart \/ Lose
  \/ \E d \in Devices : Loosen(d)
  \/ \E e \in Envelopes : Take(e) \/ \E n \in 1 .. Samples : Write(e, n)

Spec == Init /\ [][Next]_vars
=============================================================================
