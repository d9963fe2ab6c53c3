----------------------------- MODULE SampleQueue -----------------------------
(***************************************************************************)
(* What the telemetry buffer promises to the rest of the firmware: a FIFO of *)
(* the newest samples of this boot.  A sample may be lost only from the old  *)
(* end, one at a time when the queue is full or a whole batch at once, and a *)
(* batch that is sent is always the oldest one.                              *)
(***************************************************************************)
EXTENDS Naturals, Sequences

CONSTANTS QueueCapacity, Size, Samples

VARIABLES queue, out

Init == queue = <<>> /\ out = [i \in 1 .. Size |-> 0]

Oldest == SubSeq(queue, 1, Size)

RemoveOldest == queue' = SubSeq(queue, Size + 1, Len(queue))

Accept ==
  /\ \E s \in Samples :
       queue' = Append(IF Len(queue) < QueueCapacity THEN queue ELSE Tail(queue), s)
  /\ UNCHANGED out

\* A batch goes out; it leaves the queue unless the sender could not tell.
Emit ==
  /\ Len(queue) >= Size
  /\ out' = Oldest
  /\ RemoveOldest \/ UNCHANGED queue

Discard ==
  /\ Len(queue) >= Size
  /\ RemoveOldest
  /\ UNCHANGED out

Forget == queue' = <<>> /\ UNCHANGED out

Next == Accept \/ Emit \/ Discard \/ Forget

Spec == Init /\ [][Next]_<<queue, out>>
=============================================================================
