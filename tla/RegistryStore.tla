---------------------------- MODULE RegistryStore ----------------------------
(***************************************************************************)
(* What devices.json is meant to be for the worker and the REST API: one     *)
(* document, changed one entry at a time, each change made in one step to    *)
(* the document as it then is, of the fields that the process owns.  There   *)
(* is no lock, so the promise lasts until two changes overlap.               *)
(***************************************************************************)
CONSTANTS Devices, Entries, Modes, None

VARIABLES doc, overlapped

Documents == [Devices -> Entries \union {None}]

NewEntry(online) == [mode |-> "manual", online |-> online, relay |-> FALSE]

\* The devices known at first have not been heard of.
Init ==
  /\ doc \in [Devices -> {None, NewEntry(FALSE)}]
  /\ overlapped = FALSE

Becomes(d, entry) == doc' = [doc EXCEPT ![d] = entry] /\ UNCHANGED overlapped

\* The worker registers a device that is not there.
Register(d) ==
  /\ doc[d] = None
  /\ Becomes(d, NewEntry(TRUE))

\* The worker sets what the device reports.
Report(d) ==
  /\ doc[d] # None
  /\ \E on \in BOOLEAN :
       \/ Becomes(d, [doc[d] EXCEPT !.online = on])
       \/ Becomes(d, [doc[d] EXCEPT !.relay = on])

\* The API sets what the user chooses, or removes the device.
Choose(d) ==
  /\ doc[d] # None
  /\ \/ \E m \in Modes : Becomes(d, [doc[d] EXCEPT !.mode = m])
     \/ Becomes(d, None)

\* Two changes overlap: nothing is promised any more, but that it is a document.
Overlap == overlapped' = TRUE /\ doc' \in Documents

Next ==
  \/ \E d \in Devices : Register(d) \/ Report(d) \/ Choose(d)
  \/ Overlap

Spec == Init /\ [][Next]_<<doc, overlapped>>
=============================================================================
