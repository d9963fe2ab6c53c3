--------------------------- MODULE SwitchedSocket ----------------------------
(***************************************************************************)
(* What the socket is meant to be for its user: a relay with a memory.  It is *)
(* switched only on a command or in automatic mode, the memory follows the     *)
(* relay and gives it back after a power cut, the mode changes only when the   *)
(* relay is remembered, and an acknowledged command is done, remembered and    *)
(* not undone.  Two tasks may switch and nothing keeps them apart, so the      *)
(* promise lasts until they overlap.                                         *)
(***************************************************************************)
CONSTANT Modes

VARIABLES
  power,
  pin,        \* is the relay closed?
  relay, mode,\* what the socket remembers
  asked,      \* is a relay command being carried out?
  promised,   \* the relay an acknowledged command set, "any" after a newer one
  overlapped

vars == <<power, pin, relay, mode, asked, promised, overlapped>>

Init ==
  /\ power = FALSE /\ pin = FALSE /\ relay = TRUE /\ mode = "automatic"
  /\ asked = FALSE /\ promised = "any" /\ overlapped = FALSE

\* A relay command comes.
Ask ==
  /\ power /\ ~asked /\ asked' = TRUE /\ promised' = "any"
  /\ UNCHANGED <<power, pin, relay, mode, overlapped>>

\* The user leaves the relay to automatic control.
Release ==
  /\ power /\ promised' = "any"
  /\ UNCHANGED <<power, pin, relay, mode, asked, overlapped>>

Switch ==
  /\ power /\ (asked \/ mode = "automatic")
  /\ pin' = ~pin
  /\ UNCHANGED <<power, relay, mode, asked, promised, overlapped>>

Remember ==
  /\ power /\ relay' = pin
  /\ UNCHANGED <<power, pin, mode, asked, promised, overlapped>>

\* A relay command ends in manual mode, and only a release leads out of it.
ChangeMode ==
  /\ power /\ relay = pin
  /\ mode' \in Modes
  /\ mode' = "automatic" => ~asked /\ promised = "any"
  /\ UNCHANGED <<power, pin, relay, asked, promised, overlapped>>

Answer ==
  /\ asked /\ relay = pin /\ mode = "manual"
  /\ asked' = FALSE /\ promised' = IF pin THEN "on" ELSE "off"
  /\ UNCHANGED <<power, pin, relay, mode, overlapped>>

PowerCut ==
  /\ power' = FALSE /\ pin' = FALSE /\ asked' = FALSE
  /\ UNCHANGED <<relay, mode, promised, overlapped>>

Boot ==
  /\ ~power /\ power' = TRUE /\ pin' = relay
  /\ UNCHANGED <<relay, mode, asked, promised, overlapped>>

\* The two tasks overlap: nothing is promised any more.
Overlap == overlapped' = TRUE

Next ==
  \/ Ask \/ Release \/ Switch \/ Remember \/ ChangeMode \/ Answer
  \/ PowerCut \/ Boot \/ Overlap

Spec == Init /\ [][Next]_vars
=============================================================================
