---------------------------- MODULE CommandLedger -----------------------------
(***************************************************************************)
(* What the command path promises whoever sends commands to one device:      *)
(* commands are numbered upwards, the device executes them in that order and  *)
(* none twice while it stays up, and each gets one outcome for good, which is *)
(* "settled" only if the device answered.  An answer that comes while the      *)
(* sender waits for it settles the command; one that comes before does not.   *)
(***************************************************************************)
EXTENDS Naturals

CONSTANT Commands

VARIABLES
  outcome,  \* "new", "sent", "open" while the sender waits for the answer, or final
  number,   \* of each command, 0 before it is sent
  executed, \* commands executed since the device started
  answered, \* commands the device has answered
  told      \* commands whose answer has come back

vars == <<outcome, number, executed, answered, told>>

Init ==
  /\ outcome = [c \in Commands |-> "new"]
  /\ number = [c \in Commands |-> 0]
  /\ executed = {} /\ answered = {} /\ told = {}

Send(c) ==
  /\ outcome[c] = "new"
  /\ number' \in [Commands -> Nat]
  /\ \A d \in Commands : number[d] < number'[c] /\ (d # c => number'[d] = number[d])
  /\ outcome' = [outcome EXCEPT ![c] = "sent"]
  /\ UNCHANGED <<executed, answered, told>>

\* From now on the sender waits for the answer.
Await(c) ==
  /\ outcome[c] = "sent"
  /\ outcome' = [outcome EXCEPT ![c] = "open"]
  /\ UNCHANGED <<number, executed, answered, told>>

\* The device executes a command newer than all it executed, and answers.
Execute(c) ==
  /\ number[c] > 0
  /\ \A d \in executed : number[d] < number[c]
  /\ executed' = executed \union {c}
  /\ answered' = answered \union {c}
  /\ UNCHANGED <<outcome, number, told>>

Refuse(c) ==
  /\ number[c] > 0
  /\ answered' = answered \union {c}
  /\ UNCHANGED <<outcome, number, executed, told>>

\* An answer comes back: an open command is settled.
Tell(c) ==
  /\ c \in answered
  /\ told' = told \union {c}
  /\ outcome' = [outcome EXCEPT ![c] = IF @ = "open" THEN "settled" ELSE @]
  /\ UNCHANGED <<number, executed, answered>>

\* Commands are given up, those that were not sent yet included.
GiveUp(gone, why) ==
  /\ \A c \in gone : outcome[c] \in {"new", "sent", "open"}
  /\ outcome' = [c \in Commands |-> IF c \in gone THEN why ELSE outcome[c]]
  /\ UNCHANGED <<number, executed, answered, told>>

Expire(c) == outcome[c] = "open" /\ GiveUp({c}, "timedOut")

Reboot == executed' = {} /\ UNCHANGED <<outcome, number, answered, told>>

Next ==
  \/ \E c \in Commands :
       \/ Send(c) \/ Await(c) \/ Execute(c) \/ Refuse(c) \/ Tell(c)
       \/ Expire(c) \/ GiveUp({c}, "failed")
  \/ \E gone \in SUBSET Commands : GiveUp(gone, "lost")
  \/ Reboot

Spec == Init /\ [][Next]_vars
=============================================================================
