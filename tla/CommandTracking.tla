--------------------------- MODULE CommandTracking ---------------------------
(***************************************************************************)
(* A dashboard command on its way through the worker to one device and back  *)
(* as an ack: the persistent command counter (commandCounter.js), the table  *)
(* of pending commands with its timers (pendingCommands.js), the two handlers*)
(* around them, and the receive counter of the device (ascon.c).             *)
(*                                                                          *)
(* The handler of a command suspends until the broker confirms the publish   *)
(* and only then enters the command in the table.  The network repeats,      *)
(* reorders and loses messages.  Command ids are unique.                     *)
(***************************************************************************)
EXTENDS Naturals

CONSTANTS
  Commands,
  MayStop,    \* may the worker stop and start again?
  MaxClock,   \* bound: values of Date.now() * 1000
  MaxReboots  \* bound: reboots of the device

ASSUME ConstantsAssumption ==
  /\ MayStop \in BOOLEAN /\ MaxClock \in Nat \ {0} /\ MaxReboots \in Nat

VARIABLES
  mode,      \* of the worker process
  phase,     \* of each command in the worker
  counter,   \* state of the command counter, 0 when it has none
  saved,     \* command_counter.json
  ctr,       \* the counter in the envelope of each command, 0 before it is sent
  toDevice,  \* envelopes on their way to the device
  acks,      \* acks on their way to the worker
  lastRx,    \* last_rx_counter of the device, 0 for unset
  reboots,
  \* history
  done,      \* commands executed in this boot of the device
  redone,    \* those of them executed again in it
  answered,  \* commands the device has answered
  heard,     \* commands of which the worker has received an ack
  early      \* those of them whose ack came before their entry in the table

Modes   == {"up", "closing", "down"}
Phases  == {"new", "publishing", "pending", "settled", "timedOut", "failed", "lost"}
Results == {"ok", "error"}

counters == <<counter, saved, ctr>>
network  == <<toDevice, acks>>
device   == <<lastRx, reboots, done, redone, answered>>
worker   == <<heard, early>>
vars     == <<mode, phase, counters, network, device, worker>>

\* Handlers and timers run on until a closing process exits.
Running == mode # "down"

TypeOK ==
  /\ mode \in Modes /\ phase \in [Commands -> Phases]
  /\ counter \in Nat /\ saved \in Nat /\ ctr \in [Commands -> Nat]
  /\ toDevice \subseteq Commands /\ acks \subseteq Commands \X Results
  /\ lastRx \in Nat /\ reboots \in 0 .. MaxReboots
  /\ done \subseteq Commands /\ redone \subseteq done
  /\ answered \subseteq Commands /\ heard \subseteq Commands /\ early \subseteq heard

Init ==
  /\ mode = "up"
  /\ phase = [c \in Commands |-> "new"]
  /\ counter = 0 /\ saved = 0 /\ ctr = [c \in Commands |-> 0]
  /\ toDevice = {} /\ acks = {}
  /\ lastRx = 0 /\ reboots = 0
  /\ done = {} /\ redone = {} /\ answered = {} /\ heard = {} /\ early = {}

-----------------------------------------------------------------------------
(* The worker.                                                              *)

\* commandCounter.next, when the clock shows seed; the clock may be set back.
NextValue(seed) == IF counter + 1 < seed THEN seed ELSE counter + 1

Publish(c, value) ==
  /\ ctr' = [ctr EXCEPT ![c] = value]
  /\ toDevice' = toDevice \union {c}
  /\ phase' = [phase EXCEPT ![c] = "publishing"]

\* Mutant of Forward: the counter is used without being saved.
ForwardUnsaved(c) ==
  /\ Running /\ phase[c] = "new"
  /\ \E seed \in 1 .. MaxClock :
       counter' = NextValue(seed) /\ Publish(c, counter')
  /\ UNCHANGED <<mode, saved, acks, device, worker>>

\* The counter is saved before it is used.  The command fails, with the counter
\* advanced, when the file cannot be written or the envelope not encrypted.
Forward(c) ==
  /\ Running /\ phase[c] = "new"
  /\ \E seed \in 1 .. MaxClock :
       /\ counter' = NextValue(seed)
       /\ \/ saved' = counter' /\ Publish(c, counter')
          \/ /\ saved' \in {saved, counter'}
             /\ phase' = [phase EXCEPT ![c] = "failed"]
             /\ UNCHANGED <<ctr, toDevice>>
  /\ UNCHANGED <<mode, acks, device, worker>>

\* The broker confirms the publish: the command becomes pending, its timer runs.
Confirmed(c) ==
  /\ Running /\ phase[c] = "publishing"
  /\ phase' = [phase EXCEPT ![c] = "pending"]
  /\ UNCHANGED <<mode, counters, network, device, worker>>

\* The client gives up on the publish; the broker may have it all the same.
PublishFails(c) ==
  /\ Running /\ phase[c] = "publishing"
  /\ phase' = [phase EXCEPT ![c] = "failed"]
  /\ UNCHANGED <<mode, counters, network, device, worker>>

\* Mutant of Resolve: the entry is left in the table.
ResolveNothing(c) == UNCHANGED phase

\* pendingCommands.resolve, which finds nothing when the command is not pending:
\* an ack may come before the confirmation of the publish.
Resolve(c) == phase' = [phase EXCEPT ![c] = IF @ = "pending" THEN "settled" ELSE @]

\* handleDeviceAckMessage
ReceiveAck(c, result) ==
  /\ Running /\ <<c, result>> \in acks
  /\ Resolve(c)
  /\ heard' = heard \union {c}
  /\ early' = IF phase[c] = "publishing" THEN early \union {c} ELSE early
  /\ acks' \in {acks, acks \ {<<c, result>>}}
  /\ UNCHANGED <<mode, counters, toDevice, device>>

\* Mutant of Timeout: only a command that was answered expires.
TimeoutIfHeard(c) ==
  /\ Running /\ phase[c] = "pending" /\ c \in heard
  /\ phase' = [phase EXCEPT ![c] = "timedOut"]
  /\ UNCHANGED <<mode, counters, network, device, worker>>

\* The timer of the command fires: command_timeout is reported.
Timeout(c) ==
  /\ Running /\ phase[c] = "pending"
  /\ phase' = [phase EXCEPT ![c] = "timedOut"]
  /\ UNCHANGED <<mode, counters, network, device, worker>>

\* What a stop of the worker interrupts.
Interrupted == {c \in Commands : phase[c] \in {"publishing", "pending"}}

Forget(gone) == phase' = [c \in Commands |-> IF c \in gone THEN "lost" ELSE phase[c]]

\* SIGTERM: the table is cleared and the counter saved, if the write succeeds.
\* Handlers run on until the writer and the client have closed.
ClearAll ==
  /\ MayStop /\ Running
  /\ mode' = "closing"
  /\ Forget({c \in Commands : phase[c] = "pending"})
  /\ saved' \in {saved, counter}
  /\ UNCHANGED <<counter, ctr, network, device, worker>>

\* The end of a shutdown or a crash: the table and the suspended handlers go.
\* It may also take a handler between saving the counter and publishing.
Stop ==
  /\ MayStop /\ Running
  /\ mode' = "down"
  /\ \/ Forget(Interrupted) /\ UNCHANGED saved
     \/ \E c \in Commands, seed \in 1 .. MaxClock :
          /\ phase[c] = "new"
          /\ saved' = NextValue(seed) /\ Forget(Interrupted \union {c})
  /\ counter' = 0
  /\ UNCHANGED <<ctr, network, device, worker>>

Start ==
  /\ mode = "down"
  /\ mode' = "up" /\ counter' = saved
  /\ UNCHANGED <<phase, saved, ctr, network, device, worker>>

-----------------------------------------------------------------------------
(* The device and the network.                                              *)

\* Mutant of Fresh: the last counter is accepted again.
FreshOrEqual(c) == lastRx = 0 \/ ctr[c] >= lastRx

\* ascon_is_fresh_counter
Fresh(c) == lastRx = 0 \/ ctr[c] > lastRx

\* mqtt_command_callback, by what it answers: a fresh command is executed, any
\* other copy is refused under the same command id.
DeviceReceives(c) ==
  /\ c \in toDevice
  /\ toDevice' \in {toDevice, toDevice \ {c}}
  /\ IF Fresh(c)
     THEN /\ lastRx' = ctr[c]
          /\ done' = done \union {c}
          /\ redone' = redone \union ({c} \intersect done)
          /\ acks' = acks \union {<<c, "ok">>}
     ELSE /\ acks' = acks \union {<<c, "error">>}
          /\ UNCHANGED <<lastRx, done, redone>>
  /\ answered' = answered \union {c}
  /\ UNCHANGED <<mode, phase, counters, reboots, worker>>

\* The receive counter is in RAM only.
DeviceReboots ==
  /\ reboots < MaxReboots
  /\ reboots' = reboots + 1
  /\ lastRx' = 0 /\ done' = {} /\ redone' = {}
  /\ UNCHANGED <<mode, phase, counters, network, answered, worker>>

Lose ==
  /\ \/ \E c \in toDevice : toDevice' = toDevice \ {c} /\ UNCHANGED acks
     \/ \E a \in acks : acks' = acks \ {a} /\ UNCHANGED toDevice
  /\ UNCHANGED <<mode, phase, counters, device, worker>>

Next ==
  \/ \E c \in Commands :
       \/ Forward(c) \/ Confirmed(c) \/ PublishFails(c) \/ Timeout(c)
       \/ DeviceReceives(c)
       \/ \E result \in Results : ReceiveAck(c, result)
  \/ ClearAll \/ Stop \/ Start \/ DeviceReboots \/ Lose

Spec == Init /\ [][Next]_vars

\* A timer of a running worker fires unless it is cleared, and the container of
\* a stopped worker is started again.
FairSpec == Spec /\ WF_vars(Start) /\ \A c \in Commands : WF_vars(Timeout(c))

-----------------------------------------------------------------------------
(* Properties.                                                              *)

\* Each command the worker sends carries a counter above all those it sent
\* before, through restarts, failed writes and a clock set back
\* (commandCounter.js:11-19).
CounterRises ==
  [][\A c \in Commands : ctr'[c] # ctr[c] =>
       \A d \in Commands : ctr[d] < ctr'[c]]_vars

\* The device executes a command at most once in a boot, whatever copies of
\* it arrive and in whatever order (ascon.c:488-512).
ExecutedOnce == TypeOK /\ redone = {}

\* A command is reported timed out after its ack only when the ack came before
\* the command was in the table: whatever copies of it arrive, whenever the worker
\* stops, the timer and the ack never both win (pendingCommands.js:12-38;
\* commandHandler.js:98-120).  README.md:176 says that no ack came at all.
FalseTimeoutIsEarly ==
  [][\A c \in Commands :
       phase'[c] = "timedOut" /\ phase[c] # "timedOut" => c \notin heard \/ c \in early]_vars

\* Every command in the table leaves it: acknowledged, reported timed out, or
\* lost with the table when the worker shuts down or stops (README.md:172-176;
\* worker.js:219).
PendingSettles ==
  \A c \in Commands :
    phase[c] = "pending" ~> phase[c] \in {"settled", "timedOut", "lost"}

\* What the sender can tell of a command.
Outcome ==
  [c \in Commands |-> IF phase[c] = "publishing" THEN "sent"
                      ELSE IF phase[c] = "pending" THEN "open" ELSE phase[c]]

Ledger == INSTANCE CommandLedger WITH
  outcome <- Outcome, number <- ctr, executed <- done, told <- heard

\* Worker, network and device keep a ledger of commands: however messages are
\* repeated, reordered and lost and whoever restarts, commands are executed in the
\* order they were sent and once in a boot, and each has one final outcome, settled
\* by the first answer of the device that finds it in the table and by nothing else
\* (commandHandler.js:66-119, pendingCommands.js:6-38, commandCounter.js:11-19, ascon.c:488-512).
ImplementsLedger == Ledger!Spec
=============================================================================
