------------------------ MODULE CommandTrackingProofs -------------------------
(***************************************************************************)
(* Proofs about CommandTracking, for every set of commands, every clock and  *)
(* every number of reboots.                                                  *)
(***************************************************************************)
EXTENDS CommandTracking, TLAPS

\* Whatever the clock shows, the next counter is above the last.
LEMMA NextValueAbove ==
  ASSUME NEW seed \in 1 .. MaxClock, counter \in Nat
  PROVE  NextValue(seed) \in Nat /\ NextValue(seed) > counter
  BY ConstantsAssumption DEF NextValue

-----------------------------------------------------------------------------
\* Type correctness of the worker's counters and table, of the device's receive
\* counter and of the messages between them.
THEOREM TypeCorrect == Spec => []TypeOK
<1>1. Init => TypeOK
  BY ConstantsAssumption DEF Init, TypeOK, Phases, Modes
<1>2. ASSUME TypeOK, [Next]_vars PROVE TypeOK'
  <2> USE <1>2
  <2> USE DEF TypeOK, counters, network, device, worker, Running, Phases, Modes
  <2>1. ASSUME NEW c \in Commands, Forward(c) PROVE TypeOK'
    <3>1. PICK seed \in 1 .. MaxClock :
            /\ counter' = NextValue(seed)
            /\ \/ saved' = counter' /\ Publish(c, counter')
               \/ /\ saved' \in {saved, counter'}
                  /\ phase' = [phase EXCEPT ![c] = "failed"]
                  /\ UNCHANGED <<ctr, toDevice>>
      BY <2>1 DEF Forward
    <3>2. counter' \in Nat
      BY <3>1, NextValueAbove
    <3> QED BY <2>1, <3>1, <3>2 DEF Forward, Publish
  <2>2. ASSUME NEW c \in Commands, Confirmed(c) \/ PublishFails(c) \/ Timeout(c)
        PROVE  TypeOK'
    BY <2>2 DEF Confirmed, PublishFails, Timeout
  <2>3. ASSUME NEW c \in Commands, NEW r \in Results, ReceiveAck(c, r) PROVE TypeOK'
    BY <2>3 DEF ReceiveAck, Resolve
  <2>4. ASSUME NEW c \in Commands, DeviceReceives(c) PROVE TypeOK'
    BY <2>4 DEF DeviceReceives, Results
  <2>5. CASE Stop
    <3>1. saved' \in Nat
      BY <2>5, NextValueAbove DEF Stop
    <3>2. \A gone : Forget(gone) => phase' \in [Commands -> Phases]
      BY DEF Forget
    <3> QED BY <2>5, <3>1, <3>2 DEF Stop
  <2>10. CASE ClearAll
    <3>1. phase' \in [Commands -> Phases] /\ saved' \in Nat
      BY <2>10 DEF ClearAll, Forget
    <3> QED BY <2>10, <3>1 DEF ClearAll
  <2>6. CASE Start
    BY <2>6 DEF Start
  <2>7. CASE DeviceReboots
    BY <2>7, ConstantsAssumption DEF DeviceReboots
  <2>8. CASE Lose
    BY <2>8 DEF Lose
  <2>9. CASE UNCHANGED vars
    BY <2>9 DEF vars
  <2> QED BY <2>1, <2>2, <2>3, <2>4, <2>5, <2>6, <2>7, <2>8, <2>9, <2>10 DEF Next
<1> QED BY <1>1, <1>2, PTL DEF Spec

-----------------------------------------------------------------------------
\* The file holds at least every counter ever sent, and memory at least what
\* the file holds.
CounterInv ==
  /\ \A d \in Commands : ctr[d] <= saved
  /\ Running => saved <= counter

\* One step of the worker keeps this, and sends nothing but a larger counter.
LEMMA CounterStep ==
  ASSUME TypeOK, CounterInv, [Next]_vars
  PROVE  /\ CounterInv'
         /\ \A c \in Commands : ctr'[c] # ctr[c] => \A d \in Commands : ctr[d] < ctr'[c]
<1> DEFINE Rises == \A c \in Commands : ctr'[c] # ctr[c] =>
                      \A d \in Commands : ctr[d] < ctr'[c]
<1> USE DEF TypeOK, CounterInv, counters, network, device, worker, Running
<1>1. ASSUME NEW c \in Commands, Forward(c) PROVE CounterInv' /\ Rises
  <2>1. PICK seed \in 1 .. MaxClock :
          /\ counter' = NextValue(seed)
          /\ \/ saved' = counter' /\ Publish(c, counter')
             \/ /\ saved' \in {saved, counter'}
                /\ phase' = [phase EXCEPT ![c] = "failed"]
                /\ UNCHANGED <<ctr, toDevice>>
    BY <1>1 DEF Forward
  <2>2. counter' \in Nat /\ counter' > counter /\ Running /\ Running'
    BY <1>1, <2>1, NextValueAbove DEF Forward
  <2>3. \A d \in Commands : ctr[d] \in Nat /\ ctr[d] < counter'
    BY <2>2
  <2>4. CASE saved' = counter' /\ Publish(c, counter')
    BY <2>2, <2>3, <2>4 DEF Publish
  <2>5. CASE saved' \in {saved, counter'} /\ UNCHANGED ctr
    BY <2>2, <2>5
  <2> QED BY <2>1, <2>4, <2>5
<1>2. ASSUME NEW c \in Commands,
             \/ Confirmed(c) \/ PublishFails(c) \/ Timeout(c) \/ DeviceReceives(c)
             \/ \E r \in Results : ReceiveAck(c, r)
      PROVE  CounterInv' /\ Rises
  <2>1. UNCHANGED <<mode, counter, saved, ctr>>
    BY <1>2 DEF Confirmed, PublishFails, Timeout, DeviceReceives, ReceiveAck
  <2> QED BY <2>1
<1>3. CASE Stop
  <2>1. saved <= saved' /\ saved' \in Nat
    <3>1. CASE UNCHANGED saved
      BY <1>3, <3>1 DEF Stop
    <3>2. ASSUME NEW seed \in 1 .. MaxClock, saved' = NextValue(seed)
          PROVE  saved <= saved' /\ saved' \in Nat
      <4>1. NextValue(seed) \in Nat /\ NextValue(seed) > counter /\ saved <= counter
        BY <1>3, NextValueAbove DEF Stop
      <4> QED BY <3>2, <4>1
    <3> QED BY <1>3, <3>1, <3>2 DEF Stop
  <2>2. UNCHANGED ctr /\ ~Running'
    BY <1>3 DEF Stop
  <2>3. \A d \in Commands : ctr[d] \in Nat
    OBVIOUS
  <2> QED BY <2>1, <2>2, <2>3
<1>4. CASE ClearAll
  <2>1. saved <= saved' /\ saved' <= counter' /\ saved' \in Nat /\ UNCHANGED ctr
    BY <1>4 DEF ClearAll
  <2>2. \A d \in Commands : ctr[d] \in Nat /\ ctr[d] <= saved
    OBVIOUS
  <2> QED BY <2>1, <2>2
<1>5. CASE Start \/ DeviceReboots \/ Lose \/ UNCHANGED vars
  BY <1>5 DEF Start, DeviceReboots, Lose, vars
<1> QED BY <1>1, <1>2, <1>3, <1>4, <1>5 DEF Next

LEMMA CounterInvariant == Spec => []CounterInv
<1>1. Init => CounterInv
  BY DEF Init, CounterInv
<1>2. TypeOK /\ CounterInv /\ [Next]_vars => CounterInv'
  BY CounterStep
<1> QED BY <1>1, <1>2, TypeCorrect, PTL DEF Spec

\* Through restarts, failed writes and a clock set back, each command carries a
\* counter above all those sent before (commandCounter.js:11-19).
THEOREM CountersRise == Spec => CounterRises
<1>1. TypeOK /\ CounterInv /\ [Next]_vars =>
        [\A c \in Commands : ctr'[c] # ctr[c] => \A d \in Commands : ctr[d] < ctr'[c]]_vars
  BY CounterStep
<1> QED BY <1>1, CounterInvariant, TypeCorrect, PTL DEF Spec, CounterRises

-----------------------------------------------------------------------------
\* The device remembers a counter no smaller than that of any command it has
\* executed, and an envelope has its counter for good.
ExecutionInv ==
  /\ \A c \in toDevice : ctr[c] > 0 /\ phase[c] # "new"
  /\ \A c \in done : lastRx > 0 /\ ctr[c] <= lastRx /\ phase[c] # "new"
  /\ redone = {}

LEMMA ExecutionInvariant == Spec => []ExecutionInv
<1>1. Init => ExecutionInv
  BY DEF Init, ExecutionInv
<1>2. ASSUME TypeOK, ExecutionInv, [Next]_vars PROVE ExecutionInv'
  <2> USE <1>2
  <2> USE DEF TypeOK, ExecutionInv, counters, network, device, worker
  <2>1. ASSUME NEW c \in Commands, Forward(c) PROVE ExecutionInv'
    <3>1. PICK seed \in 1 .. MaxClock :
            /\ counter' = NextValue(seed)
            /\ \/ saved' = counter' /\ Publish(c, counter')
               \/ /\ saved' \in {saved, counter'}
                  /\ phase' = [phase EXCEPT ![c] = "failed"]
                  /\ UNCHANGED <<ctr, toDevice>>
      BY <2>1 DEF Forward
    <3>2. counter' \in Nat /\ counter' > 0
      BY <3>1, NextValueAbove
    <3>3. c \notin toDevice /\ c \notin done /\ UNCHANGED <<lastRx, done, redone>>
      BY <2>1 DEF Forward
    <3> QED BY <3>1, <3>2, <3>3 DEF Publish
  <2>2. ASSUME NEW c \in Commands, Confirmed(c) \/ PublishFails(c) \/ Timeout(c)
        PROVE  ExecutionInv'
    BY <2>2 DEF Confirmed, PublishFails, Timeout
  <2>3. ASSUME NEW c \in Commands, NEW r \in Results, ReceiveAck(c, r)
        PROVE  ExecutionInv'
    BY <2>3 DEF ReceiveAck, Resolve
  <2>4. ASSUME NEW c \in Commands, DeviceReceives(c) PROVE ExecutionInv'
    <3>1. CASE Fresh(c)
      <4>1. c \notin done
        BY <2>4, <3>1 DEF Fresh
      <4>2. lastRx' = ctr[c] /\ ctr[c] > 0 /\ lastRx' >= lastRx
        BY <2>4, <3>1 DEF DeviceReceives, Fresh
      <4> QED BY <2>4, <3>1, <4>1, <4>2 DEF DeviceReceives
    <3>2. CASE ~Fresh(c)
      BY <2>4, <3>2 DEF DeviceReceives
    <3> QED BY <3>1, <3>2
  <2>5. CASE ClearAll \/ Stop
    <3>1. \A c \in Commands : phase'[c] = "new" => phase[c] = "new"
      BY <2>5 DEF ClearAll, Stop, Forget
    <3> QED BY <2>5, <3>1 DEF ClearAll, Stop
  <2>6. CASE Start \/ DeviceReboots \/ Lose \/ UNCHANGED vars
    BY <2>6 DEF Start, DeviceReboots, Lose, vars
  <2> QED BY <2>1, <2>2, <2>3, <2>4, <2>5, <2>6 DEF Next
<1> QED BY <1>1, <1>2, TypeCorrect, PTL DEF Spec

\* A command is executed at most once in a boot of the device, whatever copies
\* of it arrive and in whatever order (ascon.c:488-512).
THEOREM ExecutesOnce == Spec => []ExecutedOnce
<1>1. TypeOK /\ ExecutionInv => ExecutedOnce
  BY DEF ExecutionInv, ExecutedOnce
<1> QED BY <1>1, TypeCorrect, ExecutionInvariant, PTL

-----------------------------------------------------------------------------
\* An ack exists only of a command that was sent, and a command whose ack was not
\* early is neither being published nor pending after it.
HeardInv ==
  /\ \A c \in toDevice : phase[c] # "new"
  /\ \A a \in acks : phase[a[1]] # "new"
  /\ \A c \in heard : phase[c] # "new"
  /\ \A c \in heard : c \notin early => phase[c] \notin {"publishing", "pending"}

\* FalseTimeoutIsEarly, for any commands, clocks, reboots and restarts, and whether
\* or not acks overtake the broker's confirmation: a command is reported timed out
\* after its ack only if that ack came before the command was in the table
\* (pendingCommands.js:12-38; commandHandler.js:98-120).
THEOREM TimeoutsAreTrue == Spec => FalseTimeoutIsEarly
<1>1. Init => HeardInv
  BY DEF Init, HeardInv
<1>2. ASSUME TypeOK, HeardInv, [Next]_vars PROVE HeardInv'
  <2> USE <1>2
  <2> USE DEF TypeOK, HeardInv, counters, network, device, worker
  <2>1. ASSUME NEW c \in Commands, Forward(c) PROVE HeardInv'
    BY <2>1 DEF Forward, Publish
  <2>2. ASSUME NEW c \in Commands, Confirmed(c) \/ PublishFails(c) \/ Timeout(c)
        PROVE  HeardInv'
    BY <2>2 DEF Confirmed, PublishFails, Timeout
  <2>3. ASSUME NEW c \in Commands, NEW r \in Results, ReceiveAck(c, r)
        PROVE  HeardInv'
    <3>1. phase[c] # "new" /\ UNCHANGED toDevice /\ acks' \subseteq acks
      BY <2>3 DEF ReceiveAck
    <3>2. \A d \in Commands :
            /\ phase[d] # "new" => phase'[d] # "new"
            /\ phase'[d] \in {"publishing", "pending"} => phase'[d] = phase[d]
            /\ phase'[c] # "pending"
      BY <2>3 DEF ReceiveAck, Resolve
    <3>3. /\ heard' = heard \union {c}
          /\ early' = IF phase[c] = "publishing" THEN early \union {c} ELSE early
      BY <2>3 DEF ReceiveAck
    <3> QED BY <3>1, <3>2, <3>3
  <2>4. ASSUME NEW c \in Commands, DeviceReceives(c) PROVE HeardInv'
    BY <2>4 DEF DeviceReceives
  <2>5. CASE ClearAll \/ Stop
    <3>1. \A c \in Commands : phase'[c] \in {"lost", phase[c]}
      BY <2>5 DEF ClearAll, Stop, Forget
    <3> QED BY <2>5, <3>1 DEF ClearAll, Stop
  <2>6. CASE Start \/ DeviceReboots \/ Lose \/ UNCHANGED vars
    BY <2>6 DEF Start, DeviceReboots, Lose, vars
  <2> QED BY <2>1, <2>2, <2>3, <2>4, <2>5, <2>6 DEF Next
<1>3. ASSUME TypeOK, HeardInv, [Next]_vars,
             NEW c \in Commands, phase'[c] = "timedOut", phase[c] # "timedOut"
      PROVE  c \notin heard \/ c \in early
  <2> USE <1>3
  <2> USE DEF TypeOK, HeardInv
  <2>1. CASE phase[c] \in {"new", "publishing", "pending"}
    BY <2>1
  <2>2. CASE phase[c] \notin {"new", "publishing", "pending"}
    <3>1. phase'[c] \in {phase[c], "lost"}
      BY <2>2
         DEF Next, Forward, Publish, Confirmed, PublishFails, Timeout,
             DeviceReceives, ReceiveAck, Resolve, ClearAll, Stop, Forget, Start,
             DeviceReboots, Lose, vars
    <3> QED BY <3>1
  <2> QED BY <2>1, <2>2
<1>4. TypeOK /\ HeardInv /\ [Next]_vars =>
        [\A c \in Commands : phase'[c] = "timedOut" /\ phase[c] # "timedOut" =>
           c \notin heard \/ c \in early]_vars
  BY <1>3
<1> QED BY <1>1, <1>2, <1>4, TypeCorrect, PTL DEF Spec, FalseTimeoutIsEarly

-----------------------------------------------------------------------------
(* The ledger of commands.                                                  *)

\* An ack exists only of a command that the device has answered.
AnswerInv == \A a \in acks : a[1] \in answered

LEMMA AnswerInvariant == Spec => []AnswerInv
<1>1. Init => AnswerInv
  BY DEF Init, AnswerInv
<1>2. ASSUME AnswerInv, [Next]_vars PROVE AnswerInv'
  <2> USE <1>2
  <2> USE DEF AnswerInv, counters, network, device, worker
  <2>1. ASSUME NEW c \in Commands, NEW r \in Results, ReceiveAck(c, r) PROVE AnswerInv'
    BY <2>1 DEF ReceiveAck
  <2>2. ASSUME NEW c \in Commands, DeviceReceives(c) PROVE AnswerInv'
    <3>1. /\ answered' = answered \union {c}
          /\ acks' = acks \union {<<c, "ok">>} \/ acks' = acks \union {<<c, "error">>}
      BY <2>2 DEF DeviceReceives
    <3> QED BY <3>1
  <2>3. ASSUME NEW c \in Commands,
               Forward(c) \/ Confirmed(c) \/ PublishFails(c) \/ Timeout(c)
        PROVE  AnswerInv'
    BY <2>3 DEF Forward, Confirmed, PublishFails, Timeout
  <2>4. CASE ClearAll \/ Stop \/ Start \/ DeviceReboots \/ Lose \/ UNCHANGED vars
    BY <2>4 DEF ClearAll, Stop, Start, DeviceReboots, Lose, vars
  <2> QED BY <2>1, <2>2, <2>3, <2>4 DEF Next
<1> QED BY <1>1, <1>2, PTL DEF Spec

\* What the ledger sees of commands that end without an answer.
LEMMA EndIsGiveUp ==
  ASSUME TypeOK, NEW gone \in SUBSET Commands, NEW why \in {"failed", "timedOut", "lost"},
         \A c \in gone : phase[c] \in {"new", "publishing", "pending"},
         phase' = [c \in Commands |-> IF c \in gone THEN why ELSE phase[c]],
         UNCHANGED <<ctr, done, answered, heard>>
  PROVE  Ledger!GiveUp(gone, why)
<1>1. \A c \in gone : Outcome[c] \in {"new", "sent", "open"}
  BY DEF Outcome
<1>2. Outcome' = [c \in Commands |-> IF c \in gone THEN why ELSE Outcome[c]]
  BY DEF Outcome
<1> QED BY <1>1, <1>2 DEF Ledger!GiveUp

\* One command that ends so.
LEMMA OneEnds ==
  ASSUME TypeOK, NEW c \in Commands, NEW why \in {"failed", "timedOut", "lost"},
         phase[c] \in {"new", "publishing", "pending"},
         phase' = [phase EXCEPT ![c] = why],
         UNCHANGED <<ctr, done, answered, heard>>
  PROVE  Ledger!GiveUp({c}, why)
<1>1. phase' = [d \in Commands |-> IF d \in {c} THEN why ELSE phase[d]]
  BY DEF TypeOK
<1> QED BY <1>1, EndIsGiveUp

\* A command is sent under a number above all others, or fails unsent.
LEMMA ForwardInLedger ==
  ASSUME TypeOK, TypeOK', CounterInv, NEW c \in Commands, Forward(c)
  PROVE  Ledger!Next
<1>1. PICK seed \in 1 .. MaxClock :
        /\ counter' = NextValue(seed)
        /\ \/ saved' = counter' /\ Publish(c, counter')
           \/ /\ saved' \in {saved, counter'}
              /\ phase' = [phase EXCEPT ![c] = "failed"]
              /\ UNCHANGED <<ctr, toDevice>>
  BY DEF Forward
<1>2. phase[c] = "new" /\ UNCHANGED <<done, answered, heard>>
  BY DEF Forward, device, worker
<1>3. CASE Publish(c, counter')
  <2>1. \A d \in Commands : ctr[d] < counter' /\ (d # c => ctr'[d] = ctr[d])
    <3>1. counter' \in Nat /\ counter' > counter /\ saved <= counter
      BY <1>1, NextValueAbove DEF Forward, CounterInv, Running, TypeOK
    <3>2. \A d \in Commands : ctr[d] \in Nat /\ ctr[d] <= saved
      BY DEF CounterInv, TypeOK
    <3>3. \A d \in Commands : d # c => ctr'[d] = ctr[d]
      BY <1>3 DEF Publish, TypeOK
    <3> QED BY <3>1, <3>2, <3>3 DEF TypeOK
  <2>2. ctr'[c] = counter'
    BY <1>3 DEF Publish, TypeOK
  <2>3. Outcome[c] = "new" /\ Outcome' = [Outcome EXCEPT ![c] = "sent"]
    BY <1>2, <1>3 DEF Publish, Outcome, TypeOK
  <2>4. Ledger!Send(c)
    BY <1>2, <2>1, <2>2, <2>3 DEF Ledger!Send, TypeOK
  <2> QED BY <2>4 DEF Ledger!Next
<1>4. CASE phase' = [phase EXCEPT ![c] = "failed"] /\ UNCHANGED ctr
  BY <1>2, <1>4, OneEnds DEF Ledger!Next
<1> QED BY <1>1, <1>3, <1>4

\* A copy of a command is executed behind all commands executed before, or refused.
LEMMA ReceiptInLedger ==
  ASSUME TypeOK, ExecutionInv, NEW c \in Commands, DeviceReceives(c)
  PROVE  Ledger!Next
<1>1. ctr[c] > 0 /\ answered' = answered \union {c} /\ UNCHANGED <<ctr, heard>>
  BY DEF DeviceReceives, ExecutionInv, counters, worker
<1>2. Outcome' = Outcome
  BY DEF DeviceReceives, Outcome
<1>3. CASE Fresh(c)
  <2>1. done' = done \union {c}
    BY <1>3 DEF DeviceReceives
  <2>2. \A d \in done : ctr[d] < ctr[c]
    BY <1>3 DEF Fresh, ExecutionInv, TypeOK
  <2>3. Ledger!Execute(c)
    BY <1>1, <1>2, <2>1, <2>2 DEF Ledger!Execute
  <2> QED BY <2>3 DEF Ledger!Next
<1>4. CASE ~Fresh(c)
  <2>1. Ledger!Refuse(c)
    BY <1>1, <1>2, <1>4 DEF DeviceReceives, Ledger!Refuse
  <2> QED BY <2>1 DEF Ledger!Next
<1> QED BY <1>3, <1>4

\* ImplementsLedger, for any commands, clocks, reboots and restarts, and whether or
\* not acks overtake the broker's confirmation: the worker's counter, its table and
\* the device's receive counter together number the commands upwards, execute them
\* in that order, none twice in a boot, and give each one final outcome, settled by
\* the first answer that finds the command in the table (commandHandler.js:66-119,
\* pendingCommands.js:6-38, commandCounter.js:11-19, ascon.c:488-512).
THEOREM PathIsLedger == Spec => ImplementsLedger
<1>1. Init => Ledger!Init
  BY DEF Init, Outcome, Ledger!Init
<1>2. ASSUME TypeOK, TypeOK', CounterInv, ExecutionInv, AnswerInv, [Next]_vars
      PROVE  [Ledger!Next]_Ledger!vars
  <2> USE <1>2
  <2>1. ASSUME NEW c \in Commands, Forward(c) PROVE Ledger!Next
    BY <2>1, ForwardInLedger
  <2>2. ASSUME NEW c \in Commands, Confirmed(c) PROVE Ledger!Next
    <3>1. Outcome[c] = "sent" /\ Outcome' = [Outcome EXCEPT ![c] = "open"]
      BY <2>2 DEF Confirmed, Outcome, TypeOK
    <3>2. Ledger!Await(c)
      BY <2>2, <3>1 DEF Confirmed, counters, device, worker, Ledger!Await
    <3> QED BY <3>2 DEF Ledger!Next
  <2>3. ASSUME NEW c \in Commands, PublishFails(c) PROVE Ledger!Next
    <3>1. Ledger!GiveUp({c}, "failed")
      BY <2>3, OneEnds DEF PublishFails, counters, device, worker
    <3> QED BY <3>1 DEF Ledger!Next
  <2>4. ASSUME NEW c \in Commands, Timeout(c) PROVE Ledger!Next
    <3>1. Ledger!GiveUp({c}, "timedOut")
      BY <2>4, OneEnds DEF Timeout, counters, device, worker
    <3>2. Outcome[c] = "open"
      BY <2>4 DEF Timeout, Outcome
    <3> QED BY <3>1, <3>2 DEF Ledger!Expire, Ledger!Next
  <2>5. ASSUME NEW c \in Commands, DeviceReceives(c) PROVE Ledger!Next
    BY <2>5, ReceiptInLedger
  <2>6. ASSUME NEW c \in Commands, NEW r \in Results, ReceiveAck(c, r) PROVE Ledger!Next
    <3>1. c \in answered /\ heard' = heard \union {c} /\ UNCHANGED <<ctr, done, answered>>
      <4>1. <<c, r>> \in acks /\ <<c, r>>[1] = c
        BY <2>6 DEF ReceiveAck
      <4> QED BY <2>6, <4>1 DEF ReceiveAck, AnswerInv, counters, device, worker
    <3>2. phase' = [phase EXCEPT ![c] = IF @ = "pending" THEN "settled" ELSE @]
      BY <2>6 DEF ReceiveAck, Resolve
    <3>3. Outcome' = [Outcome EXCEPT ![c] = IF @ = "open" THEN "settled" ELSE @]
      <4>1. \A d \in Commands :
              phase'[d] = IF d = c /\ phase[c] = "pending" THEN "settled" ELSE phase[d]
        BY <3>2 DEF TypeOK
      <4>2. \A d \in Commands :
              Outcome'[d] = IF d = c /\ Outcome[c] = "open" THEN "settled" ELSE Outcome[d]
        BY <3>2, <4>1 DEF Outcome, TypeOK, Phases
      <4> QED BY <4>2 DEF Outcome
    <3>4. Ledger!Tell(c)
      BY <3>1, <3>3 DEF Ledger!Tell
    <3> QED BY <3>4 DEF Ledger!Next
  <2>7. CASE Stop
    <3>1. PICK gone \in SUBSET Commands :
            Forget(gone) /\ \A c \in gone : phase[c] \in {"new", "publishing", "pending"}
      <4>1. CASE Forget(Interrupted)
        BY <4>1 DEF Interrupted
      <4>2. ASSUME NEW c \in Commands, phase[c] = "new", Forget(Interrupted \union {c})
            PROVE  \E gone \in SUBSET Commands :
                     Forget(gone) /\ \A d \in gone : phase[d] \in {"new", "publishing", "pending"}
        <5> DEFINE gone == Interrupted \union {c}
        <5>1. gone \in SUBSET Commands
              /\ \A d \in gone : phase[d] \in {"new", "publishing", "pending"}
          BY <4>2 DEF Interrupted
        <5> QED BY <4>2, <5>1
      <4> QED BY <2>7, <4>1, <4>2 DEF Stop
    <3>2. Ledger!GiveUp(gone, "lost")
      BY <2>7, <3>1, EndIsGiveUp DEF Stop, Forget, device, worker
    <3> QED BY <3>2 DEF Ledger!Next
  <2>10. CASE ClearAll
    <3> DEFINE gone == {c \in Commands : phase[c] = "pending"}
    <3>1. Ledger!GiveUp(gone, "lost")
      BY <2>10, EndIsGiveUp DEF ClearAll, Forget, device, worker
    <3> QED BY <3>1 DEF Ledger!Next
  <2>8. CASE DeviceReboots
    <3>1. Outcome' = Outcome
      BY <2>8 DEF DeviceReboots, Outcome
    <3>2. Ledger!Reboot
      BY <2>8, <3>1 DEF DeviceReboots, counters, worker, Ledger!Reboot
    <3> QED BY <3>2 DEF Ledger!Next
  <2>9. CASE Start \/ Lose \/ UNCHANGED vars
    <3>1. UNCHANGED <<phase, ctr, done, answered, heard>>
      BY <2>9 DEF Start, Lose, vars, counters, device, worker
    <3> QED BY <3>1 DEF Outcome, Ledger!vars
  <2> QED BY <2>1, <2>2, <2>3, <2>4, <2>5, <2>6, <2>7, <2>8, <2>9, <2>10 DEF Next
<1> QED
  BY <1>1, <1>2, TypeCorrect, CounterInvariant, ExecutionInvariant, AnswerInvariant, PTL
  DEF Spec, ImplementsLedger, Ledger!Spec
=============================================================================
