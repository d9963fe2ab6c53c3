-------------------------- MODULE RelayControlProofs --------------------------
(***************************************************************************)
(* Proofs about RelayControl, for every delay: what the unlocked relay code  *)
(* keeps however the two tasks overlap, and what it keeps as long as a       *)
(* command and a round of the main loop never do.                            *)
(***************************************************************************)
EXTENDS RelayControl, TLAPS

-----------------------------------------------------------------------------
\* Type correctness: mode, relay, no-motion timer and the place of both tasks
\* stay in range through commands, rounds and power cuts.
THEOREM TypeCorrect == Spec => []TypeOK
<1>1. Init => TypeOK
  <2> SUFFICES ASSUME Init PROVE TypeOK
    OBVIOUS
  <2> USE DEF Init
  <2>1. sensed \in Readings
    BY DEF Readings
  <2>2. command \in Commands /\ workMode \in Modes /\ nvsMode \in Modes
    BY DEF Commands, RelayCommands, Modes
  <2>3. idle \in 0 .. Delay
    BY ConstantsAssumption
  <2> QED BY <2>1, <2>2, <2>3 DEF TypeOK
<1>2. ASSUME TypeOK, [Next]_vars PROVE TypeOK'
  <2> USE <1>2
  <2> USE DEF TypeOK, Goto
  <2>1. ASSUME NEW t \in Tasks, DrivePin(t) \/ SetState(t) \/ ReadState(t)
        PROVE  TypeOK'
    <3>1. CASE DrivePin(t)
      <4>1. (\E u \in Tasks : at[u] = "state") \in BOOLEAN
        OBVIOUS
      <4>2. crossed' \in BOOLEAN
        BY <3>1, <4>1 DEF DrivePin
      <4>3. stray' \in Nat
        BY <3>1 DEF DrivePin
      <4> QED BY <3>1, <4>2, <4>3 DEF DrivePin, stored, world
    <3>2. CASE SetState(t) \/ ReadState(t)
      BY <3>2 DEF SetState, ReadState, stored, world, history
    <3> QED BY <2>1, <3>1, <3>2
  <2>2. ASSUME NEW t \in Tasks, SaveRelay(t) PROVE TypeOK'
    BY <2>2 DEF SaveRelay, world, history
  <2>3. CASE RetryPzem \/ Pause
    <3>1. Later \in 0 .. Delay
      BY ConstantsAssumption DEF Later
    <3>2. CASE RetryPzem
      BY <3>2 DEF RetryPzem, Start, stored, world
    <3>3. CASE Pause
      BY <3>1, <3>3 DEF Pause, stored, world, history
    <3> QED BY <2>3, <3>2, <3>3
  <2>4. CASE Sense
    <3>1. sensed' \in Readings
      <4>1. PICK readOk \in BOOLEAN, zeroIsLow \in BOOLEAN :
              sensed' = [on |-> isOn, motion |-> motion,
                         low |-> IF readOk THEN light ELSE zeroIsLow]
        BY <2>4 DEF Sense
      <4>2. (IF readOk THEN light ELSE zeroIsLow) \in BOOLEAN
        OBVIOUS
      <4> QED BY <4>1, <4>2 DEF Readings
    <3> QED BY <2>4, <3>1 DEF Sense, Start, stored, world
  <2>5. CASE Decide
    <3>1. idle' \in 0 .. Delay
      BY <2>5, ConstantsAssumption DEF Decide, Later
    <3>2. SwitchOn \in BOOLEAN
      BY DEF SwitchOn
    <3> QED BY <2>5, <3>1, <3>2 DEF Decide, stored, world, history
  <2>6. CASE SetMode \/ SaveMode
    BY <2>6 DEF SetMode, SaveMode, NewMode, Modes, stored, world, history
  <2>7. CASE Ack
    BY <2>7 DEF Ack, stored, world
  <2>8. CASE Boot \/ PowerCut \/ World
    <3>1. CASE Boot
      <4>1. pzem' \in BOOLEAN
        BY <3>1 DEF Boot
      <4>2. idle' \in 0 .. Delay /\ stray' \in Nat
        BY <3>1, ConstantsAssumption DEF Boot
      <4> QED BY <3>1, <4>1, <4>2 DEF Boot, stored, world
    <3>2. CASE PowerCut
      BY <3>2 DEF PowerCut, stored, world, history
    <3>3. CASE World
      BY <3>3 DEF World, stored, history
    <3> QED BY <2>8, <3>1, <3>2, <3>3
  <2>9. ASSUME NEW c \in Commands, Receive(c) PROVE TypeOK'
    BY <2>9 DEF Receive, Start, stored, world
  <2>10. CASE UNCHANGED vars
    BY <2>10 DEF vars, stored, world, history
  <2> QED
    BY <2>1, <2>2, <2>3, <2>4, <2>5, <2>6, <2>7, <2>8, <2>9, <2>10
       DEF Next, LoopStep, CallbackStep, Tasks
<1> QED BY <1>1, <1>2, PTL DEF Spec

-----------------------------------------------------------------------------
\* The strengthening behind StrayOnce: a loop about to switch the relay decided
\* so in automatic mode, and has not switched it since.
StrayInv ==
  /\ workMode = "automatic" => stray = 0
  /\ at["loop"] = "pin" => stray = 0
  /\ stray <= 1

\* However a round and a command overlap, the loop switches the relay at most
\* once after the mode became manual (app_main.c:817-832).
THEOREM StraySwitchOnce == Spec => []StrayOnce
<1>1. Init => StrayInv
  BY DEF Init, StrayInv, Tasks
<1>2. ASSUME TypeOK, StrayInv, [Next]_vars PROVE StrayInv'
  <2> USE <1>2
  <2> USE DEF TypeOK, StrayInv, Goto
  <2>1. ASSUME NEW t \in Tasks, DrivePin(t) PROVE StrayInv'
    BY <2>1 DEF DrivePin, Tasks
  <2>2. ASSUME NEW t \in Tasks, SetState(t) \/ ReadState(t) \/ SaveRelay(t)
        PROVE  StrayInv'
    BY <2>2 DEF SetState, ReadState, SaveRelay, Tasks, history
  <2>3. CASE RetryPzem \/ Pause \/ Sense
    BY <2>3 DEF RetryPzem, Pause, Sense, Tasks, history
  <2>4. CASE Decide
    BY <2>4 DEF Decide, Tasks, history
  <2>5. CASE SetMode
    BY <2>5 DEF SetMode, NewMode, Tasks
  <2>6. CASE SaveMode \/ Ack
    BY <2>6 DEF SaveMode, Ack, Tasks, history
  <2>7. CASE Boot \/ PowerCut \/ World
    <3>1. CASE Boot
      BY <3>1 DEF Boot
    <3>2. CASE PowerCut
      BY <3>2 DEF PowerCut, Tasks, history
    <3>3. CASE World
      BY <3>3 DEF World, history
    <3> QED BY <2>7, <3>1, <3>2, <3>3
  <2>8. ASSUME NEW c \in Commands, Receive(c) PROVE StrayInv'
    BY <2>8 DEF Receive, Tasks
  <2>9. CASE UNCHANGED vars
    BY <2>9 DEF vars, history
  <2> QED
    BY <2>1, <2>2, <2>3, <2>4, <2>5, <2>6, <2>7, <2>8, <2>9
       DEF Next, LoopStep, CallbackStep, Tasks
<1>3. TypeOK /\ StrayInv => StrayOnce
  BY DEF StrayInv, StrayOnce
<1> QED BY <1>1, <1>2, <1>3, TypeCorrect, PTL DEF Spec

-----------------------------------------------------------------------------
\* Where a task is while it switches the relay.
Switching == {"pin", "state", "read", "save"}

\* One task at a time, and each task only where its own code goes.
OneAtATime ==
  /\ at["loop"] = "rest" \/ at["callback"] = "rest"
  /\ at["loop"] \in Switching \union {"rest", "pause", "decide"}
  /\ at["callback"] \in Switching \union {"rest", "mode", "saveMode", "ack"}
  /\ ~up => at["loop"] = "rest" /\ at["callback"] = "rest"

\* How far pin, memory and flash agree at each place of the task that is busy.
Coherence ==
  /\ \A t \in Tasks : at[t] = "state" => pin = goal[t]
  /\ \A t \in Tasks : at[t] = "save" => copy[t] = isOn
  /\ up /\ (\A t \in Tasks : at[t] # "state") => pin = isOn
  /\ up /\ (\A t \in Tasks : at[t] \notin {"state", "read", "save"}) => nvsRelay = isOn

CoherentInv == ~overlapped => OneAtATime /\ Coherence

\* A round and a command that have overlapped once have done so for ever.
LEMMA OverlapStays ==
  ASSUME TypeOK, [Next]_vars, ~overlapped'
  PROVE  ~overlapped
<1>1. ASSUME NEW t \in Tasks, DrivePin(t) \/ SetState(t) \/ ReadState(t) \/ SaveRelay(t)
      PROVE  ~overlapped
  BY <1>1 DEF DrivePin, SetState, ReadState, SaveRelay, history
<1>2. CASE RetryPzem \/ Pause \/ Sense \/ Decide
  BY <1>2 DEF RetryPzem, Pause, Sense, Decide, Start, history
<1>3. CASE SetMode \/ SaveMode \/ Ack \/ Boot \/ PowerCut \/ World \/ UNCHANGED vars
  BY <1>3 DEF SetMode, SaveMode, Ack, Boot, PowerCut, World, vars, history
<1>4. ASSUME NEW c \in Commands, Receive(c) PROVE ~overlapped
  BY <1>4 DEF Receive, Start
<1> QED BY <1>1, <1>2, <1>3, <1>4 DEF Next, LoopStep, CallbackStep, Tasks

\* As long as commands and rounds do not overlap, the tasks take turns and the
\* relay is coherent at each of their places.
LEMMA CoherentStep ==
  ASSUME TypeOK, CoherentInv, [Next]_vars
  PROVE  CoherentInv'
<1> SUFFICES ASSUME ~overlapped' PROVE CoherentInv'
  BY DEF CoherentInv
<1>o. ~overlapped
  BY OverlapStays
<1> USE <1>o
<1> USE DEF TypeOK, CoherentInv, OneAtATime, Coherence, Switching, Goto, Tasks
<1>1. ASSUME NEW t \in Tasks, DrivePin(t) PROVE CoherentInv'
  BY <1>1 DEF DrivePin, stored
<1>2. ASSUME NEW t \in Tasks, SetState(t) PROVE CoherentInv'
  BY <1>2 DEF SetState, stored
<1>3. ASSUME NEW t \in Tasks, ReadState(t) PROVE CoherentInv'
  BY <1>3 DEF ReadState, stored
<1>4. ASSUME NEW t \in Tasks, SaveRelay(t) PROVE CoherentInv'
  BY <1>4 DEF SaveRelay
<1>5. CASE RetryPzem \/ Pause \/ Sense
  BY <1>5 DEF RetryPzem, Pause, Sense, Start, stored
<1>6. CASE Decide
  BY <1>6 DEF Decide, stored
<1>7. CASE SetMode \/ SaveMode \/ Ack
  BY <1>7 DEF SetMode, SaveMode, Ack, stored
<1>8. CASE Boot \/ PowerCut \/ World
  BY <1>8 DEF Boot, PowerCut, World, stored
<1>9. ASSUME NEW c \in Commands, Receive(c) PROVE CoherentInv'
  BY <1>9 DEF Receive, Start, stored
<1>10. CASE UNCHANGED vars
  BY <1>10 DEF vars, stored
<1> QED
  BY <1>1, <1>2, <1>3, <1>4, <1>5, <1>6, <1>7, <1>8, <1>9, <1>10
     DEF Next, LoopStep, CallbackStep

LEMMA CoherentInit == Init => CoherentInv
  BY DEF Init, CoherentInv, OneAtATime, Coherence, Switching, Tasks

\* Without power no task is at work.
Powered == \A t \in Tasks : at[t] # "rest" => up

LEMMA PoweredInvariant == Spec => []Powered
<1>1. Init => Powered
  BY DEF Init, Powered
<1>2. ASSUME TypeOK, Powered, [Next]_vars PROVE Powered'
  <2> USE <1>2
  <2> USE DEF TypeOK, Powered, Goto, Tasks
  <2>1. ASSUME NEW t \in Tasks, DrivePin(t) \/ SetState(t) \/ ReadState(t) \/ SaveRelay(t)
        PROVE  Powered'
    BY <2>1 DEF DrivePin, SetState, ReadState, SaveRelay
  <2>2. CASE RetryPzem \/ Pause \/ Sense \/ Decide
    BY <2>2 DEF RetryPzem, Pause, Sense, Decide, Start
  <2>3. CASE SetMode \/ SaveMode \/ Ack
    BY <2>3 DEF SetMode, SaveMode, Ack
  <2>4. CASE Boot \/ PowerCut \/ World \/ UNCHANGED vars
    BY <2>4 DEF Boot, PowerCut, World, vars
  <2>5. ASSUME NEW c \in Commands, Receive(c) PROVE Powered'
    BY <2>5 DEF Receive, Start
  <2> QED BY <2>1, <2>2, <2>3, <2>4, <2>5 DEF Next, LoopStep, CallbackStep
<1> QED BY <1>1, <1>2, TypeCorrect, PTL DEF Spec

\* Unless two relay_set have crossed, one task at most is inside relay_set, where the
\* pin is what that task wants, and outside it pin and memory are one.
CrossingInv ==
  ~crossed =>
    /\ \A t, u \in Tasks : at[t] = "state" /\ at[u] = "state" => t = u
    /\ \A t \in Tasks : at[t] = "state" => pin = goal[t]
    /\ (\A t \in Tasks : at[t] # "state") => pin = isOn

\* A step that drives no pin and sets no state keeps it.
LEMMA CrossingKept ==
  ASSUME TypeOK, CrossingInv, UNCHANGED <<pin, isOn, crossed>>,
         \A t \in Tasks : (at'[t] = "state") = (at[t] = "state"),
         \A t \in Tasks : at[t] = "state" => goal'[t] = goal[t]
  PROVE  CrossingInv'
  BY DEF CrossingInv

\* However the tasks interleave: relay_set brings pin and memory together unless
\* another one is under way.
LEMMA CrossingInvariant == Spec => []CrossingInv
<1>1. Init => CrossingInv
  BY DEF Init, CrossingInv, Tasks
<1>2. ASSUME TypeOK, Powered, CrossingInv, [Next]_vars PROVE CrossingInv'
  <2> USE <1>2
  <2> USE DEF TypeOK, Goto
  <2>1. ASSUME NEW t \in Tasks, DrivePin(t) PROVE CrossingInv'
    <3>1. /\ pin' = goal[t] /\ goal' = goal
          /\ \A u \in Tasks : at'[u] = IF u = t THEN "state" ELSE at[u]
          /\ ~crossed' => \A u \in Tasks : at[u] # "state"
      BY <2>1 DEF DrivePin
    <3> QED BY <2>1, <3>1 DEF CrossingInv
  <2>2. ASSUME NEW t \in Tasks, SetState(t) PROVE CrossingInv'
    <3>1. /\ isOn' = goal[t] /\ pin' = pin /\ crossed' = crossed /\ at[t] = "state"
          /\ \A u \in Tasks : at'[u] = IF u = t THEN "read" ELSE at[u]
      BY <2>2 DEF SetState, history
    <3>2. ASSUME ~crossed PROVE pin = goal[t] /\ \A u \in Tasks : at'[u] # "state"
      BY <3>1, <3>2 DEF CrossingInv
    <3> QED BY <3>1, <3>2 DEF CrossingInv
  <2>3. ASSUME NEW t \in Tasks, ReadState(t) \/ SaveRelay(t) PROVE CrossingInv'
    BY <2>3, CrossingKept DEF ReadState, SaveRelay, history
  <2>4. CASE RetryPzem \/ Pause \/ Sense
    <3>1. UNCHANGED <<pin, isOn, crossed, goal>>
      BY <2>4 DEF RetryPzem, Pause, Sense, history
    <3>2. \A t \in Tasks : (at'[t] = "state") = (at[t] = "state")
      BY <2>4 DEF RetryPzem, Pause, Sense, Start, Tasks
    <3> QED BY <3>1, <3>2, CrossingKept
  <2>5. CASE Decide
    <3>1. at["loop"] = "decide" /\ UNCHANGED <<pin, isOn, crossed>>
      BY <2>5 DEF Decide, history
    <3>2. at'["loop"] \in {"pin", "rest"} /\ at'["callback"] = at["callback"]
      BY <2>5 DEF Decide, Tasks
    <3>3. goal'["callback"] = goal["callback"]
      BY <2>5 DEF Decide, Tasks
    <3>4. \A t \in Tasks : (at'[t] = "state") = (at[t] = "state")
      BY <3>1, <3>2 DEF Tasks
    <3>5. \A t \in Tasks : at[t] = "state" => goal'[t] = goal[t]
      BY <3>1, <3>3 DEF Tasks
    <3> QED BY <3>1, <3>4, <3>5, CrossingKept
  <2>6. CASE SetMode \/ SaveMode \/ Ack
    BY <2>6, CrossingKept DEF SetMode, SaveMode, Ack, Tasks, history
  <2>7. CASE Boot
    <3>1. at' = at /\ goal' = goal /\ pin' = isOn'
      BY <2>7 DEF Boot
    <3>2. \A t \in Tasks : at[t] = "rest"
      BY <2>7 DEF Boot, Powered
    <3> QED BY <3>1, <3>2 DEF CrossingInv
  <2>8. CASE PowerCut
    BY <2>8 DEF PowerCut, CrossingInv, Tasks
  <2>9. CASE World \/ UNCHANGED vars
    BY <2>9, CrossingKept DEF World, vars, history
  <2>10. ASSUME NEW c \in Commands, Receive(c) PROVE CrossingInv'
    BY <2>10, CrossingKept DEF Receive, Start, Tasks
  <2> QED
    BY <2>1, <2>2, <2>3, <2>4, <2>5, <2>6, <2>7, <2>8, <2>9, <2>10
       DEF Next, LoopStep, CallbackStep, Tasks
<1> QED BY <1>1, <1>2, TypeCorrect, PoweredInvariant, PTL DEF Spec

\* Pin and memory differ only inside relay_set or after two have crossed, and before
\* a first overlap flash is the same between rounds and commands
\* (app_main.c:162, 505, 638-652; relay.c:48-57).
THEOREM RelayStaysCoherent == Spec => []RelayCoherent
<1>1. CoherentInv /\ CrossingInv => RelayCoherent
  BY DEF CoherentInv, OneAtATime, Coherence, CrossingInv, RelayCoherent, AtRest, Tasks
<1> QED BY <1>1, CoherentInit, CoherentStep, CrossingInvariant, TypeCorrect, PTL DEF Spec

-----------------------------------------------------------------------------
\* The promise of an acknowledged command, in memory and in flash, and what the
\* callback has established of it at each place.
Promise ==
  /\ wanted # "any" =>
       /\ nvsRelay = (wanted = "on") /\ nvsMode = "manual"
       /\ up => isOn = (wanted = "on") /\ workMode = "manual"
  /\ \A t \in Tasks : at[t] \in Switching => wanted = "any"
  /\ at["loop"] \in Switching => workMode = "automatic"
  /\ at["callback"] \in Switching => command \in RelayCommands
  /\ at["callback"] # "rest" /\ command # "mode_manual" => wanted = "any"
  /\ at["callback"] \in {"read", "save", "mode", "saveMode", "ack"}
       /\ command \in RelayCommands => isOn = goal["callback"]
  /\ at["callback"] \in {"saveMode", "ack"} => workMode = NewMode
  /\ at["callback"] = "ack" => nvsMode = NewMode

PromiseInv == ~overlapped => Promise

\* Before a first overlap, no round undoes what a command has established.
LEMMA PromiseStep ==
  ASSUME TypeOK, CoherentInv, PromiseInv, [Next]_vars
  PROVE  PromiseInv'
<1> SUFFICES ASSUME ~overlapped' PROVE Promise'
  BY DEF PromiseInv
<1>o. ~overlapped
  BY OverlapStays
<1> USE <1>o
<1> USE DEF TypeOK, CoherentInv, OneAtATime, PromiseInv, Promise, Switching, Goto, Tasks,
            RelayCommands, NewMode
<1>1. ASSUME NEW t \in Tasks, DrivePin(t) PROVE Promise'
  BY <1>1 DEF DrivePin, stored
<1>2. ASSUME NEW t \in Tasks, SetState(t) PROVE Promise'
  BY <1>2 DEF SetState, stored, history
<1>3. ASSUME NEW t \in Tasks, ReadState(t) PROVE Promise'
  BY <1>3 DEF ReadState, stored, history
<1>4. ASSUME NEW t \in Tasks, SaveRelay(t) PROVE Promise'
  BY <1>4 DEF SaveRelay, history
<1>5. CASE RetryPzem \/ Pause \/ Sense
  BY <1>5 DEF RetryPzem, Pause, Sense, Start, stored, history
<1>6. CASE Decide
  BY <1>6 DEF Decide, stored, history
<1>7. CASE SetMode
  BY <1>7 DEF SetMode, stored
<1>8. CASE SaveMode
  BY <1>8 DEF SaveMode, history
<1>9. CASE Ack
  BY <1>9 DEF Ack, Coherence, stored
<1>10. CASE Boot \/ PowerCut \/ World
  BY <1>10 DEF Boot, PowerCut, World, stored, history
<1>11. ASSUME NEW c \in Commands, Receive(c) PROVE Promise'
  BY <1>11 DEF Receive, Start, stored
<1>12. CASE UNCHANGED vars
  BY <1>12 DEF vars, stored, history
<1> QED
  BY <1>1, <1>2, <1>3, <1>4, <1>5, <1>6, <1>7, <1>8, <1>9, <1>10, <1>11, <1>12
     DEF Next, LoopStep, CallbackStep

\* Before a first overlap, what an acknowledged relay command asked for stays, power
\* cuts included (app_main.c:505-512, 602-606, 817-818).
THEOREM CommandHolds == Spec => []UserCommandHolds
<1>1. Init => PromiseInv
  BY DEF Init, PromiseInv, Promise, Switching, Tasks
<1>2. PromiseInv => UserCommandHolds
  BY DEF PromiseInv, Promise, UserCommandHolds, AtRest
<1> QED BY <1>1, <1>2, CoherentInit, CoherentStep, PromiseStep, TypeCorrect, PTL DEF Spec
-----------------------------------------------------------------------------
(* The relay with a memory.                                                 *)

LEMMA PromiseInvariant == Spec => [](CoherentInv /\ PromiseInv)
<1>1. Init => PromiseInv
  BY DEF Init, PromiseInv, Promise, Switching, Tasks
<1> QED BY <1>1, CoherentInit, CoherentStep, PromiseStep, TypeCorrect, PTL DEF Spec

\* Flash has the mode in use, but for the moment before a new one is saved.
ModeSaved == up /\ ~overlapped /\ at["callback"] # "saveMode" => workMode = nvsMode

LEMMA ModeSavedInvariant == Spec => []ModeSaved
<1>1. Init => ModeSaved
  BY DEF Init, ModeSaved
<1>2. ASSUME TypeOK, CoherentInv, PromiseInv, ModeSaved, [Next]_vars PROVE ModeSaved'
  <2> SUFFICES ASSUME up', ~overlapped', at'["callback"] # "saveMode"
               PROVE  workMode' = nvsMode'
    BY DEF ModeSaved
  <2>o. ~overlapped
    BY <1>2, OverlapStays
  <2> USE <1>2, <2>o
  <2> USE DEF TypeOK, ModeSaved, Goto, Tasks
  <2>1. ASSUME NEW t \in Tasks, DrivePin(t) \/ SetState(t) \/ ReadState(t) \/ SaveRelay(t)
        PROVE  workMode' = nvsMode'
    <3>1. UNCHANGED <<up, workMode, nvsMode>> /\ at["callback"] # "saveMode"
      BY <2>1 DEF DrivePin, SetState, ReadState, SaveRelay, stored
    <3> QED BY <3>1
  <2>2. CASE RetryPzem \/ Pause \/ Sense \/ Decide
    BY <2>2 DEF RetryPzem, Pause, Sense, Decide, stored
  <2>3. CASE SetMode
    BY <2>3 DEF SetMode
  <2>4. CASE SaveMode
    <3>1. workMode' = workMode /\ nvsMode' = NewMode /\ workMode = NewMode
      BY <2>4 DEF SaveMode, PromiseInv, Promise
    <3> QED BY <3>1
  <2>5. CASE Ack \/ World \/ UNCHANGED vars
    BY <2>5 DEF Ack, World, vars, stored
  <2>6. CASE Boot \/ PowerCut
    BY <2>6 DEF Boot, PowerCut, stored
  <2>7. ASSUME NEW c \in Commands, Receive(c) PROVE workMode' = nvsMode'
    BY <2>7 DEF Receive, Start, stored
  <2> QED BY <2>1, <2>2, <2>3, <2>4, <2>5, <2>6, <2>7 DEF Next, LoopStep, CallbackStep
<1> QED BY <1>1, <1>2, TypeCorrect, PromiseInvariant, PTL DEF Spec

\* Whether the callback carries out a relay command.
Asked == at["callback"] # "rest" /\ command \in RelayCommands

\* A step that neither switches nor saves nor answers is no step of the socket.
LEMMA SocketRests ==
  ASSUME UNCHANGED <<up, pin, nvsRelay, nvsMode, wanted, overlapped>>, Asked' = Asked
  PROVE  UNCHANGED Socket!vars
  BY DEF Socket!vars, Asked

\* The pin is driven for the command, or by automatic control in automatic mode.
LEMMA DriveIsSwitch ==
  ASSUME TypeOK, CoherentInv, PromiseInv, ModeSaved, ~overlapped,
         NEW t \in Tasks, DrivePin(t)
  PROVE  [Socket!Next]_Socket!vars
<1> USE DEF Goto
<1>1. up /\ UNCHANGED <<up, nvsRelay, nvsMode, wanted, overlapped, command>>
  BY DEF DrivePin, CoherentInv, OneAtATime, Tasks, stored
<1>2. Asked' = Asked
  BY DEF DrivePin, Asked, TypeOK, Tasks
<1>3. Asked \/ nvsMode = "automatic"
  <2>1. CASE t = "callback"
    BY <2>1 DEF DrivePin, PromiseInv, Promise, Switching, Asked
  <2>2. CASE t = "loop"
    <3>1. at["loop"] = "pin" /\ at["callback"] = "rest" /\ workMode = "automatic"
      BY <2>2 DEF DrivePin, CoherentInv, OneAtATime, PromiseInv, Promise, Switching
    <3> QED BY <1>1, <3>1 DEF ModeSaved
  <2> QED BY <2>1, <2>2 DEF Tasks
<1>4. pin' \in BOOLEAN /\ pin \in BOOLEAN
  BY DEF DrivePin, TypeOK, Tasks
<1>5. CASE pin' = pin
  BY <1>1, <1>2, <1>5, SocketRests
<1>6. CASE pin' = ~pin
  BY <1>1, <1>2, <1>3, <1>6 DEF Socket!Switch, Socket!Next, Asked
<1> QED BY <1>4, <1>5, <1>6

\* What is saved is what the pin is.
LEMMA SaveIsRemember ==
  ASSUME TypeOK, CoherentInv, PromiseInv, ~overlapped, NEW t \in Tasks, SaveRelay(t)
  PROVE  [Socket!Next]_Socket!vars
<1> USE DEF Goto
<1>1. up /\ UNCHANGED <<up, pin, nvsMode, wanted, overlapped, command>>
  BY DEF SaveRelay, CoherentInv, OneAtATime, Tasks, history
<1>2. Asked' = Asked
  BY DEF SaveRelay, Asked, TypeOK, Tasks
<1>3. nvsRelay' = pin
  <2>1. \A u \in Tasks : at[u] # "state"
    BY DEF SaveRelay, CoherentInv, OneAtATime, Tasks
  <2> QED BY <1>1, <2>1 DEF SaveRelay, CoherentInv, Coherence
<1> QED BY <1>1, <1>2, <1>3 DEF Socket!Remember, Socket!Next, Asked

\* The mode is saved behind the relay, and not against a command.
LEMMA SaveModeIsChange ==
  ASSUME TypeOK, CoherentInv, PromiseInv, ~overlapped, SaveMode
  PROVE  [Socket!Next]_Socket!vars
<1> USE DEF Goto
<1>1. /\ at["callback"] = "saveMode" /\ at["loop"] = "rest" /\ up
      /\ UNCHANGED <<up, pin, nvsRelay, wanted, overlapped, command>>
  BY DEF SaveMode, CoherentInv, OneAtATime, Switching, history
<1>2. Asked' = Asked
  BY <1>1 DEF SaveMode, Asked, TypeOK, Tasks
<1>3. nvsRelay = pin
  BY <1>1 DEF CoherentInv, Coherence, Tasks
<1>4. nvsMode' = NewMode /\ nvsMode' \in Modes
  BY DEF SaveMode, NewMode, Modes
<1>5. nvsMode' = "automatic" => ~Asked /\ wanted = "any"
  BY <1>1, <1>4 DEF NewMode, Asked, RelayCommands, PromiseInv, Promise
<1> QED BY <1>1, <1>2, <1>3, <1>4, <1>5 DEF Socket!ChangeMode, Socket!Next, Asked

\* A relay command is acknowledged when relay and mode are done and saved.
LEMMA AckIsAnswer ==
  ASSUME TypeOK, CoherentInv, PromiseInv, ~overlapped, Ack
  PROVE  [Socket!Next]_Socket!vars
<1> USE DEF Goto
<1>1. /\ at["callback"] = "ack" /\ at["loop"] = "rest" /\ at'["callback"] = "rest" /\ up
      /\ UNCHANGED <<up, pin, nvsRelay, nvsMode, overlapped, command>>
  BY DEF Ack, CoherentInv, OneAtATime, Switching, TypeOK, Tasks, stored
<1>2. nvsRelay = isOn /\ pin = isOn
  BY <1>1 DEF CoherentInv, Coherence, Tasks
<1>3. CASE command \in RelayCommands
  <2>1. nvsMode = "manual"
    BY <1>1, <1>3 DEF PromiseInv, Promise, NewMode, RelayCommands
  <2>2. isOn = goal["callback"]
    BY <1>1, <1>3 DEF PromiseInv, Promise
  <2>3. wanted' = IF pin THEN "on" ELSE "off"
    BY <1>2, <1>3, <2>2 DEF Ack
  <2>4. Asked /\ Asked' = FALSE
    BY <1>1, <1>3 DEF Asked
  <2> QED BY <1>1, <1>2, <2>1, <2>3, <2>4 DEF Socket!Answer, Socket!Next, Asked
<1>4. CASE command \notin RelayCommands
  <2>1. wanted' = wanted /\ Asked' = Asked
    BY <1>1, <1>4 DEF Ack, Asked
  <2> QED BY <1>1, <2>1, SocketRests
<1> QED BY <1>3, <1>4

\* A relay command asks, mode_auto releases, mode_manual asks for nothing yet.
LEMMA ReceiveIsAsk ==
  ASSUME TypeOK, ~overlapped', ~overlapped, NEW c \in Commands, Receive(c)
  PROVE  [Socket!Next]_Socket!vars
<1> USE DEF Goto
<1>1. /\ up /\ at["callback"] = "rest" /\ at'["callback"] # "rest" /\ command' = c
      /\ UNCHANGED <<up, pin, nvsRelay, nvsMode, overlapped>>
  BY DEF Receive, Start, TypeOK, Tasks, stored
<1>2. Asked = FALSE
  BY <1>1 DEF Asked
<1>3. CASE c \in RelayCommands
  <2>1. Asked' = TRUE
    BY <1>1, <1>3 DEF Asked
  <2>2. wanted' = "any"
    BY <1>3 DEF Receive, RelayCommands
  <2> QED BY <1>1, <1>2, <2>1, <2>2 DEF Socket!Ask, Socket!Next, Asked
<1>4. CASE c \notin RelayCommands
  <2>1. Asked' = Asked
    BY <1>1, <1>2, <1>4 DEF Asked
  <2>2. CASE c = "mode_auto"
    <3>1. wanted' = "any"
      BY <2>2 DEF Receive
    <3> QED BY <1>1, <2>1, <3>1 DEF Socket!Release, Socket!Next, Asked
  <2>3. CASE c = "mode_manual"
    <3>1. wanted' = wanted
      BY <2>3 DEF Receive
    <3> QED BY <1>1, <2>1, <3>1, SocketRests
  <2> QED BY <1>4, <2>2, <2>3 DEF Commands
<1> QED BY <1>3, <1>4

\* The power goes and comes back.
LEMMA PowerSteps ==
  ASSUME TypeOK, CoherentInv, ~overlapped, Boot \/ PowerCut
  PROVE  [Socket!Next]_Socket!vars
<1>1. CASE Boot
  <2>1. Asked' = Asked
    BY <1>1 DEF Boot, Asked
  <2> QED BY <1>1, <2>1 DEF Boot, stored, Socket!Boot, Socket!Next, Asked
<1>2. CASE PowerCut
  <2>1. at'["callback"] = "rest"
    BY <1>2 DEF PowerCut, Tasks
  <2>2. Asked' = FALSE
    BY <2>1 DEF Asked
  <2> QED BY <1>2, <2>2 DEF PowerCut, stored, history, Socket!PowerCut, Socket!Next, Asked
<1> QED BY <1>1, <1>2

\* ImplementsSocket for every delay: as long as no round and no command overlap, the
\* single writes of both tasks to pin, memory and flash amount to a relay with a
\* memory that keeps what it acknowledged (app_main.c:490-570, 600-676, 817-837;
\* relay.c:43-57).
THEOREM RelayIsSocket == Spec => ImplementsSocket
<1>1. Init => Socket!Init
  BY DEF Init, Tasks, Socket!Init
<1>2. ASSUME TypeOK, TypeOK', CoherentInv, PromiseInv, ModeSaved, [Next]_vars
      PROVE  [Socket!Next]_Socket!vars
  <2> USE <1>2
  <2>1. CASE overlapped'
    <3>1. overlapped' = TRUE
      BY <2>1 DEF TypeOK
    <3> QED BY <3>1 DEF Socket!Overlap, Socket!Next
  <2>2. CASE ~overlapped'
    <3>o. ~overlapped /\ overlapped' = overlapped
      BY <2>2, OverlapStays DEF TypeOK
    <3> USE <2>2, <3>o
    <3>1. ASSUME NEW t \in Tasks, DrivePin(t) \/ SaveRelay(t)
          PROVE  [Socket!Next]_Socket!vars
      BY <3>1, DriveIsSwitch, SaveIsRemember
    <3>2. ASSUME NEW t \in Tasks, SetState(t) \/ ReadState(t)
          PROVE  [Socket!Next]_Socket!vars
      <4>1. Asked' = Asked
        BY <3>2 DEF SetState, ReadState, Goto, Asked, TypeOK, Tasks
      <4> QED BY <3>2, <4>1, SocketRests DEF SetState, ReadState, stored, history
    <3>3. CASE RetryPzem \/ Pause \/ Sense \/ Decide
      <4>1. Asked' = Asked
        BY <3>3 DEF RetryPzem, Pause, Sense, Decide, Goto, Asked, TypeOK, Tasks
      <4> QED BY <3>3, <4>1, SocketRests
              DEF RetryPzem, Pause, Sense, Decide, stored, history
    <3>4. CASE SetMode
      <4>1. Asked' = Asked
        BY <3>4 DEF SetMode, Goto, Asked, TypeOK, Tasks
      <4> QED BY <3>4, <4>1, SocketRests DEF SetMode, stored
    <3>5. CASE SaveMode \/ Ack
      BY <3>5, SaveModeIsChange, AckIsAnswer
    <3>6. CASE Boot \/ PowerCut
      BY <3>6, PowerSteps
    <3>7. CASE World \/ UNCHANGED vars
      <4>1. Asked' = Asked
        BY <3>7 DEF World, vars, Asked
      <4> QED BY <3>7, <4>1, SocketRests DEF World, vars, stored, history
    <3>8. ASSUME NEW c \in Commands, Receive(c) PROVE [Socket!Next]_Socket!vars
      BY <3>8, ReceiveIsAsk
    <3> QED
      BY <3>1, <3>2, <3>3, <3>4, <3>5, <3>6, <3>7, <3>8
         DEF Next, LoopStep, CallbackStep, Tasks
  <2> QED BY <2>1, <2>2
<1> QED
  BY <1>1, <1>2, TypeCorrect, PromiseInvariant, ModeSavedInvariant, PTL
  DEF Spec, ImplementsSocket, Socket!Spec
=============================================================================
