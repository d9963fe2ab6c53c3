---------------------------- MODULE RelayControl -----------------------------
(***************************************************************************)
(* Who switches the relay of the smart socket: the main loop (auto_control   *)
(* on the PIR and power readings) and the command callback, which runs in    *)
(* the task of the MQTT client on either core, and what flash keeps of it    *)
(* across a power cut (app_main.c, relay.c, auto_control.c, device_state.c). *)
(*                                                                          *)
(* relay.c has no lock: relay_set drives the pin and then sets s_is_on, and  *)
(* the state is read again before it is saved.  Each of these is a step.     *)
(* Time is counted in rounds of the main loop.  Every write to flash         *)
(* succeeds.  Publishing and the screen are left out.                        *)
(***************************************************************************)
EXTENDS Naturals

CONSTANT Delay  \* no_motion_off_delay_sec, in rounds

ASSUME ConstantsAssumption == Delay \in Nat \ {0}

Tasks    == {"loop", "callback"}
RelayCommands == {"relay_on", "relay_off", "relay_toggle"}
Commands == RelayCommands \union {"mode_auto", "mode_manual"}
Modes    == {"manual", "automatic"}

VARIABLES
  up,        \* is the device powered and booted?
  pin,       \* the level of the relay's GPIO: TRUE closes the relay
  isOn,      \* s_is_on
  workMode,  \* device_state mode
  nvsRelay, nvsMode,  \* keys relay_on and mode in flash
  pzem,      \* is the PZEM driver initialised?
  idle,      \* rounds since the last motion, up to Delay
  at,        \* where each task stands, "rest" between rounds and commands
  goal,      \* what each task wants the relay to be
  copy,      \* the relay state each task read back
  motion,    \* the room: is somebody moving in it?
  light,     \* the appliance: does it draw less than the threshold when on?
  sensed,    \* the readings of the round
  command,   \* the command of the callback
  \* history
  wanted,    \* what the last acknowledged relay command asked for, while no
             \* later relay or mode_auto command has arrived; else "any"
  stray,     \* automatic switchings since the mode became manual
  overlapped, \* has a round or a command begun in the middle of the other?
  crossed    \* did the last relay_set begin in the middle of another one?

stored  == <<nvsRelay, nvsMode>>
world   == <<motion, light>>
history == <<wanted, stray, overlapped, crossed>>
vars == <<up, pin, isOn, workMode, stored, pzem, idle, at, goal, copy, world,
          sensed, command, history>>

Readings == [on : BOOLEAN,     \* relay_is_on
             motion : BOOLEAN, \* PIR
             low : BOOLEAN]    \* power_for_ctrl is below the threshold

TypeOK ==
  /\ up \in BOOLEAN /\ pin \in BOOLEAN /\ isOn \in BOOLEAN /\ pzem \in BOOLEAN
  /\ workMode \in Modes /\ nvsRelay \in BOOLEAN /\ nvsMode \in Modes
  /\ idle \in 0 .. Delay
  /\ at \in [Tasks -> {"rest", "pause", "decide", "pin", "state", "read", "save",
                       "mode", "saveMode", "ack"}]
  /\ goal \in [Tasks -> BOOLEAN] /\ copy \in [Tasks -> BOOLEAN]
  /\ motion \in BOOLEAN /\ light \in BOOLEAN /\ sensed \in Readings
  /\ command \in Commands
  /\ wanted \in {"on", "off", "any"} /\ stray \in Nat
  /\ overlapped \in BOOLEAN /\ crossed \in BOOLEAN

Init ==
  /\ up = FALSE /\ pin = FALSE /\ isOn = FALSE /\ pzem = FALSE
  /\ workMode = "automatic" /\ nvsMode = "automatic" /\ nvsRelay = TRUE
  /\ idle = 0
  /\ at = [t \in Tasks |-> "rest"]
  /\ goal = [t \in Tasks |-> FALSE] /\ copy = [t \in Tasks |-> FALSE]
  /\ motion \in BOOLEAN /\ light \in BOOLEAN
  /\ sensed = [on |-> FALSE, motion |-> FALSE, low |-> TRUE]
  /\ command = "mode_auto"
  /\ wanted = "any" /\ stray = 0 /\ overlapped = FALSE /\ crossed = FALSE

-----------------------------------------------------------------------------
(* Switching the relay and saving its state, as both tasks do it.           *)

Goto(t, place) == at' = [at EXCEPT ![t] = place]

Start(t) ==
  /\ up /\ at[t] = "rest"
  /\ overlapped' = (overlapped \/ \E u \in Tasks : at[u] # "rest")

\* gpio_set_level
DrivePin(t) ==
  /\ at[t] = "pin"
  /\ pin' = goal[t]
  /\ crossed' = \E u \in Tasks : at[u] = "state"
  /\ stray' = IF t = "loop" /\ workMode = "manual" THEN stray + 1 ELSE stray
  /\ Goto(t, "state")
  /\ UNCHANGED <<up, isOn, workMode, stored, pzem, idle, goal, copy,
                 world, sensed, command, wanted, overlapped>>

\* s_is_on = on
SetState(t) ==
  /\ at[t] = "state"
  /\ isOn' = goal[t]
  /\ Goto(t, "read")
  /\ UNCHANGED <<up, pin, workMode, stored, pzem, idle, goal, copy, world,
                 sensed, command, history>>

\* relay_get_state(), the argument of autocfg_nvs_save_relay
ReadState(t) ==
  /\ at[t] = "read"
  /\ copy' = [copy EXCEPT ![t] = isOn]
  /\ Goto(t, "save")
  /\ UNCHANGED <<up, pin, isOn, workMode, stored, pzem, idle, goal,
                 sensed, command, history, world>>

\* Mutant of SaveRelay: what the loop switched is not saved.
SaveCommandedRelay(t) ==
  /\ at[t] = "save"
  /\ nvsRelay' = IF t = "loop" THEN nvsRelay ELSE copy[t]
  /\ Goto(t, IF t = "loop" THEN "rest" ELSE "mode")
  /\ UNCHANGED <<up, pin, isOn, workMode, nvsMode, pzem, idle, goal, copy,
                 world, sensed, command, history>>

\* autocfg_nvs_save_relay
SaveRelay(t) ==
  /\ at[t] = "save"
  /\ nvsRelay' = copy[t]
  /\ Goto(t, IF t = "loop" THEN "rest" ELSE "mode")
  /\ UNCHANGED <<up, pin, isOn, workMode, nvsMode, pzem, idle, goal, copy,
                 world, sensed, command, history>>

-----------------------------------------------------------------------------
(* The main loop.                                                           *)

\* The no-motion timer one round later.
Later == IF idle < Delay THEN idle + 1 ELSE idle

\* pzem_init is tried again; when it fails the round ends there, with a pause.
RetryPzem ==
  /\ Start("loop") /\ ~pzem
  /\ \/ pzem' = TRUE /\ UNCHANGED at
     \/ Goto("loop", "pause") /\ UNCHANGED pzem
  /\ UNCHANGED <<up, pin, isOn, workMode, stored, idle, goal, copy, world,
                 sensed, command, wanted, stray, crossed>>

Pause ==
  /\ at["loop"] = "pause"
  /\ idle' = Later
  /\ Goto("loop", "rest")
  /\ UNCHANGED <<up, pin, isOn, workMode, stored, pzem, goal, copy, world,
                 sensed, command, history>>

\* The readings of a round.  With the relay off there is no load and the PZEM
\* is not read; a reading that fails counts as no power, which is below the
\* threshold unless that is 0.
Sense ==
  /\ Start("loop") /\ pzem
  /\ \E readOk, zeroIsLow \in BOOLEAN :
       /\ readOk => isOn
       /\ light => zeroIsLow
       /\ sensed' = [on |-> isOn, motion |-> motion,
                     low |-> IF readOk THEN light ELSE zeroIsLow]
  /\ Goto("loop", "decide")
  /\ UNCHANGED <<up, pin, isOn, workMode, stored, pzem, idle, goal, copy,
                 world, command, wanted, stray, crossed>>

\* auto_control_evaluate: what it would do, given the rounds without motion.
SwitchOn        == sensed.motion /\ ~sensed.on
SwitchOff(quiet) == ~sensed.motion /\ sensed.on /\ quiet >= Delay /\ sensed.low

\* Mutant of Decide: the decision is applied in any mode.
DecideInAnyMode ==
  /\ at["loop"] = "decide"
  /\ idle' = IF sensed.motion THEN 0 ELSE Later
  /\ IF SwitchOn \/ SwitchOff(idle')
     THEN goal' = [goal EXCEPT !["loop"] = SwitchOn] /\ Goto("loop", "pin")
     ELSE Goto("loop", "rest") /\ UNCHANGED goal
  /\ UNCHANGED <<up, pin, isOn, workMode, stored, pzem, copy, world, sensed,
                 command, history>>

\* Mutant of Decide: the timer starts again in every round.
DecideTimerRestarts ==
  /\ at["loop"] = "decide"
  /\ idle' = IF sensed.motion THEN 0 ELSE 1
  /\ IF workMode = "automatic" /\ (SwitchOn \/ SwitchOff(idle'))
     THEN goal' = [goal EXCEPT !["loop"] = SwitchOn] /\ Goto("loop", "pin")
     ELSE Goto("loop", "rest") /\ UNCHANGED goal
  /\ UNCHANGED <<up, pin, isOn, workMode, stored, pzem, copy, world, sensed,
                 command, history>>

\* The mode is read, the timer kept in either mode, the decision applied in
\* automatic mode only.
Decide ==
  /\ at["loop"] = "decide"
  /\ idle' = IF sensed.motion THEN 0 ELSE Later
  /\ IF workMode = "automatic" /\ (SwitchOn \/ SwitchOff(idle'))
     THEN goal' = [goal EXCEPT !["loop"] = SwitchOn] /\ Goto("loop", "pin")
     ELSE Goto("loop", "rest") /\ UNCHANGED goal
  /\ UNCHANGED <<up, pin, isOn, workMode, stored, pzem, copy, world,
                 sensed, command, history>>

-----------------------------------------------------------------------------
(* mqtt_command_callback, for a command that decrypts.                      *)

Receive(c) ==
  /\ Start("callback")
  /\ command' = c
  /\ goal' = [goal EXCEPT !["callback"] =
                CASE c = "relay_on" -> TRUE
                  [] c = "relay_toggle" -> ~isOn
                  [] OTHER -> FALSE]
  /\ Goto("callback", IF c \in RelayCommands THEN "pin" ELSE "mode")
  /\ wanted' = IF c = "mode_manual" THEN wanted ELSE "any"
  /\ UNCHANGED <<up, pin, isOn, workMode, stored, pzem, idle, copy, world,
                 sensed, stray, crossed>>

\* Mutant of NewMode: a relay command leaves the mode as it is.
NewModeAsked ==
  CASE command = "mode_auto" -> "automatic"
    [] command = "mode_manual" -> "manual"
    [] OTHER -> workMode

\* A relay command forces the manual mode.
NewMode == IF command = "mode_auto" THEN "automatic" ELSE "manual"

SetMode ==
  /\ at["callback"] = "mode"
  /\ workMode' = NewMode
  /\ stray' = IF workMode = "manual" /\ NewMode = "manual" THEN stray ELSE 0
  /\ Goto("callback", "saveMode")
  /\ UNCHANGED <<up, pin, isOn, stored, pzem, idle, goal, copy, world,
                 sensed, command, wanted, overlapped, crossed>>

\* Mutant of SaveMode: the mode is not saved.
SaveModeNot ==
  /\ at["callback"] = "saveMode"
  /\ Goto("callback", "ack")
  /\ UNCHANGED <<up, pin, isOn, workMode, stored, pzem, idle, goal, copy, world,
                 sensed, command, history>>

SaveMode ==
  /\ at["callback"] = "saveMode"
  /\ nvsMode' = NewMode
  /\ Goto("callback", "ack")
  /\ UNCHANGED <<up, pin, isOn, workMode, nvsRelay, pzem, idle, goal,
                 copy, world, sensed, command, history>>

Ack ==
  /\ at["callback"] = "ack"
  /\ wanted' = IF command \notin RelayCommands THEN wanted
               ELSE IF goal["callback"] THEN "on" ELSE "off"
  /\ Goto("callback", "rest")
  /\ UNCHANGED <<up, pin, isOn, workMode, stored, pzem, idle, goal, copy,
                 world, sensed, command, stray, overlapped, crossed>>

-----------------------------------------------------------------------------
(* Power.                                                                   *)

\* app_main up to the main loop: mode and relay come back from flash.
Boot ==
  /\ ~up
  /\ up' = TRUE
  /\ pin' = nvsRelay /\ isOn' = nvsRelay /\ workMode' = nvsMode
  /\ idle' = 0 /\ pzem' \in BOOLEAN
  /\ stray' = 0 /\ crossed' = FALSE
  /\ UNCHANGED <<stored, at, goal, copy, world, sensed, command, wanted, overlapped>>

PowerCut ==
  /\ up
  /\ up' = FALSE /\ pin' = FALSE /\ isOn' = FALSE
  /\ at' = [t \in Tasks |-> "rest"]
  /\ goal' = [t \in Tasks |-> FALSE] /\ copy' = [t \in Tasks |-> FALSE]
  /\ UNCHANGED <<workMode, stored, pzem, idle, sensed, command, history,
                 world>>

\* People and appliances do as they like.
World ==
  /\ motion' \in BOOLEAN /\ light' \in BOOLEAN
  /\ UNCHANGED <<up, pin, isOn, workMode, stored, pzem, idle, at, goal, copy,
                 sensed, command, history>>

LoopStep ==
  RetryPzem \/ Pause \/ Sense \/ Decide
    \/ DrivePin("loop") \/ SetState("loop") \/ ReadState("loop") \/ SaveRelay("loop")

CallbackStep ==
  SetMode \/ SaveMode \/ Ack
    \/ DrivePin("callback") \/ SetState("callback")
    \/ ReadState("callback") \/ SaveRelay("callback")

Next ==
  \/ LoopStep \/ CallbackStep \/ Boot \/ PowerCut \/ World
  \/ \E c \in Commands : Receive(c)

Spec == Init /\ [][Next]_vars

\* The scheduler runs both tasks: each sleeps or waits between its steps.
FairSpec == Spec /\ WF_vars(LoopStep) /\ WF_vars(CallbackStep)

-----------------------------------------------------------------------------
(* Properties.                                                              *)

AtRest == up /\ \A t \in Tasks : at[t] = "rest"

\* However the tasks interleave, the pin and the state in memory differ only inside
\* relay_set, or after two relay_set have crossed and until one meets no other
\* (relay.c:48-57).  Between rounds and commands the state in flash is the same too,
\* so a power cut brings the socket back as it was, as long as a round and a command
\* have never overlapped (app_main.c:162, 505, 638-652).
RelayCoherent ==
  /\ (\A t \in Tasks : at[t] # "state") /\ ~crossed => pin = isOn
  /\ AtRest /\ ~overlapped => pin = isOn /\ nvsRelay = isOn

\* What an acknowledged relay command asked for stays, power cuts included,
\* until the user says otherwise (app_main.c:505-512, 602-606, 817-818), as long
\* as a round and a command have never overlapped.
UserCommandHolds ==
  AtRest /\ ~overlapped /\ wanted # "any" => isOn = (wanted = "on") /\ workMode = "manual"

\* However a round and a command overlap, the loop switches the relay at most
\* once after the mode became manual: the next round reads the mode anew
\* (app_main.c:817-832).
StrayOnce == TypeOK /\ stray <= 1

StillRoom == up /\ pzem /\ workMode = "automatic" /\ ~motion /\ light
BusyRoom  == up /\ pzem /\ workMode = "automatic" /\ motion

\* While the mode stays automatic, a room that stays still with a low power ends up
\* switched off, and one with motion switched on, once the PZEM driver is
\* initialised and through whatever commands, overlaps and power cuts came before:
\* s_is_on in any case, the relay itself unless the last two relay_set crossed
\* (README.md:183-184, app_main.c:788-832, relay.c:48-52).
AutoControlActs ==
  /\ <>[]StillRoom => <>[](~isOn /\ (~crossed => ~pin))
  /\ <>[]BusyRoom => <>[](isOn /\ (~crossed => pin))

Socket == INSTANCE SwitchedSocket WITH
  power <- up, relay <- nvsRelay, mode <- nvsMode, promised <- wanted,
  asked <- at["callback"] # "rest" /\ command \in RelayCommands

\* Until a round and a command overlap, the steps of both tasks amount to a relay
\* with a memory: it is switched on a command or while flash says automatic, flash
\* follows the pin and gives it back at boot, the mode is saved after the relay,
\* and a command is acknowledged when it is done, saved and safe from automatic
\* control, wherever the power goes (app_main.c:490-570, 600-676, 817-837;
\* relay.c:43-57).
ImplementsSocket == Socket!Spec
=============================================================================
