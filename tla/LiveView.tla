------------------------------ MODULE LiveView ------------------------------
(***************************************************************************)
(* One smart socket as one browser tab shows and controls it.                *)
(*                                                                          *)
(* Two paths lead from the device to the page: each relay or connectivity    *)
(* message goes through the worker, the gateway and the WebSocket, and every  *)
(* 10 s the page asks the API for what the registry holds.  Two paths lead   *)
(* back, one for relay commands and one for mode commands; the API publishes  *)
(* a command, waits for the broker and then patches the registry.  The page   *)
(* keeps a copy of the device (useDevice) and, beside it, the relay and the   *)
(* mode it shows (DeviceDetailPage), which it also changes by itself.         *)
(*                                                                          *)
(* The device is taken as RelayControl leaves it and the registry as one      *)
(* atomic file: their own races are in RelayControl and DeviceRegistry.       *)
(***************************************************************************)
EXTENDS Integers, Sequences

CONSTANTS
  MaxClicks,  \* bound: presses of a button
  MaxAuto,    \* bound: times automatic control switches the relay
  MaxGets,    \* bound: refreshes under way at a time
  Faults,     \* the faults that may happen, one in a behaviour
  None        \* no value yet: null, or a request that is not under way

ASSUME FaultsAssumption == Faults \subseteq {"lost", "crash", "failed", "drop"}

VARIABLES
  relay, mode,  \* the device
  commands,   \* published commands on their way to the device
  statuses,   \* messages of the device on their way to the worker
  registry,   \* relay and mode in the registry file
  feed,       \* messages of the worker on their way to the gateway
  requests,   \* presses on their way to the API
  unacked,    \* commands the API published, until the broker confirms
  answers,    \* answers of the API on their way to the page
  gets,       \* the refreshes under way, by slot
  copy,       \* device of useDevice
  failed,     \* error of useDevice: the page shows that the device is missing
  seen,       \* the relay at the last run of the page's effect
  relayShown, autoShown,  \* relayOn and isAuto of the page
  sending, patching,      \* the press a button waits for, 0 if none
  clicks, autos,   \* counts for the bounds
  history     \* what happened: faults, "overtaken", "overlap"; "told" once the
              \* device has executed a command, or if it began in the registry's mode

device   == <<relay, mode>>
wires    == <<commands, statuses, feed>>
api      == <<registry, requests, unacked, answers>>
hook     == <<gets, copy, failed>>
page     == <<seen, relayShown, autoShown, sending, patching>>
counts   == <<clicks, autos>>
vars     == <<device, wires, api, hook, page, counts, history>>

Slots   == 1 .. MaxGets
Relays  == {"ON", "OFF"}
Happens(f) == f \in Faults /\ history \intersect Faults = {} /\ history' = history \union {f}

ASSUME LiveViewAssumption ==
  MaxClicks \in Nat /\ None \notin Relays \union [relay : Relays, mode : {"auto", "manual"}]

\* The device has started, with its relay off, and the page is opened.  The modes
\* may differ: the first boot is AUTOMATIC (app_main.c:604) and the gate registers
\* a new device as manual (discovery.js:30).
Init ==
  /\ relay = "OFF" /\ mode \in {"auto", "manual"}
  /\ commands = <<>> /\ statuses = <<>> /\ feed = <<>>
  /\ registry \in [relay : {relay}, mode : {mode, "manual"}]
  /\ requests = {} /\ unacked = <<>> /\ answers = {}
  /\ gets = [i \in Slots |-> None] /\ copy = None /\ failed = FALSE
  /\ seen = None /\ relayShown = "OFF" /\ autoShown = FALSE
  /\ sending = 0 /\ patching = 0 /\ clicks = 0 /\ autos = 0
  /\ history = IF registry.mode = mode THEN {"told"} ELSE {}

-----------------------------------------------------------------------------
(* The device.                                                              *)

Opposite(r) == IF r = "ON" THEN "OFF" ELSE "ON"

\* Automatic control switches the relay and reports it.
AutoSwitch ==
  /\ mode = "auto" /\ autos < MaxAuto
  /\ relay' = Opposite(relay) /\ statuses' = Append(statuses, relay')
  /\ autos' = autos + 1
  /\ UNCHANGED <<mode, commands, feed, api, hook, page, clicks, history>>

\* A relay command sets the relay and makes the mode manual.
Execute ==
  /\ commands # <<>>
  /\ relay' = IF Head(commands) \in Relays THEN Head(commands) ELSE relay
  /\ mode'  = IF Head(commands) = "auto" THEN "auto" ELSE "manual"
  /\ commands' = Tail(commands)
  /\ statuses' = Append(statuses, relay')
  /\ history' = history \union {"told"}
  /\ UNCHANGED <<feed, api, hook, page, counts>>

\* A command the worker or the network does not bring to the device.
LoseCommand ==
  /\ commands # <<>> /\ Happens("lost")
  /\ commands' = Tail(commands)
  /\ UNCHANGED <<device, statuses, feed, api, hook, page, counts>>

-----------------------------------------------------------------------------
(* Worker, gateway and socket.                                              *)

\* relayHandler: the registry takes the relay, the gateway is told.
WorkerReceives ==
  /\ statuses # <<>> /\ statuses' = Tail(statuses)
  /\ registry' = [registry EXCEPT !.relay = Head(statuses)]
  /\ feed' = Append(feed, Head(statuses))
  /\ UNCHANGED <<device, commands, requests, unacked, answers, hook, page, counts, history>>

\* setDevice; the render before may not have run its effect yet.
Keep(c) ==
  /\ copy' = c
  /\ history' = IF copy # None /\ seen # copy.relay THEN history \union {"missed"} ELSE history

\* The gateway sends to the socket of the page; the hook patches its copy.
Forward ==
  /\ feed # <<>> /\ feed' = Tail(feed) /\ copy # None
  /\ Keep([copy EXCEPT !.relay = Head(feed)])
  /\ UNCHANGED <<device, commands, statuses, api, gets, failed, page, counts>>

\* No socket is open, or the hook has no copy to patch.
Unheard ==
  /\ feed # <<>> /\ feed' = Tail(feed)
  /\ "drop" \in Faults \/ copy = None
  /\ history' = history \union {"missed"}
  /\ UNCHANGED <<device, commands, statuses, api, hook, page, counts>>

-----------------------------------------------------------------------------
(* Refreshes: the first fetch, which is not silent, and one every 10 s.     *)

First == copy = None /\ ~failed /\ \A i \in Slots : gets[i] = None

\* getDevice reads the registry at once, then waits for the time series database.
AskDevice(i) ==
  /\ gets[i] = None
  /\ gets' = [gets EXCEPT ![i] = [silent |-> ~First, device |-> registry]]
  /\ UNCHANGED <<device, wires, api, copy, failed, page, counts, history>>

\* Mutant of KeepAnswer: a refresh in the background keeps nothing.
KeepAnswerOfFirst(g) == IF g.silent THEN copy ELSE g.device

KeepAnswer(g) == g.device

DeviceAnswers(i) ==
  /\ gets[i] # None
  /\ Keep(KeepAnswer(gets[i])) /\ gets' = [gets EXCEPT ![i] = None]
  /\ UNCHANGED <<device, wires, api, failed, page, counts>>

GetFails(i) ==
  /\ gets[i] # None
  /\ failed' = (failed \/ ~gets[i].silent)
  /\ gets' = [gets EXCEPT ![i] = None]
  /\ UNCHANGED <<device, wires, api, copy, page, counts, history>>

-----------------------------------------------------------------------------
(* The page.                                                                *)

\* Mutant of EffectRelay: the page follows the device only at its first load.
EffectRelayOnce == IF seen = None THEN copy.relay ELSE relayShown

EffectRelay == copy.relay

\* Effects after a render: the first one on the id, the second on the relay.
Effects ==
  /\ copy # None /\ seen # copy.relay
  /\ seen' = copy.relay /\ relayShown' = EffectRelay
  /\ autoShown' = IF seen = None THEN copy.mode = "auto" ELSE autoShown
  /\ history' = IF sending > 0 THEN history \union {"overtaken"} ELSE history
  /\ UNCHANGED <<device, wires, api, hook, sending, patching, counts>>

\* The page is shown, not its spinner or its error.
Usable == /\ seen # None /\ ~failed /\ clicks < MaxClicks
          /\ \A i \in Slots : gets[i] # None => gets[i].silent

\* A press, perhaps while one of the other button is under way.  The page refuses
\* presses while it shows the device as offline; here any press may stay away.
Press(cmd, other) ==
  /\ clicks' = clicks + 1
  /\ requests' = requests \union {[n |-> clicks', cmd |-> cmd]}
  /\ history' = IF other > 0 THEN history \union {"overlap"} ELSE history

\* handleRelayToggle, up to the request.
PressRelay ==
  /\ Usable /\ sending = 0
  /\ Press(Opposite(relayShown), patching) /\ sending' = clicks'
  /\ UNCHANGED <<device, wires, registry, unacked, answers, hook, seen, relayShown,
                 autoShown, patching, autos>>

\* handleModeToggle: the page shows the new mode at once.
PressMode(m) ==
  /\ Usable /\ patching = 0
  /\ Press(m, sending) /\ patching' = clicks' /\ autoShown' = (m = "auto")
  /\ UNCHANGED <<device, wires, registry, unacked, answers, hook, seen, relayShown,
                 sending, autos>>

-----------------------------------------------------------------------------
(* The API: sendControl and sendMode.                                       *)

ApiPublishes ==
  /\ \E r \in requests :
       /\ requests' = requests \ {r}
       /\ commands' = Append(commands, r.cmd) /\ unacked' = Append(unacked, r)
  /\ UNCHANGED <<device, statuses, feed, registry, answers, hook, page, counts, history>>

\* Mutant of RegistryMode: a relay command leaves the mode in the registry.
RegistryModeOfModes(cmd) == IF cmd \in Relays THEN registry.mode ELSE cmd

RegistryMode(cmd) == IF cmd = "auto" THEN "auto" ELSE "manual"

\* The broker confirms in the order of the publishes; the handler goes on.
ApiPatches ==
  /\ unacked # <<>>
  /\ LET r == Head(unacked)
     IN /\ registry' = [registry EXCEPT !.mode = RegistryMode(r.cmd)]
        /\ answers' = IF r.n \in {sending, patching} THEN answers \union {r} ELSE answers
  /\ unacked' = Tail(unacked)
  /\ UNCHANGED <<device, wires, requests, hook, page, counts, history>>

ApiCrashes ==
  /\ requests # {} \/ unacked # <<>>
  /\ Happens("crash")
  /\ requests' = {} /\ unacked' = <<>>
  /\ UNCHANGED <<device, wires, registry, answers, hook, page, counts>>

-----------------------------------------------------------------------------
(* Answers to a press.                                                      *)

\* Mutant of ModeAfterControl: the page forgets that a relay command is manual.
ModeAfterControlKept == autoShown

ModeAfterControl == FALSE

\* handleRelayToggle goes on: the relay shown is flipped, the mode is manual.
ControlAnswers ==
  /\ \E r \in answers : r.n = sending /\ answers' = answers \ {r}
  /\ relayShown' = Opposite(relayShown) /\ autoShown' = ModeAfterControl /\ sending' = 0
  /\ UNCHANGED <<device, wires, registry, requests, unacked, hook, seen, patching, counts, history>>

ModeAnswers ==
  /\ \E r \in answers : r.n = patching /\ answers' = answers \ {r}
  /\ patching' = 0
  /\ UNCHANGED <<device, wires, registry, requests, unacked, hook, seen, relayShown,
                 autoShown, sending, counts, history>>

\* The API still works on press n.
Alive(n) ==
  \/ \E r \in requests \union answers : r.n = n
  \/ \E i \in DOMAIN unacked : unacked[i].n = n

\* An error or a timeout of 12 s: the button comes back, what is shown stays.
PressFails ==
  /\ \E n \in {sending, patching} \ {0} :
       /\ IF Alive(n) THEN Happens("failed") ELSE history' = history \union {"failed"}
       /\ answers' = {r \in answers : r.n # n}
       /\ sending' = IF sending = n THEN 0 ELSE sending
       /\ patching' = IF patching = n THEN 0 ELSE patching
  /\ UNCHANGED <<device, wires, registry, requests, unacked, hook, seen, relayShown,
                 autoShown, counts>>

-----------------------------------------------------------------------------
Next ==
  \/ AutoSwitch \/ Execute \/ LoseCommand
  \/ WorkerReceives \/ Forward \/ Unheard
  \/ \E i \in Slots : AskDevice(i) \/ DeviceAnswers(i) \/ GetFails(i)
  \/ Effects \/ PressRelay \/ \E m \in {"auto", "manual"} : PressMode(m)
  \/ ApiPublishes \/ ApiPatches \/ ApiCrashes
  \/ ControlAnswers \/ ModeAnswers \/ PressFails

\* The timer of the page fires for ever, the API answers, and the browser runs
\* the effects of a render.
Fairness == /\ \A i \in Slots : WF_vars(AskDevice(i)) /\ SF_vars(DeviceAnswers(i))
            /\ WF_vars(WorkerReceives) /\ WF_vars(Forward \/ Unheard) /\ WF_vars(Effects)

Spec == Init /\ [][Next]_vars /\ Fairness

-----------------------------------------------------------------------------
(* Properties.                                                              *)

TypeOK ==
  /\ relay \in Relays /\ mode \in {"auto", "manual"}
  /\ registry \in [relay : Relays, mode : {"auto", "manual"}]
  /\ seen \in Relays \union {None} /\ relayShown \in Relays /\ autoShown \in BOOLEAN
  /\ copy \in [relay : Relays, mode : {"auto", "manual"}] \union {None}
  /\ sending \in 0 .. MaxClicks /\ patching \in 0 .. MaxClicks
  /\ sending > 0 => sending # patching

Idle  == requests = {} /\ unacked = <<>> /\ commands = <<>>
Quiet == /\ Idle /\ statuses = <<>> /\ feed = <<>> /\ sending = 0 /\ patching = 0
         /\ \A i \in Slots : gets[i] = None
         /\ copy = registry /\ seen = copy.relay

\* When no command is lost and the API does not crash, the registry has the mode
\* of the device once all commands are through, however control and mode
\* requests overlap: both handlers patch in the order they published.  Before its
\* first command the device may have another mode than the registry.
ModeAgrees ==
  /\ TypeOK
  /\ Idle /\ "told" \in history /\ history \intersect {"lost", "crash"} = {} =>
       registry.mode = mode

\* The relay the page shows is the relay of the device, unless a command was
\* lost or failed, messages were missed, or the device reported its new relay
\* before the answer of the request: the flip of the page then goes the wrong way.
ShownRelayHolds ==
  Quiet /\ history \intersect {"lost", "failed", "missed", "overtaken"} = {} =>
    relayShown = relay

\* The mode shown is that of the registry unless a request failed or a relay
\* press and a mode press overlap: the later answer then shows the earlier mode.
ShownModeHolds ==
  Quiet /\ history \intersect {"failed", "overlap"} = {} =>
    autoShown = (registry.mode = "auto")

\* Whatever is lost or reordered on the socket and among refreshes, the copy of
\* the hook comes to be the registry for good.
CopyCatchesUp == <>[](copy = registry)
=============================================================================
