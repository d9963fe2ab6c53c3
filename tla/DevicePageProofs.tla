--------------------------- MODULE DevicePageProofs ---------------------------
(***************************************************************************)
(* Proofs about the two halves of the page of a device, which share no state: *)
(* the relay and the mode it shows (LiveView), and the chart of past readings *)
(* (TelemetryHistory), for any number of presses, refreshes and requests.     *)
(***************************************************************************)
EXTENDS LiveView, TelemetryHistory, SequenceTheorems, TLAPS

-----------------------------------------------------------------------------
(* Queues.                                                                 *)

Elements(s) == {s[i] : i \in DOMAIN s}

\* What a variable with value v holds when the writes queued for it are done.
Final(s, v) == IF s = <<>> THEN v ELSE s[Len(s)]

\* A queue that grows.
LEMMA QueueGrows ==
  ASSUME NEW S, NEW s \in Seq(S), NEW x \in S
  PROVE  /\ Append(s, x) \in Seq(S) /\ Elements(Append(s, x)) = Elements(s) \union {x}
         /\ Append(s, x) # <<>>
         /\ \A v : Final(Append(s, x), v) = x
<1>1. /\ Append(s, x) \in Seq(S) /\ Len(Append(s, x)) = Len(s) + 1 /\ Len(s) \in Nat
      /\ \A i \in 1 .. Len(s) : Append(s, x)[i] = s[i]
      /\ Append(s, x)[Len(s) + 1] = x
  OBVIOUS
<1>2. DOMAIN Append(s, x) = 1 .. Len(s) + 1 /\ DOMAIN s = 1 .. Len(s)
  BY <1>1
<1>3. Append(s, x) # <<>>
  BY <1>1
<1>4. Elements(Append(s, x)) = Elements(s) \union {x}
  BY <1>1, <1>2 DEF Elements
<1> QED  BY <1>1, <1>3, <1>4 DEF Final

\* A queue whose head is taken.
LEMMA QueueShrinks ==
  ASSUME NEW S, NEW s \in Seq(S), s # <<>>
  PROVE  /\ Head(s) \in S /\ Tail(s) \in Seq(S)
         /\ Elements(s) = {Head(s)} \union Elements(Tail(s))
         /\ \A v : Final(Tail(s), Head(s)) = Final(s, v)
<1>1. /\ Len(s) \in Nat \ {0} /\ DOMAIN s = 1 .. Len(s)
      /\ Head(s) = s[1] /\ 1 \in 1 .. Len(s) /\ Head(s) \in S
  OBVIOUS
<1>2. /\ Tail(s) \in Seq(S) /\ Len(Tail(s)) = Len(s) - 1 /\ DOMAIN Tail(s) = 1 .. Len(s) - 1
      /\ \A i \in 1 .. Len(s) - 1 : Tail(s)[i] = s[i + 1] /\ i + 1 \in 1 .. Len(s)
  BY <1>1
<1>3. Elements(s) = {Head(s)} \union Elements(Tail(s))
  <2>1. Head(s) \in Elements(s) /\ Elements(Tail(s)) \subseteq Elements(s)
    BY <1>1, <1>2 DEF Elements
  <2>2. ASSUME NEW i \in 1 .. Len(s), i # 1 PROVE s[i] \in Elements(Tail(s))
    <3>1. i - 1 \in 1 .. Len(s) - 1 /\ (i - 1) + 1 = i
      BY <1>1, <2>2
    <3> QED  BY <1>2, <3>1 DEF Elements
  <2> QED  BY <1>1, <2>1, <2>2 DEF Elements
<1>4. ASSUME NEW v PROVE Final(Tail(s), Head(s)) = Final(s, v)
  <2>1. CASE Len(s) = 1
    BY <1>1, <1>2, <2>1 DEF Final
  <2>2. CASE Len(s) > 1
    <3>1. Tail(s) # <<>> /\ Len(s) - 1 \in 1 .. Len(s) - 1 /\ (Len(s) - 1) + 1 = Len(s)
      BY <1>1, <1>2, <2>2
    <3>2. Tail(s)[Len(Tail(s))] = s[Len(s)]
      BY <1>2, <3>1
    <3> QED  BY <3>1, <3>2 DEF Final
  <2> QED  BY <1>1, <2>1, <2>2
<1> QED  BY <1>1, <1>2, <1>3, <1>4

\* The elements of a queue.
LEMMA ElementsTyped ==
  ASSUME NEW S, NEW s \in Seq(S)
  PROVE  Elements(s) \subseteq S
  BY ElementOfSeq DEF Elements

-----------------------------------------------------------------------------
(* LiveView.                                                               *)

\* Commands, the presses that send them, and the presses not answered yet.
Commands == Relays \union {"auto", "manual"}
Presses  == [n : 1 .. MaxClicks, cmd : Commands]
Outstanding == requests \union Elements(unacked) \union answers

\* What is on its way; no press before the first effect.
Ways ==
  /\ commands \in Seq(Commands) /\ statuses \in Seq(Relays) /\ feed \in Seq(Relays)
  /\ requests \subseteq Presses /\ unacked \in Seq(Presses) /\ answers \subseteq Presses
  /\ gets \in [Slots -> {None} \union
                 [silent : BOOLEAN, device : [relay : Relays, mode : {"auto", "manual"}]]]
  /\ clicks \in 0 .. MaxClicks /\ sending <= clicks /\ patching <= clicks
  /\ \A r \in Outstanding : r.n <= clicks
  /\ seen = None => clicks = 0
  /\ seen # None => copy # None

\* Types of the state and of what is on its way.
LEMMA LiveViewTyped == Spec => [](TypeOK /\ Ways)
<1>c. /\ None # "ON" /\ None # "OFF" /\ None \notin [relay : Relays, mode : {"auto", "manual"}]
      /\ Relays = {"ON", "OFF"} /\ MaxClicks \in Nat
  BY LiveViewAssumption DEF Relays
<1>1. Init => TypeOK /\ Ways
  <2> SUFFICES ASSUME Init PROVE TypeOK /\ Ways
    OBVIOUS
  <2>1. Outstanding = {}
    BY DEF Init, Outstanding, Elements
  <2>2. TypeOK
    <3>1. relay \in Relays /\ mode \in {"auto", "manual"} /\ relayShown \in Relays
      BY <1>c DEF Init
    <3>2. registry \in [relay : Relays, mode : {"auto", "manual"}]
      BY <3>1 DEF Init
    <3>3. sending \in 0 .. MaxClicks /\ patching \in 0 .. MaxClicks /\ ~(sending > 0)
      BY <1>c DEF Init
    <3> QED  BY <3>1, <3>2, <3>3 DEF Init, TypeOK
  <2>3. <<>> \in Seq(Commands) /\ <<>> \in Seq(Relays) /\ <<>> \in Seq(Presses)
    OBVIOUS
  <2>4. gets \in [Slots -> {None} \union
                 [silent : BOOLEAN, device : [relay : Relays, mode : {"auto", "manual"}]]]
    BY DEF Init
  <2>5. clicks \in 0 .. MaxClicks /\ sending <= clicks /\ patching <= clicks /\ seen = None
    BY <1>c DEF Init
  <2> QED  BY <2>1, <2>2, <2>3, <2>4, <2>5 DEF Init, Ways
<1>2. ASSUME TypeOK, Ways, [Next]_vars PROVE TypeOK' /\ Ways'
  <2> USE <1>2
  <2>1. CASE AutoSwitch
    <3>1. relay' \in Relays /\ statuses' \in Seq(Relays)
      BY <1>c, <2>1, QueueGrows DEF AutoSwitch, Opposite, Ways
    <3> QED  BY <2>1, <3>1 DEF AutoSwitch, TypeOK, Ways, Outstanding, api, hook, page
  <2>2. CASE Execute
    <3>1. relay' \in Relays /\ mode' \in {"auto", "manual"}
      BY <2>2 DEF Execute, TypeOK
    <3>2. statuses' \in Seq(Relays) /\ commands' \in Seq(Commands)
      BY <2>2, <3>1, QueueGrows, QueueShrinks DEF Execute, Ways
    <3> QED  BY <2>2, <3>1, <3>2 DEF Execute, TypeOK, Ways, Outstanding, api, hook, page,
                                  counts
  <2>3. CASE LoseCommand
    <3>1. commands' \in Seq(Commands)
      BY <2>3, QueueShrinks DEF LoseCommand, Ways
    <3> QED  BY <2>3, <3>1 DEF LoseCommand, TypeOK, Ways, Outstanding, device, api, hook,
                             page, counts
  <2>4. CASE WorkerReceives
    <3>1. /\ statuses \in Seq(Relays) /\ feed \in Seq(Relays) /\ statuses # <<>>
          /\ statuses' = Tail(statuses) /\ feed' = Append(feed, Head(statuses))
          /\ registry' = [registry EXCEPT !.relay = Head(statuses)]
      BY <2>4 DEF WorkerReceives, Ways
    <3>2. Head(statuses) \in Relays /\ statuses' \in Seq(Relays) /\ feed' \in Seq(Relays)
      BY <3>1, QueueGrows, QueueShrinks
    <3>3. registry' \in [relay : Relays, mode : {"auto", "manual"}]
      BY <3>1, <3>2 DEF TypeOK
    <3> QED  BY <2>4, <3>2, <3>3 DEF WorkerReceives, TypeOK, Ways, Outstanding, device, hook,
                                  page, counts
  <2>5. CASE Forward \/ Unheard
    <3>1. /\ feed # <<>> /\ feed' = Tail(feed)
          /\ copy' = copy \/ (copy # None /\ copy' = [copy EXCEPT !.relay = Head(feed)])
          /\ UNCHANGED <<relay, mode, commands, statuses, registry, requests, unacked, answers, gets,
                         failed, seen, relayShown, autoShown, sending, patching, clicks>>
      BY <2>5 DEF Forward, Unheard, Keep, device, api, hook, page, counts
    <3>2. Head(feed) \in Relays /\ feed' \in Seq(Relays)
      BY <3>1, QueueShrinks DEF Ways
    <3>3. copy' = copy \/ copy' \in [relay : Relays, mode : {"auto", "manual"}]
      BY <3>1, <3>2 DEF TypeOK
    <3> QED  BY <1>c, <3>1, <3>2, <3>3 DEF TypeOK, Ways, Outstanding
  <2>6. ASSUME NEW i \in Slots, AskDevice(i) PROVE TypeOK' /\ Ways'
    <3>1. [silent |-> ~First, device |-> registry] \in
            [silent : BOOLEAN, device : [relay : Relays, mode : {"auto", "manual"}]]
      BY DEF TypeOK, First
    <3>2. /\ gets' = [gets EXCEPT ![i] = [silent |-> ~First, device |-> registry]]
          /\ UNCHANGED <<relay, mode, commands, statuses, feed, registry, requests, unacked, answers,
                         copy, seen, relayShown, autoShown, sending, patching, clicks>>
      BY <2>6 DEF AskDevice, device, wires, api, page, counts
    <3> HIDE DEF First
    <3> QED  BY <3>1, <3>2 DEF TypeOK, Ways, Outstanding
  <2>7. ASSUME NEW i \in Slots, DeviceAnswers(i) \/ GetFails(i) PROVE TypeOK' /\ Ways'
    <3>1. /\ gets[i] # None /\ gets' = [gets EXCEPT ![i] = None]
          /\ copy' = copy \/ copy' = gets[i].device
          /\ UNCHANGED <<relay, mode, commands, statuses, feed, registry, requests, unacked, answers,
                         seen, relayShown, autoShown, sending, patching, clicks>>
      BY <2>7 DEF DeviceAnswers, GetFails, Keep, KeepAnswer, device, wires, api, page,
                  counts
    <3>2. copy' = copy \/ copy' \in [relay : Relays, mode : {"auto", "manual"}]
      BY <3>1 DEF Ways
    <3> QED  BY <1>c, <3>1, <3>2 DEF TypeOK, Ways, Outstanding
  <2>8. CASE Effects
    <3>1. /\ copy # None /\ seen' = copy.relay /\ relayShown' = copy.relay
          /\ autoShown' \in {autoShown, copy.mode = "auto"}
          /\ UNCHANGED <<relay, mode, commands, statuses, feed, registry, requests, unacked, answers,
                         gets, copy, failed, sending, patching, clicks>>
      BY <2>8 DEF Effects, EffectRelay, device, wires, api, hook, counts
    <3>2. copy.relay \in Relays
      BY <3>1 DEF TypeOK
    <3>3. autoShown' \in BOOLEAN
      BY <3>1 DEF TypeOK
    <3>4. seen' # None /\ copy' # None
      BY <1>c, <3>1, <3>2
    <3> QED  BY <3>1, <3>2, <3>3, <3>4 DEF TypeOK, Ways, Outstanding
  <2>9. ASSUME NEW cmd \in Commands, Press(cmd, sending) \/ Press(cmd, patching),
               sending' \in {sending, clicks'}, patching' \in {patching, clicks'},
               sending' = sending \/ patching' = patching,
               autoShown' \in BOOLEAN, Usable,
               UNCHANGED <<device, wires, registry, unacked, answers, hook, seen, relayShown>>
        PROVE  TypeOK' /\ Ways'
    <3>1. /\ seen # None /\ clicks < MaxClicks /\ clicks' = clicks + 1
          /\ requests' = requests \union {[n |-> clicks + 1, cmd |-> cmd]}
          /\ UNCHANGED <<relay, mode, commands, statuses, feed, registry, unacked, answers, gets, copy,
                         failed, seen, relayShown>>
      BY <2>9 DEF Usable, Press, device, wires, hook
    <3>2. clicks \in Nat /\ clicks' \in 1 .. MaxClicks /\ clicks <= clicks'
      BY <1>c, <3>1 DEF Ways
    <3>3. [n |-> clicks + 1, cmd |-> cmd] \in Presses
      BY <2>9, <3>1, <3>2 DEF Presses
    <3>4. /\ Outstanding' = Outstanding \union {[n |-> clicks + 1, cmd |-> cmd]}
      BY <3>1 DEF Outstanding, Elements
    <3>5. \A r \in Outstanding' : r.n <= clicks'
      <4>1. Outstanding \subseteq Presses
        BY ElementsTyped DEF Outstanding, Ways
      <4> QED  BY <3>1, <3>2, <3>4, <4>1 DEF Ways, Presses
    <3>6. TypeOK'
      <4>1. /\ sending \in 0 .. MaxClicks /\ patching \in 0 .. MaxClicks
            /\ sending < clicks' /\ patching < clicks' /\ (sending > 0 => sending # patching)
        BY <3>1, <3>2 DEF TypeOK, Ways
      <4>2. sending' \in 0 .. MaxClicks /\ patching' \in 0 .. MaxClicks
        BY <2>9, <3>2, <4>1
      <4>3. sending' > 0 => sending' # patching'
        <5>1. CASE sending' = sending /\ patching' = clicks'
          BY <3>2, <4>1, <5>1
        <5>2. CASE patching' = patching /\ sending' = clicks'
          BY <3>2, <4>1, <5>2
        <5>3. CASE patching' = patching /\ sending' = sending
          BY <4>1, <5>3
        <5> QED  BY <2>9, <5>1, <5>2, <5>3
      <4> QED  BY <2>9, <3>1, <4>2, <4>3 DEF TypeOK
    <3>7. sending' <= clicks' /\ patching' <= clicks'
      BY <2>9, <3>1, <3>2 DEF Ways, TypeOK
    <3> QED  BY <3>1, <3>2, <3>3, <3>5, <3>6, <3>7 DEF Ways
  <2>10. CASE PressRelay
    <3>1. Opposite(relayShown) \in Commands
      BY DEF Opposite, Commands, Relays
    <3> QED  BY <2>9, <2>10, <3>1 DEF PressRelay, TypeOK
  <2>11. ASSUME NEW m \in {"auto", "manual"}, PressMode(m) PROVE TypeOK' /\ Ways'
    <3>1. m \in Commands
      BY DEF Commands
    <3> QED  BY <2>9, <2>11, <3>1 DEF PressMode
  <2>12. CASE ApiPublishes
    <3>1. PICK r \in requests : /\ requests' = requests \ {r}
                                /\ commands' = Append(commands, r.cmd) /\ unacked' = Append(unacked, r)
      BY <2>12 DEF ApiPublishes
    <3>2. r \in Presses /\ r.cmd \in Commands
      BY DEF Ways, Presses
    <3>3. commands' \in Seq(Commands)
      BY <3>1, <3>2, QueueGrows DEF Ways
    <3>4. unacked' \in Seq(Presses) /\ Elements(unacked') = Elements(unacked) \union {r}
      BY <3>1, <3>2, QueueGrows DEF Ways
    <3>5. Outstanding' \subseteq Outstanding
      BY <2>12, <3>1, <3>4 DEF Outstanding, ApiPublishes
    <3> QED  BY <2>12, <3>1, <3>3, <3>4, <3>5 DEF ApiPublishes, TypeOK, Ways, device, hook,
                                               page, counts
  <2>13. CASE ApiPatches
    <3>1. /\ Head(unacked) \in Presses /\ unacked' \in Seq(Presses)
          /\ Elements(unacked) = {Head(unacked)} \union Elements(unacked')
      BY <2>13, QueueShrinks DEF ApiPatches, Ways
    <3>2. /\ answers' \subseteq answers \union {Head(unacked)}
          /\ registry' = [registry EXCEPT !.mode = RegistryMode(Head(unacked).cmd)]
          /\ UNCHANGED <<device, wires, requests, hook, page, counts>>
      BY <2>13 DEF ApiPatches
    <3>3. registry' \in [relay : Relays, mode : {"auto", "manual"}]
      BY <3>2 DEF TypeOK, RegistryMode
    <3>4. Outstanding' \subseteq Outstanding
      BY <3>1, <3>2 DEF Outstanding
    <3> QED  BY <3>1, <3>2, <3>3, <3>4 DEF TypeOK, Ways, device, wires, hook, page, counts
  <2>14. CASE ApiCrashes
    <3>1. Outstanding' \subseteq Outstanding
      BY <2>14 DEF ApiCrashes, Outstanding, Elements
    <3> QED  BY <2>14, <3>1 DEF ApiCrashes, TypeOK, Ways, device, wires, hook, page, counts
  <2>15. CASE ControlAnswers \/ ModeAnswers \/ PressFails
    <3>1. /\ answers' \subseteq answers /\ sending' \in {sending, 0} /\ patching' \in {patching, 0}
          /\ relayShown' \in {relayShown, Opposite(relayShown)} /\ autoShown' \in {autoShown, FALSE}
          /\ UNCHANGED <<relay, mode, commands, statuses, feed, registry, requests, unacked, gets, copy,
                         failed, seen, clicks>>
      BY <2>15 DEF ControlAnswers, ModeAnswers, PressFails, ModeAfterControl, device, wires,
                   hook, counts
    <3>2. Outstanding' \subseteq Outstanding
      BY <3>1 DEF Outstanding, Elements
    <3>3. relayShown' \in Relays /\ autoShown' \in BOOLEAN
      BY <3>1, <1>c DEF TypeOK, Opposite
    <3>4. /\ sending' \in 0 .. MaxClicks /\ patching' \in 0 .. MaxClicks
          /\ sending' > 0 => sending' # patching'
          /\ sending' <= clicks /\ patching' <= clicks
      <4>1. /\ sending \in 0 .. MaxClicks /\ patching \in 0 .. MaxClicks /\ clicks \in Nat
            /\ sending <= clicks /\ patching <= clicks /\ (sending > 0 => sending # patching)
            /\ 0 \in 0 .. MaxClicks /\ 0 <= clicks
        BY <1>c DEF TypeOK, Ways
      <4> QED  BY <3>1, <4>1
    <3> QED  BY <3>1, <3>2, <3>3, <3>4 DEF TypeOK, Ways
  <2>16. CASE UNCHANGED vars
    BY <2>16 DEF vars, TypeOK, Ways, Outstanding, device, wires, api, hook, page, counts
  <2> QED  BY <2>1, <2>2, <2>3, <2>4, <2>5, <2>6, <2>7, <2>8, <2>10, <2>11, <2>12, <2>13, <2>14,
              <2>15, <2>16 DEF Next
<1> QED  BY <1>1, <1>2, PTL DEF Spec

\* What happened is not forgotten.
LEMMA HistoryGrows ==
  ASSUME [Next]_vars
  PROVE  history \subseteq history'
  BY DEF Next, vars, AutoSwitch, Execute, LoseCommand, WorkerReceives, Forward, Unheard,
         AskDevice, DeviceAnswers, GetFails, Effects, PressRelay, PressMode, ApiPublishes,
         ApiPatches, ApiCrashes, ControlAnswers, ModeAnswers, PressFails, Happens, Keep,
         Press

\* Only a command the device executes makes it told.
LEMMA ToldByCommand ==
  ASSUME [Next]_vars, "told" \in history', "told" \notin history
  PROVE  Execute
  BY DEF Next, vars, AutoSwitch, Execute, LoseCommand, WorkerReceives, Forward, Unheard,
         AskDevice, DeviceAnswers, GetFails, Effects, PressRelay, PressMode, ApiPublishes,
         ApiPatches, ApiCrashes, ControlAnswers, ModeAnswers, PressFails, Happens, Keep,
         Press

\* The last command the API published sets the mode of both the registry and the
\* device.
Agreed ==
    (IF unacked = <<>> THEN registry.mode ELSE RegistryMode(Final(unacked, unacked).cmd)) =
    (IF commands = <<>> THEN mode ELSE RegistryMode(Final(commands, commands)))

\* While no command is lost and no API crashes they agree so, unless none was
\* published yet.
LastCommand ==
  history \intersect {"lost", "crash"} = {} =>
    Agreed \/ (commands = <<>> /\ unacked = <<>> /\ "told" \notin history)

\* It is kept: a publish adds its command to both queues, and what leaves a queue
\* takes effect at once.
LEMMA LastCommandInvariant == Spec => []LastCommand
<1>1. Init => LastCommand
  BY DEF Init, LastCommand, Agreed
<1>2. ASSUME TypeOK, Ways, LastCommand, [Next]_vars PROVE LastCommand'
  <2> USE <1>2
  <2> SUFFICES ASSUME history' \intersect {"lost", "crash"} = {} PROVE LastCommand'
    BY DEF LastCommand
  <2>0. Agreed \/ (commands = <<>> /\ unacked = <<>> /\ "told" \notin history)
    BY HistoryGrows DEF LastCommand
  <2>1. CASE UNCHANGED <<unacked, commands, mode>> /\ registry'.mode = registry.mode
    <3>1. CASE Agreed
      BY <2>1, <3>1 DEF LastCommand, Agreed
    <3>2. CASE commands = <<>> /\ unacked = <<>> /\ "told" \notin history
      <4>1. "told" \notin history' \/ Execute
        BY <3>2, ToldByCommand
      <4> QED  BY <2>1, <3>2, <4>1 DEF Execute, LastCommand
    <3> QED  BY <2>0, <3>1, <3>2
  <2>2. CASE Execute
    <3>1. /\ commands # <<>> /\ commands' = Tail(commands) /\ UNCHANGED <<unacked, registry>>
          /\ mode' = RegistryMode(Head(commands))
      BY <2>2 DEF Execute, RegistryMode, api
    <3>2. Final(Tail(commands), Head(commands)) = Final(commands, commands)
      BY <3>1, QueueShrinks DEF Ways
    <3>3. RegistryMode(Final(commands, commands)) =
            IF commands' = <<>> THEN mode' ELSE RegistryMode(Final(commands', commands'))
      BY <3>1, <3>2 DEF Final
    <3> QED  BY <2>0, <3>1, <3>3 DEF LastCommand, Agreed
  <2>3. CASE LoseCommand \/ ApiCrashes
    BY <2>3 DEF LoseCommand, ApiCrashes, Happens
  <2>4. CASE ApiPublishes
    <3>1. PICK r \in requests : /\ commands' = Append(commands, r.cmd)
                                /\ unacked' = Append(unacked, r)
      BY <2>4 DEF ApiPublishes
    <3>2. r \in Presses /\ r.cmd \in Commands
      BY DEF Ways, Presses
    <3>3. commands' # <<>> /\ Final(commands', commands') = r.cmd
      <4>1. commands \in Seq(Commands)
        BY DEF Ways
      <4> QED  BY <3>1, <3>2, <4>1, QueueGrows
    <3>4. unacked' # <<>> /\ Final(unacked', unacked') = r
      <4>1. unacked \in Seq(Presses)
        BY DEF Ways
      <4> QED  BY <3>1, <3>2, <4>1, QueueGrows
    <3> QED  BY <3>3, <3>4 DEF LastCommand, Agreed
  <2>5. CASE ApiPatches
    <3>1. /\ unacked # <<>> /\ unacked' = Tail(unacked) /\ UNCHANGED <<commands, mode>>
          /\ registry' = [registry EXCEPT !.mode = RegistryMode(Head(unacked).cmd)]
      BY <2>5 DEF ApiPatches, wires, device
    <3>2. registry'.mode = RegistryMode(Head(unacked).cmd)
      BY <3>1 DEF TypeOK
    <3>3. Final(Tail(unacked), Head(unacked)) = Final(unacked, unacked)
      BY <3>1, QueueShrinks DEF Ways
    <3>4. RegistryMode(Final(unacked, unacked).cmd) =
            IF unacked' = <<>> THEN registry'.mode ELSE RegistryMode(Final(unacked', unacked').cmd)
      BY <3>1, <3>2, <3>3 DEF Final
    <3> QED  BY <2>0, <3>1, <3>4 DEF LastCommand, Agreed
  <2>6. CASE WorkerReceives
    <3>1. registry'.mode = registry.mode
      BY <2>6 DEF WorkerReceives, TypeOK
    <3> QED  BY <2>1, <2>6, <3>1 DEF WorkerReceives, device
  <2>7. CASE AutoSwitch \/ Forward \/ Unheard \/ Effects \/ PressRelay
    BY <2>1, <2>7 DEF AutoSwitch, Forward, Unheard, Effects, PressRelay, device, wires, api
  <2>8. ASSUME NEW i \in Slots, AskDevice(i) \/ DeviceAnswers(i) \/ GetFails(i)
        PROVE  LastCommand'
    BY <2>1, <2>8 DEF AskDevice, DeviceAnswers, GetFails, device, wires, api
  <2>9. ASSUME NEW m \in {"auto", "manual"}, PressMode(m) PROVE LastCommand'
    BY <2>1, <2>9 DEF PressMode, device, wires
  <2>10. CASE ControlAnswers \/ ModeAnswers \/ PressFails
    BY <2>1, <2>10 DEF ControlAnswers, ModeAnswers, PressFails, device, wires
  <2>11. CASE UNCHANGED vars
    BY <2>1, <2>11 DEF vars, device, wires, api
  <2> QED  BY <2>2, <2>3, <2>4, <2>5, <2>6, <2>7, <2>8, <2>9, <2>10, <2>11 DEF Next
<1> QED  BY <1>1, <1>2, LiveViewTyped, PTL DEF Spec

\* For any number of presses of both buttons, however their requests and the
\* confirmations of the broker interleave: once all commands are through, the
\* registry has the mode of the device, if no command was lost and the API did not
\* crash and the device has had a command or began in that mode
\* (commandService.js:2-40, app_main.c:490-525).
THEOREM ModesAgree == Spec => []ModeAgrees
<1>1. TypeOK /\ LastCommand => ModeAgrees
  BY DEF LastCommand, Agreed, ModeAgrees, Idle
<1> QED  BY <1>1, LiveViewTyped, LastCommandInvariant, PTL

\* Each change of the relay is reported, and the last report reaches the registry.
LastReport == Final(statuses, registry.relay) = relay

\* It is kept: reports come in order, and only reports set the relay in the registry.
LEMMA LastReportInvariant == Spec => []LastReport
<1>1. Init => LastReport
  BY DEF Init, LastReport, Final
<1>2. ASSUME TypeOK, Ways, LastReport, [Next]_vars PROVE LastReport'
  <2> USE <1>2
  <2>1. CASE UNCHANGED <<statuses, relay>> /\ registry'.relay = registry.relay
    BY <2>1 DEF LastReport, Final
  <2>2. CASE AutoSwitch \/ Execute
    <3>1. statuses' = Append(statuses, relay') /\ relay' \in Relays
      BY <2>2 DEF AutoSwitch, Execute, Opposite, TypeOK, Relays
    <3> QED  BY <3>1, QueueGrows DEF Ways, LastReport
  <2>3. CASE WorkerReceives
    <3>1. /\ statuses # <<>> /\ statuses' = Tail(statuses) /\ relay' = relay
          /\ registry'.relay = Head(statuses)
      BY <2>3 DEF WorkerReceives, device, TypeOK
    <3> QED  BY <3>1, QueueShrinks DEF Ways, LastReport
  <2>4. CASE ApiPatches
    <3>1. registry'.relay = registry.relay
      BY <2>4 DEF ApiPatches, TypeOK
    <3> QED  BY <2>1, <2>4, <3>1 DEF ApiPatches, device, wires
  <2>5. CASE LoseCommand \/ Forward \/ Unheard \/ Effects \/ PressRelay
    BY <2>1, <2>5 DEF LoseCommand, Forward, Unheard, Effects, PressRelay, device, wires, api
  <2>6. ASSUME NEW i \in Slots, AskDevice(i) \/ DeviceAnswers(i) \/ GetFails(i)
        PROVE  LastReport'
    BY <2>1, <2>6 DEF AskDevice, DeviceAnswers, GetFails, device, wires, api
  <2>7. ASSUME NEW m \in {"auto", "manual"}, PressMode(m) PROVE LastReport'
    BY <2>1, <2>7 DEF PressMode, device, wires
  <2>8. CASE ApiPublishes \/ ApiCrashes \/ ControlAnswers \/ ModeAnswers \/ PressFails
    BY <2>1, <2>8 DEF ApiPublishes, ApiCrashes, ControlAnswers, ModeAnswers, PressFails,
                      device, wires
  <2>9. CASE UNCHANGED vars
    BY <2>1, <2>9 DEF vars, device, wires, api
  <2> QED  BY <2>2, <2>3, <2>4, <2>5, <2>6, <2>7, <2>8, <2>9 DEF Next
<1> QED  BY <1>1, <1>2, LiveViewTyped, PTL DEF Spec

\* No press comes before the page has shown the device.
LEMMA NoPressYet ==
  ASSUME TypeOK, Ways, seen = None
  PROVE  sending = 0 /\ patching = 0 /\ requests = {} /\ unacked = <<>> /\ answers = {}
<1>1. clicks = 0 /\ sending = 0 /\ patching = 0
  BY DEF TypeOK, Ways
<1>2. Outstanding \subseteq Presses
  BY ElementsTyped DEF Ways, Outstanding
<1>3. Outstanding = {}
  BY <1>1, <1>2 DEF Ways, Presses
<1>4. unacked # <<>> => Head(unacked) \in Elements(unacked)
  BY QueueShrinks DEF Ways
<1> QED  BY <1>1, <1>3, <1>4 DEF Outstanding

\* Where the request of press n with command c is; an answered one is in the registry.
At(n, c) ==
  LET r == [n |-> n, cmd |-> c]
  IN  \/ requests = {} /\ unacked = <<>> /\ answers = {}
      \/ requests = {r} /\ unacked = <<>> /\ answers = {}
      \/ requests = {} /\ unacked = <<r>> /\ answers = {}
      \/ requests = {} /\ unacked = <<>> /\ answers = {r} /\ registry.mode = RegistryMode(c)

\* The mode the page shows.  Until its first effect every copy has the mode of the
\* registry; from then on, while no press failed and none began beside another, it
\* is what the registry holds when the one press under way is through.
ModeShown ==
  /\ seen = None =>
       /\ copy # None => copy.mode = registry.mode
       /\ \A i \in Slots : gets[i] # None => gets[i].device.mode = registry.mode
  /\ seen # None /\ history \intersect {"failed", "overlap"} = {} =>
       \/ /\ sending = 0 /\ patching = 0 /\ requests = {} /\ unacked = <<>> /\ answers = {}
          /\ autoShown = (registry.mode = "auto")
       \/ sending # 0 /\ patching = 0 /\ \E c \in Relays : At(sending, c)
       \/ sending = 0 /\ patching # 0 /\ At(patching, IF autoShown THEN "auto" ELSE "manual")

\* It is kept: a press without another beside it is alone on its way to the API.
LEMMA ModeShownInvariant == Spec => []ModeShown
<1> DEFINE Good == history \intersect {"failed", "overlap"} = {}
           AtRest == /\ sending = 0 /\ patching = 0 /\ requests = {} /\ unacked = <<>> /\ answers = {}
                     /\ autoShown = (registry.mode = "auto")
           OneRelay == sending # 0 /\ patching = 0 /\ \E c \in Relays : At(sending, c)
           Shown == IF autoShown THEN "auto" ELSE "manual"
           OneMode  == sending = 0 /\ patching # 0 /\ At(patching, Shown)
<1>c. Relays = {"ON", "OFF"} /\ None \notin Relays
  BY LiveViewAssumption DEF Relays
<1>1. Init => ModeShown
  BY DEF Init, ModeShown
<1>2. ASSUME TypeOK, TypeOK', Ways, ModeShown, [Next]_vars PROVE ModeShown'
  <2> USE <1>2
  <2>0. Good' => Good
    BY HistoryGrows
  <2>1. CASE /\ UNCHANGED <<seen, requests, unacked, answers, sending, patching, autoShown>>
             /\ registry'.mode = registry.mode
             /\ seen = None => /\ copy' # None => copy'.mode = registry.mode
                               /\ \A i \in Slots : gets'[i] # None => gets'[i].device.mode = registry.mode
    BY <2>0, <2>1 DEF ModeShown, At
  <2>2. CASE AutoSwitch \/ Execute \/ LoseCommand \/ Unheard
    BY <2>1, <2>2 DEF AutoSwitch, Execute, LoseCommand, Unheard, api, hook, page, ModeShown
  <2>3. CASE WorkerReceives
    <3>1. registry'.mode = registry.mode
      BY <2>3 DEF WorkerReceives, TypeOK
    <3> QED  BY <2>1, <2>3, <3>1 DEF WorkerReceives, hook, page, ModeShown
  <2>4. CASE Forward
    <3>1. /\ copy # None /\ copy' = [copy EXCEPT !.relay = Head(feed)]
          /\ UNCHANGED <<registry, gets, seen, requests, unacked, answers, sending, patching, autoShown>>
      BY <2>4 DEF Forward, Keep, api, page
    <3>2. copy'.mode = copy.mode
      BY <3>1 DEF TypeOK
    <3> QED  BY <2>1, <3>1, <3>2 DEF ModeShown
  <2>5. ASSUME NEW i \in Slots, AskDevice(i) PROVE ModeShown'
    <3>1. /\ gets' = [gets EXCEPT ![i] = [silent |-> ~First, device |-> registry]]
          /\ UNCHANGED <<registry, copy, seen, requests, unacked, answers, sending, patching, autoShown>>
      BY <2>5 DEF AskDevice, api, page
    <3>2. \A j \in Slots : gets'[j] = gets[j] \/ gets'[j].device = registry
      BY <3>1 DEF Ways
    <3> QED  BY <2>1, <3>1, <3>2 DEF ModeShown
  <2>6. ASSUME NEW i \in Slots, DeviceAnswers(i) \/ GetFails(i) PROVE ModeShown'
    <3>1. /\ gets[i] # None /\ gets' = [gets EXCEPT ![i] = None]
          /\ copy' = copy \/ copy' = gets[i].device
          /\ UNCHANGED <<registry, seen, requests, unacked, answers, sending, patching, autoShown>>
      BY <2>6 DEF DeviceAnswers, GetFails, Keep, KeepAnswer, api, page
    <3>2. \A j \in Slots : gets'[j] = gets[j] \/ gets'[j] = None
      BY <3>1 DEF Ways
    <3> QED  BY <2>1, <3>1, <3>2 DEF ModeShown
  <2>7. CASE Effects
    <3>1. /\ copy # None /\ seen' = copy.relay
          /\ autoShown' = IF seen = None THEN copy.mode = "auto" ELSE autoShown
          /\ UNCHANGED <<registry, requests, unacked, answers, sending, patching>>
      BY <2>7 DEF Effects, api
    <3>2. seen' # None
      BY <3>1, <1>c DEF TypeOK
    <3>3. CASE seen = None
      BY <3>1, <3>2, <3>3, NoPressYet DEF ModeShown
    <3>4. CASE seen # None
      BY <2>0, <3>1, <3>2, <3>4 DEF ModeShown, At
    <3> QED  BY <3>3, <3>4
  <2>8. CASE PressRelay
    <3>1. /\ seen # None /\ sending = 0 /\ clicks' = clicks + 1 /\ sending' = clicks + 1
          /\ requests' = requests \union {[n |-> clicks + 1, cmd |-> Opposite(relayShown)]}
          /\ Good' => ~(patching > 0)
          /\ UNCHANGED <<seen, registry, unacked, answers, patching>>
      BY <2>8 DEF PressRelay, Usable, Press
    <3>2. PICK c \in Relays : c = Opposite(relayShown)
      BY <1>c DEF Opposite
    <3>3. clicks + 1 # 0 /\ (~(patching > 0) => patching = 0)
      BY DEF Ways, TypeOK
    <3>4. Good' => AtRest
      BY <2>0, <3>1, <3>3 DEF ModeShown
    <3>5. Good' => /\ requests' = {[n |-> sending', cmd |-> c]} /\ unacked' = <<>> /\ answers' = {}
                   /\ sending' # 0 /\ patching' = 0
      BY <3>1, <3>2, <3>3, <3>4
    <3> QED  BY <3>1, <3>5 DEF ModeShown, At
  <2>9. ASSUME NEW m \in {"auto", "manual"}, PressMode(m) PROVE ModeShown'
    <3>1. /\ seen # None /\ patching = 0 /\ clicks' = clicks + 1 /\ patching' = clicks + 1
          /\ requests' = requests \union {[n |-> clicks + 1, cmd |-> m]}
          /\ Good' => ~(sending > 0)
          /\ autoShown' = (m = "auto")
          /\ UNCHANGED <<seen, registry, unacked, answers, sending>>
      BY <2>9 DEF PressMode, Usable, Press
    <3>2. clicks + 1 # 0 /\ (~(sending > 0) => sending = 0)
      BY DEF Ways, TypeOK
    <3>3. Good' => AtRest
      BY <2>0, <3>1, <3>2 DEF ModeShown
    <3>4. Good' => /\ requests' = {[n |-> patching', cmd |-> m]} /\ unacked' = <<>> /\ answers' = {}
                   /\ patching' # 0 /\ sending' = 0 /\ Shown' = m
      BY <3>1, <3>2, <3>3
    <3> QED  BY <3>1, <3>4 DEF ModeShown, At
  <2>10. CASE ApiPublishes
    <3>1. PICK r \in requests : requests' = requests \ {r} /\ unacked' = Append(unacked, r)
      BY <2>10 DEF ApiPublishes
    <3>2. UNCHANGED <<registry, answers, copy, gets, seen, sending, patching, autoShown>>
      BY <2>10 DEF ApiPublishes, hook, page
    <3>3. seen # None
      BY <3>1, NoPressYet
    <3>4. ASSUME NEW n, NEW c, At(n, c)
          PROVE  requests' = {} /\ unacked' = <<[n |-> n, cmd |-> c]>> /\ answers' = {}
      <4>1. requests = {[n |-> n, cmd |-> c]} /\ unacked = <<>> /\ answers = {}
        BY <3>1, <3>4 DEF At
      <4> QED  BY <3>1, <3>2, <4>1
    <3> QED  BY <2>0, <3>1, <3>2, <3>3, <3>4 DEF ModeShown, At
  <2>11. CASE ApiPatches
    <3>1. /\ unacked # <<>> /\ unacked' = Tail(unacked)
          /\ registry'.mode = RegistryMode(Head(unacked).cmd)
          /\ answers' = IF Head(unacked).n \in {sending, patching} THEN answers \union {Head(unacked)}
                                                                   ELSE answers
          /\ UNCHANGED <<requests, copy, gets, seen, sending, patching, autoShown>>
      BY <2>11 DEF ApiPatches, hook, page, TypeOK
    <3>2. seen # None
      BY <3>1, NoPressYet
    <3>3. ASSUME NEW n \in {sending, patching}, NEW c, At(n, c)
          PROVE  /\ requests' = {} /\ unacked' = <<>> /\ answers' = {[n |-> n, cmd |-> c]}
                 /\ registry'.mode = RegistryMode(c)
      <4>1. requests = {} /\ unacked = <<[n |-> n, cmd |-> c]>> /\ answers = {}
        BY <3>1, <3>3 DEF At
      <4> QED  BY <3>1, <3>3, <4>1
    <3> QED  BY <2>0, <3>1, <3>2, <3>3 DEF ModeShown, At
  <2>12. CASE ApiCrashes
    <3>1. /\ requests # {} \/ unacked # <<>>
          /\ requests' = {} /\ unacked' = <<>>
          /\ UNCHANGED <<registry, answers, copy, gets, seen, sending, patching, autoShown>>
      BY <2>12 DEF ApiCrashes, hook, page
    <3>2. seen # None
      BY <3>1, NoPressYet
    <3>3. ASSUME NEW n, NEW c, At(n, c) PROVE answers' = {}
      BY <3>1, <3>3 DEF At
    <3> QED  BY <2>0, <3>1, <3>2, <3>3 DEF ModeShown, At
  <2>13. CASE ControlAnswers
    <3>1. PICK r \in answers : r.n = sending /\ answers' = answers \ {r}
      BY <2>13 DEF ControlAnswers
    <3>2. /\ autoShown' = FALSE /\ sending' = 0
          /\ UNCHANGED <<registry, requests, unacked, copy, gets, seen, patching>>
      BY <2>13 DEF ControlAnswers, ModeAfterControl, hook
    <3>3. seen # None /\ r.n # 0
      BY <3>1, NoPressYet DEF Ways, Presses
    <3>4. ASSUME Good' PROVE AtRest'
      <4>1. PICK c \in Relays : At(sending, c) /\ patching = 0
        BY <2>0, <3>1, <3>3, <3>4 DEF ModeShown
      <4>2. requests = {} /\ unacked = <<>> /\ answers = {r} /\ registry.mode = RegistryMode(c)
        BY <3>1, <4>1 DEF At
      <4>3. registry.mode = "manual"
        BY <1>c, <4>2 DEF RegistryMode
      <4> QED  BY <3>1, <3>2, <4>1, <4>2, <4>3
    <3> QED  BY <3>2, <3>3, <3>4 DEF ModeShown
  <2>14. CASE ModeAnswers
    <3>1. PICK r \in answers : r.n = patching /\ answers' = answers \ {r}
      BY <2>14 DEF ModeAnswers
    <3>2. /\ patching' = 0
          /\ UNCHANGED <<registry, requests, unacked, copy, gets, seen, sending, autoShown>>
      BY <2>14 DEF ModeAnswers, hook
    <3>3. seen # None /\ r.n # 0
      BY <3>1, NoPressYet DEF Ways, Presses
    <3>4. ASSUME Good' PROVE AtRest'
      <4>1. At(patching, Shown) /\ sending = 0
        BY <2>0, <3>1, <3>3, <3>4 DEF ModeShown
      <4>2. requests = {} /\ unacked = <<>> /\ answers = {r} /\ registry.mode = RegistryMode(Shown)
        BY <3>1, <4>1 DEF At
      <4>3. autoShown = (registry.mode = "auto")
        BY <4>2 DEF RegistryMode, TypeOK
      <4> QED  BY <3>1, <3>2, <4>1, <4>2, <4>3
    <3> QED  BY <3>2, <3>3, <3>4 DEF ModeShown
  <2>15. CASE PressFails
    <3>1. ~Good' /\ seen' = seen /\ seen # None
      <4>1. sending # 0 \/ patching # 0
        BY <2>15 DEF PressFails
      <4> QED  BY <2>15, <4>1, NoPressYet DEF PressFails, Happens
    <3> QED  BY <3>1 DEF ModeShown
  <2>16. CASE UNCHANGED vars
    BY <2>1, <2>16 DEF vars, api, hook, page, ModeShown
  <2> QED  BY <2>2, <2>3, <2>4, <2>5, <2>6, <2>7, <2>8, <2>9, <2>10, <2>11, <2>12, <2>13, <2>14,
              <2>15, <2>16 DEF Next
<1> QED  BY <1>1, <1>2, LiveViewTyped, PTL DEF Spec

\* For any number of presses and of refreshes under way: when all is quiet, the mode
\* the page shows is that of the registry, if no request failed and no relay press
\* and mode press overlapped (useCommand.ts:30-67, usePatchDevice.ts:71-91).
THEOREM ModeIsShown == Spec => []ShownModeHolds
<1>1. TypeOK /\ ModeShown => ShownModeHolds
  <2> SUFFICES ASSUME TypeOK, ModeShown, Quiet, history \intersect {"failed", "overlap"} = {}
               PROVE  autoShown = (registry.mode = "auto")
    BY DEF ShownModeHolds
  <2>1. seen # None
    BY LiveViewAssumption DEF Quiet, TypeOK
  <2> QED  BY <2>1 DEF ModeShown, Quiet
<1> QED  BY <1>1, LiveViewTyped, ModeShownInvariant, PTL

\* Commands for the device, its reports, and what the page is about to see of them.
UnderWay ==
  Elements(commands) \union Elements(statuses) \union Elements(feed) \union {copy.relay}

\* Presses whose command was published.
Published == Elements(unacked) \union answers

\* The relay the page shows, while no command is lost, no press failed, no message
\* was missed and none overtook an answer: it is the one the page has seen last, or
\* it is still to be seen; and so is the relay of a press that was published.
RelayShown ==
  history \intersect {"lost", "failed", "missed", "overtaken"} = {} /\ seen # None =>
    /\ sending = 0 => relayShown = seen \/ relayShown \in UnderWay
    /\ sending > 0 => /\ \A r \in Outstanding : r.n = sending => r.cmd = Opposite(relayShown)
                      /\ \A r \in Published : r.n = sending => r.cmd = seen \/ r.cmd \in UnderWay

\* It is kept: the relay that was pressed is published before it is answered, and
\* every message on its way to the page ends as the one it has seen last.
LEMMA RelayShownInvariant == Spec => []RelayShown
<1> DEFINE Good == history \intersect {"lost", "failed", "missed", "overtaken"} = {}
<1>c. Relays = {"ON", "OFF"} /\ None \notin Relays
  BY LiveViewAssumption DEF Relays
<1>1. Init => RelayShown
  BY DEF Init, RelayShown
<1>2. ASSUME TypeOK, TypeOK', Ways, Ways', RelayShown, [Next]_vars PROVE RelayShown'
  <2> USE <1>2
  <2> SUFFICES ASSUME Good', seen' # None PROVE RelayShown'
    BY DEF RelayShown
  <2>0. Good
    BY HistoryGrows
  <2>n. \A r \in Outstanding : r \in Presses /\ r.n \in 1 .. clicks
    <3>1. Outstanding \subseteq Presses
      BY ElementsTyped DEF Ways, Outstanding
    <3> QED  BY <3>1 DEF Ways, Presses
  <2>1. ASSUME UNCHANGED <<seen, sending, relayShown>>,
               Outstanding' \subseteq Outstanding,
               \A r \in Published' : r \in Published \/ r.cmd \in UnderWay',
               \A x \in Relays : x \in UnderWay => x = seen \/ x \in UnderWay'
        PROVE  RelayShown'
    <3>1. relayShown \in Relays /\ Opposite(relayShown) \in Relays
      BY <1>c DEF TypeOK, Opposite
    <3>2. sending = 0 => relayShown = seen \/ relayShown \in UnderWay'
      BY <2>0, <2>1, <3>1 DEF RelayShown
    <3>3. ASSUME NEW r \in Outstanding', sending > 0, r.n = sending
          PROVE  r.cmd = Opposite(relayShown)
      BY <2>0, <2>1, <3>3 DEF RelayShown
    <3>4. ASSUME NEW r \in Published', sending > 0, r.n = sending
          PROVE  r.cmd = seen \/ r.cmd \in UnderWay'
      <4>1. r.cmd \in Relays
        BY <3>1, <3>3, <3>4 DEF Outstanding, Published
      <4>2. r \in Published => r.cmd = seen \/ r.cmd \in UnderWay
        BY <2>0, <2>1, <3>4 DEF RelayShown
      <4> QED  BY <2>1, <3>4, <4>1, <4>2
    <3> QED  BY <2>1, <3>2, <3>3, <3>4 DEF RelayShown
  <2>2. CASE AutoSwitch
    <3>1. Elements(statuses) \subseteq Elements(statuses')
      <4>1. relay' \in Relays /\ statuses' = Append(statuses, relay')
        BY <1>c, <2>2 DEF AutoSwitch, Opposite
      <4> QED  BY <4>1, QueueGrows DEF Ways
    <3>2. UNCHANGED <<seen, sending, relayShown, Outstanding, Published, commands, feed, copy>>
      BY <2>2 DEF AutoSwitch, api, hook, page, Outstanding, Published, Elements
    <3>3. UnderWay \subseteq UnderWay'
      BY <3>1, <3>2 DEF UnderWay, Elements
    <3> QED  BY <2>1, <3>2, <3>3
  <2>3. CASE Execute
    <3>1. /\ commands # <<>> /\ commands' = Tail(commands) /\ statuses' = Append(statuses, relay')
          /\ relay' = (IF Head(commands) \in Relays THEN Head(commands) ELSE relay)
          /\ UNCHANGED <<seen, sending, relayShown, requests, unacked, answers, feed, copy>>
      BY <2>3 DEF Execute, api, hook, page
    <3>2. Elements(commands) = {Head(commands)} \union Elements(commands')
      BY <3>1, QueueShrinks DEF Ways
    <3>3. Elements(statuses') = Elements(statuses) \union {relay'}
      BY <3>1, QueueGrows DEF Ways, TypeOK
    <3>4. \A x \in Relays : x \in UnderWay => x \in UnderWay'
      BY <3>1, <3>2, <3>3 DEF UnderWay, Elements
    <3>5. Outstanding' = Outstanding /\ Published' = Published
      BY <3>1 DEF Outstanding, Published, Elements
    <3> QED  BY <2>1, <3>1, <3>4, <3>5
  <2>4. CASE LoseCommand \/ Unheard \/ PressFails
    BY <2>4 DEF LoseCommand, Unheard, PressFails, Happens
  <2>5. CASE WorkerReceives
    <3>1. /\ statuses # <<>> /\ statuses' = Tail(statuses) /\ feed' = Append(feed, Head(statuses))
          /\ UNCHANGED <<seen, sending, relayShown, requests, unacked, answers, commands, copy>>
      BY <2>5 DEF WorkerReceives, hook, page
    <3>2. /\ Elements(statuses) = {Head(statuses)} \union Elements(statuses')
          /\ Head(statuses) \in Relays
      BY <3>1, QueueShrinks DEF Ways
    <3>3. Elements(feed') = Elements(feed) \union {Head(statuses)}
      BY <3>1, <3>2, QueueGrows DEF Ways
    <3>4. UnderWay \subseteq UnderWay'
      BY <3>1, <3>2, <3>3 DEF UnderWay, Elements
    <3>5. Outstanding' = Outstanding /\ Published' = Published
      BY <3>1 DEF Outstanding, Published, Elements
    <3> QED  BY <2>1, <3>1, <3>4, <3>5
  <2>6. CASE Forward
    <3>1. /\ feed # <<>> /\ feed' = Tail(feed) /\ copy' = [copy EXCEPT !.relay = Head(feed)]
          /\ copy # None /\ seen = copy.relay
          /\ UNCHANGED <<seen, sending, relayShown, requests, unacked, answers, commands, statuses>>
      BY <2>6 DEF Forward, Keep, api, page
    <3>2. copy'.relay = Head(feed)
      BY <3>1 DEF TypeOK
    <3>3. Elements(feed) = {Head(feed)} \union Elements(feed')
      BY <3>1, QueueShrinks DEF Ways
    <3>4. \A x \in UnderWay : x = seen \/ x \in UnderWay'
      BY <3>1, <3>2, <3>3 DEF UnderWay, Elements
    <3>5. Outstanding' = Outstanding /\ Published' = Published
      BY <3>1 DEF Outstanding, Published, Elements
    <3> QED  BY <2>1, <3>1, <3>4, <3>5
  <2>7. ASSUME NEW i \in Slots, AskDevice(i) \/ DeviceAnswers(i) \/ GetFails(i)
        PROVE  RelayShown'
    <3>1. /\ UNCHANGED <<seen, sending, relayShown, requests, unacked, answers, commands, statuses, feed>>
          /\ copy' = copy \/ seen = copy.relay \/ copy = None
      BY <2>7 DEF AskDevice, DeviceAnswers, GetFails, Keep, wires, api, page
    <3>2. copy # None
      BY <3>1 DEF Ways
    <3>3. \A x \in UnderWay : x = seen \/ x \in UnderWay'
      BY <3>1, <3>2 DEF UnderWay, Elements
    <3>4. Outstanding' = Outstanding /\ Published' = Published
      BY <3>1 DEF Outstanding, Published, Elements
    <3> QED  BY <2>1, <3>1, <3>3, <3>4
  <2>8. CASE Effects
    <3>1. /\ seen' = copy.relay /\ relayShown' = copy.relay /\ sending' = sending /\ ~(sending > 0)
      BY <2>8 DEF Effects, EffectRelay
    <3> QED  BY <3>1 DEF RelayShown
  <2>9. CASE PressRelay
    <3>1. /\ sending = 0 /\ sending' = clicks + 1
          /\ requests' = requests \union {[n |-> clicks + 1, cmd |-> Opposite(relayShown)]}
          /\ UNCHANGED <<seen, relayShown, unacked, answers>>
      BY <2>9 DEF PressRelay, Press
    <3>2. Outstanding' = Outstanding \union {[n |-> clicks + 1, cmd |-> Opposite(relayShown)]}
      BY <3>1 DEF Outstanding, Elements
    <3>3. clicks + 1 # 0 /\ \A r \in Outstanding : r.n # clicks + 1
      BY <2>n DEF Ways
    <3>4. \A r \in Outstanding' : r.n = sending' => r.cmd = Opposite(relayShown)
      BY <3>1, <3>2, <3>3
    <3>5. \A r \in Published' : r.n # sending'
      BY <3>1, <3>3 DEF Published, Outstanding, Elements
    <3> QED  BY <3>1, <3>3, <3>4, <3>5 DEF RelayShown
  <2>10. ASSUME NEW m \in {"auto", "manual"}, PressMode(m) PROVE RelayShown'
    <3>1. /\ requests' = requests \union {[n |-> clicks + 1, cmd |-> m]}
          /\ UNCHANGED <<seen, sending, relayShown, unacked, answers, commands, statuses, feed, copy>>
      BY <2>10 DEF PressMode, Press, wires, hook
    <3>2. /\ Outstanding' = Outstanding \union {[n |-> clicks + 1, cmd |-> m]}
          /\ UnderWay' = UnderWay /\ Published' = Published
      BY <3>1 DEF Outstanding, UnderWay, Published, Elements
    <3>3. sending # clicks + 1
      BY DEF Ways, TypeOK
    <3>4. \A r \in Outstanding' : r.n = sending => r \in Outstanding
      BY <3>1, <3>2, <3>3
    <3> QED  BY <2>0, <3>1, <3>2, <3>4 DEF RelayShown
  <2>11. CASE ApiPublishes
    <3>1. PICK r \in requests : /\ requests' = requests \ {r}
                                /\ commands' = Append(commands, r.cmd) /\ unacked' = Append(unacked, r)
      BY <2>11 DEF ApiPublishes
    <3>2. UNCHANGED <<seen, sending, relayShown, answers, statuses, feed, copy>>
      BY <2>11 DEF ApiPublishes, hook, page
    <3>3. r \in Presses /\ r.cmd \in Commands /\ unacked \in Seq(Presses) /\ commands \in Seq(Commands)
      BY DEF Ways, Presses
    <3>4. Elements(unacked') = Elements(unacked) \union {r}
      BY <3>1, <3>3, QueueGrows
    <3>5. Elements(commands') = Elements(commands) \union {r.cmd}
      BY <3>1, <3>3, QueueGrows
    <3>6. Outstanding' \subseteq Outstanding
      BY <3>1, <3>2, <3>4 DEF Outstanding
    <3>7. r.cmd \in UnderWay' /\ UnderWay \subseteq UnderWay'
      BY <3>2, <3>5 DEF UnderWay, Elements
    <3>8. \A q \in Published' : q \in Published \/ q.cmd \in UnderWay'
      BY <3>2, <3>4, <3>7 DEF Published
    <3> QED  BY <2>1, <3>2, <3>6, <3>7, <3>8
  <2>12. CASE ApiPatches
    <3>1. /\ unacked # <<>> /\ unacked' = Tail(unacked)
          /\ answers' \subseteq answers \union {Head(unacked)}
          /\ UNCHANGED <<seen, sending, relayShown, requests, commands, statuses, feed, copy>>
      BY <2>12 DEF ApiPatches, wires, hook, page
    <3>2. Elements(unacked) = {Head(unacked)} \union Elements(unacked')
      BY <3>1, QueueShrinks DEF Ways
    <3>3. Outstanding' \subseteq Outstanding /\ Published' \subseteq Published /\ UnderWay' = UnderWay
      BY <3>1, <3>2 DEF Outstanding, Published, UnderWay, Elements
    <3> QED  BY <2>1, <3>1, <3>3
  <2>13. CASE ApiCrashes
    <3>1. /\ requests' = {} /\ unacked' = <<>>
          /\ UNCHANGED <<seen, sending, relayShown, answers, commands, statuses, feed, copy>>
      BY <2>13 DEF ApiCrashes, wires, hook, page
    <3>2. /\ Outstanding' \subseteq Outstanding /\ Published' \subseteq Published
          /\ UnderWay' = UnderWay
      BY <3>1 DEF Outstanding, Published, UnderWay, Elements
    <3> QED  BY <2>1, <3>1, <3>2
  <2>14. CASE ControlAnswers
    <3>1. PICK r \in answers : r.n = sending
      BY <2>14 DEF ControlAnswers
    <3>2. /\ relayShown' = Opposite(relayShown) /\ sending' = 0
          /\ UNCHANGED <<seen, commands, statuses, feed, copy>>
      BY <2>14 DEF ControlAnswers, wires, hook
    <3>3. sending > 0 /\ r \in Outstanding
      BY <2>n, <3>1 DEF Outstanding
    <3>4. r.cmd = Opposite(relayShown) /\ (r.cmd = seen \/ r.cmd \in UnderWay)
      BY <2>0, <3>1, <3>2, <3>3 DEF RelayShown, Published
    <3>5. UnderWay' = UnderWay
      BY <3>2 DEF UnderWay, Elements
    <3> QED  BY <3>2, <3>4, <3>5 DEF RelayShown
  <2>15. CASE ModeAnswers
    <3>1. /\ answers' \subseteq answers
          /\ UNCHANGED <<seen, sending, relayShown, requests, unacked, commands, statuses, feed, copy>>
      BY <2>15 DEF ModeAnswers, wires, hook
    <3>2. /\ Outstanding' \subseteq Outstanding /\ Published' \subseteq Published
          /\ UnderWay' = UnderWay
      BY <3>1 DEF Outstanding, Published, UnderWay, Elements
    <3> QED  BY <2>1, <3>1, <3>2
  <2>16. CASE UNCHANGED vars
    <3>1. UNCHANGED <<seen, sending, relayShown, Outstanding, Published, UnderWay>>
      BY <2>16 DEF vars, wires, api, hook, page, Outstanding, Published, UnderWay, Elements
    <3> QED  BY <2>1, <3>1
  <2> QED  BY <2>2, <2>3, <2>4, <2>5, <2>6, <2>7, <2>8, <2>9, <2>10, <2>11, <2>12, <2>13, <2>14,
              <2>15, <2>16 DEF Next
<1> QED  BY <1>1, <1>2, LiveViewTyped, PTL DEF Spec

\* For any number of presses, switches by automatic control and refreshes: when all
\* is quiet, the relay the page shows is that of the device, if no command was lost
\* or failed, no message was missed and no report overtook the answer of a press
\* (DeviceDetailPage.tsx:175-191, 334-343; useCommand.ts:30-67).
THEOREM RelayIsShown == Spec => []ShownRelayHolds
<1>1. ASSUME TypeOK, RelayShown, LastReport PROVE ShownRelayHolds
  <2> SUFFICES ASSUME Quiet, history \intersect {"lost", "failed", "missed", "overtaken"} = {}
               PROVE  relayShown = relay
    BY DEF ShownRelayHolds
  <2>1. seen # None /\ copy.relay = seen /\ registry.relay = seen
    BY <1>1, LiveViewAssumption DEF Quiet, TypeOK
  <2>2. UnderWay = {seen}
    BY <2>1 DEF Quiet, Idle, UnderWay, Elements
  <2>3. relay = seen
    BY <1>1, <2>1 DEF LastReport, Final, Quiet
  <2> QED  BY <1>1, <2>1, <2>2, <2>3 DEF RelayShown, Quiet
<1> QED  BY <1>1, LiveViewTyped, RelayShownInvariant, LastReportInvariant, PTL

-----------------------------------------------------------------------------
(* TelemetryHistory.                                                       *)

\* The requests left when one is answered.
LEMMA AfterRemoval ==
  ASSUME NEW S, NEW s \in Seq(S), NEW i \in DOMAIN s
  PROVE  /\ RemoveAt(s, i) \in Seq(S) /\ Len(RemoveAt(s, i)) = Len(s) - 1
         /\ \A j \in DOMAIN RemoveAt(s, i) :
              RemoveAt(s, i)[j] = IF j < i THEN s[j] ELSE s[j + 1]
<1>1. i \in 1 .. Len(s) /\ Len(s) \in Nat
  OBVIOUS
<1> DEFINE a == SubSeq(s, 1, i - 1)
           b == SubSeq(s, i + 1, Len(s))
<1>2. a \in Seq(S) /\ Len(a) = i - 1 /\ \A j \in 1 .. i - 1 : a[j] = s[j]
  BY <1>1
<1>3. b \in Seq(S) /\ Len(b) = Len(s) - i /\ \A j \in 1 .. Len(s) - i : b[j] = s[i + j]
  BY <1>1
<1>4. RemoveAt(s, i) = a \o b
  BY DEF RemoveAt
<1> HIDE DEF a, b
<1>8. /\ a \o b \in Seq(S) /\ Len(a \o b) = Len(a) + Len(b)
      /\ \A k \in 1 .. Len(a) + Len(b) :
           (a \o b)[k] = IF k <= Len(a) THEN a[k] ELSE b[k - Len(a)]
  BY <1>2, <1>3, ConcatProperties
<1>5. a \o b \in Seq(S) /\ Len(a \o b) = Len(s) - 1
  BY <1>1, <1>2, <1>3, <1>8
<1>6. ASSUME NEW j \in 1 .. Len(s) - 1 PROVE (a \o b)[j] = IF j < i THEN s[j] ELSE s[j + 1]
  <2>3. j \in 1 .. Len(a) + Len(b) /\ Len(a) = i - 1 /\ Len(b) = Len(s) - i
    BY <1>1, <1>2, <1>3
  <2>1. CASE j < i
    <3>1. (a \o b)[j] = a[j]
      BY <1>1, <1>8, <2>1, <2>3
    <3>2. a[j] = s[j]
      BY <1>1, <1>2, <2>1
    <3> QED  BY <2>1, <3>1, <3>2
  <2>2. CASE ~(j < i)
    <3>1. (a \o b)[j] = b[j - (i - 1)]
      BY <1>1, <1>8, <2>2, <2>3
    <3>2. b[j - (i - 1)] = s[i + (j - (i - 1))]
      <4>1. j - (i - 1) \in 1 .. Len(s) - i
        BY <1>1, <2>2
      <4> QED  BY <1>3, <4>1
    <3>3. i + (j - (i - 1)) = j + 1
      BY <1>1
    <3> QED  BY <2>2, <3>1, <3>2, <3>3
  <2> QED  BY <2>1, <2>2
<1>7. DOMAIN (a \o b) = 1 .. Len(s) - 1
  BY <1>5
<1> QED  BY <1>4, <1>5, <1>6, <1>7

\* What is known of a request under way.
LEMMA RequestTyped ==
  ASSUME ChartTypeOK, NEW i \in DOMAIN fetches
  PROVE  /\ i \in 1 .. Len(fetches) /\ Len(fetches) \in Nat
         /\ fetches \in Seq([range : Ranges, at : Times \union {Nothing}])
         /\ fetches[i] \in [range : Ranges, at : Times \union {Nothing}]
<1> DEFINE Request == [range : Ranges, at : Times \union {Nothing}]
<1>1. fetches \in Seq(Request)
  BY DEF ChartTypeOK
<1> HIDE DEF Request
<1>2. i \in 1 .. Len(fetches) /\ Len(fetches) \in Nat
  BY <1>1
<1>3. fetches[i] \in Request
  BY <1>1, <1>2, ElementOfSeq
<1> QED  BY <1>1, <1>2, <1>3 DEF Request

\* Types of the chart: every answer has a range and was read at a time of the clock.
LEMMA ChartTyped == ChartSpec => []ChartTypeOK
<1> USE DayAssumption
<1> DEFINE Request == [range : Ranges, at : Times \union {Nothing}]
<1>1. ChartInit => ChartTypeOK
  <2> SUFFICES ASSUME ChartInit PROVE ChartTypeOK
    OBVIOUS
  <2>1. range \in Ranges
    BY DEF ChartInit, Ranges
  <2>2. <<[range |-> range, at |-> Nothing]>> \in Seq(Request)
    BY <2>1
  <2> QED  BY <2>1, <2>2 DEF ChartInit, ChartTypeOK
<1>2. ASSUME ChartTypeOK, [ChartNext]_chartVars PROVE ChartTypeOK'
  <2> USE <1>2 DEF ChartTypeOK
  <2>1. ASSUME NEW r \in Ranges, Pick(r) PROVE ChartTypeOK'
    BY <2>1 DEF Pick, Fetch
  <2>2. ASSUME NEW i \in DOMAIN fetches, Query(i) PROVE ChartTypeOK'
    <3>1. fetches[i] \in Request /\ i \in 1 .. Len(fetches) /\ fetches \in Seq(Request)
      BY RequestTyped
    <3>2. [fetches[i] EXCEPT !.at = now] \in Request
      BY <3>1
    <3>3. [fetches EXCEPT ![i] = [fetches[i] EXCEPT !.at = now]] \in Seq(Request)
      BY <3>1, <3>2, ExceptSeq
    <3> QED  BY <2>2, <3>3 DEF Query
  <2>3. ASSUME NEW i \in DOMAIN fetches, Answer(i) \/ Fail(i) PROVE ChartTypeOK'
    <3>1. fetches \in Seq(Request) /\ fetches[i] \in Request
      BY RequestTyped
    <3>2. fetches' \in Seq(Request) /\ loading' = FALSE /\ UNCHANGED <<now, range>>
      BY <2>3, <3>1, AfterRemoval DEF Answer, Fail, Settle
    <3>3. points' \in [range : Ranges, at : Times] \union {Nothing}
      BY <2>3, <3>1 DEF Answer, Fail, PointsAfterError
    <3> QED  BY <3>2, <3>3
  <2>4. CASE Reopen
    <3>1. "24J" \in Ranges
      BY DEF Ranges
    <3>2. <<>> \in Seq(Request) /\ [range |-> "24J", at |-> Nothing] \in Request
      BY <3>1
    <3> QED  BY <2>4, <3>1, <3>2 DEF Reopen, Fetch
  <2>5. CASE Tick
    BY <2>5 DEF Tick
  <2>6. CASE UNCHANGED chartVars
    BY <2>6 DEF chartVars
  <2> QED  BY <2>1, <2>2, <2>3, <2>4, <2>5, <2>6 DEF ChartNext
<1> QED  BY <1>1, <1>2, PTL DEF ChartSpec

\* What the last request and the count of requests say: overtaking takes two
\* requests, without it the last one carries the range of the page, and without
\* an overlap there is at most one.
Chart ==
  /\ "overtaken" \in happened => "overlap" \in happened
  /\ "overtaken" \notin happened =>
       IF fetches = <<>> THEN points # Nothing => points.range = range
                          ELSE fetches[Len(fetches)].range = range
  /\ "overlap" \notin happened => Len(fetches) <= 1 /\ (~loading => fetches = <<>>)

\* No reading is newer than the clock.
Past ==
  /\ points # Nothing => points.at <= now
  /\ \A i \in DOMAIN fetches : fetches[i].at # Nothing => fetches[i].at <= now

\* Both are kept by every step: an answer removes its request, and notes it if a
\* request before it is still under way.
LEMMA ChartInvariant == ChartSpec => [](Chart /\ Past)
<1> USE DayAssumption
<1> DEFINE Request == [range : Ranges, at : Times \union {Nothing}]
<1>t. Times \subseteq Int
  BY DEF Times
<1>1. ChartInit => Chart /\ Past
  BY DEF ChartInit, Chart, Past
<1>2. ASSUME ChartTypeOK, ChartTypeOK', Chart, Past, [ChartNext]_chartVars PROVE Chart' /\ Past'
  <2> USE <1>2
  <2>0. fetches \in Seq(Request) /\ Len(fetches) \in Nat /\ now \in Int /\ now' \in Int
    BY <1>t DEF ChartTypeOK
  <2>1. ASSUME NEW r \in Ranges, Pick(r) PROVE Chart' /\ Past'
    <3>1. /\ fetches' = Append(fetches, [range |-> r, at |-> Nothing]) /\ range' = r
          /\ loading' = TRUE /\ UNCHANGED <<now, points>>
          /\ happened' = IF fetches = <<>> THEN {} ELSE happened \union {"overlap"}
      BY <2>1 DEF Pick, Fetch
    <3>2. Len(fetches') = Len(fetches) + 1 /\ fetches'[Len(fetches')].range = r
      BY <2>0, <3>1
    <3>3. \A i \in DOMAIN fetches' :
            fetches'[i].at # Nothing => i \in DOMAIN fetches /\ fetches'[i] = fetches[i]
      BY <2>0, <3>1
    <3>4. Chart'
      BY <2>0, <3>1, <3>2 DEF Chart
    <3>5. Past'
      BY <3>1, <3>3 DEF Past
    <3> QED  BY <3>4, <3>5
  <2>2. ASSUME NEW i \in DOMAIN fetches, Query(i) PROVE Chart' /\ Past'
    <3>1. /\ fetches' = [fetches EXCEPT ![i].at = now]
          /\ UNCHANGED <<now, range, points, loading, happened>>
      BY <2>2 DEF Query
    <3>2. /\ fetches' \in Seq(Request) /\ Len(fetches') = Len(fetches)
          /\ \A j \in DOMAIN fetches' : fetches'[j].range = fetches[j].range
          /\ \A j \in DOMAIN fetches' : fetches'[j].at \in {now, fetches[j].at}
          /\ DOMAIN fetches' = DOMAIN fetches
      BY <2>0, <3>1 DEF ChartTypeOK
    <3>3. Chart'
      <4>1. fetches = <<>> <=> fetches' = <<>>
        BY <2>0, <3>2
      <4>2. fetches # <<>> => Len(fetches) \in DOMAIN fetches'
        BY <2>0, <3>2
      <4> QED  BY <3>1, <3>2, <4>1, <4>2 DEF Chart
    <3>4. Past'
      BY <2>0, <3>1, <3>2 DEF Past
    <3> QED  BY <3>3, <3>4
  <2>3. ASSUME NEW i \in DOMAIN fetches, Answer(i) \/ Fail(i) PROVE Chart' /\ Past'
    <3>1. /\ fetches' = RemoveAt(fetches, i) /\ loading' = FALSE
          /\ happened' = IF i > 1 THEN happened \union {"overtaken"} ELSE happened
          /\ UNCHANGED <<now, range>>
          /\ points' = Nothing \/ (points' = fetches[i] /\ fetches[i].at # Nothing)
      <4>1. CASE Answer(i)
        BY <4>1 DEF Answer, Settle
      <4>2. CASE Fail(i)
        BY <4>2 DEF Fail, Settle, PointsAfterError
      <4> QED  BY <2>3, <4>1, <4>2
    <3>2. /\ fetches' \in Seq(Request) /\ Len(fetches') = Len(fetches) - 1
          /\ \A j \in DOMAIN fetches' :
               fetches'[j] = IF j < i THEN fetches[j] ELSE fetches[j + 1]
          /\ i \in 1 .. Len(fetches)
      BY <2>0, <3>1, AfterRemoval
    <3>3. Past'
      <4>1. ASSUME NEW j \in DOMAIN fetches'
            PROVE  \E k \in DOMAIN fetches : fetches'[j] = fetches[k]
        <5>1. j \in 1 .. Len(fetches) - 1
          BY <2>0, <3>2
        <5>2. j \in DOMAIN fetches /\ j + 1 \in DOMAIN fetches
          BY <2>0, <5>1
        <5> QED  BY <3>2, <5>2
      <4> QED  BY <3>1, <4>1 DEF Past
    <3>4. Chart'
      <4>1. "overtaken" \in happened' => "overlap" \in happened'
        BY <2>0, <3>1, <3>2 DEF Chart
      <4>2. ASSUME "overtaken" \notin happened'
            PROVE  /\ fetches' = <<>> => (points' # Nothing => points'.range = range)
                   /\ fetches' # <<>> => fetches'[Len(fetches')].range = range
        <5>1. i = 1 /\ "overtaken" \notin happened
          BY <3>1, <3>2, <4>2
        <5>2. fetches # <<>> /\ fetches[Len(fetches)].range = range
          BY <2>0, <3>2, <5>1 DEF Chart
        <5>3. fetches' = <<>> => Len(fetches) = 1
          BY <2>0, <3>2
        <5>4. fetches' # <<>> => /\ Len(fetches') \in DOMAIN fetches'
                                  /\ fetches'[Len(fetches')] = fetches[Len(fetches)]
          BY <2>0, <3>2, <5>1
        <5> QED  BY <3>1, <5>1, <5>2, <5>3, <5>4
      <4>3. "overlap" \notin happened' => Len(fetches') <= 1 /\ fetches' = <<>>
        BY <2>0, <3>1, <3>2 DEF Chart
      <4> QED  BY <3>1, <4>1, <4>2, <4>3 DEF Chart
    <3> QED  BY <3>3, <3>4
  <2>4. CASE Reopen
    <3>1. /\ fetches' = <<[range |-> "24J", at |-> Nothing]>> /\ range' = "24J"
          /\ loading' = TRUE /\ points' = Nothing /\ happened' = {} /\ now' = now
      BY <2>4 DEF Reopen, Fetch
    <3> QED  BY <3>1 DEF Chart, Past
  <2>5. CASE Tick
    <3>1. now' = now + 1 /\ UNCHANGED <<range, fetches, points, loading, happened>>
      BY <2>5 DEF Tick
    <3>2. Chart'
      BY <3>1 DEF Chart
    <3>3. points # Nothing => points.at \in Int
      BY <1>t DEF ChartTypeOK
    <3>4. \A i \in DOMAIN fetches : fetches[i].at # Nothing => fetches[i].at \in Int
      <4> SUFFICES ASSUME NEW i \in DOMAIN fetches, fetches[i].at # Nothing
                   PROVE  fetches[i].at \in Int
        OBVIOUS
      <4>1. fetches[i] \in Request
        BY RequestTyped
      <4> QED  BY <1>t, <4>1
    <3>5. Past'
      BY <2>0, <3>1, <3>3, <3>4 DEF Past
    <3> QED  BY <3>2, <3>5
  <2>6. CASE UNCHANGED chartVars
    BY <2>6 DEF chartVars, Chart, Past
  <2> QED  BY <2>1, <2>2, <2>3, <2>4, <2>5, <2>6 DEF ChartNext
<1> QED  BY <1>1, <1>2, ChartTyped, PTL DEF ChartSpec

\* However many ranges are picked and requests are under way, and in whatever order
\* they are answered: when all are through, the chart holds the readings of the
\* range that is picked unless an answer overtook an earlier one, and while there
\* is no spinner nothing is on its way unless two requests were under way at a time
\* (useTelemetryHistory.ts:28-60).
THEOREM ChartIsOfRange == ChartSpec => []ChartFollowsRange
<1> USE DayAssumption
<1>1. ChartTypeOK /\ Chart => ChartFollowsRange
  BY DEF Chart, ChartFollowsRange
<1> QED  BY <1>1, ChartTyped, ChartInvariant, PTL

\* However long the page stays open and however fine the clock is, a chart whose
\* requests did not overlap has every reading from the start of its axis to the
\* time it was loaded: the span the API queries is at least the one from the start
\* of the axis (DeviceDetailPage.tsx:262-293, telemetryService.js:1-26).
THEOREM AxisHasReadings == ChartSpec => []AxisIsCovered
<1> USE DayAssumption
<1>1. ASSUME ChartTypeOK, Chart, Past PROVE AxisIsCovered
  <2> SUFFICES ASSUME ~loading, points # Nothing, "overlap" \notin happened
               PROVE  points.at - Span(RangeMap(points.range)) <= AxisStart
    BY DEF AxisIsCovered
  <2>1. points.range = range /\ points.at <= now
    BY <1>1 DEF Chart, Past
  <2>2. points.at \in Int /\ now \in Int /\ range \in Ranges
    BY <1>1 DEF ChartTypeOK, Times
  <2>3. now % Day \in 0 .. Day - 1
    BY <2>2
  <2>4. now - (now % Day) >= now - Day
    BY <2>2, <2>3
  <2>5. CASE range = "24J"
    <3>1. Span(RangeMap(range)) = Day /\ AxisStart = DayStart - 0 * Day
      BY <2>5 DEF Span, RangeMap, AxisStart
    <3>2. DayStart >= now - Day /\ DayStart \in Int
      BY <2>2, <2>3, <2>4 DEF DayStart
    <3> QED  BY <2>1, <2>2, <3>1, <3>2
  <2>6. CASE range = "7H"
    <3>1. Span(RangeMap(range)) = 7 * Day /\ AxisStart = DayStart - 6 * Day
      BY <2>6 DEF Span, RangeMap, AxisStart
    <3> QED  BY <2>1, <2>2, <2>3, <3>1 DEF DayStart
  <2>7. CASE range = "30H"
    <3>1. Span(RangeMap(range)) = 30 * Day /\ AxisStart = DayStart - 29 * Day
      BY <2>7 DEF Span, RangeMap, AxisStart
    <3>2. DayStart >= now - Day /\ DayStart \in Int
      BY <2>2, <2>3, <2>4 DEF DayStart
    <3> QED  BY <2>1, <2>2, <3>1, <3>2
  <2> QED  BY <2>2, <2>5, <2>6, <2>7 DEF Ranges
<1> QED  BY <1>1, ChartTyped, ChartInvariant, PTL
=============================================================================
