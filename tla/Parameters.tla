----------------------------- MODULE Parameters -----------------------------
(***************************************************************************)
(* The PIR timeout of the socket: the form of SettingsPage, the form of       *)
(* DeviceDetailPage (the dashboard), the API, the registry and the device.    *)
(*                                                                          *)
(* A browser tab shows one of the two pages.  A form is filled once, from the *)
(* first answer of the API after the page is opened.  SettingsPage keeps two  *)
(* copies in the settings store: saved, which is stored in the browser, and   *)
(* draft.  The handler of a save goes on when its page is left.  A number     *)
(* stands for the text that shows it, and a field may hold other texts: the   *)
(* settings keep what was typed and send it rounded.                          *)
(*                                                                          *)
(* The threshold of the power takes the same way, with a range from 0.  Left   *)
(* out are the settings that never leave the browser (tariff, notifications), *)
(* the words of the save bar, and the inputs being disabled while the device  *)
(* is off line.                                                               *)
(***************************************************************************)
EXTENDS Integers, Sequences

CONSTANTS
  Texts,              \* what a field may hold
  Round,              \* of a text: Math.round(Number(text)), 0 for blank or no number
  Min, Max, Default,  \* 5, 7200 and 600 s
  MaxSaves,           \* bound: saves
  Faults,             \* the faults that may happen, one in a behaviour
  None

ASSUME FaultsAssumption == Faults \subseteq {"lost", "crash", "failed", "nvs"}

VARIABLES
  param,     \* no_motion_off_delay of the device
  nvs,       \* pir_sec in its flash
  commands,  \* config_update commands on their way to the device
  registry,  \* pir_timeout_sec in the registry
  requests,  \* saves on their way to the API
  unacked,   \* published, until the broker confirms
  answers,   \* answers on their way to the tab
  page,      \* the page shown, None if none or an error
  get,       \* what the first answer of the API will say, None if not asked
  loaded,    \* whether the page has filled its form
  form, dirty,   \* pirTimeout and configDirty of the dashboard
  unsaved,   \* pages whose last save failed: they show its value all the same
  saved, draft,  \* the settings store
  waiting,   \* the handlers of saves, each waiting for its answer
  saves,     \* count for the bound
  history    \* what happened: faults, "moved", "stale"

device    == <<param, nvs>>
api       == <<registry, requests, unacked, answers>>
view      == <<page, get, loaded, form, dirty, unsaved>>
settings  == <<saved, draft>>
paramVars == <<device, commands, api, view, settings, waiting, saves, history>>

Pages      == {"settings", "dashboard"}
Happens(f) == f \in Faults /\ history \intersect Faults = {} /\ history' = history \union {f}
Saving(p)  == \E w \in waiting : w.page = p

ASSUME ParametersAssumption ==
  /\ Min \in Nat \ {0} /\ Max \in Nat /\ Default \in Min .. Max /\ MaxSaves \in Nat
  /\ Min .. Max \subseteq Texts /\ Round \in [Texts -> Int]
  /\ \A v \in Min .. Max : Round[v] = v
  /\ None \notin Pages

ParamInit ==
  /\ registry \in Min .. Max
  /\ param = registry /\ nvs = registry
  /\ commands = <<>> /\ requests = {} /\ unacked = <<>> /\ answers = {}
  /\ page = None /\ get = None /\ loaded = FALSE /\ form = Default /\ dirty = FALSE
  /\ unsaved = {} /\ saved = Default /\ draft = Default
  /\ waiting = {} /\ saves = 0 /\ history = {}

-----------------------------------------------------------------------------
(* The device.                                                              *)

\* config_update: a value in range is used and stored; NVS errors are ignored.
ConfigUpdate ==
  /\ commands # <<>> /\ commands' = Tail(commands)
  /\ LET v == Head(commands)
     IN \/ /\ Min <= v /\ v <= Max /\ param' = v
           /\ \/ nvs' = v /\ UNCHANGED history
              \/ nvs' = nvs /\ Happens("nvs")
        \/ ~(Min <= v /\ v <= Max) /\ UNCHANGED <<device, history>>
  /\ UNCHANGED <<api, view, settings, waiting, saves>>

Reboot ==
  /\ param' = nvs
  /\ UNCHANGED <<nvs, commands, api, view, settings, waiting, saves, history>>

LoseCommand ==
  /\ commands # <<>> /\ Happens("lost") /\ commands' = Tail(commands)
  /\ UNCHANGED <<device, api, view, settings, waiting, saves>>

-----------------------------------------------------------------------------
(* The API.                                                                 *)

\* configUpdate of the schemas.
Valid(v) == Min <= v /\ v <= Max

\* sendConfig publishes, and waits for the broker.
ApiPublishes(r) ==
  /\ Valid(r.value) /\ requests' = requests \ {r}
  /\ commands' = Append(commands, r.value) /\ unacked' = Append(unacked, r)
  /\ UNCHANGED <<device, registry, answers, view, settings, waiting, saves, history>>

ApiRefuses(r) ==
  /\ ~Valid(r.value) /\ requests' = requests \ {r}
  /\ answers' = answers \union {r.n}
  /\ UNCHANGED <<device, commands, registry, unacked, view, settings, waiting, saves, history>>

\* A read is under way, or the page shown is not the one that saved.
Behind(n) ==
  \/ get # None
  \/ page # None /\ ~\E w \in waiting : w.n = n /\ w.page = page

\* Mutant of RegistryParam: the answer is built before the registry is written.
RegistryParamKept(r) == registry

RegistryParam(r) == r.value

ApiPatches ==
  /\ unacked # <<>> /\ unacked' = Tail(unacked)
  /\ LET r == Head(unacked)
     IN /\ registry' = RegistryParam(r) /\ answers' = answers \union {r.n}
        /\ history' = IF Behind(r.n) THEN history \union {"stale"} ELSE history
  /\ UNCHANGED <<device, commands, requests, view, settings, waiting, saves>>

ApiCrashes ==
  /\ requests # {} \/ unacked # <<>>
  /\ Happens("crash") /\ requests' = {} /\ unacked' = <<>>
  /\ UNCHANGED <<device, commands, registry, answers, view, settings, waiting, saves>>

-----------------------------------------------------------------------------
(* The tab.                                                                 *)

\* The draft becomes d; a save under way will store it.
Draft(d) ==
  /\ draft' = d
  /\ history' = IF d # draft /\ Saving("settings") THEN history \union {"moved"} ELSE history

\* A page is opened.  SettingsPage resets its draft; a handler of the dashboard
\* that is left changes nothing any more, and a reload ends all of them.
Open(p, reload) ==
  /\ page' = p /\ get' = None /\ loaded' = FALSE /\ dirty' = FALSE /\ form' = Default
  /\ waiting' = {w \in waiting : ~reload /\ w.page = "settings"}
  /\ Draft(IF p = "settings" \/ reload THEN saved ELSE draft)
  /\ UNCHANGED <<device, commands, api, unsaved, saved, saves>>

\* getDevice reads the registry at once and answers after the database.
Ask ==
  /\ page # None /\ ~loaded /\ get = None /\ get' = registry
  /\ UNCHANGED <<device, commands, api, page, loaded, form, dirty, unsaved, settings, waiting,
                 saves, history>>

\* seedDeviceParams, or the effect of the dashboard for a new device.
Fill ==
  /\ get # None /\ get' = None /\ loaded' = TRUE /\ unsaved' = unsaved \ {page}
  /\ IF page = "settings"
     THEN /\ saved' = get
          /\ Draft(IF draft = saved THEN get ELSE draft)
          /\ UNCHANGED <<form, dirty>>
     ELSE /\ form' = get /\ dirty' = FALSE
          /\ UNCHANGED <<settings, history>>
  /\ UNCHANGED <<device, commands, api, page, waiting, saves>>

\* The dashboard shows its error from now on; the settings are asked again.
GetFails ==
  /\ get # None /\ get' = None
  /\ page' = IF page = "settings" THEN page ELSE None
  /\ UNCHANGED <<device, commands, api, loaded, form, dirty, unsaved, settings, waiting, saves,
                 history>>

\* Typing in SettingsPage.
EditDraft ==
  /\ page = "settings"
  /\ \E d \in Texts : Draft(d)
  /\ UNCHANGED <<device, commands, api, view, saved, waiting, saves>>

\* "Batalkan", for a draft that differs, and "Default".
Revert ==
  /\ page = "settings"
  /\ \E d \in {saved, Default} : Draft(d)
  /\ UNCHANGED <<device, commands, api, view, saved, waiting, saves>>

\* Typing or sliding in the dashboard, whose fields take digits only.
EditForm ==
  /\ page = "dashboard" /\ loaded
  /\ form' \in {t \in Texts : Round[t] = t} /\ dirty' = TRUE
  /\ UNCHANGED <<device, commands, api, page, get, loaded, unsaved, settings, waiting, saves,
                 history>>

\* handleSave of SettingsPage: Math.round(Number(t)) || 600.
SettingsValue(t) == IF Round[t] = 0 THEN Default ELSE Round[t]

\* handleSaveConfig of the dashboard: clamped into the range.
FormValue(t) == IF Round[t] < Min THEN Min ELSE IF Round[t] > Max THEN Max ELSE Round[t]

SendSave(p, v) ==
  /\ saves < MaxSaves /\ saves' = saves + 1
  /\ waiting'  = waiting  \union {[n |-> saves', page |-> p, value |-> v]}
  /\ requests' = requests \union {[n |-> saves', value |-> v]}
  /\ UNCHANGED <<device, commands, registry, unacked, answers, view, settings, history>>

\* The button waits for a change of any field, the timeout or another one, and is
\* not disabled while a save is under way.
SaveSettings == page = "settings" /\ SendSave(page, SettingsValue(draft))

\* This one is.
SaveForm == /\ page = "dashboard" /\ loaded /\ dirty /\ ~Saving("dashboard")
            /\ SendSave(page, FormValue(form))

\* Mutant of FormAfterSave: the fields keep what was typed.
FormAfterSaveTyped(w) == form

FormAfterSave(w) == w.value

\* Mutant of SavedAfterSave: the draft is sent and never saved.
SavedAfterSaveNothing == saved

SavedAfterSave == draft

\* What a handler does after the request, whether it was successful or not.
Finish(w) ==
  /\ waiting' = waiting \ {w} /\ answers' = answers \ {w.n}
  /\ IF w.page = "settings"
     THEN saved' = SavedAfterSave /\ UNCHANGED <<draft, view>>
     ELSE form' = FormAfterSave(w) /\ dirty' = FALSE /\ UNCHANGED <<settings, page, get, loaded>>
  /\ UNCHANGED <<device, commands, registry, requests, unacked, saves>>

\* The API has patched the registry, or refused the value.
Answered(w) ==
  /\ w.n \in answers /\ Finish(w) /\ UNCHANGED history
  /\ unsaved' = IF Valid(w.value) THEN unsaved \ {w.page} ELSE unsaved \union {w.page}

\* The API still works on save n.
Alive(n) == \/ \E r \in requests : r.n = n
            \/ \E i \in DOMAIN unacked : unacked[i].n = n

\* An error, or the timeout of 12 s.
SaveFails(w) ==
  /\ Finish(w) /\ unsaved' = unsaved \union {w.page}
  /\ \/ (Alive(w.n) \/ w.n \in answers) /\ Happens("failed")
     \/ ~Alive(w.n) /\ w.n \notin answers /\ UNCHANGED history

-----------------------------------------------------------------------------
ParamNext ==
  \/ ConfigUpdate \/ Reboot \/ LoseCommand
  \/ \E r \in requests : ApiPublishes(r) \/ ApiRefuses(r)
  \/ ApiPatches \/ ApiCrashes
  \/ \E p \in Pages, reload \in BOOLEAN : Open(p, reload)
  \/ Ask \/ Fill \/ GetFails \/ EditDraft \/ Revert \/ EditForm \/ SaveSettings \/ SaveForm
  \/ \E w \in waiting : Answered(w) \/ SaveFails(w)

ParamSpec == ParamInit /\ [][ParamNext]_paramVars

-----------------------------------------------------------------------------
(* Properties.                                                              *)

ParamTypeOK ==
  /\ {param, nvs, registry} \subseteq Min .. Max /\ unsaved \subseteq Pages
  /\ page \in Pages \union {None} /\ get \in Texts \union {None}
  /\ loaded \in BOOLEAN /\ dirty \in BOOLEAN
  /\ {form, saved, draft} \subseteq Texts
  /\ waiting \subseteq [n : 1 .. MaxSaves, page : Pages, value : Int]

Idle == requests = {} /\ unacked = <<>> /\ commands = <<>>

\* When no command is lost, the API does not crash and the flash works, the device
\* has the timeout of the registry once all commands are through, rebooted or not:
\* the API patches in the order it published and accepts nothing the device refuses.
ParamAgrees ==
  /\ ParamTypeOK
  /\ Idle /\ history \intersect {"lost", "crash", "nvs"} = {} => registry = param

\* What the settings show as saved is, rounded and with blank read as the default,
\* what the registry holds, unless the last save of the page failed or was refused
\* and no read came after it; if the draft never changed while a save was under way
\* and no patch overtook a read or found the other page.  The text itself may
\* differ: 600.5 stays shown where 601 is held.
SavedIsHeld ==
  /\ page = "settings" /\ loaded /\ Idle /\ waiting = {}
  /\ "settings" \notin unsaved /\ history \intersect {"moved", "stale"} = {}
  => registry = SettingsValue(saved)

\* The form of the dashboard, when it counts as saved, shows what the registry holds,
\* whatever was typed before and while it was saved, and again as soon as a save
\* succeeds or the page is filled anew; if no patch overtook a read or found the
\* other page.  After a save that failed the form shows a value which was not saved
\* and counts as saved: that is the case unsaved leaves out.
FormHolds ==
  /\ page = "dashboard" /\ loaded /\ ~dirty /\ Idle /\ waiting = {}
  /\ "dashboard" \notin unsaved /\ "stale" \notin history
  => registry = form
=============================================================================
