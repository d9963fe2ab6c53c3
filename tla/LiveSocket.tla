------------------------------ MODULE LiveSocket ------------------------------
(***************************************************************************)
(* The WebSocket of one browser tab (WsService) and the gateway it talks to.  *)
(*                                                                          *)
(* The pages call connect() when they are opened; nothing in the dashboard    *)
(* calls disconnect().  A socket that closes arms a timer of 3 s, which opens *)
(* the next one.  connect() looks only at the newest socket, the timer at     *)
(* none, and the handlers of a replaced socket go on working: so a page       *)
(* opened while a timer runs can leave the tab with one socket more.          *)
(* Neither side sends pings: a connection that is lost without a word stays   *)
(* open for the tab.                                                          *)
(***************************************************************************)
EXTENDS Naturals, FiniteSets

CONSTANTS
  Sockets,     \* a socket that is closed is collected and its name used again
  MaxSurplus,  \* bound: times a page opens a second socket
  MaxStops     \* bound: times the gateway stops

ASSUME ConstantsAssumption ==
  IsFiniteSet(Sockets) /\ MaxSurplus \in Nat /\ MaxStops \in Nat

VARIABLES
  wanted,     \* shouldConnect
  newest,     \* this.ws: a set of at most one socket
  state,      \* readyState of each socket
  timerSet,   \* whether reconnectTimer is not null
  armed,      \* whether the timeout behind it will fire
  up,         \* whether the gateway runs
  clients,    \* the sockets the gateway knows
  lost,       \* the connections lost without a word
  surplus,    \* number of times a page opened a socket while one was to be reopened
  stops       \* count for the bound

tab        == <<wanted, newest, state, timerSet, armed, surplus>>
gateway    == <<up, clients, lost, stops>>
socketVars == <<tab, gateway>>

States == {"connecting", "open", "closing", "closed"}

SocketInit ==
  /\ wanted = FALSE /\ newest = {} /\ state = [s \in Sockets |-> "closed"]
  /\ timerSet = FALSE /\ armed = FALSE /\ surplus = 0
  /\ up = TRUE /\ clients = {} /\ lost = {} /\ stops = 0

Live == {s \in Sockets : state[s] # "closed"}
Reconnecting == armed \/ \E s \in Sockets : state[s] = "closing"

-----------------------------------------------------------------------------
(* The tab.                                                                 *)

\* _open: this.ws is the new socket; the one before keeps its handlers.
OpenSocket ==
  \E s \in Sockets \ Live : newest' = {s} /\ state' = [state EXCEPT ![s] = "connecting"]

\* Mutant of Serves: connect() does not look at the socket it has.
ServesNever == FALSE

Serves == \E s \in newest : state[s] \in {"connecting", "open"}

\* connect(), when a page is opened.
Connect ==
  /\ wanted' = TRUE
  /\ \/ Serves /\ UNCHANGED <<newest, state, surplus>>
     \/ /\ ~Serves /\ OpenSocket
        /\ surplus' = IF Reconnecting THEN surplus + 1 ELSE surplus
        /\ surplus' <= MaxSurplus
  /\ UNCHANGED <<timerSet, armed, gateway>>

\* The timer is cleared.
OnOpen(s) ==
  /\ state[s] = "connecting" /\ up
  /\ state' = [state EXCEPT ![s] = "open"] /\ clients' = clients \union {s}
  /\ timerSet' = FALSE /\ armed' = FALSE
  /\ UNCHANGED <<wanted, newest, surplus, up, lost, stops>>

\* The other side closes, or refuses; a lost connection may show up late or never.
Closing(s) ==
  /\ \/ state[s] = "connecting" /\ ~up
     \/ state[s] = "open" /\ s \notin clients
  /\ state' = [state EXCEPT ![s] = "closing"] /\ lost' = lost \ {s}
  /\ UNCHANGED <<wanted, newest, timerSet, armed, surplus, up, clients, stops>>

\* _scheduleReconnect: one timer at a time.
OnClose(s) ==
  /\ state[s] = "closing" /\ state' = [state EXCEPT ![s] = "closed"]
  /\ IF wanted /\ ~timerSet THEN timerSet' = TRUE /\ armed' = TRUE
                            ELSE UNCHANGED <<timerSet, armed>>
  /\ UNCHANGED <<wanted, newest, surplus, gateway>>

\* Mutant of AfterFiring: the handler of the timer forgets to clear the field.
AfterFiringKept == timerSet

AfterFiring == FALSE

OnTimer ==
  /\ armed /\ armed' = FALSE /\ timerSet' = AfterFiring
  /\ wanted /\ OpenSocket
  /\ UNCHANGED <<wanted, surplus, gateway>>

-----------------------------------------------------------------------------
(* The gateway and the network.                                             *)

\* The process ends and terminates its sockets.
Stop ==
  /\ up /\ stops < MaxStops
  /\ up' = FALSE /\ clients' = {} /\ stops' = stops + 1
  /\ UNCHANGED <<tab, lost>>

Start ==
  /\ ~up /\ up' = TRUE
  /\ UNCHANGED <<tab, clients, lost, stops>>

\* The connection of s is gone; only the gateway comes to know.
Lose(s) ==
  /\ s \in clients /\ clients' = clients \ {s} /\ lost' = lost \union {s}
  /\ UNCHANGED <<tab, up, stops>>

SocketNext ==
  \/ Connect \/ OnTimer \/ Stop \/ Start
  \/ \E s \in Sockets : OnOpen(s) \/ Closing(s) \/ OnClose(s) \/ Lose(s)

\* The browser fires its timers and events, those of lost connections excepted,
\* and the gateway is started again.
SocketFairness ==
  /\ WF_socketVars(OnTimer) /\ WF_socketVars(Start)
  /\ \A s \in Sockets : WF_socketVars(OnOpen(s) \/ (s \notin lost /\ Closing(s)) \/ OnClose(s))

SocketSpec == SocketInit /\ [][SocketNext]_socketVars /\ SocketFairness

-----------------------------------------------------------------------------
(* Properties.                                                              *)

SocketTypeOK ==
  /\ wanted \in BOOLEAN /\ timerSet \in BOOLEAN /\ armed \in BOOLEAN /\ up \in BOOLEAN
  /\ state \in [Sockets -> States] /\ newest \subseteq Sockets
  /\ Cardinality(newest) = (IF wanted THEN 1 ELSE 0)
  /\ clients \subseteq Sockets /\ lost \subseteq Sockets
  /\ surplus \in 0 .. MaxSurplus /\ stops \in 0 .. MaxStops

\* Once a page has asked for it, the tab always has a socket that lives or a timer
\* that will open one, and the field that guards the timer tells the truth.
NeverStranded == (wanted => Live # {} \/ armed) /\ (timerSet <=> armed)

\* A tab has one socket, and at most one more for each time a page was opened while
\* a timer ran or a socket was closing: every message then arrives more than once.
OneSocket == Cardinality(Live) + (IF armed THEN 1 ELSE 0) <= 1 + surplus

\* The tab comes to be connected, unless a connection was lost without a word.
Reconnects == wanted ~> ((\E s \in clients : state[s] = "open") \/ lost # {})
=============================================================================
