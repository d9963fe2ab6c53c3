----------------------------- MODULE BrowserProofs -----------------------------
(***************************************************************************)
(* Proofs about what the tabs of a browser keep beside the page of a device.  *)
(*                                                                          *)
(* Session: a session which the API still accepts is not ended without a      *)
(* reason.  LiveSocket, for any number of sockets: a tab that asked for a     *)
(* connection is never left without a socket or a timer, and has no more      *)
(* sockets than the pages opened at the wrong moment account for.             *)
(* Parameters, for any values and any number of saves: device, registry and   *)
(* the two forms agree.  The three share no state.                            *)
(***************************************************************************)
EXTENDS Session, LiveSocket, Parameters, FiniteSetTheorems, SequenceTheorems, TLAPS

-----------------------------------------------------------------------------
(* Session.                                                                *)

\* A request that has been refused carries a token the API accepts no more.
RefusedIsDead == \A c \in calls : c.answer = "refused" => c.token \notin alive

SessionInv == TypeOK /\ RefusedIsDead

\* The inductive invariant holds at the start.
LEMMA SessionStarts == Init => SessionInv
  BY SessionAssumption DEF Init, SessionInv, TypeOK, RefusedIsDead, Held

\* It is kept by the answers of the API to requests: only a token that is not
\* accepted is refused.
LEMMA VerifyKeeps == ASSUME SessionInv, NEW c \in calls, Verify(c) PROVE SessionInv'
<1>1. c \in Call /\ calls \subseteq Call
  BY DEF SessionInv, TypeOK
<1> DEFINE d == [c EXCEPT !.answer = IF Accepts(c) THEN "ok" ELSE "refused"]
<1>2. calls' = (calls \ {c}) \union {d} /\ alive' = alive /\ issued' = issued
  BY DEF Verify
<1>3. d \in Call /\ d.token = c.token /\ Call' = Call
  BY <1>1, <1>2 DEF Call, Held
<1>4. d.answer = "refused" => c.token \notin alive
  BY <1>1 DEF Call, Accepts
<1>5. TypeOK'
  <2>1. calls' \subseteq Call'
    BY <1>1, <1>2, <1>3
  <2> QED
    BY <2>1 DEF SessionInv, TypeOK, Verify, Held
<1>6. RefusedIsDead'
  <2> SUFFICES ASSUME NEW e \in calls', e.answer = "refused" PROVE e.token \notin alive'
    BY DEF RefusedIsDead
  <2>1. CASE e = d
    BY <2>1, <1>2, <1>3, <1>4
  <2>2. CASE e \in calls
    BY <2>2, <1>2 DEF SessionInv, RefusedIsDead
  <2> QED
    BY <2>1, <2>2, <1>2
<1> QED
  BY <1>5, <1>6 DEF SessionInv

\* It is kept when a token is issued: the token is new, no request carries it.
LEMMA GrantKeeps == ASSUME SessionInv, NEW t \in Tabs, Grant(t) PROVE SessionInv'
<1>1. issued \in Nat /\ issued < MaxLogins /\ issued' = issued + 1 /\ Held \subseteq Held'
  BY SessionAssumption DEF SessionInv, TypeOK, Grant, Held
<1>2. Call \subseteq Call'
  BY <1>1 DEF Call
<1>3. TypeOK'
  <2>1. issued' \in 0 .. MaxLogins /\ alive' \subseteq 1 .. issued'
    BY <1>1, SessionAssumption DEF SessionInv, TypeOK, Grant
  <2>2. granted' \subseteq Tabs \X (1 .. issued')
    BY <1>1 DEF SessionInv, TypeOK, Grant
  <2>3. storage' \in Held' /\ calls' \subseteq Call'
    BY <1>1, <1>2 DEF SessionInv, TypeOK, Grant
  <2> QED
    BY <2>1, <2>2, <2>3 DEF SessionInv, TypeOK, Grant
<1>4. RefusedIsDead'
  <2> SUFFICES ASSUME NEW c \in calls, c.answer = "refused" PROVE c.token \notin alive'
    BY DEF RefusedIsDead, Grant
  <2>1. c.token \in Held /\ c.token \notin alive
    BY DEF SessionInv, TypeOK, RefusedIsDead, Call
  <2>2. c.token # issued + 1
    BY <2>1, <1>1, SessionAssumption DEF Held
  <2> QED
    BY <2>1, <2>2, <1>1 DEF Grant
<1> QED
  BY <1>3, <1>4 DEF SessionInv

\* It is kept by every other step: no token becomes acceptable, and a request is
\* sent unanswered.
LEMMA OthersKeep ==
  ASSUME SessionInv,
         \/ \E t \in Tabs : \/ Submit(t) \/ LoginAnswers(t) \/ LoginFails(t) \/ Logout(t)
                            \/ Send(t) \/ Load(t)
         \/ \E k \in alive : Expire(k)
         \/ \E c \in calls : Done(c) \/ Refused(c)
         \/ UNCHANGED vars
  PROVE  SessionInv'
<1> USE DEF SessionInv, TypeOK, RefusedIsDead
<1>1. issued' = issued /\ alive' \subseteq alive /\ Held' = Held /\ Call' = Call
  BY DEF Submit, LoginAnswers, LoginFails, Logout, Send, Load, Expire, Done, Refused, vars,
         Held, Call
<1>2. ASSUME calls' \subseteq calls PROVE calls' \subseteq Call' /\ RefusedIsDead'
  BY <1>1, <1>2
<1>3. ASSUME NEW t \in Tabs, Submit(t) PROVE SessionInv'
  BY <1>1, <1>2, <1>3 DEF Submit
<1>4. ASSUME NEW t \in Tabs, LoginAnswers(t) PROVE SessionInv'
  <2>1. storage' \in Held
    BY <1>4 DEF LoginAnswers, Held
  <2> QED
    BY <1>1, <1>2, <1>4, <2>1 DEF LoginAnswers
<1>5. ASSUME NEW t \in Tabs, LoginFails(t) PROVE SessionInv'
  BY <1>1, <1>2, <1>5 DEF LoginFails
<1>6. ASSUME NEW t \in Tabs, Logout(t) PROVE SessionInv'
  BY <1>1, <1>2, <1>6 DEF Logout, Held
<1>7. ASSUME NEW t \in Tabs, Send(t) PROVE SessionInv'
  <2>1. [tab |-> t, token |-> storage, answer |-> "none"] \in Call
    BY DEF Call
  <2>2. calls' \subseteq Call' /\ RefusedIsDead'
    BY <1>1, <1>7, <2>1 DEF Send
  <2> QED
    BY <1>1, <1>7, <2>2 DEF Send
<1>8. ASSUME NEW t \in Tabs, Load(t) PROVE SessionInv'
  BY <1>1, <1>2, <1>8 DEF Load, Rehydrated
<1>9. ASSUME NEW k \in alive, Expire(k) PROVE SessionInv'
  BY <1>1, <1>2, <1>9 DEF Expire
<1>10. ASSUME NEW c \in calls, Done(c) PROVE SessionInv'
  BY <1>1, <1>2, <1>10 DEF Done
<1>11. ASSUME NEW c \in calls, Refused(c) PROVE SessionInv'
  <2>1. c.tab \in Tabs
    BY DEF Call
  <2> QED
    BY <1>1, <1>2, <1>11, <2>1 DEF Refused, Held
<1>12. ASSUME UNCHANGED vars PROVE SessionInv'
  BY <1>1, <1>2, <1>12 DEF vars
<1> QED
  BY <1>3, <1>4, <1>5, <1>6, <1>7, <1>8, <1>9, <1>10, <1>11, <1>12

LEMMA SessionInductive == SessionInv /\ [Next]_vars => SessionInv'
  BY VerifyKeeps, GrantKeeps, OthersKeep DEF Next

\* A session that the API accepts ends by a logout, by a newer login, or through
\* the refusal of a request with another token.
THEOREM SessionEnds == Spec => SessionEndsForReason
<1> DEFINE Reason ==
      (storage \in alive /\ storage' = NoToken) =>
        ((\E t \in Tabs : signedIn[t] /\ ~signedIn'[t])
         \/ (\E c \in calls \ calls' : c.answer = "refused" /\ c.token # storage))
<1>1. SessionInv /\ [Next]_vars => [Reason]_vars
  <2> SUFFICES ASSUME SessionInv, Next, storage \in alive, storage' = NoToken
               PROVE  Reason
    OBVIOUS
  <2>1. storage # NoToken
    BY SessionAssumption DEF SessionInv, TypeOK
  <2>2. ASSUME NEW t \in Tabs, Logout(t) PROVE Reason
    <3>1. ~signedIn'[t] /\ signedIn[t]
      BY <2>2 DEF Logout, SessionInv, TypeOK
    <3> QED
      BY <3>1
  <2>3. ASSUME NEW c \in calls, Refused(c) PROVE Reason
    <3>1. c.token \notin alive /\ c \notin calls' /\ c.answer = "refused"
      BY <2>3 DEF SessionInv, RefusedIsDead, Refused, Rejects
    <3> QED
      BY <3>1
  <2>4. ASSUME NEW t \in Tabs, LoginAnswers(t) PROVE FALSE
    BY <2>4, SessionAssumption DEF LoginAnswers, SessionInv, TypeOK
  <2>5. CASE storage' = storage
    BY <2>5, <2>1
  <2> QED
    BY <2>2, <2>3, <2>4, <2>5
    DEF Next, Submit, Grant, LoginFails, Send, Load, Expire, Verify, Done
<1>3. Spec => []SessionInv
  BY SessionStarts, SessionInductive, PTL DEF Spec
<1> QED
  BY <1>1, <1>3, PTL DEF Spec, SessionEndsForReason

-----------------------------------------------------------------------------
(* LiveSocket.                                                             *)

\* Sockets the tab has or is about to have.
Used == Cardinality(Live) + (IF armed THEN 1 ELSE 0)

NewestLives == \E s \in newest : state[s] # "closed"

\* The strengthening: a tab that uses all it is allowed to has a timer that runs,
\* or its newest socket is not closed, so that connect() opens none unless one of
\* the two makes it count as a surplus.
SocketsInv ==
  /\ SocketTypeOK /\ NeverStranded /\ Used <= 1 + surplus
  /\ NewestLives \/ armed \/ Used <= surplus

LEMMA LiveCounts ==
  ASSUME SocketTypeOK
  PROVE  IsFiniteSet(Live) /\ Cardinality(Live) \in Nat /\ Live \subseteq Sockets
<1>1. Live \subseteq Sockets
  BY DEF Live
<1>2. IsFiniteSet(Live)
  BY <1>1, FS_Subset, ConstantsAssumption
<1> QED BY <1>1, <1>2, FS_CardinalityType

LEMMA SocketsStart == SocketInit => SocketsInv
<1> SUFFICES ASSUME SocketInit PROVE SocketsInv
  OBVIOUS
<1>1. Live = {} /\ Cardinality({}) = 0
  BY FS_EmptySet DEF SocketInit, Live
<1>2. SocketTypeOK
  <2>1. /\ wanted \in BOOLEAN /\ timerSet \in BOOLEAN /\ armed \in BOOLEAN /\ up \in BOOLEAN
        /\ ~wanted
    BY Zenon DEF SocketInit
  <2>2. Cardinality(newest) = (IF wanted THEN 1 ELSE 0)
    BY <1>1, <2>1 DEF SocketInit
  <2>3. surplus \in 0 .. MaxSurplus /\ stops \in 0 .. MaxStops
    BY ConstantsAssumption DEF SocketInit
  <2>4. state \in [Sockets -> States]
    BY DEF SocketInit, States
  <2> QED BY <2>1, <2>2, <2>3, <2>4 DEF SocketInit, SocketTypeOK
<1> QED BY <1>1, <1>2 DEF SocketInit, SocketsInv, Used, NeverStranded

\* A new socket is one more.
LEMMA OpenStep ==
  ASSUME SocketTypeOK, OpenSocket, wanted'
  PROVE  /\ Cardinality(Live') = Cardinality(Live) + 1 /\ Live' # {}
         /\ NewestLives'
         /\ newest' \subseteq Sockets /\ state' \in [Sockets -> States]
         /\ Cardinality(newest') = 1
<1>1. PICK s \in Sockets \ Live :
        newest' = {s} /\ state' = [state EXCEPT ![s] = "connecting"]
  BY DEF OpenSocket
<1>2. Live' = Live \union {s}
  BY <1>1 DEF Live, SocketTypeOK
<1>3. Cardinality(Live \union {s}) = Cardinality(Live) + 1
  BY <1>1, LiveCounts, FS_AddElement
<1>4. NewestLives'
  BY <1>1 DEF NewestLives, SocketTypeOK
<1>5. Cardinality({s}) = 1
  BY FS_Singleton
<1> QED BY <1>1, <1>2, <1>3, <1>4, <1>5 DEF SocketTypeOK, States

\* A closed socket is one less.
LEMMA CloseStep ==
  ASSUME SocketTypeOK, NEW s \in Sockets, state[s] # "closed",
         state' = [state EXCEPT ![s] = "closed"]
  PROVE  Cardinality(Live') = Cardinality(Live) - 1
<1>1. Live' = Live \ {s} /\ s \in Live
  BY DEF Live, SocketTypeOK
<1> QED BY <1>1, LiveCounts, FS_RemoveElement

\* A change among the states that are not "closed" leaves the number as it is.
LEMMA SameLive ==
  ASSUME SocketTypeOK, NEW s \in Sockets, NEW v \in States \ {"closed"},
         state[s] # "closed", state' = [state EXCEPT ![s] = v], newest' = newest
  PROVE  Live' = Live /\ NewestLives' = NewestLives /\ state' \in [Sockets -> States]
<1>1. state' \in [Sockets -> States]
  BY DEF SocketTypeOK
<1>2. \A r \in Sockets : (state'[r] # "closed") <=> (state[r] # "closed")
  BY DEF SocketTypeOK
<1> QED BY <1>1, <1>2 DEF Live, NewestLives, SocketTypeOK

LEMMA ConnectStep ==
  ASSUME SocketsInv, Connect
  PROVE  SocketsInv'
<1> USE DEF SocketsInv, Connect, gateway
<1>1. CASE Serves /\ UNCHANGED <<newest, state, surplus>>
  <2>1. newest # {} /\ Live # {}
    <3>1. PICK s \in newest : state[s] \in {"connecting", "open"}
      BY <1>1 DEF Serves
    <3> QED BY <3>1 DEF Live, SocketTypeOK
  <2>2. wanted
    <3>1. IsFiniteSet(newest)
      BY FS_Subset, ConstantsAssumption DEF SocketTypeOK
    <3>2. Cardinality(newest) # 0
      BY <2>1, <3>1, FS_EmptySet
    <3> QED BY <3>2 DEF SocketTypeOK
  <2> QED BY <1>1, <2>1, <2>2
          DEF SocketTypeOK, NeverStranded, Used, NewestLives, Live
<1>2. CASE ~Serves /\ OpenSocket
  <2>1. Cardinality(Live') = Cardinality(Live) + 1 /\ Live' # {} /\ NewestLives'
    BY <1>2, OpenStep
  <2>2. surplus \in Nat /\ Cardinality(Live) \in Nat
    BY LiveCounts, ConstantsAssumption DEF SocketTypeOK
  <2>3. CASE Reconnecting
    <3>1. surplus' = surplus + 1
      BY <1>2, <2>3
    <3>2. Used' <= 1 + surplus'
      BY <2>1, <2>2, <3>1 DEF Used
    <3>3. SocketTypeOK'
      BY <1>2, <2>2, <3>1, OpenStep, ConstantsAssumption DEF SocketTypeOK
    <3> QED BY <2>1, <3>2, <3>3 DEF NeverStranded
  <2>4. CASE ~Reconnecting
    <3>1. surplus' = surplus
      BY <1>2, <2>4
    <3>2. ~armed /\ ~NewestLives
      BY <1>2, <2>4 DEF Reconnecting, NewestLives, Serves, SocketTypeOK, States
    <3>3. Used' <= 1 + surplus'
      BY <2>1, <2>2, <3>1, <3>2 DEF Used
    <3>4. SocketTypeOK'
      BY <1>2, <3>1, OpenStep DEF SocketTypeOK
    <3> QED BY <2>1, <3>3, <3>4 DEF NeverStranded
  <2> QED BY <2>3, <2>4
<1> QED BY <1>1, <1>2

LEMMA HandlersStep ==
  ASSUME SocketsInv, NEW s \in Sockets, OnOpen(s) \/ Closing(s) \/ OnClose(s)
  PROVE  SocketsInv'
<1> USE DEF SocketsInv
<1>a. surplus \in Nat /\ Cardinality(Live) \in Nat
  BY LiveCounts, ConstantsAssumption DEF SocketTypeOK
<1>1. CASE OnOpen(s)
  <2>1. Live' = Live /\ NewestLives' = NewestLives /\ state' \in [Sockets -> States]
    BY <1>1, SameLive DEF OnOpen, States
  <2>2. s \in Live
    BY <1>1 DEF OnOpen, Live
  <2>3. SocketTypeOK'
    BY <1>1, <2>1 DEF OnOpen, SocketTypeOK
  <2>4. Used' <= 1 + surplus' /\ (NewestLives' \/ Used' <= surplus')
    BY <1>1, <1>a, <2>1 DEF OnOpen, Used
  <2> QED BY <1>1, <2>1, <2>2, <2>3, <2>4 DEF OnOpen, NeverStranded
<1>2. CASE Closing(s)
  <2>1. Live' = Live /\ NewestLives' = NewestLives /\ state' \in [Sockets -> States]
    BY <1>2, SameLive DEF Closing, States
  <2>2. SocketTypeOK'
    BY <1>2, <2>1 DEF Closing, SocketTypeOK
  <2> QED BY <1>2, <2>1, <2>2 DEF Closing, NeverStranded, Used
<1>3. CASE OnClose(s)
  <2>1. Cardinality(Live') = Cardinality(Live) - 1
    BY <1>3, CloseStep DEF OnClose
  <2>2. SocketTypeOK'
    BY <1>3 DEF OnClose, SocketTypeOK, States, gateway
  <2>3. CASE armed
    <3>1. armed' /\ timerSet' /\ surplus' = surplus
      BY <1>3, <2>3 DEF OnClose, NeverStranded
    <3> QED BY <1>a, <2>1, <2>2, <2>3, <3>1 DEF NeverStranded, Used
  <2>4. CASE ~armed /\ wanted
    <3>1. armed' /\ timerSet' /\ surplus' = surplus
      BY <1>3, <2>4 DEF OnClose, NeverStranded
    <3> QED BY <1>a, <2>1, <2>2, <2>4, <3>1 DEF NeverStranded, Used
  <2>5. CASE ~armed /\ ~wanted
    <3>1. ~armed' /\ ~timerSet' /\ ~wanted' /\ surplus' = surplus
      BY <1>3, <2>5 DEF OnClose, NeverStranded
    <3>2. Used' <= surplus'
      BY <1>a, <2>1, <2>5, <3>1 DEF Used
    <3>3. Used' <= 1 + surplus'
      BY <1>a, <3>1, <3>2, <2>1 DEF Used
    <3> QED BY <2>2, <3>1, <3>2, <3>3, Zenon DEF NeverStranded
  <2> QED BY <2>3, <2>4, <2>5
<1> QED BY <1>1, <1>2, <1>3

LEMMA TimerStep ==
  ASSUME SocketsInv, OnTimer
  PROVE  SocketsInv'
<1> USE DEF SocketsInv, OnTimer, gateway
<1>1. Cardinality(Live') = Cardinality(Live) + 1 /\ Live' # {} /\ NewestLives'
  BY OpenStep
<1>2. Cardinality(Live) \in Nat /\ surplus \in Nat
  BY LiveCounts, ConstantsAssumption DEF SocketTypeOK
<1>3. SocketTypeOK'
  BY OpenStep DEF SocketTypeOK, AfterFiring
<1> QED BY <1>1, <1>2, <1>3 DEF Used, NeverStranded, AfterFiring

LEMMA SocketsInductive == SocketsInv /\ [SocketNext]_socketVars => SocketsInv'
<1> SUFFICES ASSUME SocketsInv, [SocketNext]_socketVars PROVE SocketsInv'
  OBVIOUS
<1>1. ASSUME UNCHANGED tab, SocketTypeOK' PROVE SocketsInv'
  BY <1>1 DEF SocketsInv, tab, NeverStranded, Used, NewestLives, Live
<1>2. CASE Stop \/ Start
  <2>1. UNCHANGED tab
    BY <1>2 DEF Stop, Start
  <2>2. SocketTypeOK'
    <3>1. up' \in BOOLEAN
      BY <1>2, Zenon DEF Stop, Start
    <3>2. stops' \in 0 .. MaxStops
      BY <1>2, ConstantsAssumption DEF Stop, Start, SocketsInv, SocketTypeOK
    <3>3. clients' \subseteq Sockets /\ lost' = lost
      BY <1>2 DEF Stop, Start, SocketsInv, SocketTypeOK
    <3> QED BY <2>1, <3>1, <3>2, <3>3 DEF tab, SocketsInv, SocketTypeOK
  <2> QED BY <1>1, <2>1, <2>2
<1>3. ASSUME NEW s \in Sockets, Lose(s) PROVE SocketsInv'
  <2>1. UNCHANGED tab
    BY <1>3 DEF Lose
  <2>2. SocketTypeOK'
    BY <1>3 DEF Lose, tab, SocketsInv, SocketTypeOK
  <2> QED BY <1>1, <2>1, <2>2
<1>4. CASE UNCHANGED socketVars
  <2>1. SocketTypeOK'
    BY <1>4 DEF socketVars, tab, gateway, SocketsInv, SocketTypeOK
  <2> QED BY <1>1, <1>4, <2>1 DEF socketVars
<1> QED BY <1>2, <1>3, <1>4, ConnectStep, HandlersStep, TimerStep DEF SocketNext

\* Type correctness, and: once a page has asked for it, the tab always has a
\* socket that lives or a timer that will open one (ws.ts:42-47, 114-127).
THEOREM TabNeverStranded == SocketSpec => [](SocketTypeOK /\ NeverStranded)
<1>1. SocketsInv => SocketTypeOK /\ NeverStranded
  BY DEF SocketsInv
<1> QED BY <1>1, SocketsStart, SocketsInductive, PTL DEF SocketSpec

\* A tab has one socket, and at most one more for each page opened while a timer
\* ran or a socket was closing.
THEOREM SocketsAccountedFor == SocketSpec => []OneSocket
<1>1. SocketsInv => OneSocket
  BY DEF SocketsInv, OneSocket, Used
<1> QED BY <1>1, SocketsStart, SocketsInductive, PTL DEF SocketSpec

-----------------------------------------------------------------------------
(* Queues.                                                                 *)

Elements(s) == {s[i] : i \in DOMAIN s}

\* What a variable with value v holds when the writes queued for it are done.
Final(s, v) == IF s = <<>> THEN v ELSE s[Len(s)]

\* A queue that grows.
LEMMA QueueGrows ==
  ASSUME NEW S, NEW s \in Seq(S), NEW x \in S
  PROVE  /\ Append(s, x) \in Seq(S) /\ Elements(Append(s, x)) = Elements(s) \union {x}
         /\ Append(s, x) # <<>>
         /\ \A v : Final(Append(s, x), v) = x
<1>1. /\ Append(s, x) \in Seq(S) /\ Len(Append(s, x)) = Len(s) + 1 /\ Len(s) \in Nat
      /\ \A i \in 1 .. Len(s) : Append(s, x)[i] = s[i]
      /\ Append(s, x)[Len(s) + 1] = x
  OBVIOUS
<1>2. DOMAIN Append(s, x) = 1 .. Len(s) + 1 /\ DOMAIN s = 1 .. Len(s)
  BY <1>1
<1>3. Append(s, x) # <<>>
  BY <1>1
<1>4. Elements(Append(s, x)) = Elements(s) \union {x}
  BY <1>1, <1>2 DEF Elements
<1> QED  BY <1>1, <1>3, <1>4 DEF Final

\* A queue whose head is taken.
LEMMA QueueShrinks ==
  ASSUME NEW S, NEW s \in Seq(S), s # <<>>
  PROVE  /\ Head(s) \in S /\ Tail(s) \in Seq(S)
         /\ Elements(s) = {Head(s)} \union Elements(Tail(s))
         /\ \A v : Final(Tail(s), Head(s)) = Final(s, v)
<1>1. /\ Len(s) \in Nat \ {0} /\ DOMAIN s = 1 .. Len(s)
      /\ Head(s) = s[1] /\ 1 \in 1 .. Len(s) /\ Head(s) \in S
  OBVIOUS
<1>2. /\ Tail(s) \in Seq(S) /\ Len(Tail(s)) = Len(s) - 1 /\ DOMAIN Tail(s) = 1 .. Len(s) - 1
      /\ \A i \in 1 .. Len(s) - 1 : Tail(s)[i] = s[i + 1] /\ i + 1 \in 1 .. Len(s)
  BY <1>1
<1>3. Elements(s) = {Head(s)} \union Elements(Tail(s))
  <2>1. Head(s) \in Elements(s) /\ Elements(Tail(s)) \subseteq Elements(s)
    BY <1>1, <1>2 DEF Elements
  <2>2. ASSUME NEW i \in 1 .. Len(s), i # 1 PROVE s[i] \in Elements(Tail(s))
    <3>1. i - 1 \in 1 .. Len(s) - 1 /\ (i - 1) + 1 = i
      BY <1>1, <2>2
    <3> QED  BY <1>2, <3>1 DEF Elements
  <2> QED  BY <1>1, <2>1, <2>2 DEF Elements
<1>4. ASSUME NEW v PROVE Final(Tail(s), Head(s)) = Final(s, v)
  <2>1. CASE Len(s) = 1
    BY <1>1, <1>2, <2>1 DEF Final
  <2>2. CASE Len(s) > 1
    <3>1. Tail(s) # <<>> /\ Len(s) - 1 \in 1 .. Len(s) - 1 /\ (Len(s) - 1) + 1 = Len(s)
      BY <1>1, <1>2, <2>2
    <3>2. Tail(s)[Len(Tail(s))] = s[Len(s)]
      BY <1>2, <3>1
    <3> QED  BY <3>1, <3>2 DEF Final
  <2> QED  BY <1>1, <2>1, <2>2
<1> QED  BY <1>1, <1>2, <1>3, <1>4

-----------------------------------------------------------------------------
(* Parameters.                                                             *)

\* Values the API accepts, and the saves it has not confirmed.
Values == Min .. Max
Sent   == requests \union Elements(unacked)

\* Saves under way carry numbers given out and the values the handlers wait for.
Books ==
  /\ saves \in 0 .. MaxSaves /\ registry \in Values
  /\ commands \in Seq(Values)
  /\ requests \subseteq [n : 1 .. MaxSaves, value : Int]
  /\ unacked \in Seq([n : 1 .. MaxSaves, value : Values])
  /\ answers \subseteq 1 .. saves
  /\ \A r \in Sent \union waiting : r.n <= saves
  /\ \A r \in Sent, w \in waiting : r.n = w.n => r.value = w.value
  /\ \A w \in waiting : w.page = "dashboard" => w.value \in Values

\* The values the forms send: of a text that shows a value of the range, the value.
LEMMA SentValues ==
  /\ \A t \in Texts : SettingsValue(t) \in Int /\ FormValue(t) \in Values
  /\ \A v \in Values : SettingsValue(v) = v /\ v \in Texts /\ v \in Int /\ Valid(v)
  /\ \A v \in Int : Valid(v) => v \in Values
  /\ Default \in Values /\ Values \subseteq Texts
<1>1. /\ Min \in Nat \ {0} /\ Max \in Nat /\ Min <= Default /\ Default <= Max /\ Default \in Nat
      /\ Values \subseteq Texts /\ Min <= Max
  BY ParametersAssumption DEF Values
<1>2. \A t \in Texts : Round[t] \in Int
  BY ParametersAssumption
<1>3. \A t \in Texts : SettingsValue(t) \in Int /\ FormValue(t) \in Values
  BY <1>1, <1>2 DEF SettingsValue, FormValue, Values
<1>4. \A v \in Values : Round[v] = v /\ v \in Int /\ v # 0 /\ Valid(v)
  BY <1>1, ParametersAssumption DEF Values, Valid
<1>5. \A v \in Values : SettingsValue(v) = v
  BY <1>4 DEF SettingsValue
<1>6. Default \in Values /\ \A v \in Int : Valid(v) => v \in Values
  BY <1>1 DEF Values, Valid
<1> QED  BY <1>1, <1>3, <1>4, <1>5, <1>6

\* Types, and that the books agree: a save is numbered once.
LEMMA ParametersTyped == ParamSpec => [](ParamTypeOK /\ Books)
<1>c. /\ Min \in Nat /\ Max \in Nat /\ Default \in Values /\ Default \in Texts
      /\ Values \subseteq Texts /\ Values \subseteq Int /\ Values = Min .. Max
  BY SentValues, ParametersAssumption DEF Values
<1>1. ParamInit => ParamTypeOK /\ Books
  <2> SUFFICES ASSUME ParamInit PROVE ParamTypeOK /\ Books
    OBVIOUS
  <2>1. registry \in Values
    BY DEF ParamInit, Values
  <2>2. ParamTypeOK
    BY <1>c, <2>1 DEF ParamInit, ParamTypeOK
  <2>3. Elements(unacked) = {}
    BY DEF ParamInit, Elements
  <2> QED  BY <2>1, <2>2, <2>3, ParametersAssumption DEF ParamInit, Books, Sent
<1>2. ASSUME ParamTypeOK, Books, [ParamNext]_paramVars PROVE ParamTypeOK' /\ Books'
  <2> USE <1>2
  <2>1. CASE ConfigUpdate
    <3>1. Head(commands) \in Values /\ commands' \in Seq(Values)
      BY <2>1, QueueShrinks DEF ConfigUpdate, Books
    <3>2. param' \in Min .. Max /\ nvs' \in Min .. Max
      BY <2>1, <3>1, <1>c DEF ConfigUpdate, ParamTypeOK, device
    <3>3. UNCHANGED <<api, view, settings, waiting, saves>>
      BY <2>1 DEF ConfigUpdate
    <3> QED  BY <3>1, <3>2, <3>3 DEF ParamTypeOK, Books, Sent, api, view, settings
  <2>2. CASE Reboot
    BY <2>2 DEF Reboot, ParamTypeOK, Books, Sent, api, view, settings
  <2>3. CASE LoseCommand
    <3>1. commands' \in Seq(Values)
      BY <2>3, QueueShrinks DEF LoseCommand, Books
    <3> QED  BY <2>3, <3>1 DEF LoseCommand, ParamTypeOK, Books, Sent, device, api, view, settings
  <2>4. ASSUME NEW r \in requests, ApiPublishes(r) PROVE ParamTypeOK' /\ Books'
    <3>1. r \in [n : 1 .. MaxSaves, value : Values] /\ r.value \in Values
      BY <2>4, SentValues DEF ApiPublishes, Books
    <3>2. /\ commands' \in Seq(Values) /\ unacked' \in Seq([n : 1 .. MaxSaves, value : Values])
          /\ Elements(unacked') = Elements(unacked) \union {r}
      <4>1. commands' = Append(commands, r.value) /\ unacked' = Append(unacked, r)
        BY <2>4 DEF ApiPublishes
      <4>2. commands \in Seq(Values) /\ unacked \in Seq([n : 1 .. MaxSaves, value : Values])
        BY DEF Books
      <4>3. commands' \in Seq(Values)
        BY <3>1, <4>1, <4>2, QueueGrows
      <4> DEFINE S == [n : 1 .. MaxSaves, value : Values]
      <4>4. unacked \in Seq(S) /\ r \in S
        BY <3>1, <4>2
      <4> HIDE DEF S
      <4>5. unacked' \in Seq(S) /\ Elements(unacked') = Elements(unacked) \union {r}
        BY <4>1, <4>4, QueueGrows
      <4> QED  BY <4>3, <4>5 DEF S
    <3>3. Sent' \subseteq Sent /\ requests' \subseteq requests
      BY <2>4, <3>2 DEF ApiPublishes, Sent
    <3>4. UNCHANGED <<param, nvs, registry, answers, page, get, loaded, form, dirty, unsaved,
                      saved, draft, waiting, saves, history>>
      BY <2>4 DEF ApiPublishes, device, view, settings
    <3> QED  BY <3>2, <3>3, <3>4 DEF ParamTypeOK, Books
  <2>5. ASSUME NEW r \in requests, ApiRefuses(r) PROVE ParamTypeOK' /\ Books'
    <3>1. Sent' \subseteq Sent /\ requests' \subseteq requests /\ r \in Sent
      BY <2>5 DEF ApiRefuses, Sent
    <3>2. r.n \in 1 .. saves
      BY <3>1 DEF Books
    <3>3. UNCHANGED <<param, nvs, registry, commands, unacked, page, get, loaded, form, dirty,
                      unsaved, saved, draft, waiting, saves>> /\ answers' = answers \union {r.n}
      BY <2>5 DEF ApiRefuses, device, view, settings
    <3> QED  BY <3>1, <3>2, <3>3 DEF ParamTypeOK, Books
  <2>6. CASE ApiPatches
    <3>1. /\ Head(unacked) \in [n : 1 .. MaxSaves, value : Values]
          /\ unacked' \in Seq([n : 1 .. MaxSaves, value : Values])
          /\ Elements(unacked') \subseteq Elements(unacked) /\ Head(unacked) \in Sent
      BY <2>6, QueueShrinks DEF ApiPatches, Books, Sent
    <3>2. Head(unacked).n \in 1 .. saves
      BY <3>1 DEF Books
    <3>3. /\ registry' = Head(unacked).value /\ answers' = answers \union {Head(unacked).n}
          /\ UNCHANGED <<param, nvs, commands, requests, page, get, loaded, form, dirty, unsaved,
                         saved, draft, waiting, saves>>
      BY <2>6 DEF ApiPatches, RegistryParam, device, view, settings
    <3>4. Sent' \subseteq Sent
      BY <3>1, <3>3 DEF Sent
    <3> QED  BY <1>c, <3>1, <3>2, <3>3, <3>4 DEF ParamTypeOK, Books
  <2>7. CASE ApiCrashes
    <3>1. Sent' = {}
      BY <2>7 DEF ApiCrashes, Sent, Elements
    <3> QED  BY <2>7, <3>1 DEF ApiCrashes, ParamTypeOK, Books, device, view, settings
  <2>8. ASSUME NEW p \in Pages, NEW reload \in BOOLEAN, Open(p, reload) PROVE ParamTypeOK' /\ Books'
    <3>1. /\ page' = p /\ get' = None /\ loaded' = FALSE /\ dirty' = FALSE /\ form' = Default
          /\ waiting' \subseteq waiting /\ draft' \in {saved, draft} /\ saved' = saved
          /\ UNCHANGED <<param, nvs, commands, registry, requests, unacked, answers, unsaved, saves>>
      BY <2>8 DEF Open, Draft, device, api
    <3>2. Sent' = Sent
      BY <3>1 DEF Sent, Elements
    <3> QED  BY <1>c, <3>1, <3>2 DEF ParamTypeOK, Books
  <2>9. CASE Ask \/ Fill \/ GetFails
    <3>1. /\ get' \in {None, registry} /\ loaded' \in BOOLEAN /\ dirty' \in BOOLEAN
          /\ page' \in {None, page} /\ {form', saved', draft'} \subseteq {form, saved, draft, get}
          /\ {form', saved', draft'} \subseteq {form, saved, draft} \/ get # None
          /\ unsaved' \subseteq unsaved
          /\ UNCHANGED <<param, nvs, commands, registry, requests, unacked, answers, waiting, saves>>
      <4>1. CASE Ask
        BY <4>1 DEF Ask, ParamTypeOK, device, api, settings
      <4>2. CASE Fill
        BY <4>2 DEF Fill, Draft, ParamTypeOK, device, api, settings
      <4>3. CASE GetFails
        BY <4>3 DEF GetFails, ParamTypeOK, device, api, settings
      <4> QED  BY <2>9, <4>1, <4>2, <4>3
    <3>2. Sent' = Sent
      BY <3>1 DEF Sent, Elements
    <3>3. registry \in Texts /\ (get # None => get \in Texts)
      BY <1>c DEF ParamTypeOK, Books
    <3>4. ParamTypeOK'
      BY <3>1, <3>3 DEF ParamTypeOK
    <3> QED  BY <3>1, <3>2, <3>4 DEF Books
  <2>10. CASE EditDraft \/ Revert \/ EditForm
    <3>1. /\ draft' \in Texts /\ form' \in Texts /\ dirty' \in BOOLEAN
          /\ UNCHANGED <<param, nvs, commands, registry, requests, unacked, answers, page, get,
                         loaded, unsaved, saved, waiting, saves>>
      <4>1. CASE EditDraft
        BY <4>1 DEF EditDraft, Draft, ParamTypeOK, device, api, view
      <4>2. CASE Revert
        BY <1>c, <4>2 DEF Revert, Draft, ParamTypeOK, device, api, view
      <4>3. CASE EditForm
        BY <4>3 DEF EditForm, ParamTypeOK, device, api, settings
      <4> QED  BY <2>10, <4>1, <4>2, <4>3
    <3>2. Sent' = Sent
      BY <3>1 DEF Sent, Elements
    <3> QED  BY <3>1, <3>2 DEF ParamTypeOK, Books
  <2>11. CASE SaveSettings \/ SaveForm
    <3>1. PICK v : /\ v \in Int /\ SendSave(page, v) /\ page \in Pages
                   /\ page = "dashboard" => v \in Values
      <4>1. draft \in Texts /\ form \in Texts
        BY DEF ParamTypeOK
      <4>2. SettingsValue(draft) \in Int /\ FormValue(form) \in Int /\ FormValue(form) \in Values
        BY <1>c, <4>1, SentValues
      <4> QED  BY <2>11, <4>2 DEF SaveSettings, SaveForm, Pages
    <3>2. /\ saves' = saves + 1 /\ saves < MaxSaves
          /\ waiting'  = waiting  \union {[n |-> saves + 1, page |-> page, value |-> v]}
          /\ requests' = requests \union {[n |-> saves + 1, value |-> v]}
          /\ UNCHANGED <<param, nvs, commands, registry, unacked, answers, page, get, loaded, form,
                         dirty, unsaved, saved, draft, history>>
      BY <3>1 DEF SendSave, device, view, settings
    <3>3. saves \in Nat /\ saves' \in 1 .. MaxSaves /\ \A n \in 1 .. saves : n \in 1 .. saves'
      BY <3>2, ParametersAssumption DEF Books
    <3>4. Sent' = Sent \union {[n |-> saves + 1, value |-> v]}
      BY <3>2 DEF Sent, Elements
    <3>5. \A r \in Sent \union waiting : r.n \in Nat /\ r.n <= saves /\ r.n # saves + 1
      <4>1. \A r \in Elements(unacked) : r \in [n : 1 .. MaxSaves, value : Values]
        <5> DEFINE S == [n : 1 .. MaxSaves, value : Values]
        <5> HIDE DEF S
        <5>1. unacked \in Seq(S)
          BY DEF Books, S
        <5>2. \A i \in DOMAIN unacked : unacked[i] \in S
          BY <5>1, ElementOfSeq
        <5> QED  BY <5>2 DEF Elements, S
      <4>2. \A r \in Sent \union waiting : r.n \in Nat
        BY <4>1 DEF Books, Sent, ParamTypeOK
      <4> QED  BY <3>3, <4>2 DEF Books
    <3>6. ParamTypeOK'
      BY <3>1, <3>2, <3>3 DEF ParamTypeOK
    <3>7. \A r \in Sent' \union waiting' : r.n <= saves'
      BY <3>2, <3>3, <3>4, <3>5
    <3>8. \A r \in Sent', w \in waiting' : r.n = w.n => r.value = w.value
      BY <3>2, <3>4, <3>5 DEF Books
    <3>10. \A w \in waiting' : w.page = "dashboard" => w.value \in Values
      BY <3>1, <3>2 DEF Books
    <3>9. requests' \subseteq [n : 1 .. MaxSaves, value : Int] /\ answers' \subseteq 1 .. saves'
      BY <3>1, <3>2, <3>3 DEF Books
    <3> QED  BY <3>2, <3>3, <3>6, <3>7, <3>8, <3>9, <3>10 DEF Books
  <2>12. ASSUME NEW w \in waiting, Answered(w) \/ SaveFails(w) PROVE ParamTypeOK' /\ Books'
    <3>1. /\ waiting' \subseteq waiting /\ answers' \subseteq answers
          /\ saved' \in {saved, draft} /\ dirty' \in {dirty, FALSE}
          /\ form' = form \/ (w.page # "settings" /\ form' = w.value)
          /\ unsaved' \subseteq unsaved \union {w.page}
          /\ UNCHANGED <<param, nvs, commands, registry, requests, unacked, page, get, loaded, draft,
                         saves>>
      BY <2>12 DEF Answered, SaveFails, Finish, FormAfterSave, SavedAfterSave, device,
                   view, settings
    <3>2. Sent' = Sent
      BY <3>1 DEF Sent, Elements
    <3>3. w.page \in Pages /\ (w.page # "settings" => w.value \in Texts)
      BY <1>c DEF ParamTypeOK, Books, Pages
    <3>4. ParamTypeOK'
      BY <3>1, <3>3 DEF ParamTypeOK
    <3> QED  BY <3>1, <3>2, <3>4 DEF Books
  <2>13. CASE UNCHANGED paramVars
    BY <2>13 DEF paramVars, ParamTypeOK, Books, Sent, device, api, view, settings
  <2> QED  BY <2>1, <2>2, <2>3, <2>4, <2>5, <2>6, <2>7, <2>8, <2>9, <2>10, <2>11, <2>12, <2>13
           DEF ParamNext
<1> QED  BY <1>1, <1>2, PTL DEF ParamSpec

\* While no command is lost, no API crashes and the flash works, the last save the
\* API published is the last command for the device.
Agreement ==
  history \intersect {"lost", "crash", "nvs"} = {} =>
    /\ nvs = param
    /\ Final(commands, param) =
         IF unacked = <<>> THEN registry ELSE Final(unacked, unacked).value

\* What happened is not forgotten.
LEMMA HistoryGrows ==
  ASSUME [ParamNext]_paramVars
  PROVE  history \subseteq history'
  BY DEF ParamNext, paramVars, ConfigUpdate, Reboot, LoseCommand, ApiPublishes, ApiRefuses,
         ApiPatches, ApiCrashes, Open, Ask, Fill, GetFails, EditDraft, Revert,
         EditForm, SaveSettings, SaveForm, SendSave, Answered, SaveFails, Happens, Draft

\* It is kept: the API publishes and patches in one order, the device accepts what
\* the API accepts, and a reboot loads what the flash was given.
LEMMA AgreementInvariant == ParamSpec => []Agreement
<1>1. ParamInit => Agreement
  BY DEF ParamInit, Agreement, Final
<1>2. ASSUME Books, Agreement, [ParamNext]_paramVars PROVE Agreement'
  <2> USE <1>2
  <2>0. history \subseteq history'
    BY HistoryGrows
  <2> SUFFICES ASSUME history' \intersect {"lost", "crash", "nvs"} = {} PROVE Agreement'
    BY DEF Agreement
  <2>00. /\ nvs = param /\ history \intersect {"lost", "crash", "nvs"} = {}
         /\ Final(commands, param) =
              IF unacked = <<>> THEN registry ELSE Final(unacked, unacked).value
    BY <2>0 DEF Agreement
  <2>1. CASE ConfigUpdate
    <3>1. Head(commands) \in Values /\ commands # <<>> /\ commands' = Tail(commands)
      BY <2>1, QueueShrinks DEF ConfigUpdate, Books
    <3>2. param' = Head(commands) /\ nvs' = param'
      BY <2>1, <3>1, SentValues DEF ConfigUpdate, Happens, Valid
    <3>3. Final(commands', param') = Final(commands, param)
      BY <3>1, <3>2, QueueShrinks DEF Books
    <3>4. UNCHANGED <<registry, unacked>>
      BY <2>1 DEF ConfigUpdate, api
    <3> QED  BY <2>00, <3>2, <3>3, <3>4 DEF Agreement
  <2>2. CASE LoseCommand \/ ApiCrashes
    BY <2>2 DEF LoseCommand, ApiCrashes, Happens
  <2>3. ASSUME NEW r \in requests, ApiPublishes(r) PROVE Agreement'
    <3>1. r.value \in Values
      BY <2>3, SentValues DEF ApiPublishes, Books
    <3>2. /\ commands' = Append(commands, r.value) /\ unacked' = Append(unacked, r)
          /\ UNCHANGED <<param, nvs, registry>>
      BY <2>3 DEF ApiPublishes, device
    <3>3. Final(commands', param) = r.value
      BY <3>1, <3>2, QueueGrows DEF Books
    <3>4. unacked' # <<>> /\ Final(unacked', unacked') = r
      <4> DEFINE S == [n : 1 .. MaxSaves, value : Values]
      <4>1. unacked \in Seq(S) /\ r \in S
        BY <3>1, <2>3 DEF Books
      <4> HIDE DEF S
      <4> QED  BY <3>2, <4>1, QueueGrows
    <3> QED  BY <2>00, <3>2, <3>3, <3>4 DEF Agreement
  <2>4. CASE ApiPatches
    <3>1. /\ unacked # <<>> /\ unacked' = Tail(unacked) /\ registry' = Head(unacked).value
          /\ UNCHANGED <<param, nvs, commands>>
      BY <2>4 DEF ApiPatches, RegistryParam, device
    <3>2. /\ Final(Tail(unacked), Head(unacked)) = Final(unacked, unacked)
      BY <3>1, QueueShrinks DEF Books
    <3>3. Final(unacked, unacked).value =
            IF unacked' = <<>> THEN registry' ELSE Final(unacked', unacked').value
      BY <3>1, <3>2 DEF Final
    <3> QED  BY <2>00, <3>1, <3>3 DEF Agreement
  <2>5. CASE UNCHANGED <<nvs, commands, registry, unacked>> /\ param' \in {param, nvs}
    BY <2>00, <2>5 DEF Agreement
  <2>6. CASE Reboot
    BY <2>5, <2>6 DEF Reboot, api
  <2>7. ASSUME NEW r \in requests, ApiRefuses(r) PROVE Agreement'
    BY <2>5, <2>7 DEF ApiRefuses, device
  <2>8. ASSUME NEW p \in Pages, NEW reload \in BOOLEAN, Open(p, reload) PROVE Agreement'
    BY <2>5, <2>8 DEF Open, device, api
  <2>9. CASE Ask \/ Fill \/ GetFails \/ EditDraft \/ Revert \/ EditForm
    BY <2>5, <2>9 DEF Ask, Fill, GetFails, EditDraft, Revert, EditForm, device, api
  <2>10. CASE SaveSettings \/ SaveForm
    BY <2>5, <2>10 DEF SaveSettings, SaveForm, SendSave, device
  <2>11. ASSUME NEW w \in waiting, Answered(w) \/ SaveFails(w) PROVE Agreement'
    BY <2>5, <2>11 DEF Answered, SaveFails, Finish, device
  <2>12. CASE UNCHANGED paramVars
    BY <2>5, <2>12 DEF paramVars, device, api
  <2> QED  BY <2>1, <2>2, <2>3, <2>4, <2>6, <2>7, <2>8, <2>9, <2>10, <2>11, <2>12 DEF ParamNext
<1> QED  BY <1>1, <1>2, ParametersTyped, PTL DEF ParamSpec

\* For any values and any number of saves of the two pages, in whatever order they
\* are published, confirmed and executed, and with reboots of the device between:
\* once all commands are through, the device has the timeout the registry holds,
\* if no command was lost, the API did not crash and the flash works
\* (commandService.js:42-72, app_main.c:527-548).
THEOREM DeviceHasParam == ParamSpec => []ParamAgrees
<1>1. ParamTypeOK /\ Agreement => ParamAgrees
  BY DEF Agreement, ParamAgrees, Idle, Final
<1> QED  BY <1>1, ParametersTyped, AgreementInvariant, PTL

\* The handlers of each page that wait for an answer.
SettingsWaits == {w \in waiting : w.page = "settings"}
FormWaits     == {w \in waiting : w.page = "dashboard"}

\* What the tab waits for: a read under way saw the registry of now, or one is
\* remembered that did not; the dashboard has one save under way at most, of a
\* valid value, and its form counts as edited until then.
TabWaits ==
  /\ get # None => page # None /\ ~loaded /\ ("stale" \notin history => get = registry)
  /\ \A w \in FormWaits :
       w.value \in Values /\ page # "settings" /\ (page = "dashboard" => loaded /\ dirty)
  /\ \A v, w \in FormWaits : v = w

\* It is kept: a page is left or opened anew only with what it waits for left
\* behind, and a read that a patch of the registry overtakes is remembered.
LEMMA TabWaitsInvariant == ParamSpec => []TabWaits
<1>1. ParamInit => TabWaits
  BY DEF ParamInit, TabWaits, FormWaits
<1>2. ASSUME ParamTypeOK, Books, TabWaits, [ParamNext]_paramVars PROVE TabWaits'
  <2> USE <1>2
  <2>0. history \subseteq history'
    BY HistoryGrows
  <2>1. CASE /\ UNCHANGED <<page, loaded, dirty, waiting>>
             /\ get' = None \/ UNCHANGED <<get, registry>> \/ "stale" \in history'
             /\ get' = None \/ UNCHANGED get
    BY <2>0, <2>1 DEF TabWaits, FormWaits
  <2>2. CASE ConfigUpdate \/ Reboot \/ LoseCommand \/ ApiCrashes
    BY <2>1, <2>2 DEF ConfigUpdate, Reboot, LoseCommand, ApiCrashes, api, view
  <2>3. ASSUME NEW r \in requests, ApiPublishes(r) \/ ApiRefuses(r) PROVE TabWaits'
    BY <2>1, <2>3 DEF ApiPublishes, ApiRefuses, view
  <2>4. CASE ApiPatches
    <3>1. get # None => "stale" \in history'
      BY <2>4 DEF ApiPatches, Behind
    <3> QED  BY <2>1, <2>4, <3>1 DEF ApiPatches, view
  <2>5. ASSUME NEW p \in Pages, NEW reload \in BOOLEAN, Open(p, reload) PROVE TabWaits'
    <3>1. get' = None /\ \A w \in waiting' : w.page = "settings"
      BY <2>5 DEF Open
    <3>2. FormWaits' = {}
      BY <3>1 DEF FormWaits
    <3> QED  BY <3>1, <3>2 DEF TabWaits
  <2>6. CASE Ask
    <3>1. page # None /\ ~loaded /\ get' = registry /\ UNCHANGED <<registry, page, loaded, dirty, waiting>>
      BY <2>6 DEF Ask, api
    <3> QED  BY <3>1 DEF TabWaits, FormWaits
  <2>7. CASE Fill
    <3>1. get # None /\ get' = None /\ UNCHANGED <<page, waiting>>
      BY <2>7 DEF Fill
    <3>2. FormWaits = {}
      <4>1. ~loaded /\ page \in Pages
        BY <3>1 DEF TabWaits, ParamTypeOK
      <4> QED  BY <4>1 DEF TabWaits, Pages
    <3> QED  BY <3>1, <3>2 DEF TabWaits, FormWaits
  <2>8. CASE GetFails
    <3>1. /\ get' = None /\ UNCHANGED <<loaded, dirty, waiting>>
          /\ page' = IF page = "settings" THEN page ELSE None
      BY <2>8 DEF GetFails
    <3>2. None # "settings" /\ None # "dashboard"
      BY ParametersAssumption DEF Pages
    <3> QED  BY <3>1, <3>2 DEF TabWaits, FormWaits
  <2>9. CASE EditDraft \/ Revert
    BY <2>1, <2>9 DEF EditDraft, Revert, api, view
  <2>10. CASE EditForm
    BY <2>10 DEF EditForm, api, TabWaits, FormWaits
  <2>11. CASE SaveSettings
    <3>1. /\ page = "settings" /\ UNCHANGED <<registry, page, get, loaded, dirty, history>>
          /\ waiting' = waiting \union {[n |-> saves', page |-> page, value |-> SettingsValue(draft)]}
      BY <2>11 DEF SaveSettings, SendSave, view
    <3>2. FormWaits' = FormWaits
      BY <3>1 DEF FormWaits
    <3> QED  BY <3>1, <3>2 DEF TabWaits
  <2>12. CASE SaveForm
    <3>1. /\ page = "dashboard" /\ loaded /\ dirty /\ FormWaits = {}
          /\ UNCHANGED <<registry, page, get, loaded, dirty, history>>
          /\ waiting' = waiting \union {[n |-> saves', page |-> page, value |-> FormValue(form)]}
      BY <2>12 DEF SaveForm, SendSave, view, Saving, FormWaits
    <3>2. FormWaits' = {[n |-> saves', page |-> page, value |-> FormValue(form)]}
      BY <3>1 DEF FormWaits
    <3>3. FormValue(form) \in Values
      BY SentValues DEF ParamTypeOK
    <3> QED  BY <3>1, <3>2, <3>3 DEF TabWaits
  <2>13. ASSUME NEW w \in waiting, Answered(w) \/ SaveFails(w) PROVE TabWaits'
    <3>1. /\ waiting' = waiting \ {w} /\ UNCHANGED <<registry, page, get, loaded>>
          /\ w.page = "settings" => dirty' = dirty
      BY <2>13 DEF Answered, SaveFails, Finish, view
    <3>2. w.page \in {"settings", "dashboard"}
      BY DEF ParamTypeOK, Pages
    <3>3. w.page = "dashboard" => FormWaits' = {}
      BY <3>1 DEF TabWaits, FormWaits
    <3>4. FormWaits' \subseteq FormWaits
      BY <3>1 DEF FormWaits
    <3> QED  BY <2>0, <3>1, <3>2, <3>3, <3>4 DEF TabWaits
  <2>14. CASE UNCHANGED paramVars
    BY <2>1, <2>14 DEF paramVars, api, view
  <2> QED  BY <2>2, <2>3, <2>4, <2>5, <2>6, <2>7, <2>8, <2>9, <2>10, <2>11, <2>12, <2>13, <2>14
           DEF ParamNext
<1> QED  BY <1>1, <1>2, ParametersTyped, PTL DEF ParamSpec

\* SettingsPage while nothing was overtaken: its saves under way carry the draft; one
\* that was answered and not refused is in the registry, or the page was opened anew
\* since, with a draft it has not filled in yet; and what it shows as saved is in
\* the registry, or the last save failed, or an answer is there that says otherwise.
SettingsHeld ==
  history \intersect {"moved", "stale"} = {} =>
    /\ \A w \in SettingsWaits : w.value = SettingsValue(draft)
    /\ page = "settings" =>
         /\ \A w \in SettingsWaits : w.n \in answers /\ Valid(w.value) =>
              registry = SettingsValue(draft) \/ (~loaded /\ draft = saved)
         /\ loaded => \/ registry = SettingsValue(saved) \/ "settings" \in unsaved
                      \/ \E w \in SettingsWaits : w.n \in answers

\* It is kept, as the saves of one page are confirmed one at a time.
LEMMA SettingsInvariant == ParamSpec => []SettingsHeld
<1> DEFINE Troubles == {"moved", "stale"}
<1>1. ParamInit => SettingsHeld
  BY DEF ParamInit, SettingsHeld, SettingsWaits
<1>2. ASSUME ParamTypeOK, Books, TabWaits, SettingsHeld, [ParamNext]_paramVars PROVE SettingsHeld'
  <2> USE <1>2
  <2>0. history \subseteq history'
    BY HistoryGrows
  <2> SUFFICES ASSUME history' \intersect Troubles = {} PROVE SettingsHeld'
    BY DEF SettingsHeld
  <2>00. history \intersect Troubles = {} /\ None # "settings" /\ None # "dashboard"
    BY <2>0, ParametersAssumption DEF Pages
  <2>1. CASE UNCHANGED <<page, loaded, unsaved, saved, draft, registry, waiting, answers>>
    BY <2>00, <2>1 DEF SettingsHeld, SettingsWaits
  <2>2. CASE ConfigUpdate \/ Reboot \/ LoseCommand \/ ApiCrashes
    BY <2>1, <2>2 DEF ConfigUpdate, Reboot, LoseCommand, ApiCrashes, api, view, settings
  <2>3. ASSUME NEW r \in requests, ApiPublishes(r) PROVE SettingsHeld'
    BY <2>1, <2>3 DEF ApiPublishes, view, settings
  <2>14. ASSUME NEW r \in requests, ApiRefuses(r) PROVE SettingsHeld'
    <3>1. /\ answers' = answers \union {r.n} /\ r \in Sent /\ ~Valid(r.value)
          /\ UNCHANGED <<page, loaded, unsaved, saved, draft, registry, waiting>>
      BY <2>14 DEF ApiRefuses, Sent, view, settings
    <3>2. \A w \in SettingsWaits : w.n = r.n => ~Valid(w.value)
      BY <3>1 DEF Books, SettingsWaits
    <3>3. SettingsWaits' = SettingsWaits
      BY <3>1 DEF SettingsWaits
    <3> QED  BY <2>00, <3>1, <3>2, <3>3 DEF SettingsHeld, Valid
  <2>4. CASE ApiPatches
    <3>1. /\ unacked # <<>> /\ registry' = Head(unacked).value
          /\ answers' = answers \union {Head(unacked).n} /\ ~Behind(Head(unacked).n)
          /\ UNCHANGED <<page, loaded, unsaved, saved, draft, waiting>>
      BY <2>4 DEF ApiPatches, RegistryParam, view, settings
    <3>2. SettingsWaits' = SettingsWaits
      BY <3>1 DEF SettingsWaits
    <3>3. ASSUME page = "settings"
          PROVE  /\ registry' = SettingsValue(draft)
                 /\ \E w \in SettingsWaits : w.n = Head(unacked).n
      <4>1. PICK w \in waiting : w.n = Head(unacked).n /\ w.page = "settings"
        BY <2>00, <3>1, <3>3 DEF Behind
      <4>2. Head(unacked) \in Sent
        BY <3>1, QueueShrinks DEF Books, Sent
      <4>3. w \in SettingsWaits /\ w.value = Head(unacked).value
        BY <4>1, <4>2 DEF Books, SettingsWaits
      <4> QED  BY <2>00, <3>1, <4>1, <4>3 DEF SettingsHeld
    <3> QED  BY <2>00, <3>1, <3>2, <3>3 DEF SettingsHeld, Valid
  <2>5. ASSUME NEW p \in Pages, NEW reload \in BOOLEAN, Open(p, reload) PROVE SettingsHeld'
    <3>1. /\ page' = p /\ loaded' = FALSE /\ waiting' \subseteq waiting
          /\ saved' = saved /\ draft' = IF p = "settings" \/ reload THEN saved ELSE draft
          /\ draft' # draft => SettingsWaits = {}
      BY <2>5 DEF Open, Draft, Saving, SettingsWaits
    <3>2. SettingsWaits' \subseteq SettingsWaits
      BY <3>1 DEF SettingsWaits
    <3> QED  BY <2>00, <3>1, <3>2 DEF SettingsHeld, Valid
  <2>6. CASE Ask \/ EditForm
    BY <2>1, <2>6 DEF Ask, EditForm, api, settings
  <2>7. CASE Fill
    <3>1. get # None /\ loaded' = TRUE /\ UNCHANGED <<page, registry, answers, waiting>>
      BY <2>7 DEF Fill, api
    <3>2. page \in {"settings", "dashboard"} /\ get = registry
      BY <2>00, <3>1 DEF TabWaits, ParamTypeOK, Pages
    <3>3. SettingsWaits' = SettingsWaits
      BY <3>1 DEF SettingsWaits
    <3>4. CASE page = "dashboard"
      <4>1. UNCHANGED <<saved, draft>> /\ unsaved' = unsaved \ {"dashboard"}
        BY <2>7, <3>4 DEF Fill, settings
      <4> QED  BY <2>00, <3>1, <3>3, <3>4, <4>1 DEF SettingsHeld
    <3>5. CASE page = "settings"
      <4>1. /\ saved' = registry /\ draft' = IF draft = saved THEN registry ELSE draft
            /\ draft' # draft => SettingsWaits = {}
        BY <2>7, <3>2, <3>5 DEF Fill, Draft, Saving, SettingsWaits
      <4>2. SettingsValue(registry) = registry
        BY SentValues DEF Books, Values
      <4> QED  BY <2>00, <3>1, <3>3, <4>1, <4>2 DEF SettingsHeld
    <3> QED  BY <3>2, <3>4, <3>5
  <2>8. CASE GetFails
    <3>1. /\ page' = (IF page = "settings" THEN page ELSE None)
          /\ UNCHANGED <<loaded, unsaved, saved, draft, registry, waiting, answers>>
      BY <2>8 DEF GetFails, api, settings
    <3> QED  BY <2>00, <3>1 DEF SettingsHeld, SettingsWaits
  <2>9. CASE EditDraft \/ Revert
    <3>1. /\ UNCHANGED <<page, loaded, unsaved, saved, registry, waiting, answers>>
          /\ draft' # draft => SettingsWaits = {}
      BY <2>9 DEF EditDraft, Revert, Draft, Saving, SettingsWaits, api, view
    <3>2. SettingsWaits' = SettingsWaits
      BY <3>1 DEF SettingsWaits
    <3> QED  BY <2>00, <3>1, <3>2 DEF SettingsHeld
  <2>10. CASE SaveSettings \/ SaveForm
    <3>1. PICK v : /\ waiting' = waiting \union {[n |-> saves + 1, page |-> page, value |-> v]}
                   /\ page = "settings" => v = SettingsValue(draft)
                   /\ UNCHANGED <<page, loaded, unsaved, saved, draft, registry, answers>>
      BY <2>10 DEF SaveSettings, SaveForm, SendSave, view, settings
    <3> DEFINE new == [n |-> saves + 1, page |-> page, value |-> v]
    <3>2. saves + 1 \notin answers
      BY DEF Books
    <3>3. /\ SettingsWaits \subseteq SettingsWaits'
          /\ \A w \in SettingsWaits' : w \in SettingsWaits \/ (w = new /\ page = "settings")
      BY <3>1 DEF SettingsWaits
    <3>4. new.n = saves + 1 /\ new.value = v
      OBVIOUS
    <3> HIDE DEF new
    <3> QED  BY <2>00, <3>1, <3>2, <3>3, <3>4 DEF SettingsHeld
  <2>11. ASSUME NEW w \in waiting, Answered(w) \/ SaveFails(w) PROVE SettingsHeld'
    <3>1. /\ waiting' = waiting \ {w} /\ answers' = answers \ {w.n}
          /\ UNCHANGED <<registry, page, loaded, draft>>
          /\ saved' = IF w.page = "settings" THEN draft ELSE saved
          /\ \/ unsaved' = unsaved \union {w.page}
             \/ unsaved' = unsaved \ {w.page} /\ w.n \in answers /\ Valid(w.value)
      BY <2>11 DEF Answered, SaveFails, Finish, SavedAfterSave, view, settings
    <3>2. SettingsWaits' \subseteq SettingsWaits
      BY <3>1 DEF SettingsWaits
    <3>3. w.page = "settings" \/ (w.page = "dashboard" /\ page # "settings")
      BY DEF ParamTypeOK, Pages, TabWaits, FormWaits
    <3>4. w.page = "settings" => w \in SettingsWaits
      BY DEF SettingsWaits
    <3> QED  BY <2>00, <3>1, <3>2, <3>3, <3>4 DEF SettingsHeld, Valid
  <2>13. CASE UNCHANGED paramVars
    BY <2>1, <2>13 DEF paramVars, api, view, settings
  <2> QED  BY <2>2, <2>3, <2>4, <2>5, <2>6, <2>7, <2>8, <2>9, <2>10, <2>11, <2>13, <2>14
           DEF ParamNext
<1> QED  BY <1>1, <1>2, ParametersTyped, TabWaitsInvariant, PTL DEF ParamSpec

\* For any texts, however they are rounded, and any number of saves: what the settings
\* page shows as saved is, rounded and with blank read as the default, what the
\* registry holds, unless its last save failed or was refused and no read came
\* after, if the draft did not move while one was under way and no patch overtook a
\* read or found the other page (SettingsPage.tsx:55-90, settingsStore.ts:91-106).
THEOREM SettingsAreHeld == ParamSpec => []SavedIsHeld
<1>1. SettingsHeld => SavedIsHeld
  BY DEF SettingsHeld, SavedIsHeld, SettingsWaits
<1> QED  BY <1>1, SettingsInvariant, PTL

\* The dashboard while nothing was overtaken: an answered save is in the registry,
\* and so is a form that was not edited, unless its last save failed.
FormShown ==
  "stale" \notin history /\ page = "dashboard" =>
    /\ \A w \in FormWaits : w.n \in answers => registry = w.value
    /\ loaded /\ ~dirty /\ "dashboard" \notin unsaved => registry = form

\* It is kept: the form counts as edited from the first change to the answer.
LEMMA FormInvariant == ParamSpec => []FormShown
<1>1. ParamInit => FormShown
  BY ParametersAssumption DEF ParamInit, FormShown, Pages
<1>2. ASSUME ParamTypeOK, Books, TabWaits, FormShown, [ParamNext]_paramVars PROVE FormShown'
  <2> USE <1>2
  <2>0. history \subseteq history'
    BY HistoryGrows
  <2> SUFFICES ASSUME "stale" \notin history', page' = "dashboard" PROVE FormShown'
    BY DEF FormShown
  <2>00. "stale" \notin history /\ None # "settings" /\ None # "dashboard"
    BY <2>0, ParametersAssumption DEF Pages
  <2>1. CASE UNCHANGED <<page, loaded, form, dirty, unsaved, registry, waiting, answers>>
    BY <2>00, <2>1 DEF FormShown, FormWaits
  <2>2. CASE ConfigUpdate \/ Reboot \/ LoseCommand \/ ApiCrashes
    BY <2>1, <2>2 DEF ConfigUpdate, Reboot, LoseCommand, ApiCrashes, api, view
  <2>3. ASSUME NEW r \in requests, ApiPublishes(r) PROVE FormShown'
    BY <2>1, <2>3 DEF ApiPublishes, view
  <2>4. ASSUME NEW r \in requests, ApiRefuses(r) PROVE FormShown'
    <3>1. /\ answers' = answers \union {r.n} /\ r \in Sent /\ ~Valid(r.value)
          /\ UNCHANGED <<page, loaded, form, dirty, unsaved, registry, waiting>>
      BY <2>4 DEF ApiRefuses, Sent, view
    <3>2. \A w \in FormWaits : w.n # r.n
      BY <3>1, SentValues DEF Books, TabWaits, FormWaits
    <3> QED  BY <2>00, <3>1, <3>2 DEF FormShown, FormWaits
  <2>5. CASE ApiPatches
    <3>1. /\ unacked # <<>> /\ registry' = Head(unacked).value
          /\ answers' = answers \union {Head(unacked).n} /\ ~Behind(Head(unacked).n)
          /\ UNCHANGED <<page, loaded, form, dirty, unsaved, waiting>>
      BY <2>5 DEF ApiPatches, RegistryParam, view
    <3>2. PICK w \in waiting : w.n = Head(unacked).n /\ w.page = "dashboard"
      BY <2>00, <3>1 DEF Behind
    <3>3. Head(unacked) \in Sent
      BY <3>1, QueueShrinks DEF Books, Sent
    <3>4. w \in FormWaits /\ w.value = registry' /\ dirty /\ \A v \in FormWaits : v = w
      BY <3>1, <3>2, <3>3 DEF Books, TabWaits, FormWaits
    <3>5. FormWaits' = FormWaits
      BY <3>1 DEF FormWaits
    <3> QED  BY <3>1, <3>4, <3>5 DEF FormShown
  <2>6. ASSUME NEW p \in Pages, NEW reload \in BOOLEAN, Open(p, reload) PROVE FormShown'
    <3>1. loaded' = FALSE /\ \A w \in waiting' : w.page = "settings"
      BY <2>6 DEF Open
    <3> QED  BY <3>1 DEF FormShown, FormWaits
  <2>7. CASE Fill
    <3>1. get # None /\ UNCHANGED <<page, registry, waiting>> /\ form' = get
      BY <2>7 DEF Fill, api
    <3>2. FormWaits = {} /\ get = registry
      BY <2>00, <3>1 DEF TabWaits
    <3> QED  BY <3>1, <3>2 DEF FormShown, FormWaits
  <2>8. CASE GetFails
    BY <2>00, <2>8 DEF GetFails
  <2>9. CASE Ask \/ EditDraft \/ Revert
    BY <2>1, <2>9 DEF Ask, EditDraft, Revert, api, view
  <2>10. CASE EditForm
    BY <2>00, <2>10 DEF EditForm, api, FormShown, FormWaits
  <2>11. CASE SaveSettings \/ SaveForm
    <3>1. PICK v : /\ waiting' = waiting \union {[n |-> saves + 1, page |-> page, value |-> v]}
                   /\ UNCHANGED <<page, loaded, form, dirty, unsaved, registry, answers>>
      BY <2>11 DEF SaveSettings, SaveForm, SendSave, view
    <3> DEFINE new == [n |-> saves + 1, page |-> page, value |-> v]
    <3>2. saves + 1 \notin answers /\ new.n = saves + 1
      BY DEF Books
    <3>3. \A w \in FormWaits' : w \in FormWaits \/ w = new
      BY <3>1 DEF FormWaits
    <3> HIDE DEF new
    <3> QED  BY <2>00, <3>1, <3>2, <3>3 DEF FormShown
  <2>12. ASSUME NEW w \in waiting, Answered(w) \/ SaveFails(w) PROVE FormShown'
    <3>1. /\ waiting' = waiting \ {w} /\ answers' = answers \ {w.n}
          /\ UNCHANGED <<registry, page, loaded>>
          /\ IF w.page = "settings" THEN UNCHANGED <<form, dirty>> ELSE form' = w.value
          /\ \/ unsaved' = unsaved \union {w.page}
             \/ unsaved' = unsaved \ {w.page} /\ w.n \in answers
      BY <2>12 DEF Answered, SaveFails, Finish, FormAfterSave, view
    <3>2. FormWaits' \subseteq FormWaits
      BY <3>1 DEF FormWaits
    <3>3. w.page = "settings" \/ (w.page = "dashboard" /\ w \in FormWaits)
      BY DEF ParamTypeOK, Pages, FormWaits
    <3> QED  BY <2>00, <3>1, <3>2, <3>3 DEF FormShown
  <2>14. CASE UNCHANGED paramVars
    BY <2>1, <2>14 DEF paramVars, api, view
  <2> QED  BY <2>2, <2>3, <2>4, <2>5, <2>6, <2>7, <2>8, <2>9, <2>10, <2>11, <2>12, <2>14
           DEF ParamNext
<1> QED  BY <1>1, <1>2, ParametersTyped, TabWaitsInvariant, PTL DEF ParamSpec

\* For any texts and any number of saves: the form of the device page, when it counts
\* as saved, shows what the registry holds unless its last save failed, if no patch
\* overtook a read or found the other page.  After a save that failed it shows the
\* value that was not saved, until a save succeeds or the page is filled anew
\* (DeviceDetailPage.tsx:351-375, 782-834).
THEOREM FormIsHeld == ParamSpec => []FormHolds
<1>1. FormShown => FormHolds
  BY DEF FormShown, FormHolds
<1> QED  BY <1>1, FormInvariant, PTL
=============================================================================
