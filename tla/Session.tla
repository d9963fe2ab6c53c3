------------------------------- MODULE Session -------------------------------
(***************************************************************************)
(* Signing in, in several tabs of one browser.                               *)
(*                                                                          *)
(* A tab remembers in its memory that it is signed in (authStore); the token  *)
(* itself is read from the local storage that all tabs share, each time a     *)
(* request is sent (api.ts).  The API issues tokens, which expire, and        *)
(* refuses any other.  A refused request, whatever token it carried, removes  *)
(* the token that is stored by then and makes its tab load the login page.    *)
(***************************************************************************)
EXTENDS Naturals, FiniteSets

CONSTANTS
  Tabs,
  MaxLogins,  \* bound: tokens the API issues
  MaxCalls,   \* bound: requests under way in one tab
  NoToken     \* null

ASSUME SessionAssumption ==
  MaxLogins \in Nat /\ NoToken \notin Nat

VARIABLES
  storage,    \* the token under "voltguard-auth" in the local storage
  issued,     \* number of tokens issued: they are 1 .. issued
  alive,      \* tokens that the API accepts
  signedIn,   \* isAuthenticated in the memory of each tab
  leaving,    \* the tabs on their way to the login page
  submitted,  \* the tabs that wait for the answer of a login
  granted,    \* answers to a login on their way: <<tab, token>>
  calls       \* requests under way: the token they carry and the answer

vars == <<storage, issued, alive, signedIn, leaving, submitted, granted, calls>>

Held == (1 .. issued) \union {NoToken}
Call == [tab : Tabs, token : Held, answer : {"none", "ok", "refused"}]

Init ==
  /\ storage = NoToken /\ issued = 0 /\ alive = {}
  /\ signedIn = [t \in Tabs |-> FALSE] /\ leaving = {}
  /\ submitted = {} /\ granted = {} /\ calls = {}

-----------------------------------------------------------------------------
(* Login and logout.                                                        *)

\* handleSubmit: the login page is for those who are not signed in.
Submit(t) ==
  /\ ~signedIn[t] /\ t \notin submitted
  /\ submitted' = submitted \union {t}
  /\ UNCHANGED <<storage, issued, alive, signedIn, leaving, granted, calls>>

\* The API finds the password right and signs a token.
Grant(t) ==
  /\ t \in submitted /\ \A g \in granted : g[1] # t
  /\ issued < MaxLogins /\ issued' = issued + 1
  /\ alive' = alive \union {issued'} /\ granted' = granted \union {<<t, issued'>>}
  /\ UNCHANGED <<storage, signedIn, leaving, submitted, calls>>

\* The token is stored, and the tab is signed in.
LoginAnswers(t) ==
  /\ \E g \in granted :
       g[1] = t /\ t \in submitted /\ storage' = g[2] /\ granted' = granted \ {g}
  /\ signedIn' = [signedIn EXCEPT ![t] = TRUE]
  /\ submitted' = submitted \ {t}
  /\ UNCHANGED <<issued, alive, leaving, calls>>

\* A wrong password, a failed request.
LoginFails(t) ==
  /\ t \in submitted /\ submitted' = submitted \ {t}
  /\ granted' = {g \in granted : g[1] # t}
  /\ UNCHANGED <<storage, issued, alive, signedIn, leaving, calls>>

\* The requests of the tab that are under way are not cancelled.
Logout(t) ==
  /\ signedIn[t]
  /\ signedIn' = [signedIn EXCEPT ![t] = FALSE] /\ storage' = NoToken
  /\ UNCHANGED <<issued, alive, leaving, submitted, granted, calls>>

Expire(k) ==
  /\ alive' = alive \ {k}
  /\ UNCHANGED <<storage, issued, signedIn, leaving, submitted, granted, calls>>

-----------------------------------------------------------------------------
(* Requests: each page of a signed in tab asks for its device every 10 s.   *)

CallsOf(t) == {c \in calls : c.tab = t}

Send(t) ==
  /\ signedIn[t] /\ Cardinality(CallsOf(t)) < MaxCalls
  /\ calls' = calls \union {[tab |-> t, token |-> storage, answer |-> "none"]}
  /\ UNCHANGED <<storage, issued, alive, signedIn, leaving, submitted, granted>>

Accepts(c) == c.token \in alive

\* requireAuth.
Verify(c) ==
  /\ c.answer = "none"
  /\ calls' = (calls \ {c}) \union {[c EXCEPT !.answer = IF Accepts(c) THEN "ok" ELSE "refused"]}
  /\ UNCHANGED <<storage, issued, alive, signedIn, leaving, submitted, granted>>

\* An answer, an error, or no answer within 12 s.
Done(c) ==
  /\ c.answer # "refused" /\ calls' = calls \ {c}
  /\ UNCHANGED <<storage, issued, alive, signedIn, leaving, submitted, granted>>

\* Mutant of Rejects: every error ends the session.
RejectsAnyError(c) == c.answer # "ok"

\* Mutant of Rejects: an answer to an older token is let pass.
RejectsOwnToken(c) == c.answer = "refused" /\ c.token = storage /\ c.token # NoToken

Rejects(c) == c.answer = "refused"

\* The interceptor of answers: the stored token goes, whatever token c carried.
Refused(c) ==
  /\ Rejects(c)
  /\ storage' = NoToken /\ leaving' = leaving \union {c.tab} /\ calls' = calls \ {c}
  /\ UNCHANGED <<issued, alive, signedIn, submitted, granted>>

-----------------------------------------------------------------------------
Rehydrated == storage # NoToken

\* The tab loads a page: memory and requests are gone, the store is read again.
Load(t) ==
  /\ signedIn' = [signedIn EXCEPT ![t] = Rehydrated]
  /\ leaving' = leaving \ {t} /\ submitted' = submitted \ {t}
  /\ granted' = {g \in granted : g[1] # t} /\ calls' = calls \ CallsOf(t)
  /\ UNCHANGED <<storage, issued, alive>>

Next ==
  \/ \E t \in Tabs : \/ Submit(t) \/ Grant(t) \/ LoginAnswers(t) \/ LoginFails(t)
                     \/ Logout(t) \/ Send(t) \/ Load(t)
  \/ \E k \in alive : Expire(k)
  \/ \E c \in calls : Verify(c) \/ Done(c) \/ Refused(c)

\* A page asks again and again, a request ends within 12 s, but not every one
\* without the answer of the API; a browser follows a change of location.
Fairness ==
  \A t \in Tabs :
    /\ WF_vars(Send(t)) /\ WF_vars(\E c \in CallsOf(t) : Done(c))
    /\ SF_vars(\E c \in CallsOf(t) : Verify(c)) /\ SF_vars(\E c \in CallsOf(t) : Refused(c))
    /\ WF_vars(t \in leaving /\ Load(t))

Spec == Init /\ [][Next]_vars /\ Fairness

-----------------------------------------------------------------------------
(* Properties.                                                              *)

TypeOK ==
  /\ storage \in Held /\ issued \in 0 .. MaxLogins
  /\ alive \subseteq 1 .. issued /\ signedIn \in [Tabs -> BOOLEAN]
  /\ leaving \subseteq Tabs /\ submitted \subseteq Tabs
  /\ granted \subseteq Tabs \X (1 .. issued) /\ calls \subseteq Call

\* A session that the API still accepts ends only when a tab logs out, when a tab
\* logs in again, or through the refusal of a request that carried another token: one
\* of an earlier session, or of a moment in which no token was stored (api.ts:51-57).
SessionEndsForReason == [][
  (storage \in alive /\ storage' = NoToken) =>
    ((\E t \in Tabs : signedIn[t] /\ ~signedIn'[t])
     \/ (\E c \in calls \ calls' : c.answer = "refused" /\ c.token # storage))]_vars

\* A tab whose token has expired or was removed in another tab does not stay on
\* its pages for ever: it comes to the login page, or a valid token is stored.
EndIsNoticed ==
  \A t \in Tabs : signedIn[t] /\ storage \notin alive ~> (~signedIn[t] \/ storage \in alive)
=============================================================================
