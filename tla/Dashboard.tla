----------------------------- MODULE Dashboard -----------------------------
(***************************************************************************)
(* The connection of a dashboard, static/app.js: the page signs a user in   *)
(* and out, opens a WebSocket when a session starts, and opens it again two  *)
(* seconds after one has closed.                                            *)
(*                                                                         *)
(* Every WebSocket the page ever made calls the same onclose, the ones it   *)
(* replaced itself included.  Of those only their number matters, and of    *)
(* the timers set by onclose too.  The page is one thread: a handler is a   *)
(* step, and what interleaves are answers, timers, close events, the user   *)
(* and the server.  Messages, heartbeats and panels are left out.           *)
(***************************************************************************)
EXTENDS Integers

CONSTANTS
    MaxOutages,     \* bound: how often the server stops
    MaxVisits,      \* bound: sessions that start, and page loads
    MaxLogouts      \* bound: logout requests under way

ASSUME BoundsAssumption ==
    MaxOutages \in Nat /\ MaxVisits \in Nat /\ MaxLogouts \in Nat

VARIABLES
    server,     \* whether the server runs
    signedIn,   \* currentUser is set; localStorage holds the same
    login,      \* the login request: "idle", "sent", or "granted" and on its way
    logouts,    \* logout requests under way
    ws,         \* the page's WebSocket: "none", "connecting", "open", "closed", or
                \* "broken" when the page has not noticed that its server is gone
    replaced,   \* WebSockets that were closed by the page and have not told it yet
    timers,     \* calls of initWebSocket that onclose has scheduled
    badge,      \* the connection status the page shows
    outages, visits,
    sessions    \* history: sessions that found no open WebSocket, since the page
                \* was loaded

userVars == <<signedIn, login, logouts>>
wsVars == <<ws, replaced, timers, badge, sessions>>
bounds == <<outages, visits>>
vars == <<server, userVars, wsVars, bounds>>

Live == ws \in {"connecting", "open", "broken"}

----------------------------------------------------------------------------
(* The WebSocket.                                                           *)

\* initWebSocket: a live WebSocket is closed, and its onclose is still to come.
InitWebSocket_Once == \* mutant: only the first one
    /\ ws' = IF ws = "none" THEN "connecting" ELSE ws
    /\ UNCHANGED replaced
InitWebSocket ==
    /\ ws' = "connecting"
    /\ replaced' = IF Live THEN replaced + 1 ELSE replaced

\* onclose.
OnClose_NoRetry == badge' = "DISCONNECTED" /\ UNCHANGED timers \* mutant
OnClose_NoBadge == timers' = timers + 1 /\ UNCHANGED badge \* mutant
OnClose == badge' = "DISCONNECTED" /\ timers' = timers + 1

Opens ==
    /\ ws = "connecting" /\ server
    /\ ws' = "open" /\ badge' = "CONNECTED"
    /\ UNCHANGED <<server, userVars, replaced, timers, sessions, bounds>>

\* The WebSocket of the page cannot connect, or has lost its server.
Closes ==
    /\ ws = "broken" \/ (ws = "connecting" /\ ~server)
    /\ ws' = "closed" /\ OnClose
    /\ UNCHANGED <<server, userVars, replaced, sessions, bounds>>

ReplacedCloses ==
    /\ replaced > 0
    /\ replaced' = replaced - 1 /\ OnClose
    /\ UNCHANGED <<server, userVars, ws, sessions, bounds>>

Retry_Interval == \* mutant: setInterval instead of setTimeout
    /\ timers > 0
    /\ InitWebSocket
    /\ UNCHANGED <<server, userVars, timers, badge, sessions, bounds>>
Retry ==
    /\ timers > 0
    /\ timers' = timers - 1 /\ InitWebSocket
    /\ UNCHANGED <<server, userVars, badge, sessions, bounds>>

----------------------------------------------------------------------------
(* Sessions.                                                                *)

Login ==
    /\ ~signedIn /\ login = "idle"
    /\ login' = "sent"
    /\ UNCHANGED <<server, signedIn, logouts, wsVars, bounds>>

Granted ==
    /\ login = "sent" /\ server
    /\ login' = "granted"
    /\ UNCHANGED <<server, signedIn, logouts, wsVars, bounds>>

LoginFails ==
    /\ login # "idle"
    /\ login' = "idle"
    /\ UNCHANGED <<server, signedIn, logouts, wsVars, bounds>>

\* handleLogin goes on: applyUserSession opens a WebSocket unless one is OPEN.
\* One that is broken still says it is.
SignIn ==
    /\ login = "granted" /\ visits < MaxVisits
    /\ visits' = visits + 1
    /\ login' = "idle" /\ signedIn' = TRUE
    /\ IF ws \in {"open", "broken"}
       THEN UNCHANGED <<ws, replaced, sessions>>
       ELSE InitWebSocket /\ sessions' = sessions + 1
    /\ UNCHANGED <<server, logouts, timers, badge, outages>>

\* The button can be used again before the answer has come.
Logout ==
    /\ signedIn /\ logouts < MaxLogouts
    /\ logouts' = logouts + 1
    /\ UNCHANGED <<server, signedIn, login, wsVars, bounds>>

\* An answer or an error ends the session; the WebSocket stays.
SignOut ==
    /\ logouts > 0
    /\ logouts' = logouts - 1 /\ signedIn' = FALSE
    /\ UNCHANGED <<server, login, wsVars, bounds>>

\* checkAuthOnLoad, on a page without a WebSocket: a stored session goes on.
Loaded ==
    /\ login' = "idle" /\ logouts' = 0
    /\ ws' = (IF signedIn' THEN "connecting" ELSE "none")
    /\ sessions' = (IF signedIn' THEN 1 ELSE 0)
    /\ replaced' = 0 /\ timers' = 0 /\ badge' = "DISCONNECTED"

Reload ==
    /\ server /\ visits < MaxVisits
    /\ visits' = visits + 1
    /\ signedIn' = signedIn /\ Loaded
    /\ UNCHANGED <<server, outages>>

----------------------------------------------------------------------------
(* The server.                                                              *)

ServerStops ==
    /\ server /\ outages < MaxOutages
    /\ server' = FALSE /\ outages' = outages + 1
    /\ ws' = IF ws = "open" THEN "broken" ELSE ws
    /\ UNCHANGED <<userVars, replaced, timers, badge, sessions, visits>>

ServerStarts ==
    /\ ~server
    /\ server' = TRUE
    /\ UNCHANGED <<userVars, wsVars, bounds>>

Init ==
    /\ server = TRUE
    /\ signedIn \in BOOLEAN /\ login = "idle" /\ logouts = 0
    /\ ws = IF signedIn THEN "connecting" ELSE "none"
    /\ sessions = IF signedIn THEN 1 ELSE 0
    /\ replaced = 0 /\ timers = 0 /\ badge = "DISCONNECTED"
    /\ outages = 0 /\ visits = 0

Socket == Opens \/ Closes \/ ReplacedCloses \/ Retry
User == Login \/ Granted \/ LoginFails \/ SignIn \/ Logout \/ SignOut \/ Reload
Server == ServerStops \/ ServerStarts

Next == Socket \/ User \/ Server

Spec == Init /\ [][Next]_vars

\* The browser calls what is due, and the server is started again.
Fairness == /\ WF_vars(Opens) /\ WF_vars(Closes) /\ WF_vars(ReplacedCloses)
            /\ WF_vars(Retry) /\ WF_vars(ServerStarts)

FairSpec == Spec /\ Fairness

----------------------------------------------------------------------------
(* Properties.                                                              *)

\* Every variable holds a value of its type.
TypeOK ==
    /\ server \in BOOLEAN /\ signedIn \in BOOLEAN
    /\ login \in {"idle", "sent", "granted"} /\ logouts \in Nat
    /\ ws \in {"none", "connecting", "open", "broken", "closed"}
    /\ replaced \in Nat /\ timers \in Nat
    /\ badge \in {"CONNECTED", "DISCONNECTED"}
    /\ outages \in Nat /\ visits \in Nat /\ sessions \in Nat

\* What will call initWebSocket again: timers, and WebSockets that may close.
Chains == timers + replaced + (IF Live THEN 1 ELSE 0)

\* Each session that found no open WebSocket has left one chain of calls: no
\* order of failures, timers and sessions ends the reconnecting, and reconnecting
\* does not multiply by itself (143-145, 359-360, 376-383).
OneChainPerSession == Chains = sessions

\* Until a second session has opened a WebSocket the page shows the truth, as far
\* as the browser knows it (362-381).
BadgeTellsTruth ==
    sessions <= 1 => (badge = "CONNECTED" <=> ws \in {"open", "broken"})

\* A page that has opened a WebSocket has an open one again and again, unless it
\* is loaded anew without a session.
RetriesUntilOpen == sessions > 0 ~> (ws = "open" \/ sessions = 0)

\* With one session per page load the connection settles once the server does.
OneSessionSettles ==
    [](sessions <= 1) => <>[](sessions = 1 => ws = "open")

\* app.js line 142, "Connect WebSocket if not active": once the server runs for
\* good, the page is connected for good.
StaysConnected == <>[](sessions > 0 => ws = "open")
=============================================================================
