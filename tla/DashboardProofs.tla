-------------------------- MODULE DashboardProofs --------------------------
(***************************************************************************)
(* Proofs about Dashboard, for any number of outages, sessions and logouts: *)
(* what calls initWebSocket is neither lost nor multiplied (ChainsAreKept), *)
(* and the badge is right while there is one session (BadgeIsRight).        *)
(***************************************************************************)
EXTENDS Dashboard, TLAPS

\* One chain of calls for each session, and no badge without a WebSocket.
ChainInv == OneChainPerSession /\ (ws = "none" => badge = "DISCONNECTED")

IInv == TypeOK /\ ChainInv /\ BadgeTellsTruth

\* A page starts with at most one session and its one WebSocket.
LEMMA InitInv == Init => IInv
  BY BoundsAssumption DEF Init, IInv, TypeOK, ChainInv, OneChainPerSession, Chains,
                          Live, BadgeTellsTruth

\* A WebSocket that closes hands its chain on to a timer.
LEMMA SocketInv == IInv /\ Socket => IInv'
<1> SUFFICES ASSUME IInv, Socket PROVE IInv'
  OBVIOUS
<1> USE DEF IInv, TypeOK, ChainInv, OneChainPerSession, Chains, Live, BadgeTellsTruth,
           userVars, bounds
<1>1. CASE Opens
  BY <1>1 DEF Opens
<1>2. CASE Closes
  BY <1>2 DEF Closes, OnClose
<1>3. CASE ReplacedCloses
  BY <1>3 DEF ReplacedCloses, OnClose
<1>4. CASE Retry
  BY <1>4 DEF Retry, InitWebSocket
<1> QED
  BY <1>1, <1>2, <1>3, <1>4 DEF Socket

\* A session that opens a WebSocket adds a chain; no other request touches one.
LEMMA UserInv == IInv /\ User => IInv'
<1> SUFFICES ASSUME IInv, User PROVE IInv'
  OBVIOUS
<1> USE DEF IInv, TypeOK, ChainInv, OneChainPerSession, Chains, Live, BadgeTellsTruth,
           wsVars, bounds
<1>1. CASE Login \/ Granted \/ LoginFails
  BY <1>1 DEF Login, Granted, LoginFails
<1>2. CASE SignIn
  <2>1. CASE ws \in {"open", "broken"}
    BY <1>2, <2>1 DEF SignIn
  <2>2. CASE ws \notin {"open", "broken"}
    BY <1>2, <2>2 DEF SignIn, InitWebSocket
  <2> QED
    BY <2>1, <2>2
<1>3. CASE Logout
  BY <1>3 DEF Logout
<1>4. CASE SignOut
  <2>1. signedIn' \in BOOLEAN
    BY <1>4, Zenon DEF SignOut
  <2> QED
    BY <1>4, <2>1 DEF SignOut
<1>5. CASE Reload
  BY <1>5 DEF Reload, Loaded
<1> QED
  BY <1>1, <1>2, <1>3, <1>4, <1>5 DEF User

\* A server that stops breaks the WebSocket and does not close it.
LEMMA ServerInv == IInv /\ Server => IInv'
<1> SUFFICES ASSUME IInv, Server PROVE IInv'
  OBVIOUS
<1> USE DEF IInv, TypeOK, ChainInv, OneChainPerSession, Chains, Live, BadgeTellsTruth,
           userVars, wsVars, bounds, Server, ServerStops, ServerStarts
<1>1. server' \in BOOLEAN
  BY Zenon
<1> QED
  BY <1>1

\* The invariant the results rest on.
THEOREM Invariance == Spec => []IInv
<1>1. IInv /\ UNCHANGED vars => IInv'
  BY DEF IInv, TypeOK, ChainInv, OneChainPerSession, Chains, Live, BadgeTellsTruth,
         vars, userVars, wsVars, bounds
<1>2. IInv /\ [Next]_vars => IInv'
  BY <1>1, SocketInv, UserInv, ServerInv DEF Next
<1> QED
  BY <1>2, InitInv, PTL DEF Spec

\* Reconnecting never stops, and alone it never adds to what calls
\* initWebSocket: there is one chain for each session that opened a WebSocket.
THEOREM ChainsAreKept == Spec => []OneChainPerSession
<1>1. IInv => OneChainPerSession
  BY DEF IInv, ChainInv
<1> QED
  BY <1>1, Invariance, PTL

\* The badge is right as long as one session has opened WebSockets.
THEOREM BadgeIsRight == Spec => []BadgeTellsTruth
  BY Invariance, PTL DEF IInv
=============================================================================
