------------------------------- MODULE WsHub -------------------------------
(***************************************************************************)
(* The WebSocket hub of app/routers/ws.py: the ConnectionManager, one       *)
(* endpoint task per connection and one broadcast task per message, all on  *)
(* one event loop.  A step of the model is what a task does between two     *)
(* awaits that can suspend it.  Those are accept, receive_text and          *)
(* send_text; no task awaits anything while it holds the manager's lock, so *)
(* the lock is always free when it is asked for and asking for it does not  *)
(* suspend.                                                                 *)
(*                                                                         *)
(* The server's transport is external: a message sent to a connection       *)
(* waits in a buffer until the client has read it, and a send to a full     *)
(* buffer suspends the sender.                                              *)
(***************************************************************************)
EXTENDS Integers, Sequences, FiniteSets

CONSTANTS
    Conns,      \* connections that may be opened
    MaxMsg,     \* bound: messages the CDC engine schedules, numbered in that order
    MaxPings,   \* bound: pings of each client
    Capacity    \* messages a connection's buffer takes

ASSUME HubAssumption ==
    /\ IsFiniteSet(Conns)
    /\ MaxMsg \in Nat /\ MaxPings \in Nat
    /\ Capacity \in Nat \ {0}

Msgs == 1 .. MaxMsg
Pong == 0

VARIABLES
    active,     \* active_connections, a list
    endpoint,   \* the task of websocket_endpoint for each connection
    peer,       \* the client's side: "away", "open" or "gone"
    pings,      \* pings each client may still send
    outbox,     \* what is in each connection's buffer
    got,        \* what each client has read
    cast,       \* the state of each broadcast task
    snapshot,   \* current_connections of each broadcast
    at,         \* the index of its loop over them
    dead        \* dead_connections

clientVars == <<peer, pings, outbox, got>>
castVars == <<cast, snapshot, at, dead>>
vars == <<active, endpoint, clientVars, castVars>>

Init ==
    /\ active = <<>>
    /\ endpoint = [c \in Conns |-> "idle"]
    /\ peer = [c \in Conns |-> "away"]
    /\ pings = [c \in Conns |-> MaxPings]
    /\ outbox = [c \in Conns |-> <<>>]
    /\ got = [c \in Conns |-> <<>>]
    /\ cast = [m \in Msgs |-> "unscheduled"]
    /\ snapshot = [m \in Msgs |-> <<>>]
    /\ at = [m \in Msgs |-> 1]
    /\ dead = [m \in Msgs |-> {}]

\* The list without the members of a set.
Without(list, S) ==
    LET kept[k \in 0 .. Len(list)] ==
            IF k = 0 THEN <<>>
            ELSE IF list[k] \in S THEN kept[k - 1] ELSE Append(kept[k - 1], list[k])
    IN  kept[Len(list)]

InActive(c) == \E k \in DOMAIN active : active[k] = c

----------------------------------------------------------------------------
(* Clients and their transport.                                             *)

Open(c) ==
    /\ peer[c] = "away"
    /\ peer' = [peer EXCEPT ![c] = "open"]
    /\ endpoint' = [endpoint EXCEPT ![c] = "accepting"]
    /\ UNCHANGED <<active, pings, outbox, got, castVars>>

\* The client leaves, or its keepalive ping goes unanswered and the server
\* closes the connection.
Vanish(c) ==
    /\ peer[c] = "open"
    /\ peer' = [peer EXCEPT ![c] = "gone"]
    /\ outbox' = [outbox EXCEPT ![c] = <<>>]
    /\ UNCHANGED <<active, endpoint, pings, got, castVars>>

Read(c) ==
    /\ outbox[c] # <<>>
    /\ outbox' = [outbox EXCEPT ![c] = Tail(@)]
    /\ got' = [got EXCEPT ![c] = Append(@, Head(outbox[c]))]
    /\ UNCHANGED <<active, endpoint, peer, pings, castVars>>

\* send_text returns: the message is in the buffer, or the connection is gone
\* and the transport has not noticed.
Sent(c, m) ==
    \/ /\ peer[c] = "open" /\ Len(outbox[c]) < Capacity
       /\ outbox' = [outbox EXCEPT ![c] = Append(@, m)]
    \/ peer[c] = "gone" /\ UNCHANGED outbox

\* send_text raises.
SendRaises(c) == peer[c] = "gone" /\ UNCHANGED outbox

----------------------------------------------------------------------------
(* websocket_endpoint.                                                      *)

\* connect: an accepted connection joins the list in the same step.
Accepted(c) ==
    /\ endpoint[c] = "accepting"
    /\ endpoint' = [endpoint EXCEPT ![c] = "receiving"]
    /\ active' = Append(active, c)
    /\ UNCHANGED <<clientVars, castVars>>

\* accept raises outside of the endpoint's try block.
AcceptRaises(c) ==
    /\ endpoint[c] = "accepting" /\ peer[c] = "gone"
    /\ endpoint' = [endpoint EXCEPT ![c] = "done"]
    /\ UNCHANGED <<active, clientVars, castVars>>

\* disconnect, which ends the endpoint: the server closes the connection.
Leave_Forgets(c) == \* mutant: no handler removes the connection
    /\ endpoint' = [endpoint EXCEPT ![c] = "done"]
    /\ peer' = [peer EXCEPT ![c] = "gone"]
    /\ UNCHANGED active
Leave(c) ==
    /\ endpoint' = [endpoint EXCEPT ![c] = "done"]
    /\ peer' = [peer EXCEPT ![c] = "gone"]
    /\ active' = Without(active, {c})

\* receive_text raises: the client is gone, or has sent no text.
ReceiveRaises(c) ==
    /\ endpoint[c] = "receiving"
    /\ Leave(c)
    /\ UNCHANGED <<pings, outbox, got, castVars>>

ReceivePing(c) ==
    /\ endpoint[c] = "receiving" /\ peer[c] = "open" /\ pings[c] > 0
    /\ pings' = [pings EXCEPT ![c] = @ - 1]
    /\ endpoint' = [endpoint EXCEPT ![c] = "answering"]
    /\ UNCHANGED <<active, peer, outbox, got, castVars>>

SendPong(c) ==
    /\ endpoint[c] = "answering"
    /\ \/ /\ Sent(c, Pong)
          /\ endpoint' = [endpoint EXCEPT ![c] = "receiving"]
          /\ UNCHANGED <<active, peer>>
       \/ SendRaises(c) /\ Leave(c)
    /\ UNCHANGED <<pings, got, castVars>>

----------------------------------------------------------------------------
(* broadcast.                                                               *)

\* The CDC engine schedules its coroutines in the order of the rows.
Schedule(m) ==
    /\ cast[m] = "unscheduled"
    /\ \A k \in 1 .. m - 1 : cast[k] # "unscheduled"
    /\ cast' = [cast EXCEPT ![m] = "scheduled"]
    /\ UNCHANGED <<active, endpoint, clientVars, snapshot, at, dead>>

\* The loop starts scheduled tasks in order.  A broadcast to an empty pool
\* ends; another one takes its snapshot of the list.
Start(m) ==
    /\ cast[m] = "scheduled"
    /\ \A k \in 1 .. m - 1 : cast[k] # "scheduled"
    /\ cast' = [cast EXCEPT ![m] = IF active = <<>> THEN "done" ELSE "sending"]
    /\ snapshot' = [snapshot EXCEPT ![m] = active]
    /\ UNCHANGED <<active, endpoint, clientVars, at, dead>>

\* The dead connections are removed one by one if they are still listed.
Pruned(list, S) == Without(list, S)

\* The connection the loop is at.
Member_Live(m) == \* mutant: the loop runs over the list itself, not a copy
    IF at[m] <= Len(active) THEN active[at[m]] ELSE snapshot[m][at[m]]
Member(m) == snapshot[m][at[m]]

\* The loop goes on after a send; after the last one the dead are pruned.
GoOn(m) ==
    /\ at' = [at EXCEPT ![m] = @ + 1]
    /\ IF at[m] = Len(snapshot[m])
       THEN cast' = [cast EXCEPT ![m] = "done"] /\ active' = Pruned(active, dead'[m])
       ELSE UNCHANGED <<cast, active>>

Send_Unhandled(m) == \* mutant: a send that raises ends the task
    /\ cast[m] = "sending"
    /\ UNCHANGED <<dead, endpoint, peer, pings, got, snapshot>>
    /\ \/ Sent(Member(m), m) /\ GoOn(m)
       \/ /\ SendRaises(Member(m))
          /\ cast' = [cast EXCEPT ![m] = "raised"]
          /\ UNCHANGED <<at, active>>

\* One send of the loop at line 39.
Send(m) ==
    /\ cast[m] = "sending"
    /\ \/ Sent(Member(m), m) /\ UNCHANGED dead
       \/ /\ SendRaises(Member(m))
          /\ dead' = [dead EXCEPT ![m] = @ \cup {Member(m)}]
    /\ GoOn(m)
    /\ UNCHANGED <<endpoint, peer, pings, got, snapshot>>

Client(c) == Open(c) \/ Vanish(c) \/ Read(c)
Endpoint(c) == Accepted(c) \/ AcceptRaises(c) \/ ReceiveRaises(c)
                 \/ ReceivePing(c) \/ SendPong(c)
Broadcast(m) == Schedule(m) \/ Start(m) \/ Send(m)

Next == \/ \E c \in Conns : Client(c) \/ Endpoint(c)
        \/ \E m \in Msgs : Broadcast(m)

Spec == Init /\ [][Next]_vars

\* The loop runs every task that can go on; a receive on a connection that is
\* gone raises; a client reads what was sent to it, or else the server's
\* keepalive closes the connection.
Fairness ==
    /\ \A m \in Msgs : WF_vars(Start(m)) /\ WF_vars(Send(m))
    /\ \A c \in Conns : /\ WF_vars(Accepted(c)) /\ WF_vars(SendPong(c))
                        /\ WF_vars(peer[c] = "gone" /\ ReceiveRaises(c))
                        /\ WF_vars(outbox[c] # <<>> /\ (Read(c) \/ Vanish(c)))

FairSpec == Spec /\ Fairness

----------------------------------------------------------------------------
(* Properties.                                                              *)

\* Every variable holds a value of its type.
TypeOK ==
    /\ active \in Seq(Conns)
    /\ endpoint \in [Conns -> {"idle", "accepting", "receiving", "answering", "done"}]
    /\ peer \in [Conns -> {"away", "open", "gone"}]
    /\ pings \in [Conns -> 0 .. MaxPings]
    /\ outbox \in [Conns -> Seq(Msgs \cup {Pong})]
    /\ got \in [Conns -> Seq(Msgs \cup {Pong})]
    /\ cast \in [Msgs -> {"unscheduled", "scheduled", "sending", "done"}]
    /\ snapshot \in [Msgs -> Seq(Conns)]
    /\ at \in [Msgs -> Nat \ {0}]
    /\ dead \in [Msgs -> SUBSET Conns]

Times(list, x) == Cardinality({k \in DOMAIN list : list[k] = x})

\* The pool is what the endpoints say it is, whatever broadcasts prune and
\* endpoints remove at the same time: an endpoint that serves a client who is
\* there is listed exactly once, and no list entry outlives its endpoint or is
\* older than its accept (lines 17-27, 46-50, 67-71).
PoolMatchesEndpoints ==
    \A c \in Conns :
        /\ endpoint[c] \in {"receiving", "answering"} /\ peer[c] = "open"
             => Times(active, c) = 1
        /\ endpoint[c] \in {"idle", "accepting", "done"} => Times(active, c) = 0

\* Every connection a broadcast has passed, if its client is still there, has
\* the message, read or on its way, and has it once; no other connection has
\* it (lines 36-44).
EachMemberOnce ==
    \A m \in Msgs, c \in Conns :
        LET passed == \E k \in 1 .. at[m] - 1 : snapshot[m][k] = c
            copies == Times(got[c], m) + Times(outbox[c], m)
        IN  /\ copies <= IF passed THEN 1 ELSE 0
            /\ passed /\ peer[c] = "open" => copies = 1

\* A broadcast ends once it is scheduled: a client that does not read holds it
\* up no longer than the server's keepalive lets that connection live.
BroadcastEnds == \A m \in Msgs : cast[m] = "scheduled" ~> cast[m] = "done"

\* The endpoint of a client that has gone ends, and its connection leaves the
\* pool.
GoneIsForgotten ==
    \A c \in Conns : peer[c] = "gone" ~> endpoint[c] = "done" /\ ~InActive(c)
=============================================================================
