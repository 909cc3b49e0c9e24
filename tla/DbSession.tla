----------------------------- MODULE DbSession -----------------------------
(***************************************************************************)
(* The database session: DatabaseManager of app/db/session.py with the      *)
(* SSHTunnelManager of app/db/tunnel.py.  On one event loop run the         *)
(* lifespan task (`main': initialize, disconnect), the supervisor task      *)
(* (`sup': _health_check_loop), whichever of them is inside connect (its    *)
(* place is `conn'), and request tasks that hold a connection of the pool.  *)
(* A step is what a task does between two awaits.                           *)
(*                                                                         *)
(* The manager's lock is only taken by connect, which the lifespan task     *)
(* calls before it creates the supervisor: it is always free.  External:    *)
(* aiomysql's pool, whose wait_closed waits for every connection to be      *)
(* given back, and sshtunnel, whose start runs in a thread that no timeout  *)
(* and no cancellation ends.                                                *)
(***************************************************************************)
EXTENDS Integers, FiniteSets

CONSTANTS
    SshModes,   \* the values USE_SSH may have
    Requests,   \* request tasks
    PoolMax,    \* DB_POOL_MAX_SIZE
    MaxFaults,  \* bound: outages of the database or the gateway, timeouts
    MaxStray    \* tunnels and threads left behind are counted up to this

ASSUME SessionAssumption ==
    /\ SshModes \subseteq BOOLEAN
    /\ IsFiniteSet(Requests)
    /\ PoolMax \in Nat \ {0} /\ MaxFaults \in Nat /\ MaxStray \in Nat

VARIABLES
    useSsh,     \* settings.USE_SSH
    port,       \* settings.REPLICA_PORT: "remote" as configured, or "local"
    dbUp,       \* the database answers
    sshUp,      \* the SSH gateway answers
    faults,     \* faults that may still happen
    main,       \* where the lifespan task is
    sup,        \* where the supervisor is
    conn,       \* where the task inside connect is
    status,     \* status of the manager
    pool,       \* self.pool: "none", "open" or "closing"
    holders,    \* requests that hold a connection of it
    tunnel,     \* ssh_mgr.tunnel: "none", "good" (it leads to the database),
                \* "bad" (it leads elsewhere) or "broken" (not active)
    leaked,     \* live tunnels no one refers to
    stray       \* threads still opening a tunnel no one waits for

netVars == <<dbUp, sshUp, faults>>
tunnelVars == <<port, tunnel, leaked, stray>>
vars == <<useSsh, netVars, main, sup, conn, status, pool, holders, tunnelVars>>

Init ==
    /\ useSsh \in SshModes /\ port = "remote"
    /\ dbUp = TRUE /\ sshUp = TRUE /\ faults = MaxFaults
    /\ main = "starting" /\ sup = "none" /\ conn = "idle"
    /\ status = "DISCONNECTED" /\ pool = "none" /\ holders = {}
    /\ tunnel = "none" /\ leaked = 0 /\ stray = 0

\* The session answers: through the tunnel, if one is used.
Reachable == dbUp /\ (useSsh => tunnel = "good")

Full == Cardinality(holders) = PoolMax

\* is_healthy, which the CDC worker asks from its own thread.
Healthy == pool # "none" /\ status = "HEALTHY"

More(n) == IF n < MaxStray THEN n + 1 ELSE n

----------------------------------------------------------------------------
(* The network and the requests.                                            *)

DbDown ==
    /\ dbUp /\ faults > 0
    /\ dbUp' = FALSE /\ faults' = faults - 1
    /\ UNCHANGED <<useSsh, sshUp, main, sup, conn, status, pool, holders, tunnelVars>>

DbRecover ==
    /\ ~dbUp /\ dbUp' = TRUE
    /\ UNCHANGED <<useSsh, sshUp, faults, main, sup, conn, status, pool, holders,
                   tunnelVars>>

\* The gateway is gone and every tunnel with it.
SshDown ==
    /\ useSsh /\ sshUp /\ faults > 0
    /\ sshUp' = FALSE /\ faults' = faults - 1
    /\ tunnel' = IF tunnel = "none" THEN "none" ELSE "broken"
    /\ leaked' = 0
    /\ UNCHANGED <<useSsh, dbUp, main, sup, conn, status, pool, holders, port, stray>>

SshRecover ==
    /\ ~sshUp /\ sshUp' = TRUE
    /\ UNCHANGED <<useSsh, dbUp, faults, main, sup, conn, status, pool, holders,
                   tunnelVars>>

\* fetch_all, fetch_one, execute: without a pool, or once it is closing, they
\* return an empty result at once; a query may take any time.
Query(r) ==
    /\ pool = "open" /\ r \notin holders /\ ~Full
    /\ holders' = holders \cup {r}
    /\ UNCHANGED <<useSsh, netVars, main, sup, conn, status, pool, tunnelVars>>

QueryEnds(r) ==
    /\ r \in holders
    /\ holders' = holders \ {r}
    /\ UNCHANGED <<useSsh, netVars, main, sup, conn, status, pool, tunnelVars>>

----------------------------------------------------------------------------
(* connect, called by the lifespan task and by the supervisor.              *)

\* Past the tunnel: an old pool is closed, and gone when it is drained.
ToPool == /\ conn' = IF pool = "none" THEN "create" ELSE "drain"
          /\ pool' = IF pool = "none" THEN "none" ELSE "closing"

Connect_KeepsStatus == \* mutant: the status is not taken back
    /\ UNCHANGED status
    /\ IF useSsh THEN conn' = "tunnel" /\ UNCHANGED pool ELSE ToPool
Connect ==
    /\ status' = "CONNECTING"
    /\ IF useSsh THEN conn' = "tunnel" /\ UNCHANGED pool ELSE ToPool

\* connect is over; initialize goes on to create the supervisor.
Return == conn' = "idle" /\ main' = "serving" /\ sup' = "sleep"

Initialize ==
    /\ main = "starting" /\ conn = "idle" /\ sup = "none"
    /\ Connect
    /\ UNCHANGED <<useSsh, netVars, main, sup, holders, tunnelVars>>

\* start of the tunnel manager: it forwards to the configured port, which is
\* from then on the local one, and its reference replaces that to an older
\* tunnel.
TunnelOpens ==
    /\ conn = "tunnel" /\ sshUp
    /\ tunnel' = IF port = "remote" THEN "good" ELSE "bad"
    /\ port' = "local"
    /\ leaked' = IF tunnel \in {"good", "bad"} THEN More(leaked) ELSE leaked
    /\ ToPool
    /\ UNCHANGED <<useSsh, netVars, main, sup, status, holders, stray>>

\* It raises, or times out with the thread still at work: an older tunnel is
\* stopped, and connect gives up.
TunnelFails ==
    /\ conn = "tunnel"
    /\ \/ ~sshUp /\ UNCHANGED <<faults, stray>>
       \/ faults > 0 /\ faults' = faults - 1 /\ stray' = More(stray)
    /\ tunnel' = "none" /\ status' = "DISCONNECTED"
    /\ Return
    /\ UNCHANGED <<useSsh, dbUp, sshUp, pool, holders, port, leaked>>

\* A thread no one waits for comes to its end.
StrayEnds ==
    /\ stray > 0 /\ stray' = stray - 1
    /\ leaked' = IF sshUp THEN More(leaked) ELSE leaked
    /\ UNCHANGED <<useSsh, netVars, main, sup, conn, status, pool, holders, port, tunnel>>

Drained_Never == holders = {} /\ Full \* mutant
Drained_Early == TRUE \* mutant: close without wait_closed
Drained == holders = {}

PoolDrained ==
    /\ conn = "drain" /\ Drained
    /\ conn' = "create" /\ pool' = "none"
    /\ UNCHANGED <<useSsh, netVars, main, sup, status, holders, tunnelVars>>

PoolCreated ==
    /\ conn = "create" /\ Reachable
    /\ pool' = "open" /\ status' = "HEALTHY"
    /\ Return
    /\ UNCHANGED <<useSsh, netVars, holders, tunnelVars>>

\* The pool cannot be created in time; a tunnel is stopped in a thread.
PoolFails ==
    /\ conn = "create" /\ ~Reachable
    /\ status' = "DISCONNECTED"
    /\ IF useSsh THEN conn' = "unwind" /\ UNCHANGED <<main, sup>> ELSE Return
    /\ UNCHANGED <<useSsh, netVars, pool, holders, tunnelVars>>

Unwound ==
    /\ conn = "unwind"
    /\ tunnel' = "none"
    /\ Return
    /\ UNCHANGED <<useSsh, netVars, status, pool, holders, port, leaked, stray>>

----------------------------------------------------------------------------
(* _health_check_loop.                                                      *)

\* The sleep is over: a pool is pinged, without one connect is called.
Wake ==
    /\ sup = "sleep"
    /\ IF pool # "none" THEN sup' = "ping" /\ UNCHANGED <<status, pool, conn>>
                        ELSE sup' = "connecting" /\ Connect
    /\ UNCHANGED <<useSsh, netVars, main, holders, tunnelVars>>

PingOk ==
    /\ sup = "ping" /\ Reachable /\ ~Full
    /\ sup' = "sleep" /\ status' = "HEALTHY"
    /\ UNCHANGED <<useSsh, netVars, main, conn, pool, holders, tunnelVars>>

\* No answer within five seconds, or no free connection: DEGRADED, then
\* RECONNECTING, then connect, with no await in between.
PingFails_Ignored == \* mutant: the failure is logged and nothing else
    /\ sup = "ping" /\ (~Reachable \/ Full)
    /\ sup' = "sleep" /\ status' = "DEGRADED"
    /\ UNCHANGED <<useSsh, netVars, main, conn, pool, holders, tunnelVars>>
PingFails ==
    /\ sup = "ping" /\ (~Reachable \/ Full)
    /\ sup' = "connecting" /\ Connect
    /\ UNCHANGED <<useSsh, netVars, main, holders, tunnelVars>>

----------------------------------------------------------------------------
(* disconnect.                                                              *)

\* The flag, the cancellation of the supervisor at whatever it awaits, and the
\* closing of the pool.  A tunnel it was opening is opened all the same.
Cancelled_Not == UNCHANGED <<sup, conn, stray>> \* mutant: it is not cancelled
Cancelled ==
    /\ sup' = "done" /\ conn' = "idle"
    /\ stray' = IF conn = "tunnel" THEN More(stray) ELSE stray

Disconnect ==
    /\ main = "serving"
    /\ main' = "closing"
    /\ Cancelled
    /\ pool' = IF pool = "none" THEN "none" ELSE "closing"
    /\ UNCHANGED <<useSsh, netVars, status, holders, port, tunnel, leaked>>

PoolClosed ==
    /\ main = "closing" /\ Drained
    /\ main' = "closed" /\ pool' = "none"
    /\ UNCHANGED <<useSsh, netVars, sup, conn, status, holders, tunnelVars>>

Disconnected ==
    /\ main = "closed"
    /\ main' = "down" /\ tunnel' = "none" /\ status' = "DISCONNECTED"
    /\ UNCHANGED <<useSsh, netVars, sup, conn, pool, holders, port, leaked, stray>>

Connecting == \/ TunnelOpens \/ TunnelFails \/ PoolDrained \/ PoolCreated
              \/ PoolFails \/ Unwound

Next == \/ DbDown \/ DbRecover \/ SshDown \/ SshRecover \/ StrayEnds
        \/ \E r \in Requests : Query(r) \/ QueryEnds(r)
        \/ Initialize \/ Connecting \/ Wake \/ PingOk \/ PingFails
        \/ Disconnect \/ PoolClosed \/ Disconnected

Spec == Init /\ [][Next]_vars

\* The loop runs what can run, timers fire, a query ends (a lost connection
\* raises in the end), and outages end.
Fairness ==
    /\ WF_vars(Initialize) /\ WF_vars(Connecting) /\ WF_vars(Wake)
    /\ WF_vars(PingOk \/ PingFails) /\ WF_vars(PoolClosed) /\ WF_vars(Disconnected)
    /\ WF_vars(DbRecover) /\ WF_vars(SshRecover) /\ WF_vars(StrayEnds)
    /\ \A r \in Requests : WF_vars(QueryEnds(r))

FairSpec == Spec /\ Fairness

----------------------------------------------------------------------------
(* Properties.                                                              *)

\* Every variable holds a value of its type.
TypeOK ==
    /\ useSsh \in BOOLEAN /\ dbUp \in BOOLEAN /\ sshUp \in BOOLEAN
    /\ port \in {"remote", "local"} /\ faults \in 0 .. MaxFaults
    /\ main \in {"starting", "serving", "closing", "closed", "down"}
    /\ sup \in {"none", "sleep", "ping", "connecting", "done"}
    /\ conn \in {"idle", "tunnel", "drain", "create", "unwind"}
    /\ status \in {"DISCONNECTED", "CONNECTING", "HEALTHY"}
    /\ pool \in {"none", "open", "closing"} /\ holders \subseteq Requests
    /\ tunnel \in {"none", "good", "bad", "broken"}
    /\ leaked \in 0 .. MaxStray /\ stray \in 0 .. MaxStray

\* Until the shutdown, a session that calls itself healthy has an open pool,
\* and one that uses SSH has a tunnel under it: the CDC worker and the routes
\* never see a healthy status over a pool that is being replaced.
HealthyIsUsable ==
    main = "serving" /\ Healthy => pool = "open" /\ (useSsh => tunnel # "none")

\* A pool is only created when the one before it is drained: no request holds
\* a connection of a pool the manager no longer refers to.
NoOrphanConnections == holders # {} => pool # "none"

\* From the call of disconnect on, no step opens a pool or turns the status to
\* HEALTHY, whatever the supervisor was about to do.
ShutdownIsFinal ==
    [][main \notin {"starting", "serving"} =>
          (pool' = "open" => pool = "open") /\ (status' = "HEALTHY" => status = "HEALTHY")]_vars

\* Without SSH, a serving session over a database that answers becomes healthy.
RecoversDirect ==
    (~useSsh /\ main = "serving" /\ dbUp) ~> (Healthy \/ ~dbUp \/ main # "serving")

\* disconnect comes to its end: it waits for queries, and queries end.
ShutdownEnds == (main = "closing") ~> (main = "down")

\* README.md line 75, "Self-Healing Supervisor": with SSH too, when the gateway
\* and the database answer, the session becomes healthy.
SelfHealing ==
    (main = "serving" /\ dbUp /\ sshUp)
        ~> (Healthy \/ ~dbUp \/ ~sshUp \/ main # "serving")
=============================================================================
