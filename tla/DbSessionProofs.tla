-------------------------- MODULE DbSessionProofs --------------------------
(***************************************************************************)
(* Proofs about DbSession, with SSH and without, for any requests, size of  *)
(* the pool and number of faults: its types (TypeCorrect), that a healthy   *)
(* session is usable (HealthyCanBeUsed), that no connection outlives the    *)
(* manager's reference to its pool (NoneIsOrphaned) and that a shutdown is  *)
(* not undone (ShutdownStays).                                              *)
(***************************************************************************)
EXTENDS DbSession, TLAPS

\* The places of the three tasks: connect runs for the lifespan task until the
\* supervisor is created, then only for the supervisor, and disconnect ends it.
TaskInv ==
    /\ main = "starting" => sup = "none"
    /\ main = "serving" => sup \in {"sleep", "ping", "connecting"}
    /\ main \in {"closing", "closed", "down"} => sup = "done" /\ conn = "idle"
    /\ conn # "idle" /\ main = "serving" => sup = "connecting"

\* A pool that is closing has a connect, or a disconnect, that waits for it, and
\* the supervisor pings open pools only.
PoolInv ==
    /\ pool = "closing" => conn = "drain" \/ main = "closing"
    /\ conn \in {"create", "unwind"} => pool = "none"
    /\ sup = "ping" => pool = "open"

\* The status speaks of what is there: connect takes HEALTHY back before it
\* touches tunnel or pool, and only a tunnel that leads to the database, or
\* none where none is used, brings it again.
StatusInv ==
    /\ conn # "idle" => status # "HEALTHY"
    /\ main = "starting" => status # "HEALTHY"
    /\ main = "serving" /\ status = "HEALTHY" =>
         pool = "open" /\ (useSsh => tunnel # "none")

IInv == TypeOK /\ TaskInv /\ PoolInv /\ StatusInv /\ NoOrphanConnections

\* A counter of what is left behind stays within its bound.
LEMMA MoreIsBounded == \A n \in 0 .. MaxStray : More(n) \in 0 .. MaxStray
  BY SessionAssumption DEF More

\* The session starts disconnected, with nothing open.
LEMMA InitInv == Init => IInv
  BY SessionAssumption
  DEF Init, IInv, TypeOK, TaskInv, PoolInv, StatusInv, NoOrphanConnections

\* The network and the requests keep the invariant: a gateway that goes away
\* breaks a tunnel and does not take the reference to it.
LEMMA OutsideInv ==
    ASSUME IInv,
           \/ DbDown \/ DbRecover \/ SshDown \/ SshRecover \/ StrayEnds
           \/ \E r \in Requests : Query(r) \/ QueryEnds(r)
    PROVE  IInv'
<1> USE SessionAssumption
    DEF IInv, TypeOK, TaskInv, PoolInv, StatusInv, NoOrphanConnections, netVars,
        tunnelVars
<1>1. CASE DbDown
  <2>1. faults' \in 0 .. MaxFaults
    BY <1>1 DEF DbDown
  <2>2. dbUp' \in BOOLEAN /\ sshUp' \in BOOLEAN
    BY <1>1 DEF DbDown
  <2>3. UNCHANGED <<useSsh, main, sup, conn, status, pool, holders, tunnelVars>>
    BY <1>1 DEF DbDown
  <2> QED
    BY <2>1, <2>2, <2>3
<1>2. CASE DbRecover
  BY <1>2 DEF DbRecover
<1>3. CASE SshDown
  <2>1. faults' \in 0 .. MaxFaults
    BY <1>3 DEF SshDown
  <2>2. dbUp' \in BOOLEAN /\ sshUp' \in BOOLEAN
    BY <1>3 DEF SshDown
  <2>3. /\ tunnel' \in {"none", "good", "bad", "broken"}
        /\ tunnel # "none" => tunnel' # "none"
        /\ leaked' \in 0 .. MaxStray
    BY <1>3 DEF SshDown
  <2>4. UNCHANGED <<useSsh, main, sup, conn, status, pool, holders, port, stray>>
    BY <1>3 DEF SshDown
  <2> QED
    BY <2>1, <2>2, <2>3, <2>4
<1>4. CASE SshRecover
  BY <1>4 DEF SshRecover
<1>5. CASE StrayEnds
  BY <1>5, MoreIsBounded DEF StrayEnds
<1>6. ASSUME NEW r \in Requests, Query(r) PROVE IInv'
  BY <1>6 DEF Query
<1>7. ASSUME NEW r \in Requests, QueryEnds(r) PROVE IInv'
  BY <1>7 DEF QueryEnds
<1> QED
  BY <1>1, <1>2, <1>3, <1>4, <1>5, <1>6, <1>7

\* Each step of connect keeps it, whichever task is inside.
LEMMA ConnectingInv == ASSUME IInv, Connecting PROVE IInv'
<1> USE SessionAssumption
    DEF IInv, TypeOK, TaskInv, PoolInv, StatusInv, NoOrphanConnections, netVars,
        tunnelVars, Return
<1>0. main \in {"starting", "serving"}
  BY DEF Connecting, TunnelOpens, TunnelFails, PoolDrained, PoolCreated, PoolFails,
         Unwound
<1> USE <1>0
<1>1. CASE TunnelOpens
  BY <1>1, MoreIsBounded DEF TunnelOpens, ToPool
<1>2. CASE TunnelFails
  BY <1>2, MoreIsBounded DEF TunnelFails
<1>3. CASE PoolDrained
  BY <1>3 DEF PoolDrained, Drained
<1>4. CASE PoolCreated
  BY <1>4 DEF PoolCreated, Reachable
<1>5. CASE PoolFails
  BY <1>5 DEF PoolFails
<1>6. CASE Unwound
  BY <1>6 DEF Unwound
<1> QED
  BY <1>1, <1>2, <1>3, <1>4, <1>5, <1>6 DEF Connecting

\* The lifespan task and the supervisor keep it.
LEMMA TasksInv ==
    ASSUME IInv,
           \/ Initialize \/ Wake \/ PingOk \/ PingFails
           \/ Disconnect \/ PoolClosed \/ Disconnected
    PROVE  IInv'
<1> USE SessionAssumption
    DEF IInv, TypeOK, TaskInv, PoolInv, StatusInv, NoOrphanConnections, netVars,
        tunnelVars, Connect, ToPool
<1>1. CASE Initialize
  BY <1>1 DEF Initialize
<1>2. CASE Wake
  BY <1>2 DEF Wake
<1>3. CASE PingOk
  BY <1>3 DEF PingOk, Reachable
<1>4. CASE PingFails
  BY <1>4 DEF PingFails
<1>5. CASE Disconnect
  BY <1>5, MoreIsBounded DEF Disconnect, Cancelled
<1>6. CASE PoolClosed
  BY <1>6 DEF PoolClosed, Drained
<1>7. CASE Disconnected
  BY <1>7 DEF Disconnected
<1> QED
  BY <1>1, <1>2, <1>3, <1>4, <1>5, <1>6, <1>7

\* The invariant the results rest on.
THEOREM Invariance == Spec => []IInv
<1>1. IInv /\ Next => IInv'
  BY OutsideInv, ConnectingInv, TasksInv DEF Next
<1>2. IInv /\ UNCHANGED vars => IInv'
  BY DEF IInv, TypeOK, TaskInv, PoolInv, StatusInv, NoOrphanConnections, vars,
         netVars, tunnelVars
<1> QED
  BY <1>1, <1>2, InitInv, PTL DEF Spec

----------------------------------------------------------------------------
(* Results.                                                                 *)

\* Every variable keeps its type: no order of connect, ping, outage and
\* cancellation leads to a place the code does not have.
THEOREM TypeCorrect == Spec => []TypeOK
<1>1. IInv => TypeOK
  BY DEF IInv
<1> QED
  BY <1>1, Invariance, PTL

\* Until the shutdown a healthy status is never seen over a pool that is being
\* replaced or without the tunnel it needs.
THEOREM HealthyCanBeUsed == Spec => []HealthyIsUsable
<1>1. IInv => HealthyIsUsable
  BY DEF IInv, StatusInv, HealthyIsUsable, Healthy
<1> QED
  BY <1>1, Invariance, PTL

\* No request holds a connection of a pool that the manager has replaced.
THEOREM NoneIsOrphaned == Spec => []NoOrphanConnections
<1>1. IInv => NoOrphanConnections
  BY DEF IInv
<1> QED
  BY <1>1, Invariance, PTL

\* After disconnect is called the supervisor is gone from wherever it was, and
\* with it all that opens a pool or reports it healthy.
LEMMA StepIsFinal ==
    ASSUME IInv, [Next]_vars, main \notin {"starting", "serving"}
    PROVE  /\ pool' = "open" => pool = "open"
           /\ status' = "HEALTHY" => status = "HEALTHY"
<1>1. main \in {"closing", "closed", "down"} /\ sup = "done" /\ conn = "idle"
  BY DEF IInv, TypeOK, TaskInv
<1>2. CASE DbDown \/ DbRecover \/ SshDown \/ SshRecover \/ StrayEnds \/ UNCHANGED vars
  BY <1>2 DEF DbDown, DbRecover, SshDown, SshRecover, StrayEnds, vars
<1>3. CASE \E r \in Requests : Query(r) \/ QueryEnds(r)
  BY <1>3 DEF Query, QueryEnds
<1>4. CASE Disconnect \/ PoolClosed \/ Disconnected
  BY <1>1, <1>4 DEF Disconnect, PoolClosed, Disconnected
<1>5. ~(Initialize \/ Connecting \/ Wake \/ PingOk \/ PingFails)
  BY <1>1 DEF Initialize, Connecting, TunnelOpens, TunnelFails, PoolDrained,
     PoolCreated, PoolFails, Unwound, Wake, PingOk, PingFails
<1> QED
  BY <1>2, <1>3, <1>4, <1>5 DEF Next

\* No step after the call of disconnect opens a pool or turns the status to
\* HEALTHY, whatever the supervisor was about to do.
THEOREM ShutdownStays == Spec => ShutdownIsFinal
<1>1. IInv /\ [Next]_vars =>
        [main \notin {"starting", "serving"} =>
            /\ pool' = "open" => pool = "open"
            /\ status' = "HEALTHY" => status = "HEALTHY"]_vars
  BY StepIsFinal
<1> QED
  BY <1>1, Invariance, PTL DEF Spec, ShutdownIsFinal
=============================================================================
