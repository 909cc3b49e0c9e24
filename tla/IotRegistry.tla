---------------------------- MODULE IotRegistry ----------------------------
(***************************************************************************)
(* The IoT supervisor of app/services/iot_service.py: one record per gate,  *)
(* written by the heartbeats of the agent that runs on it, by the requests  *)
(* that deploy an agent or query a gate over SSH in a thread, and by the    *)
(* supervisor that declares silent gates OFFLINE.                           *)
(*                                                                         *)
(* All writes are made on the event loop under the service's lock, and no   *)
(* task awaits anything while it holds it: a write is one step, and the     *)
(* lock is free when it is asked for.  What interleaves is the time at      *)
(* which threads come back.  Time is a counter of ticks; barcodes, metrics  *)
(* and logs of a record are left out, no decision of the code reads them.   *)
(***************************************************************************)
EXTENDS Integers, FiniteSets

CONSTANTS
    Nodes,      \* gates, by address
    Reports,    \* statuses an agent may report: any words, OFFLINE among them
    Timeout,    \* IOT_HEARTBEAT_TIMEOUT_SECONDS
    Period,     \* the supervisor's sleep
    Late,       \* how late the loop may wake it up
    MaxTime     \* bound: the last tick

ASSUME TimeAssumption ==
    /\ Timeout \in Nat /\ Period \in Nat \ {0} /\ Late \in Nat /\ MaxTime \in Nat

ASSUME ReportAssumption == "none" \notin Reports

VARIABLES
    clock,      \* time.time()
    status,     \* the status of each gate's record, "none" without a record
    lastSeen,   \* its last_seen
    agent,      \* whether an agent runs on the gate
    deploying,  \* the thread of deploy_agent: "idle", "running", or "launched"
                \* when the agent runs and the answer is on its way
    querying,   \* whether a thread of get_node_stats is at work
    supervisor, \* whether the supervisor task is alive
    wakeAt,     \* when its sleep is over
    lastPulse   \* history: the last heartbeat or deployment of each gate

recordVars == <<status, lastSeen, lastPulse>>
jobVars == <<agent, deploying, querying>>
timeVars == <<clock, supervisor, wakeAt>>
vars == <<recordVars, jobVars, timeVars>>

Known(n) == status[n] # "none"

\* Gates the supervisor looks at.
Watched(n) == status[n] \notin {"none", "OFFLINE", "ERROR"}

Init ==
    /\ clock = 0
    /\ status = [n \in Nodes |-> "none"]
    /\ lastSeen = [n \in Nodes |-> 0]
    /\ agent \in [Nodes -> BOOLEAN]
    /\ deploying = [n \in Nodes |-> "idle"]
    /\ querying = [n \in Nodes |-> FALSE]
    /\ supervisor = TRUE /\ wakeAt = Period
    /\ lastPulse = [n \in Nodes |-> 0]

\* The supervisor wakes up when its sleep is over, and at most Late afterwards.
Tick ==
    /\ clock < MaxTime
    /\ supervisor => clock < wakeAt + Late
    /\ clock' = clock + 1
    /\ UNCHANGED <<recordVars, jobVars, supervisor, wakeAt>>

----------------------------------------------------------------------------
(* Heartbeats.                                                              *)

\* record_heartbeat: a new gate gets a record, a known one is updated, with the
\* status that the heartbeat names.
Heartbeat(n, s) ==
    /\ agent[n]
    /\ status' = [status EXCEPT ![n] = s]
    /\ lastSeen' = [lastSeen EXCEPT ![n] = clock]
    /\ lastPulse' = [lastPulse EXCEPT ![n] = clock]
    /\ UNCHANGED <<jobVars, timeVars>>

AgentDies(n) ==
    /\ agent[n]
    /\ agent' = [agent EXCEPT ![n] = FALSE]
    /\ UNCHANGED <<recordVars, deploying, querying, timeVars>>

----------------------------------------------------------------------------
(* deploy_agent and get_node_stats.                                         *)

Deploy(n) ==
    /\ deploying[n] = "idle"
    /\ deploying' = [deploying EXCEPT ![n] = "running"]
    /\ UNCHANGED <<recordVars, agent, querying, timeVars>>

\* The command that starts the agent has been sent.
Launch(n) ==
    /\ deploying[n] = "running"
    /\ deploying' = [deploying EXCEPT ![n] = "launched"]
    /\ agent' = [agent EXCEPT ![n] = TRUE]
    /\ UNCHANGED <<recordVars, querying, timeVars>>

\* The thread returns an error, of the connection or of the command.
DeployFails(n) ==
    /\ deploying[n] # "idle"
    /\ deploying' = [deploying EXCEPT ![n] = "idle"]
    /\ UNCHANGED <<recordVars, agent, querying, timeVars>>

\* The thread returns: the record is replaced, whatever heartbeats it has seen
\* since the agent was started.
Deployed(n) ==
    /\ deploying[n] = "launched"
    /\ deploying' = [deploying EXCEPT ![n] = "idle"]
    /\ status' = [status EXCEPT ![n] = "DEPLOYED"]
    /\ lastSeen' = [lastSeen EXCEPT ![n] = clock]
    /\ lastPulse' = [lastPulse EXCEPT ![n] = clock]
    /\ UNCHANGED <<agent, querying, timeVars>>

Query(n) ==
    /\ ~querying[n]
    /\ querying' = [querying EXCEPT ![n] = TRUE]
    /\ UNCHANGED <<recordVars, agent, deploying, timeVars>>

\* An answer refreshes last_seen of a known gate and leaves its status alone.
Answered(n) ==
    /\ querying[n]
    /\ querying' = [querying EXCEPT ![n] = FALSE]
    /\ lastSeen' = IF Known(n) THEN [lastSeen EXCEPT ![n] = clock] ELSE lastSeen
    /\ UNCHANGED <<status, lastPulse, agent, deploying, timeVars>>

QueryFails(n) ==
    /\ querying[n]
    /\ querying' = [querying EXCEPT ![n] = FALSE]
    /\ UNCHANGED <<recordVars, agent, deploying, timeVars>>

----------------------------------------------------------------------------
(* The supervisor.                                                          *)

Expired_OffByOne(n) == Watched(n) /\ clock - lastSeen[n] >= Timeout \* mutant
Expired_ActiveOnly(n) == \* mutant: a deployed gate is not watched
    Watched(n) /\ status[n] # "DEPLOYED" /\ clock - lastSeen[n] > Timeout
Expired(n) == Watched(n) /\ clock - lastSeen[n] > Timeout

\* _node_ttl_supervisor: one pass over the records, then the next sleep.
Sweep_Inactive == \* mutant: a word no reader of the status knows
    /\ supervisor /\ clock >= wakeAt
    /\ status' = [n \in Nodes |-> IF Expired(n) THEN "INACTIVE" ELSE status[n]]
    /\ wakeAt' = clock + Period
    /\ UNCHANGED <<lastSeen, lastPulse, jobVars, clock, supervisor>>
Sweep ==
    /\ supervisor /\ clock >= wakeAt
    /\ status' = [n \in Nodes |-> IF Expired(n) THEN "OFFLINE" ELSE status[n]]
    /\ wakeAt' = clock + Period
    /\ UNCHANGED <<lastSeen, lastPulse, jobVars, clock, supervisor>>

\* stop, on shutdown.
Stop ==
    /\ supervisor
    /\ supervisor' = FALSE
    /\ UNCHANGED <<recordVars, jobVars, clock, wakeAt>>

Pulse(n) == \E s \in Reports : Heartbeat(n, s)

Request(n) == Deploy(n) \/ Launch(n) \/ DeployFails(n) \/ Deployed(n)
                \/ Query(n) \/ Answered(n) \/ QueryFails(n)

Next == \/ Tick \/ Sweep \/ Stop
        \/ \E n \in Nodes : Pulse(n) \/ AgentDies(n) \/ Request(n)

Spec == Init /\ [][Next]_vars

----------------------------------------------------------------------------
(* Properties.                                                              *)

\* Every variable holds a value of its type.
TypeOK ==
    /\ clock \in Nat /\ wakeAt \in Nat /\ supervisor \in BOOLEAN
    /\ status \in [Nodes -> Reports \cup {"none", "OFFLINE", "DEPLOYED"}]
    /\ lastSeen \in [Nodes -> Nat] /\ lastPulse \in [Nodes -> Nat]
    /\ agent \in [Nodes -> BOOLEAN]
    /\ deploying \in [Nodes -> {"idle", "running", "launched"}]
    /\ querying \in [Nodes -> BOOLEAN]

\* How long a gate may go unheard before its record says so.
Grace == Timeout + Period + Late

\* While the supervisor lives no gate passes for online longer than Grace after
\* the last heartbeat, deployment or answer, however deployments and queries
\* that return late write over the record (lines 28-46, 175-185, 236-247).
UnheardIsOffline ==
    supervisor => \A n \in Nodes : Watched(n) => clock - lastSeen[n] <= Grace

\* No gate becomes OFFLINE within Timeout of a heartbeat or a deployment, unless
\* its own agent says that it is (lines 37-39, 99-118).
OnlyUnheardGoOffline ==
    [][\A n \in Nodes : Known(n) /\ status[n] # "OFFLINE" /\ status'[n] = "OFFLINE"
            => Heartbeat(n, "OFFLINE") \/ clock - lastPulse[n] > Timeout]_vars
=============================================================================
