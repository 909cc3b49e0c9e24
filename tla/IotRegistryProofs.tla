------------------------- MODULE IotRegistryProofs -------------------------
(***************************************************************************)
(* Proofs about IotRegistry, for any gates, times and statuses an agent     *)
(* reports: its types (TypeCorrect), and that the supervisor finds every    *)
(* silent gate within Grace (SilenceIsFound) and no other                   *)
(* (OnlySilenceIsFound).                                                    *)
(***************************************************************************)
EXTENDS IotRegistry, TLAPS

\* A gate passes for online when the last sweep left it so: its sign of life
\* is at most Timeout older than that sweep, and the next one is not overdue.
SweepInv ==
    /\ wakeAt <= clock + Period
    /\ supervisor => clock <= wakeAt + Late
    /\ \A n \in Nodes :
         /\ lastPulse[n] <= lastSeen[n] /\ lastSeen[n] <= clock
         /\ supervisor /\ Watched(n) => wakeAt <= lastSeen[n] + Timeout + Period

IInv == TypeOK /\ SweepInv

\* The registry starts empty, with the first sweep a period away.
LEMMA InitInv == Init => IInv
  BY TimeAssumption DEF Init, IInv, TypeOK, SweepInv, Watched

\* Every step keeps the types and the relation of clock, sweep and records.
LEMMA NextInv == IInv /\ [Next]_vars => IInv'
<1> SUFFICES ASSUME IInv, [Next]_vars PROVE IInv'
  OBVIOUS
<1> USE TimeAssumption DEF IInv, TypeOK, SweepInv, Watched, recordVars, jobVars,
                           timeVars
<1>1. CASE Tick
  BY <1>1 DEF Tick
<1>2. CASE Sweep
  <2>1. TypeOK'
    BY <1>2 DEF Sweep
  <2>2. \A n \in Nodes : Watched(n)' => Watched(n) /\ clock <= lastSeen[n] + Timeout
    BY <1>2 DEF Sweep, Expired
  <2> QED
    BY <1>2, <2>1, <2>2 DEF Sweep
<1>3. CASE Stop
  BY <1>3 DEF Stop
<1>4. ASSUME NEW n \in Nodes, Pulse(n) PROVE IInv'
  BY <1>4 DEF Pulse, Heartbeat
<1>5. ASSUME NEW n \in Nodes, AgentDies(n) PROVE IInv'
  BY <1>5 DEF AgentDies
<1>6. ASSUME NEW n \in Nodes, Request(n) PROVE IInv'
  <2>1. CASE Deploy(n)
    BY <2>1 DEF Deploy
  <2>2. CASE Launch(n)
    BY <2>2 DEF Launch
  <2>3. CASE DeployFails(n)
    BY <2>3 DEF DeployFails
  <2>4. CASE Deployed(n)
    BY <2>4 DEF Deployed
  <2>5. CASE Query(n)
    BY <2>5 DEF Query
  <2>6. CASE Answered(n)
    BY <2>6 DEF Answered, Known
  <2>7. CASE QueryFails(n)
    BY <2>7 DEF QueryFails
  <2> QED
    BY <1>6, <2>1, <2>2, <2>3, <2>4, <2>5, <2>6, <2>7 DEF Request
<1>7. CASE UNCHANGED vars
  BY <1>7 DEF vars
<1> QED
  BY <1>1, <1>2, <1>3, <1>4, <1>5, <1>6, <1>7 DEF Next

\* The invariant the results rest on.
THEOREM Invariance == Spec => []IInv
  BY InitInv, NextInv, PTL DEF Spec

\* Every record keeps a status that the code, or an agent, may write, and times
\* that the clock has shown: no interleaving of heartbeats, deployments,
\* answers and sweeps leaves one half written.
THEOREM TypeCorrect == Spec => []TypeOK
<1>1. IInv => TypeOK
  BY DEF IInv
<1> QED
  BY <1>1, Invariance, PTL

\* No gate passes for online longer than Grace after its last sign of life, for
\* any timeout, period and lateness of the loop.
THEOREM SilenceIsFound == Spec => []UnheardIsOffline
<1>1. IInv => UnheardIsOffline
  BY TimeAssumption DEF IInv, TypeOK, SweepInv, UnheardIsOffline, Grace
<1> QED
  BY <1>1, Invariance, PTL

\* A step that turns a gate OFFLINE is a sweep that finds the gate unheard, or
\* what its agent reports.
LEMMA StepFinds ==
    ASSUME IInv, [Next]_vars, NEW n \in Nodes, Known(n), status[n] # "OFFLINE",
           status'[n] = "OFFLINE"
    PROVE  Heartbeat(n, "OFFLINE") \/ clock - lastPulse[n] > Timeout
<1>1. CASE Sweep
  BY <1>1, TimeAssumption DEF Sweep, Expired, IInv, TypeOK, SweepInv
<1>2. ASSUME NEW m \in Nodes, NEW s \in Reports, Heartbeat(m, s)
      PROVE  Heartbeat(n, "OFFLINE")
  <2>1. m = n /\ s = "OFFLINE"
    BY <1>2 DEF Heartbeat, IInv, TypeOK
  <2> QED
    BY <1>2, <2>1
<1>3. CASE ~Sweep /\ ~\E m \in Nodes : Pulse(m)
  BY <1>3 DEF IInv, TypeOK, Next, vars, recordVars, jobVars, timeVars, Tick,
     Stop, AgentDies, Request, Deploy, Launch, DeployFails,
     Deployed, Query, Answered, QueryFails
<1> QED
  BY <1>1, <1>2, <1>3 DEF Pulse

\* No gate becomes OFFLINE within Timeout of a heartbeat or a deployment, unless
\* its own agent says so.
THEOREM OnlySilenceIsFound == Spec => OnlyUnheardGoOffline
<1>1. IInv /\ [Next]_vars =>
        [\A n \in Nodes : Known(n) /\ status[n] # "OFFLINE" /\ status'[n] = "OFFLINE"
             => Heartbeat(n, "OFFLINE") \/ clock - lastPulse[n] > Timeout]_vars
  BY StepFinds
<1> QED
  BY <1>1, Invariance, PTL DEF Spec, OnlyUnheardGoOffline
=============================================================================
