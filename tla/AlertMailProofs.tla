-------------------------- MODULE AlertMailProofs --------------------------
(***************************************************************************)
(* Proofs about AlertMail, for any events, rate, number of threads and any   *)
(* course of the wall clock: the limit bounds the mails (InboxIsNotFlooded)  *)
(* and silences alerts only on account of a mail (SilenceHasAMail).          *)
(***************************************************************************)
EXTENDS AlertMail, TLAPS

\* What last_sent_time is: nothing yet, or the wall clock at the last slot.
StampInv ==
    /\ slots = 0 => lastSent = 0
    /\ slots > 0 => lastSent = Rate + slotAt.time + slotAt.ahead - slotAt.back
    /\ slotAt.time <= time /\ slotAt.ahead <= ahead /\ slotAt.back <= back
    /\ Wall >= Rate

\* The bound at the last slot; time has only passed since.
SlotInv == slots > 0 => (slots - 1) * Rate <= slotAt.time + slotAt.ahead

IInv == TypeOK /\ StampInv /\ SlotInv

\* Products of a sum, for the arithmetic of slots.
LEMMA OneMore ==
  ASSUME NEW n \in Nat, NEW r \in Nat PROVE n * r = (n - 1) * r + r
  OBVIOUS

LEMMA InitInv == Init => IInv
  BY MailAssumption
  DEF Init, IInv, TypeOK, StampInv, SlotInv, Wall, Events, Stages, Job

\* Time passes, and the clock is set.
LEMMA ClockInv == IInv /\ Clock => IInv'
<1> SUFFICES ASSUME IInv, Clock PROVE IInv'
  OBVIOUS
<1> USE MailAssumption
    DEF IInv, TypeOK, StampInv, SlotInv, Wall, limitVars, executorVars
<1>1. CASE Tick
  BY <1>1 DEF Tick
<1>2. CASE SetAhead
  BY <1>2 DEF SetAhead
<1>3. CASE SetBack
  BY <1>3 DEF SetBack
<1> QED
  BY <1>1, <1>2, <1>3 DEF Clock

\* Only a mail that passes changes what the invariant is about.
LEMMA HandlerInv == ASSUME NEW e \in Events PROVE IInv /\ Handler(e) => IInv'
<1> SUFFICES ASSUME IInv, Handler(e) PROVE IInv'
  OBVIOUS
<1>1. CASE Arrive(e) \/ NoAlert(e) \/ Suppress(e)
  BY <1>1 DEF Arrive, NoAlert, Suppress, IInv, TypeOK, StampInv, SlotInv, Wall,
              clockVars, limitVars, executorVars, Stages
<1>2. CASE Pass(e)
  <2>1. TypeOK'
    <3>1. handler' \in [Events -> Stages]
      BY <1>2 DEF Pass, IInv, TypeOK, Stages
    <3>2. queue' \in Seq(Events \cup {Job})
      BY <1>2 DEF Pass, IInv, TypeOK
    <3>3. lastSent' \in Int
      BY <1>2, MailAssumption DEF Pass, IInv, TypeOK, Wall
    <3>4. slots' \in Nat /\ slotAt' \in [time : Nat, ahead : Nat, back : Nat]
      BY <1>2 DEF Pass, Slot, IInv, TypeOK
    <3> QED
      BY <1>2, <3>1, <3>2, <3>3, <3>4 DEF Pass, IInv, TypeOK, clockVars
  <2>2. StampInv'
    BY <1>2, MailAssumption DEF Pass, Slot, IInv, TypeOK, StampInv, Wall, clockVars
  <2>3. SlotInv'
    <3>1. CASE slots = 0
      BY <1>2, <3>1, MailAssumption
      DEF Pass, Slot, IInv, TypeOK, SlotInv, clockVars
    <3>2. CASE slots > 0
      <4>1. time + ahead >= (slots - 1) * Rate + Rate
        <5>1. Wall - lastSent >= Rate
          BY <1>2, MailAssumption DEF Pass, Limited, IInv, TypeOK, Wall
        <5>2. (slots - 1) * Rate \in Int
          BY MailAssumption DEF IInv, TypeOK
        <5>3. (slots - 1) * Rate <= slotAt.time + slotAt.ahead
          BY <3>2 DEF IInv, SlotInv
        <5> QED
          BY <3>2, <5>1, <5>2, <5>3, MailAssumption DEF IInv, TypeOK, StampInv, Wall
      <4>2. slots * Rate <= time + ahead
        BY <4>1, OneMore, MailAssumption DEF IInv, TypeOK
      <4>3. slots' = slots + 1 /\ slotAt'.time = time /\ slotAt'.ahead = ahead
        BY <1>2 DEF Pass, Slot
      <4>4. slots' - 1 = slots
        BY <4>3 DEF IInv, TypeOK
      <4> QED
        BY <4>2, <4>3, <4>4 DEF SlotInv
    <3> QED
      BY <3>1, <3>2 DEF IInv, TypeOK
  <2> QED
    BY <2>1, <2>2, <2>3 DEF IInv
<1> QED
  BY <1>1, <1>2 DEF Handler

\* The executor and its threads know nothing of the limit.
LEMMA ExecutorInv == IInv /\ Executor => IInv'
<1> SUFFICES ASSUME IInv, Executor PROVE IInv'
  OBVIOUS
<1>1. TypeOK'
  <2> USE DEF IInv, TypeOK, clockVars, limitVars
  <2>1. CASE OtherWork
    BY <2>1 DEF OtherWork
  <2>2. CASE TakeJob
    BY <2>2 DEF TakeJob
  <2>3. CASE TakeMail
    <3>1. queue' \in Seq(Events \cup {Job})
      BY <2>3 DEF TakeMail
    <3>2. handler' \in [Events -> Stages]
      BY <2>3 DEF TakeMail, Stages
    <3> QED
      BY <2>3, <3>1, <3>2 DEF TakeMail
  <2>4. CASE WorkEnds
    BY <2>4 DEF WorkEnds
  <2> QED
    BY <2>1, <2>2, <2>3, <2>4 DEF Executor
<1>2. UNCHANGED <<clockVars, limitVars>>
  BY DEF Executor, OtherWork, TakeJob, TakeMail, WorkEnds
<1> QED
  BY <1>1, <1>2 DEF IInv, StampInv, SlotInv, Wall, clockVars, limitVars

LEMMA ThreadInv == ASSUME NEW e \in Events PROVE IInv /\ Thread(e) => IInv'
  BY DEF Thread, Sent, SendFails, IInv, TypeOK, StampInv, SlotInv, Wall, clockVars,
         limitVars, executorVars, Stages

\* The invariant the results rest on.
THEOREM Invariance == Spec => []IInv
<1>1. IInv /\ UNCHANGED vars => IInv'
  BY DEF IInv, TypeOK, StampInv, SlotInv, Wall, vars, clockVars, limitVars, executorVars
<1>2. IInv /\ [Next]_vars => IInv'
  BY <1>1, ClockInv, HandlerInv, ExecutorInv, ThreadInv DEF Next
<1> QED
  BY <1>2, InitInv, PTL DEF Spec

\* The variables keep their types.
THEOREM TypeCorrect == Spec => []TypeOK
  BY Invariance, PTL DEF IInv

\* No burst and no clock that is set back makes the limit pass more mails than
\* one for each Rate ticks, and one more.
THEOREM InboxIsNotFlooded == Spec => []NoFlood
<1>1. IInv => NoFlood
  <2> SUFFICES ASSUME IInv, slots > 0 PROVE (slots - 1) * Rate <= time + ahead
    BY DEF NoFlood
  <2>1. (slots - 1) * Rate \in Int
    BY MailAssumption DEF IInv, TypeOK
  <2> QED
    BY <2>1 DEF IInv, TypeOK, StampInv, SlotInv
<1> QED
  BY <1>1, Invariance, PTL

\* An alert is suppressed only within Rate of a mail, by the clock that is read.
THEOREM SilenceHasAMail == Spec => SilencedByMailOnly
<1> DEFINE Silent == \A e \in Events :
             handler[e] # "suppressed" /\ handler'[e] = "suppressed" =>
                 /\ slots > 0
                 /\ time + ahead - back
                      < slotAt.time + slotAt.ahead - slotAt.back + Rate
<1>1. IInv /\ [Next]_vars => Silent
  <2> SUFFICES ASSUME IInv, [Next]_vars, NEW e \in Events,
                      handler[e] # "suppressed", handler'[e] = "suppressed"
               PROVE  /\ slots > 0
                      /\ time + ahead - back
                           < slotAt.time + slotAt.ahead - slotAt.back + Rate
    OBVIOUS
  <2>1. Suppress(e)
    <3>1. handler' # handler
      OBVIOUS
    <3>2. PICK d \in Events : Handler(d) \/ Thread(d) \/ TakeMail
      BY <3>1 DEF Next, vars, Clock, Tick, SetAhead, SetBack, Executor, OtherWork,
                  TakeJob, WorkEnds
    <3>3. CASE TakeMail
      BY <3>3 DEF TakeMail, IInv, TypeOK
    <3>4. CASE Handler(d) \/ Thread(d)
      BY <3>4 DEF Handler, Thread, Arrive, NoAlert, Suppress, Pass, Sent, SendFails,
                  IInv, TypeOK
    <3> QED
      BY <3>2, <3>3, <3>4
  <2>2. Limited
    BY <2>1 DEF Suppress
  <2> QED
    BY <2>2, MailAssumption DEF Limited, IInv, TypeOK, StampInv, Wall
<1>2. [][IInv /\ [Next]_vars => Silent]_vars
  BY <1>1, PTL
<1> QED
  BY <1>1, Invariance, PTL DEF Spec, SilencedByMailOnly
=============================================================================
