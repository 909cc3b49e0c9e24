----------------------------- MODULE AlertMail -----------------------------
(***************************************************************************)
(* From a row event to a mail: _handle_event_async of the CDC engine and    *)
(* app/services/smtp_service.py, with mail configured.                      *)
(*                                                                         *)
(* The handler of an event broadcasts it, which may suspend it for any      *)
(* time (WsHub), and passes the rate limit in one step: the limit's lock is *)
(* not held over an await, so asking for it never suspends.  A mail that    *)
(* passes waits for a thread of the loop's executor, which it shares with   *)
(* the tunnel's and the gates' SSH work, and is sent there.                 *)
(*                                                                         *)
(* The limit reads the wall clock.  It runs with the time that passes, and  *)
(* may be set ahead or back.  At the start it is at Rate at least, that is, *)
(* past the first seconds of 1970, as last_sent_time is 0 until a mail.     *)
(***************************************************************************)
EXTENDS Integers, Sequences, FiniteSets

CONSTANTS
    Rows,       \* the events in the order of the binlog, [table, type] each
    Rate,       \* SMTP_RATE_LIMIT_SECONDS
    Threads,    \* threads of the executor
    MaxJobs,    \* bound: other work given to the executor
    MaxTime,    \* bound: ticks that pass
    MaxSet      \* bound: ticks the wall clock is set ahead, and back

Tables == {"issues", "old_issues", "borrowers", "other"}
Types == {"INSERT", "UPDATE", "DELETE"}

ASSUME MailAssumption ==
    /\ Rows \in Seq([table : Tables, type : Types])
    /\ Rate \in Nat /\ Threads \in Nat \ {0}
    /\ MaxJobs \in Nat /\ MaxTime \in Nat /\ MaxSet \in Nat

Events == DOMAIN Rows
Job == 0    \* other work in the executor's queue

VARIABLES
    time,       \* ticks that have passed
    ahead,      \* ticks the wall clock has been set ahead
    back,       \* ticks it has been set back
    lastSent,   \* last_sent_time
    handler,    \* the handler of each event: "due", "broadcasting", "queued",
                \* "sending", or how it ended
    queue,      \* work waiting for a thread of the executor
    jobs,       \* other work not yet given to it
    busy,       \* threads that do other work
    slots,      \* history: mails that passed the limit
    slotAt      \* history: time, ahead and back when the last of them did

clockVars == <<time, ahead, back>>
limitVars == <<lastSent, slots, slotAt>>
executorVars == <<queue, jobs, busy>>
vars == <<clockVars, limitVars, handler, executorVars>>

\* time.time()
Wall == Rate + time + ahead - back

Init ==
    /\ time = 0 /\ ahead = 0 /\ back = 0
    /\ lastSent = 0
    /\ handler = [e \in Events |-> "due"]
    /\ queue = <<>> /\ jobs = MaxJobs /\ busy = 0
    /\ slots = 0 /\ slotAt = [time |-> 0, ahead |-> 0, back |-> 0]

----------------------------------------------------------------------------
(* Time.                                                                    *)

Tick ==
    /\ time < MaxTime
    /\ time' = time + 1
    /\ UNCHANGED <<ahead, back, limitVars, handler, executorVars>>

SetAhead ==
    /\ ahead < MaxSet
    /\ ahead' = ahead + 1
    /\ UNCHANGED <<time, back, limitVars, handler, executorVars>>

SetBack ==
    /\ back < MaxSet /\ Wall > Rate
    /\ back' = back + 1
    /\ UNCHANGED <<time, ahead, limitVars, handler, executorVars>>

----------------------------------------------------------------------------
(* The handlers.                                                            *)

\* _build_circulation_alert makes an alert of these rows.
Alerts(row) ==
    \/ row.table = "issues" /\ row.type \in {"INSERT", "DELETE"}
    \/ row.table = "old_issues" /\ row.type = "INSERT"
    \/ row.table = "borrowers"

\* The CDC engine schedules the handlers in the order of the rows, and the
\* loop starts them in that order.
Arrive(e) ==
    /\ handler[e] = "due" /\ \A d \in 1 .. e - 1 : handler[d] # "due"
    /\ handler' = [handler EXCEPT ![e] = "broadcasting"]
    /\ UNCHANGED <<clockVars, limitVars, executorVars>>

\* The broadcast is over and there is no alert to mail.
NoAlert(e) ==
    /\ handler[e] = "broadcasting" /\ ~Alerts(Rows[e])
    /\ handler' = [handler EXCEPT ![e] = "no alert"]
    /\ UNCHANGED <<clockVars, limitVars, executorVars>>

Limited == Wall - lastSent < Rate

Suppress_Slides(e) == \* mutant: an alert that is suppressed moves the window
    /\ handler[e] = "broadcasting" /\ Alerts(Rows[e]) /\ Limited
    /\ handler' = [handler EXCEPT ![e] = "suppressed"]
    /\ lastSent' = Wall
    /\ UNCHANGED <<clockVars, slots, slotAt, executorVars>>
Suppress(e) ==
    /\ handler[e] = "broadcasting" /\ Alerts(Rows[e]) /\ Limited
    /\ handler' = [handler EXCEPT ![e] = "suppressed"]
    /\ UNCHANGED <<clockVars, limitVars, executorVars>>

\* The mail takes the slot and is handed to the executor.
Slot ==
    /\ slots' = slots + 1
    /\ slotAt' = [time |-> time, ahead |-> ahead, back |-> back]
Pass_UnmarkedSlot(e) == \* mutant: last_sent_time is left to the sending thread
    /\ handler[e] = "broadcasting" /\ Alerts(Rows[e]) /\ ~Limited
    /\ handler' = [handler EXCEPT ![e] = "queued"]
    /\ queue' = Append(queue, e)
    /\ Slot
    /\ UNCHANGED <<clockVars, lastSent, jobs, busy>>
Pass(e) ==
    /\ handler[e] = "broadcasting" /\ Alerts(Rows[e]) /\ ~Limited
    /\ lastSent' = Wall
    /\ handler' = [handler EXCEPT ![e] = "queued"]
    /\ queue' = Append(queue, e)
    /\ Slot
    /\ UNCHANGED <<clockVars, jobs, busy>>

----------------------------------------------------------------------------
(* The executor.                                                            *)

Free == busy + Cardinality({e \in Events : handler[e] = "sending"}) < Threads

\* The tunnel or a gate's deployment, query, command or scan asks for a thread.
OtherWork ==
    /\ jobs > 0
    /\ jobs' = jobs - 1 /\ queue' = Append(queue, Job)
    /\ UNCHANGED <<clockVars, limitVars, handler, busy>>

\* A free thread takes what has waited longest.
TakeJob ==
    /\ queue # <<>> /\ Head(queue) = Job /\ Free
    /\ queue' = Tail(queue) /\ busy' = busy + 1
    /\ UNCHANGED <<clockVars, limitVars, handler, jobs>>

TakeMail ==
    /\ queue # <<>> /\ Head(queue) # Job /\ Free
    /\ queue' = Tail(queue)
    /\ handler' = [handler EXCEPT ![Head(queue)] = "sending"]
    /\ UNCHANGED <<clockVars, limitVars, jobs, busy>>

WorkEnds ==
    /\ busy > 0
    /\ busy' = busy - 1
    /\ UNCHANGED <<clockVars, limitVars, handler, queue, jobs>>

\* _send_sync returns, with a mail that was sent or an error it caught: every
\* wait for the mail server has a timeout.
Sent(e) ==
    /\ handler[e] = "sending"
    /\ handler' = [handler EXCEPT ![e] = "sent"]
    /\ UNCHANGED <<clockVars, limitVars, executorVars>>

SendFails_Retries(e) == \* mutant: a mail that fails is tried again without end
    /\ handler[e] = "sending"
    /\ handler' = [handler EXCEPT ![e] = "queued"]
    /\ queue' = Append(queue, e)
    /\ UNCHANGED <<clockVars, limitVars, jobs, busy>>
SendFails(e) ==
    /\ handler[e] = "sending"
    /\ handler' = [handler EXCEPT ![e] = "failed"]
    /\ UNCHANGED <<clockVars, limitVars, executorVars>>

Clock == Tick \/ SetAhead \/ SetBack
Handler(e) == Arrive(e) \/ NoAlert(e) \/ Suppress(e) \/ Pass(e)
Executor == OtherWork \/ TakeJob \/ TakeMail \/ WorkEnds
Thread(e) == Sent(e) \/ SendFails(e)

Next == Clock \/ Executor \/ \E e \in Events : Handler(e) \/ Thread(e)

Spec == Init /\ [][Next]_vars

\* A broadcast ends (WsHub's BroadcastEnds), a free thread takes what waits, and
\* what a thread does ends: smtplib and paramiko are given timeouts.
Fairness ==
    /\ \A e \in Events : /\ WF_vars(NoAlert(e) \/ Suppress(e) \/ Pass(e))
                         /\ WF_vars(Thread(e))
    /\ WF_vars(TakeJob) /\ WF_vars(TakeMail) /\ WF_vars(WorkEnds)

FairSpec == Spec /\ Fairness

----------------------------------------------------------------------------
(* Properties.                                                              *)

Stages == {"due", "broadcasting", "queued", "sending",
           "no alert", "suppressed", "sent", "failed"}
Settled == {"no alert", "suppressed", "sent", "failed"}

\* Every variable holds a value of its type.
TypeOK ==
    /\ time \in Nat /\ ahead \in Nat /\ back \in Nat
    /\ lastSent \in Int
    /\ handler \in [Events -> Stages]
    /\ queue \in Seq(Events \cup {Job}) /\ jobs \in Nat /\ busy \in Nat
    /\ slots \in Nat /\ slotAt \in [time : Nat, ahead : Nat, back : Nat]

\* No burst of events, at no moment of their broadcasts, and no clock that is
\* set back, makes more mails than one for each Rate ticks that have passed or
\* that the clock was set ahead, and one more (lines 40-46).
NoFlood == slots > 0 => (slots - 1) * Rate <= time + ahead

\* An alert is suppressed only on account of a mail: one has passed the limit
\* less than Rate ago, or as much longer as the clock was set back since.
\* A run of suppressed alerts, or of mails that fail, silences nothing for
\* longer (lines 43-46).
SilencedByMailOnly ==
    [][\A e \in Events :
          handler[e] # "suppressed" /\ handler'[e] = "suppressed" =>
              /\ slots > 0
              /\ time + ahead - back
                   < slotAt.time + slotAt.ahead - slotAt.back + Rate]_vars

\* The handler of every event ends, whatever the mail server does and whatever
\* else the executor is given (lines 127-144).
HandlersSettle == \A e \in Events : handler[e] = "broadcasting" ~> handler[e] \in Settled
=============================================================================
