---------------------------- MODULE OrderedFeed ----------------------------
(***************************************************************************)
(* What app/services/cdc_engine.py promises to those it feeds, with nothing *)
(* of how: in one life of the process a feed takes up one event after the   *)
(* other, without a gap, hands over the rows of each in order up to one that *)
(* raises, and shows them in the order in which they were handed over.      *)
(* Threads, coordinates, re-attaches, outages and saves do not occur here:   *)
(* CdcEngine, which has them all, is shown to implement this.               *)
(***************************************************************************)
EXTENDS Integers, Sequences

CONSTANTS
    RowsOf,     \* RowsOf[e]: the number of rows of event e
    BadRows,    \* rows that raise
    Rewinds     \* whether a feed may go back to events it has had

VARIABLES
    life,       \* "none", "open", or "closed" when nothing is shown any more
    first,      \* the event the feed began with, 0 before it did
    event,      \* the event it is at or has had last
    next,       \* the row of it to hand over next, 0 when it is done with it
    waiting,    \* rows handed over and not shown yet
    shown       \* rows shown

vars == <<life, first, event, next, waiting, shown>>

Empty == first = 0 /\ event = 0 /\ next = 0 /\ waiting = <<>> /\ shown = {}

Init == life = "none" /\ Empty

Open ==
    /\ life = "none"
    /\ life' = "open"
    /\ UNCHANGED <<first, event, next, waiting, shown>>

\* A feed begins anywhere and then skips nothing.
Follows(e) == event = 0 \/ e = event + 1 \/ (Rewinds /\ e <= event)

BeginEvent ==
    /\ life = "open" /\ next = 0
    /\ \E e \in DOMAIN RowsOf :
         /\ Follows(e)
         /\ event' = e /\ next' = 1
         /\ first' = IF first = 0 THEN e ELSE first
    /\ UNCHANGED <<life, waiting, shown>>

HandOver ==
    /\ life = "open" /\ next > 0
    /\ next <= RowsOf[event] /\ <<event, next>> \notin BadRows
    /\ waiting' = Append(waiting, <<event, next>>) /\ next' = next + 1
    /\ UNCHANGED <<life, first, event, shown>>

\* An event is over when all its rows are handed over, one of them raises, or
\* nobody is there to hand them to.
EndEvent ==
    /\ next > 0
    /\ next > RowsOf[event] \/ <<event, next>> \in BadRows \/ life = "closed"
    /\ next' = 0
    /\ UNCHANGED <<life, first, event, waiting, shown>>

Show ==
    /\ life = "open" /\ waiting # <<>>
    /\ shown' = shown \cup {Head(waiting)} /\ waiting' = Tail(waiting)
    /\ UNCHANGED <<life, first, event, next>>

Close ==
    /\ life = "open"
    /\ life' = "closed" /\ waiting' = <<>>
    /\ UNCHANGED <<first, event, next, shown>>

\* The process is gone; the next one begins anew.
End == life # "none" /\ life' = "none" /\ Empty'

Next == Open \/ BeginEvent \/ HandOver \/ EndEvent \/ Show \/ Close \/ End

Spec == Init /\ [][Next]_vars

----------------------------------------------------------------------------
(* What follows from it; CdcEngine states the same of its own state.        *)

Queued == {waiting[k] : k \in DOMAIN waiting}

Before(r, s) == r[1] < s[1] \/ (r[1] = s[1] /\ r[2] < s[2])

\* A feed that does not go back shows every row once and in order: what waits is
\* sorted and follows all that was shown.
InOrder ==
    ~Rewinds =>
        /\ \A j, k \in DOMAIN waiting : j < k => Before(waiting[j], waiting[k])
        /\ waiting # <<>> => \A r \in shown : Before(r, Head(waiting))

\* No row of an event that was begun is lost, but those that follow one that
\* raises.
NothingLost ==
    life = "open" /\ event # 0 =>
        \A e \in first .. event : \A i \in 1 .. RowsOf[e] :
            IF \E j \in 1 .. i : <<e, j>> \in BadRows
            THEN <<e, i>> \notin shown \cup Queued
            ELSE \/ <<e, i>> \in shown \cup Queued
                 \/ next > 0 /\ e = event /\ i >= next
=============================================================================
