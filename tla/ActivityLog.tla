---------------------------- MODULE ActivityLog ----------------------------
(***************************************************************************)
(* The activity log of app/services/activity_service.py.  Each server       *)
(* process reads the log's file once, when it starts, keeps the newest      *)
(* entries in memory, newest first, and writes the whole file after each    *)
(* entry.  A client reads the log page by page, each page by its offset,    *)
(* while entries are added; whichever process accepts the request answers   *)
(* it from its own log.                                                     *)
(*                                                                         *)
(* Nothing is awaited between a change and its save: a change is one step   *)
(* up to the opening of the file, which truncates it, and the process does  *)
(* nothing else until it has written and closed it.  Processes interleave.  *)
(*                                                                         *)
(* An entry is its number in the order in which entries are made and what   *)
(* it is about; names, times and addresses are left out, and so are the     *)
(* filters of a query, which keep the order of what they pass.              *)
(***************************************************************************)
EXTENDS Integers, Sequences

CONSTANTS
    Workers,        \* server processes
    Subjects,       \* what entries are about
    System,         \* ... the first entry and that of a cleared log
    MaxLog,         \* MAX_LOG_ENTRIES
    PageSize,       \* limit of a query
    DiskMayFail,    \* whether opening or writing the file may raise
    MaxEntries      \* bound: entries made

LogAssumption ==
    /\ System \in Subjects
    /\ MaxLog \in Nat \ {0} /\ PageSize \in Nat \ {0}
    /\ DiskMayFail \in BOOLEAN
    /\ MaxEntries \in Nat

VARIABLES
    up,         \* the processes that run
    log,        \* self.activities of each of them
    logFile,    \* what ACTIVITY_FILE holds
    logWriting, \* processes that have opened the file and not closed it
    logCrossed, \* those of them that had it open while another one had
    made,       \* entries made so far
    reader,     \* a client's query: process, offset of the next page, entries
                \* it set out to read, entries it was shown
    held        \* history: entries each process has loaded or made since it
                \* started or was cleared

logSaving == <<logWriting, logCrossed>>
logVars == <<log, logFile, logSaving, made, reader, held>>
vars == <<up, logVars>>

Entries == [number : Nat, about : Subjects]
Members(list) == {list[i] : i \in DOMAIN list}

Contents(list) == [kind |-> "saved", list |-> list]
NoFile     == [kind |-> "none", list |-> <<>>]
Unreadable == [kind |-> "unreadable", list |-> <<>>]

Nobody == "nobody"
NoQuery == [from |-> Nobody, offset |-> 0, wanted |-> {}, shown |-> {}]

Init ==
    /\ up = {}
    /\ log = [w \in Workers |-> <<>>]
    /\ logFile = NoFile /\ logWriting = {} /\ logCrossed = {}
    /\ made = 0
    /\ reader = NoQuery
    /\ held = [w \in Workers |-> {}]

----------------------------------------------------------------------------
(* Entries and the file.                                                    *)

New(subject) == [number |-> made + 1, about |-> subject]
Made == made < MaxEntries /\ made' = made + 1

\* insert(0, entry), then the cap.
Added_AtTheEnd(entry, list) == Append(list, entry) \* mutant: append, no insert(0)
Added_OldestKept(entry, list) == \* mutant: the cap drops what insert(0) added
    IF Len(list) = MaxLog THEN list ELSE <<entry>> \o list
Added(entry, list) ==
    LET all == <<entry>> \o list
    IN  IF Len(all) > MaxLog THEN SubSeq(all, 1, MaxLog) ELSE all

\* The log of w becomes `list', and _save_activities opens the file or fails to.
Changed(w, list) ==
    /\ log' = [log EXCEPT ![w] = list]
    /\ \/ /\ logFile' = Unreadable /\ logWriting' = logWriting \cup {w}
          /\ logCrossed' = IF logWriting = {} THEN {} ELSE logWriting'
       \/ DiskMayFail /\ UNCHANGED <<logFile, logSaving>>

\* json.dump writes the text piece by piece.  A piece makes what another process
\* has written in the meantime unreadable; on a file that is unreadable already
\* it shows only in the end.
WritePart(w) ==
    /\ w \in logWriting /\ logFile.kind = "saved"
    /\ logFile' = Unreadable
    /\ UNCHANGED <<up, log, logSaving, made, reader, held>>

\* The file is closed and holds the text, but for a save that another one has
\* crossed, whose pieces may be mixed, and one that fails.
Flush(w) ==
    /\ w \in logWriting
    /\ logWriting' = logWriting \ {w} /\ logCrossed' = logCrossed \ {w}
    /\ \/ logFile' = Contents(log[w])
       \/ (w \in logCrossed \/ DiskMayFail) /\ logFile' = Unreadable
    /\ UNCHANGED <<up, log, made, reader, held>>

----------------------------------------------------------------------------
(* A process starts and ends.                                               *)

\* __init__: where there is no file _ensure_storage writes one with a first
\* entry or fails to; load_activities reads it, an unreadable one as no log.
Start(w) ==
    /\ w \notin up
    /\ up' = up \cup {w}
    /\ \/ logFile.kind # "none" /\ UNCHANGED <<logFile, made>>
       \/ /\ logFile.kind = "none" /\ Made
          /\ \/ logFile' = Contents(<<New(System)>>)
             \/ DiskMayFail /\ logFile' \in {NoFile, Unreadable}
    /\ log' = [log EXCEPT ![w] = logFile'.list]
    /\ held' = [held EXCEPT ![w] = Members(logFile'.list)]
    /\ UNCHANGED <<logSaving, reader>>

\* A process is recycled or killed, in the middle of a save or a query too.
End(w) ==
    /\ w \in up
    /\ up' = up \ {w}
    /\ logWriting' = logWriting \ {w} /\ logCrossed' = logCrossed \ {w}
    /\ log' = [log EXCEPT ![w] = <<>>] /\ held' = [held EXCEPT ![w] = {}]
    /\ reader' = IF reader.from = w THEN NoQuery ELSE reader
    /\ UNCHANGED <<logFile, made>>

----------------------------------------------------------------------------
(* The operations.                                                          *)

Serves(w) == w \in up \ logWriting

\* log_activity.
Record(w, subject) ==
    /\ Serves(w) /\ Made
    /\ Changed(w, Added(New(subject), log[w]))
    /\ held' = [held EXCEPT ![w] = @ \cup {New(subject)}]
    /\ UNCHANGED <<up, reader>>

\* clear_activities keeps an entry of its own.
Clear(w) ==
    /\ Serves(w) /\ Made
    /\ Changed(w, <<New(System)>>)
    /\ held' = [held EXCEPT ![w] = {New(System)}]
    /\ UNCHANGED <<up, reader>>

\* get_activities: filtered[offset:offset + limit].
Page_FromOne(list, offset) == \* mutant: offsets are taken to start at 1
    {list[i] : i \in {j \in DOMAIN list : offset <= j /\ j < offset + PageSize}}
Page(list, offset) ==
    {list[i] : i \in {j \in DOMAIN list : offset < j /\ j <= offset + PageSize}}

FirstPage(w) ==
    /\ Serves(w) /\ reader = NoQuery
    /\ reader' = [from |-> w, offset |-> PageSize, wanted |-> Members(log[w]),
                  shown |-> Page(log[w], 0)]
    /\ UNCHANGED <<up, log, logFile, logSaving, made, held>>

AtEnd == reader.from # Nobody /\ reader.offset >= Len(log[reader.from])

\* The next page may come from another process.  It is then a page of another
\* list, and what the client puts together is followed no further.
NextPage(w) ==
    /\ Serves(w) /\ reader.from # Nobody /\ ~AtEnd
    /\ reader' = IF w # reader.from THEN NoQuery
                 ELSE [reader EXCEPT !.offset = @ + PageSize,
                                     !.shown = @ \cup Page(log[w], reader.offset)]
    /\ UNCHANGED <<up, log, logFile, logSaving, made, held>>

Leave(w) ==
    /\ reader.from = w
    /\ reader' = NoQuery
    /\ UNCHANGED <<up, log, logFile, logSaving, made, held>>

Process(w) == Start(w) \/ End(w) \/ WritePart(w) \/ Flush(w)
Change(w) == Clear(w) \/ \E s \in Subjects : Record(w, s)
Query(w) == FirstPage(w) \/ NextPage(w) \/ Leave(w)

Next == \E w \in Workers : Process(w) \/ Change(w) \/ Query(w)

Spec == Init /\ [][Next]_vars

----------------------------------------------------------------------------
(* Properties.                                                              *)

IsLog(list) == list \in Seq(Entries) /\ Len(list) <= MaxLog

\* Every variable holds a value of its type.
TypeOK ==
    /\ up \subseteq Workers /\ logCrossed \subseteq logWriting /\ logWriting \subseteq up
    /\ DOMAIN log = Workers /\ \A w \in Workers : IsLog(log[w])
    /\ logFile.kind \in {"none", "saved", "unreadable"} /\ IsLog(logFile.list)
    /\ made \in Nat
    /\ reader \in [from : up \cup {Nobody}, offset : Nat,
                   wanted : SUBSET Entries, shown : SUBSET Entries]
    /\ held \in [Workers -> SUBSET Entries]

\* Each entry is newer than all behind it, in every process and in the file,
\* whichever process has written it over which, and no entry is there twice
\* (lines 94-101).
NewestFirst ==
    \A list \in {log[w] : w \in Workers} \cup {logFile.list} :
        \A i, j \in DOMAIN list : i < j => list[i].number > list[j].number

\* At the cap it is the oldest entries that go: what a process has loaded or
\* made since it was cleared is in its log, or the log is full of newer entries
\* (lines 95-99).
KeepsNewest ==
    \A w \in up :
        /\ Members(log[w]) \subseteq held[w]
        /\ \A e \in held[w] \ Members(log[w]) :
              /\ Len(log[w]) = MaxLog
              /\ \A i \in DOMAIN log[w] : log[w][i].number > e.number

\* A client that has read to the end, page by page and all from one process, was
\* shown every entry that was there when it began and still is, however many were
\* added, dropped or cleared in between (lines 105-142).  It does not hold of
\* pages that come from two processes, whose logs differ.
PagingMissesNothing ==
    AtEnd => reader.wanted \cap Members(log[reader.from]) \subseteq reader.shown
=============================================================================
