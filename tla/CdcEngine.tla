----------------------------- MODULE CdcEngine -----------------------------
(***************************************************************************)
(* The change data capture engine of app/services/cdc_engine.py: the       *)
(* worker thread that reads the replica's row events, the event loop       *)
(* thread that starts it, stops it and broadcasts what it hands over, and   *)
(* the state file that carries the binlog coordinate over a restart.        *)
(*                                                                         *)
(* The two threads share last_log_file, last_log_pos, stream, status and    *)
(* the stop event without a lock, so a step of the model is what one of     *)
(* them does between two accesses the other can see.  `wpc' is the worker   *)
(* thread's place in _run_cdc_worker, `main' the event loop thread's place  *)
(* in the life of the process (main.py, lifespan).                         *)
(*                                                                         *)
(* Row events are numbered 1..MaxEvents in commit order.  A position is the *)
(* number of the last event before it, so the coordinate the code stores    *)
(* after event e is (FileOf[e], e); 0 stands for None.                      *)
(***************************************************************************)
EXTENDS Integers, Sequences, FiniteSets

CONSTANTS
    MaxEvents,      \* bound: row events the replica ever commits
    RowsOf,         \* RowsOf[e]: the number of rows of event e
    FileOf,         \* FileOf[e]: the binlog file that holds event e
    FileStart,      \* FileStart[f]: the position before file f's first event
    BadRows,        \* rows whose serialisation or alert raises
    SaveEvery,      \* rows between two periodic saves (50 in the code)
    ResumeStream,   \* CDC_RESUME_STREAM
    Enabled,        \* the values CDC_ENABLED (and the library) may have at a boot
    DiskMayFail,    \* whether opening or writing the state file may raise
    MaxFaults,      \* bound: crashes, replica outages and stream errors
    MaxBoots        \* bound: times the process is started

Events == 1 .. MaxEvents
Positions == 0 .. MaxEvents
Rows == UNION {{<<e, i>> : i \in 1 .. RowsOf[e]} : e \in Events}

ASSUME BoundsAssumption ==
    /\ MaxEvents \in Nat
    /\ MaxFaults \in Nat
    /\ MaxBoots \in Nat
    /\ SaveEvery \in Nat \ {0}
    /\ ResumeStream \in BOOLEAN
    /\ Enabled \subseteq BOOLEAN
    /\ DiskMayFail \in BOOLEAN

\* Files are numbered from 1; a file starts before each of its own events.
ASSUME BinlogAssumption ==
    /\ RowsOf \in [Events -> Nat \ {0}]
    /\ FileOf \in [Events -> Nat \ {0}]
    /\ FileStart \in [{1} \cup {FileOf[e] : e \in Events} -> Positions]
    /\ FileStart[1] = 0
    /\ \A e \in Events : FileStart[FileOf[e]] < e

Files == DOMAIN FileStart

VARIABLES
    \* the replica
    binlog,          \* the number of events committed so far
    dbUp,            \* what db.is_healthy() answers
    faults,          \* faults that may still happen
    boots,           \* starts of the process that may still happen
    \* the disk
    stateFile,       \* what CDC_STATE_FILE holds
    \* the engine object, shared by the two threads
    stopEvent,       \* _stop_event
    status,          \* status
    stream,          \* self.stream is not None
    lastFile,        \* last_log_file
    lastPos,         \* last_log_pos
    eventsProcessed, \* events_processed, modulo SaveEvery
    queue,           \* coroutines scheduled on the loop, not yet run
    \* the event loop thread
    main,            \* where it is
    mainFile,        \* log_file as read by the save it is executing
    \* the worker thread
    wpc,             \* where it is
    readerOpen,      \* its BinLogStreamReader is connected
    readPos,         \* the position of that reader
    row,             \* the row of the current event it works on
    \* history, read by no action
    firstFed,        \* the first event processed since the process started
    fed,             \* the last one
    seen,            \* rows broadcast since the process started
    delivered        \* how often a row was ever broadcast (2 for more)

replicaVars == <<binlog, dbUp, faults, boots>>
coordVars   == <<lastFile, lastPos>>
readerVars  == <<readerOpen, readPos>>
rowVars     == <<row, eventsProcessed>>
history     == <<firstFed, fed>>
shown       == <<seen, delivered>>
loopVars    == <<main, mainFile, stopEvent>>
workVars    == <<wpc, readerVars, rowVars, history, coordVars>>
vars == <<replicaVars, stateFile, status, stream, queue, loopVars, workVars, shown>>

\* What the worker's steps leave alone, and those of them that move no row.
NotWorker == <<replicaVars, loopVars, shown>>
NoRow     == <<rowVars, history, queue>>

----------------------------------------------------------------------------
(* The state file.  It is opened with mode "w", which truncates it, and     *)
(* gets its content when it is closed.                                      *)

Saved(f, p)   == [kind |-> "saved", file |-> f, pos |-> p]
Unreadable(k) == [kind |-> k, file |-> 0, pos |-> 0]

\* What is on disk once a writer that found `disk' has flushed (f, p): after
\* its own truncation just that, but if another writer has flushed in between
\* possibly the tail of the longer text behind the shorter one.  A write that
\* raises leaves what it found or a part of its text; the handler at line 68
\* goes on as if it had succeeded.
Flushed(disk, f, p) ==
    {Saved(f, p)}
      \cup (IF disk.kind = "empty" THEN {} ELSE {Unreadable("torn")})
      \cup (IF DiskMayFail THEN {disk, Unreadable("torn")} ELSE {})

HasCoordinate == lastFile # 0 /\ lastPos # 0

\* The coordinate the code would store after some event.
IsReal(f, p) == p \in Events /\ FileOf[p] = f

CurrentFile == IF binlog = 0 THEN 1 ELSE FileOf[binlog]

\* Mutants: the coordinate is not passed on, or CDC_RESUME_STREAM is not.
StartPositions_NoCoordinate(f, p) ==
    IF ResumeStream THEN {binlog} ELSE {FileStart[CurrentFile]}
StartPositions_FileStart(f, p) ==
    {FileStart[IF f # 0 /\ p # 0 THEN f ELSE CurrentFile]}

\* Where the server starts to send: with CDC_RESUME_STREAM at the position
\* asked for, without it at the start of the file; without a coordinate the
\* file and position are the server's current ones.  A position taken from
\* another file may be any place of the named one.
StartPositions(f, p) ==
    LET hasCoord == f # 0 /\ p # 0
    IN  CASE ~ResumeStream -> {FileStart[IF hasCoord THEN f ELSE CurrentFile]}
          [] ResumeStream /\ ~hasCoord -> {binlog}
          [] ResumeStream /\ hasCoord /\ IsReal(f, p) -> {p}
          [] OTHER -> {q \in FileStart[f] .. binlog :
                         \A e \in FileStart[f] + 1 .. q : FileOf[e] = f}

Init ==
    /\ binlog = 0 /\ dbUp = TRUE /\ faults = MaxFaults /\ boots = MaxBoots
    /\ stateFile = Unreadable("none")
    /\ stopEvent = FALSE /\ status = "STOPPED" /\ stream = FALSE
    /\ lastFile = 0 /\ lastPos = 0 /\ eventsProcessed = 0 /\ queue = <<>>
    /\ main = "down" /\ mainFile = 0
    /\ wpc = "none" /\ readerOpen = FALSE /\ readPos = 0 /\ row = 0
    /\ firstFed = 0 /\ fed = 0
    /\ seen = {} /\ delivered = [r \in Rows |-> 0]

----------------------------------------------------------------------------
(* The replica and the network.                                             *)

Commit ==
    /\ binlog < MaxEvents
    /\ binlog' = binlog + 1
    /\ UNCHANGED <<workVars, loopVars, shown, dbUp, faults, boots, stateFile,
                   status, stream, queue>>

DbDown ==
    /\ dbUp /\ faults > 0
    /\ dbUp' = FALSE /\ faults' = faults - 1
    /\ UNCHANGED <<workVars, loopVars, shown, binlog, boots, stateFile, status,
                   stream, queue>>

\* Nothing makes this step happen: over an SSH tunnel DbSession's supervisor may
\* fail to bring the database back for good.
DbRecover ==
    /\ ~dbUp
    /\ dbUp' = TRUE
    /\ UNCHANGED <<workVars, loopVars, shown, binlog, faults, boots, stateFile,
                   status, stream, queue>>

----------------------------------------------------------------------------
(* The event loop thread: the life of the process.                          *)

\* The loop exists: run_coroutine_threadsafe accepts a coroutine.
LoopOpen == main \notin {"down", "booted", "closed"}

\* stop() is not a coroutine: while it runs the loop executes nothing else.
LoopIdle == main \in {"serving", "stopped"}

\* CDCEngine.__init__ with _load_state: an unreadable file leaves the defaults,
\* which are None.
Boot ==
    /\ main = "down" /\ boots > 0
    /\ main' = "booted" /\ boots' = boots - 1
    /\ lastFile' = stateFile.file /\ lastPos' = stateFile.pos
    /\ UNCHANGED <<readerVars, rowVars, history, shown, binlog, dbUp, faults,
                   stateFile, stopEvent, status, stream, queue, mainFile, wpc>>

Start ==
    /\ main = "booted"
    /\ main' = "serving" /\ stopEvent' = FALSE
    /\ \E on \in Enabled :
         IF on THEN wpc' = "loop" /\ UNCHANGED status
               ELSE wpc' = "none" /\ status' = "DISABLED"
    /\ UNCHANGED <<replicaVars, coordVars, readerVars, rowVars, history, shown,
                   stateFile, stream, queue, mainFile>>

\* One scheduled _handle_event_async reaches its broadcast.
Deliver ==
    /\ LoopIdle /\ queue # <<>>
    /\ queue' = Tail(queue)
    /\ seen' = seen \cup {Head(queue)}
    /\ delivered' = [delivered EXCEPT ![Head(queue)] = IF @ = 0 THEN 1 ELSE 2]
    /\ UNCHANGED <<workVars, replicaVars, loopVars, stateFile, status, stream>>

\* The frame of the steps of stop().
StopFrame == UNCHANGED <<replicaVars, coordVars, rowVars, history, shown, queue,
                         wpc, readPos>>

Stop ==
    /\ main = "serving"
    /\ main' = "stopClose" /\ stopEvent' = TRUE
    /\ UNCHANGED <<stateFile, status, stream, mainFile, readerOpen>> /\ StopFrame

StopClose ==
    /\ main = "stopClose"
    /\ IF stream THEN readerOpen' = FALSE /\ main' = "stopNull"
                 ELSE main' = "stopSave" /\ UNCHANGED readerOpen
    /\ UNCHANGED <<stopEvent, stateFile, status, stream, mainFile>> /\ StopFrame

StopNull ==
    /\ main = "stopNull"
    /\ main' = "stopSave" /\ stream' = FALSE
    /\ UNCHANGED <<stopEvent, stateFile, status, mainFile, readerOpen>> /\ StopFrame

\* _save_state returns early without a coordinate, else truncates the file.
StopSave ==
    /\ main = "stopSave"
    /\ \/ /\ HasCoordinate
          /\ main' = "stopRead" /\ stateFile' = Unreadable("empty")
       \/ /\ ~HasCoordinate \/ DiskMayFail
          /\ main' = "stopStatus" /\ UNCHANGED stateFile
    /\ UNCHANGED <<stopEvent, status, stream, mainFile, readerOpen>> /\ StopFrame

StopRead ==
    /\ main = "stopRead"
    /\ main' = "stopFlush" /\ mainFile' = lastFile
    /\ UNCHANGED <<stopEvent, stateFile, status, stream, readerOpen>> /\ StopFrame

\* log_pos is read after log_file, then the file is written and closed.
StopFlush ==
    /\ main = "stopFlush"
    /\ main' = "stopStatus"
    /\ stateFile' \in Flushed(stateFile, mainFile, lastPos)
    /\ UNCHANGED <<stopEvent, status, stream, mainFile, readerOpen>> /\ StopFrame

StopStatus ==
    /\ main = "stopStatus"
    /\ main' = "stopped" /\ status' = "STOPPED"
    /\ UNCHANGED <<stopEvent, stateFile, stream, mainFile, readerOpen>> /\ StopFrame

\* The rest of lifespan is over and the server closes the loop: coroutines
\* that have not run are dropped.
CloseLoop ==
    /\ main = "stopped"
    /\ main' = "closed" /\ queue' = <<>>
    /\ UNCHANGED <<workVars, replicaVars, shown, stateFile, stopEvent, status,
                   stream, mainFile>>

\* The memory of the process is gone, with the daemon thread.
ProcessGone ==
    /\ main' = "down" /\ mainFile' = 0
    /\ stopEvent' = FALSE /\ status' = "STOPPED" /\ stream' = FALSE
    /\ lastFile' = 0 /\ lastPos' = 0 /\ eventsProcessed' = 0 /\ queue' = <<>>
    /\ wpc' = "none" /\ readerOpen' = FALSE /\ readPos' = 0 /\ row' = 0
    /\ firstFed' = 0 /\ fed' = 0 /\ seen' = {}
    /\ UNCHANGED <<binlog, dbUp, boots, stateFile, delivered>>

Exit == main = "closed" /\ ProcessGone /\ UNCHANGED faults

Crash ==
    /\ main # "down" /\ faults > 0
    /\ faults' = faults - 1
    /\ ProcessGone

MainNext == \/ Boot \/ Start \/ Stop \/ StopClose \/ StopNull \/ StopSave
            \/ StopRead \/ StopFlush \/ StopStatus \/ CloseLoop \/ Exit

----------------------------------------------------------------------------
(* The worker thread: _run_cdc_worker.                                      *)

WCheck ==
    /\ wpc = "loop"
    /\ wpc' = IF stopEvent THEN "exit" ELSE "health"
    /\ UNCHANGED <<NotWorker, NoRow, coordVars, readerVars, stateFile, status,
                   stream>>

\* is_running is the negation of the stop event in a started engine.
WHealth ==
    /\ wpc = "health"
    /\ IF dbUp
       THEN wpc' = "attach" /\ status' = "RUNNING"
       ELSE wpc' = "loop" /\ status' = IF stopEvent THEN "STOPPED" ELSE "RECONNECTING"
    /\ UNCHANGED <<NotWorker, NoRow, coordVars, readerVars, stateFile, stream>>

WAttach ==
    /\ wpc = "attach"
    /\ readPos' \in StartPositions(lastFile, lastPos)
    /\ wpc' = "fetch" /\ readerOpen' = TRUE /\ stream' = TRUE
    /\ UNCHANGED <<NotWorker, NoRow, coordVars, stateFile, status>>

\* The server cannot be reached, or refuses a position that is not one of the
\* file's.
WAttachFails ==
    /\ wpc = "attach"
    /\ \/ faults > 0 /\ faults' = faults - 1
       \/ HasCoordinate /\ ~IsReal(lastFile, lastPos) /\ UNCHANGED faults
    /\ wpc' = "error"
    /\ UNCHANGED <<NoRow, loopVars, coordVars, readerVars, shown, binlog, dbUp,
                   boots, stateFile, status, stream>>

\* The blocking iterator returns the next row event.
WFetch ==
    /\ wpc = "fetch" /\ readerOpen /\ readPos < binlog
    /\ readPos' = readPos + 1
    /\ wpc' = "got"
    /\ UNCHANGED <<NotWorker, NoRow, coordVars, stateFile, status, stream,
                   readerOpen>>

\* The connection is lost, or stop() has closed the reader: the iterator
\* raises, or in the latter case ends.
WFetchFails ==
    /\ wpc = "fetch"
    /\ \/ readerOpen /\ faults > 0 /\ faults' = faults - 1 /\ wpc' = "error"
       \/ ~readerOpen /\ UNCHANGED faults /\ wpc' \in {"error", "loop"}
    /\ UNCHANGED <<NoRow, loopVars, coordVars, readerVars, shown, binlog, dbUp,
                   boots, stateFile, status, stream>>

WStopCheck ==
    /\ wpc = "got"
    /\ wpc' = IF stopEvent THEN "loop" ELSE "trackFile"
    /\ UNCHANGED <<NotWorker, NoRow, coordVars, readerVars, stateFile, status,
                   stream>>

\* getattr(self.stream, 'log_file', old): the old value once stop() has set
\* stream to None.  The reader's position is the end of the current event.
WTrackFile ==
    /\ wpc = "trackFile"
    /\ wpc' = "trackPos"
    /\ lastFile' = IF stream THEN FileOf[readPos] ELSE lastFile
    /\ UNCHANGED <<NotWorker, NoRow, readerVars, stateFile, status, stream,
                   lastPos>>

WTrackPos ==
    /\ wpc = "trackPos"
    /\ wpc' = "process"
    /\ lastPos' = IF stream THEN readPos ELSE lastPos
    /\ UNCHANGED <<NotWorker, NoRow, readerVars, stateFile, status, stream,
                   lastFile>>

\* _process_event_sync: nothing without a loop, else the rows in order.
WProcess ==
    /\ wpc = "process"
    /\ IF LoopOpen
       THEN /\ wpc' = "row" /\ row' = 1 /\ fed' = readPos
            /\ firstFed' = IF firstFed = 0 THEN readPos ELSE firstFed
       ELSE wpc' = "fetch" /\ UNCHANGED <<row, history>>
    /\ UNCHANGED <<NotWorker, coordVars, readerVars, stateFile, status, stream,
                   eventsProcessed, queue>>

\* The loop over event.rows is at its end, or the row raises.
EventOver_OffByOne == row >= RowsOf[readPos] \* mutant
EventOver == row > RowsOf[readPos] \/ <<readPos, row>> \in BadRows

\* The periodic save, after n more rows than a multiple of SaveEvery.
SaveDue_Once(n) == n = 0 /\ HasCoordinate /\ stateFile.kind = "none" \* mutant
SaveDue(n) == n = 0 /\ HasCoordinate

\* A row is built and counted, and the periodic save comes before the row is
\* scheduled; a row that raises ends its event.
WRow ==
    /\ wpc = "row"
    /\ IF EventOver
       THEN wpc' = "fetch" /\ row' = 0 /\ UNCHANGED eventsProcessed
       ELSE /\ eventsProcessed' = (eventsProcessed + 1) % SaveEvery
            /\ wpc' = IF SaveDue(eventsProcessed') THEN "saveOpen" ELSE "schedule"
            /\ UNCHANGED row
    /\ UNCHANGED <<NotWorker, coordVars, readerVars, history, stateFile, status,
                   stream, queue>>

WSaveOpen ==
    /\ wpc = "saveOpen"
    /\ \/ wpc' = "saveFlush" /\ stateFile' = Unreadable("empty")
       \/ DiskMayFail /\ wpc' = "schedule" /\ UNCHANGED stateFile
    /\ UNCHANGED <<NotWorker, NoRow, coordVars, readerVars, status, stream>>

WSaveFlush_NotClosed == \* mutant
    /\ wpc = "saveFlush"
    /\ wpc' = "schedule"
    /\ UNCHANGED <<NotWorker, NoRow, coordVars, readerVars, stateFile, status,
                   stream>>

WSaveFlush ==
    /\ wpc = "saveFlush"
    /\ wpc' = "schedule"
    /\ stateFile' \in Flushed(stateFile, lastFile, lastPos)
    /\ UNCHANGED <<NotWorker, NoRow, coordVars, readerVars, status, stream>>

\* run_coroutine_threadsafe; on a closed loop it raises, which ends the event.
WSchedule ==
    /\ wpc = "schedule"
    /\ IF LoopOpen
       THEN wpc' = "row" /\ row' = row + 1 /\ queue' = Append(queue, <<readPos, row>>)
       ELSE wpc' = "fetch" /\ row' = 0 /\ UNCHANGED queue
    /\ UNCHANGED <<NotWorker, coordVars, readerVars, history, stateFile, status,
                   stream, eventsProcessed>>

\* The handler of stream errors; the sleep that follows takes no state.
WError ==
    /\ wpc = "error"
    /\ wpc' = "loop" /\ status' = "RECONNECTING"
    /\ IF stream THEN stream' = FALSE /\ readerOpen' = FALSE
                 ELSE UNCHANGED <<stream, readerOpen>>
    /\ UNCHANGED <<NotWorker, NoRow, coordVars, stateFile, readPos>>

WExit_KeepsStatus == \* mutant
    /\ wpc = "exit"
    /\ wpc' = "done"
    /\ UNCHANGED <<NotWorker, NoRow, coordVars, readerVars, stateFile, status,
                   stream>>

WExit ==
    /\ wpc = "exit"
    /\ wpc' = "done" /\ status' = "STOPPED"
    /\ UNCHANGED <<NotWorker, NoRow, coordVars, readerVars, stateFile, stream>>

WorkerNext == \/ WCheck \/ WHealth \/ WAttach \/ WAttachFails \/ WFetch
              \/ WFetchFails \/ WStopCheck \/ WTrackFile \/ WTrackPos \/ WProcess
              \/ WRow \/ WSaveOpen \/ WSaveFlush \/ WSchedule \/ WError \/ WExit

Next == Commit \/ DbDown \/ DbRecover \/ MainNext \/ Crash \/ Deliver \/ WorkerNext

Spec == Init /\ [][Next]_vars

\* The operating system schedules the worker thread and the event loop runs what
\* is scheduled on it.
FairSpec == Spec /\ WF_vars(WorkerNext) /\ WF_vars(Deliver)

\* What is taken for granted of the database session, where a property says so.
DbHeals == []<>dbUp

----------------------------------------------------------------------------
(* Properties.                                                              *)

FileContents ==
    [kind : {"saved"}, file : Files, pos : Events]
      \cup {Unreadable(k) : k \in {"none", "empty", "torn"}}

MainPlaces == {"down", "booted", "serving", "stopClose", "stopNull", "stopSave",
               "stopRead", "stopFlush", "stopStatus", "stopped", "closed"}

WorkerPlaces == {"none", "loop", "health", "attach", "fetch", "got", "trackFile",
                 "trackPos", "process", "row", "saveOpen", "saveFlush",
                 "schedule", "error", "exit", "done"}

\* Every variable holds a value of its type; the position of a reader that has
\* delivered an event is the number of that event.
TypeOK ==
    /\ binlog \in Positions /\ dbUp \in BOOLEAN
    /\ faults \in 0 .. MaxFaults /\ boots \in 0 .. MaxBoots
    /\ stateFile \in FileContents
    /\ stopEvent \in BOOLEAN /\ stream \in BOOLEAN /\ readerOpen \in BOOLEAN
    /\ status \in {"STOPPED", "RUNNING", "RECONNECTING", "DISABLED"}
    /\ lastFile \in Files \cup {0} /\ lastPos \in Positions
    /\ mainFile \in Files \cup {0}
    /\ eventsProcessed \in 0 .. SaveEvery - 1
    /\ queue \in Seq(Rows)
    /\ main \in MainPlaces /\ wpc \in WorkerPlaces
    /\ readPos \in Positions /\ row \in Nat
    /\ firstFed \in Positions /\ fed \in Positions
    /\ seen \in SUBSET Rows /\ delivered \in [Rows -> 0 .. 2]

\* Inside one life of the process the engine never jumps over an event: each
\* event whose processing starts follows the last one directly, or, without
\* CDC_RESUME_STREAM, is one the server sends again after a re-attach.  This
\* holds across stream errors, replica outages and stop() (lines 106-164).
FeedContiguous ==
    [][fed' # fed /\ fed' # 0 /\ fed # 0 =>
          IF ResumeStream THEN fed' = fed + 1 ELSE fed' <= fed + 1]_vars

Queued == {queue[k] : k \in DOMAIN queue}

\* Row i of event e is still in the hands of the worker.
InHand(e, i) ==
    /\ wpc \in {"row", "saveOpen", "saveFlush", "schedule"}
    /\ e = readPos /\ i >= row

\* The handler at line 213 gives up the rows of an event from one that raises.
GivenUp(e, i) == \E j \in 1 .. i : <<e, j>> \in BadRows

\* While the loop exists no row of an event the engine has begun gets lost: it
\* is broadcast, waits in the loop, is in the worker's hands, or follows a row
\* of its event that raised, and only the latter is never broadcast
\* (lines 182-214).
RowAccounting ==
    LoopOpen /\ fed # 0 =>
        \A e \in firstFed .. fed : \A i \in 1 .. RowsOf[e] :
            IF GivenUp(e, i) THEN <<e, i>> \notin seen \cup Queued
            ELSE <<e, i>> \in seen \cup Queued \/ InHand(e, i)

Before(r, s) == r[1] < s[1] \/ (r[1] = s[1] /\ r[2] < s[2])

\* With CDC_RESUME_STREAM one life of the process hands every row over once and
\* in binlog order: what waits is sorted and follows all that was broadcast,
\* whatever re-attaches lie in between (lines 134-151, 208-211).
OnceInOrder ==
    ResumeStream =>
        /\ \A j, k \in DOMAIN queue : j < k => Before(queue[j], queue[k])
        /\ queue # <<>> => \A r \in seen : Before(r, Head(queue))

\* While serving with CDC_RESUME_STREAM, fewer than SaveEvery rows were handed
\* to the loop for events behind the coordinate on disk: what a crash at this
\* moment makes the next life repeat (lines 200-205).
ReplayBound ==
    ResumeStream /\ main = "serving" /\ stateFile.kind = "saved" /\ fed # 0 =>
        Cardinality({r \in seen \cup Queued : r[1] > stateFile.pos}) < SaveEvery

\* The coordinate on disk is that of an event.
OnDisk == IsReal(stateFile.file, stateFile.pos)

\* A process that serves with CDC_RESUME_STREAM has saved a coordinate by the
\* time it has handed SaveEvery rows to the loop, and from then on a crash makes
\* the next life read on at, or before, the event after the one in hand.  This
\* is so at every moment but one: between the truncation of the state file and
\* its flush (lines 61-69) a crash leaves no coordinate, the next life begins at
\* the server's current end, and what was committed in between is skipped.
\* Before the first save it holds of a life that has found a coordinate.
RestartSkipsNone ==
    /\ ResumeStream /\ main = "serving" /\ fed # 0 /\ wpc # "saveFlush"
    /\ OnDisk \/ Cardinality(seen \cup Queued) >= SaveEvery
    => \A q \in StartPositions(stateFile.file, stateFile.pos) : q <= fed

\* Whatever the order of their last assignments, once stop() has returned and
\* the worker is gone the status is STOPPED (lines 98, 110, 115, 155, 166).
StatusSettles ==
    main \in {"stopped", "closed"} /\ wpc \in {"none", "done"} => status = "STOPPED"

\* If the session finds the database healthy again and again, then as long as
\* the process serves, an engine that has processed some event goes on to
\* broadcast the first row of every later one, across replica outages and stream
\* errors.  The worker asks db.is_healthy() before it attaches (line 108), so
\* without the premise it may wait for ever.
KeepsUp ==
    DbHeals =>
        \A e \in Events : <<e, 1>> \notin BadRows =>
            (main = "serving" /\ fed # 0 /\ fed < e /\ e <= binlog)
                ~> (<<e, 1>> \in seen \/ main # "serving")

\* No row is broadcast twice, over all lives of the process.
NoDuplicates == \A r \in Rows : delivered[r] < 2

\* Every row that follows one that was broadcast and belongs to an event before
\* the current one is handed over.
NoMissedEvents ==
    main = "serving" =>
        \A r, s \in Rows :
            /\ delivered[r] > 0 /\ Before(r, s) /\ s[1] < fed
            => delivered[s] > 0 \/ s \in Queued

\* README.md line 74: the coordinates on disk resume the feed "seamlessly after
\* restarts without duplicate or missed events".
ResumesSeamlessly == NoDuplicates /\ NoMissedEvents

\* One life of the process, whatever its threads do, is an ordered feed: events
\* without a gap, rows in order, and shown in that order.
Feed == INSTANCE OrderedFeed WITH
    Rewinds <- ~ResumeStream,
    life <- (IF main \in {"down", "booted"} THEN "none"
             ELSE IF main = "closed" THEN "closed" ELSE "open"),
    first <- firstFed, event <- fed, next <- row,
    waiting <- queue, shown <- seen

\* The engine implements OrderedFeed (lines 71-99 and 142-219).
ImplementsFeed == Feed!Spec
=============================================================================
