-------------------------- MODULE CdcEngineProofs --------------------------
(***************************************************************************)
(* Proofs about CdcEngine, for any number of events, files, rows, faults    *)
(* and starts of the process: its types (TypeCorrect); that the worker      *)
(* never jumps over an event (FeedIsContiguous); that the engine implements *)
(* OrderedFeed (EngineImplementsFeed), so that what follows from            *)
(* OrderedFeed alone holds of it: rows come once and in order               *)
(* (RowsOnceInOrder) and none is lost (RowsAccountedFor); that its status   *)
(* settles after stop() (StatusDoesSettle); and what a crash does to the    *)
(* next life when the disk takes what is written: but for the window of a   *)
(* save and the time before the first one it skips no event                 *)
(* (SavedInTime), and it repeats less than a save interval                  *)
(* (ReplayIsBounded).                                                       *)
(***************************************************************************)
EXTENDS CdcEngine, FiniteSetTheorems, TLAPS

\* The worker has an event in hand.
EventPlaces == {"got", "trackFile", "trackPos", "process", "row", "saveOpen",
                "saveFlush", "schedule"}
RowPlaces == {"saveOpen", "saveFlush", "schedule"}

\* What TypeOK needs to be inductive: a row in hand is a row, a coordinate that
\* is about to be written names a file and an event, and a process that has not
\* been started has neither a worker nor a history.
TypeInv ==
    /\ TypeOK
    /\ wpc \in EventPlaces => readPos \in Events
    /\ wpc = "row" => row # 0
    /\ wpc \in RowPlaces => row \in 1 .. RowsOf[readPos]
    /\ wpc \in {"saveOpen", "saveFlush"} => HasCoordinate
    /\ main \in {"stopRead", "stopFlush"} => HasCoordinate
    /\ main = "stopFlush" => mainFile # 0
    /\ main \in {"down", "booted"} => wpc = "none" /\ fed = 0

\* The event in hand may be processed after `fed'.
Follows == IF ResumeStream THEN readPos = fed + 1 ELSE readPos <= fed + 1

\* The coordinate is that of the last event processed.
Synced == lastPos = fed /\ lastFile = FileOf[fed]

\* The reader stands behind the last event processed, or before it when the
\* file is being read again.
ReaderBehind == IF ResumeStream THEN readPos = fed ELSE readPos <= fed

\* stop() has been called.
StopPlaces == {"stopClose", "stopNull", "stopSave", "stopRead", "stopFlush",
               "stopStatus", "stopped", "closed"}

\* The coupling of coordinate, reader and history at each place of the worker;
\* once stop() has been called it matters only for the event that is already
\* past the check at line 143.
FeedInv ==
    /\ fed \in Positions
    /\ wpc \in {"trackFile", "trackPos", "process"} /\ fed # 0 => Follows
    /\ ~stopEvent =>
        /\ wpc \in EventPlaces \cup {"fetch"} => stream
        /\ wpc = "trackPos" => lastFile = FileOf[readPos]
        /\ wpc = "process" => lastFile = FileOf[readPos] /\ lastPos = readPos
        /\ wpc \in {"row"} \cup RowPlaces => Synced /\ readPos = fed
        /\ fed # 0 =>
            /\ wpc \in {"loop", "health", "attach", "error"} => Synced
            /\ wpc = "fetch" => Synced /\ ReaderBehind
            /\ wpc = "got" => Synced /\ Follows
    /\ wpc \in {"row"} \cup RowPlaces => fed # 0
    /\ main \in StopPlaces => stopEvent

IInv == TypeInv /\ FeedInv

----------------------------------------------------------------------------
(* Lemmas about the operators.                                              *)

\* The counter of rows stays below the number of rows between two saves.
LEMMA ModRange == \A n \in Nat, k \in Nat \ {0} : n % k \in 0 .. k - 1
  OBVIOUS

\* A row of an event is a row.
LEMMA RowsMember == ASSUME NEW e \in Events, NEW i \in 1 .. RowsOf[e]
                    PROVE  <<e, i>> \in Rows
  BY DEF Rows

\* Appending an element to a sequence over its set gives one.
LEMMA AppendInSeq == ASSUME NEW S, NEW q \in Seq(S), NEW x \in S
                     PROVE  Append(q, x) \in Seq(S)
  OBVIOUS

\* The server starts to send at a position.
LEMMA StartsAtPosition ==
    ASSUME binlog \in Positions, NEW f \in Files \cup {0}, NEW p \in Positions
    PROVE  StartPositions(f, p) \subseteq Positions
  BY BinlogAssumption, BoundsAssumption
  DEF StartPositions, CurrentFile, Positions, Files, Events, IsReal

\* What a save leaves on disk is a possible content of the state file.
LEMMA FlushedContents ==
    ASSUME NEW d \in FileContents, NEW f \in Files, NEW p \in Events
    PROVE  Flushed(d, f, p) \subseteq FileContents
  BY DEF Flushed, FileContents, Saved, Unreadable

----------------------------------------------------------------------------
(* Type correctness.                                                        *)

\* The process starts with values of the right types.
LEMMA TypeInit == Init => TypeInv
<1> SUFFICES ASSUME Init PROVE TypeInv
  OBVIOUS
<1>1. 0 \in Positions /\ 0 \in 0 .. SaveEvery - 1
  BY BoundsAssumption DEF Positions
<1>2. MaxFaults \in 0 .. MaxFaults /\ MaxBoots \in 0 .. MaxBoots
  BY BoundsAssumption
<1>3. stateFile \in FileContents /\ queue \in Seq(Rows) /\ seen \in SUBSET Rows
  BY DEF Init, FileContents
<1>4. delivered \in [Rows -> 0 .. 2]
  BY DEF Init
<1> QED
  BY <1>1, <1>2, <1>3, <1>4
  DEF Init, TypeInv, TypeOK, MainPlaces, WorkerPlaces, EventPlaces, RowPlaces

\* Every step keeps them.
LEMMA TypeNext == TypeInv /\ [Next]_vars => TypeInv'
<1> SUFFICES ASSUME TypeInv, [Next]_vars PROVE TypeInv'
  OBVIOUS
<1> USE DEF TypeInv, TypeOK, HasCoordinate, replicaVars, coordVars, readerVars,
            rowVars, history, shown, loopVars, workVars, NotWorker, NoRow
<1>1. CASE Commit
  <2>1. binlog' \in Positions
    BY <1>1, BoundsAssumption DEF Commit, Positions
  <2> QED
    BY <1>1, <2>1 DEF Commit
<1>2. CASE DbDown
  <2>1. faults' \in 0 .. MaxFaults
    BY <1>2, BoundsAssumption DEF DbDown
  <2> QED
    BY <1>2, <2>1 DEF DbDown
<1>3. CASE DbRecover
  BY <1>3 DEF DbRecover
<1>4. CASE Boot
  <2>1. boots' \in 0 .. MaxBoots
    BY <1>4, BoundsAssumption DEF Boot
  <2>2. lastFile' \in Files \cup {0} /\ lastPos' \in Positions
    BY <1>4, BoundsAssumption DEF Boot, FileContents, Unreadable, Positions, Events
  <2>3. main' \in MainPlaces /\ main' = "booted"
    BY <1>4 DEF Boot, MainPlaces
  <2> QED
    BY <1>4, <2>1, <2>2, <2>3 DEF Boot
<1>5. CASE Start
  BY <1>5 DEF Start, MainPlaces, WorkerPlaces, EventPlaces, RowPlaces
<1>6. CASE Stop
  BY <1>6 DEF Stop, StopFrame, MainPlaces
<1>7. CASE StopClose
  BY <1>7 DEF StopClose, StopFrame, MainPlaces
<1>8. CASE StopNull
  BY <1>8 DEF StopNull, StopFrame, MainPlaces
<1>9. CASE StopSave
  <2>1. stateFile' \in FileContents
    BY <1>9 DEF StopSave, FileContents
  <2> QED
    BY <1>9, <2>1 DEF StopSave, StopFrame, MainPlaces
<1>10. CASE StopRead
  BY <1>10 DEF StopRead, StopFrame, MainPlaces
<1>11. CASE StopFlush
  <2>1. stateFile' \in FileContents
    BY <1>11, FlushedContents, BoundsAssumption DEF StopFlush, Positions, Events
  <2> QED
    BY <1>11, <2>1 DEF StopFlush, StopFrame, MainPlaces
<1>12. CASE StopStatus
  BY <1>12 DEF StopStatus, StopFrame, MainPlaces
<1>13. CASE CloseLoop
  BY <1>13 DEF CloseLoop, MainPlaces
<1>14. CASE Exit
  <2>1. main' = "down" /\ main' \in MainPlaces /\ wpc' = "none" /\ wpc' \in WorkerPlaces
    BY <1>14 DEF Exit, ProcessGone, MainPlaces, WorkerPlaces
  <2>2. eventsProcessed' \in 0 .. SaveEvery - 1 /\ queue' \in Seq(Rows)
    BY <1>14, BoundsAssumption DEF Exit, ProcessGone
  <2>3. {lastPos', readPos', firstFed', fed'} \subseteq Positions
    BY <1>14, BoundsAssumption DEF Exit, ProcessGone, Positions
  <2> QED
    BY <1>14, <2>1, <2>2, <2>3 DEF Exit, ProcessGone, EventPlaces, RowPlaces
<1>15. CASE Crash
  <2>1. faults' \in 0 .. MaxFaults
    BY <1>15, BoundsAssumption DEF Crash
  <2>2. main' = "down" /\ main' \in MainPlaces /\ wpc' = "none" /\ wpc' \in WorkerPlaces
    BY <1>15 DEF Crash, ProcessGone, MainPlaces, WorkerPlaces
  <2>3. eventsProcessed' \in 0 .. SaveEvery - 1 /\ queue' \in Seq(Rows)
    BY <1>15, BoundsAssumption DEF Crash, ProcessGone
  <2>4. {lastPos', readPos', firstFed', fed'} \subseteq Positions
    BY <1>15, BoundsAssumption DEF Crash, ProcessGone, Positions
  <2> QED
    BY <1>15, <2>1, <2>2, <2>3, <2>4 DEF Crash, ProcessGone, EventPlaces, RowPlaces
<1>16. CASE Deliver
  <2>1. queue' \in Seq(Rows) /\ Head(queue) \in Rows
    BY <1>16 DEF Deliver
  <2>2. delivered' \in [Rows -> 0 .. 2]
    BY <1>16, <2>1 DEF Deliver
  <2> QED
    BY <1>16, <2>1, <2>2 DEF Deliver
<1>17. CASE WCheck
  BY <1>17 DEF WCheck, WorkerPlaces, EventPlaces, RowPlaces
<1>18. CASE WHealth
  BY <1>18 DEF WHealth, WorkerPlaces, EventPlaces, RowPlaces
<1>19. CASE WAttach
  <2>1. readPos' \in Positions
    BY <1>19, StartsAtPosition DEF WAttach
  <2> QED
    BY <1>19, <2>1 DEF WAttach, WorkerPlaces, EventPlaces, RowPlaces
<1>20. CASE WAttachFails
  <2>1. faults' \in 0 .. MaxFaults
    BY <1>20, BoundsAssumption DEF WAttachFails
  <2> QED
    BY <1>20, <2>1 DEF WAttachFails, WorkerPlaces, EventPlaces, RowPlaces
<1>21. CASE WFetch
  <2>1. readPos' \in Positions /\ readPos' \in Events
    BY <1>21, BoundsAssumption DEF WFetch, Positions, Events
  <2> QED
    BY <1>21, <2>1 DEF WFetch, WorkerPlaces, EventPlaces, RowPlaces
<1>22. CASE WFetchFails
  <2>1. faults' \in 0 .. MaxFaults
    BY <1>22, BoundsAssumption DEF WFetchFails
  <2> QED
    BY <1>22, <2>1 DEF WFetchFails, WorkerPlaces, EventPlaces, RowPlaces
<1>23. CASE WStopCheck
  BY <1>23 DEF WStopCheck, WorkerPlaces, EventPlaces, RowPlaces
<1>24. CASE WTrackFile
  <2>1. lastFile' \in Files \cup {0} /\ (lastFile # 0 => lastFile' # 0)
    BY <1>24, BinlogAssumption DEF WTrackFile, Files, EventPlaces
  <2> QED
    BY <1>24, <2>1 DEF WTrackFile, WorkerPlaces, EventPlaces, RowPlaces
<1>25. CASE WTrackPos
  <2>1. lastPos' \in Positions /\ (lastPos # 0 => lastPos' # 0)
    BY <1>25, BoundsAssumption DEF WTrackPos, Events, Positions, EventPlaces
  <2> QED
    BY <1>25, <2>1 DEF WTrackPos, WorkerPlaces, EventPlaces, RowPlaces
<1>26. CASE WProcess
  BY <1>26 DEF WProcess, WorkerPlaces, EventPlaces, RowPlaces
<1>27. CASE WRow
  <2>1. eventsProcessed' \in 0 .. SaveEvery - 1
    <3>1. eventsProcessed + 1 \in Nat /\ SaveEvery \in Nat \ {0}
      BY BoundsAssumption
    <3>2. (eventsProcessed + 1) % SaveEvery \in 0 .. SaveEvery - 1
      BY <3>1, ModRange
    <3> QED
      BY <1>27, <3>2 DEF WRow
  <2>2. ~EventOver => row \in 1 .. RowsOf[readPos]
    BY <1>27, BinlogAssumption DEF WRow, EventOver, EventPlaces
  <2> QED
    BY <1>27, <2>1, <2>2 DEF WRow, SaveDue, WorkerPlaces, EventPlaces, RowPlaces
<1>28. CASE WSaveOpen
  <2>1. stateFile' \in FileContents
    BY <1>28 DEF WSaveOpen, FileContents
  <2> QED
    BY <1>28, <2>1 DEF WSaveOpen, WorkerPlaces, EventPlaces, RowPlaces
<1>29. CASE WSaveFlush
  <2>1. stateFile' \in FileContents
    BY <1>29, FlushedContents, BoundsAssumption DEF WSaveFlush, Positions, Events
  <2> QED
    BY <1>29, <2>1 DEF WSaveFlush, WorkerPlaces, EventPlaces, RowPlaces
<1>30. CASE WSchedule
  <2>1. row \in 1 .. RowsOf[readPos] /\ <<readPos, row>> \in Rows
    BY <1>30, RowsMember DEF WSchedule, EventPlaces, RowPlaces
  <2>2. queue' \in Seq(Rows)
    <3>1. queue' = queue \/ queue' = Append(queue, <<readPos, row>>)
      BY <1>30 DEF WSchedule
    <3>2. Append(queue, <<readPos, row>>) \in Seq(Rows)
      BY <2>1, AppendInSeq
    <3> QED
      BY <3>1, <3>2
  <2>3. row' \in Nat /\ (wpc' = "row" => row' # 0)
    BY <1>30, <2>1, BinlogAssumption DEF WSchedule, EventPlaces
  <2> QED
    BY <1>30, <2>1, <2>2, <2>3 DEF WSchedule, WorkerPlaces, EventPlaces, RowPlaces
<1>31. CASE WError
  BY <1>31 DEF WError, WorkerPlaces, EventPlaces, RowPlaces
<1>32. CASE WExit
  BY <1>32 DEF WExit, WorkerPlaces, EventPlaces, RowPlaces
<1>33. CASE UNCHANGED vars
  BY <1>33 DEF vars
<1> QED
  BY <1>1, <1>2, <1>3, <1>4, <1>5, <1>6, <1>7, <1>8, <1>9, <1>10, <1>11,
     <1>12, <1>13, <1>14, <1>15, <1>16, <1>17, <1>18, <1>19, <1>20, <1>21,
     <1>22, <1>23, <1>24, <1>25, <1>26, <1>27, <1>28, <1>29, <1>30, <1>31,
     <1>32, <1>33
  DEF Next, MainNext, WorkerNext

\* Every variable of the engine keeps its type: the coordinate on disk is always
\* one of a file and an event, and the loop is only given rows of events.
THEOREM TypeCorrect == Spec => []TypeOK
<1>1. Spec => []TypeInv
  BY TypeInit, TypeNext, PTL DEF Spec
<1>2. TypeInv => TypeOK
  BY DEF TypeInv
<1> QED
  BY <1>1, <1>2, PTL

----------------------------------------------------------------------------
(* No event is jumped over.                                                 *)

\* A re-attach from the coordinate of the last event processed starts right
\* behind it, or with CDC_RESUME_STREAM off at some place before it.
LEMMA ReattachBehind ==
    ASSUME TypeOK, fed # 0, Synced, NEW q \in StartPositions(lastFile, lastPos)
    PROVE  IF ResumeStream THEN q = fed ELSE q <= fed
<1>1. fed \in Events /\ IsReal(lastFile, lastPos) /\ HasCoordinate
  BY BinlogAssumption, BoundsAssumption
  DEF TypeOK, Synced, Positions, Events, IsReal, HasCoordinate
<1>2. CASE ResumeStream
  BY <1>1, <1>2, BoundsAssumption DEF StartPositions, HasCoordinate, Synced
<1>3. CASE ~ResumeStream
  <2>1. q = FileStart[FileOf[fed]]
    BY <1>1, <1>3 DEF StartPositions, HasCoordinate, Synced
  <2>2. FileStart[FileOf[fed]] < fed /\ FileStart[FileOf[fed]] \in Positions
    BY <1>1, BinlogAssumption
  <2> QED
    BY <1>1, <1>3, <2>1, <2>2, BoundsAssumption DEF Events, Positions
<1> QED
  BY <1>2, <1>3

\* The coupling of coordinate, reader and history holds at first.
LEMMA FeedInit == Init => FeedInv
  BY BoundsAssumption DEF Init, FeedInv, Positions, EventPlaces, RowPlaces, StopPlaces

\* Every step keeps it.
LEMMA FeedNext == IInv /\ [Next]_vars => FeedInv'
<1> SUFFICES ASSUME IInv, [Next]_vars PROVE FeedInv'
  OBVIOUS
<1>0. TypeInv /\ TypeOK /\ FeedInv
  BY DEF IInv, TypeInv
<1> USE <1>0
<1> USE DEF FeedInv, Synced, Follows, ReaderBehind, EventPlaces, RowPlaces,
            StopPlaces, replicaVars, coordVars, readerVars, rowVars, history, shown,
            loopVars, workVars, NotWorker, NoRow
<1>1. CASE Commit
  BY <1>1 DEF Commit
<1>2. CASE DbDown
  BY <1>2 DEF DbDown
<1>3. CASE DbRecover
  BY <1>3 DEF DbRecover
<1>4. CASE Boot
  BY <1>4 DEF Boot, TypeInv
<1>5. CASE Start
  BY <1>5 DEF Start, TypeInv
<1>6. CASE Stop
  BY <1>6 DEF Stop, StopFrame
<1>7. CASE StopClose
  BY <1>7 DEF StopClose, StopFrame
<1>8. CASE StopNull
  BY <1>8 DEF StopNull, StopFrame
<1>9. CASE StopSave
  BY <1>9 DEF StopSave, StopFrame
<1>10. CASE StopRead
  BY <1>10 DEF StopRead, StopFrame
<1>11. CASE StopFlush
  BY <1>11 DEF StopFlush, StopFrame
<1>12. CASE StopStatus
  BY <1>12 DEF StopStatus, StopFrame
<1>13. CASE CloseLoop
  BY <1>13 DEF CloseLoop
<1>14. CASE Exit
  BY <1>14, BoundsAssumption DEF Exit, ProcessGone, Positions
<1>15. CASE Crash
  BY <1>15, BoundsAssumption DEF Crash, ProcessGone, Positions
<1>16. CASE Deliver
  BY <1>16 DEF Deliver
<1>17. CASE WCheck
  BY <1>17 DEF WCheck
<1>18. CASE WHealth
  BY <1>18 DEF WHealth
<1>19. CASE WAttach
  BY <1>19, ReattachBehind DEF WAttach
<1>20. CASE WAttachFails
  BY <1>20 DEF WAttachFails
<1>21. CASE WFetch
  BY <1>21 DEF WFetch, TypeOK, Positions
<1>22. CASE WFetchFails
  BY <1>22 DEF WFetchFails
<1>23. CASE WStopCheck
  BY <1>23 DEF WStopCheck
<1>24. CASE WTrackFile
  BY <1>24 DEF WTrackFile
<1>25. CASE WTrackPos
  BY <1>25 DEF WTrackPos
<1>26. CASE WProcess
  BY <1>26, BoundsAssumption
  DEF WProcess, LoopOpen, TypeInv, TypeOK, Positions, Events, MainPlaces
<1>27. CASE WRow
  BY <1>27, BoundsAssumption DEF WRow, TypeOK, Positions
<1>28. CASE WSaveOpen
  BY <1>28 DEF WSaveOpen
<1>29. CASE WSaveFlush
  BY <1>29 DEF WSaveFlush
<1>30. CASE WSchedule
  BY <1>30 DEF WSchedule, LoopOpen, TypeInv
<1>31. CASE WError
  BY <1>31 DEF WError
<1>32. CASE WExit
  BY <1>32 DEF WExit
<1>33. CASE UNCHANGED vars
  BY <1>33 DEF vars
<1> QED
  BY <1>1, <1>2, <1>3, <1>4, <1>5, <1>6, <1>7, <1>8, <1>9, <1>10, <1>11,
     <1>12, <1>13, <1>14, <1>15, <1>16, <1>17, <1>18, <1>19, <1>20, <1>21,
     <1>22, <1>23, <1>24, <1>25, <1>26, <1>27, <1>28, <1>29, <1>30, <1>31,
     <1>32, <1>33
  DEF Next, MainNext, WorkerNext


\* A step that moves `fed' inside one life of the process moves it to the next
\* event, or to an earlier one that the server sends again.
LEMMA StepFeeds ==
    ASSUME IInv, [Next]_vars
    PROVE  fed' # fed /\ fed' # 0 /\ fed # 0 =>
              IF ResumeStream THEN fed' = fed + 1 ELSE fed' <= fed + 1
<1>1. CASE WProcess
  BY <1>1 DEF IInv, FeedInv, Follows, WProcess, history
<1>2. CASE ~WProcess
  <2>1. fed' = fed \/ fed' = 0
    BY <1>2 DEF Next, MainNext, WorkerNext, vars, replicaVars, coordVars,
       readerVars, rowVars, history, shown, loopVars, workVars, NotWorker, NoRow,
       StopFrame, ProcessGone, Commit, DbDown, DbRecover, Boot, Start, Stop,
       StopClose, StopNull, StopSave, StopRead, StopFlush, StopStatus, CloseLoop,
       Exit, Crash, Deliver, WCheck, WHealth, WAttach, WAttachFails, WFetch,
       WFetchFails, WStopCheck, WTrackFile, WTrackPos, WRow, WSaveOpen,
       WSaveFlush, WSchedule, WError, WExit
  <2> QED
    BY <2>1
<1> QED
  BY <1>1, <1>2

\* The invariant the results of this module rest on.
THEOREM Invariance == Spec => []IInv
<1>1. Init => IInv
  BY TypeInit, FeedInit DEF IInv
<1>2. IInv /\ [Next]_vars => IInv'
  BY TypeNext, FeedNext DEF IInv
<1> QED
  BY <1>1, <1>2, PTL DEF Spec

\* In one life of the process no event is jumped over, whatever stream errors,
\* outages, re-attaches and calls of stop() lie between two of them.
THEOREM FeedIsContiguous == Spec => FeedContiguous
<1>1. IInv /\ [Next]_vars =>
        [fed' # fed /\ fed' # 0 /\ fed # 0 =>
            IF ResumeStream THEN fed' = fed + 1 ELSE fed' <= fed + 1]_vars
  BY StepFeeds
<1> QED
  BY <1>1, Invariance, PTL DEF Spec, FeedContiguous

----------------------------------------------------------------------------
(* The engine implements OrderedFeed.                                       *)

LoopPlaces == {"row"} \cup RowPlaces

\* What the mapping needs: the row in hand is one of the event processed last,
\* and a process that has not been started has shown nothing.
HandInv ==
    /\ row # 0 <=> wpc \in LoopPlaces
    /\ wpc \in LoopPlaces => readPos = fed
    /\ wpc \in RowPlaces => <<readPos, row>> \notin BadRows
    /\ main \in {"down", "booted"} =>
         firstFed = 0 /\ queue = <<>> /\ seen = {}

\* The mapping holds what it needs at first.
LEMMA HandInit == Init => HandInv
  BY DEF Init, HandInv, LoopPlaces, RowPlaces

\* Every step keeps it.
LEMMA HandNext == ASSUME IInv, HandInv, [Next]_vars PROVE HandInv'
<1>0. TypeInv /\ TypeOK
  BY DEF IInv, TypeInv
<1> USE <1>0 DEF HandInv, LoopPlaces, RowPlaces, replicaVars, coordVars, readerVars,
                 rowVars, history, shown, loopVars, workVars, NotWorker, NoRow
<1>1. CASE Commit \/ DbDown \/ DbRecover \/ UNCHANGED vars
  BY <1>1 DEF Commit, DbDown, DbRecover, vars
<1>2. CASE Boot \/ Start \/ CloseLoop
  BY <1>2 DEF Boot, Start, CloseLoop, TypeInv
<1>3. CASE Stop \/ StopClose \/ StopNull \/ StopSave
  BY <1>3 DEF Stop, StopClose, StopNull, StopSave, StopFrame
<1>4. CASE StopRead \/ StopFlush \/ StopStatus
  BY <1>4 DEF StopRead, StopFlush, StopStatus, StopFrame
<1>5. CASE Exit \/ Crash
  BY <1>5 DEF Exit, Crash, ProcessGone
<1>6. CASE Deliver
  BY <1>6 DEF Deliver, LoopIdle
<1>7. CASE WCheck \/ WHealth \/ WAttach \/ WAttachFails \/ WError \/ WExit
  BY <1>7 DEF WCheck, WHealth, WAttach, WAttachFails, WError, WExit
<1>8. CASE WFetch \/ WFetchFails \/ WStopCheck \/ WTrackFile \/ WTrackPos
  BY <1>8 DEF WFetch, WFetchFails, WStopCheck, WTrackFile, WTrackPos
<1>9. CASE WProcess
  BY <1>9 DEF WProcess, LoopOpen
<1>10. CASE WRow
  BY <1>10 DEF WRow, EventOver, TypeInv
<1>11. CASE WSaveOpen \/ WSaveFlush
  BY <1>11 DEF WSaveOpen, WSaveFlush
<1>12. CASE WSchedule
  BY <1>12 DEF WSchedule, LoopOpen, TypeInv
<1> QED
  BY <1>1, <1>2, <1>3, <1>4, <1>5, <1>6, <1>7, <1>8, <1>9, <1>10, <1>11, <1>12
  DEF Next, MainNext, WorkerNext

\* The engine starts as a feed does.
LEMMA FeedStarts == Init => Feed!Init
  BY DEF Init, Feed!Init, Feed!Empty

\* Every step of the engine is one of the feed or leaves the feed as it is.
LEMMA FeedSteps == ASSUME IInv, HandInv, [Next]_vars PROVE [Feed!Next]_(Feed!vars)
<1>0. TypeInv /\ TypeOK /\ FeedInv
  BY DEF IInv, TypeInv
<1> USE <1>0 DEF HandInv, LoopPlaces, RowPlaces, replicaVars, coordVars, readerVars,
                 rowVars, history, shown, loopVars, workVars, NotWorker, NoRow
<1>1. CASE Commit \/ DbDown \/ DbRecover \/ UNCHANGED vars
  BY <1>1 DEF Commit, DbDown, DbRecover, vars, Feed!vars
<1>2. CASE Boot
  BY <1>2 DEF Boot, TypeInv, Feed!vars
<1>3. CASE Start
  BY <1>3 DEF Start, Feed!Next, Feed!Open
<1>4. CASE CloseLoop
  BY <1>4 DEF CloseLoop, Feed!Next, Feed!Close
<1>5. CASE Stop \/ StopClose \/ StopNull \/ StopSave
  BY <1>5 DEF Stop, StopClose, StopNull, StopSave, StopFrame, Feed!vars
<1>6. CASE StopRead \/ StopFlush \/ StopStatus
  BY <1>6 DEF StopRead, StopFlush, StopStatus, StopFrame, Feed!vars
<1>7. CASE Exit \/ Crash
  <2>1. CASE main \in {"down", "booted"}
    BY <1>7, <2>1 DEF Exit, Crash, ProcessGone, TypeInv, Feed!vars
  <2>2. CASE main \notin {"down", "booted"}
    BY <1>7, <2>2 DEF Exit, Crash, ProcessGone, Feed!Next, Feed!End, Feed!Empty
  <2> QED
    BY <2>1, <2>2
<1>8. CASE Deliver
  BY <1>8 DEF Deliver, LoopIdle, Feed!Next, Feed!Show
<1>9. CASE WCheck \/ WHealth \/ WAttach \/ WAttachFails \/ WError \/ WExit
  BY <1>9 DEF WCheck, WHealth, WAttach, WAttachFails, WError, WExit, Feed!vars
<1>10. CASE WFetch \/ WFetchFails \/ WStopCheck \/ WTrackFile \/ WTrackPos
  BY <1>10 DEF WFetch, WFetchFails, WStopCheck, WTrackFile, WTrackPos, Feed!vars
<1>11. CASE WProcess
  <2>1. CASE ~LoopOpen
    BY <1>11, <2>1 DEF WProcess, Feed!vars
  <2>2. CASE LoopOpen
    <3>1. readPos \in Events /\ readPos \in DOMAIN RowsOf
      BY <1>11, BinlogAssumption DEF WProcess, TypeInv, EventPlaces
    <3>2. Feed!Follows(readPos)
      BY <1>11, <3>1, BoundsAssumption
      DEF WProcess, FeedInv, Follows, Feed!Follows, TypeOK, Positions, Events
    <3> QED
      BY <1>11, <2>2, <3>1, <3>2 DEF WProcess, LoopOpen, Feed!Next, Feed!BeginEvent
  <2> QED
    BY <2>1, <2>2
<1>12. CASE WRow
  <2>1. CASE ~EventOver
    BY <1>12, <2>1 DEF WRow, Feed!vars
  <2>2. CASE EventOver
    BY <1>12, <2>2 DEF WRow, EventOver, TypeOK, Feed!Next, Feed!EndEvent
  <2> QED
    BY <2>1, <2>2
<1>13. CASE WSaveOpen \/ WSaveFlush
  BY <1>13 DEF WSaveOpen, WSaveFlush, Feed!vars
<1>14. CASE WSchedule
  <2>1. row \in 1 .. RowsOf[readPos] /\ RowsOf[readPos] \in Nat
    BY <1>14, BinlogAssumption DEF WSchedule, TypeInv, EventPlaces
  <2>2. CASE LoopOpen
    BY <1>14, <2>1, <2>2 DEF WSchedule, LoopOpen, Feed!Next, Feed!HandOver
  <2>3. CASE ~LoopOpen
    <3>1. main = "closed"
      BY <1>14, <2>3 DEF WSchedule, LoopOpen, TypeInv
    <3> QED
      BY <1>14, <2>1, <2>3, <3>1 DEF WSchedule, Feed!Next, Feed!EndEvent
  <2> QED
    BY <2>2, <2>3
<1> QED
  BY <1>1, <1>2, <1>3, <1>4, <1>5, <1>6, <1>7, <1>8, <1>9, <1>10, <1>11,
     <1>12, <1>13, <1>14
  DEF Next, MainNext, WorkerNext

\* Whatever its threads, faults and restarts do, in the eyes of those it feeds
\* the engine is an ordered feed.
THEOREM EngineImplementsFeed == Spec => ImplementsFeed
<1>1. IInv /\ HandInv /\ [Next]_vars => HandInv'
  BY HandNext
<1>2. IInv /\ HandInv /\ [Next]_vars => [Feed!Next]_(Feed!vars)
  BY FeedSteps
<1> QED
  BY <1>1, <1>2, HandInit, FeedStarts, Invariance, PTL
  DEF Spec, ImplementsFeed, Feed!Spec

----------------------------------------------------------------------------
(* What follows from OrderedFeed alone, said of the engine's variables: the *)
(* proofs of this part use the steps of Feed, and none of the engine's.     *)

\* What `life' of Feed stands for.
FeedLife == IF main \in {"down", "booted"} THEN "none"
            ELSE IF main = "closed" THEN "closed" ELSE "open"

USE DEF FeedLife

\* Events are numbered from 1.
FeedConstants ==
    /\ DOMAIN RowsOf \subseteq Nat \ {0}
    /\ \A e \in DOMAIN RowsOf : RowsOf[e] \in Nat

RowPairs == (Nat \ {0}) \X (Nat \ {0})

PromiseType ==
    /\ FeedLife \in {"none", "open", "closed"}
    /\ firstFed \in Nat /\ fed \in Nat /\ row \in Nat
    /\ queue \in Seq(RowPairs) /\ seen \in SUBSET RowPairs
    /\ row > 0 => fed \in DOMAIN RowsOf

\* Rows that were handed over lie before the place of the feed, and those that
\* wait are in order behind those that were shown.
PromiseOrder ==
    ResumeStream =>
        /\ \A j, k \in DOMAIN queue : j < k => Feed!Before(queue[j], queue[k])
        /\ \A r \in seen : \A k \in DOMAIN queue : Feed!Before(r, queue[k])
        /\ \A r \in seen \cup Feed!Queued :
             r[1] <= fed /\ (r[1] = fed /\ row > 0 => r[2] < row)

Fine(e, i) == \A j \in 1 .. i : <<e, j>> \notin BadRows

\* Every row up to the place of the feed was handed over or follows one that
\* raises, and none of those handed over does.
PromiseLoss ==
    /\ firstFed = 0 <=> fed = 0
    /\ FeedLife = "none" => fed = 0
    /\ row > 0 => Fine(fed, row - 1)
    /\ \A r \in seen \cup Feed!Queued : Fine(r[1], r[2])
    /\ FeedLife = "open" /\ fed # 0 =>
         \A e \in firstFed .. fed : \A i \in 1 .. RowsOf[e] :
             \/ ~Fine(e, i) \/ <<e, i>> \in seen \cup Feed!Queued
             \/ row > 0 /\ e = fed /\ i >= row

PromiseInv == PromiseType /\ PromiseOrder /\ PromiseLoss

----------------------------------------------------------------------------
\* The rows that wait, after one more was handed over.
LEMMA QueuedAppend ==
    ASSUME queue \in Seq(RowPairs), NEW x \in RowPairs,
           queue' = Append(queue, x)
    PROVE  /\ queue' \in Seq(RowPairs)
           /\ Feed!Queued' = Feed!Queued \cup {x}
           /\ DOMAIN queue' = DOMAIN queue \cup {Len(queue) + 1}
           /\ \A k \in DOMAIN queue : queue'[k] = queue[k] /\ k <= Len(queue)
           /\ queue'[Len(queue) + 1] = x
<1>1. DOMAIN queue = 1 .. Len(queue) /\ Len(queue) \in Nat
  OBVIOUS
<1>2. Len(queue') = Len(queue) + 1 /\ queue' \in Seq(RowPairs)
  OBVIOUS
<1>3. DOMAIN queue' = 1 .. Len(queue) + 1
  BY <1>2
<1>4. \A k \in DOMAIN queue : queue'[k] = queue[k]
  BY <1>1
<1>5. queue'[Len(queue) + 1] = x
  BY <1>1
<1>6. DOMAIN queue' = DOMAIN queue \cup {Len(queue) + 1}
  BY <1>1, <1>3
<1>7. Feed!Queued' = Feed!Queued \cup {x}
  BY <1>4, <1>5, <1>6, <1>1 DEF Feed!Queued
<1> QED
  BY <1>1, <1>2, <1>4, <1>5, <1>6, <1>7

\* The rows that wait, after the first of them was shown.
LEMMA QueuedTail ==
    ASSUME queue \in Seq(RowPairs), queue # <<>>, queue' = Tail(queue)
    PROVE  /\ queue' \in Seq(RowPairs)
           /\ 1 \in DOMAIN queue /\ Head(queue) = queue[1]
           /\ Feed!Queued = Feed!Queued' \cup {Head(queue)}
           /\ \A k \in DOMAIN queue' :
                k \in Nat \ {0} /\ k + 1 \in DOMAIN queue /\ queue'[k] = queue[k + 1]
<1>1. DOMAIN queue = 1 .. Len(queue) /\ Len(queue) \in Nat \ {0}
  OBVIOUS
<1>2. queue' \in Seq(RowPairs) /\ Len(queue') = Len(queue) - 1
  OBVIOUS
<1>3. DOMAIN queue' = 1 .. Len(queue) - 1
  BY <1>2
<1>4. \A k \in 1 .. Len(queue) - 1 : queue'[k] = queue[k + 1]
  BY <1>1
<1>5. 1 \in DOMAIN queue /\ Head(queue) = queue[1]
  BY <1>1
<1>6. \A k \in DOMAIN queue : k = 1 \/ (k - 1 \in DOMAIN queue'
                                       /\ queue'[k - 1] = queue[k])
  BY <1>1, <1>3, <1>4
<1>7. \A k \in DOMAIN queue' :
       k \in Nat \ {0} /\ k + 1 \in DOMAIN queue /\ queue'[k] = queue[k + 1]
  BY <1>1, <1>3, <1>4
<1>8. Feed!Queued = Feed!Queued' \cup {Head(queue)}
  <2>1. \A k \in DOMAIN queue : queue[k] \in Feed!Queued' \cup {Head(queue)}
    BY <1>5, <1>6 DEF Feed!Queued
  <2>2. Head(queue) \in Feed!Queued
        /\ \A k \in DOMAIN queue' : queue'[k] \in Feed!Queued
    BY <1>5, <1>7 DEF Feed!Queued
  <2> QED
    BY <2>1, <2>2 DEF Feed!Queued
<1> QED
  BY <1>2, <1>5, <1>7, <1>8

\* Rows that wait are rows.
LEMMA QueuedRows == ASSUME queue \in Seq(RowPairs)
                    PROVE  Feed!Queued \subseteq RowPairs
  BY DEF Feed!Queued

\* Nothing waits in an empty queue.
LEMMA QueuedEmpty == ASSUME queue = <<>> PROVE Feed!Queued = {} /\ DOMAIN queue = {}
  BY DEF Feed!Queued

----------------------------------------------------------------------------
\* The invariant holds at first.
LEMMA PromiseInit == Feed!Init => PromiseInv
  BY QueuedEmpty
  DEF Feed!Init, Feed!Empty, PromiseInv, PromiseType, PromiseOrder, PromiseLoss

\* An event is taken up.
LEMMA PromiseBegin ==
    ASSUME FeedConstants, PromiseInv, Feed!BeginEvent
    PROVE  PromiseInv'
<1> USE DEF PromiseInv
<1>0. PICK e \in DOMAIN RowsOf : /\ Feed!Follows(e) /\ fed' = e /\ row' = 1
                                 /\ firstFed' = IF firstFed = 0 THEN e ELSE firstFed
  BY DEF Feed!BeginEvent
<1>1. /\ FeedLife = "open" /\ row = 0 /\ Feed!Queued' = Feed!Queued
      /\ UNCHANGED <<FeedLife, queue, seen>>
  BY DEF Feed!BeginEvent, Feed!Queued
<1>2. e \in Nat \ {0} /\ RowsOf[e] \in Nat /\ Feed!Queued \subseteq RowPairs
  BY QueuedRows DEF FeedConstants, PromiseType
<1>3. PromiseType'
  BY <1>0, <1>1, <1>2 DEF PromiseType
<1>4. PromiseOrder'
  <2> SUFFICES ASSUME ResumeStream PROVE PromiseOrder'
    BY DEF PromiseOrder
  <2>1. \A r \in seen \cup Feed!Queued : r[1] \in Nat \ {0} /\ r[1] <= fed
    BY <1>2 DEF PromiseType, PromiseOrder, RowPairs
  <2>2. fed = 0 \/ e = fed + 1
    BY <1>0 DEF Feed!Follows
  <2>3. \A r \in seen \cup Feed!Queued : r[1] < e
    BY <1>2, <2>1, <2>2 DEF PromiseType
  <2> QED
    BY <1>0, <1>1, <1>2, <2>3 DEF PromiseOrder, PromiseType, RowPairs
<1>5. PromiseLoss'
  <2>1. (firstFed = 0 <=> fed = 0)' /\ (FeedLife = "none" => fed = 0)'
    BY <1>0, <1>1, <1>2 DEF PromiseLoss
  <2>2. (row > 0 => Fine(fed, row - 1))'
    BY <1>0 DEF Fine
  <2>3. (\A r \in seen \cup Feed!Queued : Fine(r[1], r[2]))'
    BY <1>1 DEF PromiseLoss, Fine
  <2>4. ASSUME NEW d \in firstFed' .. fed', NEW i \in 1 .. RowsOf[d]
        PROVE  \/ ~Fine(d, i) \/ <<d, i>> \in seen' \cup Feed!Queued'
               \/ row' > 0 /\ d = fed' /\ i >= row'
    <3>1. CASE d = e
      BY <3>1, <1>0, <1>2
    <3>2. CASE d # e
      <4>1. fed # 0 /\ d \in firstFed .. fed
        BY <3>2, <1>0, <1>2 DEF Feed!Follows, PromiseType, PromiseLoss
      <4> QED
        BY <4>1, <1>1 DEF PromiseLoss, PromiseType
    <3> QED
      BY <3>1, <3>2
  <2> QED
    BY <2>1, <2>2, <2>3, <2>4 DEF PromiseLoss
<1> QED
  BY <1>3, <1>4, <1>5

\* A row is handed over.
LEMMA PromiseHandOver ==
    ASSUME FeedConstants, PromiseInv, Feed!HandOver
    PROVE  PromiseInv'
<1> USE DEF PromiseInv
<1> DEFINE x == <<fed, row>>
<1>1. /\ FeedLife = "open" /\ row > 0 /\ row <= RowsOf[fed] /\ x \notin BadRows
      /\ queue' = Append(queue, x) /\ row' = row + 1
      /\ UNCHANGED <<FeedLife, firstFed, fed, seen>>
  BY DEF Feed!HandOver
<1>2. fed \in DOMAIN RowsOf /\ fed \in Nat \ {0} /\ row \in Nat \ {0} /\ x \in RowPairs
  BY <1>1 DEF PromiseType, FeedConstants, RowPairs
<1>3. /\ queue' \in Seq(RowPairs)
      /\ Feed!Queued' = Feed!Queued \cup {x}
      /\ DOMAIN queue' = DOMAIN queue \cup {Len(queue) + 1}
      /\ \A k \in DOMAIN queue : queue'[k] = queue[k] /\ k <= Len(queue)
      /\ queue'[Len(queue) + 1] = x
  BY <1>1, <1>2, QueuedAppend DEF PromiseType
<1>4. PromiseType'
  BY <1>1, <1>2, <1>3 DEF PromiseType
<1>5. PromiseOrder'
  <2> SUFFICES ASSUME ResumeStream PROVE PromiseOrder'
    BY DEF PromiseOrder
  <2>1. \A r \in seen \cup Feed!Queued :
           r \in RowPairs /\ r[1] <= fed /\ (r[1] = fed => r[2] < row)
    BY <1>1, QueuedRows DEF PromiseOrder, PromiseType
  <2>2. \A r \in seen \cup Feed!Queued : Feed!Before(r, x)
    BY <2>1, <1>2 DEF Feed!Before, RowPairs
  <2>3. \A k \in DOMAIN queue : queue[k] \in Feed!Queued /\ k \in Nat
    BY DEF Feed!Queued, PromiseType
  <2>4. (\A j, k \in DOMAIN queue : j < k => Feed!Before(queue[j], queue[k]))'
    <3> SUFFICES ASSUME NEW j \in DOMAIN queue', NEW k \in DOMAIN queue', j < k
                 PROVE  Feed!Before(queue'[j], queue'[k])
      BY DEF Feed!Before
    <3>1. Len(queue) \in Nat
      BY DEF PromiseType
    <3>2. CASE k \in DOMAIN queue
      <4>1. j \in DOMAIN queue
        BY <3>1, <3>2, <1>3, <2>3
      <4> QED
        BY <4>1, <3>2, <1>3 DEF PromiseOrder
    <3>3. CASE k = Len(queue) + 1
      <4>1. j \in DOMAIN queue
        BY <3>1, <3>3, <1>3
      <4> QED
        BY <4>1, <3>3, <1>3, <2>2, <2>3
    <3> QED
      BY <3>2, <3>3, <1>3
  <2>5. (\A r \in seen : \A k \in DOMAIN queue : Feed!Before(r, queue[k]))'
    BY <1>1, <1>3, <2>2 DEF PromiseOrder, Feed!Before
  <2>6. \A r \in seen' \cup Feed!Queued' :
           r[1] <= fed' /\ (r[1] = fed' /\ row' > 0 => r[2] < row')
    BY <1>1, <1>2, <1>3, <2>1 DEF RowPairs
  <2> QED
    BY <2>4, <2>5, <2>6 DEF PromiseOrder
<1>6. PromiseLoss'
  <2>1. (firstFed = 0 <=> fed = 0)' /\ (FeedLife = "none" => fed = 0)'
    BY <1>1, <1>2 DEF PromiseLoss
  <2>2. Fine(fed, row)
    BY <1>1, <1>2 DEF PromiseLoss, Fine
  <2>3. (row > 0 => Fine(fed, row - 1))'
    BY <2>2, <1>1, <1>2 DEF Fine
  <2>4. (\A r \in seen \cup Feed!Queued : Fine(r[1], r[2]))'
    BY <2>2, <1>1, <1>3 DEF PromiseLoss
  <2>5. ASSUME NEW d \in firstFed' .. fed', NEW i \in 1 .. RowsOf[d]
        PROVE  \/ ~Fine(d, i) \/ <<d, i>> \in seen' \cup Feed!Queued'
               \/ row' > 0 /\ d = fed' /\ i >= row'
    BY <1>1, <1>2, <1>3 DEF PromiseLoss, FeedConstants
  <2> QED
    BY <2>1, <2>3, <2>4, <2>5 DEF PromiseLoss
<1> QED
  BY <1>4, <1>5, <1>6

\* An event is done with.
LEMMA PromiseEndEvent ==
    ASSUME FeedConstants, PromiseInv, Feed!EndEvent
    PROVE  PromiseInv'
<1> USE DEF PromiseInv
<1>1. /\ row > 0 /\ row' = 0 /\ Feed!Queued' = Feed!Queued
      /\ row > RowsOf[fed] \/ <<fed, row>> \in BadRows \/ FeedLife = "closed"
      /\ UNCHANGED <<FeedLife, firstFed, fed, queue, seen>>
  BY DEF Feed!EndEvent, Feed!Queued
<1>2. fed \in DOMAIN RowsOf /\ row \in Nat /\ RowsOf[fed] \in Nat
  BY <1>1 DEF PromiseType, FeedConstants
<1>3. PromiseType'
  BY <1>1 DEF PromiseType
<1>4. PromiseOrder'
  BY <1>1 DEF PromiseOrder, Feed!Before
<1>5. PromiseLoss'
  <2>1. ASSUME FeedLife = "open", fed # 0,
               NEW d \in firstFed .. fed, NEW i \in 1 .. RowsOf[d]
        PROVE  ~Fine(d, i) \/ <<d, i>> \in seen \cup Feed!Queued
    <3>1. CASE d = fed /\ i >= row
      <4>1. <<fed, row>> \in BadRows /\ row \in 1 .. i
        BY <3>1, <2>1, <1>1, <1>2
      <4> QED
        BY <4>1, <3>1 DEF Fine
    <3> QED
      BY <3>1, <2>1 DEF PromiseLoss
  <2> QED
    BY <2>1, <1>1 DEF PromiseLoss, Fine
<1> QED
  BY <1>3, <1>4, <1>5

\* The first row that waits is shown.
LEMMA PromiseShow ==
    ASSUME FeedConstants, PromiseInv, Feed!Show
    PROVE  PromiseInv'
<1> USE DEF PromiseInv
<1>1. /\ queue # <<>> /\ queue' = Tail(queue)
      /\ seen' = seen \cup {Head(queue)}
      /\ UNCHANGED <<FeedLife, firstFed, fed, row>>
  BY DEF Feed!Show
<1>2. /\ queue' \in Seq(RowPairs)
      /\ 1 \in DOMAIN queue /\ Head(queue) = queue[1]
      /\ Feed!Queued = Feed!Queued' \cup {Head(queue)}
      /\ \A k \in DOMAIN queue' :
           k \in Nat \ {0} /\ k + 1 \in DOMAIN queue /\ queue'[k] = queue[k + 1]
  BY <1>1, QueuedTail DEF PromiseType
<1>3. seen' \cup Feed!Queued' = seen \cup Feed!Queued
  BY <1>1, <1>2
<1>4. PromiseType'
  BY <1>1, <1>2, QueuedRows DEF PromiseType
<1>5. PromiseOrder'
  <2> SUFFICES ASSUME ResumeStream PROVE PromiseOrder'
    BY DEF PromiseOrder
  <2>1. (\A j, k \in DOMAIN queue : j < k => Feed!Before(queue[j], queue[k]))'
    BY <1>2 DEF PromiseOrder, Feed!Before
  <2>2. \A k \in DOMAIN queue' : Feed!Before(Head(queue), queue'[k])
    BY <1>2 DEF PromiseOrder
  <2>3. \A r \in seen : \A k \in DOMAIN queue' : Feed!Before(r, queue'[k])
    BY <1>2 DEF PromiseOrder
  <2>4. (\A r \in seen : \A k \in DOMAIN queue : Feed!Before(r, queue[k]))'
    BY <1>1, <2>2, <2>3 DEF Feed!Before
  <2>5. (\A r \in seen \cup Feed!Queued :
           r[1] <= fed /\ (r[1] = fed /\ row > 0 => r[2] < row))'
    BY <1>1, <1>3 DEF PromiseOrder
  <2> QED
    BY <2>1, <2>4, <2>5 DEF PromiseOrder
<1>6. PromiseLoss'
  BY <1>1, <1>3 DEF PromiseLoss, Fine
<1> QED
  BY <1>4, <1>5, <1>6

\* Every step keeps the invariant.
LEMMA PromiseNext ==
    ASSUME FeedConstants, PromiseInv, [Feed!Next]_(Feed!vars)
    PROVE  PromiseInv'
<1>1. CASE Feed!Open
  BY <1>1 DEF Feed!Open, PromiseInv, PromiseType, PromiseOrder, PromiseLoss, Fine,
              Feed!Before, Feed!Queued
<1>2. CASE Feed!BeginEvent
  BY <1>2, PromiseBegin
<1>3. CASE Feed!HandOver
  BY <1>3, PromiseHandOver
<1>4. CASE Feed!EndEvent
  BY <1>4, PromiseEndEvent
<1>5. CASE Feed!Show
  BY <1>5, PromiseShow
<1>6. CASE Feed!Close
  <2>1. queue' = <<>> /\ FeedLife' = "closed" /\ UNCHANGED <<firstFed, fed, row, seen>>
    BY <1>6 DEF Feed!Close
  <2>2. Feed!Queued' = {} /\ DOMAIN queue' = {} /\ queue' \in Seq(RowPairs)
    BY <2>1 DEF Feed!Queued
  <2> QED
    BY <2>1, <2>2
       DEF PromiseInv, PromiseType, PromiseOrder, PromiseLoss, Fine, Feed!Before
<1>7. CASE Feed!End
  <2>1. /\ queue' = <<>> /\ FeedLife' = "none" /\ firstFed' = 0 /\ fed' = 0
        /\ row' = 0 /\ seen' = {}
    BY <1>7 DEF Feed!End, Feed!Empty
  <2>2. Feed!Queued' = {} /\ DOMAIN queue' = {} /\ queue' \in Seq(RowPairs)
    BY <2>1 DEF Feed!Queued
  <2> QED
    BY <2>1, <2>2 DEF PromiseInv, PromiseType, PromiseOrder, PromiseLoss
<1>8. CASE UNCHANGED Feed!vars
  BY <1>8 DEF Feed!vars, PromiseInv, PromiseType, PromiseOrder, PromiseLoss, Fine,
              Feed!Before, Feed!Queued
<1> QED
  BY <1>1, <1>2, <1>3, <1>4, <1>5, <1>6, <1>7, <1>8 DEF Feed!Next

\* In a feed that does not go back every row comes once and in order.
LEMMA OrderFollows == PromiseInv => Feed!InOrder
<1> SUFFICES ASSUME PromiseInv, ResumeStream PROVE Feed!InOrder
  BY DEF Feed!InOrder
<1>1. queue # <<>> => 1 \in DOMAIN queue /\ Head(queue) = queue[1]
  BY DEF PromiseInv, PromiseType
<1> QED
  BY <1>1 DEF PromiseInv, PromiseOrder, Feed!InOrder

\* No row of an event that was begun is lost.
LEMMA NothingLostFollows == ASSUME FeedConstants, PromiseInv PROVE Feed!NothingLost
<1> SUFFICES ASSUME FeedLife = "open", fed # 0,
                    NEW e \in firstFed .. fed, NEW i \in 1 .. RowsOf[e]
             PROVE  IF \E j \in 1 .. i : <<e, j>> \in BadRows
                    THEN <<e, i>> \notin seen \cup Feed!Queued
                    ELSE \/ <<e, i>> \in seen \cup Feed!Queued
                         \/ row > 0 /\ e = fed /\ i >= row
  BY DEF Feed!NothingLost
<1>1. <<e, i>> \in seen \cup Feed!Queued => Fine(e, i)
  BY DEF PromiseInv, PromiseLoss
<1>2. \/ ~Fine(e, i) \/ <<e, i>> \in seen \cup Feed!Queued
      \/ row > 0 /\ e = fed /\ i >= row
  BY DEF PromiseInv, PromiseLoss
<1> QED
  BY <1>1, <1>2 DEF Fine

\* A feed that does not go back shows every row once and in order.
LEMMA InOrderAlways == ASSUME FeedConstants PROVE Feed!Spec => []Feed!InOrder
<1>1. PromiseInv /\ [Feed!Next]_(Feed!vars) => PromiseInv'
  BY PromiseNext
<1> QED
  BY <1>1, PromiseInit, OrderFollows, PTL DEF Feed!Spec

\* No row of an event that was begun is lost, but those behind one that raises.
LEMMA NothingIsLost == ASSUME FeedConstants PROVE Feed!Spec => []Feed!NothingLost
<1>1. PromiseInv /\ [Feed!Next]_(Feed!vars) => PromiseInv'
  BY PromiseNext
<1>2. PromiseInv => Feed!NothingLost
  BY NothingLostFollows
<1> QED
  BY <1>1, <1>2, PromiseInit, PTL DEF Feed!Spec

----------------------------------------------------------------------------
(* What holds of an ordered feed holds of the engine.                       *)

LEMMA EngineConstants == FeedConstants
  BY BinlogAssumption, BoundsAssumption DEF FeedConstants, Events

\* With CDC_RESUME_STREAM one life of the process hands every row over once and
\* in binlog order, whatever re-attaches lie in between.
THEOREM RowsOnceInOrder == Spec => []OnceInOrder
<1>1. Feed!Spec => []Feed!InOrder
  BY EngineConstants, InOrderAlways
<1>2. Feed!InOrder <=> OnceInOrder
  BY DEF Feed!InOrder, Feed!Before, OnceInOrder, Before
<1> QED
  BY <1>1, <1>2, EngineImplementsFeed, PTL DEF ImplementsFeed

\* What is in hand for the engine is what is next for the feed.
LEMMA SameAccount == IInv /\ HandInv /\ Feed!NothingLost => RowAccounting
<1> SUFFICES ASSUME IInv, HandInv, Feed!NothingLost, LoopOpen, fed # 0,
                    NEW e \in firstFed .. fed, NEW i \in 1 .. RowsOf[e]
             PROVE  IF GivenUp(e, i) THEN <<e, i>> \notin seen \cup Queued
                    ELSE <<e, i>> \in seen \cup Queued \/ InHand(e, i)
  BY DEF RowAccounting
<1>1. Feed!Queued = Queued
  BY DEF Feed!Queued, Queued
<1>2. IF GivenUp(e, i) THEN <<e, i>> \notin seen \cup Queued
      ELSE \/ <<e, i>> \in seen \cup Queued
           \/ row > 0 /\ e = fed /\ i >= row
  BY <1>1 DEF Feed!NothingLost, LoopOpen, GivenUp
<1>3. row > 0 /\ e = fed /\ i >= row => InHand(e, i)
  BY DEF HandInv, LoopPlaces, RowPlaces, InHand
<1> QED
  BY <1>2, <1>3

\* While the loop exists no row of an event the engine has begun gets lost, but
\* those that follow one of their event that raises.
THEOREM RowsAccountedFor == Spec => []RowAccounting
<1>1. IInv /\ HandInv /\ [Next]_vars => HandInv'
  BY HandNext
<1>2. Feed!Spec => []Feed!NothingLost
  BY EngineConstants, NothingIsLost
<1> QED
  BY <1>1, <1>2, HandInit, SameAccount, Invariance, EngineImplementsFeed, PTL
  DEF ImplementsFeed, Spec

----------------------------------------------------------------------------
(* Status, and what a crash makes the next life repeat or skip.             *)

\* Until it has processed an event a life of the process goes by the coordinate
\* it found, and with CDC_RESUME_STREAM reads on right behind it; from then on
\* the disk is never ahead of the event it has processed last.
DiskInv ==
    /\ main \in {"down", "booted", "serving"} => ~stopEvent
    /\ main \in {"booted", "serving"} /\ fed = 0 =>
         /\ wpc \notin {"trackPos", "process"} =>
              lastFile = stateFile.file /\ lastPos = stateFile.pos
         /\ ResumeStream /\ OnDisk =>
              /\ wpc = "fetch" => readPos = stateFile.pos
              /\ wpc \in {"got", "trackFile", "trackPos", "process"} =>
                   readPos = stateFile.pos + 1
    /\ main = "serving" /\ fed # 0 /\ ResumeStream /\ OnDisk =>
         stateFile.pos <= fed

\* Rows handed to the loop in this life, and those of them a crash repeats.
Handed == seen \cup Queued
Repeated == {r \in Handed : r[1] > stateFile.pos}

\* Rows counted since the last periodic save and handed over; the count comes
\* before the save and the save before the row is scheduled.
Unsaved == CASE wpc = "schedule" /\ eventsProcessed # 0 -> eventsProcessed - 1
             [] wpc = "saveOpen" -> SaveEvery - 1
             [] OTHER -> eventsProcessed

HandedInv ==
    /\ IsFiniteSet(Handed)
    /\ fed = 0 => Handed = {}
    /\ ResumeStream => \A r \in Handed : r[1] <= fed
    /\ wpc \in {"saveOpen", "saveFlush"} => eventsProcessed = 0

\* With a disk that takes what is written, the rows behind the coordinate on it
\* are at most those counted since it was written.
ReplayInv ==
    ResumeStream /\ ~DiskMayFail /\ main = "serving" =>
        /\ wpc = "saveFlush" => stateFile.kind # "saved"
        /\ stateFile.kind = "saved" =>
             /\ wpc = "schedule" /\ eventsProcessed = 0 => stateFile.pos >= fed
             /\ Cardinality(Repeated) <= Unsaved

\* Once stop() has returned and the worker is gone the status is STOPPED: both
\* write it last, in whatever order.
THEOREM StatusDoesSettle == Spec => []StatusSettles
<1>1. Init => StatusSettles
  BY DEF Init, StatusSettles
<1>2. StatusSettles /\ [Next]_vars => StatusSettles'
  <2> SUFFICES ASSUME StatusSettles, [Next]_vars PROVE StatusSettles'
    OBVIOUS
  <2> USE DEF StatusSettles, replicaVars, coordVars, readerVars, rowVars, history,
              shown, loopVars, workVars, NotWorker, NoRow, StopFrame
  <2>1. CASE Commit \/ DbDown \/ DbRecover \/ Deliver \/ UNCHANGED vars
    BY <2>1 DEF Commit, DbDown, DbRecover, Deliver, vars
  <2>2. CASE Boot \/ Start \/ CloseLoop \/ Exit \/ Crash
    BY <2>2 DEF Boot, Start, CloseLoop, Exit, Crash, ProcessGone
  <2>3. CASE Stop \/ StopClose \/ StopNull \/ StopSave \/ StopRead \/ StopFlush
             \/ StopStatus
    BY <2>3 DEF Stop, StopClose, StopNull, StopSave, StopRead, StopFlush, StopStatus
  <2>4. CASE WorkerNext
    BY <2>4 DEF WorkerNext, WCheck, WHealth, WAttach, WAttachFails, WFetch,
       WFetchFails, WStopCheck, WTrackFile, WTrackPos, WProcess, WRow, WSaveOpen,
       WSaveFlush, WSchedule, WError, WExit
  <2> QED
    BY <2>1, <2>2, <2>3, <2>4 DEF Next, MainNext
<1> QED
  BY <1>1, <1>2, PTL DEF Spec

\* A life of the process starts from the coordinate it has found on disk.
LEMMA DiskInit == Init => DiskInv
  BY DEF Init, DiskInv

\* A coordinate of an event is one: the reader attached to it starts right there.
LEMMA AttachToReal ==
    ASSUME TypeOK, ResumeStream, OnDisk,
           NEW q \in StartPositions(stateFile.file, stateFile.pos)
    PROVE  q = stateFile.pos
<1>1. stateFile.pos \in Events /\ stateFile.pos # 0 /\ stateFile.file # 0
  BY BinlogAssumption, BoundsAssumption DEF OnDisk, IsReal, Events
<1> QED
  BY <1>1 DEF StartPositions, OnDisk

\* Every step keeps the disk from being ahead.
LEMMA DiskNext == ASSUME IInv, DiskInv, [Next]_vars PROVE DiskInv'
<1>0. TypeInv /\ TypeOK /\ FeedInv
  BY DEF IInv, TypeInv
<1> USE <1>0
<1> USE DEF DiskInv, OnDisk, IsReal, replicaVars, coordVars, readerVars, rowVars,
            history, shown, loopVars, workVars, NotWorker, NoRow
<1>1. CASE Commit \/ DbDown \/ DbRecover \/ Deliver \/ UNCHANGED vars
  BY <1>1 DEF Commit, DbDown, DbRecover, Deliver, vars
<1>2. CASE Boot
  BY <1>2 DEF Boot, TypeInv
<1>3. CASE Start
  BY <1>3 DEF Start, TypeInv
<1>4. CASE Stop \/ StopClose \/ StopNull \/ StopSave \/ StopRead \/ StopFlush
           \/ StopStatus \/ CloseLoop
  BY <1>4 DEF Stop, StopClose, StopNull, StopSave, StopRead, StopFlush, StopStatus,
     CloseLoop, StopFrame
<1>5. CASE Exit \/ Crash
  BY <1>5 DEF Exit, Crash, ProcessGone
<1>6. CASE WCheck \/ WHealth \/ WAttachFails \/ WFetchFails \/ WError \/ WExit
  BY <1>6 DEF WCheck, WHealth, WAttachFails, WFetchFails, WError, WExit
<1>7. CASE WAttach
  BY <1>7, AttachToReal DEF WAttach
<1>8. CASE WFetch \/ WStopCheck \/ WTrackFile \/ WTrackPos
  BY <1>8 DEF WFetch, WStopCheck, WTrackFile, WTrackPos
<1>9. CASE WProcess
  <2>1. main \notin {"down", "booted"} /\ main' = main /\ stateFile' = stateFile
        /\ stopEvent' = stopEvent /\ readPos \in Events /\ fed \in Nat
    BY <1>9, BoundsAssumption DEF WProcess, TypeInv, TypeOK, EventPlaces, Positions
  <2>2. ASSUME main = "serving", ResumeStream, OnDisk
        PROVE  fed' # 0 /\ stateFile.pos <= fed'
    <3>1. fed' = readPos /\ readPos \in Nat \ {0} /\ stateFile.pos \in Nat
      BY <1>9, <2>1, <2>2, BoundsAssumption DEF WProcess, LoopOpen, Events
    <3>2. CASE fed = 0
      BY <1>9, <2>2, <3>1, <3>2 DEF WProcess
    <3>3. CASE fed # 0
      BY <1>9, <2>1, <2>2, <3>1, <3>3 DEF WProcess, FeedInv, Follows
    <3> QED
      BY <3>2, <3>3
  <2>3. main = "serving" => fed' # 0
    BY <1>9, <2>1 DEF WProcess, LoopOpen, Events
  <2> QED
    BY <2>1, <2>2, <2>3
<1>10. CASE WRow \/ WSchedule
  BY <1>10 DEF WRow, WSchedule, FeedInv, RowPlaces
<1>11. CASE WSaveOpen
  <2>1. stateFile' = stateFile \/ ~OnDisk'
    BY <1>11, BoundsAssumption DEF WSaveOpen, Unreadable, Events
  <2> QED
    BY <1>11, <2>1 DEF WSaveOpen, FeedInv, RowPlaces
<1>12. CASE WSaveFlush
  <2>1. ~OnDisk' \/ stateFile' = stateFile \/ stateFile'.pos = lastPos
    BY <1>12, BoundsAssumption DEF WSaveFlush, Flushed, Saved, Unreadable, Events
  <2>2. fed # 0 /\ fed \in Nat /\ (~stopEvent => lastPos = fed)
    BY <1>12, BoundsAssumption
    DEF WSaveFlush, FeedInv, RowPlaces, Synced, TypeOK, Positions
  <2> QED
    BY <1>12, <2>1, <2>2 DEF WSaveFlush
<1> QED
  BY <1>1, <1>2, <1>3, <1>4, <1>5, <1>6, <1>7, <1>8, <1>9, <1>10, <1>11, <1>12
  DEF Next, MainNext, WorkerNext

\* Rows that are broadcast were handed over before, and only the row that is
\* scheduled is added.
LEMMA HandedIs ==
    ASSUME TypeOK, [Next]_vars
    PROVE  \/ Handed' \subseteq Handed
           \/ WSchedule /\ Handed' = Handed \cup {<<readPos, row>>}
<1>1. CASE Deliver
  <2>1. queue \in Seq(Rows) /\ queue # <<>> /\ queue' = Tail(queue)
        /\ seen' = seen \cup {Head(queue)}
    BY <1>1 DEF Deliver, TypeOK
  <2>2. DOMAIN queue = 1 .. Len(queue) /\ DOMAIN queue' = 1 .. Len(queue) - 1
        /\ Len(queue) \in Nat \ {0} /\ Head(queue) = queue[1]
        /\ \A k \in 1 .. Len(queue) - 1 : queue'[k] = queue[k + 1]
    BY <2>1
  <2> QED
    BY <2>1, <2>2 DEF Handed, Queued
<1>2. CASE WSchedule
  <2>1. queue' = queue \/ queue' = Append(queue, <<readPos, row>>)
    BY <1>2 DEF WSchedule
  <2>2. CASE queue' = queue
    BY <1>2, <2>2 DEF WSchedule, Handed, Queued, NotWorker, shown
  <2>3. CASE queue' = Append(queue, <<readPos, row>>)
    <3>1. DOMAIN queue = 1 .. Len(queue) /\ Len(queue) \in Nat
          /\ DOMAIN queue' = 1 .. Len(queue) + 1
      BY <2>3 DEF TypeOK
    <3>2. queue'[Len(queue) + 1] = <<readPos, row>>
          /\ \A k \in 1 .. Len(queue) : queue'[k] = queue[k]
      BY <2>3 DEF TypeOK
    <3>3. DOMAIN queue' = DOMAIN queue \cup {Len(queue) + 1}
      BY <3>1
    <3>4. Queued' = Queued \cup {<<readPos, row>>}
      BY <3>1, <3>2, <3>3 DEF Queued
    <3> QED
      BY <1>2, <3>4 DEF WSchedule, Handed, NotWorker, shown
  <2> QED
    BY <2>1, <2>2, <2>3
<1>3. CASE CloseLoop \/ Exit \/ Crash
  BY <1>3 DEF CloseLoop, Exit, Crash, ProcessGone, Handed, Queued, shown
<1>4. CASE ~(Deliver \/ WSchedule \/ CloseLoop \/ Exit \/ Crash)
  <2>1. queue' = queue /\ seen' = seen
    BY <1>4 DEF Next, MainNext, WorkerNext, vars, replicaVars, coordVars, readerVars,
       rowVars, history, shown, loopVars, workVars, NotWorker, NoRow, StopFrame,
       Commit, DbDown, DbRecover, Boot, Start, Stop, StopClose, StopNull, StopSave,
       StopRead, StopFlush, StopStatus, WCheck, WHealth, WAttach, WAttachFails,
       WFetch, WFetchFails, WStopCheck, WTrackFile, WTrackPos, WProcess, WRow,
       WSaveOpen, WSaveFlush, WError, WExit
  <2> QED
    BY <2>1 DEF Handed, Queued
<1> QED
  BY <1>1, <1>2, <1>3, <1>4

\* A new process has handed nothing over, with or without a file on disk.
LEMMA HandedInit == Init => HandedInv /\ ReplayInv
<1> SUFFICES ASSUME Init PROVE HandedInv /\ ReplayInv
  OBVIOUS
<1>1. Handed = {}
  BY DEF Init, Handed, Queued
<1> QED
  BY <1>1, FS_EmptySet DEF Init, HandedInv, ReplayInv

\* Every step keeps the rows handed over finitely many, and behind the event in
\* hand.
LEMMA HandedNext ==
    ASSUME IInv, HandInv, HandedInv, [Next]_vars
    PROVE  HandedInv'
<1>0. TypeInv /\ TypeOK /\ FeedInv /\ TypeOK'
  BY TypeNext DEF IInv, TypeInv
<1>1. IsFiniteSet(Handed')
  BY <1>0, HandedIs, FS_AddElement, FS_Subset DEF HandedInv
<1>2. fed' = 0 => Handed' = {}
  <2>1. CASE Exit \/ Crash
    BY <2>1 DEF Exit, Crash, ProcessGone, Handed, Queued
  <2>2. CASE ~(Exit \/ Crash)
    <3>1. fed' = fed \/ fed' # 0
      <4>1. CASE WProcess
        <5>1. readPos # 0
          BY <1>0, <4>1, BoundsAssumption DEF WProcess, TypeInv, EventPlaces, Events
        <5> QED
          BY <4>1, <5>1 DEF WProcess, history
      <4>2. CASE ~WProcess
        BY <2>2, <4>2 DEF Next, MainNext, WorkerNext, vars, replicaVars, coordVars,
           readerVars, rowVars, history, shown, loopVars, workVars, NotWorker, NoRow,
           StopFrame, Commit, DbDown, DbRecover, Boot, Start, Stop, StopClose,
           StopNull, StopSave, StopRead, StopFlush, StopStatus, CloseLoop, Deliver,
           WCheck, WHealth, WAttach, WAttachFails, WFetch, WFetchFails, WStopCheck,
           WTrackFile, WTrackPos, WRow, WSaveOpen, WSaveFlush, WSchedule, WError,
           WExit
      <4> QED
        BY <4>1, <4>2
    <3>2. WSchedule => fed # 0
      BY <1>0 DEF WSchedule, FeedInv, RowPlaces
    <3> QED
      BY <1>0, <3>1, <3>2, HandedIs DEF HandedInv
  <2> QED
    BY <2>1, <2>2
<1>3. ResumeStream => \A r \in Handed' : r[1] <= fed'
  <2>1. CASE Handed' = {}
    BY <2>1
  <2>2. CASE Handed' # {} /\ ResumeStream
    <3>1. fed' # 0
      BY <1>2, <2>2
    <3>2. fed' = fed \/ fed = 0 \/ fed' = fed + 1
      BY <2>2, <3>1, StepFeeds
    <3>3. WSchedule => readPos = fed /\ fed' = fed
      BY DEF WSchedule, HandInv, LoopPlaces, RowPlaces, history
    <3>4. fed \in Nat /\ fed' \in Nat /\ \A r \in Handed : r[1] <= fed /\ r[1] \in Nat
      <4>1. fed \in Nat /\ fed' \in Nat
        BY <1>0, BoundsAssumption DEF TypeOK, Positions
      <4>2. Handed \subseteq Rows
        BY <1>0 DEF TypeOK, Handed, Queued
      <4>3. \A r \in Rows : r[1] \in Nat
        BY BoundsAssumption DEF Rows, Events
      <4> QED
        BY <2>2, <4>1, <4>2, <4>3 DEF HandedInv
    <3> QED
      BY <1>0, <3>1, <3>2, <3>3, <3>4, HandedIs DEF HandedInv
  <2> QED
    BY <2>1, <2>2
<1>4. wpc' \in {"saveOpen", "saveFlush"} => eventsProcessed' = 0
  <2>1. CASE WRow
    BY <2>1 DEF WRow, SaveDue
  <2>2. CASE WSaveOpen
    BY <2>2 DEF WSaveOpen, HandedInv, NoRow, rowVars
  <2>3. CASE ~(WRow \/ WSaveOpen)
    <3>1. \/ wpc' \notin {"saveOpen", "saveFlush"}
          \/ UNCHANGED <<wpc, eventsProcessed>>
      BY <2>3 DEF Next, MainNext, WorkerNext, vars, rowVars, workVars, NoRow,
         StopFrame, ProcessGone, Commit, DbDown, DbRecover, Boot, Start, Stop,
         StopClose, StopNull, StopSave, StopRead, StopFlush, StopStatus, CloseLoop,
         Exit, Crash, Deliver, WCheck, WHealth, WAttach, WAttachFails, WFetch,
         WFetchFails, WStopCheck, WTrackFile, WTrackPos, WProcess, WSaveFlush,
         WSchedule, WError, WExit
    <3> QED
      BY <3>1 DEF HandedInv
  <2> QED
    BY <2>1, <2>2, <2>3
<1> QED
  BY <1>1, <1>2, <1>3, <1>4 DEF HandedInv

\* Where no row is handed over and the disk is left alone, a crash repeats no
\* more than before.
LEMMA RepeatedShrinks ==
    ASSUME IsFiniteSet(Handed), Handed' \subseteq Handed, stateFile' = stateFile
    PROVE  /\ Cardinality(Repeated') \in Nat /\ Cardinality(Repeated) \in Nat
           /\ Cardinality(Repeated') <= Cardinality(Repeated)
<1>1. IsFiniteSet(Repeated)
  BY FS_Subset DEF Repeated
<1>2. Repeated' \subseteq Repeated
  BY DEF Repeated
<1> QED
  BY <1>1, <1>2, FS_Subset, FS_CardinalityType

\* The counter of rows, one row later.
LEMMA CountUp ==
    \A n \in Nat, k \in Nat \ {0} :
        n < k => (n + 1) % k = IF n + 1 = k THEN 0 ELSE n + 1
<1> SUFFICES ASSUME NEW n \in Nat, NEW k \in Nat \ {0}, n < k
             PROVE  (n + 1) % k = IF n + 1 = k THEN 0 ELSE n + 1
  OBVIOUS
<1>1. CASE n + 1 = k
  BY <1>1
<1>2. CASE n + 1 < k
  BY <1>2
<1> QED
  BY <1>1, <1>2

\* A row is counted before it is handed over, and a save is due where the count
\* is full.
LEMMA RowCounted ==
    ASSUME IInv, DiskInv, WRow, main = "serving"
    PROVE  /\ Unsaved' = Unsaved /\ wpc' # "saveFlush"
           /\ wpc' = "schedule" => eventsProcessed' # 0
           /\ Handed' = Handed
           /\ UNCHANGED <<stateFile, main, fed>> /\ wpc = "row"
<1>0. TypeInv /\ TypeOK /\ FeedInv /\ ~stopEvent
  BY DEF IInv, TypeInv, DiskInv
<1>1. Handed' = Handed /\ UNCHANGED <<stateFile, main, fed>> /\ wpc = "row"
  BY DEF WRow, NotWorker, shown, loopVars, history, Handed, Queued
<1>2. eventsProcessed \in Nat /\ eventsProcessed < SaveEvery /\ SaveEvery \in Nat \ {0}
  BY <1>0, BoundsAssumption DEF TypeOK
<1>3. CASE EventOver
  <2>1. wpc' = "fetch" /\ eventsProcessed' = eventsProcessed
    BY <1>3 DEF WRow
  <2> QED
    BY <1>1, <2>1 DEF Unsaved
<1>4. CASE ~EventOver
  <2>1. eventsProcessed' = IF eventsProcessed + 1 = SaveEvery THEN 0
                                                           ELSE eventsProcessed + 1
    BY <1>2, <1>4, CountUp DEF WRow
  <2>2. HasCoordinate
    BY <1>0, <1>1, BinlogAssumption, BoundsAssumption
    DEF FeedInv, Synced, TypeInv, EventPlaces, HasCoordinate, Events
  <2>3. wpc' = IF eventsProcessed' = 0 THEN "saveOpen" ELSE "schedule"
    BY <1>4, <2>2 DEF WRow, SaveDue
  <2>4. CASE eventsProcessed + 1 = SaveEvery
    <3>1. wpc' = "saveOpen" /\ eventsProcessed = SaveEvery - 1
      BY <1>2, <2>1, <2>3, <2>4
    <3> QED
      BY <1>1, <3>1 DEF Unsaved
  <2>5. CASE eventsProcessed + 1 # SaveEvery
    <3>1. wpc' = "schedule" /\ eventsProcessed' # 0
          /\ eventsProcessed' - 1 = eventsProcessed
      BY <1>2, <2>1, <2>3, <2>5
    <3> QED
      BY <1>1, <3>1 DEF Unsaved
  <2> QED
    BY <2>4, <2>5
<1> QED
  BY <1>3, <1>4, <1>1

\* A row that is counted is not repeated by a crash: it was not handed over yet.
LEMMA RowReplay ==
    ASSUME IInv, HandedInv, DiskInv, ReplayInv, WRow, ResumeStream, ~DiskMayFail,
           main = "serving"
    PROVE  ReplayInv'
<1>1. Repeated' = Repeated
  BY RowCounted DEF Repeated
<1> QED
  BY <1>1, RowCounted DEF ReplayInv

\* The save brings the disk up to the event in hand: no row of a later one was
\* handed over.
LEMMA SaveReplay ==
    ASSUME IInv, HandedInv, HandedInv', DiskInv, ReplayInv, WSaveOpen \/ WSaveFlush,
           ResumeStream, ~DiskMayFail, main = "serving"
    PROVE  ReplayInv'
<1>0. TypeInv /\ TypeOK /\ FeedInv /\ ~stopEvent
  BY DEF IInv, TypeInv, DiskInv
<1>1. CASE WSaveOpen
  BY <1>1 DEF WSaveOpen, ReplayInv, Unreadable
<1>2. CASE WSaveFlush
  <2>1. /\ fed' = fed /\ wpc' = "schedule" /\ wpc = "saveFlush"
        /\ eventsProcessed' = eventsProcessed
    BY <1>2 DEF WSaveFlush, NoRow, rowVars, history
  <2>2. stateFile'.kind = "saved" => stateFile'.pos = fed
    BY <1>0, <1>2 DEF WSaveFlush, Flushed, Saved, Unreadable, FeedInv, Synced, RowPlaces
  <2>3. eventsProcessed' = 0
    BY <2>1 DEF HandedInv
  <2>4. stateFile'.kind = "saved" => Repeated' = {}
    <3>1. \A r \in Handed' : r[1] <= fed /\ r[1] \in Nat
      <4>1. Handed' \subseteq Rows
        BY TypeNext, <1>2 DEF IInv, TypeInv, TypeOK, Handed, Queued, Next, WorkerNext
      <4>2. \A r \in Rows : r[1] \in Nat
        BY BoundsAssumption DEF Rows, Events
      <4> QED
        BY <2>1, <4>1, <4>2 DEF HandedInv
    <3>2. fed \in Nat
      BY <1>0, BoundsAssumption DEF TypeOK, Positions
    <3> QED
      BY <2>2, <3>1, <3>2 DEF Repeated
  <2>5. fed \in Nat
    BY <1>0, BoundsAssumption DEF TypeOK, Positions
  <2> QED
    BY <2>1, <2>2, <2>3, <2>4, <2>5, FS_EmptySet DEF ReplayInv, Unsaved
<1> QED
  BY <1>1, <1>2

\* A row that was counted is handed over; one that was just saved for is not
\* behind the coordinate.
LEMMA ScheduleReplay ==
    ASSUME IInv, HandInv, HandedInv, DiskInv, ReplayInv, WSchedule, ResumeStream,
           ~DiskMayFail, main = "serving"
    PROVE  ReplayInv'
<1>0. TypeInv /\ TypeOK /\ FeedInv
  BY DEF IInv, TypeInv
<1>1. /\ stateFile' = stateFile /\ wpc = "schedule" /\ wpc' = "row"
      /\ eventsProcessed' = eventsProcessed /\ readPos = fed
  BY DEF WSchedule, LoopOpen, HandInv, LoopPlaces, RowPlaces
<1>2. Handed' \subseteq Handed \cup {<<fed, row>>}
  BY <1>0, <1>1, HandedIs DEF Next, WorkerNext
<1>3. eventsProcessed \in Nat /\ fed \in Nat
      /\ (stateFile.kind = "saved" => stateFile.pos \in Nat)
  BY <1>0, BoundsAssumption DEF TypeOK, Positions, FileContents, Events, Unreadable
<1>4. IsFiniteSet(Repeated) /\ Cardinality(Repeated) \in Nat
  BY FS_Subset, FS_CardinalityType DEF HandedInv, Repeated
<1>5. CASE stateFile.kind = "saved"
  <2>1. CASE eventsProcessed = 0
    <3>1. Repeated' \subseteq Repeated
      BY <1>1, <1>2, <1>3, <1>5, <2>1 DEF Repeated, ReplayInv
    <3>2. Cardinality(Repeated) <= 0 /\ Cardinality(Repeated') <= Cardinality(Repeated)
      BY <1>1, <1>4, <1>5, <2>1, <3>1, FS_Subset DEF ReplayInv, Unsaved
    <3>3. Cardinality(Repeated') \in Nat
      BY <1>4, <3>1, FS_Subset, FS_CardinalityType
    <3> QED
      BY <1>1, <1>3, <1>4, <2>1, <3>2, <3>3 DEF ReplayInv, Unsaved
  <2>2. CASE eventsProcessed # 0
    <3>1. Repeated' \subseteq Repeated \cup {<<fed, row>>}
      BY <1>1, <1>2 DEF Repeated
    <3>2. IsFiniteSet(Repeated \cup {<<fed, row>>})
          /\ Cardinality(Repeated \cup {<<fed, row>>}) \in Nat
          /\ Cardinality(Repeated \cup {<<fed, row>>}) <= Cardinality(Repeated) + 1
      BY <1>4, FS_AddElement
    <3>3. Cardinality(Repeated') <= Cardinality(Repeated \cup {<<fed, row>>})
          /\ Cardinality(Repeated') \in Nat
      BY <3>1, <3>2, FS_Subset, FS_CardinalityType
    <3>4. Cardinality(Repeated) <= eventsProcessed - 1
      BY <1>1, <1>5, <2>2 DEF ReplayInv, Unsaved
    <3> QED
      BY <1>1, <1>3, <1>4, <3>2, <3>3, <3>4 DEF ReplayInv, Unsaved
  <2> QED
    BY <2>1, <2>2
<1>6. CASE stateFile.kind # "saved"
  BY <1>1, <1>6 DEF ReplayInv
<1> QED
  BY <1>5, <1>6

\* All other steps of a serving process leave the disk and the count alone.
LEMMA OtherSteps ==
    ASSUME IInv, [Next]_vars,
           ~(WRow \/ WSaveOpen \/ WSaveFlush \/ WSchedule),
           main = "serving", main' = "serving"
    PROVE  /\ stateFile' = stateFile /\ eventsProcessed' = eventsProcessed
           /\ \/ wpc \notin RowPlaces /\ wpc' \notin RowPlaces
              \/ wpc' = wpc /\ fed' = fed
           /\ Unsaved' = Unsaved /\ Unsaved \in Int /\ Handed' \subseteq Handed
<1>0. TypeInv /\ TypeOK /\ FeedInv
  BY DEF IInv, TypeInv
<1>1. Handed' \subseteq Handed
  BY <1>0, HandedIs
<1>2. /\ stateFile' = stateFile /\ eventsProcessed' = eventsProcessed
      /\ \/ wpc \notin RowPlaces /\ wpc' \notin RowPlaces
         \/ wpc' = wpc /\ fed' = fed
  BY <1>0 DEF Next, MainNext, WorkerNext, vars, replicaVars, coordVars, readerVars,
     rowVars, history, shown, loopVars, workVars, NotWorker, NoRow, StopFrame,
     ProcessGone, RowPlaces,
     Commit, DbDown, DbRecover, Boot, Start, Stop, StopClose, StopNull,
     StopSave, StopRead, StopFlush, StopStatus, CloseLoop, Exit, Crash, Deliver,
     WCheck, WHealth, WAttach, WAttachFails, WFetch, WFetchFails, WStopCheck,
     WTrackFile, WTrackPos, WProcess, WError, WExit
<1>3. Unsaved' = Unsaved
  BY <1>2 DEF Unsaved, RowPlaces
<1>4. Unsaved \in Int
  BY <1>0, BoundsAssumption DEF Unsaved, TypeOK
<1> QED
  BY <1>1, <1>2, <1>3, <1>4

\* A process comes to serve by its start, with nothing handed over.
LEMMA StartsEmpty ==
    ASSUME IInv, HandedInv', [Next]_vars, main # "serving", main' = "serving"
    PROVE  wpc' \in {"loop", "none"} /\ Handed' = {} /\ eventsProcessed' \in Nat
<1>1. Start
  BY DEF Next, MainNext, WorkerNext, vars, replicaVars, coordVars, readerVars,
     rowVars, history, shown, loopVars, workVars, NotWorker, NoRow, StopFrame,
     ProcessGone, Commit, DbDown, DbRecover, Boot, Stop, StopClose, StopNull,
     StopSave, StopRead, StopFlush, StopStatus, CloseLoop, Exit, Crash, Deliver,
     WCheck, WHealth, WAttach, WAttachFails, WFetch, WFetchFails, WStopCheck,
     WTrackFile, WTrackPos, WProcess, WRow, WSaveOpen, WSaveFlush, WSchedule,
     WError, WExit
<1>2. fed' = 0 /\ wpc' \in {"loop", "none"}
  BY <1>1 DEF Start, IInv, TypeInv, history
<1>3. eventsProcessed' \in Nat
  BY TypeNext, BoundsAssumption DEF IInv, TypeInv, TypeOK
<1> QED
  BY <1>2, <1>3 DEF HandedInv

\* They leave what a crash repeats at most as it is.
LEMMA OtherReplay ==
    ASSUME IInv, HandedInv, ReplayInv, [Next]_vars,
           ~(WRow \/ WSaveOpen \/ WSaveFlush \/ WSchedule),
           ResumeStream, ~DiskMayFail, main = "serving", main' = "serving"
    PROVE  ReplayInv'
<1>1. /\ Cardinality(Repeated') <= Cardinality(Repeated)
      /\ Cardinality(Repeated') \in Nat /\ Cardinality(Repeated) \in Nat
  BY OtherSteps, RepeatedShrinks DEF HandedInv
<1>2. wpc' \in RowPlaces => wpc' = wpc /\ fed' = fed
  BY OtherSteps
<1>3. stateFile'.kind = "saved" => Cardinality(Repeated') <= Unsaved'
  BY <1>1, OtherSteps DEF ReplayInv
<1>4. eventsProcessed' = eventsProcessed /\ stateFile' = stateFile
  BY OtherSteps
<1> QED
  BY <1>2, <1>3, <1>4 DEF ReplayInv, RowPlaces

\* Every step keeps the relation of the disk to the rows handed over.
LEMMA ReplayNext ==
    ASSUME IInv, HandInv, HandedInv, DiskInv, ReplayInv, [Next]_vars
    PROVE  ReplayInv'
<1>0. HandedInv' /\ TypeOK /\ TypeOK'
  BY HandedNext, TypeNext DEF IInv, TypeInv
<1> SUFFICES ASSUME ResumeStream, ~DiskMayFail, main' = "serving" PROVE ReplayInv'
  BY DEF ReplayInv
<1>1. CASE main = "serving"
  <2>1. CASE WRow
    BY <1>1, <2>1, RowReplay
  <2>2. CASE WSaveOpen \/ WSaveFlush
    BY <1>0, <1>1, <2>2, SaveReplay
  <2>3. CASE WSchedule
    BY <1>1, <2>3, ScheduleReplay
  <2> QED
    BY <1>1, <2>1, <2>2, <2>3, OtherReplay
<1>2. CASE main # "serving"
  <2>1. Repeated' = {}
    BY <1>0, <1>2, StartsEmpty DEF Repeated
  <2> QED
    BY <1>0, <1>2, <2>1, StartsEmpty, FS_EmptySet DEF ReplayInv, Unsaved
<1> QED
  BY <1>1, <1>2

\* With CDC_RESUME_STREAM and a disk that takes what is written, a crash while
\* the process serves makes the next life repeat fewer than SaveEvery rows of
\* events behind the coordinate on disk.  Where a write may fail the bound does
\* not hold: the coordinate of an earlier save stays.
THEOREM ReplayIsBounded == ~DiskMayFail /\ Spec => []ReplayBound
<1> SUFFICES ASSUME ~DiskMayFail PROVE Spec => []ReplayBound
  OBVIOUS
<1>1. IInv /\ DiskInv /\ [Next]_vars => DiskInv'
  BY DiskNext
<1>2. IInv /\ HandInv /\ [Next]_vars => HandInv'
  BY HandNext
<1>3. IInv /\ HandInv /\ HandedInv /\ [Next]_vars => HandedInv'
  BY HandedNext
<1>4. IInv /\ HandInv /\ HandedInv /\ DiskInv /\ ReplayInv /\ [Next]_vars => ReplayInv'
  BY ReplayNext
<1>5. IInv /\ HandedInv /\ ReplayInv => ReplayBound
  <2> SUFFICES ASSUME IInv, HandedInv, ReplayInv, ResumeStream, main = "serving",
                      stateFile.kind = "saved"
               PROVE  Cardinality(Repeated) < SaveEvery
    BY DEF ReplayBound, Repeated, Handed
  <2>1. Cardinality(Repeated) <= Unsaved
    BY DEF ReplayInv
  <2>2. Unsaved \in Int /\ Unsaved < SaveEvery /\ SaveEvery \in Nat
    BY BoundsAssumption DEF Unsaved, IInv, TypeInv, TypeOK
  <2>3. Cardinality(Repeated) \in Nat
    BY FS_Subset, FS_CardinalityType DEF HandedInv, Repeated
  <2> QED
    BY <2>1, <2>2, <2>3
<1> QED
  BY <1>1, <1>2, <1>3, <1>4, <1>5, DiskInit, HandInit, HandedInit, Invariance, PTL
  DEF Spec

\* With a disk that takes what is written, a life that has no coordinate of an
\* event on disk is in a save, or has handed over no more rows than it has
\* counted since it started.
SaveInv ==
    ResumeStream /\ ~DiskMayFail /\ main = "serving" =>
        /\ wpc = "saveFlush" => stateFile.kind = "empty"
        /\ wpc = "schedule" /\ eventsProcessed = 0 => OnDisk
        /\ OnDisk \/ wpc = "saveFlush" \/ Cardinality(Handed) <= Unsaved

\* The flush of a save puts the coordinate of the event in hand on disk.
LEMMA FlushSaves ==
    ASSUME IInv, DiskInv, SaveInv, WSaveFlush, ResumeStream, ~DiskMayFail,
           main = "serving"
    PROVE  OnDisk'
<1>1. stateFile' = Saved(lastFile, lastPos)
  BY DEF WSaveFlush, SaveInv, Flushed
<1>2. lastPos = fed /\ lastFile = FileOf[fed] /\ fed \in Events
  <2>1. fed # 0 /\ Synced
    BY DEF IInv, FeedInv, DiskInv, WSaveFlush, RowPlaces
  <2> QED
    BY <2>1, BoundsAssumption DEF IInv, TypeInv, TypeOK, Synced, Positions, Events
<1> QED
  BY <1>1, <1>2 DEF Saved, OnDisk, IsReal

\* A row that was counted is handed over, unless it was just saved for.
LEMMA ScheduleSaves ==
    ASSUME IInv, HandedInv, SaveInv, WSchedule, ResumeStream, ~DiskMayFail,
           main = "serving"
    PROVE  SaveInv'
<1>1. /\ stateFile' = stateFile /\ wpc = "schedule" /\ wpc' = "row"
      /\ eventsProcessed' = eventsProcessed
  BY DEF WSchedule, LoopOpen
<1>2. Handed' \subseteq Handed \cup {<<readPos, row>>}
  BY <1>1, HandedIs DEF IInv, TypeInv, Next, WorkerNext
<1>3. /\ IsFiniteSet(Handed \cup {<<readPos, row>>})
      /\ Cardinality(Handed \cup {<<readPos, row>>}) <= Cardinality(Handed) + 1
      /\ Cardinality(Handed) \in Nat
      /\ Cardinality(Handed \cup {<<readPos, row>>}) \in Nat
  BY FS_AddElement, FS_CardinalityType DEF HandedInv
<1>4. Cardinality(Handed') <= Cardinality(Handed \cup {<<readPos, row>>})
      /\ Cardinality(Handed') \in Nat
  BY <1>2, <1>3, FS_Subset, FS_CardinalityType
<1>5. eventsProcessed \in Nat
  BY BoundsAssumption DEF IInv, TypeInv, TypeOK
<1>6. OnDisk' \/ Cardinality(Handed') <= Unsaved'
  BY <1>1, <1>3, <1>4, <1>5 DEF SaveInv, Unsaved, OnDisk
<1> QED
  BY <1>1, <1>6 DEF SaveInv

\* Every step keeps what was handed over without a save below the count.
LEMMA SaveNext ==
    ASSUME IInv, HandInv, HandedInv, DiskInv, SaveInv, [Next]_vars
    PROVE  SaveInv'
<1> SUFFICES ASSUME ResumeStream, ~DiskMayFail, main' = "serving" PROVE SaveInv'
  BY DEF SaveInv
<1>1. HandedInv'
  BY HandedNext
<1>2. CASE main # "serving"
  BY <1>1, <1>2, StartsEmpty, FS_EmptySet DEF SaveInv, Unsaved
<1>3. CASE main = "serving" /\ WRow
  BY <1>3, RowCounted DEF SaveInv, OnDisk
<1>4. CASE main = "serving" /\ WSaveOpen
  BY <1>4 DEF WSaveOpen, SaveInv, Unreadable
<1>5. CASE main = "serving" /\ WSaveFlush
  BY <1>5, FlushSaves DEF WSaveFlush, SaveInv
<1>6. CASE main = "serving" /\ WSchedule
  BY <1>6, ScheduleSaves
<1>7. CASE main = "serving" /\ ~(WRow \/ WSaveOpen \/ WSaveFlush \/ WSchedule)
  <2>1. Cardinality(Handed') <= Cardinality(Handed)
        /\ Cardinality(Handed') \in Nat /\ Cardinality(Handed) \in Nat
    BY <1>7, OtherSteps, FS_Subset, FS_CardinalityType DEF HandedInv
  <2>2. wpc' \in RowPlaces => wpc' = wpc
    BY <1>7, OtherSteps
  <2>3. wpc \in RowPlaces => wpc' = wpc
    BY <1>7, OtherSteps
  <2>4. stateFile' = stateFile /\ eventsProcessed' = eventsProcessed
        /\ Unsaved' = Unsaved /\ Unsaved \in Int
    BY <1>7, OtherSteps
  <2>5. OnDisk' = OnDisk
    BY <2>4 DEF OnDisk
  <2>6. OnDisk' \/ wpc' = "saveFlush" \/ Cardinality(Handed') <= Unsaved'
    BY <1>7, <2>1, <2>3, <2>4, <2>5 DEF SaveInv, RowPlaces
  <2> QED
    BY <1>7, <2>2, <2>4, <2>5, <2>6 DEF SaveInv, RowPlaces
<1> QED
  BY <1>2, <1>3, <1>4, <1>5, <1>6, <1>7

\* With CDC_RESUME_STREAM and a disk that takes what is written, a process that
\* has handed over a save interval of rows has a coordinate on disk, but for the
\* window of a save, and a crash makes the next life skip no event.  Where a
\* write may fail it may leave no coordinate, and the next life skips.
THEOREM SavedInTime == ~DiskMayFail /\ Spec => []RestartSkipsNone
<1> SUFFICES ASSUME ~DiskMayFail PROVE Spec => []RestartSkipsNone
  OBVIOUS
<1>1. IInv /\ DiskInv /\ [Next]_vars => DiskInv'
  BY DiskNext
<1>2. IInv /\ HandInv /\ [Next]_vars => HandInv'
  BY HandNext
<1>3. IInv /\ HandInv /\ HandedInv /\ [Next]_vars => HandedInv'
  BY HandedNext
<1>4. IInv /\ HandInv /\ HandedInv /\ DiskInv /\ SaveInv /\ [Next]_vars => SaveInv'
  BY SaveNext
<1>5. Init => SaveInv
  BY DEF Init, SaveInv
<1>6. IInv /\ DiskInv /\ HandedInv /\ SaveInv => RestartSkipsNone
  <2> SUFFICES ASSUME IInv, DiskInv, HandedInv, SaveInv, ResumeStream,
                      main = "serving", fed # 0, wpc # "saveFlush",
                      OnDisk \/ Cardinality(Handed) >= SaveEvery,
                      NEW q \in StartPositions(stateFile.file, stateFile.pos)
               PROVE  q <= fed
    BY DEF RestartSkipsNone, Handed
  <2>1. OnDisk
    <3>1. Unsaved \in Int /\ Unsaved < SaveEvery /\ SaveEvery \in Nat
      BY BoundsAssumption DEF Unsaved, IInv, TypeInv, TypeOK
    <3>2. Cardinality(Handed) \in Nat
      BY FS_CardinalityType DEF HandedInv
    <3> QED
      BY <3>1, <3>2 DEF SaveInv
  <2>2. q = stateFile.pos
    BY <2>1, AttachToReal DEF IInv, TypeInv
  <2> QED
    BY <2>1, <2>2 DEF DiskInv
<1> QED
  BY <1>1, <1>2, <1>3, <1>4, <1>5, <1>6, DiskInit, HandInit, HandedInit, Invariance,
     PTL DEF Spec
=============================================================================
