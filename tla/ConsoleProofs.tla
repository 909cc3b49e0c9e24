---------------------------- MODULE ConsoleProofs ----------------------------
(***************************************************************************)
(* Proofs about Console, and with it about ActivityLog, for any processes,  *)
(* accounts, operations, cap and page size.                                 *)
(*                                                                         *)
(* The first part is about ActivityLog alone: every log and the file are in *)
(* order, a full log has dropped only its oldest entries, and reading page  *)
(* by page skips nothing that is still there.  The second shows that the    *)
(* handlers of the console keep to both stores (StoreIsKept, LogIsKept), so *)
(* that what holds of each holds of the whole server; the third is about    *)
(* what joins them: no entry is ahead of its change (NoEntryIsAhead), and   *)
(* no change goes untold (NoChangeIsUntold).                                *)
(***************************************************************************)
EXTENDS Console, TLAPS

\* The store of the console, with the theorems about it.
Accounts == INSTANCE UserStoreProofs

Sorted(list) == \A i, j \in DOMAIN list : i < j => list[i].number > list[j].number
Upto(list, n) == \A i \in DOMAIN list : list[i].number <= n

\* What KeepsNewest says of one log and what was held.
Keeps(list, all) ==
    /\ Log!Members(list) \subseteq all
    /\ \A e \in all \ Log!Members(list) :
          Len(list) = MaxLog /\ \A i \in DOMAIN list : list[i].number > e.number

\* Up to the offset of query q every entry it wants of the list was shown to it.
Paged(list, q) ==
    \A i \in DOMAIN list :
        i <= q.offset /\ list[i] \in q.wanted => list[i] \in q.shown

Queries(some) ==
    [from : some \cup {Log!Nobody}, offset : Nat, wanted : SUBSET Log!Entries,
     shown : SUBSET Log!Entries]

LogsInv == \A w \in Workers : Sorted(log[w]) /\ Upto(log[w], made)
LogFileInv == Sorted(logFile.list) /\ Upto(logFile.list, made)
HeldInv ==
    \A w \in up : Keeps(log[w], held[w]) /\ \A e \in held[w] : e.number <= made
PageInv ==
    /\ \A e \in reader.wanted : e.number <= made
    /\ reader.from # Log!Nobody => Paged(log[reader.from], reader)

LogInv == Log!TypeOK /\ LogsInv /\ LogFileInv /\ HeldInv /\ PageInv

USE DEF Queries

----------------------------------------------------------------------------
(* Facts about lists of entries.                                            *)

\* The positions of a log and the numbers of its entries are numbers.
LEMMA LogIs ==
  ASSUME NEW list, Log!IsLog(list)
  PROVE  /\ Len(list) \in Nat /\ DOMAIN list = 1 .. Len(list)
         /\ \A i \in DOMAIN list : list[i] \in Log!Entries /\ list[i].number \in Nat
<1>1. list \in Seq(Log!Entries)
  BY DEF Log!IsLog
<1>2. Len(list) \in Nat /\ DOMAIN list = 1 .. Len(list)
  BY <1>1
<1>3. \A i \in 1 .. Len(list) : list[i] \in Log!Entries
  BY <1>1
<1>4. \A e \in Log!Entries : e.number \in Nat
  BY DEF Log!Entries
<1> QED
  BY <1>2, <1>3, <1>4

\* An entry is added in front; only the last of a full list goes.
LEMMA AddedIs ==
  ASSUME Log!LogAssumption, NEW list, Log!IsLog(list), NEW e \in Log!Entries
  PROVE  /\ Log!IsLog(Log!Added(e, list)) /\ Len(Log!Added(e, list)) >= 1
         /\ Len(Log!Added(e, list)) =
              IF Len(list) = MaxLog THEN MaxLog ELSE Len(list) + 1
         /\ Log!Added(e, list)[1] = e
         /\ \A i \in DOMAIN Log!Added(e, list) : i # 1 =>
               i - 1 \in DOMAIN list /\ Log!Added(e, list)[i] = list[i - 1]
<1> DEFINE all == <<e>> \o list
<1>1. list \in Seq(Log!Entries) /\ Len(list) \in Nat 
      /\ Len(list) <= MaxLog /\ MaxLog \in Nat \ {0}
  BY DEF Log!IsLog, Log!LogAssumption
<1>2. all \in Seq(Log!Entries) /\ Len(all) = Len(list) + 1 /\ all[1] = e
      /\ \A i \in 2 .. Len(all) : all[i] = list[i - 1]
  BY <1>1
<1>3. CASE Len(all) > MaxLog
  <2>1. Log!Added(e, list) = SubSeq(all, 1, MaxLog) /\ Len(list) = MaxLog
    BY <1>1, <1>2, <1>3 DEF Log!Added
  <2>2. /\ SubSeq(all, 1, MaxLog) \in Seq(Log!Entries)
        /\ Len(SubSeq(all, 1, MaxLog)) = MaxLog
        /\ \A i \in 1 .. MaxLog : SubSeq(all, 1, MaxLog)[i] = all[i]
    BY <1>1, <1>2, <2>1
  <2> HIDE DEF all
  <2> QED
    BY <1>1, <1>2, <2>1, <2>2 DEF Log!IsLog
<1>4. CASE Len(all) <= MaxLog
  <2>1. Log!Added(e, list) = all /\ Len(list) # MaxLog
    BY <1>1, <1>2, <1>4 DEF Log!Added
  <2> HIDE DEF all
  <2> QED
    BY <1>1, <1>2, <1>4, <2>1 DEF Log!IsLog
<1> QED
  BY <1>1, <1>2, <1>3, <1>4

\* A new entry keeps a list in order.
LEMMA AddedSorted ==
  ASSUME Log!LogAssumption, NEW list, Log!IsLog(list), NEW e \in Log!Entries,
         NEW n \in Nat,
         Sorted(list), Upto(list, n), e.number = n + 1
  PROVE  Sorted(Log!Added(e, list)) /\ Upto(Log!Added(e, list), n + 1)
<1> DEFINE new == Log!Added(e, list)
<1>1. DOMAIN list = 1 .. Len(list) /\ \A i \in DOMAIN list : list[i].number \in Nat
  BY LogIs
<1>2. /\ Log!IsLog(new) /\ new[1] = e
      /\ \A i \in DOMAIN new : i # 1 => i - 1 \in DOMAIN list /\ new[i] = list[i - 1]
  BY AddedIs
<1> HIDE DEF new
<1>3. Len(new) \in Nat /\ DOMAIN new = 1 .. Len(new)
  BY <1>2, LogIs
<1>4. Upto(new, n + 1)
  BY <1>1, <1>2, <1>3 DEF Upto
<1>5. ASSUME NEW i \in DOMAIN new, NEW j \in DOMAIN new, i < j
      PROVE  new[i].number > new[j].number
  <2>1. j # 1 /\ j - 1 \in DOMAIN list /\ new[j] = list[j - 1]
    BY <1>2, <1>3, <1>5
  <2>2. CASE i = 1
    BY <2>1, <2>2, <1>1, <1>2 DEF Upto
  <2>3. CASE i # 1
    <3>1. i - 1 \in DOMAIN list /\ new[i] = list[i - 1]
      BY <1>2, <2>3
    <3>2. i \in Nat /\ j \in Nat /\ i - 1 < j - 1
      BY <1>3, <1>5
    <3> QED
      BY <2>1, <3>1, <3>2 DEF Sorted
  <2> QED
    BY <2>2, <2>3
<1> QED
  BY <1>4, <1>5 DEF Sorted, new

\* What a new entry pushes out of a full list is older than all that stays.
LEMMA AddedKeeps ==
  ASSUME Log!LogAssumption, NEW list, Log!IsLog(list), NEW e \in Log!Entries,
         NEW n \in Nat,
         Sorted(list), Upto(list, n), e.number = n + 1, NEW all \in SUBSET Log!Entries,
         Keeps(list, all), \A x \in all : x.number <= n
  PROVE  Keeps(Log!Added(e, list), all \cup {e})
<1> DEFINE new == Log!Added(e, list)
<1>0. Len(list) \in Nat /\ DOMAIN list = 1 .. Len(list) /\ MaxLog \in Nat \ {0}
      /\ \A i \in DOMAIN list : list[i].number \in Nat
  BY LogIs DEF Log!LogAssumption
<1>1. /\ Log!IsLog(new) /\ Len(new) >= 1 /\ new[1] = e
      /\ Len(new) = IF Len(list) = MaxLog THEN MaxLog ELSE Len(list) + 1
      /\ \A i \in DOMAIN new : i # 1 => i - 1 \in DOMAIN list /\ new[i] = list[i - 1]
  BY AddedIs
<1> HIDE DEF new
<1>2. Len(new) \in Nat /\ DOMAIN new = 1 .. Len(new)
  BY <1>1, LogIs
<1>3. Log!Members(new) \subseteq all \cup {e}
  BY <1>1 DEF Log!Members, Keeps
<1>4. ASSUME NEW x \in (all \cup {e}) \ Log!Members(new)
      PROVE  Len(new) = MaxLog /\ \A i \in DOMAIN new : new[i].number > x.number
  <2>1. e \in Log!Members(new)
    BY <1>1, <1>2 DEF Log!Members
  <2>2. x \in all /\ x.number \in Nat /\ x.number <= n
    BY <2>1 DEF Log!Entries
  <2>3. CASE x \in Log!Members(list)
    <3>1. PICK k \in DOMAIN list : x = list[k]
      BY <2>3 DEF Log!Members
    <3>2. k + 1 \notin DOMAIN new
      <4>1. SUFFICES ASSUME k + 1 \in DOMAIN new PROVE FALSE
        OBVIOUS
      <4>2. k \in Nat /\ k # 0 /\ k + 1 # 1 /\ (k + 1) - 1 = k
        BY <3>1, <1>0
      <4>3. new[k + 1] = x
        BY <4>1, <4>2, <3>1, <1>1
      <4> QED
        BY <4>1, <4>3 DEF Log!Members
    <3>3. Len(list) = MaxLog /\ k = MaxLog
      <4>1. k \in Nat /\ 1 <= k /\ k <= Len(list) 
            /\ Len(list) \in Nat /\ MaxLog \in Nat
        BY <3>1, <1>0
      <4>2. ~(k + 1 <= Len(new))
        BY <3>2, <4>1, <1>2
      <4>3. Len(new) = IF Len(list) = MaxLog THEN MaxLog ELSE Len(list) + 1
        BY <1>1
      <4> QED
        BY <4>1, <4>2, <4>3
    <3>4. \A i \in DOMAIN new : i # 1 => new[i].number > x.number
      BY <3>1, <3>3, <1>0, <1>1, <1>2 DEF Sorted
    <3> QED
      BY <3>3, <3>4, <2>2, <1>1, <1>2
  <2>4. CASE x \notin Log!Members(list)
    <3>1. Len(list) = MaxLog /\ \A i \in DOMAIN list : list[i].number > x.number
      BY <2>2, <2>4 DEF Keeps
    <3>2. Len(new) = MaxLog
      BY <3>1, <1>1
    <3>3. \A i \in DOMAIN new : i # 1 => new[i].number > x.number
      BY <3>1, <1>1
    <3>4. new[1].number > x.number
      BY <2>2, <1>1
    <3> QED
      BY <3>2, <3>3, <3>4
  <2> QED
    BY <2>3, <2>4
<1> QED
  BY <1>3, <1>4 DEF Keeps, new

\* Entries move towards the end only, so a page that was read stays read.
LEMMA AddedPaged ==
  ASSUME Log!LogAssumption, NEW list, Log!IsLog(list), NEW e \in Log!Entries, NEW q,
         q.offset \in Nat, Paged(list, q), e \notin q.wanted
  PROVE  Paged(Log!Added(e, list), q)
<1> DEFINE new == Log!Added(e, list)
<1>1. /\ Log!IsLog(new) /\ new[1] = e
      /\ \A i \in DOMAIN new : i # 1 => i - 1 \in DOMAIN list /\ new[i] = list[i - 1]
  BY AddedIs
<1> HIDE DEF new
<1>2. DOMAIN new = 1 .. Len(new) /\ Len(new) \in Nat
  BY <1>1, LogIs
<1>3. ASSUME NEW i \in DOMAIN new, i <= q.offset, new[i] \in q.wanted
      PROVE  new[i] \in q.shown
  <2>1. i # 1
    BY <1>1, <1>3
  <2>2. i - 1 \in DOMAIN list /\ new[i] = list[i - 1] /\ i - 1 <= q.offset
    BY <1>1, <1>2, <1>3, <2>1
  <2> QED
    BY <1>3, <2>2 DEF Paged
<1> QED
  BY <1>3 DEF Paged, new

\* A list of no entries.
LEMMA EmptyLog ==
  ASSUME Log!LogAssumption
  PROVE  Log!IsLog(<<>>) /\ Sorted(<<>>) /\ \A n : Upto(<<>>, n)
<1>1. <<>> \in Seq(Log!Entries) /\ Len(<<>>) = 0 /\ DOMAIN <<>> = {}
  OBVIOUS
<1> QED
  BY <1>1 DEF Log!IsLog, Sorted, Upto, Log!LogAssumption

\* A list of one entry.
LEMMA SingleEntry ==
  ASSUME Log!LogAssumption, NEW e \in Log!Entries
  PROVE  /\ Log!IsLog(<<e>>) /\ Sorted(<<e>>) /\ Upto(<<e>>, e.number)
         /\ Keeps(<<e>>, {e})
         /\ \A q : e \notin q.wanted => Paged(<<e>>, q)
<1>1. MaxLog >= 1 /\ e.number \in Nat
  BY DEF Log!LogAssumption, Log!Entries
<1>2. <<e>> \in Seq(Log!Entries) /\ Len(<<e>>) = 1 
      /\ DOMAIN <<e>> = {1} /\ <<e>>[1] = e
  OBVIOUS
<1>3. Log!Members(<<e>>) = {e}
  BY <1>2 DEF Log!Members
<1>4. Log!IsLog(<<e>>) /\ Sorted(<<e>>) /\ Upto(<<e>>, e.number)
  BY <1>1, <1>2 DEF Log!IsLog, Sorted, Upto
<1>5. Keeps(<<e>>, {e})
  BY <1>3 DEF Keeps
<1>6. \A q : e \notin q.wanted => Paged(<<e>>, q)
  BY <1>2 DEF Paged
<1> QED
  BY <1>4, <1>5, <1>6

\* A bound on numbers may be raised.
LEMMA UptoMore ==
  ASSUME NEW list, Log!IsLog(list), NEW n \in Nat, Upto(list, n), NEW m \in Nat, n <= m
  PROVE  Upto(list, m)
<1>1. \A i \in DOMAIN list : list[i].number \in Nat
  BY LogIs
<1> QED
  BY <1>1 DEF Upto

----------------------------------------------------------------------------
(* The invariant.                                                           *)

\* No process runs, and there is no file.
LEMMA LogInit == Log!LogAssumption /\ Log!Init => LogInv
<1> SUFFICES ASSUME Log!LogAssumption, Log!Init PROVE LogInv
  OBVIOUS
<1> USE DEF Log!Init
<1>2. Log!IsLog(<<>>) /\ Sorted(<<>>) /\ \A n : Upto(<<>>, n)
  BY EmptyLog
<1>3. logFile.list = <<>> /\ logFile.kind = "none"
  BY DEF Log!NoFile
<1>4. reader.from = Log!Nobody /\ reader.wanted = {} /\ reader.shown = {}
      /\ reader \in Queries({})
  BY DEF Log!NoQuery
<1>5. Log!TypeOK
  BY <1>2, <1>3, <1>4 DEF Log!TypeOK
<1>6. LogsInv /\ LogFileInv
  BY <1>2, <1>3 DEF LogsInv, LogFileInv
<1>7. HeldInv /\ PageInv
  BY <1>4 DEF HeldInv, PageInv
<1> QED
  BY <1>5, <1>6, <1>7 DEF LogInv

\* A change of the log of w to a list in order that keeps what w holds.
LEMMA LogChange ==
  ASSUME Log!LogAssumption, LogInv, NEW w \in up, NEW list,
         NEW all \in SUBSET Log!Entries,
         Log!IsLog(list), Sorted(list), Upto(list, made + 1), Keeps(list, all),
         \A x \in all : x.number <= made + 1,
         reader.from = w /\ w # Log!Nobody => Paged(list, reader),
         made' = made + 1, Log!Changed(w, list), held' = [held EXCEPT ![w] = all],
         up' = up, reader' = reader, logWriting \subseteq up
  PROVE  LogInv'
<1>0. w \in Workers /\ made \in Nat /\ made + 1 \in Nat /\ made <= made + 1
  BY DEF LogInv, Log!TypeOK
<1>1. /\ DOMAIN log' = Workers /\ log'[w] = list
      /\ \A v \in Workers : v # w => log'[v] = log[v]
      /\ \A v \in Workers : Log!IsLog(log[v])
  BY <1>0 DEF LogInv, Log!TypeOK, Log!Changed
<1>2. /\ logFile' = Log!Unreadable \/ logFile' = logFile
      /\ \/ /\ logWriting' = logWriting \cup {w}
            /\ logCrossed' \in {{}, logWriting'}
         \/ logWriting' = logWriting /\ logCrossed' = logCrossed
  BY DEF Log!Changed, Log!logSaving
<1>3. /\ held' \in [Workers -> SUBSET Log!Entries] /\ held'[w] = all
      /\ \A v \in Workers : v # w => held'[v] = held[v]
  BY <1>0 DEF LogInv, Log!TypeOK
<1>4. Log!IsLog(logFile'.list) /\ Sorted(logFile'.list) /\ Upto(logFile'.list, made')
      /\ logFile'.kind \in {"none", "saved", "unreadable"}
  <2>1. CASE logFile' = logFile
    <3>1. Log!IsLog(logFile.list) /\ Sorted(logFile.list) /\ Upto(logFile.list, made)
          /\ logFile.kind \in {"none", "saved", "unreadable"}
      BY DEF LogInv, Log!TypeOK, LogFileInv
    <3> QED
      BY <2>1, <3>1, <1>0, UptoMore
  <2>2. CASE logFile' = Log!Unreadable
    BY <2>2, EmptyLog DEF Log!Unreadable
  <2> QED
    BY <2>1, <2>2, <1>2
<1>5. Log!TypeOK'
  <2>1. up' \subseteq Workers /\ logCrossed' \subseteq logWriting' /\ logWriting' \subseteq up'
    BY <1>2 DEF LogInv, Log!TypeOK
  <2>2. \A v \in Workers : Log!IsLog(log'[v])
    BY <1>1
  <2>3. reader' \in Queries(up')
    BY DEF LogInv, Log!TypeOK
  <2> QED
    BY <1>0, <1>1, <1>3, <1>4, <2>1, <2>2, <2>3 DEF Log!TypeOK
<1>6. LogsInv'
  <2>1. \A v \in Workers : Sorted(log'[v]) /\ Upto(log'[v], made')
    BY <1>0, <1>1, UptoMore DEF LogInv, LogsInv
  <2> QED
    BY <2>1 DEF LogsInv
<1>7. HeldInv'
  <2>1. \A v \in up : v # w => Keeps(log'[v], held'[v])
                               /\ \A x \in held'[v] : x.number <= made
    BY <1>1, <1>3 DEF LogInv, HeldInv, Log!TypeOK
  <2>2. \A x \in Log!Entries : x.number \in Nat
    BY DEF Log!Entries
  <2>3. \A v \in up : \A x \in held'[v] : x \in Log!Entries
    BY <1>3 DEF LogInv, Log!TypeOK
  <2>4. \A v \in up' : Keeps(log'[v], held'[v]) /\ \A x \in held'[v] : x.number <= made'
    BY <1>0, <1>1, <1>3, <2>1, <2>2, <2>3
  <2> QED
    BY <2>4 DEF HeldInv
<1>8. PageInv'
  <2>1. \A x \in reader.wanted : x.number <= made /\ x.number \in Nat
    BY DEF LogInv, PageInv, Log!TypeOK, Log!Entries
  <2>2. reader.from # Log!Nobody => Paged(log'[reader.from], reader)
    BY <1>1 DEF LogInv, PageInv, Log!TypeOK
  <2>3. \A x \in reader'.wanted : x.number <= made'
    BY <2>1, <1>0
  <2>4. reader'.from # Log!Nobody => Paged(log'[reader'.from], reader')
    BY <2>2
  <2> QED
    BY <2>3, <2>4 DEF PageInv
<1> QED
  BY <1>4, <1>5, <1>6, <1>7, <1>8 DEF LogInv, LogFileInv

LEMMA LogRecord ==
  ASSUME Log!LogAssumption, LogInv, NEW w \in Workers, NEW s \in {None} \cup Changes,
         Log!Record(w, s)
  PROVE  LogInv'
<1> DEFINE e == Log!New(s)
<1>1. e \in Log!Entries /\ e.number = made + 1 /\ made \in Nat
  BY DEF LogInv, Log!TypeOK, Log!Entries, Log!New
<1>2. w \in up /\ Log!IsLog(log[w]) /\ Sorted(log[w]) /\ Upto(log[w], made)
      /\ Keeps(log[w], held[w]) /\ held[w] \in SUBSET Log!Entries
      /\ \A x \in held[w] : x.number <= made
  BY DEF LogInv, Log!TypeOK, LogsInv, HeldInv, Log!Record, Log!Serves
<1>3. /\ made' = made + 1 /\ Log!Changed(w, Log!Added(e, log[w]))
      /\ held' = [held EXCEPT ![w] = held[w] \cup {e}]
      /\ up' = up /\ reader' = reader /\ logWriting \subseteq up
  BY DEF Log!Record, Log!Made, LogInv, Log!TypeOK
<1>4. e \notin reader.wanted /\ reader.offset \in Nat
      /\ (reader.from = w /\ w # Log!Nobody => Paged(log[w], reader))
  <2>1. \A x \in reader.wanted : x.number <= made
    BY DEF LogInv, PageInv
  <2>2. reader.offset \in Nat
    BY DEF LogInv, Log!TypeOK
  <2>3. reader.from = w /\ w # Log!Nobody => Paged(log[w], reader)
    BY DEF LogInv, PageInv
  <2> QED
    BY <1>1, <2>1, <2>2, <2>3
<1> HIDE DEF e
<1>5. Log!IsLog(Log!Added(e, log[w])) /\ Sorted(Log!Added(e, log[w])) 
      /\ Upto(Log!Added(e, log[w]), made + 1)
  BY <1>1, <1>2, AddedIs, AddedSorted
<1>6. Keeps(Log!Added(e, log[w]), held[w] \cup {e})
  BY <1>1, <1>2, AddedKeeps
<1>7. reader.from = w /\ w # Log!Nobody => Paged(Log!Added(e, log[w]), reader)
  BY <1>1, <1>2, <1>4, AddedPaged
<1>8. \A x \in held[w] \cup {e} : x.number <= made + 1
  <2>1. \A x \in held[w] : x.number \in Nat
    BY <1>2 DEF Log!Entries
  <2> QED
    BY <1>1, <1>2, <2>1
<1>9. held[w] \cup {e} \in SUBSET Log!Entries
  BY <1>1, <1>2
<1> QED
  BY <1>2, <1>3, <1>5, <1>6, <1>7, <1>8, <1>9, LogChange

LEMMA LogClear ==
  ASSUME Log!LogAssumption, LogInv, NEW w \in Workers, Log!Clear(w)
  PROVE  LogInv'
<1> DEFINE e == Log!New(None)
<1>1. e \in Log!Entries /\ e.number = made + 1 /\ made \in Nat
  BY DEF LogInv, Log!TypeOK, Log!Entries, Log!New, Log!LogAssumption
<1>2. w \in up /\ made' = made + 1 /\ Log!Changed(w, <<e>>)
      /\ held' = [held EXCEPT ![w] = {e}]
      /\ up' = up /\ reader' = reader /\ logWriting \subseteq up
  BY DEF Log!Clear, Log!Serves, Log!Made, LogInv, Log!TypeOK
<1>3. e \notin reader.wanted
  <2>1. \A x \in reader.wanted : x.number <= made
    BY DEF LogInv, PageInv
  <2> QED
    BY <1>1, <2>1
<1> HIDE DEF e
<1>4. Log!IsLog(<<e>>) /\ Sorted(<<e>>) /\ Upto(<<e>>, made + 1) /\ Keeps(<<e>>, {e})
      /\ Paged(<<e>>, reader)
  BY <1>1, <1>3, SingleEntry
<1>5. {e} \in SUBSET Log!Entries /\ \A x \in {e} : x.number <= made + 1
  BY <1>1
<1> QED
  BY <1>2, <1>4, <1>5, LogChange

\* The file is written from the log of a process, or torn.
LEMMA LogFlush ==
  ASSUME Log!LogAssumption, LogInv, NEW w \in Workers, Log!Flush(w)
  PROVE  LogInv'
<1>1. up' = up /\ log' = log /\ made' = made /\ reader' = reader /\ held' = held
      /\ logWriting' = logWriting \ {w} /\ logCrossed' = logCrossed \ {w}
      /\ (logFile' = Log!Contents(log[w]) \/ logFile' = Log!Unreadable)
  BY DEF Log!Flush
<1>2. Log!IsLog(log[w]) /\ Sorted(log[w]) /\ Upto(log[w], made)
  BY DEF LogInv, Log!TypeOK, LogsInv
<1>3. Log!IsLog(logFile'.list) /\ Sorted(logFile'.list) /\ Upto(logFile'.list, made)
      /\ logFile'.kind \in {"none", "saved", "unreadable"}
  BY <1>1, <1>2, EmptyLog DEF Log!Contents, Log!Unreadable
<1>4. Log!TypeOK' /\ LogFileInv'
  BY <1>1, <1>3 DEF LogInv, Log!TypeOK, LogFileInv
<1>5. LogsInv' /\ HeldInv' /\ PageInv'
  BY <1>1 DEF LogInv, LogsInv, HeldInv, PageInv
<1> QED
  BY <1>4, <1>5 DEF LogInv

\* A piece of the text takes from the file what it held.
LEMMA LogWritePart ==
  ASSUME Log!LogAssumption, LogInv, NEW w \in Workers, Log!WritePart(w)
  PROVE  LogInv'
<1>1. /\ up' = up /\ log' = log /\ made' = made /\ reader' = reader /\ held' = held
      /\ logWriting' = logWriting /\ logCrossed' = logCrossed
      /\ logFile' = Log!Unreadable
  BY DEF Log!WritePart, Log!logSaving
<1>2. Log!IsLog(logFile'.list) /\ Sorted(logFile'.list) /\ Upto(logFile'.list, made)
      /\ logFile'.kind \in {"none", "saved", "unreadable"}
  BY <1>1, EmptyLog DEF Log!Unreadable
<1>3. Log!TypeOK' /\ LogFileInv'
  BY <1>1, <1>2 DEF LogInv, Log!TypeOK, LogFileInv
<1>4. LogsInv' /\ HeldInv' /\ PageInv'
  BY <1>1 DEF LogInv, LogsInv, HeldInv, PageInv
<1> QED
  BY <1>3, <1>4 DEF LogInv

\* A process starts with what the file holds.
LEMMA LogStart ==
  ASSUME Log!LogAssumption, LogInv, NEW w \in Workers, Log!Start(w)
  PROVE  LogInv'
<1>1. /\ up' = up \cup {w} /\ w \notin up /\ reader' = reader
      /\ logWriting' = logWriting /\ logCrossed' = logCrossed
      /\ log' = [log EXCEPT ![w] = logFile'.list]
      /\ held' = [held EXCEPT ![w] = Log!Members(logFile'.list)]
  BY DEF Log!Start, Log!logSaving
<1>2. made \in Nat /\ made' \in Nat /\ made <= made'
      /\ Log!IsLog(logFile'.list) /\ Sorted(logFile'.list) /\ Upto(logFile'.list, made')
      /\ logFile'.kind \in {"none", "saved", "unreadable"}
  <2>0. made \in Nat
    BY DEF LogInv, Log!TypeOK
  <2>1. CASE logFile' = logFile /\ made' = made
    BY <2>0, <2>1 DEF LogInv, Log!TypeOK, LogFileInv
  <2>2. CASE made' = made + 1 /\ logFile' = Log!Contents(<<Log!New(None)>>)
    <3>1. Log!New(None) \in Log!Entries /\ Log!New(None).number = made + 1
      BY <2>0 DEF Log!LogAssumption, Log!Entries, Log!New
    <3>2. logFile'.list = <<Log!New(None)>> /\ logFile'.kind = "saved"
      BY <2>2 DEF Log!Contents
    <3>3. Log!IsLog(<<Log!New(None)>>) /\ Sorted(<<Log!New(None)>>)
          /\ Upto(<<Log!New(None)>>, made + 1)
      BY <3>1, SingleEntry
    <3>4. made' = made + 1 /\ made + 1 \in Nat /\ made <= made + 1
      BY <2>0, <2>2
    <3> QED
      BY <2>0, <3>2, <3>3, <3>4
  <2>3. CASE made' = made + 1 /\ logFile' \in {Log!NoFile, Log!Unreadable}
    BY <2>0, <2>3, EmptyLog DEF Log!NoFile, Log!Unreadable
  <2> QED
    BY <2>1, <2>2, <2>3 DEF Log!Start, Log!Made
<1>3. /\ DOMAIN log' = Workers /\ log'[w] = logFile'.list
      /\ \A v \in Workers : v # w => log'[v] = log[v]
  BY <1>1 DEF LogInv, Log!TypeOK
<1>4. Log!Members(logFile'.list) \in SUBSET Log!Entries
      /\ \A x \in Log!Members(logFile'.list) : x.number <= made'
  BY <1>2, LogIs DEF Log!Members, Upto
<1>5. /\ held' \in [Workers -> SUBSET Log!Entries] /\ held'[w] = Log!Members(logFile'.list)
      /\ \A v \in Workers : v # w => held'[v] = held[v]
  BY <1>1, <1>4 DEF LogInv, Log!TypeOK
<1>6. Log!TypeOK'
  <2>1. \A v \in Workers : Log!IsLog(log'[v])
    BY <1>2, <1>3 DEF LogInv, Log!TypeOK
  <2>2. up' \subseteq Workers /\ logCrossed' \subseteq logWriting' /\ logWriting' \subseteq up'
    BY <1>1 DEF LogInv, Log!TypeOK
  <2>3. reader' \in Queries(up')
    BY <1>1 DEF LogInv, Log!TypeOK
  <2> QED
    BY <1>2, <1>3, <1>5, <2>1, <2>2, <2>3 DEF Log!TypeOK
<1>7. LogsInv' /\ LogFileInv'
  <2>1. \A v \in Workers : v # w => Sorted(log[v]) /\ Upto(log[v], made')
    BY <1>2, UptoMore DEF LogInv, LogsInv, Log!TypeOK
  <2>2. \A v \in Workers : Sorted(log'[v]) /\ Upto(log'[v], made')
    BY <1>2, <1>3, <2>1
  <2> QED
    BY <1>2, <2>2 DEF LogsInv, LogFileInv
<1>8. HeldInv'
  <2>1. Keeps(log'[w], held'[w]) /\ \A x \in held'[w] : x.number <= made'
    BY <1>3, <1>4, <1>5 DEF Keeps
  <2>2. ASSUME NEW v \in up
        PROVE  Keeps(log'[v], held'[v]) /\ \A x \in held'[v] : x.number <= made'
    <3>1. v # w /\ v \in Workers /\ Keeps(log[v], held[v])
          /\ (\A x \in held[v] : x.number <= made) /\ held[v] \in SUBSET Log!Entries
      BY <1>1 DEF LogInv, Log!TypeOK, HeldInv
    <3>2. \A x \in held[v] : x.number \in Nat
      BY <3>1 DEF Log!Entries
    <3> QED
      BY <1>2, <1>3, <1>5, <3>1, <3>2
  <2> QED
    BY <1>1, <2>1, <2>2 DEF HeldInv
<1>9. PageInv'
  <2>1. \A x \in reader.wanted : x.number <= made /\ x.number \in Nat
    BY DEF LogInv, PageInv, Log!TypeOK, Log!Entries
  <2>2. reader.from # Log!Nobody => Paged(log'[reader.from], reader)
    BY <1>1, <1>3 DEF LogInv, PageInv, Log!TypeOK
  <2> QED
    BY <1>1, <1>2, <2>1, <2>2 DEF PageInv
<1> QED
  BY <1>6, <1>7, <1>8, <1>9 DEF LogInv

\* What a process kept in memory goes with it, and so does the query.
LEMMA LogEnd ==
  ASSUME Log!LogAssumption, LogInv, NEW w \in Workers, Log!End(w)
  PROVE  LogInv'
<1>1. /\ up' = up \ {w} /\ logFile' = logFile
      /\ logWriting' = logWriting \ {w} /\ logCrossed' = logCrossed \ {w}
      /\ log' = [log EXCEPT ![w] = <<>>] /\ held' = [held EXCEPT ![w] = {}]
      /\ made' = made /\ reader' = IF reader.from = w THEN Log!NoQuery ELSE reader
  BY DEF Log!End
<1>2. /\ DOMAIN log' = Workers /\ log'[w] = <<>>
      /\ \A v \in Workers : v # w => log'[v] = log[v]
  BY <1>1 DEF LogInv, Log!TypeOK
<1>3. /\ held' \in [Workers -> SUBSET Log!Entries]
      /\ \A v \in Workers : v # w => held'[v] = held[v]
  BY <1>1 DEF LogInv, Log!TypeOK
<1>4. reader' \in Queries(up')
  BY <1>1 DEF LogInv, Log!TypeOK, Log!NoQuery
<1>5. Log!TypeOK'
  <2>1. \A v \in Workers : Log!IsLog(log'[v])
    BY <1>2, EmptyLog DEF LogInv, Log!TypeOK
  <2>2. up' \subseteq Workers /\ logCrossed' \subseteq logWriting' /\ logWriting' \subseteq up'
    BY <1>1 DEF LogInv, Log!TypeOK
  <2>3. made' \in Nat /\ logFile'.kind \in {"none", "saved", "unreadable"}
        /\ Log!IsLog(logFile'.list)
    BY <1>1 DEF LogInv, Log!TypeOK
  <2> QED
    BY <1>2, <1>3, <1>4, <2>1, <2>2, <2>3 DEF Log!TypeOK
<1>6. LogsInv' /\ LogFileInv'
  <2>1. \A v \in Workers : Sorted(log'[v]) /\ Upto(log'[v], made)
    BY <1>2, EmptyLog DEF LogInv, LogsInv
  <2> QED
    BY <1>1, <2>1 DEF LogInv, LogsInv, LogFileInv
<1>7. HeldInv'
  <2>1. \A v \in up' : v # w /\ v \in up /\ v \in Workers
    BY <1>1 DEF LogInv, Log!TypeOK
  <2>2. \A v \in up' : Keeps(log'[v], held'[v]) /\ \A x \in held'[v] : x.number <= made
    BY <1>2, <1>3, <2>1 DEF LogInv, HeldInv
  <2> QED
    BY <1>1, <2>2 DEF HeldInv
<1>8. PageInv'
  <2>1. CASE reader.from = w
    BY <1>1, <2>1 DEF PageInv, Log!NoQuery
  <2>2. CASE reader.from # w
    <3>1. reader.from # Log!Nobody => Paged(log'[reader.from], reader)
      BY <1>2, <2>2 DEF LogInv, PageInv, Log!TypeOK
    <3>2. \A x \in reader.wanted : x.number <= made
      BY DEF LogInv, PageInv
    <3> QED
      BY <1>1, <2>2, <3>1, <3>2 DEF PageInv
  <2> QED
    BY <2>1, <2>2
<1> QED
  BY <1>5, <1>6, <1>7, <1>8 DEF LogInv

\* A page shows all that lies between its offset and the next.
LEMMA LogQuery ==
  ASSUME Log!LogAssumption, LogInv, NEW w \in Workers, Log!Query(w)
  PROVE  LogInv'
<1>1. up' = up /\ log' = log /\ logFile' = logFile /\ logWriting' = logWriting
      /\ logCrossed' = logCrossed /\ made' = made /\ held' = held
  BY DEF Log!Query, Log!FirstPage, Log!NextPage, Log!Leave, Log!logSaving
<1>2. LogsInv' /\ LogFileInv' /\ HeldInv'
  BY <1>1 DEF LogInv, LogsInv, LogFileInv, HeldInv
<1>3. PageSize \in Nat /\ w \in Workers /\ Log!IsLog(log[w]) /\ Upto(log[w], made)
      /\ \A i \in DOMAIN log[w] : i \in Nat /\ i >= 1 /\ log[w][i] \in Log!Entries
  <2>1. Log!IsLog(log[w]) /\ Upto(log[w], made)
    BY DEF LogInv, Log!TypeOK, LogsInv
  <2> QED
    BY <2>1, LogIs DEF Log!LogAssumption
<1>4. Log!Members(log[w]) \in SUBSET Log!Entries 
      /\ \A n \in Nat : Log!Page(log[w], n) \in SUBSET Log!Entries
  BY <1>3 DEF Log!Members, Log!Page
<1>5. reader' \in Queries(up)
      /\ PageInv'
  <2>1. CASE Log!FirstPage(w)
    <3>1. reader' = [from |-> w, offset |-> PageSize, wanted |-> Log!Members(log[w]),
                     shown |-> Log!Page(log[w], 0)] /\ w \in up
      BY <2>1 DEF Log!FirstPage, Log!Serves
    <3>2. Paged(log[w], reader')
      BY <1>3, <3>1 DEF Paged, Log!Page
    <3>3. \A x \in reader'.wanted : x.number <= made
      BY <1>3, <3>1 DEF Log!Members, Upto
    <3> QED
      BY <1>1, <1>3, <1>4, <3>1, <3>2, <3>3 DEF PageInv
  <2>2. CASE Log!NextPage(w) /\ w = reader.from
    <3>1. /\ reader' = [reader EXCEPT !.offset = @ + PageSize,
                                      !.shown = @ \cup Log!Page(log[w], reader.offset)]
          /\ reader.from = w
      BY <2>2 DEF Log!NextPage
    <3>2. reader \in Queries(up)
      BY DEF LogInv, Log!TypeOK
    <3>3. /\ reader'.from = w /\ reader'.offset = reader.offset + PageSize
          /\ reader'.wanted = reader.wanted /\ reader.offset \in Nat
          /\ reader'.shown = reader.shown \cup Log!Page(log[w], reader.offset)
      BY <3>1, <3>2
    <3>4. w # Log!Nobody => Paged(log[w], reader)
      BY <3>1 DEF LogInv, PageInv
    <3>5. w # Log!Nobody => Paged(log[w], reader')
      BY <1>3, <3>3, <3>4 DEF Paged, Log!Page
    <3>6. \A x \in reader'.wanted : x.number <= made
      BY <3>3 DEF LogInv, PageInv
    <3>7. PageInv'
      BY <1>1, <3>3, <3>5, <3>6 DEF PageInv
    <3>8. reader.offset + PageSize \in Nat
          /\ reader.shown \cup Log!Page(log[w], reader.offset) \in SUBSET Log!Entries
      BY <1>3, <1>4, <3>2, <3>3
    <3>9. reader' \in Queries(up)
      BY <3>1, <3>2, <3>8
    <3> QED
      BY <3>7, <3>9
  <2>3. ASSUME reader' = Log!NoQuery
        PROVE  reader' \in Queries(up) /\ PageInv'
    BY <2>3 DEF Log!NoQuery, PageInv
  <2>4. CASE Log!NextPage(w) /\ w # reader.from
    BY <2>3, <2>4 DEF Log!NextPage
  <2>5. CASE Log!Leave(w)
    BY <2>3, <2>5 DEF Log!Leave
  <2> QED
    BY <2>1, <2>2, <2>4, <2>5 DEF Log!Query
<1>6. Log!TypeOK'
  BY <1>1, <1>5 DEF LogInv, Log!TypeOK
<1> QED
  BY <1>2, <1>5, <1>6 DEF LogInv

\* The invariant the results rest on.
THEOREM LogInvariance == Log!LogAssumption /\ Log!Spec => []LogInv
<1> SUFFICES ASSUME Log!LogAssumption PROVE Log!Spec => []LogInv
  OBVIOUS
<1>1. LogInv /\ Log!Next => LogInv'
  BY LogRecord, LogClear, LogWritePart, LogFlush, LogStart, LogEnd, LogQuery
     DEF Log!Next, Log!Process, Log!Change
<1>2. LogInv /\ UNCHANGED Log!vars => LogInv'
  BY DEF LogInv, Log!TypeOK, LogsInv, LogFileInv, HeldInv, PageInv,
         Log!vars, Log!logVars, Log!logSaving
<1> QED
  BY <1>1, <1>2, LogInit, PTL DEF Log!Spec

----------------------------------------------------------------------------
(* The handlers keep to the store.                                          *)

\* An operation on account u, as all routes that reach the store make it: granted,
\* with an entry that is left to be recorded, or without either.
Changing(w, u) ==
    /\ Idle(w) /\ Store!Account(w, u)
    /\ \/ Noted(w, ops') /\ changed' = [changed EXCEPT ![w] = @ \cup {ops'}]
       \/ Noted(w, None) /\ changed' = changed
    /\ tokens' \subseteq tokens \cup {u}

\* An entry of its own.
Remarking(w) == Remark(w) /\ changed' = changed

\* A route changes an account, or records an entry without.
LEMMA RouteIs ==
  ASSUME NEW w \in Workers, NEW u \in Users, Route(w, u)
  PROVE  Changing(w, u) \/ Remarking(w)
<1> USE DEF Changing, Remarking, Statuses, Roles
<1>1. CASE Granted(w, u) /\ changed' = [changed EXCEPT ![w] = @ \cup {ops'}]
  <2>1. CASE CreateUser(w, u)
    BY <1>1, <2>1 DEF CreateUser, Store!Account
  <2>2. CASE UpdateUser(w, u)
    BY <1>1, <2>2 DEF UpdateUser, Store!Account
  <2>3. CASE DeleteUser(w, u) \/ ResetPassword(w, u)
    BY <1>1, <2>3 DEF DeleteUser, ResetPassword, Store!Account
  <2>4. CASE Login(w, u) \/ Logout(w, u)
    BY <1>1, <2>4 DEF Login, Logout, Store!Account
  <2> QED
    BY <1>1, <2>1, <2>2, <2>3, <2>4 DEF Granted
<1>2. CASE Aside(w, u) /\ UNCHANGED changed
  <2>1. CASE CreateRefused(w, u) \/ LoginFails(w) \/ LogoutOfNobody(w, u)
    BY <1>2, <2>1 DEF CreateRefused, LoginFails, LogoutOfNobody
  <2>2. CASE UpdateRefused(w, u)
    BY <1>2, <2>2 DEF UpdateRefused, Store!Account
  <2>3. CASE Heartbeat(w, u)
    BY <1>2, <2>3 DEF Heartbeat, Store!Account
  <2> QED
    BY <1>2, <2>1, <2>2, <2>3 DEF Aside
<1> QED
  BY <1>1, <1>2 DEF Route

\* An operation on an account of w counts, and opens the file of w at most.
LEMMA AccountIs ==
  ASSUME NEW w, NEW u, Store!Account(w, u)
  PROVE  /\ ops < MaxOps /\ ops' = ops + 1 /\ up' = up
         /\ writing' \in {writing, writing \cup {w}}
<1> USE DEF Store!Counted, Store!Changed, Store!Kept, Store!saving
<1>1. CASE Store!Delete(w, u) \/ Store!ResetPassword(w, u)
  BY <1>1 DEF Store!Delete, Store!ResetPassword
<1>2. CASE Store!Login(w, u) \/ Store!Logout(w, u) \/ Store!Heartbeat(w, u)
  BY <1>2 DEF Store!Login, Store!Logout, Store!Heartbeat
<1>3. ASSUME NEW r \in Store!Roles, NEW s \in Store!Statuses, Store!Create(w, u, r, s)
      PROVE  /\ ops < MaxOps /\ ops' = ops + 1 /\ up' = up
             /\ writing' \in {writing, writing \cup {w}}
  BY <1>3 DEF Store!Create
<1>4. ASSUME NEW r \in Store!Roles, NEW s \in Store!Statuses \cup {"same"},
             Store!Update(w, u, r, s) \/ Store!UpdateRefused(w, u, r, s)
      PROVE  /\ ops < MaxOps /\ ops' = ops + 1 /\ up' = up
             /\ writing' \in {writing, writing \cup {w}}
  BY <1>4 DEF Store!Update, Store!UpdateRefused
<1> QED
  BY <1>1, <1>2, <1>3, <1>4 DEF Store!Account

\* What a step of the console is.
Steps ==
    \/ Tick
    \/ \E u \in Users : Expire(u)
    \/ \E w \in Workers : \/ Start(w) \/ End(w) \/ SavePart(w) \/ SaveUsers(w)
                          \/ Tell(w) \/ SaveLog(w)
                          \/ ClearLog(w) \/ ReadLog(w) \/ Remarking(w)
                          \/ \E u \in Users : Changing(w, u)

LEMMA NextIs == Next => Steps
  BY RouteIs DEF Next, Steps, Process

\* A step of the console is one of the store, or leaves the store alone.
LEMMA StoreStep == Next => Store!Next \/ UNCHANGED Store!vars
<1> SUFFICES ASSUME Steps PROVE Store!Next \/ UNCHANGED Store!vars
  BY NextIs
<1> USE DEF Store!vars, Store!bounds, Store!history, Store!saving
<1>1. CASE Tick
  BY <1>1 DEF Tick, Store!Next
<1>2. ASSUME NEW u \in Users, Expire(u)
      PROVE  UNCHANGED Store!vars
  BY <1>2 DEF Expire, storeVars
<1>3. ASSUME NEW w \in Workers, Start(w) \/ End(w) \/ SaveUsers(w)
      PROVE  Store!Next
  BY <1>3 DEF Start, End, SaveUsers, Store!Next, Store!Process
<1>4. ASSUME NEW w \in Workers,
             Tell(w) \/ SaveLog(w) \/ ClearLog(w) \/ ReadLog(w) \/ Remarking(w)
      PROVE  UNCHANGED Store!vars
  BY <1>4 DEF Tell, SaveLog, ClearLog, ReadLog, Remarking, Remark, storeVars
<1>5. ASSUME NEW w \in Workers, NEW u \in Users, Changing(w, u)
      PROVE  Store!Next
  BY <1>5 DEF Changing, Store!Next
<1>6. ASSUME NEW w \in Workers, SavePart(w)
      PROVE  Store!Next \/ UNCHANGED Store!vars
  BY <1>6 DEF SavePart, storeVars, Store!Next, Store!Process
<1> QED
  BY <1>1, <1>2, <1>3, <1>4, <1>5, <1>6 DEF Steps

\* The accounts of the whole server are those of UserStore: no handler, and no
\* order of handlers and processes, does to them what UserStore does not allow.
THEOREM StoreIsKept == Spec => Store!Spec
<1>1. Init => Store!Init
  BY DEF Init
<1>2. [Next]_vars => [Store!Next]_(Store!vars)
  BY StoreStep DEF vars, storeVars, Store!vars, Store!bounds, Store!history, Store!saving
<1> QED
  BY <1>1, <1>2, PTL DEF Spec, Store!Spec

\* The module of the theorems says the same of the store as Store does.
LEMMA SameStore ==
  /\ Store!Init <=> Accounts!Init
  /\ Store!vars = Accounts!vars
  /\ Store!Next <=> Accounts!Next
  /\ Store!TypeOK <=> Accounts!TypeOK
<1>1. Store!Init <=> Accounts!Init
  BY DEF Store!Init, Accounts!Init, Store!NoFile, Accounts!NoFile,
         Store!NoUsers, Accounts!NoUsers, Store!Nobody, Accounts!Nobody
<1>2. Store!vars = Accounts!vars
  BY DEF Store!vars, Accounts!vars, Store!bounds, Accounts!bounds,
         Store!history, Accounts!history, Store!saving, Accounts!saving
<1>3. Store!Next <=> Accounts!Next
  <2> USE DEF
       Store!Nobody, Accounts!Nobody, Store!bounds, Accounts!bounds,
       Store!history, Accounts!history, Store!saving, Accounts!saving,
       Store!Fresh, Accounts!Fresh,
       Store!DefaultUsers, Accounts!DefaultUsers, Store!NoUsers, Accounts!NoUsers,
       Store!Merged, Accounts!Merged, Store!Supers, Accounts!Supers,
       Store!ActiveSupers, Accounts!ActiveSupers, Store!Contents, Accounts!Contents,
       Store!NoFile, Accounts!NoFile, Store!Unreadable, Accounts!Unreadable,
       Store!Loaded, Accounts!Loaded, Store!Initialised, Accounts!Initialised,
       Store!Serves, Accounts!Serves, Store!Counted, Accounts!Counted,
       Store!Kept, Accounts!Kept, Store!Changed, Accounts!Changed,
       Store!RoleRefused, Accounts!RoleRefused,
       Store!StatusRefused, Accounts!StatusRefused,
       Store!WithRole, Accounts!WithRole, Store!WithStatus, Accounts!WithStatus,
       Store!DeleteRefused, Accounts!DeleteRefused, Store!Elapsed, Accounts!Elapsed,
       Store!SessionOver, Accounts!SessionOver,
       Store!Cardinality, Accounts!Cardinality,
       Store!IsFiniteSet, Accounts!IsFiniteSet
  <2>1. Store!Tick = Accounts!Tick
    BY DEF
       Store!Tick, Accounts!Tick
  <2>2. ASSUME NEW w \in Workers
        PROVE  Store!Process(w) <=> Accounts!Process(w)
    BY DEF
       Store!Process, Accounts!Process, Store!Start, Accounts!Start,
       Store!End, Accounts!End, Store!WritePart, Accounts!WritePart,
       Store!Flush, Accounts!Flush
  <2>3. ASSUME NEW w \in Workers, NEW u \in Users
        PROVE  /\ Store!Delete(w, u) = Accounts!Delete(w, u)
               /\ Store!ResetPassword(w, u) = Accounts!ResetPassword(w, u)
               /\ Store!Login(w, u) = Accounts!Login(w, u)
               /\ Store!Logout(w, u) = Accounts!Logout(w, u)
               /\ Store!Heartbeat(w, u) = Accounts!Heartbeat(w, u)
    BY DEF
       Store!Delete, Accounts!Delete, Store!ResetPassword, Accounts!ResetPassword,
       Store!Login, Accounts!Login, Store!Logout, Accounts!Logout,
       Store!Heartbeat, Accounts!Heartbeat
  <2>4. ASSUME NEW w \in Workers, NEW u \in Users
        PROVE  \A r, s :
                 /\ Store!Create(w, u, r, s) = Accounts!Create(w, u, r, s)
                 /\ Store!Update(w, u, r, s) = Accounts!Update(w, u, r, s)
                 /\ Store!UpdateRefused(w, u, r, s) = Accounts!UpdateRefused(w, u, r, s)
    BY DEF
       Store!Create, Accounts!Create, Store!Update, Accounts!Update,
       Store!UpdateRefused, Accounts!UpdateRefused
  <2> HIDE DEF
       Store!Nobody, Accounts!Nobody, Store!bounds, Accounts!bounds,
       Store!history, Accounts!history, Store!saving, Accounts!saving,
       Store!Fresh, Accounts!Fresh,
       Store!DefaultUsers, Accounts!DefaultUsers, Store!NoUsers, Accounts!NoUsers,
       Store!Merged, Accounts!Merged, Store!Supers, Accounts!Supers,
       Store!ActiveSupers, Accounts!ActiveSupers, Store!Contents, Accounts!Contents,
       Store!NoFile, Accounts!NoFile, Store!Unreadable, Accounts!Unreadable,
       Store!Loaded, Accounts!Loaded, Store!Initialised, Accounts!Initialised,
       Store!Serves, Accounts!Serves, Store!Counted, Accounts!Counted,
       Store!Kept, Accounts!Kept, Store!Changed, Accounts!Changed,
       Store!RoleRefused, Accounts!RoleRefused,
       Store!StatusRefused, Accounts!StatusRefused,
       Store!WithRole, Accounts!WithRole, Store!WithStatus, Accounts!WithStatus,
       Store!DeleteRefused, Accounts!DeleteRefused, Store!Elapsed, Accounts!Elapsed,
       Store!SessionOver, Accounts!SessionOver,
       Store!Cardinality, Accounts!Cardinality,
       Store!IsFiniteSet, Accounts!IsFiniteSet
  <2>5. Store!Roles = Accounts!Roles /\ Store!Statuses = Accounts!Statuses
    BY DEF Store!Roles, Accounts!Roles, Store!Statuses, Accounts!Statuses
  <2>6. ASSUME NEW w \in Workers, NEW u \in Users
        PROVE  Store!Account(w, u) <=> Accounts!Account(w, u)
    BY <2>3, <2>4, <2>5 DEF Store!Account, Accounts!Account
  <2> QED
    BY <2>1, <2>2, <2>6 DEF Store!Next, Accounts!Next
<1>4. Store!TypeOK <=> Accounts!TypeOK
  BY DEF Store!TypeOK, Accounts!TypeOK, Store!IsUsers, Accounts!IsUsers,
         Store!Accounts, Accounts!Accounts, Store!Roles, Accounts!Roles,
         Store!Statuses, Accounts!Statuses, Store!Nobody, Accounts!Nobody
<1> QED
  BY <1>1, <1>2, <1>3, <1>4

LEMMA StoreMayBe == Accounts!StoreAssumption
  BY ConsoleAssumption
     DEF Store!StoreAssumption, Accounts!StoreAssumption,
         Store!IsFiniteSet, Accounts!IsFiniteSet,
         Store!Roles, Accounts!Roles, Store!Nobody, Accounts!Nobody

LEMMA StoreTypes == Spec => []Store!TypeOK
<1>1. Store!Spec => Accounts!Spec
  <2>1. [Store!Next]_(Store!vars) => [Accounts!Next]_(Accounts!vars)
    BY SameStore DEF Store!vars, Accounts!vars, Store!bounds, Accounts!bounds,
                     Store!history, Accounts!history, Store!saving, Accounts!saving
  <2> QED
    BY <2>1, SameStore, PTL DEF Store!Spec, Accounts!Spec
<1>2. Accounts!Spec => []Accounts!TypeOK
  BY StoreMayBe, Accounts!TypeCorrect
<1> QED
  BY <1>1, <1>2, StoreIsKept, SameStore, PTL

----------------------------------------------------------------------------
(* The handlers keep to the log.                                            *)

\* What the variables of the console itself hold.
OwnTypes ==
    /\ tokens \subseteq Users
    /\ pending \in [Workers -> {None} \cup Changes]
    /\ changed \in [Workers -> SUBSET Changes] /\ settled \subseteq {None} \cup Changes

\* The number of an operation is one of Changes.
LEMMA CountIs ==
  ASSUME Store!TypeOK, NEW w, NEW u, Store!Account(w, u)
  PROVE  ops' \in Changes /\ ops' # None
<1>1. ops \in 0 .. MaxOps /\ MaxOps \in Nat
  BY ConsoleAssumption DEF Store!TypeOK, Store!StoreAssumption
<1> QED
  BY <1>1, AccountIs DEF Changes, None

LEMMA OwnStep == OwnTypes /\ Store!TypeOK /\ [Next]_vars => OwnTypes'
<1> SUFFICES ASSUME OwnTypes, Store!TypeOK, Steps \/ UNCHANGED vars PROVE OwnTypes'
  BY NextIs
<1> USE DEF OwnTypes
<1>1. CASE Tick \/ UNCHANGED vars
  BY <1>1 DEF Tick, vars, consoleVars
<1>2. ASSUME NEW u \in Users, Expire(u)
      PROVE  OwnTypes'
  BY <1>2 DEF Expire
<1>3. ASSUME NEW w \in Workers,
             \/ Start(w) \/ SavePart(w) \/ SaveLog(w) \/ ReadLog(w)
             \/ Remarking(w) \/ ClearLog(w)
      PROVE  OwnTypes'
  BY <1>3 DEF Start, SavePart, SaveLog, ReadLog, Remarking, Remark, ClearLog, consoleVars
<1>4. ASSUME NEW w \in Workers, End(w) \/ Tell(w)
      PROVE  OwnTypes'
  BY <1>4 DEF End, Tell
<1>5. ASSUME NEW w \in Workers, SaveUsers(w)
      PROVE  OwnTypes'
  BY <1>5 DEF SaveUsers
<1>6. ASSUME NEW w \in Workers, NEW u \in Users, Changing(w, u)
      PROVE  OwnTypes'
  <2>1. ops' \in Changes /\ tokens' \subseteq Users
    BY <1>6, CountIs DEF Changing
  <2>2. CASE Noted(w, ops') /\ changed' = [changed EXCEPT ![w] = @ \cup {ops'}]
    BY <2>1, <2>2 DEF Noted
  <2>3. CASE Noted(w, None) /\ changed' = changed
    BY <2>1, <2>3 DEF Noted
  <2> QED
    BY <1>6, <2>2, <2>3 DEF Changing
<1> QED
  BY <1>1, <1>2, <1>3, <1>4, <1>5, <1>6 DEF Steps

LEMMA OwnTypesHold == Spec => []OwnTypes
<1>1. Init => OwnTypes
  BY DEF Init, OwnTypes
<1> QED
  BY <1>1, OwnStep, StoreTypes, PTL DEF Spec

\* A step of the console is one of the log, or leaves the log alone.
LEMMA LogStep == OwnTypes /\ Next => Log!Next \/ UNCHANGED Log!vars
<1> SUFFICES ASSUME OwnTypes, Steps PROVE Log!Next \/ UNCHANGED Log!vars
  BY NextIs
<1> USE DEF Log!vars, Log!logVars, Log!logSaving
<1>1. CASE Tick
  BY <1>1 DEF Tick, Store!Tick, logVars
<1>2. ASSUME NEW u \in Users, Expire(u)
      PROVE  UNCHANGED Log!vars
  BY <1>2 DEF Expire, storeVars, logVars
<1>3. ASSUME NEW w \in Workers, Start(w) \/ End(w) \/ SaveLog(w)
      PROVE  Log!Next
  BY <1>3 DEF Start, End, SaveLog, Log!Next, Log!Process
<1>4. ASSUME NEW w \in Workers, SaveUsers(w)
      PROVE  UNCHANGED Log!vars
  BY <1>4 DEF SaveUsers, Store!Flush, logVars
<1>5. ASSUME NEW w \in Workers, Tell(w) \/ Remarking(w) \/ ClearLog(w)
      PROVE  Log!Next
  <2>1. pending[w] \in {None} \cup Changes
    BY DEF OwnTypes
  <2> QED
    BY <1>5, <2>1 DEF Tell, Remarking, Remark, ClearLog, Log!Next, Log!Change
<1>6. ASSUME NEW w \in Workers, ReadLog(w)
      PROVE  Log!Next
  BY <1>6 DEF ReadLog, Log!Next, Log!Query
<1>7. ASSUME NEW w \in Workers, NEW u \in Users, Changing(w, u)
      PROVE  UNCHANGED Log!vars
  BY <1>7, AccountIs DEF Changing, Noted, logVars
<1>8. ASSUME NEW w \in Workers, SavePart(w)
      PROVE  Log!Next \/ UNCHANGED Log!vars
  BY <1>8 DEF SavePart, Store!WritePart, logVars, Log!Next, Log!Process
<1> QED
  BY <1>1, <1>2, <1>3, <1>4, <1>5, <1>6, <1>7, <1>8 DEF Steps

\* The log of the whole server is that of ActivityLog, with accounts that change
\* between its steps.
THEOREM LogIsKept == Spec => Log!Spec
<1>1. Init => Log!Init
  BY DEF Init
<1>2. OwnTypes /\ [Next]_vars => [Log!Next]_(Log!vars)
  BY LogStep DEF vars, storeVars, logVars, Log!vars, Log!logVars, Log!logSaving
<1> QED
  BY <1>1, <1>2, OwnTypesHold, PTL DEF Spec, Log!Spec

LEMMA LogMayBe == Log!LogAssumption
  BY ConsoleAssumption

LEMMA LogHolds == Spec => []LogInv
  BY LogMayBe, LogIsKept, LogInvariance, PTL

\* Every variable of the server holds a value of its type, the two stores' and
\* its own.
THEOREM TypeCorrect == Spec => []TypeOK
<1>1. Store!TypeOK /\ LogInv /\ OwnTypes => TypeOK
  BY DEF TypeOK, LogInv, OwnTypes
<1> QED
  BY <1>1, StoreTypes, LogHolds, OwnTypesHold, PTL

\* Every log and the file are in order, newest first, whoever writes over whom.
THEOREM NewestFirstAlways == Spec => []NewestFirst
<1>1. LogInv => NewestFirst
  <2> SUFFICES ASSUME LogInv, NEW list \in {log[w] : w \in Workers} \cup {logFile.list}
               PROVE  Sorted(list)
    BY DEF NewestFirst, Log!NewestFirst, Sorted
  <2> QED
    BY DEF LogInv, LogsInv, LogFileInv
<1> QED
  BY <1>1, LogHolds, PTL

\* A log that has dropped an entry it held is full of newer ones.
THEOREM NewestKept == Spec => []KeepsNewest
<1>1. LogInv => KeepsNewest
  BY DEF LogInv, HeldInv, Keeps, KeepsNewest, Log!KeepsNewest
<1> QED
  BY <1>1, LogHolds, PTL

\* A client that has read all pages was shown all that was there throughout.
THEOREM NothingIsSkipped == Spec => []PagingMissesNothing
<1>1. LogInv => PagingMissesNothing
  <2> SUFFICES ASSUME LogInv, Log!AtEnd,
                      NEW e \in reader.wanted \cap Log!Members(log[reader.from])
               PROVE  e \in reader.shown
    BY DEF PagingMissesNothing, Log!PagingMissesNothing
  <2>1. reader.from # Log!Nobody /\ reader.from \in Workers /\ reader.offset \in Nat
        /\ reader.offset >= Len(log[reader.from]) /\ Paged(log[reader.from], reader)
    BY DEF Log!AtEnd, LogInv, PageInv, Log!TypeOK
  <2>2. PICK i \in DOMAIN log[reader.from] : e = log[reader.from][i]
    BY DEF Log!Members
  <2>3. Log!IsLog(log[reader.from])
    BY <2>1 DEF LogInv, Log!TypeOK
  <2>4. i \in Nat /\ i <= reader.offset
    BY <2>1, <2>2, <2>3, LogIs
  <2> QED
    BY <2>1, <2>2, <2>4 DEF Paged
<1> QED
  BY <1>1, LogHolds, PTL

----------------------------------------------------------------------------
(* What joins accounts and entries.                                         *)

Told(w, k) == \E e \in held[w] : e.about = k

\* All that a list says of changes is about those in `over'.
Follows(list, over) ==
    \A i \in DOMAIN list : list[i].about \in Changes => list[i].about \in over

\* A process that does not run has nothing to record.
DownInv == \A w \in Workers \ up : pending[w] = None /\ changed[w] = {}

\* A change whose entry is next was saved or refused: its save is over.
SettledInv ==
    \A w \in Workers : pending[w] # None /\ w \notin writing => pending[w] \in settled

FollowInv ==
    /\ \A w \in Workers : Follows(log[w], settled)
    /\ Follows(logFile.list, settled)

ToldInv == \A w \in Workers : \A k \in changed[w] : Told(w, k) \/ pending[w] = k

JointInv == DownInv /\ SettledInv /\ FollowInv /\ ToldInv

\* What the steps below rest on.
Typed == Store!TypeOK /\ Log!TypeOK /\ OwnTypes

\* A new entry adds what it is about, and no more.
LEMMA AddedFollows ==
  ASSUME NEW list, Log!IsLog(list), NEW e \in Log!Entries, NEW over,
         Follows(list, over), e.about \in Changes => e.about \in over
  PROVE  Follows(Log!Added(e, list), over)
<1>1. /\ Log!Added(e, list)[1] = e
      /\ \A i \in DOMAIN Log!Added(e, list) : i # 1 =>
            i - 1 \in DOMAIN list /\ Log!Added(e, list)[i] = list[i - 1]
  BY LogMayBe, AddedIs
<1> QED
  BY <1>1 DEF Follows

\* More changes settled, more may be said.
LEMMA FollowsMore ==
  ASSUME NEW list, NEW over, NEW more, Follows(list, over), over \subseteq more
  PROVE  Follows(list, more)
  BY DEF Follows

\* Lists without entries, or with one about no change.
LEMMA NothingFollows ==
  \A over : Follows(<<>>, over) /\ Follows(<<Log!New(None)>>, over)
<1>1. None \notin Changes
  BY ConsoleAssumption DEF None, Changes, Store!StoreAssumption
<1> QED
  BY <1>1 DEF Follows, Log!New

LEMMA JointInit == Init => JointInv
<1> SUFFICES ASSUME Init PROVE JointInv
  OBVIOUS
<1>1. Follows(<<>>, settled)
  BY NothingFollows
<1> QED
  BY <1>1 DEF Init, Log!Init, Log!NoFile, JointInv, DownInv, SettledInv, FollowInv, ToldInv

\* A process starts: nothing is changed, and its log is what the file says.
LEMMA StartJoint ==
  ASSUME Typed, JointInv, NEW w \in Workers, Start(w)
  PROVE  JointInv'
<1>1. /\ pending' = pending /\ changed' = changed /\ settled' = settled
      /\ writing' = writing /\ w \notin up /\ up' = up \cup {w}
      /\ log' = [log EXCEPT ![w] = logFile'.list]
      /\ held' = [held EXCEPT ![w] = Log!Members(logFile'.list)]
  BY DEF Start, Store!Start, Store!saving, Log!Start, consoleVars
<1>2. Follows(logFile'.list, settled)
  <2>1. logFile' = logFile \/ logFile' = Log!Contents(<<Log!New(None)>>)
        \/ logFile' = Log!NoFile \/ logFile' = Log!Unreadable
    BY DEF Start, Log!Start
  <2> QED
    BY <2>1, NothingFollows
       DEF JointInv, FollowInv, Log!Contents, Log!NoFile, Log!Unreadable
<1>3. \A v \in Workers : v # w => log'[v] = log[v] /\ held'[v] = held[v]
  BY <1>1 DEF Typed, Log!TypeOK
<1>4. log'[w] = logFile'.list
  BY <1>1 DEF Typed, Log!TypeOK
<1>5. DownInv' /\ SettledInv'
  BY <1>1 DEF JointInv, DownInv, SettledInv
<1>6. FollowInv'
  BY <1>1, <1>2, <1>3, <1>4 DEF JointInv, FollowInv
<1>7. changed[w] = {}
  BY <1>1 DEF JointInv, DownInv
<1>8. ToldInv'
  BY <1>1, <1>3, <1>7 DEF JointInv, ToldInv, Told
<1> QED
  BY <1>5, <1>6, <1>8 DEF JointInv

\* A process ends, and leaves in the file what it had said there.
LEMMA EndJoint ==
  ASSUME Typed, JointInv, NEW w \in Workers, End(w)
  PROVE  JointInv'
<1>1. /\ pending' = [pending EXCEPT ![w] = None] /\ settled' = settled
      /\ changed' = [changed EXCEPT ![w] = {}]
      /\ writing' = writing \ {w} /\ up' = up \ {w} /\ logFile' = logFile
      /\ log' = [log EXCEPT ![w] = <<>>] /\ held' = [held EXCEPT ![w] = {}]
  BY DEF End, Store!End, Log!End
<1>2. \A v \in Workers : v # w =>
         /\ log'[v] = log[v] /\ held'[v] = held[v]
         /\ pending'[v] = pending[v] /\ changed'[v] = changed[v]
  BY <1>1 DEF Typed, Log!TypeOK, OwnTypes
<1>3. log'[w] = <<>> /\ pending'[w] = None /\ changed'[w] = {}
  BY <1>1 DEF Typed, Log!TypeOK, OwnTypes
<1>4. DownInv' /\ SettledInv'
  BY <1>1, <1>2, <1>3 DEF JointInv, DownInv, SettledInv
<1>5. FollowInv'
  BY <1>1, <1>2, <1>3, NothingFollows DEF JointInv, FollowInv
<1>6. ToldInv'
  BY <1>2, <1>3 DEF JointInv, ToldInv, Told
<1> QED
  BY <1>4, <1>5, <1>6 DEF JointInv

\* The user file is closed, or the disk has refused it: the change is settled.
LEMMA SaveJoint ==
  ASSUME Typed, JointInv, NEW w \in Workers, SaveUsers(w)
  PROVE  JointInv'
<1>1. /\ pending' = pending /\ changed' = changed /\ settled' = settled \cup {pending[w]}
      /\ writing' = writing \ {w} /\ up' = up
      /\ log' = log /\ held' = held /\ logFile' = logFile
  BY DEF SaveUsers, Store!Flush, logVars
<1>2. DownInv' /\ SettledInv' /\ ToldInv'
  BY <1>1 DEF JointInv, DownInv, SettledInv, ToldInv, Told
<1>3. FollowInv'
  BY <1>1, FollowsMore DEF JointInv, FollowInv
<1> QED
  BY <1>2, <1>3 DEF JointInv

\* An entry is made, about a change that is settled or about none.
LEMMA RecordJoint ==
  ASSUME Typed, JointInv, NEW w \in Workers, NEW k \in {None} \cup Changes,
         Log!Record(w, k), k # None => k \in settled, pending[w] \in {None, k},
         pending' = [pending EXCEPT ![w] = None],
         UNCHANGED <<writing, changed, settled>>
  PROVE  JointInv'
<1> DEFINE e == Log!New(k)
<1>1. e \in Log!Entries /\ e.about = k
  BY DEF Typed, Log!TypeOK, Log!Entries, Log!New
<1>2. /\ up' = up /\ held' = [held EXCEPT ![w] = @ \cup {e}]
      /\ log' = [log EXCEPT ![w] = Log!Added(e, log[w])]
      /\ logFile' = logFile \/ logFile' = Log!Unreadable
  BY DEF Log!Record, Log!Changed
<1> HIDE DEF e
<1>3. /\ log'[w] = Log!Added(e, log[w]) /\ held'[w] = held[w] \cup {e} /\ pending'[w] = None
      /\ \A v \in Workers : v # w =>
            log'[v] = log[v] /\ held'[v] = held[v] /\ pending'[v] = pending[v]
  BY <1>2 DEF Typed, Log!TypeOK, OwnTypes
<1>4. Follows(log'[w], settled)
  <2>1. Log!IsLog(log[w]) /\ Follows(log[w], settled)
    BY DEF Typed, Log!TypeOK, JointInv, FollowInv
  <2>2. None \notin Changes
    BY ConsoleAssumption DEF None, Changes, Store!StoreAssumption
  <2>3. e.about \in Changes => e.about \in settled
    BY <1>1, <2>2
  <2> QED
    BY <1>1, <1>3, <2>1, <2>3, AddedFollows
<1>5. FollowInv'
  BY <1>2, <1>3, <1>4, NothingFollows DEF JointInv, FollowInv, Log!Unreadable
<1>6. DownInv' /\ SettledInv'
  BY <1>2, <1>3 DEF JointInv, DownInv, SettledInv
<1>7. ToldInv'
  <2>1. ASSUME NEW v \in Workers, NEW n \in changed[v]
        PROVE  Told(v, n)' \/ pending'[v] = n
    <3>1. n \in Changes /\ n # None
      BY ConsoleAssumption DEF Typed, OwnTypes, None, Changes, Store!StoreAssumption
    <3>2. Told(v, n) \/ pending[v] = n
      BY DEF JointInv, ToldInv
    <3>3. CASE v # w
      BY <1>3, <3>2, <3>3 DEF Told
    <3>4. CASE v = w
      BY <1>1, <1>3, <3>1, <3>2, <3>4 DEF Told
    <3> QED
      BY <3>3, <3>4
  <2> QED
    BY <2>1 DEF ToldInv
<1> QED
  BY <1>5, <1>6, <1>7 DEF JointInv

\* The log is cleared, and with it what was to be told.
LEMMA ClearJoint ==
  ASSUME Typed, JointInv, NEW w \in Workers, ClearLog(w)
  PROVE  JointInv'
<1>1. /\ pending' = pending /\ settled' = settled /\ writing' = writing /\ up' = up
      /\ changed' = [changed EXCEPT ![w] = {}] /\ w \in up
      /\ held' = [held EXCEPT ![w] = {Log!New(None)}]
      /\ log' = [log EXCEPT ![w] = <<Log!New(None)>>]
      /\ logFile' = logFile \/ logFile' = Log!Unreadable
  BY DEF ClearLog, Idle, Log!Clear, Log!Changed, storeVars
<1>2. /\ log'[w] = <<Log!New(None)>> /\ changed'[w] = {}
      /\ \A v \in Workers : v # w =>
            log'[v] = log[v] /\ held'[v] = held[v] /\ changed'[v] = changed[v]
  BY <1>1 DEF Typed, Log!TypeOK, OwnTypes
<1>3. DownInv' /\ SettledInv'
  BY <1>1, <1>2 DEF JointInv, DownInv, SettledInv
<1>4. FollowInv'
  BY <1>1, <1>2, NothingFollows DEF JointInv, FollowInv, Log!Unreadable
<1>5. ToldInv'
  BY <1>1, <1>2 DEF JointInv, ToldInv, Told
<1> QED
  BY <1>3, <1>4, <1>5 DEF JointInv

\* An account changes: what is to be told of it is next, and nothing else was.
LEMMA ChangingJoint ==
  ASSUME Typed, JointInv, NEW w \in Workers, NEW u \in Users, Changing(w, u)
  PROVE  JointInv'
<1>1. PICK entry \in {ops', None} :
         Noted(w, entry) /\ changed' = [changed EXCEPT ![w] = @ \cup ({entry} \ {None})]
  <2>1. CASE Noted(w, ops') /\ changed' = [changed EXCEPT ![w] = @ \cup {ops'}]
    <3>1. ops' # None
      BY CountIs DEF Changing, Typed
    <3> QED
      BY <2>1, <3>1
  <2>2. CASE Noted(w, None) /\ changed' = changed
    <3>1. changed = [changed EXCEPT ![w] = @ \cup ({None} \ {None})]
      BY DEF Typed, OwnTypes
    <3> QED
      BY <2>2, <3>1
  <2> QED
    BY <2>1, <2>2 DEF Changing
<1>2. /\ up' = up /\ writing' \in {writing, writing \cup {w}}
      /\ w \in up /\ w \notin writing /\ pending[w] = None
  BY AccountIs DEF Changing, Idle
<1>3. /\ pending' = [pending EXCEPT ![w] = entry]
      /\ settled' = settled \cup IF w \in writing' THEN {} ELSE {ops'}
      /\ log' = log /\ held' = held /\ logFile' = logFile
  BY <1>1 DEF Noted, logVars
<1>4. /\ pending'[w] = entry /\ changed'[w] \subseteq changed[w] \cup {entry}
      /\ (entry = None => changed'[w] = changed[w])
      /\ \A v \in Workers : v # w => pending'[v] = pending[v] /\ changed'[v] = changed[v]
  BY <1>1, <1>3 DEF Typed, OwnTypes
<1>5. DownInv'
  BY <1>2, <1>4 DEF JointInv, DownInv
<1>6. SettledInv'
  <2>1. ASSUME NEW v \in Workers, pending'[v] # None, v \notin writing'
        PROVE  pending'[v] \in settled'
    <3>1. CASE v = w
      BY <1>1, <1>3, <1>4, <2>1, <3>1
    <3>2. CASE v # w
      BY <1>2, <1>3, <1>4, <2>1, <3>2 DEF JointInv, SettledInv
    <3> QED
      BY <3>1, <3>2
  <2> QED
    BY <2>1 DEF SettledInv
<1>7. FollowInv'
  <2>1. settled \subseteq settled'
    BY <1>3
  <2> QED
    BY <1>3, <2>1, FollowsMore DEF JointInv, FollowInv
<1>8. ToldInv'
  <2>1. ASSUME NEW v \in Workers, NEW n \in changed'[v]
        PROVE  Told(v, n)' \/ pending'[v] = n
    <3>1. CASE n \in changed[v]
      <4>1. Told(v, n) \/ pending[v] = n
        BY <3>1 DEF JointInv, ToldInv
      <4>2. n # None
        BY <3>1, ConsoleAssumption
           DEF Typed, OwnTypes, None, Changes, Store!StoreAssumption
      <4> QED
        BY <1>2, <1>3, <1>4, <4>1, <4>2 DEF Told
    <3>2. CASE n \notin changed[v]
      BY <1>4, <2>1, <3>2
    <3> QED
      BY <3>1, <3>2
  <2> QED
    BY <2>1 DEF ToldInv
<1> QED
  BY <1>5, <1>6, <1>7, <1>8 DEF JointInv

LEMMA JointStep == Typed /\ JointInv /\ [Next]_vars => JointInv'
<1> SUFFICES ASSUME Typed, JointInv, Steps \/ UNCHANGED vars PROVE JointInv'
  BY NextIs
<1>0. UNCHANGED <<up, writing, log, logFile, held, pending, changed, settled>> => JointInv'
  BY DEF JointInv, DownInv, SettledInv, FollowInv, ToldInv, Told
<1>1. CASE Tick \/ UNCHANGED vars
  BY <1>0, <1>1
     DEF Tick, Store!Tick, Store!saving, vars, storeVars, logVars, consoleVars
<1>2. ASSUME NEW u \in Users, Expire(u)
      PROVE  JointInv'
  BY <1>0, <1>2 DEF Expire, storeVars, logVars
<1>3. ASSUME NEW w \in Workers, Start(w) \/ End(w) \/ SaveUsers(w) \/ ClearLog(w)
      PROVE  JointInv'
  BY <1>3, StartJoint, EndJoint, SaveJoint, ClearJoint
<1>4. ASSUME NEW w \in Workers, Tell(w)
      PROVE  JointInv'
  <2>1. pending[w] \in {None} \cup Changes /\ (pending[w] # None => pending[w] \in settled)
    BY <1>4 DEF Tell, Typed, OwnTypes, JointInv, SettledInv
  <2>2. pending' = [pending EXCEPT ![w] = None] /\ UNCHANGED <<writing, changed, settled>>
    BY <1>4 DEF Tell, storeVars
  <2>3. Log!Record(w, pending[w])
    BY <1>4 DEF Tell
  <2> QED
    BY <2>1, <2>2, <2>3, RecordJoint
<1>5. ASSUME NEW w \in Workers, Remarking(w)
      PROVE  JointInv'
  <2>1. pending[w] = None /\ Log!Record(w, None)
    BY <1>5 DEF Remarking, Remark, Idle
  <2>2. pending' = pending /\ UNCHANGED <<writing, changed, settled>>
    BY <1>5 DEF Remarking, Remark, storeVars
  <2>3. pending' = [pending EXCEPT ![w] = None]
    BY <2>1, <2>2 DEF Typed, OwnTypes
  <2> QED
    BY <2>1, <2>2, <2>3, RecordJoint
<1>6. ASSUME NEW w \in Workers, ReadLog(w)
      PROVE  JointInv'
  <2>1. UNCHANGED <<up, log, logFile, held>>
    BY <1>6 DEF ReadLog, Log!FirstPage, Log!NextPage, Log!Leave
  <2> QED
    BY <1>0, <1>6, <2>1 DEF ReadLog, storeVars, consoleVars
<1>7. ASSUME NEW w \in Workers, SaveLog(w)
      PROVE  JointInv'
  <2>1. /\ UNCHANGED <<up, writing, log, held, pending, changed, settled>>
        /\ logFile' = Log!Contents(log[w]) \/ logFile' = Log!Unreadable
    BY <1>7 DEF SaveLog, Log!Flush, storeVars, consoleVars
  <2>2. Follows(logFile'.list, settled)
    BY <2>1, NothingFollows DEF JointInv, FollowInv, Log!Contents, Log!Unreadable
  <2> QED
    BY <2>1, <2>2 DEF JointInv, DownInv, SettledInv, FollowInv, ToldInv, Told
<1>8. ASSUME NEW w \in Workers, NEW u \in Users, Changing(w, u)
      PROVE  JointInv'
  BY <1>8, ChangingJoint
<1>9. ASSUME NEW w \in Workers, SavePart(w)
      PROVE  JointInv'
  <2>1. /\ UNCHANGED <<up, writing, log, held, pending, changed, settled>>
        /\ logFile' = logFile \/ logFile' = Log!Unreadable
    BY <1>9 DEF SavePart, Store!WritePart, Store!saving, Log!WritePart,
                storeVars, logVars, consoleVars
  <2>2. Follows(logFile'.list, settled)
    BY <2>1, NothingFollows DEF JointInv, FollowInv, Log!Unreadable
  <2> QED
    BY <2>1, <2>2 DEF JointInv, DownInv, SettledInv, FollowInv, ToldInv, Told
<1> QED
  BY <1>1, <1>2, <1>3, <1>4, <1>5, <1>6, <1>7, <1>8, <1>9 DEF Steps

LEMMA JointHolds == Spec => []JointInv
<1>1. Store!TypeOK /\ LogInv /\ OwnTypes => Typed
  BY DEF Typed, LogInv
<1> QED
  BY <1>1, JointInit, JointStep, StoreTypes, LogHolds, OwnTypesHold, PTL DEF Spec

----------------------------------------------------------------------------
(* The order of the entries.                                                *)

\* A change that was made, and whose entry no process has yet to record.
Past(k) == k <= ops /\ \A v \in Workers : pending[v] # None => k # pending[v]

InOrder(w) ==
    \A d, e \in held[w] :
        {d.about, e.about} \subseteq changed[w] /\ d.number < e.number
            => d.about < e.about

\* What a process has yet to record is its last change, and no other process's.
TurnInv ==
    /\ \A w \in Workers : pending[w] <= ops
    /\ \A w \in Workers : \A k \in changed[w] :
          k <= ops /\ (pending[w] # None => k <= pending[w])
    /\ \A v, w \in Workers : pending[v] = pending[w] /\ pending[v] # None => v = w

PastInv ==
    /\ \A w \in Workers : InOrder(w) /\ \A e \in held[w] : Past(e.about)
    /\ \A e \in Log!Members(logFile.list) : Past(e.about)

SequenceInv == TurnInv /\ PastInv

\* What the steps below rest on.
Ground == Store!TypeOK /\ LogInv /\ OwnTypes /\ DownInv

\* The numbers of all that is compared.
LEMMA NumbersAre ==
  ASSUME Ground
  PROVE  /\ ops \in Nat /\ made \in Nat
         /\ \A w \in Workers : pending[w] \in Nat /\ changed[w] \subseteq Nat \ {None}
         /\ \A w \in Workers : \A e \in held[w] : e.number \in Nat
<1>1. ops \in 0 .. MaxOps /\ MaxOps \in Nat
  BY ConsoleAssumption DEF Ground, Store!TypeOK, Store!StoreAssumption
<1>2. \A w \in Workers : pending[w] \in Nat /\ changed[w] \subseteq Nat \ {None}
  BY <1>1 DEF Ground, OwnTypes, None, Changes
<1>3. \A w \in Workers : \A e \in held[w] : e.number \in Nat
  BY DEF Ground, LogInv, Log!TypeOK, Log!Entries
<1> QED
  BY <1>1, <1>2, <1>3 DEF Ground, LogInv, Log!TypeOK

LEMMA SequenceInit == Init => SequenceInv
<1> SUFFICES ASSUME Init PROVE SequenceInv
  OBVIOUS
<1>1. ops = 0 /\ \A w \in Workers : pending[w] = None /\ changed[w] = {} /\ held[w] = {}
  BY DEF Init, Store!Init, Log!Init
<1>2. Log!Members(logFile.list) = {}
  BY DEF Init, Log!Init, Log!NoFile, Log!Members
<1> QED
  BY <1>1, <1>2 DEF SequenceInv, TurnInv, PastInv, InOrder, None

\* The entries of the file, and those of a process without changes, may be any
\* that speak of the past.
LEMMA NoneIsPast ==
  ASSUME Ground
  PROVE  Past(None)
  BY NumbersAre DEF Past, None

\* Processes record what they had to, or go without: what others have yet to
\* record stays.
LEMMA PastStays ==
  ASSUME Ground, NEW k, Past(k), ops' = ops,
         \A v \in Workers : pending'[v] \in {None, pending[v]}
  PROVE  Past(k)'
  BY DEF Past

\* A process starts with entries of the past and no change of its own.
LEMMA StartSequence ==
  ASSUME Ground, SequenceInv, NEW w \in Workers, Start(w)
  PROVE  SequenceInv'
<1>1. /\ pending' = pending /\ changed' = changed /\ ops' = ops /\ w \notin up
      /\ held' = [held EXCEPT ![w] = Log!Members(logFile'.list)]
  BY DEF Start, Store!Start, Log!Start, consoleVars
<1>2. \A v \in Workers : v # w => held'[v] = held[v]
  BY <1>1 DEF Ground, LogInv, Log!TypeOK
<1>3. held'[w] = Log!Members(logFile'.list) /\ changed[w] = {}
  BY <1>1 DEF Ground, LogInv, Log!TypeOK, DownInv
<1>4. \A e \in Log!Members(logFile'.list) : Past(e.about)
  <2>1. logFile' = logFile \/ logFile' = Log!Contents(<<Log!New(None)>>)
        \/ logFile' = Log!NoFile \/ logFile' = Log!Unreadable
    BY DEF Start, Log!Start
  <2>2. CASE logFile' = logFile
    BY <2>2 DEF SequenceInv, PastInv
  <2>3. CASE logFile' = Log!Contents(<<Log!New(None)>>)
    BY <2>3, NoneIsPast DEF Log!Contents, Log!Members, Log!New
  <2>4. CASE logFile' = Log!NoFile \/ logFile' = Log!Unreadable
    BY <2>4 DEF Log!NoFile, Log!Unreadable, Log!Members
  <2> QED
    BY <2>1, <2>2, <2>3, <2>4
<1>5. \A k : Past(k) => Past(k)'
  BY <1>1, PastStays
<1>6. TurnInv'
  BY <1>1 DEF SequenceInv, TurnInv
<1>7. \A v \in Workers : InOrder(v)' /\ \A e \in held'[v] : Past(e.about)'
  <2>1. InOrder(w)'
    BY <1>1, <1>3 DEF InOrder
  <2>2. \A e \in held'[w] : Past(e.about)'
    BY <1>3, <1>4, <1>5
  <2>3. \A v \in Workers : v # w => InOrder(v)' /\ \A e \in held'[v] : Past(e.about)'
    BY <1>1, <1>2, <1>5 DEF SequenceInv, PastInv, InOrder
  <2> QED
    BY <2>1, <2>2, <2>3
<1>8. \A e \in Log!Members(logFile'.list) : Past(e.about)'
  BY <1>4, <1>5
<1> QED
  BY <1>6, <1>7, <1>8 DEF SequenceInv, PastInv

\* The entries of a process go, all of them or all but one that is about none.
LEMMA DropSequence ==
  ASSUME Ground, SequenceInv, NEW w \in Workers,
         ops' = ops, pending' = pending \/ pending' = [pending EXCEPT ![w] = None],
         changed' = [changed EXCEPT ![w] = {}],
         NEW left \in {{}, {Log!New(None)}}, held' = [held EXCEPT ![w] = left],
         logFile' = logFile \/ logFile' = Log!Unreadable
  PROVE  SequenceInv'
<1>1. \A v \in Workers : pending'[v] \in {None, pending[v]}
  BY DEF Ground, OwnTypes
<1>2. /\ changed'[w] = {} /\ held'[w] = left
      /\ \A v \in Workers : v # w => changed'[v] = changed[v] /\ held'[v] = held[v]
  BY DEF Ground, OwnTypes, LogInv, Log!TypeOK
<1>3. \A k : Past(k) => Past(k)'
  BY <1>1, PastStays
<1>4. TurnInv'
  <2>1. \A v \in Workers : pending'[v] <= ops'
    BY <1>1, NumbersAre DEF SequenceInv, TurnInv, None
  <2>2. \A v \in Workers : \A k \in changed'[v] :
           k <= ops' /\ (pending'[v] # None => k <= pending'[v])
    BY <1>1, <1>2 DEF SequenceInv, TurnInv
  <2>3. \A v, x \in Workers : pending'[v] = pending'[x] /\ pending'[v] # None => v = x
    BY <1>1 DEF SequenceInv, TurnInv
  <2> QED
    BY <2>1, <2>2, <2>3 DEF TurnInv
<1>5. \A v \in Workers : InOrder(v)' /\ \A e \in held'[v] : Past(e.about)'
  <2>1. \A e \in held'[w] : Past(e.about)'
    BY <1>2, <1>3, NoneIsPast DEF Log!New
  <2>2. InOrder(w)'
    BY <1>2 DEF InOrder
  <2>3. \A v \in Workers : v # w => InOrder(v)' /\ \A e \in held'[v] : Past(e.about)'
    BY <1>2, <1>3 DEF SequenceInv, PastInv, InOrder
  <2> QED
    BY <2>1, <2>2, <2>3
<1>6. \A e \in Log!Members(logFile'.list) : Past(e.about)'
  <2>1. CASE logFile' = logFile
    BY <2>1, <1>3 DEF SequenceInv, PastInv
  <2>2. CASE logFile' = Log!Unreadable
    BY <2>2 DEF Log!Unreadable, Log!Members
  <2> QED
    BY <2>1, <2>2
<1> QED
  BY <1>4, <1>5, <1>6 DEF SequenceInv, PastInv

\* A process records what it had to: of all its changes the last, behind all of
\* them that it has recorded.
LEMMA RecordSequence ==
  ASSUME Ground, SequenceInv, NEW w \in Workers, w \in up,
         Log!Record(w, pending[w]),
         pending' = [pending EXCEPT ![w] = None], UNCHANGED <<ops, changed>>
  PROVE  SequenceInv'
<1>0. PICK e : e = Log!New(pending[w])
  OBVIOUS
<1>1. e.about = pending[w] /\ e.number = made + 1
  BY <1>0 DEF Log!New
<1>2. /\ held' = [held EXCEPT ![w] = @ \cup {e}]
      /\ logFile' = logFile \/ logFile' = Log!Unreadable
  BY <1>0 DEF Log!Record, Log!Changed
<1>3. /\ held'[w] = held[w] \cup {e} /\ pending'[w] = None
      /\ \A v \in Workers : v # w => held'[v] = held[v] /\ pending'[v] = pending[v]
  BY <1>2 DEF Ground, OwnTypes, LogInv, Log!TypeOK
<1>4. /\ \A v \in Workers : pending[v] <= ops /\ pending[v] \in Nat
      /\ \A v \in Workers : pending[v] = pending[w] /\ pending[v] # None => v = w
  BY NumbersAre DEF SequenceInv, TurnInv
<1>5. \A k : Past(k) => Past(k)'
  BY <1>3, PastStays
<1>6. Past(e.about)'
  BY <1>1, <1>3, <1>4 DEF Past
<1>7. TurnInv'
  <2>1. \A v \in Workers : pending'[v] <= ops'
    BY <1>3, <1>4, NumbersAre DEF None
  <2>2. \A v \in Workers : \A k \in changed'[v] :
           k <= ops' /\ (pending'[v] # None => k <= pending'[v])
    BY <1>3 DEF SequenceInv, TurnInv
  <2>3. \A v, x \in Workers : pending'[v] = pending'[x] /\ pending'[v] # None => v = x
    BY <1>3 DEF SequenceInv, TurnInv
  <2> QED
    BY <2>1, <2>2, <2>3 DEF TurnInv
<1>8. InOrder(w)'
  <2> SUFFICES ASSUME NEW c \in held'[w], NEW d \in held'[w],
                      {c.about, d.about} \subseteq changed[w], c.number < d.number
               PROVE  c.about < d.about
    BY DEF InOrder
  <2>1. c.about \in Nat /\ c.about # None /\ d.about \in Nat /\ d.about # None
    BY NumbersAre
  <2>2. \A x \in held[w] : x.number <= made /\ x.number \in Nat /\ Past(x.about)
    BY NumbersAre DEF Ground, LogInv, HeldInv, SequenceInv, PastInv
  <2>3. CASE c \in held[w] /\ d \in held[w]
    BY <2>3 DEF SequenceInv, PastInv, InOrder
  <2>4. CASE c \in held[w] /\ d = e
    <3>1. pending[w] # None /\ c.about # pending[w]
      BY <1>1, <2>1, <2>2, <2>4 DEF Past
    <3>2. c.about <= pending[w]
      BY <3>1 DEF SequenceInv, TurnInv
    <3> QED
      BY <1>1, <2>1, <2>4, <3>1, <3>2
  <2>5. CASE c = e
    <3>1. d.number <= made + 1 /\ made \in Nat /\ d.number \in Nat
      BY <1>1, <1>3, <2>2, NumbersAre
    <3> QED
      BY <1>1, <2>5, <3>1
  <2> QED
    BY <1>3, <2>3, <2>4, <2>5
<1>9. \A v \in Workers : InOrder(v)' /\ \A x \in held'[v] : Past(x.about)'
  <2>1. \A x \in held'[w] : Past(x.about)'
    BY <1>3, <1>5, <1>6 DEF SequenceInv, PastInv
  <2>2. \A v \in Workers : v # w => InOrder(v)' /\ \A x \in held'[v] : Past(x.about)'
    BY <1>3, <1>5 DEF SequenceInv, PastInv, InOrder
  <2> QED
    BY <1>8, <2>1, <2>2
<1>10. \A x \in Log!Members(logFile'.list) : Past(x.about)'
  <2>1. CASE logFile' = logFile
    BY <2>1, <1>5 DEF SequenceInv, PastInv
  <2>2. CASE logFile' = Log!Unreadable
    BY <2>2 DEF Log!Unreadable, Log!Members
  <2> QED
    BY <1>2, <2>1, <2>2
<1> QED
  BY <1>7, <1>9, <1>10 DEF SequenceInv, PastInv

\* A change is later than all that any process has recorded or has yet to record.
LEMMA ChangingSequence ==
  ASSUME Ground, SequenceInv, NEW w \in Workers, NEW u \in Users, Changing(w, u)
  PROVE  SequenceInv'
<1>1. PICK entry \in {ops', None} :
         Noted(w, entry) /\ changed' = [changed EXCEPT ![w] = @ \cup ({entry} \ {None})]
  <2>1. CASE Noted(w, ops') /\ changed' = [changed EXCEPT ![w] = @ \cup {ops'}]
    <3>1. ops' # None
      BY CountIs DEF Changing, Ground
    <3> QED
      BY <2>1, <3>1
  <2>2. CASE Noted(w, None) /\ changed' = changed
    <3>1. changed = [changed EXCEPT ![w] = @ \cup ({None} \ {None})]
      BY DEF Ground, OwnTypes
    <3> QED
      BY <2>2, <3>1
  <2> QED
    BY <2>1, <2>2 DEF Changing
<1>2. ops' = ops + 1 /\ pending[w] = None
  BY AccountIs DEF Changing, Idle
<1>3. /\ pending' = [pending EXCEPT ![w] = entry] /\ held' = held /\ logFile' = logFile
  BY <1>1 DEF Noted, logVars
<1>4. /\ pending'[w] = entry /\ changed'[w] = changed[w] \cup ({entry} \ {None})
      /\ \A v \in Workers : v # w => pending'[v] = pending[v] /\ changed'[v] = changed[v]
  BY <1>1, <1>3 DEF Ground, OwnTypes
<1>5. /\ ops \in Nat /\ \A v \in Workers : pending[v] <= ops /\ pending[v] \in Nat
      /\ \A v \in Workers : \A k \in changed[v] : k <= ops /\ k \in Nat
  BY NumbersAre DEF SequenceInv, TurnInv
<1>6. entry = ops + 1 \/ entry = None
  BY <1>1, <1>2
<1>7. TurnInv'
  <2>1. \A v \in Workers : pending'[v] <= ops'
    BY <1>2, <1>4, <1>5, <1>6 DEF None
  <2>2. \A k \in changed'[w] : k <= ops' /\ (pending'[w] # None => k <= pending'[w])
    BY <1>2, <1>4, <1>5, <1>6
  <2>3. \A v \in Workers : v # w => \A k \in changed'[v] :
           k <= ops' /\ (pending'[v] # None => k <= pending'[v])
    BY <1>2, <1>4, <1>5 DEF SequenceInv, TurnInv
  <2>4. ASSUME NEW v \in Workers, NEW x \in Workers, pending'[v] = pending'[x],
               pending'[v] # None
        PROVE  v = x
    BY <2>4, <1>4, <1>5, <1>6 DEF SequenceInv, TurnInv
  <2> QED
    BY <2>1, <2>2, <2>3, <2>4 DEF TurnInv
<1>8. ASSUME NEW k \in Nat, Past(k)
      PROVE  Past(k)' /\ k # ops + 1
  <2>1. k <= ops
    BY <1>8 DEF Past
  <2>2. k <= ops' /\ k # ops + 1
    BY <2>1, <1>2, <1>5
  <2>3. \A v \in Workers : pending'[v] # None => k # pending'[v]
    BY <1>4, <1>6, <1>8, <2>2 DEF Past
  <2> QED
    BY <2>2, <2>3 DEF Past
<1>9. /\ \A v \in Workers : \A e \in held[v] : e.about \in Nat
      /\ \A e \in Log!Members(logFile.list) : e.about \in Nat
  <2>1. \A e \in Log!Entries : e.about \in Nat
    BY ConsoleAssumption DEF Log!Entries, None, Changes, Store!StoreAssumption
  <2>2. Log!IsLog(logFile.list)
    BY DEF Ground, LogInv, Log!TypeOK
  <2>3. \A e \in Log!Members(logFile.list) : e \in Log!Entries
    BY <2>2, LogIs DEF Log!Members
  <2> QED
    BY <2>1, <2>3 DEF Ground, LogInv, Log!TypeOK
<1>10. PastInv'
  <2>1. ASSUME NEW v \in Workers
        PROVE  InOrder(v)'
    <3> SUFFICES ASSUME NEW c \in held[v], NEW d \in held[v],
                        {c.about, d.about} \subseteq changed'[v], c.number < d.number
                 PROVE  c.about < d.about
      BY <1>3 DEF InOrder
    <3>1. c.about # ops + 1 /\ d.about # ops + 1
      BY <1>8, <1>9 DEF SequenceInv, PastInv
    <3>2. {c.about, d.about} \subseteq changed[v]
      BY <1>4, <1>6, <3>1
    <3> QED
      BY <3>2 DEF SequenceInv, PastInv, InOrder
  <2>2. \A v \in Workers : \A e \in held'[v] : Past(e.about)'
    BY <1>3, <1>8, <1>9 DEF SequenceInv, PastInv
  <2>3. \A e \in Log!Members(logFile'.list) : Past(e.about)'
    BY <1>3, <1>8, <1>9 DEF SequenceInv, PastInv
  <2> QED
    BY <2>1, <2>2, <2>3 DEF PastInv
<1> QED
  BY <1>7, <1>10 DEF SequenceInv

\* The file becomes that of a process or is torn.
LEMMA FileSequence ==
  ASSUME Ground, SequenceInv, UNCHANGED <<ops, pending, changed, held>>,
         \/ logFile' = logFile \/ logFile' = Log!Unreadable
         \/ \E w \in up : logFile' = Log!Contents(log[w])
  PROVE  SequenceInv'
<1>1. \A k : Past(k) => Past(k)'
  BY DEF Past
<1>2. ASSUME NEW e \in Log!Members(logFile'.list)
      PROVE  Past(e.about)
  <2>1. CASE logFile' = logFile
    BY <1>2, <2>1 DEF SequenceInv, PastInv
  <2>2. CASE logFile' = Log!Unreadable
    BY <1>2, <2>2 DEF Log!Unreadable, Log!Members
  <2>3. ASSUME NEW w \in up, logFile' = Log!Contents(log[w])
        PROVE  Past(e.about)
    <3>1. w \in Workers /\ Log!Members(log[w]) \subseteq held[w]
      BY DEF Ground, LogInv, HeldInv, Keeps, Log!TypeOK
    <3>2. logFile'.list = log[w]
      BY <2>3 DEF Log!Contents
    <3> QED
      BY <1>2, <3>1, <3>2 DEF SequenceInv, PastInv
  <2> QED
    BY <2>1, <2>2, <2>3
<1>3. TurnInv' /\ \A v \in Workers : InOrder(v)' /\ \A e \in held'[v] : Past(e.about)'
  BY <1>1 DEF SequenceInv, TurnInv, PastInv, InOrder
<1> QED
  BY <1>1, <1>2, <1>3 DEF SequenceInv, PastInv

LEMMA SequenceStep == Ground /\ SequenceInv /\ [Next]_vars => SequenceInv'
<1> SUFFICES ASSUME Ground, SequenceInv, Steps \/ UNCHANGED vars PROVE SequenceInv'
  BY NextIs
<1> USE DEF Store!bounds, storeVars, logVars, consoleVars
<1>0. UNCHANGED <<ops, pending, changed, held, logFile>> => SequenceInv'
  BY FileSequence
<1>1. CASE Tick \/ UNCHANGED vars
  BY <1>0, <1>1 DEF Tick, Store!Tick, vars
<1>2. ASSUME NEW u \in Users, Expire(u)
      PROVE  SequenceInv'
  BY <1>0, <1>2 DEF Expire
<1>3. ASSUME NEW w \in Workers, Start(w)
      PROVE  SequenceInv'
  BY <1>3, StartSequence
<1>4. ASSUME NEW w \in Workers, End(w)
      PROVE  SequenceInv'
  <2>1. /\ ops' = ops /\ pending' = [pending EXCEPT ![w] = None]
        /\ changed' = [changed EXCEPT ![w] = {}]
        /\ held' = [held EXCEPT ![w] = {}] /\ logFile' = logFile
    BY <1>4 DEF End, Store!End, Log!End
  <2> QED
    BY <2>1, DropSequence
<1>5. ASSUME NEW w \in Workers, ClearLog(w)
      PROVE  SequenceInv'
  <2>1. /\ ops' = ops /\ pending' = pending /\ changed' = [changed EXCEPT ![w] = {}]
        /\ held' = [held EXCEPT ![w] = {Log!New(None)}]
        /\ logFile' = logFile \/ logFile' = Log!Unreadable
    BY <1>5 DEF ClearLog, Log!Clear, Log!Changed
  <2> QED
    BY <2>1, DropSequence
<1>6. ASSUME NEW w \in Workers, Tell(w)
      PROVE  SequenceInv'
  <2>1. /\ Log!Record(w, pending[w]) /\ pending' = [pending EXCEPT ![w] = None]
        /\ ops' = ops /\ changed' = changed
    BY <1>6 DEF Tell
  <2>2. w \in up
    BY <2>1 DEF Log!Record, Log!Serves
  <2> QED
    BY <2>1, <2>2, RecordSequence
<1>7. ASSUME NEW w \in Workers, Remarking(w)
      PROVE  SequenceInv'
  <2>1. /\ pending[w] = None /\ Log!Record(w, None) /\ w \in up
        /\ pending' = pending /\ ops' = ops /\ changed' = changed
    BY <1>7 DEF Remarking, Remark, Idle
  <2>2. pending' = [pending EXCEPT ![w] = None]
    BY <2>1 DEF Ground, OwnTypes
  <2> QED
    BY <2>1, <2>2, RecordSequence
<1>8. ASSUME NEW w \in Workers, SaveUsers(w) \/ SavePart(w)
      PROVE  SequenceInv'
  <2>1. /\ UNCHANGED <<ops, pending, changed, held>>
        /\ logFile' = logFile \/ logFile' = Log!Unreadable
    BY <1>8 DEF SaveUsers, SavePart, Store!Flush, Store!WritePart, Log!WritePart
  <2> QED
    BY <2>1, FileSequence
<1>9. ASSUME NEW w \in Workers, SaveLog(w)
      PROVE  SequenceInv'
  <2>1. /\ UNCHANGED <<ops, pending, changed, held>> /\ w \in logWriting
        /\ logFile' = Log!Contents(log[w]) \/ logFile' = Log!Unreadable
    BY <1>9 DEF SaveLog, Log!Flush
  <2>2. w \in up
    BY <2>1 DEF Ground, LogInv, Log!TypeOK
  <2> QED
    BY <2>1, <2>2, FileSequence
<1>10. ASSUME NEW w \in Workers, ReadLog(w)
       PROVE  SequenceInv'
  <2>1. UNCHANGED <<held, logFile>>
    BY <1>10 DEF ReadLog, Log!FirstPage, Log!NextPage, Log!Leave
  <2> QED
    BY <1>0, <1>10, <2>1 DEF ReadLog
<1>11. ASSUME NEW w \in Workers, NEW u \in Users, Changing(w, u)
       PROVE  SequenceInv'
  BY <1>11, ChangingSequence
<1> QED
  BY <1>1, <1>2, <1>3, <1>4, <1>5, <1>6, <1>7, <1>8, <1>9, <1>10, <1>11 DEF Steps

LEMMA SequenceHolds == Spec => []SequenceInv
<1>1. Store!TypeOK /\ LogInv /\ OwnTypes /\ JointInv => Ground
  BY DEF Ground, JointInv
<1> QED
  BY <1>1, SequenceInit, SequenceStep, StoreTypes, LogHolds, OwnTypesHold, JointHolds,
     PTL DEF Spec

----------------------------------------------------------------------------
(* Results.                                                                 *)

\* No entry, in any process or in the file, is about a change whose save was
\* not over: whoever dies when, no entry is left that is ahead of its change.
THEOREM NoEntryIsAhead == Spec => []EntriesFollowChanges
<1>1. JointInv => EntriesFollowChanges
  <2> SUFFICES ASSUME JointInv, NEW list \in {log[w] : w \in Workers} \cup {logFile.list}
               PROVE  Follows(list, settled)
    BY DEF EntriesFollowChanges, Log!Members, Follows
  <2> QED
    BY DEF JointInv, FollowInv
<1> QED
  BY <1>1, JointHolds, PTL

\* A process that is between two requests has told every change it has granted, to
\* which the routes add whether or not they leave an entry to be recorded; and it
\* has told each of them once and in order.
THEOREM NoChangeIsUntold == Spec => []ChangesAreTold
<1>1. Typed /\ JointInv /\ SequenceInv => ChangesAreTold
  <2> SUFFICES ASSUME Typed, JointInv, SequenceInv, NEW w \in up
               PROVE  /\ Idle(w) => changed[w] \subseteq {e.about : e \in held[w]}
                      /\ InOrder(w)
    BY DEF ChangesAreTold, InOrder
  <2>1. w \in Workers
    BY DEF Typed, Store!TypeOK
  <2>2. ASSUME Idle(w), NEW k \in changed[w]
        PROVE  k \in {e.about : e \in held[w]}
    <3>1. pending[w] = None /\ k # None
      BY <2>1, <2>2, ConsoleAssumption
         DEF Idle, Typed, OwnTypes, None, Changes, Store!StoreAssumption
    <3>2. Told(w, k)
      BY <2>1, <3>1 DEF JointInv, ToldInv
    <3> QED
      BY <3>2 DEF Told
  <2> QED
    BY <2>1, <2>2 DEF SequenceInv, PastInv
<1>2. Store!TypeOK /\ LogInv /\ OwnTypes => Typed
  BY DEF Typed, LogInv
<1> QED
  BY <1>1, <1>2, JointHolds, SequenceHolds, StoreTypes, LogHolds, OwnTypesHold, PTL
=============================================================================
