------------------------------ MODULE Console ------------------------------
(***************************************************************************)
(* The handlers of app/routers/superuser.py and app/routers/auth.py, which  *)
(* compose UserStore and ActivityLog: a handler changes an account, which   *)
(* saves the user file, and then records an entry, which saves the log.  It *)
(* never awaits, so a process that serves one does nothing else; it may die *)
(* anywhere in it, and the other process runs at the same time.             *)
(*                                                                         *)
(* Any process accepts a token that any has issued, for as long as it lasts *)
(* and whatever becomes of the account.  Whom an entry names as the caller, *)
(* passwords and requests of the wrong form are left out.                   *)
(***************************************************************************)
EXTENDS Integers, Sequences, FiniteSets

CONSTANTS
    Workers, Users, Defaults, DefaultRole, DiskMayFail, MaxOps, MaxStarts,
    MaxTime,                        \* as in UserStore
    MaxLog, PageSize, MaxEntries    \* as in ActivityLog

VARIABLES
    clock, file, up, mem, writing, crossed, ops, starts, lastSaver,
    unsaved,    \* of UserStore
    log, logFile, logWriting, logCrossed, made, reader, held,   \* of ActivityLog
    tokens,     \* accounts with a token that verify_token accepts
    pending,    \* the change whose entry a process has yet to record, or 0
    changed,    \* history: requests to change an account that each process has
                \* granted since it started or its log was cleared
    settled     \* history: changes that were saved, or that the disk refused

\* An entry is about the change with that number, or about none.
None == 0
Changes == 1 .. MaxOps

Store == INSTANCE UserStore
Log == INSTANCE ActivityLog WITH
    Subjects <- {None} \cup Changes, System <- None

ASSUME ConsoleAssumption == Store!StoreAssumption /\ Log!LogAssumption

storeVars == <<clock, file, up, mem, writing, crossed, ops, starts, lastSaver,
               unsaved>>
logVars == <<log, logFile, logWriting, logCrossed, made, reader, held>>
consoleVars == <<tokens, pending, changed, settled>>
vars == <<storeVars, logVars, consoleVars>>

Init ==
    /\ Store!Init /\ Log!Init
    /\ tokens = {}
    /\ pending = [w \in Workers |-> None]
    /\ changed = [w \in Workers |-> {}]
    /\ settled = {}

----------------------------------------------------------------------------
(* A process starts and ends; time passes.                                  *)

\* The modules of both services are imported one after the other.
Start(w) ==
    /\ Store!Start(w) /\ Log!Start(w)
    /\ UNCHANGED consoleVars

End(w) ==
    /\ Store!End(w) /\ Log!End(w)
    /\ pending' = [pending EXCEPT ![w] = None]
    /\ changed' = [changed EXCEPT ![w] = {}]
    /\ UNCHANGED <<tokens, settled>>

Tick ==
    /\ Store!Tick
    /\ UNCHANGED <<logVars, consoleVars>>

\* verify_token refuses a token after seven days.
Expire(u) ==
    /\ u \in tokens
    /\ tokens' = tokens \ {u}
    /\ UNCHANGED <<storeVars, logVars, pending, changed, settled>>

----------------------------------------------------------------------------
(* A handler: it changes an account, saves, records its entry, saves.       *)

Idle(w) == w \in up \ (writing \cup logWriting) /\ pending[w] = None

\* What a change leaves to do: nothing, where no entry is recorded.
Noted(w, entry) ==
    /\ pending' = [pending EXCEPT ![w] = entry]
    /\ settled' = settled \cup IF w \in writing' THEN {} ELSE {ops'}
    /\ UNCHANGED logVars

\* A piece of the user file, or of the log.
SavePart(w) ==
    \/ Store!WritePart(w) /\ UNCHANGED <<logVars, consoleVars>>
    \/ Log!WritePart(w) /\ UNCHANGED <<storeVars, consoleVars>>

SaveUsers(w) ==
    /\ Store!Flush(w)
    /\ settled' = settled \cup {pending[w]}
    /\ UNCHANGED <<logVars, tokens, pending, changed>>

Tell_Early(w) == \* mutant: the user file is written in the background
    /\ pending[w] # None
    /\ Log!Record(w, pending[w])
    /\ pending' = [pending EXCEPT ![w] = None]
    /\ UNCHANGED <<storeVars, tokens, changed, settled>>
Tell(w) ==
    /\ pending[w] # None /\ w \notin writing
    /\ Log!Record(w, pending[w])
    /\ pending' = [pending EXCEPT ![w] = None]
    /\ UNCHANGED <<storeVars, tokens, changed, settled>>

SaveLog(w) ==
    /\ Log!Flush(w)
    /\ UNCHANGED <<storeVars, consoleVars>>

\* An entry without a change of an account.
Remark(w) ==
    /\ Idle(w)
    /\ Log!Record(w, None)
    /\ UNCHANGED <<storeVars, tokens, pending, settled>>

----------------------------------------------------------------------------
(* The routes of the console.                                               *)

Statuses == Store!Statuses
Roles == Store!Roles

CreateUser(w, u) ==
    /\ Idle(w)
    /\ \E r \in Roles, s \in Statuses : Store!Create(w, u, r, s)
    /\ Noted(w, ops') /\ UNCHANGED tokens

\* USER_CREATE_FAILED; the other routes record nothing of what they refuse.
CreateRefused(w, u) ==
    /\ u \in DOMAIN mem[w]
    /\ Remark(w)

UpdateUser(w, u) ==
    /\ Idle(w)
    /\ \E r \in Roles, s \in Statuses \cup {"same"} : Store!Update(w, u, r, s)
    /\ Noted(w, ops') /\ UNCHANGED tokens

UpdateRefused(w, u) ==
    /\ Idle(w)
    /\ \E r \in Roles, s \in Statuses \cup {"same"} : Store!UpdateRefused(w, u, r, s)
    /\ Noted(w, None) /\ UNCHANGED tokens

\* A caller may not delete its own account, but the route compares the name as it
\* was sent and delete_user strips it: for no account is this a guard.
DeleteUser_Untold(w, u) == \* mutant: the route records no entry
    /\ Idle(w)
    /\ Store!Delete(w, u)
    /\ Noted(w, None) /\ UNCHANGED tokens
DeleteUser(w, u) ==
    /\ Idle(w)
    /\ Store!Delete(w, u)
    /\ Noted(w, ops') /\ UNCHANGED tokens

ResetPassword(w, u) ==
    /\ Idle(w)
    /\ Store!ResetPassword(w, u)
    /\ Noted(w, ops') /\ UNCHANGED tokens

Heartbeat(w, u) ==
    /\ Idle(w)
    /\ Store!Heartbeat(w, u)
    /\ Noted(w, None) /\ UNCHANGED tokens

ClearLog(w) ==
    /\ Idle(w)
    /\ Log!Clear(w)
    /\ changed' = [changed EXCEPT ![w] = {}]
    /\ UNCHANGED <<storeVars, tokens, pending, settled>>

ReadLog(w) ==
    /\ \/ Idle(w) /\ (Log!FirstPage(w) \/ Log!NextPage(w))
       \/ Log!Leave(w)
    /\ UNCHANGED <<storeVars, consoleVars>>

----------------------------------------------------------------------------
(* The routes of authentication.                                            *)

Login(w, u) ==
    /\ Idle(w)
    /\ Store!Login(w, u)
    /\ Noted(w, ops')
    /\ tokens' = tokens \cup {u}

\* A wrong name or password, or an account that is disabled.
LoginFails(w) == Remark(w)

Logout(w, u) ==
    /\ Idle(w) /\ u \in tokens
    /\ Store!Logout(w, u)
    /\ Noted(w, ops') /\ UNCHANGED tokens

\* The account of the token is not, or no longer, one of this process.
LogoutOfNobody(w, u) ==
    /\ u \in tokens /\ u \notin DOMAIN mem[w]
    /\ Remark(w)

Process(w) ==
    Start(w) \/ End(w) \/ SavePart(w) \/ SaveUsers(w) \/ Tell(w) \/ SaveLog(w)

\* Requests that are granted and change an account or its password; the history
\* has them whatever the route leaves to be recorded.
Granted(w, u) ==
    \/ CreateUser(w, u) \/ UpdateUser(w, u) \/ DeleteUser(w, u)
    \/ ResetPassword(w, u) \/ Login(w, u) \/ Logout(w, u)

\* The others: what is refused, and the signs of life of a session.
Aside(w, u) ==
    \/ CreateRefused(w, u) \/ UpdateRefused(w, u) \/ Heartbeat(w, u)
    \/ LoginFails(w) \/ LogoutOfNobody(w, u)

Route(w, u) ==
    \/ Granted(w, u) /\ changed' = [changed EXCEPT ![w] = @ \cup {ops'}]
    \/ Aside(w, u) /\ UNCHANGED changed

Next == \/ Tick
        \/ \E u \in Users : Expire(u)
        \/ \E w \in Workers : \/ Process(w) \/ ClearLog(w) \/ ReadLog(w)
                              \/ \E u \in Users : Route(w, u)

Spec == Init /\ [][Next]_vars

----------------------------------------------------------------------------
(* Properties.                                                              *)

\* Every variable holds a value of its type.
TypeOK ==
    /\ Store!TypeOK /\ Log!TypeOK
    /\ tokens \subseteq Users
    /\ pending \in [Workers -> {None} \cup Changes]
    /\ changed \in [Workers -> SUBSET Changes] /\ settled \subseteq {None} \cup Changes

NewestFirst == Log!NewestFirst
KeepsNewest == Log!KeepsNewest
PagingMissesNothing == Log!PagingMissesNothing

\* No entry of the log, in a process or in the file, speaks of a change before
\* it was saved or the disk refused it: a process that dies leaves a change
\* without its entry, never an entry without its change (superuser.py 77-89,
\* auth.py 112-122).
EntriesFollowChanges ==
    \A list \in {log[w] : w \in Workers} \cup {logFile.list} :
        \A e \in Log!Members(list) : e.about \in Changes => e.about \in settled

\* A process that is between two requests has recorded an entry for each change
\* it has granted since its log was cleared, whether or not the disk took it, and
\* it has recorded them once each and in the order of the changes; KeepsNewest
\* says how long an entry stays (superuser.py 70-193, auth.py 64-184).
ChangesAreTold ==
    \A w \in up :
        /\ Idle(w) => changed[w] \subseteq {e.about : e \in held[w]}
        /\ \A d, e \in held[w] :
              {d.about, e.about} \subseteq changed[w] /\ d.number < e.number
                  => d.about < e.about
=============================================================================
