----------------------------- MODULE UserStore -----------------------------
(***************************************************************************)
(* The user store of app/services/user_service.py.  Each server process     *)
(* (gunicorn_conf.py starts two of them and starts them anew after some     *)
(* requests) reads the user file once, when it starts, keeps all accounts   *)
(* in memory from then on and writes the whole file after most changes.     *)
(*                                                                         *)
(* The handlers of one process never await between reading an account and   *)
(* saving, so an operation is one step up to the moment the file has been   *)
(* opened, which truncates it, and the process does nothing else until it   *)
(* has written and closed it.  Processes interleave in between.             *)
(*                                                                         *)
(* Roles are kept apart as far as the code does: "superuser" and any other  *)
(* one, "staff".  Names, addresses, passwords and the data of a login are   *)
(* left out; of a session its start is kept and the uptime it adds to.      *)
(***************************************************************************)
EXTENDS Integers, FiniteSets

CONSTANTS
    Workers,        \* server processes
    Users,          \* names an account may have
    Defaults,       \* those of DEFAULT_USERS
    DefaultRole,    \* their roles
    DiskMayFail,    \* whether opening or writing the file may raise
    MaxOps,         \* bound: operations on accounts
    MaxStarts,      \* bound: starts of processes
    MaxTime         \* bound: the last tick of the clock

Roles == {"superuser", "staff"}
Statuses == {"active", "disabled"}

Nobody == "nobody"

ASSUME StoreAssumption ==
    /\ Nobody \notin Workers
    /\ IsFiniteSet(Users) /\ Defaults \subseteq Users
    /\ DefaultRole \in [Defaults -> Roles]
    /\ \E u \in Defaults : DefaultRole[u] = "superuser"
    /\ DiskMayFail \in BOOLEAN
    /\ MaxOps \in Nat /\ MaxStarts \in Nat /\ MaxTime \in Nat \ {0}

VARIABLES
    clock,      \* time.time(); it starts at 1, and 0 stands for None
    file,       \* what USERS_FILE holds
    up,         \* the processes that run
    mem,        \* self.users of each of them, a function on its accounts
    writing,    \* the processes that have opened the file and not closed it
    crossed,    \* those of them that had it open while another one had
    ops, starts,
    lastSaver,  \* history: the process whose memory was written last, if any
    unsaved     \* history: accounts each process changed without writing them

bounds == <<ops, starts>>
history == <<lastSaver, unsaved>>
saving == <<writing, crossed>>
vars == <<clock, file, up, mem, saving, bounds, history>>

Fresh(r, s) == [role |-> r, status |-> s, start |-> 0, uptime |-> 0]
DefaultUsers == [u \in Defaults |-> Fresh(DefaultRole[u], "active")]
NoUsers == [u \in {} |-> 0]

\* {**base, **over}
Merged(base, over) ==
    [u \in DOMAIN base \cup DOMAIN over |->
        IF u \in DOMAIN over THEN over[u] ELSE base[u]]

Supers(users) == {u \in DOMAIN users : users[u].role = "superuser"}
ActiveSupers(users) == {u \in Supers(users) : users[u].status = "active"}

Contents(users) == [kind |-> "saved", users |-> users]
NoFile     == [kind |-> "none", users |-> NoUsers]
Unreadable == [kind |-> "unreadable", users |-> NoUsers]

Init ==
    /\ clock = 1
    /\ file = NoFile
    /\ up = {} /\ mem = [w \in Workers |-> NoUsers] /\ writing = {} /\ crossed = {}
    /\ ops = 0 /\ starts = 0
    /\ lastSaver = Nobody /\ unsaved = [w \in Workers |-> {}]

Tick ==
    /\ clock < MaxTime
    /\ clock' = clock + 1
    /\ UNCHANGED <<file, up, mem, saving, bounds, history>>

----------------------------------------------------------------------------
(* A process starts and ends.                                               *)

\* load_users: the defaults come first, an account of the file replaces its
\* default; an unreadable file leaves the defaults alone.
Loaded(disk) == IF disk.kind = "saved" THEN Merged(DefaultUsers, disk.users)
                                       ELSE DefaultUsers

\* _ensure_storage writes the defaults where there is no file, or fails to.
Initialised ==
    {Contents(DefaultUsers)} \cup IF DiskMayFail THEN {NoFile, Unreadable} ELSE {}

\* __init__.
Start(w) ==
    /\ w \notin up /\ starts < MaxStarts
    /\ up' = up \cup {w} /\ starts' = starts + 1
    /\ file' \in IF file.kind = "none" THEN Initialised ELSE {file}
    /\ mem' = [mem EXCEPT ![w] = Loaded(file')]
    /\ lastSaver' = IF lastSaver = w THEN Nobody ELSE lastSaver
    /\ unsaved' = [unsaved EXCEPT ![w] = {}]
    /\ UNCHANGED <<clock, saving, ops>>

\* A process is recycled or killed, in the middle of a save too.
End(w) ==
    /\ w \in up
    /\ up' = up \ {w} /\ writing' = writing \ {w} /\ crossed' = crossed \ {w}
    /\ mem' = [mem EXCEPT ![w] = NoUsers]
    /\ UNCHANGED <<clock, file, bounds, lastSaver, unsaved>>

----------------------------------------------------------------------------
(* Changes and saves.                                                       *)

\* A process that can serve an operation on account u.
Serves(w, u) == w \in up \ writing /\ u \in DOMAIN mem[w]

Counted == ops < MaxOps /\ ops' = ops + 1

\* The accounts of w become `users', of which u has changed, and are not saved.
Kept(w, users, u) ==
    /\ mem' = [mem EXCEPT ![w] = users]
    /\ unsaved' = [unsaved EXCEPT ![w] = @ \cup {u}]
    /\ UNCHANGED <<file, saving, lastSaver>>

\* They become `users', and _save_users opens the file or fails to.
Changed(w, users, u) ==
    \/ /\ mem' = [mem EXCEPT ![w] = users]
       /\ file' = Unreadable /\ writing' = writing \cup {w} /\ lastSaver' = Nobody
       /\ crossed' = IF writing = {} THEN {} ELSE writing'
       /\ UNCHANGED unsaved
    \/ DiskMayFail /\ Kept(w, users, u)

\* json.dump writes the text piece by piece.  A piece makes what another process
\* has written in the meantime unreadable; on a file that is unreadable already
\* it shows only in the end.
WritePart(w) ==
    /\ w \in writing /\ file.kind = "saved"
    /\ file' = Unreadable /\ lastSaver' = Nobody
    /\ UNCHANGED <<clock, up, mem, saving, bounds, unsaved>>

\* The file is closed and holds the text, but for a save that another one has
\* crossed, whose pieces may be mixed, and one that fails.
Flush(w) ==
    /\ w \in writing
    /\ writing' = writing \ {w} /\ crossed' = crossed \ {w}
    /\ \/ /\ file' = Contents(mem[w])
          /\ lastSaver' = w /\ unsaved' = [unsaved EXCEPT ![w] = {}]
       \/ /\ w \in crossed \/ DiskMayFail
          /\ file' = Unreadable /\ lastSaver' = Nobody
          /\ UNCHANGED unsaved
    /\ UNCHANGED <<clock, up, mem, bounds>>

----------------------------------------------------------------------------
(* The operations on accounts.                                              *)

Create(w, u, r, s) ==
    /\ w \in up \ writing /\ u \notin DOMAIN mem[w]
    /\ Counted
    /\ Changed(w, Merged(mem[w], [x \in {u} |-> Fresh(r, s)]), u)
    /\ UNCHANGED <<clock, up, starts>>

\* The two refusals of update_user.
RoleRefused_AnyStatus(users, u, r) == \* mutant: disabled superusers count too
    /\ users[u].role = "superuser" /\ r # "superuser"
    /\ Cardinality(Supers(users)) <= 1
RoleRefused(users, u, r) ==
    /\ users[u].role = "superuser" /\ r # "superuser"
    /\ Cardinality(ActiveSupers(users)) <= 1
StatusRefused(users, u, s) ==
    /\ users[u].role = "superuser" /\ s = "disabled"
    /\ Cardinality(ActiveSupers(users)) <= 1

WithRole(users, u, r) == [users EXCEPT ![u].role = r]
WithStatus(users, u, s) == IF s = "same" THEN users ELSE [users EXCEPT ![u].status = s]

\* update_user, for a request that names a role (an account's own stands for
\* none) and a status or none ("same").
Update_Unsaved(w, u, r, s) == \* mutant: the change is not saved
    LET promoted == WithRole(mem[w], u, r)
    IN  /\ Serves(w, u) /\ ~RoleRefused(mem[w], u, r) /\ ~StatusRefused(promoted, u, s)
        /\ Counted
        /\ mem' = [mem EXCEPT ![w] = WithStatus(promoted, u, s)]
        /\ UNCHANGED <<clock, up, starts, file, saving, lastSaver, unsaved>>
Update(w, u, r, s) ==
    LET promoted == WithRole(mem[w], u, r)
    IN  /\ Serves(w, u) /\ ~RoleRefused(mem[w], u, r) /\ ~StatusRefused(promoted, u, s)
        /\ Counted
        /\ Changed(w, WithStatus(promoted, u, s), u)
        /\ UNCHANGED <<clock, up, starts>>

\* The refusal of a status comes after the role has been assigned.
UpdateRefused(w, u, r, s) ==
    LET promoted == WithRole(mem[w], u, r)
    IN  /\ Serves(w, u) /\ ~RoleRefused(mem[w], u, r) /\ StatusRefused(promoted, u, s)
        /\ Counted
        /\ Kept(w, promoted, u)
        /\ UNCHANGED <<clock, up, starts>>

\* The refusal of delete_user counts superusers of either status.  The route
\* refuses a superuser's own account, which leaves all other callers.
DeleteRefused_Never(users, u) == FALSE \* mutant
DeleteRefused(users, u) ==
    users[u].role = "superuser" /\ Cardinality(Supers(users)) <= 1

Delete(w, u) ==
    /\ Serves(w, u) /\ ~DeleteRefused(mem[w], u)
    /\ Counted
    /\ Changed(w, [x \in DOMAIN mem[w] \ {u} |-> mem[w][x]], u)
    /\ UNCHANGED <<clock, up, starts>>

\* Nothing of what the model keeps changes, and the file is written.
ResetPassword(w, u) ==
    /\ Serves(w, u)
    /\ Counted
    /\ Changed(w, mem[w], u)
    /\ UNCHANGED <<clock, up, starts>>

----------------------------------------------------------------------------
(* Sessions.                                                                *)

\* The route refuses a disabled account.
Login(w, u) ==
    /\ Serves(w, u) /\ mem[w][u].status # "disabled"
    /\ Counted
    /\ Changed(w, [mem[w] EXCEPT ![u].start = clock], u)
    /\ UNCHANGED <<clock, up, starts>>

\* record_logout; the token may come from a login at another process.
Elapsed(a) == IF a.start = 0 THEN 0 ELSE clock - a.start
SessionOver_StillOpen(a) == [a EXCEPT !.uptime = @ + Elapsed(a)] \* mutant
SessionOver(a) == [a EXCEPT !.uptime = @ + Elapsed(a), !.start = 0]

Logout(w, u) ==
    /\ Serves(w, u)
    /\ Counted
    /\ Changed(w, [mem[w] EXCEPT ![u] = SessionOver(@)], u)
    /\ UNCHANGED <<clock, up, starts>>

\* record_heartbeat opens a session where there is none, and saves nothing.
Heartbeat(w, u) ==
    /\ Serves(w, u) /\ mem[w][u].start = 0
    /\ Counted
    /\ Kept(w, [mem[w] EXCEPT ![u].start = clock], u)
    /\ UNCHANGED <<clock, up, starts>>

Process(w) == Start(w) \/ End(w) \/ WritePart(w) \/ Flush(w)

Account(w, u) ==
    \/ Delete(w, u) \/ ResetPassword(w, u) \/ Login(w, u) \/ Logout(w, u)
    \/ Heartbeat(w, u)
    \/ \E r \in Roles, s \in Statuses : Create(w, u, r, s)
    \/ \E r \in Roles, s \in Statuses \cup {"same"} :
         Update(w, u, r, s) \/ UpdateRefused(w, u, r, s)

Next == Tick \/ \E w \in Workers : Process(w) \/ \E u \in Users : Account(w, u)

Spec == Init /\ [][Next]_vars

----------------------------------------------------------------------------
(* Properties.                                                              *)

Accounts == [role : Roles, status : Statuses, start : 0 .. MaxTime,
             uptime : 0 .. MaxTime]

IsUsers(users) ==
    DOMAIN users \subseteq Users /\ \A u \in DOMAIN users : users[u] \in Accounts

\* Every variable holds a value of its type.
TypeOK ==
    /\ clock \in 1 .. MaxTime
    /\ file.kind \in {"none", "saved", "unreadable"} /\ IsUsers(file.users)
    /\ up \subseteq Workers /\ crossed \subseteq writing /\ writing \subseteq up
    /\ DOMAIN mem = Workers /\ \A w \in Workers : IsUsers(mem[w])
    /\ ops \in 0 .. MaxOps /\ starts \in 0 .. MaxStarts
    /\ lastSaver \in Workers \cup {Nobody}
    /\ unsaved \in [Workers -> SUBSET Users]

\* A process loses its last active superuser in one way only: the account is
\* deleted while a superuser that is disabled remains.  No update of role and
\* status in one request does it, not one that is refused half way, and no
\* deletion takes the last superuser of either status (lines 257-269, 285-292).
\* The comment at line 285 promises more, that no deletion does it at all; line
\* 288 counts superusers of either status, and the exception is what is left.
LastAdminGoesByDeletion ==
    [][\A w \in up \cap up' :
          ActiveSupers(mem[w]) # {} /\ ActiveSupers(mem'[w]) = {} =>
              /\ Supers(mem'[w]) # {}
              /\ \E u \in ActiveSupers(mem[w]) :
                    DOMAIN mem'[w] = DOMAIN mem[w] \ {u}]_vars

\* The file holds the accounts of the process that wrote it last, but for
\* heartbeats, refused updates and changes the disk refused: every other change
\* has reached it (lines 156-161 and their callers).
FileIsLastSavers ==
    lastSaver \in up =>
        \A u \in Users \ unsaved[lastSaver] :
            /\ u \in DOMAIN file.users <=> u \in DOMAIN mem[lastSaver]
            /\ u \in DOMAIN file.users => file.users[u] = mem[lastSaver][u]

\* The uptime of an account, with the session that is open, is never more than
\* the time that has passed, across logins without a logout, restarts that read
\* an open session from the file, and other processes (lines 310-346).
UptimeWithinTime ==
    \A w \in up : \A u \in DOMAIN mem[w] :
        mem[w][u].uptime + Elapsed(mem[w][u]) < clock
=============================================================================
