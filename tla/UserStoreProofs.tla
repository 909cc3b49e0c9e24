--------------------------- MODULE UserStoreProofs ---------------------------
(***************************************************************************)
(* Proofs about UserStore, for any processes, accounts, operations and      *)
(* times: a process loses its last active superuser only by a deletion that *)
(* leaves a disabled one (AdminIsKept), the file is what its last writer    *)
(* holds (ChangesReachTheFile), and no time of a session is counted twice   *)
(* (TimeIsCountedOnce).                                                     *)
(***************************************************************************)
EXTENDS UserStore, FiniteSetTheorems, TLAPS

\* An account whose sessions took place before `now', one after the other.
Timely(a, now) ==
    /\ a \in [role : Roles, status : Statuses, start : 0 .. now, uptime : 0 .. now]
    /\ IF a.start = 0 THEN a.uptime < now ELSE a.uptime < a.start

Well(users, now) ==
    DOMAIN users \subseteq Users /\ \A u \in DOMAIN users : Timely(users[u], now)

\* Two sets of accounts agree on account x.
Agree(some, other, x) ==
    (x \in DOMAIN some <=> x \in DOMAIN other)
    /\ (x \in DOMAIN some => some[x] = other[x])

ClockInv == clock \in 1 .. MaxTime /\ ops \in 0 .. MaxOps /\ starts \in 0 .. MaxStarts

FileInv ==
    /\ file.kind \in {"none", "saved", "unreadable"} /\ Well(file.users, clock)
    /\ file.kind = "saved" => Supers(file.users) # {}

MemInv ==
    /\ up \subseteq Workers /\ crossed \subseteq writing /\ writing \subseteq up
    /\ DOMAIN mem = Workers /\ \A w \in Workers : Well(mem[w], clock)

\* Whatever file it has read, a process has a superuser of some status.
SuperuserRemains == \A w \in up : Supers(mem[w]) # {}

SaverInv ==
    /\ lastSaver \in Workers \cup {Nobody} /\ unsaved \in [Workers -> SUBSET Users]
    /\ lastSaver # Nobody => file.kind # "none"
    /\ lastSaver \in up =>
          \A x \in Users \ unsaved[lastSaver] : Agree(file.users, mem[lastSaver], x)

IInv == ClockInv /\ FileInv /\ MemInv /\ SuperuserRemains /\ SaverInv

----------------------------------------------------------------------------
(* Facts about sets of accounts.                                            *)

\* One account of several can be spared.
LEMMA Another ==
  ASSUME NEW S, IsFiniteSet(S), ~(Cardinality(S) <= 1), NEW u
  PROVE  \E v \in S : v # u
<1> SUFFICES ASSUME \A v \in S : v = u PROVE FALSE
  OBVIOUS
<1>1. IsFiniteSet({u}) /\ Cardinality({u}) = 1 /\ S \in SUBSET {u}
  BY FS_Singleton
<1>2. Cardinality(S) <= 1
  BY <1>1, FS_Subset
<1> QED
  BY <1>2

\* Superusers are accounts, and there are finitely many.
LEMMA SupersAre ==
  ASSUME NEW users, DOMAIN users \subseteq Users
  PROVE  IsFiniteSet(Supers(users)) /\ IsFiniteSet(ActiveSupers(users))
<1>1. Supers(users) \in SUBSET Users /\ ActiveSupers(users) \in SUBSET Users
  BY DEF Supers, ActiveSupers
<1> QED
  BY <1>1, StoreAssumption, FS_Subset

\* What Merged yields: the accounts of `over', and those of `base' beside them.
LEMMA MergedIs ==
  ASSUME NEW base, NEW over
  PROVE  /\ DOMAIN Merged(base, over) = DOMAIN base \cup DOMAIN over
         /\ \A u \in DOMAIN over : Merged(base, over)[u] = over[u]
         /\ \A u \in DOMAIN base \ DOMAIN over : Merged(base, over)[u] = base[u]
  BY DEF Merged

\* No accounts, and the defaults, are accounts of any time.
LEMMA BasicUsers ==
  ASSUME NEW now \in Nat \ {0}
  PROVE  /\ Well(NoUsers, now) /\ DOMAIN NoUsers = {}
         /\ Well(DefaultUsers, now) /\ Supers(DefaultUsers) # {}
         /\ \A r \in Roles, s \in Statuses : Timely(Fresh(r, s), now)
<1>1. \A r \in Roles, s \in Statuses : Timely(Fresh(r, s), now)
  BY DEF Timely, Fresh
<1>2. DOMAIN NoUsers = {} /\ Well(NoUsers, now)
  BY DEF NoUsers, Well
<1>3. DOMAIN DefaultUsers = Defaults
      /\ \A u \in Defaults : DefaultUsers[u] = Fresh(DefaultRole[u], "active")
  BY DEF DefaultUsers
<1>4. Defaults \subseteq Users /\ \A u \in Defaults : DefaultRole[u] \in Roles
  BY StoreAssumption
<1>5. Well(DefaultUsers, now)
  BY <1>1, <1>3, <1>4 DEF Well, Statuses
<1>6. Supers(DefaultUsers) # {}
  <2>1. PICK u \in Defaults : DefaultRole[u] = "superuser"
    BY StoreAssumption
  <2> QED
    BY <1>3, <2>1 DEF Supers, Fresh
<1> QED
  BY <1>1, <1>2, <1>5, <1>6

\* The passing of time keeps accounts as they should be.
LEMMA LaterWell ==
  ASSUME NEW users, NEW now \in Nat, Well(users, now)
  PROVE  Well(users, now + 1)
<1>1. ASSUME NEW u \in DOMAIN users PROVE Timely(users[u], now + 1)
  <2>1. Timely(users[u], now)
    BY DEF Well
  <2> QED
    BY <2>1 DEF Timely
<1> QED
  BY <1>1 DEF Well

----------------------------------------------------------------------------
(* An operation of process w on account u that leaves it with `users'.      *)

Op(w, u, users) ==
    /\ w \in up \ writing /\ u \in Users
    /\ Well(users, clock) /\ Supers(users) # {}
    /\ \A x \in Users \ {u} : Agree(users, mem[w], x)
    /\ Changed(w, users, u) \/ Kept(w, users, u)
    /\ Counted
    /\ UNCHANGED <<clock, up, starts>>

\* Every operation keeps the invariant: it touches one account, which is saved,
\* or told apart as unsaved.
LEMMA OpInv ==
  ASSUME IInv, NEW w \in Workers, NEW u, NEW users, Op(w, u, users)
  PROVE  IInv'
<1>1. /\ w \in up \ writing /\ u \in Users /\ Well(users, clock) /\ Supers(users) # {}
      /\ \A x \in Users \ {u} : Agree(users, mem[w], x)
      /\ clock' = clock /\ up' = up /\ starts' = starts
      /\ ops < MaxOps /\ ops' = ops + 1
  BY DEF Op, Counted
<1>2. mem' = [mem EXCEPT ![w] = users]
  BY DEF Op, Changed, Kept
<1>3. /\ DOMAIN mem' = Workers /\ mem'[w] = users
      /\ \A v \in Workers : v # w => mem'[v] = mem[v]
  BY <1>2 DEF IInv, MemInv
<1>4. ClockInv'
  BY <1>1, StoreAssumption DEF IInv, ClockInv
<1>5. SuperuserRemains'
  <2>1. \A v \in up : v # w => Supers(mem'[v]) # {}
    BY <1>3 DEF IInv, SuperuserRemains, MemInv
  <2>2. \A v \in up' : Supers(mem'[v]) # {}
    BY <1>1, <1>3, <2>1
  <2> QED
    BY <2>2 DEF SuperuserRemains
<1>6. \A v \in Workers : Well(mem'[v], clock')
  BY <1>1, <1>3 DEF IInv, MemInv
<1>7. CASE Kept(w, users, u)
  <2>1. /\ unsaved' = [unsaved EXCEPT ![w] = unsaved[w] \cup {u}]
        /\ file' = file /\ writing' = writing /\ crossed' = crossed
        /\ lastSaver' = lastSaver
    BY <1>7 DEF Kept, saving
  <2>2. FileInv'
    BY <1>1, <2>1 DEF IInv, FileInv
  <2>3. MemInv'
    BY <1>1, <1>3, <1>6, <2>1 DEF IInv, MemInv
  <2>4. unsaved' \in [Workers -> SUBSET Users] /\ unsaved'[w] = unsaved[w] \cup {u}
        /\ \A v \in Workers : v # w => unsaved'[v] = unsaved[v]
    BY <1>1, <2>1 DEF IInv, SaverInv
  <2>5. ASSUME lastSaver \in up, NEW x \in Users \ unsaved'[lastSaver]
        PROVE  Agree(file.users, mem'[lastSaver], x)
    <3>1. lastSaver \in Workers
      BY <2>5 DEF IInv, MemInv
    <3>2. x \in Users \ unsaved[lastSaver]
      BY <2>4, <2>5, <3>1
    <3>3. Agree(file.users, mem[lastSaver], x)
      BY <2>5, <3>2 DEF IInv, SaverInv
    <3>4. lastSaver = w => x # u
      BY <2>4, <2>5
    <3> QED
      BY <1>1, <1>3, <3>1, <3>3, <3>4 DEF Agree
  <2>6. SaverInv'
    BY <1>1, <2>1, <2>4, <2>5 DEF IInv, SaverInv
  <2> QED
    BY <1>4, <1>5, <2>2, <2>3, <2>6 DEF IInv
<1>8. CASE /\ file' = Unreadable /\ writing' = writing \cup {w} /\ lastSaver' = Nobody
           /\ crossed' = IF writing = {} THEN {} ELSE writing'
           /\ unsaved' = unsaved
  <2>1. clock \in Nat \ {0}
    BY DEF IInv, ClockInv
  <2>2. FileInv'
    BY <1>1, <1>8, <2>1, BasicUsers DEF FileInv, Unreadable
  <2>3. MemInv'
    BY <1>1, <1>3, <1>6, <1>8 DEF IInv, MemInv
  <2>4. SaverInv'
    <3>1. Nobody \notin up
      BY StoreAssumption DEF IInv, MemInv
    <3> QED
      BY <1>1, <1>8, <3>1 DEF IInv, SaverInv
  <2> QED
    BY <1>4, <1>5, <2>2, <2>3, <2>4 DEF IInv
<1> QED
  BY <1>7, <1>8 DEF Op, Changed

----------------------------------------------------------------------------
(* The operations are of that kind.                                         *)

\* What the process and its accounts are like before an operation on one.
LEMMA Before ==
  ASSUME IInv, NEW w \in up \ writing
  PROVE  /\ w \in Workers /\ clock \in Nat \ {0} /\ Well(mem[w], clock)
         /\ DOMAIN mem[w] \subseteq Users /\ Supers(mem[w]) # {}
  BY DEF IInv, ClockInv, MemInv, SuperuserRemains, Well

\* Replacing an account by another with the same role keeps all that matters.
LEMMA Replaced ==
  ASSUME NEW users, NEW u \in DOMAIN users, NEW a, NEW now, Well(users, now),
         Timely(a, now), Supers(users) # {},
         users[u].role = "superuser" /\ a.role # "superuser" =>
            \E v \in Supers(users) : v # u
  PROVE  LET new == [users EXCEPT ![u] = a]
         IN  /\ Well(new, now) /\ Supers(new) # {}
             /\ \A x \in Users \ {u} : Agree(new, users, x)
<1> DEFINE new == [users EXCEPT ![u] = a]
<1>1. DOMAIN new = DOMAIN users /\ new[u] = a
      /\ \A x \in DOMAIN users : x # u => new[x] = users[x]
  OBVIOUS
<1> HIDE DEF new
<1>2. Well(new, now)
  BY <1>1 DEF Well
<1>3. \A x \in Users \ {u} : Agree(new, users, x)
  BY <1>1 DEF Agree
<1>4. Supers(new) # {}
  <2>1. PICK v \in DOMAIN users : users[v].role = "superuser"
    BY DEF Supers
  <2>2. CASE v # u \/ a.role = "superuser"
    BY <1>1, <2>1, <2>2 DEF Supers
  <2>3. CASE v = u /\ a.role # "superuser"
    <3>1. PICK z \in Supers(users) : z # u
      BY <2>1, <2>3
    <3> QED
      BY <1>1, <3>1 DEF Supers
  <2> QED
    BY <2>2, <2>3
<1> QED
  BY <1>2, <1>3, <1>4 DEF new

LEMMA CreateIsOp ==
  ASSUME IInv, NEW w \in Workers, NEW u \in Users, NEW r \in Roles, NEW s \in Statuses,
         Create(w, u, r, s)
  PROVE  \E users : Op(w, u, users)
<1> DEFINE one == [x \in {u} |-> Fresh(r, s)]
           users == Merged(mem[w], one)
<1>1. w \in up \ writing /\ u \notin DOMAIN mem[w] /\ Counted /\ Changed(w, users, u)
      /\ UNCHANGED <<clock, up, starts>>
  BY DEF Create
<1>2. DOMAIN one = {u} /\ one[u] = Fresh(r, s)
  OBVIOUS
<1> HIDE DEF one
<1>3. /\ DOMAIN users = DOMAIN mem[w] \cup {u} /\ users[u] = Fresh(r, s)
      /\ \A x \in DOMAIN mem[w] : users[x] = mem[w][x]
  <2>1. /\ DOMAIN users = DOMAIN mem[w] \cup DOMAIN one
        /\ \A x \in DOMAIN one : users[x] = one[x]
        /\ \A x \in DOMAIN mem[w] \ DOMAIN one : users[x] = mem[w][x]
    BY MergedIs
  <2> HIDE DEF users
  <2> QED
    BY <1>1, <1>2, <2>1
<1> HIDE DEF users
<1>4. /\ clock \in Nat \ {0} /\ Well(mem[w], clock) /\ Supers(mem[w]) # {}
  BY <1>1, Before
<1>5. Timely(Fresh(r, s), clock)
  BY <1>4, BasicUsers
<1>6. Well(users, clock)
  BY <1>3, <1>4, <1>5 DEF Well
<1>7. Supers(users) # {}
  BY <1>3, <1>4 DEF Supers
<1>8. \A x \in Users \ {u} : Agree(users, mem[w], x)
  BY <1>3 DEF Agree
<1> QED
  BY <1>1, <1>6, <1>7, <1>8 DEF Op

\* An update of a role and a status leaves another superuser where it takes one.
LEMMA UpdateIsOp ==
  ASSUME IInv, NEW w \in Workers, NEW u \in Users, NEW r \in Roles,
         NEW s \in Statuses \cup {"same"},
         Update(w, u, r, s) \/ UpdateRefused(w, u, r, s)
  PROVE  \E users : Op(w, u, users)
<1> DEFINE promoted == WithRole(mem[w], u, r)
           users == WithStatus(promoted, u, s)
<1>1. /\ w \in up \ writing /\ u \in DOMAIN mem[w] /\ ~RoleRefused(mem[w], u, r)
      /\ Counted /\ UNCHANGED <<clock, up, starts>>
      /\ Changed(w, users, u) \/ Kept(w, promoted, u)
  BY DEF Update, UpdateRefused, Serves
<1>2. /\ clock \in Nat \ {0} /\ Well(mem[w], clock) /\ Supers(mem[w]) # {}
      /\ DOMAIN mem[w] \subseteq Users /\ Timely(mem[w][u], clock)
  BY <1>1, Before DEF Well
<1> DEFINE a == [mem[w][u] EXCEPT !.role = r]
           b == IF s = "same" THEN a ELSE [a EXCEPT !.status = s]
<1>3. Timely(a, clock) /\ a.role = r
  BY <1>2 DEF Timely
<1>4. Timely(b, clock) /\ b.role = r
  BY <1>3 DEF Timely, Statuses
<1>5. promoted = [mem[w] EXCEPT ![u] = a] /\ users = [mem[w] EXCEPT ![u] = b]
  BY <1>1 DEF WithRole, WithStatus
<1>6. mem[w][u].role = "superuser" /\ r # "superuser" => \E v \in Supers(mem[w]) : v # u
  <2> SUFFICES ASSUME mem[w][u].role = "superuser", r # "superuser"
               PROVE  \E v \in Supers(mem[w]) : v # u
    OBVIOUS
  <2>1. ~(Cardinality(ActiveSupers(mem[w])) <= 1)
    BY <1>1 DEF RoleRefused
  <2>2. \E v \in ActiveSupers(mem[w]) : v # u
    BY <1>2, <2>1, SupersAre, Another
  <2> QED
    BY <2>2 DEF ActiveSupers
<1> HIDE DEF a, b, promoted, users
<1>7. Well(promoted, clock) /\ Supers(promoted) # {}
      /\ \A x \in Users \ {u} : Agree(promoted, mem[w], x)
  BY <1>1, <1>2, <1>3, <1>5, <1>6, Replaced
<1>8. Well(users, clock) /\ Supers(users) # {}
      /\ \A x \in Users \ {u} : Agree(users, mem[w], x)
  BY <1>1, <1>2, <1>4, <1>5, <1>6, Replaced
<1>9. Op(w, u, users) \/ Op(w, u, promoted)
  BY <1>1, <1>7, <1>8 DEF Op
<1> QED
  BY <1>9

\* The account of the last superuser is not deleted.
LEMMA DeleteIsOp ==
  ASSUME IInv, NEW w \in Workers, NEW u \in Users, Delete(w, u)
  PROVE  \E users : Op(w, u, users)
<1> DEFINE users == [x \in DOMAIN mem[w] \ {u} |-> mem[w][x]]
<1>1. w \in up \ writing /\ ~DeleteRefused(mem[w], u) /\ Counted /\ Changed(w, users, u)
      /\ UNCHANGED <<clock, up, starts>>
  BY DEF Delete, Serves
<1>2. DOMAIN users = DOMAIN mem[w] \ {u} /\ \A x \in DOMAIN users : users[x] = mem[w][x]
  OBVIOUS
<1> HIDE DEF users
<1>3. Well(mem[w], clock) /\ Supers(mem[w]) # {} /\ DOMAIN mem[w] \subseteq Users
  BY <1>1, Before
<1>4. \E v \in Supers(mem[w]) : v # u
  <2>1. CASE mem[w][u].role # "superuser"
    BY <1>3, <2>1 DEF Supers
  <2>2. CASE ~(Cardinality(Supers(mem[w])) <= 1)
    BY <1>3, <2>2, SupersAre, Another
  <2> QED
    BY <1>1, <2>1, <2>2 DEF DeleteRefused
<1>5. Well(users, clock) /\ \A x \in Users \ {u} : Agree(users, mem[w], x)
  BY <1>2, <1>3 DEF Well, Agree
<1>6. Supers(users) # {}
  BY <1>2, <1>4 DEF Supers
<1> QED
  BY <1>1, <1>5, <1>6 DEF Op

\* Operations that leave role and status of the account alone.
LEMMA SessionIsOp ==
  ASSUME IInv, NEW w \in Workers, NEW u \in Users,
         ResetPassword(w, u) \/ Login(w, u) \/ Logout(w, u) \/ Heartbeat(w, u)
  PROVE  \E users : Op(w, u, users)
<1>1. /\ w \in up \ writing /\ u \in DOMAIN mem[w] /\ Counted
      /\ UNCHANGED <<clock, up, starts>>
  BY DEF ResetPassword, Login, Logout, Heartbeat, Serves
<1>2. /\ clock \in Nat \ {0} /\ Well(mem[w], clock) /\ Supers(mem[w]) # {}
      /\ DOMAIN mem[w] \subseteq Users /\ Timely(mem[w][u], clock)
  BY <1>1, Before DEF Well
<1>3. ASSUME NEW a, Timely(a, clock), a.role = mem[w][u].role,
             Changed(w, [mem[w] EXCEPT ![u] = a], u)
             \/ Kept(w, [mem[w] EXCEPT ![u] = a], u)
      PROVE  \E users : Op(w, u, users)
  BY <1>1, <1>2, <1>3, Replaced DEF Op
<1>4. CASE ResetPassword(w, u)
  <2>1. \A x \in Users \ {u} : Agree(mem[w], mem[w], x)
    BY DEF Agree
  <2>2. Op(w, u, mem[w])
    BY <1>1, <1>2, <1>4, <2>1 DEF ResetPassword, Op
  <2> QED
    BY <2>2
<1>5. CASE Login(w, u) \/ Heartbeat(w, u)
  <2> DEFINE a == [mem[w][u] EXCEPT !.start = clock]
  <2>1. Timely(a, clock) /\ a.role = mem[w][u].role
    BY <1>2 DEF Timely
  <2>2. Changed(w, [mem[w] EXCEPT ![u] = a], u) \/ Kept(w, [mem[w] EXCEPT ![u] = a], u)
    BY <1>1, <1>5 DEF Login, Heartbeat
  <2> QED
    BY <1>3, <2>1, <2>2
<1>6. CASE Logout(w, u)
  <2> DEFINE a == SessionOver(mem[w][u])
  <2> DEFINE up1 == mem[w][u].uptime + Elapsed(mem[w][u])
  <2>1. mem[w][u] \in [role : Roles, status : Statuses, start : 0 .. clock,
                       uptime : 0 .. clock]
    BY <1>2 DEF Timely
  <2>2. up1 \in 0 .. clock /\ up1 < clock
    BY <1>2 DEF Timely, Elapsed
  <2>3. a = [mem[w][u] EXCEPT !.uptime = up1, !.start = 0]
    BY DEF SessionOver
  <2> HIDE DEF up1, a
  <2>4. /\ a \in [role : Roles, status : Statuses, start : 0 .. clock, uptime : 0 .. clock]
        /\ a.start = 0 /\ a.uptime = up1 /\ a.role = mem[w][u].role
    <3>1. 0 \in 0 .. clock
      BY <1>2
    <3> QED
      BY <2>1, <2>2, <2>3, <3>1
  <2>5. Timely(a, clock)
    BY <2>2, <2>4 DEF Timely
  <2>6. Changed(w, [mem[w] EXCEPT ![u] = a], u)
    BY <1>1, <1>6 DEF Logout, a
  <2> QED
    BY <1>3, <2>4, <2>5, <2>6
<1> QED
  BY <1>4, <1>5, <1>6

----------------------------------------------------------------------------
(* The other steps, and the invariant.                                      *)

\* No process runs, and there is no file.
LEMMA InitInv == Init => IInv
<1> SUFFICES ASSUME Init PROVE IInv
  OBVIOUS
<1> USE DEF Init
<1>1. clock \in Nat \ {0}
  OBVIOUS
<1>2. ClockInv
  BY StoreAssumption DEF ClockInv
<1>3. FileInv
  BY <1>1, BasicUsers DEF FileInv, NoFile
<1>4. MemInv
  BY <1>1, BasicUsers DEF MemInv
<1>5. SuperuserRemains /\ SaverInv
  BY DEF SuperuserRemains, SaverInv
<1> QED
  BY <1>2, <1>3, <1>4, <1>5 DEF IInv

\* Sessions that are over and sessions that are open were before now.
LEMMA TickInv == IInv /\ Tick => IInv'
<1> SUFFICES ASSUME IInv, Tick PROVE IInv'
  OBVIOUS
<1>1. /\ clock < MaxTime /\ clock' = clock + 1 /\ clock \in Nat
      /\ file' = file /\ up' = up /\ mem' = mem
      /\ writing' = writing /\ crossed' = crossed
      /\ ops' = ops /\ starts' = starts /\ lastSaver' = lastSaver /\ unsaved' = unsaved
  BY DEF IInv, ClockInv, Tick, bounds, history, saving
<1>2. ClockInv'
  BY <1>1, StoreAssumption DEF IInv, ClockInv
<1>3. FileInv'
  <2>1. Well(file.users, clock + 1)
    BY <1>1, LaterWell DEF IInv, FileInv
  <2> QED
    BY <1>1, <2>1 DEF IInv, FileInv
<1>4. MemInv'
  <2>1. \A w \in Workers : Well(mem[w], clock + 1)
    BY <1>1, LaterWell DEF IInv, MemInv
  <2> QED
    BY <1>1, <2>1 DEF IInv, MemInv
<1>5. SuperuserRemains' /\ SaverInv'
  BY <1>1 DEF IInv, SuperuserRemains, SaverInv
<1> QED
  BY <1>2, <1>3, <1>4, <1>5 DEF IInv

\* The defaults stay under what the file adds, and a file of accounts was
\* written by a process with a superuser.
LEMMA StartInv == ASSUME IInv, NEW w \in Workers, Start(w) PROVE IInv'
<1>1. /\ w \notin up /\ starts < MaxStarts /\ up' = up \cup {w} /\ starts' = starts + 1
      /\ mem' = [mem EXCEPT ![w] = Loaded(file')]
      /\ lastSaver' = IF lastSaver = w THEN Nobody ELSE lastSaver
      /\ unsaved' = [unsaved EXCEPT ![w] = {}]
      /\ clock' = clock /\ writing' = writing /\ crossed' = crossed /\ ops' = ops
      /\ (file.kind # "none" => file' = file)
  BY DEF Start, saving
<1>2. clock \in Nat \ {0}
  BY DEF IInv, ClockInv
<1>3. ClockInv'
  BY <1>1, StoreAssumption DEF IInv, ClockInv
<1>4. FileInv'
  <2>1. CASE file' = file
    BY <1>1, <2>1 DEF IInv, FileInv
  <2>2. CASE file' \in {Contents(DefaultUsers), NoFile, Unreadable}
    BY <1>1, <1>2, <2>2, BasicUsers DEF FileInv, Contents, NoFile, Unreadable
  <2> QED
    BY <2>1, <2>2 DEF Start, Initialised
<1> DEFINE users == Loaded(file')
<1>5. Well(users, clock) /\ Supers(users) # {}
  <2>1. Well(DefaultUsers, clock) /\ Supers(DefaultUsers) # {}
    BY <1>2, BasicUsers
  <2>2. CASE file'.kind # "saved"
    BY <2>1, <2>2 DEF Loaded
  <2>3. CASE file'.kind = "saved"
    <3>1. Well(file'.users, clock) /\ Supers(file'.users) # {}
      BY <1>1, <1>4, <2>3 DEF FileInv
    <3>2. users = Merged(DefaultUsers, file'.users)
      BY <2>3 DEF Loaded
    <3>3. /\ DOMAIN users = DOMAIN DefaultUsers \cup DOMAIN file'.users
          /\ \A u \in DOMAIN file'.users : users[u] = file'.users[u]
          /\ \A u \in DOMAIN DefaultUsers \ DOMAIN file'.users :
                users[u] = DefaultUsers[u]
      <4>1. /\ DOMAIN Merged(DefaultUsers, file'.users)
                 = DOMAIN DefaultUsers \cup DOMAIN file'.users
            /\ \A u \in DOMAIN file'.users :
                  Merged(DefaultUsers, file'.users)[u] = file'.users[u]
            /\ \A u \in DOMAIN DefaultUsers \ DOMAIN file'.users :
                  Merged(DefaultUsers, file'.users)[u] = DefaultUsers[u]
        BY MergedIs
      <4> HIDE DEF users
      <4> QED
        BY <3>2, <4>1
    <3> HIDE DEF users
    <3>4. Well(users, clock)
      BY <2>1, <3>1, <3>3 DEF Well
    <3>5. Supers(users) # {}
      BY <3>1, <3>3 DEF Supers
    <3> QED
      BY <3>4, <3>5
  <2> QED
    BY <2>2, <2>3
<1> HIDE DEF users
<1>6. /\ DOMAIN mem' = Workers /\ mem'[w] = users
      /\ \A v \in Workers : v # w => mem'[v] = mem[v]
  BY <1>1 DEF IInv, MemInv, users
<1>7. MemInv'
  <2>1. \A v \in Workers : Well(mem'[v], clock')
    BY <1>1, <1>5, <1>6 DEF IInv, MemInv
  <2> QED
    BY <1>1, <1>6, <2>1 DEF IInv, MemInv
<1>8. SuperuserRemains'
  <2>1. \A v \in up' : Supers(mem'[v]) # {}
    BY <1>1, <1>5, <1>6 DEF IInv, MemInv, SuperuserRemains
  <2> QED
    BY <2>1 DEF SuperuserRemains
<1>9. SaverInv'
  <2>1. unsaved' \in [Workers -> SUBSET Users]
        /\ \A v \in Workers : v # w => unsaved'[v] = unsaved[v]
    BY <1>1 DEF IInv, SaverInv
  <2>2. lastSaver' \in Workers \cup {Nobody} /\ (lastSaver' # Nobody => file' = file)
        /\ (lastSaver' # Nobody => lastSaver' = lastSaver /\ lastSaver # w)
    BY <1>1 DEF IInv, SaverInv
  <2>3. lastSaver' # Nobody => file'.kind # "none"
    BY <2>2 DEF IInv, SaverInv
  <2>4. ASSUME lastSaver' \in up', NEW x \in Users \ unsaved'[lastSaver']
        PROVE  Agree(file'.users, mem'[lastSaver'], x)
    <3>1. Nobody \notin up'
      BY <1>1, StoreAssumption DEF IInv, MemInv
    <3>2. lastSaver' = lastSaver /\ lastSaver # w /\ lastSaver \in up /\ file' = file
          /\ lastSaver \in Workers
      BY <1>1, <2>2, <2>4, <3>1 DEF IInv, MemInv
    <3>3. x \in Users \ unsaved[lastSaver]
      BY <2>1, <2>4, <3>2
    <3>4. Agree(file.users, mem[lastSaver], x)
      BY <3>2, <3>3 DEF IInv, SaverInv
    <3>5. mem'[lastSaver'] = mem[lastSaver]
      BY <1>6, <3>2
    <3> QED
      BY <3>2, <3>4, <3>5
  <2> QED
    BY <2>1, <2>2, <2>3, <2>4 DEF SaverInv
<1> QED
  BY <1>3, <1>4, <1>7, <1>8, <1>9 DEF IInv

\* What a process kept in memory goes with it.
LEMMA EndInv == ASSUME IInv, NEW w \in Workers, End(w) PROVE IInv'
<1>1. /\ up' = up \ {w} /\ writing' = writing \ {w} /\ mem' = [mem EXCEPT ![w] = NoUsers]
      /\ crossed' = crossed \ {w}
      /\ clock' = clock /\ file' = file /\ ops' = ops /\ starts' = starts
      /\ lastSaver' = lastSaver /\ unsaved' = unsaved
  BY DEF End, bounds
<1>2. /\ DOMAIN mem' = Workers /\ mem'[w] = NoUsers
      /\ \A v \in Workers : v # w => mem'[v] = mem[v]
  BY <1>1 DEF IInv, MemInv
<1>3. ClockInv' /\ FileInv'
  BY <1>1 DEF IInv, ClockInv, FileInv
<1>4. MemInv'
  <2>1. \A v \in Workers : Well(mem'[v], clock)
    BY <1>2, BasicUsers DEF IInv, ClockInv, MemInv
  <2> QED
    BY <1>1, <1>2, <2>1 DEF IInv, MemInv
<1>5. \A v \in up' : v \in up /\ v \in Workers /\ mem'[v] = mem[v]
  BY <1>1, <1>2 DEF IInv, MemInv
<1>6. SuperuserRemains'
  <2>1. \A v \in up' : Supers(mem'[v]) # {}
    BY <1>5 DEF IInv, SuperuserRemains
  <2> QED
    BY <2>1 DEF SuperuserRemains
<1>7. SaverInv'
  BY <1>1, <1>5 DEF IInv, SaverInv
<1> QED
  BY <1>3, <1>4, <1>6, <1>7 DEF IInv

\* A piece of a save makes the file unreadable.
LEMMA WritePartInv == ASSUME IInv, NEW w \in Workers, WritePart(w) PROVE IInv'
<1>1. /\ writing' = writing /\ crossed' = crossed /\ file' = Unreadable
      /\ clock' = clock /\ up' = up /\ mem' = mem /\ ops' = ops /\ starts' = starts
      /\ lastSaver' = Nobody /\ unsaved' = unsaved
  BY DEF WritePart, bounds, saving
<1>2. ClockInv' /\ MemInv' /\ SuperuserRemains'
  BY <1>1 DEF IInv, ClockInv, MemInv, SuperuserRemains
<1>3. FileInv'
  BY <1>1, BasicUsers DEF IInv, ClockInv, FileInv, Unreadable
<1>4. Nobody \notin up
  BY StoreAssumption DEF IInv, MemInv
<1>5. SaverInv'
  BY <1>1, <1>4 DEF IInv, SaverInv
<1> QED
  BY <1>2, <1>3, <1>5 DEF IInv

\* The file becomes what the process holds, or unreadable.
LEMMA FlushInv == ASSUME IInv, NEW w \in Workers, Flush(w) PROVE IInv'
<1>1. /\ w \in writing /\ writing' = writing \ {w} /\ crossed' = crossed \ {w}
      /\ clock' = clock /\ up' = up /\ mem' = mem /\ ops' = ops /\ starts' = starts
  BY DEF Flush, bounds
<1>2. w \in up /\ clock \in Nat \ {0} /\ Well(mem[w], clock) /\ Supers(mem[w]) # {}
  BY <1>1 DEF IInv, ClockInv, MemInv, SuperuserRemains
<1>3. ClockInv' /\ MemInv' /\ SuperuserRemains'
  BY <1>1 DEF IInv, ClockInv, MemInv, SuperuserRemains
<1>4. CASE file' = Contents(mem[w]) /\ lastSaver' = w /\ unsaved' = [unsaved EXCEPT ![w] = {}]
  <2>1. file'.kind = "saved" /\ file'.users = mem[w]
    BY <1>4 DEF Contents
  <2>2. FileInv'
    BY <1>1, <1>2, <2>1 DEF FileInv
  <2>3. unsaved' \in [Workers -> SUBSET Users]
    BY <1>4 DEF IInv, SaverInv
  <2>4. \A x \in Users : Agree(file'.users, mem'[lastSaver'], x)
    BY <1>1, <1>4, <2>1 DEF Agree
  <2>5. SaverInv'
    BY <1>4, <2>1, <2>3, <2>4 DEF SaverInv
  <2> QED
    BY <1>3, <2>2, <2>5 DEF IInv
<1>5. CASE file' = Unreadable /\ lastSaver' = Nobody /\ unsaved' = unsaved
  <2>1. FileInv'
    BY <1>1, <1>2, <1>5, BasicUsers DEF FileInv, Unreadable
  <2>2. Nobody \notin up
    BY StoreAssumption DEF IInv, MemInv
  <2>3. SaverInv'
    BY <1>1, <1>5, <2>2 DEF IInv, SaverInv
  <2> QED
    BY <1>3, <2>1, <2>3 DEF IInv
<1> QED
  BY <1>4, <1>5 DEF Flush

\* The invariant the results rest on.
THEOREM Invariance == Spec => []IInv
<1>1. ASSUME IInv, NEW w \in Workers, NEW u \in Users, Account(w, u) PROVE IInv'
  <2>1. \E users : Op(w, u, users)
    BY <1>1, CreateIsOp, UpdateIsOp, DeleteIsOp, SessionIsOp DEF Account
  <2> QED
    BY <1>1, <2>1, OpInv
<1>2. IInv /\ Next => IInv'
  BY <1>1, TickInv, StartInv, EndInv, WritePartInv, FlushInv DEF Next, Process
<1>3. IInv /\ UNCHANGED vars => IInv'
  BY DEF IInv, ClockInv, FileInv, MemInv, SuperuserRemains, SaverInv, vars, bounds,
         history, saving
<1> QED
  BY <1>2, <1>3, InitInv, PTL DEF Spec

----------------------------------------------------------------------------
(* Results.                                                                 *)

\* But for what is told apart as unsaved, the file is what its last writer holds.
THEOREM ChangesReachTheFile == Spec => []FileIsLastSavers
<1>1. IInv => FileIsLastSavers
  BY DEF IInv, SaverInv, Agree, FileIsLastSavers
<1> QED
  BY <1>1, Invariance, PTL

\* The sessions of an account, the open one too, fit into the time that passed.
THEOREM TimeIsCountedOnce == Spec => []UptimeWithinTime
<1>1. IInv => UptimeWithinTime
  <2> SUFFICES ASSUME IInv, NEW w \in up, NEW u \in DOMAIN mem[w]
               PROVE  mem[w][u].uptime + Elapsed(mem[w][u]) < clock
    BY DEF UptimeWithinTime
  <2>1. clock \in Nat /\ Timely(mem[w][u], clock)
    BY DEF IInv, ClockInv, MemInv, Well
  <2> QED
    BY <2>1 DEF Timely, Elapsed
<1> QED
  BY <1>1, Invariance, PTL

\* Every variable keeps its type: no uptime outgrows the time that passed.
THEOREM TypeCorrect == Spec => []TypeOK
<1>1. IInv => TypeOK
  <2> SUFFICES ASSUME IInv PROVE TypeOK
    OBVIOUS
  <2>1. ASSUME NEW users, Well(users, clock) PROVE IsUsers(users)
    <3>1. clock \in Nat /\ clock <= MaxTime /\ MaxTime \in Nat
      BY StoreAssumption DEF IInv, ClockInv
    <3>2. ASSUME NEW u \in DOMAIN users PROVE users[u] \in Accounts
      <4>1. Timely(users[u], clock)
        BY <2>1 DEF Well
      <4> QED
        BY <3>1, <4>1 DEF Timely, Accounts
    <3> QED
      BY <2>1, <3>2 DEF Well, IsUsers
  <2> QED
    BY <2>1 DEF IInv, ClockInv, FileInv, MemInv, SaverInv, TypeOK
<1> QED
  BY <1>1, Invariance, PTL

----------------------------------------------------------------------------
(* How the last active superuser goes.                                      *)

KeepsAdmin(w) ==
    ActiveSupers(mem[w]) # {} /\ ActiveSupers(mem'[w]) = {} =>
        /\ Supers(mem'[w]) # {}
        /\ \E u \in ActiveSupers(mem[w]) : DOMAIN mem'[w] = DOMAIN mem[w] \ {u}

IsActiveSuper(a) == a.role = "superuser" /\ a.status = "active"

\* An account may stop being an active superuser if there is another.
LEMMA ReplacedActive ==
  ASSUME NEW users, NEW u \in DOMAIN users, NEW a, ActiveSupers(users) # {},
         IsActiveSuper(users[u]) /\ ~IsActiveSuper(a) =>
            \E v \in ActiveSupers(users) : v # u
  PROVE  ActiveSupers([users EXCEPT ![u] = a]) # {}
<1> DEFINE new == [users EXCEPT ![u] = a]
<1>1. DOMAIN new = DOMAIN users /\ new[u] = a
      /\ \A x \in DOMAIN users : x # u => new[x] = users[x]
  OBVIOUS
<1> HIDE DEF new
<1>2. \A v \in ActiveSupers(users) : v # u => v \in ActiveSupers(new)
  BY <1>1 DEF ActiveSupers, Supers
<1>3. IsActiveSuper(a) => u \in ActiveSupers(new)
  BY <1>1 DEF ActiveSupers, Supers, IsActiveSuper
<1>4. ~IsActiveSuper(users[u]) => u \notin ActiveSupers(users)
  BY DEF ActiveSupers, Supers, IsActiveSuper
<1>5. ActiveSupers(new) # {}
  BY <1>2, <1>3, <1>4
<1> QED
  BY <1>5 DEF new

\* Both refusals look at the accounts as the request has left them so far.
LEMMA UpdateKeeps ==
  ASSUME IInv, NEW w \in Workers, NEW u \in Users, NEW r \in Roles,
         NEW s \in Statuses \cup {"same"},
         Update(w, u, r, s) \/ UpdateRefused(w, u, r, s)
  PROVE  KeepsAdmin(w)
<1> DEFINE a == [mem[w][u] EXCEPT !.role = r]
           b == IF s = "same" THEN a ELSE [a EXCEPT !.status = s]
           promoted == [mem[w] EXCEPT ![u] = a]
           users == [mem[w] EXCEPT ![u] = b]
<1>1. /\ w \in up \ writing /\ u \in DOMAIN mem[w] /\ ~RoleRefused(mem[w], u, r)
      /\ \/ Update(w, u, r, s) /\ ~StatusRefused(promoted, u, s) /\ mem' = [mem EXCEPT ![w] = users]
         \/ mem' = [mem EXCEPT ![w] = promoted]
  <2>1. WithRole(mem[w], u, r) = promoted
    BY DEF WithRole
  <2>2. u \in DOMAIN mem[w]
    BY DEF Update, UpdateRefused, Serves
  <2>3. WithStatus(promoted, u, s) = users
    BY <2>2 DEF WithStatus
  <2> HIDE DEF promoted, users
  <2> QED
    BY <2>1, <2>2, <2>3 DEF Update, UpdateRefused, Serves, Changed, Kept
<1>2. Well(mem[w], clock) /\ DOMAIN mem[w] \subseteq Users /\ DOMAIN mem = Workers
      /\ mem[w][u] \in [role : Roles, status : Statuses, start : 0 .. clock, uptime : 0 .. clock]
  BY <1>1, Before DEF IInv, MemInv, Well, Timely
<1>3. a.role = r /\ a.status = mem[w][u].status
  BY <1>2
<1>4. b.role = r /\ (s # "same" => b.status = s) /\ (s = "same" => b = a)
  BY <1>2, <1>3
<1>5. mem[w][u].role = "superuser" /\ r # "superuser" => \E v \in ActiveSupers(mem[w]) : v # u
  <2> SUFFICES ASSUME mem[w][u].role = "superuser", r # "superuser"
               PROVE  \E v \in ActiveSupers(mem[w]) : v # u
    OBVIOUS
  <2>1. ~(Cardinality(ActiveSupers(mem[w])) <= 1)
    BY <1>1 DEF RoleRefused
  <2> QED
    BY <1>2, <2>1, SupersAre, Another
<1>6. SUFFICES ASSUME ActiveSupers(mem[w]) # {} PROVE ActiveSupers(mem'[w]) # {}
  BY DEF KeepsAdmin
<1>7. ActiveSupers(promoted) # {}
  <2>1. IsActiveSuper(mem[w][u]) /\ ~IsActiveSuper(a) => \E v \in ActiveSupers(mem[w]) : v # u
    BY <1>3, <1>5 DEF IsActiveSuper
  <2> HIDE DEF a
  <2> QED
    BY <1>1, <1>6, <2>1, ReplacedActive
<1>8. CASE mem' = [mem EXCEPT ![w] = promoted]
  BY <1>2, <1>7, <1>8
<1>9. CASE ~StatusRefused(promoted, u, s) /\ mem' = [mem EXCEPT ![w] = users]
  <2>1. DOMAIN promoted = DOMAIN mem[w] /\ promoted[u] = a
        /\ (\A x \in DOMAIN mem[w] : x # u => promoted[x] = mem[w][x])
        /\ users = [promoted EXCEPT ![u] = b]
    BY <1>1
  <2> HIDE DEF a, b, promoted, users
  <2>2. IsActiveSuper(promoted[u]) /\ ~IsActiveSuper(b) => \E v \in ActiveSupers(promoted) : v # u
    <3> SUFFICES ASSUME IsActiveSuper(promoted[u]), ~IsActiveSuper(b)
                 PROVE  \E v \in ActiveSupers(promoted) : v # u
      OBVIOUS
    <3>1. a.role = "superuser" /\ s = "disabled"
      BY <1>3, <1>4, <2>1 DEF IsActiveSuper, Statuses
    <3>2. ~(Cardinality(ActiveSupers(promoted)) <= 1)
      BY <1>9, <2>1, <3>1 DEF StatusRefused
    <3> QED
      BY <1>2, <2>1, <3>2, SupersAre, Another
  <2>3. ActiveSupers(users) # {}
    BY <1>1, <1>7, <2>1, <2>2, ReplacedActive
  <2> QED
    BY <1>2, <1>9, <2>3
<1> QED
  BY <1>1, <1>8, <1>9

\* The other operations leave roles and statuses alone, or take the account away.
LEMMA AccountKeeps ==
  ASSUME IInv, NEW w \in Workers, NEW u \in Users, Account(w, u)
  PROVE  KeepsAdmin(w)
<1>0. w \in up \ writing /\ DOMAIN mem = Workers
  BY DEF Account, Create, Update, UpdateRefused, Delete, ResetPassword, Login, Logout,
         Heartbeat, Serves, IInv, MemInv
<1>1. ASSUME NEW r \in Roles, NEW s \in Statuses, Create(w, u, r, s) PROVE KeepsAdmin(w)
  <2> DEFINE one == [x \in {u} |-> Fresh(r, s)]
             users == Merged(mem[w], one)
  <2>1. u \notin DOMAIN mem[w] /\ mem' = [mem EXCEPT ![w] = users]
    BY <1>1 DEF Create, Changed, Kept
  <2>2. DOMAIN one = {u}
    OBVIOUS
  <2>3. /\ DOMAIN users = DOMAIN mem[w] \cup DOMAIN one
        /\ \A x \in DOMAIN mem[w] \ DOMAIN one : users[x] = mem[w][x]
    BY MergedIs
  <2> HIDE DEF one, users
  <2>4. \A v \in ActiveSupers(mem[w]) : v \in ActiveSupers(users)
    BY <2>1, <2>2, <2>3 DEF ActiveSupers, Supers
  <2> QED
    BY <1>0, <2>1, <2>4 DEF KeepsAdmin
<1>2. CASE Delete(w, u)
  <2>1. mem' = [mem EXCEPT ![w] = [x \in DOMAIN mem[w] \ {u} |-> mem[w][x]]]
    BY <1>2 DEF Delete, Changed, Kept
  <2>2. DOMAIN mem'[w] = DOMAIN mem[w] \ {u}
        /\ \A x \in DOMAIN mem'[w] : mem'[w][x] = mem[w][x]
    BY <1>0, <2>1
  <2>3. Supers(mem'[w]) # {}
    <3>1. PICK users : Op(w, u, users)
      BY <1>0, <1>2, DeleteIsOp DEF IInv, MemInv
    <3>2. IInv' /\ up' = up
      BY <1>0, <3>1, OpInv DEF IInv, MemInv, Op
    <3> QED
      BY <1>0, <3>2 DEF IInv, SuperuserRemains
  <2>4. CASE u \in ActiveSupers(mem[w])
    BY <2>2, <2>3, <2>4 DEF KeepsAdmin
  <2>5. CASE u \notin ActiveSupers(mem[w])
    <3>1. \A v \in ActiveSupers(mem[w]) : v \in ActiveSupers(mem'[w])
      BY <2>2, <2>5 DEF ActiveSupers, Supers
    <3> QED
      BY <3>1 DEF KeepsAdmin
  <2> QED
    BY <2>4, <2>5
<1>3. CASE ResetPassword(w, u)
  BY <1>0, <1>3 DEF ResetPassword, Changed, Kept, KeepsAdmin
<1>4. ASSUME NEW a, u \in DOMAIN mem[w], a.role = mem[w][u].role, a.status = mem[w][u].status,
             mem' = [mem EXCEPT ![w] = [mem[w] EXCEPT ![u] = a]]
      PROVE  KeepsAdmin(w)
  <2>1. mem'[w] = [mem[w] EXCEPT ![u] = a]
    BY <1>0, <1>4
  <2>2. IsActiveSuper(mem[w][u]) => IsActiveSuper(a)
    BY <1>4 DEF IsActiveSuper
  <2>3. ActiveSupers(mem[w]) # {} => ActiveSupers([mem[w] EXCEPT ![u] = a]) # {}
    BY <1>4, <2>2, ReplacedActive
  <2> QED
    BY <2>1, <2>3 DEF KeepsAdmin
<1>5. u \in DOMAIN mem[w] =>
         mem[w][u] \in [role : Roles, status : Statuses, start : 0 .. clock, uptime : 0 .. clock]
  BY <1>0, Before DEF Well, Timely
<1>6. CASE Login(w, u) \/ Heartbeat(w, u)
  <2> DEFINE a == [mem[w][u] EXCEPT !.start = clock]
  <2>1. u \in DOMAIN mem[w] /\ mem' = [mem EXCEPT ![w] = [mem[w] EXCEPT ![u] = a]]
    BY <1>6 DEF Login, Heartbeat, Serves, Changed, Kept
  <2>2. a.role = mem[w][u].role /\ a.status = mem[w][u].status
    BY <1>5, <2>1
  <2> QED
    BY <1>4, <2>1, <2>2
<1>7. CASE Logout(w, u)
  <2> DEFINE a == SessionOver(mem[w][u])
  <2>1. u \in DOMAIN mem[w] /\ mem' = [mem EXCEPT ![w] = [mem[w] EXCEPT ![u] = a]]
    BY <1>7 DEF Logout, Serves, Changed, Kept
  <2>2. a.role = mem[w][u].role /\ a.status = mem[w][u].status
    BY <1>5, <2>1 DEF SessionOver
  <2> QED
    BY <1>4, <2>1, <2>2
<1> QED
  BY <1>1, <1>2, <1>3, <1>6, <1>7, UpdateKeeps DEF Account

\* The last active superuser goes only by a deletion, while a disabled one stays.
THEOREM AdminIsKept == Spec => LastAdminGoesByDeletion
<1>1. ASSUME IInv, Next, NEW w \in up \cap up' PROVE KeepsAdmin(w)
  <2>0. w \in Workers /\ DOMAIN mem = Workers
    BY <1>1 DEF IInv, MemInv
  <2>1. CASE mem'[w] = mem[w]
    BY <2>1 DEF KeepsAdmin
  <2>2. CASE Tick
    BY <2>1, <2>2 DEF Tick
  <2>3. ASSUME NEW v \in Workers, Process(v) PROVE KeepsAdmin(w)
    <3>1. mem'[w] = mem[w]
      BY <1>1, <2>0, <2>3 DEF Process, Start, End, WritePart, Flush
    <3> QED
      BY <2>1, <3>1
  <2>4. ASSUME NEW v \in Workers, NEW u \in Users, Account(v, u) PROVE KeepsAdmin(w)
    <3>1. CASE v = w
      BY <1>1, <2>4, <3>1, AccountKeeps
    <3>2. CASE v # w
      <4>1. \E users : mem' = [mem EXCEPT ![v] = users]
        BY <2>4 DEF Account, Create, Update, UpdateRefused, Delete, ResetPassword, Login,
                    Logout, Heartbeat, Changed, Kept
      <4>2. mem'[w] = mem[w]
        BY <2>0, <3>2, <4>1
      <4> QED
        BY <2>1, <4>2
    <3> QED
      BY <3>1, <3>2
  <2> QED
    BY <1>1, <2>2, <2>3, <2>4 DEF Next
<1>2. IInv /\ [Next]_vars =>
        [\A w \in up \cap up' :
            ActiveSupers(mem[w]) # {} /\ ActiveSupers(mem'[w]) = {} =>
                /\ Supers(mem'[w]) # {}
                /\ \E u \in ActiveSupers(mem[w]) :
                      DOMAIN mem'[w] = DOMAIN mem[w] \ {u}]_vars
  BY <1>1 DEF KeepsAdmin
<1> QED
  BY <1>2, Invariance, PTL DEF Spec, LastAdminGoesByDeletion
=============================================================================
