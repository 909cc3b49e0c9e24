----------------------------- MODULE WsHubProofs -----------------------------
(***************************************************************************)
(* Proofs about WsHub, for any connections, messages, pings and capacity:   *)
(* its types (TypeCorrect), that the pool is what the endpoints say it is   *)
(* (PoolIsRight), and that every connection a broadcast has passed has its  *)
(* message once (EveryMemberHasIt).                                         *)
(*                                                                         *)
(* What Without leaves of a list is proved by induction on its positions.   *)
(* The induction is stated with a set of numbers, from the minimum that the *)
(* library proves every set of numbers to have.                             *)
(***************************************************************************)
EXTENDS WsHub, FiniteSetTheorems, WellFoundedInduction, TLAPS

Elems(list) == {list[k] : k \in DOMAIN list}
Distinct(list) == \A i, j \in DOMAIN list : list[i] = list[j] => i = j

Serving == {"receiving", "answering"}

\* The pool lists every connection once at most, of endpoints that serve only,
\* and all of those whose clients are there.
PoolInv ==
    /\ Distinct(active)
    /\ \A c \in Elems(active) : endpoint[c] \in Serving
    /\ \A c \in Conns : endpoint[c] \in Serving /\ peer[c] = "open" => c \in Elems(active)
    /\ \A c \in Conns : endpoint[c] = "idle" <=> peer[c] = "away"

\* A broadcast goes over different connections, each of which had a client, and
\* holds for dead only those whose client has gone.
CastInv ==
    \A m \in Msgs :
        /\ Distinct(snapshot[m])
        /\ cast[m] \in {"unscheduled", "scheduled"} => at[m] = 1
        /\ at[m] - 1 <= Len(snapshot[m])
        /\ cast[m] = "sending" => at[m] <= Len(snapshot[m])
        /\ \A c \in Elems(snapshot[m]) : peer[c] # "away"
        /\ \A c \in dead[m] : peer[c] = "gone"

\* The two halves of EachMemberOnce.
Passed(m, c) == \E k \in 1 .. at[m] - 1 : snapshot[m][k] = c
Copies(m, c) == Times(got[c], m) + Times(outbox[c], m)

Once(m, c) ==
    /\ Copies(m, c) <= IF Passed(m, c) THEN 1 ELSE 0
    /\ Passed(m, c) /\ peer[c] = "open" => Copies(m, c) = 1

OnceInv == \A m \in Msgs, c \in Conns : Once(m, c)

IInv == TypeOK /\ PoolInv /\ CastInv /\ OnceInv

----------------------------------------------------------------------------
(* Induction, and what a recursive definition computes.                     *)

\* A set that holds 0, and with each number the next one, holds all numbers.
LEMMA Induction ==
  ASSUME NEW T \in SUBSET Nat, 0 \in T, \A n \in T : n + 1 \in T
  PROVE  T = Nat
<1> SUFFICES ASSUME Nat \ T # {} PROVE FALSE
  OBVIOUS
<1>1. PICK x \in Nat \ T : \A y \in Nat \ T : ~ (<<y, x>> \in OpToRel(<, Nat))
  <2>1. Nat \ T \subseteq Nat
    OBVIOUS
  <2> QED
    BY <2>1, WFMin, NatLessThanWellFounded
<1>2. x # 0 /\ x - 1 \in Nat
  OBVIOUS
<1>3. x - 1 \notin T
  BY <1>2
<1>4. <<x - 1, x>> \in OpToRel(<, Nat)
  BY <1>2 DEF OpToRel
<1> QED
  BY <1>1, <1>2, <1>3, <1>4

\* What Without keeps of the first i members.
Keep(list, S, f, i) ==
    IF i = 0 THEN <<>>
    ELSE IF list[i] \in S THEN f[i - 1] ELSE Append(f[i - 1], list[i])

Kept(list, S, n, f) == [i \in 0 .. n |-> Keep(list, S, f, i)]

LEMMA KeptAt ==
  ASSUME NEW list, NEW S, NEW n, NEW f, f = Kept(list, S, n, f)
  PROVE  DOMAIN f = 0 .. n /\ \A i \in 0 .. n : f[i] = Keep(list, S, f, i)
<1>1. \A i \in 0 .. n : Kept(list, S, n, f)[i] = Keep(list, S, f, i)
  BY DEF Kept
<1>2. DOMAIN Kept(list, S, n, f) = 0 .. n
  BY DEF Kept
<1> QED
  BY <1>1, <1>2, Zenon

\* The function that Without defines by recursion exists.
LEMMA KeptExists ==
  ASSUME NEW list, NEW S, NEW n \in Nat
  PROVE  \E f : f = Kept(list, S, n, f)
<1> DEFINE T == {k \in Nat : \E f : f = Kept(list, S, k, f)}
<1>1. 0 \in T
  <2> DEFINE f == [i \in 0 .. 0 |-> <<>>]
  <2>1. f = Kept(list, S, 0, f)
    BY DEF Kept, Keep
  <2> HIDE DEF f
  <2> QED
    BY <2>1
<1>2. ASSUME NEW k \in T PROVE k + 1 \in T
  <2>1. PICK f : f = Kept(list, S, k, f)
    OBVIOUS
  <2> DEFINE g == [i \in 0 .. k + 1 |-> Keep(list, S, f, i)]
  <2>2. \A i \in 0 .. k : g[i] = f[i]
    BY <2>1, KeptAt
  <2>3. g = Kept(list, S, k + 1, g)
    <3>1. \A i \in 0 .. k + 1 : i # 0 => i - 1 \in 0 .. k
      OBVIOUS
    <3>2. \A i \in 0 .. k + 1 : i # 0 => g[i - 1] = f[i - 1]
      BY <3>1, <2>2
    <3>3. \A i \in 0 .. k + 1 : g[i] = Keep(list, S, g, i)
      BY <3>2 DEF Keep
    <3>4. DOMAIN g = 0 .. k + 1 /\ g = [i \in 0 .. k + 1 |-> g[i]]
      OBVIOUS
    <3> HIDE DEF g
    <3> QED
      BY <3>3, <3>4 DEF Kept
  <2> HIDE DEF g
  <2> QED
    BY <2>3
<1>3. T = Nat
  <2>1. T \in SUBSET Nat
    OBVIOUS
  <2> HIDE DEF T
  <2> QED
    BY <1>1, <1>2, <2>1, Induction
<1> QED
  BY <1>3

LEMMA WithoutIsKept ==
  ASSUME NEW list, NEW S, Len(list) \in Nat
  PROVE  \E f : f = Kept(list, S, Len(list), f) /\ Without(list, S) = f[Len(list)]
<1> DEFINE f == CHOOSE g : g = Kept(list, S, Len(list), g)
<1>1. f = Kept(list, S, Len(list), f)
  BY KeptExists
<1>2. Without(list, S) = f[Len(list)]
  BY Zenon DEF Without, Kept, Keep
<1> QED
  BY <1>1, <1>2

----------------------------------------------------------------------------
(* Facts about lists.                                                       *)

LEMMA AppendIs ==
  ASSUME NEW X, NEW list \in Seq(X), NEW x \in X
  PROVE  /\ Append(list, x) \in Seq(X) /\ Len(Append(list, x)) = Len(list) + 1
         /\ Elems(Append(list, x)) = Elems(list) \cup {x}
         /\ Distinct(list) /\ x \notin Elems(list) => Distinct(Append(list, x))
<1> DEFINE new == Append(list, x)
<1>1. /\ Len(list) \in Nat /\ DOMAIN list = 1 .. Len(list)
      /\ new \in Seq(X) /\ Len(new) = Len(list) + 1
      /\ DOMAIN new = 1 .. Len(list) + 1
      /\ \A k \in 1 .. Len(list) : new[k] = list[k]
      /\ new[Len(list) + 1] = x
  OBVIOUS
<1> HIDE DEF new
<1>2. DOMAIN new = DOMAIN list \cup {Len(list) + 1}
  BY <1>1
<1>3. Elems(new) = Elems(list) \cup {x}
  BY <1>1, <1>2 DEF Elems
<1>4. Distinct(list) /\ x \notin Elems(list) => Distinct(new)
  BY <1>1, <1>2 DEF Elems, Distinct
<1> QED
  BY <1>1, <1>3, <1>4 DEF new

LEMMA EmptyIs == \A X : <<>> \in Seq(X) /\ Elems(<<>>) = {} /\ Distinct(<<>>)
  BY DEF Elems, Distinct

\* A list without the members of a set: all other members are left, and one
\* that was there once is there once.
LEMMA WithoutIs ==
  ASSUME NEW X, NEW list \in Seq(X), NEW S
  PROVE  /\ Without(list, S) \in Seq(X)
         /\ Elems(Without(list, S)) = Elems(list) \ S
         /\ Distinct(list) => Distinct(Without(list, S))
<1>1. Len(list) \in Nat /\ DOMAIN list = 1 .. Len(list)
      /\ \A i \in 1 .. Len(list) : list[i] \in X
  OBVIOUS
<1>2. PICK f : f = Kept(list, S, Len(list), f) /\ Without(list, S) = f[Len(list)]
  BY <1>1, WithoutIsKept
<1>3. \A i \in 0 .. Len(list) : f[i] = Keep(list, S, f, i)
  BY <1>2, KeptAt
<1> DEFINE Upto(i) == {list[j] : j \in 1 .. i}
           Right(i) == /\ f[i] \in Seq(X) /\ Elems(f[i]) = Upto(i) \ S
                       /\ Distinct(list) => Distinct(f[i])
           T == {i \in Nat : i <= Len(list) => Right(i)}
<1>4. 0 \in T
  <2>1. f[0] = <<>>
    BY <1>1, <1>3 DEF Keep
  <2>2. Upto(0) = {}
    OBVIOUS
  <2>3. f[0] \in Seq(X) /\ Elems(f[0]) = {} /\ Distinct(f[0])
    BY <2>1, EmptyIs
  <2>4. Right(0)
    BY <2>2, <2>3
  <2> HIDE DEF Right
  <2> QED
    BY <2>4
<1>5. ASSUME NEW n \in T PROVE n + 1 \in T
  <2> SUFFICES ASSUME n + 1 <= Len(list) PROVE Right(n + 1)
    OBVIOUS
  <2>1. Right(n) /\ n + 1 \in 1 .. Len(list) /\ n + 1 # 0 /\ (n + 1) - 1 = n
    BY <1>1
  <2>2. f[n + 1] = IF list[n + 1] \in S THEN f[n] ELSE Append(f[n], list[n + 1])
    BY <1>1, <1>3, <2>1 DEF Keep
  <2>3. Upto(n + 1) = Upto(n) \cup {list[n + 1]}
    <3>1. 1 .. n + 1 = (1 .. n) \cup {n + 1}
      OBVIOUS
    <3> QED
      BY <3>1
  <2>4. Distinct(list) => list[n + 1] \notin Upto(n)
    BY <1>1, <2>1 DEF Distinct
  <2> HIDE DEF Upto
  <2>5. CASE list[n + 1] \in S
    BY <2>1, <2>2, <2>3, <2>5
  <2>6. CASE list[n + 1] \notin S
    <3>1. list[n + 1] \in X /\ f[n + 1] = Append(f[n], list[n + 1])
      BY <1>1, <2>1, <2>2, <2>6
    <3>2. /\ f[n + 1] \in Seq(X) /\ Elems(f[n + 1]) = Elems(f[n]) \cup {list[n + 1]}
          /\ Distinct(f[n]) /\ list[n + 1] \notin Elems(f[n]) => Distinct(f[n + 1])
      BY <2>1, <3>1, AppendIs
    <3> QED
      BY <2>1, <2>3, <2>4, <2>6, <3>2
  <2> QED
    BY <2>5, <2>6
<1>6. T = Nat
  <2>1. T \in SUBSET Nat
    OBVIOUS
  <2> HIDE DEF T
  <2> QED
    BY <1>4, <1>5, <2>1, Induction
<1>7. Right(Len(list))
  <2>1. Len(list) \in T
    BY <1>1, <1>6
  <2> HIDE DEF Right
  <2> QED
    BY <1>1, <2>1
<1>8. Upto(Len(list)) = Elems(list)
  BY <1>1 DEF Elems
<1> QED
  BY <1>2, <1>7, <1>8

----------------------------------------------------------------------------
(* How often something is in a list.                                        *)

Places(list, x) == {k \in DOMAIN list : list[k] = x}

LEMMA TimesIs ==
  ASSUME NEW X, NEW list \in Seq(X), NEW x
  PROVE  /\ IsFiniteSet(Places(list, x)) /\ Times(list, x) \in Nat
         /\ Times(list, x) = Cardinality(Places(list, x))
<1>1. DOMAIN list = 1 .. Len(list) /\ Len(list) \in Int /\ 1 \in Int
  OBVIOUS
<1>2. IsFiniteSet(1 .. Len(list)) /\ Places(list, x) \subseteq 1 .. Len(list)
  BY <1>1, FS_Interval DEF Places
<1>3. IsFiniteSet(Places(list, x))
  BY <1>2, FS_Subset
<1> QED
  BY <1>3, FS_CardinalityType DEF Times, Places

LEMMA TimesInNone == \A x : Times(<<>>, x) = 0
<1>1. \A x : {k \in DOMAIN <<>> : <<>>[k] = x} = {}
  OBVIOUS
<1> QED
  BY <1>1, FS_EmptySet DEF Times

LEMMA TimesAppend ==
  ASSUME NEW X, NEW list \in Seq(X), NEW y \in X, NEW x
  PROVE  Times(Append(list, y), x) = Times(list, x) + IF x = y THEN 1 ELSE 0
<1> DEFINE new == Append(list, y)
<1>1. /\ Len(list) \in Nat /\ DOMAIN list = 1 .. Len(list)
      /\ new \in Seq(X) /\ DOMAIN new = 1 .. Len(list) + 1
      /\ \A k \in 1 .. Len(list) : new[k] = list[k]
      /\ new[Len(list) + 1] = y
  OBVIOUS
<1> HIDE DEF new
<1>2. /\ Times(new, x) = Cardinality(Places(new, x))
      /\ Times(list, x) = Cardinality(Places(list, x)) /\ Times(list, x) \in Nat
      /\ IsFiniteSet(Places(list, x))
  BY <1>1, TimesIs
<1>3. CASE x = y
  <2>1. Places(new, x) = Places(list, x) \cup {Len(list) + 1}
    BY <1>1, <1>3 DEF Places
  <2>2. Len(list) + 1 \notin Places(list, x)
    BY <1>1 DEF Places
  <2>3. Cardinality(Places(new, x)) = Cardinality(Places(list, x)) + 1
    BY <1>2, <2>1, <2>2, FS_AddElement
  <2> QED
    BY <1>2, <1>3, <2>3 DEF new
<1>4. CASE x # y
  <2>1. Places(new, x) = Places(list, x)
    BY <1>1, <1>4 DEF Places
  <2> QED
    BY <1>2, <1>4, <2>1 DEF new
<1> QED
  BY <1>3, <1>4

LEMMA TimesTail ==
  ASSUME NEW X, NEW list \in Seq(X), list # <<>>, NEW x
  PROVE  Times(list, x) = Times(Tail(list), x) + IF Head(list) = x THEN 1 ELSE 0
<1> DEFINE rest == Tail(list)
           behind == {k \in Places(list, x) : k # 1}
<1>1. /\ Len(list) \in Nat /\ DOMAIN list = 1 .. Len(list) /\ 1 \in DOMAIN list
      /\ rest \in Seq(X) /\ DOMAIN rest = 1 .. Len(list) - 1
      /\ \A k \in 1 .. Len(list) - 1 : rest[k] = list[k + 1]
      /\ Head(list) = list[1]
  OBVIOUS
<1> HIDE DEF rest
<1>2. /\ Times(rest, x) = Cardinality(Places(rest, x)) /\ Times(rest, x) \in Nat
      /\ Times(list, x) = Cardinality(Places(list, x))
      /\ IsFiniteSet(Places(rest, x)) /\ IsFiniteSet(Places(list, x))
  BY <1>1, TimesIs
<1>3. IsFiniteSet(behind) /\ Cardinality(behind) = Cardinality(Places(rest, x))
  <2> DEFINE f == [k \in Places(rest, x) |-> k + 1]
  <2>1. \A k \in Places(rest, x) : k \in Nat /\ k + 1 \in behind
    BY <1>1 DEF Places
  <2>2. f \in [Places(rest, x) -> behind]
    BY <2>1
  <2>3. \A i, j \in Places(rest, x) : f[i] = f[j] => i = j
    BY <2>1
  <2>4. \A k \in behind : k - 1 \in Places(rest, x) /\ f[k - 1] = k
    BY <1>1 DEF Places
  <2> HIDE DEF f, behind
  <2>5. f \in Bijection(Places(rest, x), behind)
    BY <2>2, <2>3, <2>4 DEF Bijection, Injection, Surjection, IsInjective
  <2> QED
    BY <1>2, <2>5, FS_Bijection DEF ExistsBijection
<1>4. CASE Head(list) = x
  <2>1. Places(list, x) = behind \cup {1} /\ 1 \notin behind
    BY <1>1, <1>4 DEF Places
  <2> HIDE DEF behind
  <2>2. Cardinality(Places(list, x)) = Cardinality(behind) + 1
    BY <1>3, <2>1, FS_AddElement
  <2> QED
    BY <1>2, <1>3, <1>4, <2>2 DEF rest
<1>5. CASE Head(list) # x
  <2>1. Places(list, x) = behind
    BY <1>1, <1>5 DEF Places
  <2> HIDE DEF behind
  <2>2. Times(list, x) = Times(rest, x) /\ Times(rest, x) \in Nat
    BY <1>2, <1>3, <2>1
  <2> QED
    BY <1>5, <2>2 DEF rest
<1> QED
  BY <1>4, <1>5

\* In a list without repetitions everything is once or not at all.
LEMMA TimesDistinct ==
  ASSUME NEW X, NEW list \in Seq(X), Distinct(list), NEW x
  PROVE  Times(list, x) = IF x \in Elems(list) THEN 1 ELSE 0
<1>1. Times(list, x) = Cardinality(Places(list, x))
  BY TimesIs
<1>2. CASE x \in Elems(list)
  <2>1. PICK k \in DOMAIN list : list[k] = x
    BY <1>2 DEF Elems
  <2>2. Places(list, x) = {k}
    BY <2>1 DEF Places, Distinct
  <2> QED
    BY <1>1, <1>2, <2>2, FS_Singleton
<1>3. CASE x \notin Elems(list)
  <2>1. Places(list, x) = {}
    BY <1>3 DEF Places, Elems
  <2> QED
    BY <1>1, <1>3, <2>1, FS_EmptySet
<1> QED
  BY <1>2, <1>3

----------------------------------------------------------------------------
(* Types.                                                                   *)

\* A send of a broadcast, to the connection its loop is at.
LEMMA SendIs ==
  ASSUME IInv, NEW m \in Msgs, Send(m)
  PROVE  /\ cast[m] = "sending" /\ Member(m) \in Conns
         /\ at[m] \in DOMAIN snapshot[m] /\ Member(m) = snapshot[m][at[m]]
         /\ peer[Member(m)] # "away"
         /\ at' = [at EXCEPT ![m] = @ + 1]
         /\ UNCHANGED <<endpoint, peer, pings, got, snapshot>>
         /\ dead' \in [Msgs -> SUBSET Conns]
         /\ \A k \in Msgs : \A c \in dead'[k] \ dead[k] : peer[c] = "gone"
         /\ active' = active \/ active' = Without(active, dead'[m])
         /\ cast' = IF at[m] = Len(snapshot[m]) THEN [cast EXCEPT ![m] = "done"]
                                                ELSE cast
<1>1. snapshot[m] \in Seq(Conns) /\ at[m] \in Nat \ {0} /\ cast[m] = "sending"
      /\ at[m] <= Len(snapshot[m])
  BY DEF Send, IInv, TypeOK, CastInv
<1>2. at[m] \in DOMAIN snapshot[m] /\ snapshot[m][at[m]] \in Conns
  BY <1>1
<1>3. peer[Member(m)] # "away"
  BY <1>2 DEF IInv, CastInv, Elems, Member
<1>4. dead' \in [Msgs -> SUBSET Conns]
      /\ \A k \in Msgs : \A c \in dead'[k] \ dead[k] : peer[c] = "gone"
  <2>1. CASE UNCHANGED dead
    BY <2>1 DEF IInv, TypeOK
  <2>2. CASE SendRaises(Member(m)) /\ dead' = [dead EXCEPT ![m] = @ \cup {Member(m)}]
    BY <1>2, <2>2 DEF SendRaises, IInv, TypeOK, Member
  <2> QED
    BY <2>1, <2>2 DEF Send
<1> QED
  BY <1>1, <1>2, <1>3, <1>4 DEF Send, GoOn, Pruned, Member

\* What a send leaves in the buffers.
LEMMA SentIs ==
  ASSUME TypeOK, NEW c \in Conns, NEW m \in Msgs \cup {Pong},
         Sent(c, m) \/ SendRaises(c)
  PROVE  /\ outbox' \in [Conns -> Seq(Msgs \cup {Pong})]
         /\ \/ /\ peer[c] = "open"
               /\ outbox' = [outbox EXCEPT ![c] = Append(@, m)]
            \/ peer[c] = "gone" /\ UNCHANGED outbox
<1>1. outbox[c] \in Seq(Msgs \cup {Pong})
  BY DEF TypeOK
<1>2. Append(outbox[c], m) \in Seq(Msgs \cup {Pong})
  BY <1>1
<1> QED
  BY <1>2 DEF Sent, SendRaises, TypeOK

LEMMA TypeInit == Init => TypeOK
<1> SUFFICES ASSUME Init PROVE TypeOK
  OBVIOUS
<1>1. <<>> \in Seq(Conns) /\ <<>> \in Seq(Msgs \cup {Pong})
  OBVIOUS
<1>2. MaxPings \in 0 .. MaxPings
  BY HubAssumption
<1> QED
  BY <1>1, <1>2 DEF Init, TypeOK

LEMMA TypeNext == IInv /\ [Next]_vars => TypeOK'
<1> SUFFICES ASSUME IInv, [Next]_vars PROVE TypeOK'
  OBVIOUS
<1>0. TypeOK
  BY DEF IInv
<1>1. CASE UNCHANGED vars
  BY <1>0, <1>1 DEF TypeOK, vars, clientVars, castVars
<1>2. ASSUME NEW c \in Conns, Open(c)
      PROVE  TypeOK'
  BY <1>0, <1>2 DEF TypeOK, Open, castVars
<1>3. ASSUME NEW c \in Conns, Vanish(c)
      PROVE  TypeOK'
  <2>1. outbox' \in [Conns -> Seq(Msgs \cup {Pong})]
    BY <1>0, <1>3, EmptyIs DEF TypeOK, Vanish
  <2> QED
    BY <1>0, <1>3, <2>1 DEF TypeOK, Vanish, castVars
<1>4. ASSUME NEW c \in Conns, Read(c)
      PROVE  TypeOK'
  <2>1. outbox[c] \in Seq(Msgs \cup {Pong}) /\ outbox[c] # <<>>
        /\ got[c] \in Seq(Msgs \cup {Pong})
    BY <1>0, <1>4 DEF TypeOK, Read
  <2>2. Tail(outbox[c]) \in Seq(Msgs \cup {Pong})
        /\ Append(got[c], Head(outbox[c])) \in Seq(Msgs \cup {Pong})
    BY <2>1
  <2> QED
    BY <1>0, <1>4, <2>2 DEF TypeOK, Read, castVars
<1>5. ASSUME NEW c \in Conns, Accepted(c)
      PROVE  TypeOK'
  <2>1. Append(active, c) \in Seq(Conns)
    BY <1>0, AppendIs DEF TypeOK
  <2> QED
    BY <1>0, <1>5, <2>1 DEF TypeOK, Accepted, clientVars, castVars
<1>6. ASSUME NEW c \in Conns, AcceptRaises(c)
      PROVE  TypeOK'
  BY <1>0, <1>6 DEF TypeOK, AcceptRaises, clientVars, castVars
<1>7. ASSUME NEW c \in Conns, ReceiveRaises(c)
      PROVE  TypeOK'
  <2>1. Without(active, {c}) \in Seq(Conns)
    BY <1>0, WithoutIs DEF TypeOK
  <2> QED
    BY <1>0, <1>7, <2>1 DEF TypeOK, ReceiveRaises, Leave, castVars
<1>8. ASSUME NEW c \in Conns, ReceivePing(c)
      PROVE  TypeOK'
  <2>1. pings' \in [Conns -> 0 .. MaxPings]
    BY <1>0, <1>8, HubAssumption DEF TypeOK, ReceivePing
  <2> QED
    BY <1>0, <1>8, <2>1 DEF TypeOK, ReceivePing, castVars
<1>9. ASSUME NEW c \in Conns, SendPong(c)
      PROVE  TypeOK'
  <2>1. outbox' \in [Conns -> Seq(Msgs \cup {Pong})]
    BY <1>0, <1>9, SentIs DEF SendPong
  <2>2. Without(active, {c}) \in Seq(Conns)
    BY <1>0, WithoutIs DEF TypeOK
  <2> QED
    BY <1>0, <1>9, <2>1, <2>2 DEF TypeOK, SendPong, Leave, castVars
<1>10. ASSUME NEW m \in Msgs, Schedule(m) \/ Start(m)
       PROVE  TypeOK'
  BY <1>0, <1>10 DEF TypeOK, Schedule, Start, clientVars
<1>11. ASSUME NEW m \in Msgs, Send(m)
       PROVE  TypeOK'
  <2>1. outbox' \in [Conns -> Seq(Msgs \cup {Pong})]
    BY <1>0, <1>11, SentIs, SendIs DEF Send
  <2>2. /\ at' = [at EXCEPT ![m] = @ + 1] /\ dead' \in [Msgs -> SUBSET Conns]
        /\ UNCHANGED <<endpoint, peer, pings, got, snapshot>>
        /\ active' = active \/ active' = Without(active, dead'[m])
        /\ cast' = [cast EXCEPT ![m] = "done"] \/ cast' = cast
    BY <1>11, SendIs
  <2>3. Without(active, dead'[m]) \in Seq(Conns)
    BY <1>0, WithoutIs DEF TypeOK
  <2>4. at[m] + 1 \in Nat \ {0}
    BY <1>0 DEF TypeOK
  <2>5. at' \in [Msgs -> Nat \ {0}]
    BY <1>0, <2>2, <2>4 DEF TypeOK
  <2> QED
    BY <1>0, <2>1, <2>2, <2>3, <2>5 DEF TypeOK
<1> QED
  BY <1>1, <1>2, <1>3, <1>4, <1>5, <1>6, <1>7, <1>8, <1>9, <1>10, <1>11
  DEF Next, Client, Endpoint, Broadcast

----------------------------------------------------------------------------
(* The pool.                                                                *)

LEMMA PoolInit == Init => PoolInv
  BY EmptyIs DEF Init, PoolInv, Serving

\* An endpoint that ends takes its connection off the list.
LEMMA LeaveIs ==
  ASSUME IInv, NEW c \in Conns, endpoint[c] \in Serving, Leave(c)
  PROVE  PoolInv'
<1>1. Elems(active') = Elems(active) \ {c} /\ Distinct(active')
  BY WithoutIs DEF Leave, IInv, TypeOK, PoolInv
<1>2. /\ endpoint' = [endpoint EXCEPT ![c] = "done"] /\ peer' = [peer EXCEPT ![c] = "gone"]
      /\ TypeOK /\ PoolInv
  BY DEF Leave, IInv
<1>3. \A d \in Elems(active') : endpoint'[d] \in Serving
  <2>1. \A d \in Elems(active) : d \in Conns
    BY <1>2 DEF TypeOK, Elems
  <2> QED
    BY <1>1, <1>2, <2>1 DEF TypeOK, PoolInv
<1>4. \A d \in Conns : /\ endpoint'[d] \in Serving /\ peer'[d] = "open" => d \in Elems(active')
                       /\ endpoint'[d] = "idle" <=> peer'[d] = "away"
  BY <1>1, <1>2 DEF TypeOK, PoolInv, Serving
<1> QED
  BY <1>1, <1>3, <1>4 DEF PoolInv

LEMMA PoolNext == IInv /\ [Next]_vars => PoolInv'
<1> SUFFICES ASSUME IInv, [Next]_vars PROVE PoolInv'
  OBVIOUS
<1>0. TypeOK /\ PoolInv
  BY DEF IInv
<1>1. CASE UNCHANGED vars
  BY <1>0, <1>1 DEF PoolInv, vars, clientVars
<1>2. ASSUME NEW c \in Conns, Open(c)
      PROVE  PoolInv'
  BY <1>0, <1>2 DEF TypeOK, PoolInv, Open, Serving
<1>3. ASSUME NEW c \in Conns, Vanish(c)
      PROVE  PoolInv'
  BY <1>0, <1>3 DEF TypeOK, PoolInv, Vanish
<1>4. ASSUME NEW c \in Conns, Read(c)
      PROVE  PoolInv'
  BY <1>0, <1>4 DEF PoolInv, Read
<1>5. ASSUME NEW c \in Conns, Accepted(c)
      PROVE  PoolInv'
  <2>1. c \notin Elems(active)
    BY <1>0, <1>5 DEF PoolInv, Accepted, Serving
  <2>2. Elems(active') = Elems(active) \cup {c} /\ Distinct(active')
    BY <1>0, <1>5, <2>1, AppendIs DEF TypeOK, PoolInv, Accepted
  <2> QED
    BY <1>0, <1>5, <2>2 DEF TypeOK, PoolInv, Accepted, Serving, clientVars
<1>6. ASSUME NEW c \in Conns, AcceptRaises(c)
      PROVE  PoolInv'
  BY <1>0, <1>6 DEF TypeOK, PoolInv, AcceptRaises, Serving, clientVars
<1>7. ASSUME NEW c \in Conns, ReceiveRaises(c)
      PROVE  PoolInv'
  BY <1>7, LeaveIs DEF ReceiveRaises, Serving
<1>8. ASSUME NEW c \in Conns, ReceivePing(c)
      PROVE  PoolInv'
  BY <1>0, <1>8 DEF TypeOK, PoolInv, ReceivePing, Serving
<1>9. ASSUME NEW c \in Conns, SendPong(c)
      PROVE  PoolInv'
  <2>1. CASE Leave(c)
    BY <1>9, <2>1, LeaveIs DEF SendPong, Serving
  <2>2. CASE endpoint' = [endpoint EXCEPT ![c] = "receiving"] /\ UNCHANGED <<active, peer>>
    BY <1>0, <1>9, <2>2 DEF TypeOK, PoolInv, SendPong, Serving
  <2> QED
    BY <1>9, <2>1, <2>2 DEF SendPong
<1>10. ASSUME NEW m \in Msgs, Schedule(m) \/ Start(m)
       PROVE  PoolInv'
  BY <1>0, <1>10 DEF PoolInv, Schedule, Start, clientVars
<1>11. ASSUME NEW m \in Msgs, Send(m)
       PROVE  PoolInv'
  <2>1. /\ UNCHANGED <<endpoint, peer>>
        /\ active' = active \/ active' = Without(active, dead'[m])
    BY <1>11, SendIs
  <2>2. \A c \in dead'[m] : peer[c] = "gone"
    BY <1>11, SendIs DEF IInv, CastInv
  <2>3. /\ Elems(Without(active, dead'[m])) = Elems(active) \ dead'[m]
        /\ Distinct(Without(active, dead'[m]))
    BY <1>0, WithoutIs DEF TypeOK, PoolInv
  <2>4. Distinct(active') /\ Elems(active') \subseteq Elems(active)
        /\ Elems(active) \ dead'[m] \subseteq Elems(active')
    BY <1>0, <2>1, <2>3 DEF PoolInv
  <2> QED
    BY <1>0, <2>1, <2>2, <2>4 DEF PoolInv
<1> QED
  BY <1>1, <1>2, <1>3, <1>4, <1>5, <1>6, <1>7, <1>8, <1>9, <1>10, <1>11
  DEF Next, Client, Endpoint, Broadcast

----------------------------------------------------------------------------
(* The broadcasts.                                                          *)

LEMMA CastInit == Init => CastInv
<1>1. Len(<<>>) = 0
  OBVIOUS
<1> QED
  BY <1>1, EmptyIs DEF Init, CastInv

\* No client comes back: one that was there is there or gone.
LEMMA PeerStep ==
  ASSUME IInv, [Next]_vars
  PROVE  \A c \in Conns : /\ peer[c] # "away" => peer'[c] # "away"
                          /\ peer[c] = "gone" => peer'[c] = "gone"
                          /\ peer'[c] = "open" => peer[c] \in {"away", "open"}
<1>1. CASE UNCHANGED vars
  BY <1>1 DEF IInv, TypeOK, vars, clientVars
<1>2. ASSUME NEW c \in Conns, Client(c) \/ Endpoint(c)
      PROVE  \/ peer' = peer
             \/ peer' = [peer EXCEPT ![c] = "gone"]
             \/ peer[c] = "away" /\ peer' = [peer EXCEPT ![c] = "open"]
  BY <1>2 DEF Client, Endpoint, Open, Vanish, Read, Accepted, AcceptRaises,
              ReceiveRaises, ReceivePing, SendPong, Leave, clientVars
<1>3. ASSUME NEW m \in Msgs, Broadcast(m)
      PROVE  peer' = peer
  BY <1>3 DEF Broadcast, Schedule, Start, Send, clientVars
<1>4. \/ peer' = peer
      \/ \E c \in Conns : \/ peer' = [peer EXCEPT ![c] = "gone"]
                          \/ peer[c] = "away" /\ peer' = [peer EXCEPT ![c] = "open"]
  BY <1>1, <1>2, <1>3 DEF Next, vars, clientVars
<1> QED
  BY <1>4 DEF IInv, TypeOK

\* A step that touches no broadcast.
LEMMA CastStays ==
  ASSUME IInv, [Next]_vars, UNCHANGED castVars
  PROVE  CastInv'
<1>1. UNCHANGED <<cast, snapshot, at, dead>> /\ TypeOK /\ CastInv
  BY DEF castVars, IInv
<1>2. \A m \in Msgs : dead[m] \subseteq Conns /\ Elems(snapshot[m]) \subseteq Conns
  BY <1>1 DEF TypeOK, Elems
<1> QED
  BY <1>1, <1>2, PeerStep DEF CastInv

LEMMA CastNext == IInv /\ [Next]_vars => CastInv'
<1> SUFFICES ASSUME IInv, [Next]_vars PROVE CastInv'
  OBVIOUS
<1>0. TypeOK /\ PoolInv /\ CastInv
  BY DEF IInv
<1>1. CASE UNCHANGED vars
  BY <1>1, CastStays DEF vars
<1>2. ASSUME NEW c \in Conns, Client(c) \/ Endpoint(c)
      PROVE  CastInv'
  <2>1. UNCHANGED castVars
    BY <1>2 DEF Client, Endpoint, Open, Vanish, Read, Accepted, AcceptRaises,
                ReceiveRaises, ReceivePing, SendPong
  <2> QED
    BY <2>1, CastStays
<1>3. ASSUME NEW m \in Msgs, Schedule(m)
      PROVE  CastInv'
  BY <1>0, <1>3 DEF TypeOK, CastInv, Schedule, clientVars
<1>4. ASSUME NEW m \in Msgs, Start(m)
      PROVE  CastInv'
  <2>1. active \in Seq(Conns) /\ Len(active) \in Nat /\ DOMAIN active = 1 .. Len(active)
        /\ (active # <<>> => 1 <= Len(active))
    BY <1>0 DEF TypeOK
  <2>2. \A c \in Elems(active) : c \in Conns /\ peer[c] # "away"
    <3>1. \A c \in Elems(active) : c \in Conns
      BY <2>1 DEF Elems
    <3> QED
      BY <1>0, <3>1 DEF PoolInv, Serving
  <2>3. at[m] = 1 /\ UNCHANGED <<at, dead, peer>>
        /\ snapshot' = [snapshot EXCEPT ![m] = active]
        /\ cast' = [cast EXCEPT ![m] = IF active = <<>> THEN "done" ELSE "sending"]
    BY <1>0, <1>4 DEF CastInv, Start, clientVars
  <2>4. ASSUME NEW k \in Msgs, k # m
        PROVE  snapshot'[k] = snapshot[k] /\ cast'[k] = cast[k]
    BY <1>0, <2>3, <2>4 DEF TypeOK
  <2>5. snapshot'[m] = active
        /\ cast'[m] = IF active = <<>> THEN "done" ELSE "sending"
    BY <1>0, <2>3 DEF TypeOK
  <2> QED
    BY <1>0, <2>1, <2>2, <2>3, <2>4, <2>5 DEF PoolInv, CastInv
<1>5. ASSUME NEW m \in Msgs, Send(m)
      PROVE  CastInv'
  <2>1. /\ at[m] \in DOMAIN snapshot[m] /\ at' = [at EXCEPT ![m] = @ + 1]
        /\ cast[m] = "sending" /\ UNCHANGED <<peer, snapshot>>
        /\ \A k \in Msgs : \A c \in dead'[k] \ dead[k] : peer[c] = "gone"
        /\ cast' = IF at[m] = Len(snapshot[m]) THEN [cast EXCEPT ![m] = "done"] ELSE cast
    BY <1>5, SendIs
  <2>2. Len(snapshot[m]) \in Nat /\ at[m] \in 1 .. Len(snapshot[m])
    BY <1>0, <2>1 DEF TypeOK
  <2>3. ASSUME NEW k \in Msgs, k # m
        PROVE  at'[k] = at[k] /\ cast'[k] = cast[k]
    BY <1>0, <2>1, <2>3 DEF TypeOK
  <2>4. at'[m] = at[m] + 1
        /\ cast'[m] = IF at[m] = Len(snapshot[m]) THEN "done" ELSE "sending"
    BY <1>0, <2>1 DEF TypeOK
  <2>5. /\ cast'[m] \notin {"unscheduled", "scheduled"}
        /\ at'[m] - 1 <= Len(snapshot[m])
        /\ cast'[m] = "sending" => at'[m] <= Len(snapshot[m])
    BY <2>2, <2>4
  <2>6. \A k \in Msgs : \A c \in dead'[k] : peer[c] = "gone"
    BY <1>0, <2>1 DEF CastInv
  <2> QED
    BY <1>0, <2>1, <2>3, <2>5, <2>6 DEF CastInv
<1> QED
  BY <1>1, <1>2, <1>3, <1>4, <1>5 DEF Next, Broadcast

----------------------------------------------------------------------------
(* Each member once.                                                        *)

LEMMA CopiesAre ==
  ASSUME TypeOK, NEW m \in Msgs, NEW c \in Conns
  PROVE  /\ Times(got[c], m) \in Nat /\ Times(outbox[c], m) \in Nat
         /\ Copies(m, c) = Times(got[c], m) + Times(outbox[c], m)
         /\ Copies(m, c) \in Nat
<1>1. got[c] \in Seq(Msgs \cup {Pong}) /\ outbox[c] \in Seq(Msgs \cup {Pong})
  BY DEF TypeOK
<1>2. Times(got[c], m) \in Nat /\ Times(outbox[c], m) \in Nat
  BY <1>1, TimesIs
<1> QED
  BY <1>2 DEF Copies

\* Whom a broadcast has passed had a client then.
LEMMA PassedWasThere ==
  ASSUME IInv, NEW m \in Msgs, NEW c \in Conns, Passed(m, c)
  PROVE  peer[c] # "away" /\ \E k \in DOMAIN snapshot[m] : k < at[m] /\ snapshot[m][k] = c
<1>1. PICK k \in 1 .. at[m] - 1 : snapshot[m][k] = c
  BY DEF Passed
<1>2. at[m] \in Nat /\ at[m] - 1 <= Len(snapshot[m]) /\ Len(snapshot[m]) \in Nat
      /\ DOMAIN snapshot[m] = 1 .. Len(snapshot[m])
  BY DEF IInv, TypeOK, CastInv
<1>3. k \in DOMAIN snapshot[m] /\ k < at[m]
  BY <1>1, <1>2
<1>4. c \in Elems(snapshot[m])
  BY <1>1, <1>3 DEF Elems
<1> QED
  BY <1>1, <1>3, <1>4 DEF IInv, CastInv

\* A connection that no copy reaches or leaves in a step in which no broadcast
\* passes it.
LEMMA OnceStays ==
  ASSUME IInv, [Next]_vars, NEW m \in Msgs, NEW c \in Conns,
         Passed(m, c)' <=> Passed(m, c), Copies(m, c)' = Copies(m, c)
  PROVE  Once(m, c)'
<1>1. Once(m, c) /\ Copies(m, c) \in Nat
  BY CopiesAre DEF IInv, OnceInv
<1>2. Passed(m, c) /\ peer'[c] = "open" => peer[c] = "open"
  BY PassedWasThere, PeerStep
<1> QED
  BY <1>1, <1>2 DEF Once

LEMMA OnceInit == Init => OnceInv
<1> SUFFICES ASSUME Init, NEW m \in Msgs, NEW c \in Conns PROVE Once(m, c)
  BY DEF OnceInv
<1>1. got[c] = <<>> /\ outbox[c] = <<>> /\ at[m] = 1
  BY DEF Init
<1>2. Copies(m, c) = 0
  BY <1>1, TimesInNone DEF Copies
<1>3. ~Passed(m, c)
  BY <1>1 DEF Passed
<1> QED
  BY <1>2, <1>3 DEF Once

\* What a send puts into the buffers of others, or of other messages, is none.
LEMMA SentElsewhere ==
  ASSUME TypeOK, NEW d \in Conns, NEW n \in Msgs \cup {Pong},
         Sent(d, n) \/ SendRaises(d), UNCHANGED got,
         NEW m \in Msgs, NEW c \in Conns, m # n \/ c # d
  PROVE  Copies(m, c)' = Copies(m, c)
<1>1. Times(outbox'[c], m) = Times(outbox[c], m)
  <2>1. outbox[d] \in Seq(Msgs \cup {Pong}) /\ Times(outbox[c], m) \in Nat
    BY CopiesAre DEF TypeOK
  <2>2. CASE UNCHANGED outbox
    BY <2>2
  <2>3. CASE outbox' = [outbox EXCEPT ![d] = Append(@, n)]
    <3>1. CASE c # d
      BY <2>3, <3>1 DEF TypeOK
    <3>2. CASE c = d
      <4>1. outbox'[c] = Append(outbox[d], n)
        BY <2>3, <3>2 DEF TypeOK
      <4>2. Times(Append(outbox[d], n), m) = Times(outbox[d], m) + 0
        BY <2>1, <3>2, TimesAppend
      <4> QED
        BY <2>1, <3>2, <4>1, <4>2
    <3> QED
      BY <3>1, <3>2
  <2> QED
    BY <2>2, <2>3, SentIs
<1> QED
  BY <1>1 DEF Copies

LEMMA SendOnce ==
  ASSUME IInv, [Next]_vars, NEW n \in Msgs, Send(n), NEW m \in Msgs, NEW c \in Conns
  PROVE  Once(m, c)'
<1> DEFINE d == Member(n)
<1>1. /\ d \in Conns /\ at[n] \in DOMAIN snapshot[n] /\ d = snapshot[n][at[n]]
      /\ at' = [at EXCEPT ![n] = @ + 1]
      /\ UNCHANGED <<peer, got, snapshot>>
      /\ Sent(d, n) \/ SendRaises(d)
  BY SendIs DEF Send
<1>2. TypeOK /\ Once(m, c) /\ at[n] \in Nat \ {0} /\ n \in Msgs \cup {Pong}
      /\ Distinct(snapshot[n]) /\ snapshot[n] \in Seq(Conns)
  BY DEF IInv, OnceInv, TypeOK, CastInv
<1>3. DOMAIN snapshot[n] \subseteq Nat
  BY <1>2
<1> HIDE DEF d
<1>4. CASE m # n
  <2>1. at'[m] = at[m]
    BY <1>1, <1>2, <1>4 DEF TypeOK
  <2>2. Passed(m, c)' <=> Passed(m, c)
    BY <1>1, <2>1 DEF Passed
  <2>3. Copies(m, c)' = Copies(m, c)
    BY <1>1, <1>2, <1>4, SentElsewhere
  <2> QED
    BY <2>2, <2>3, OnceStays
<1>5. CASE m = n /\ c # d
  <2>1. at'[m] = at[m] + 1
    BY <1>1, <1>2, <1>5 DEF TypeOK
  <2>2. 1 .. at'[m] - 1 = (1 .. at[m] - 1) \cup {at[m]}
    BY <1>2, <1>5, <2>1
  <2>3. Passed(m, c)' <=> Passed(m, c)
    BY <1>1, <1>5, <2>2 DEF Passed
  <2>4. Copies(m, c)' = Copies(m, c)
    BY <1>1, <1>2, <1>5, SentElsewhere
  <2> QED
    BY <2>3, <2>4, OnceStays
<1>6. CASE m = n /\ c = d
  <2>1. ~Passed(m, c)
    <3> SUFFICES ASSUME Passed(m, c) PROVE FALSE
      OBVIOUS
    <3>1. PICK k \in DOMAIN snapshot[m] : k < at[m] /\ snapshot[m][k] = c
      BY PassedWasThere
    <3>2. k = at[m]
      BY <1>1, <1>2, <1>6, <3>1 DEF Distinct
    <3> QED
      BY <1>2, <1>6, <1>3, <3>1, <3>2
  <2>2. Copies(m, c) = 0 /\ Times(got[c], m) = 0 /\ Times(outbox[c], m) = 0
    BY <1>2, <2>1, CopiesAre DEF Once
  <2>3. Passed(m, c)'
    <3>1. at'[m] = at[m] + 1
      BY <1>1, <1>2, <1>6 DEF TypeOK
    <3>2. at[m] \in 1 .. at'[m] - 1 /\ snapshot'[m][at[m]] = c
      BY <1>1, <1>2, <1>6, <3>1
    <3> QED
      BY <3>2 DEF Passed
  <2>4. CASE peer[c] = "open" /\ outbox' = [outbox EXCEPT ![c] = Append(@, m)]
    <3>1. outbox[c] \in Seq(Msgs \cup {Pong}) /\ outbox'[c] = Append(outbox[c], m)
      BY <1>2, <2>4 DEF TypeOK
    <3>2. Times(Append(outbox[c], m), m) = Times(outbox[c], m) + 1
      BY <1>2, <1>6, <3>1, TimesAppend
    <3>3. Copies(m, c)' = 1
      BY <1>1, <2>2, <3>1, <3>2 DEF Copies
    <3> QED
      BY <2>3, <3>3 DEF Once
  <2>5. CASE peer[c] = "gone" /\ UNCHANGED outbox
    <3>1. Copies(m, c)' = 0
      BY <1>1, <2>2, <2>5 DEF Copies
    <3>2. peer'[c] # "open"
      BY <1>1, <2>5
    <3> QED
      BY <2>3, <3>1, <3>2 DEF Once
  <2> QED
    BY <1>1, <1>2, <1>6, <2>4, <2>5, SentIs
<1> QED
  BY <1>4, <1>5, <1>6

LEMMA OnceNext == IInv /\ [Next]_vars => OnceInv'
<1> SUFFICES ASSUME IInv, [Next]_vars, NEW m \in Msgs, NEW c \in Conns PROVE Once(m, c)'
  BY DEF OnceInv
<1>0. TypeOK /\ Once(m, c) /\ got[c] \in Seq(Msgs \cup {Pong})
      /\ outbox[c] \in Seq(Msgs \cup {Pong}) /\ m # Pong
  BY DEF IInv, OnceInv, TypeOK, Msgs, Pong
<1>1. UNCHANGED castVars => (Passed(m, c)' <=> Passed(m, c))
  BY DEF castVars, Passed
<1>2. UNCHANGED <<got, outbox>> => Copies(m, c)' = Copies(m, c)
  BY DEF Copies
<1>3. CASE UNCHANGED vars
  BY <1>1, <1>2, <1>3, OnceStays DEF vars, clientVars
<1>4. ASSUME NEW d \in Conns,
             Open(d) \/ Accepted(d) \/ AcceptRaises(d) \/ ReceiveRaises(d) \/ ReceivePing(d)
      PROVE  Once(m, c)'
  BY <1>1, <1>2, <1>4, OnceStays
  DEF Open, Accepted, AcceptRaises, ReceiveRaises, ReceivePing, clientVars
<1>5. ASSUME NEW d \in Conns, Vanish(d)
      PROVE  Once(m, c)'
  <2>1. UNCHANGED castVars /\ UNCHANGED got
    BY <1>5 DEF Vanish
  <2>2. CASE c # d
    <3>1. outbox'[c] = outbox[c]
      BY <1>0, <1>5, <2>2 DEF Vanish, TypeOK
    <3>2. Copies(m, c)' = Copies(m, c)
      BY <2>1, <3>1 DEF Copies
    <3> QED
      BY <1>1, <2>1, <3>2, OnceStays
  <2>3. CASE c = d
    <3>1. outbox'[c] = <<>> /\ peer'[c] = "gone"
      BY <1>0, <1>5, <2>3 DEF Vanish, TypeOK
    <3>2. Copies(m, c)' = Times(got[c], m) /\ Times(got[c], m) <= Copies(m, c)
      BY <1>0, <2>1, <3>1, CopiesAre, TimesInNone DEF Copies
    <3> QED
      BY <1>0, <1>1, <2>1, <3>1, <3>2, CopiesAre DEF Once
  <2> QED
    BY <2>2, <2>3
<1>6. ASSUME NEW d \in Conns, Read(d)
      PROVE  Once(m, c)'
  <2>1. CASE c # d
    <3>1. outbox'[c] = outbox[c] /\ got'[c] = got[c]
      BY <1>0, <1>6, <2>1 DEF Read, TypeOK
    <3> QED
      BY <1>1, <1>6, <3>1, OnceStays DEF Read, Copies
  <2>2. CASE c = d
    <3>1. outbox[c] # <<>> /\ outbox'[c] = Tail(outbox[c])
          /\ got'[c] = Append(got[c], Head(outbox[c]))
      BY <1>0, <1>6, <2>2 DEF Read, TypeOK
    <3>2. Head(outbox[c]) \in Msgs \cup {Pong} /\ Tail(outbox[c]) \in Seq(Msgs \cup {Pong})
      BY <1>0, <3>1
    <3>3. Times(Append(got[c], Head(outbox[c])), m)
            = Times(got[c], m) + IF m = Head(outbox[c]) THEN 1 ELSE 0
      BY <1>0, <3>2, TimesAppend
    <3>4. Times(outbox[c], m)
            = Times(Tail(outbox[c]), m) + IF Head(outbox[c]) = m THEN 1 ELSE 0
      BY <1>0, <3>1, TimesTail
    <3>5. Times(Tail(outbox[c]), m) \in Nat
      BY <3>2, TimesIs
    <3>6. Copies(m, c)' = Copies(m, c)
      BY <1>0, <3>1, <3>5, <3>3, <3>4, CopiesAre DEF Copies
    <3> QED
      BY <1>1, <1>6, <3>6, OnceStays DEF Read
  <2> QED
    BY <2>1, <2>2
<1>7. ASSUME NEW d \in Conns, SendPong(d)
      PROVE  Once(m, c)'
  <2>1. Sent(d, Pong) \/ SendRaises(d)
    BY <1>7 DEF SendPong
  <2>2. Copies(m, c)' = Copies(m, c)
    BY <1>0, <1>7, <2>1, SentElsewhere DEF SendPong
  <2> QED
    BY <1>1, <1>7, <2>2, OnceStays DEF SendPong
<1>8. ASSUME NEW n \in Msgs, Schedule(n)
      PROVE  Once(m, c)'
  BY <1>2, <1>8, OnceStays DEF Schedule, clientVars, Passed
<1>9. ASSUME NEW n \in Msgs, Start(n)
      PROVE  Once(m, c)'
  <2>1. CASE m # n
    <3>1. snapshot'[m] = snapshot[m] /\ at'[m] = at[m]
      BY <1>0, <1>9, <2>1 DEF Start, TypeOK
    <3> QED
      BY <1>2, <1>9, <3>1, OnceStays DEF Start, clientVars, Passed
  <2>2. CASE m = n
    <3>1. at[m] = 1 /\ at'[m] = 1
      BY <1>9, <2>2 DEF Start, IInv, CastInv
    <3>2. ~Passed(m, c) /\ ~Passed(m, c)'
      BY <3>1 DEF Passed
    <3> QED
      BY <1>2, <1>9, <3>2, OnceStays DEF Start, clientVars
  <2> QED
    BY <2>1, <2>2
<1>10. ASSUME NEW n \in Msgs, Send(n)
       PROVE  Once(m, c)'
  BY <1>10, SendOnce
<1> QED
  BY <1>3, <1>4, <1>5, <1>6, <1>7, <1>8, <1>9, <1>10 DEF Next, Client, Endpoint, Broadcast

----------------------------------------------------------------------------
(* The theorems.                                                            *)

\* IInv is an invariant of the hub.
THEOREM Invariance == Spec => []IInv
<1>1. Init => IInv
  BY TypeInit, PoolInit, CastInit, OnceInit DEF IInv
<1>2. IInv /\ [Next]_vars => IInv'
  BY TypeNext, PoolNext, CastNext, OnceNext DEF IInv
<1> QED
  BY <1>1, <1>2, PTL DEF Spec

\* Every variable of the hub holds a value of its type, whatever endpoints,
\* clients and broadcasts do.
THEOREM TypeCorrect == Spec => []TypeOK
<1>1. IInv => TypeOK
  BY DEF IInv
<1> QED
  BY <1>1, Invariance, PTL

\* The list of connections is what the endpoints say it is: a client that is
\* served is in it exactly once, whatever broadcasts prune and endpoints remove
\* at the same time, and no entry outlives its endpoint.
THEOREM PoolIsRight == Spec => []PoolMatchesEndpoints
<1>1. IInv => PoolMatchesEndpoints
  <2> SUFFICES ASSUME IInv, NEW c \in Conns
               PROVE  /\ endpoint[c] \in Serving /\ peer[c] = "open" => Times(active, c) = 1
                      /\ endpoint[c] \in {"idle", "accepting", "done"}
                           => Times(active, c) = 0
    BY DEF PoolMatchesEndpoints, Serving
  <2>1. Times(active, c) = IF c \in Elems(active) THEN 1 ELSE 0
    BY TimesDistinct DEF IInv, TypeOK, PoolInv
  <2> QED
    BY <2>1 DEF IInv, PoolInv, Serving
<1> QED
  BY <1>1, Invariance, PTL

\* Every connection a broadcast has passed has its message once if its client
\* is still there, read or on its way, and no connection has it twice or before
\* its turn.
THEOREM EveryMemberHasIt == Spec => []EachMemberOnce
<1>1. IInv => EachMemberOnce
  BY DEF IInv, OnceInv, Once, Passed, Copies, EachMemberOnce
<1> QED
  BY <1>1, Invariance, PTL
=============================================================================
