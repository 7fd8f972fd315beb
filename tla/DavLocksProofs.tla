--------------------------- MODULE DavLocksProofs ---------------------------
(***************************************************************************)
(* Theorems about DavLocks: its shape, that no resource has two owners,    *)
(* that a lock which has not expired is only evicted from a full table and *)
(* as the oldest, and that the table implements LockService.               *)
(***************************************************************************)
EXTENDS DavLocks, WellFoundedInduction, TLAPS

(* A set of naturals that is not empty has the least element that Least    *)
(* chooses.                                                                *)
LEMMA LeastIsLeast ==
  ASSUME NEW s \in SUBSET Nat, s # {}
  PROVE  Least(s) \in s /\ \A j \in s : Least(s) <= j
<1>1. \E i \in s : \A j \in s : ~ (<<j, i>> \in {ss \in Nat \X Nat : ss[1] < ss[2]})
  <2>1. IsWellFoundedOn({ss \in Nat \X Nat : ss[1] < ss[2]}, Nat)
    BY NatLessThanWellFounded DEF OpToRel
  <2> QED  BY <2>1, WFMin
<1>2. PICK i \in s : \A j \in s : ~ (<<j, i>> \in {ss \in Nat \X Nat : ss[1] < ss[2]})
  BY <1>1
<1>3. \A j \in s : i <= j
  <2> SUFFICES ASSUME NEW j \in s PROVE i <= j
    OBVIOUS
  <2>1. i \in Nat /\ j \in Nat
    OBVIOUS
  <2>2. ~ (j < i)
    BY <1>2, <2>1
  <2> QED  BY <2>1, <2>2
<1> QED  BY <1>2, <1>3 DEF Least

-----------------------------------------------------------------------------
(* The search leaves locks where it finds them. *)
LEMMA SearchedType ==
  ASSUME dav_lock \in [Slots -> Lock], now \in 0..MaxTime, NEW p, NEW u
  PROVE  Searched(p, u) \in [Slots -> Lock]
<1> DEFINE met == {i \in Foreign(p, u) : \A r \in Refusing(p, u) : i < r}
<1> SUFFICES ASSUME NEW i \in Slots PROVE Searched(p, u)[i] \in Lock
  BY DEF Searched
<1>1. dav_lock[i] \in Lock /\ [dav_lock[i] EXCEPT !.path = None] \in Lock
      /\ [dav_lock[i] EXCEPT !.locktime = now] \in Lock
  BY DEF Lock
<1> QED  BY <1>1 DEF Searched

LEMMA NewType ==
  ASSUME now \in 0..MaxTime, NEW p \in Paths, NEW u \in Users
  PROVE  New(p, u) \in Lock
BY DEF New, Lock, Token

(* The oldest lock of a table is one of its slots, and no other is older.  *)
LEMMA OldestType ==
  ASSUME NEW t \in [Slots -> Lock]
  PROVE  /\ Oldest(t) \in Slots
         /\ \A j \in Slots : t[Oldest(t)].locktime <= t[j].locktime
<1> DEFINE times == {t[i].locktime : i \in Slots}
           old == {i \in Slots : \A j \in Slots : t[i].locktime <= t[j].locktime}
<1>1. times \in SUBSET Nat /\ times # {}
  BY LockConstants DEF Slots, Lock
<1>2. Least(times) \in times /\ \A j \in times : Least(times) <= j
  <2> HIDE DEF times
  <2> QED  BY <1>1, LeastIsLeast
<1>3. old \in SUBSET Nat /\ old # {}
  <2> PICK i \in Slots : t[i].locktime = Least(times)
    BY <1>2
  <2>1. i \in old
    BY <1>2
  <2> QED  BY <2>1 DEF Slots
<1>4. Least(old) \in old
  <2> HIDE DEF old
  <2> QED  BY <1>3, LeastIsLeast
<1> QED  BY <1>4 DEF Oldest

-----------------------------------------------------------------------------
(* The table and the requests of every server keep their shape. *)
THEOREM TypeCorrect == Spec => []TypeOK
<1>1. Init => TypeOK
  BY LockConstants DEF Init, TypeOK, Lock, Request, Idle, Slots
<1>2. TypeOK /\ [Next]_vars => TypeOK'
  <2> SUFFICES ASSUME TypeOK, [Next]_vars PROVE TypeOK'
    OBVIOUS
  <2>1. CASE Tick
    BY <2>1, LockConstants DEF Tick, TypeOK
  <2>2. ASSUME NEW c \in Conns, SendToken(c) PROVE TypeOK'
    <3>1. request[c].index \in Slots
      BY <2>2 DEF SendToken, TypeOK
    <3>2. dav_lock[request[c].index].token \in Token \cup {None}
      BY <3>1 DEF TypeOK, Lock
    <3> DEFINE r == [request[c] EXCEPT !.pc = "headers", !.token = dav_lock[request[c].index].token]
    <3>3. request' = [request EXCEPT ![c] = r] /\ UNCHANGED <<dav_lock, now>>
      BY <2>2 DEF SendToken
    <3>4. request[c] \in Request
      BY DEF TypeOK
    <3>5. r \in Request /\ r.index = request[c].index
      BY <3>2, <3>4 DEF Request
    <3> HIDE DEF r
    <3> QED  BY <3>1, <3>3, <3>5 DEF TypeOK
  <2>3. ASSUME NEW c \in Conns, SendBody(c) PROVE TypeOK'
    <3>1. request[c].index \in Slots
      BY <2>3 DEF SendBody, TypeOK
    <3>2. dav_lock[request[c].index].user \in Users \cup {None}
      BY <3>1 DEF TypeOK, Lock
    <3> DEFINE r == [request[c] EXCEPT !.pc = "answered", !.owner = dav_lock[request[c].index].user]
    <3>3. request' = [request EXCEPT ![c] = r] /\ UNCHANGED <<dav_lock, now>>
      BY <2>3 DEF SendBody
    <3>4. request[c] \in Request
      BY DEF TypeOK
    <3>5. r \in Request /\ r.index = request[c].index
      BY <3>2, <3>4 DEF Request
    <3> HIDE DEF r
    <3> QED  BY <3>1, <3>3, <3>5 DEF TypeOK
  <2>4. ASSUME NEW c \in Conns, UnlockFile(c) PROVE TypeOK'
    BY <2>4, LockConstants DEF UnlockFile, TypeOK, Idle, Request
  <2>5. ASSUME NEW c \in Conns, NEW p \in Paths, NEW u \in Users, LockFile(c, p, u)
        PROVE  TypeOK'
    <3> DEFINE t == Searched(p, u)
               free == {i \in Slots : t[i].path = None}
    <3>1. t \in [Slots -> Lock]
      BY SearchedType DEF TypeOK
    <3>2. New(p, u) \in Lock
      BY NewType DEF TypeOK
    <3>3. ASSUME NEW i \in Slots, Granted(c, p, u, i)
          PROVE  request' \in [Conns -> Request]
                 /\ \A d \in Conns : request'[d].pc # "idle" => request'[d].index \in Slots
      <4> DEFINE r == [pc |-> "granted", path |-> p, user |-> u, index |-> i,
                       token |-> None, owner |-> None]
      <4>1. r \in Request /\ r.index \in Slots
        BY LockConstants DEF Request, Slots
      <4>2. request' = [request EXCEPT ![c] = r]
        BY <3>3 DEF Granted
      <4> HIDE DEF r
      <4> QED  BY <4>1, <4>2 DEF TypeOK
    <3>4. now' \in 0..MaxTime
      BY <2>5 DEF LockFile, TypeOK
    <3>5. ASSUME NEW s \in SUBSET Slots, s # {} PROVE Least(s) \in Slots
      <4>1. s \in SUBSET Nat
        BY DEF Slots
      <4> QED  BY <4>1, <3>5, LeastIsLeast
    <3> HIDE DEF t
    <3>6. CASE dav_lock' = t /\ UNCHANGED request
      BY <3>1, <3>4, <3>6 DEF TypeOK
    <3>7. CASE /\ free # {} /\ dav_lock' = [t EXCEPT ![Least(free)] = New(p, u)]
               /\ Granted(c, p, u, Least(free))
      <4>1. Least(free) \in Slots
        BY <3>5, <3>7
      <4> HIDE DEF free
      <4> QED  BY <3>1, <3>2, <3>3, <3>4, <3>7, <4>1 DEF TypeOK
    <3>8. CASE /\ Own(p, u) # {} /\ dav_lock' = t /\ Granted(c, p, u, Least(Own(p, u)))
      <4>1. Least(Own(p, u)) \in Slots
        BY <3>5, <3>8 DEF Own, On
      <4> QED  BY <3>1, <3>3, <3>4, <3>8, <4>1 DEF TypeOK
    <3>9. CASE /\ dav_lock' = [t EXCEPT ![Oldest(t)].path = None]
               /\ Granted(c, p, u, Oldest(t))
      <4>1. Oldest(t) \in Slots
        BY <3>1, OldestType
      <4>2. dav_lock' \in [Slots -> Lock]
        BY <3>1, <3>9, <4>1 DEF Lock
      <4> QED  BY <3>3, <3>4, <3>9, <4>1, <4>2 DEF TypeOK
    <3> QED  BY <2>5, <3>6, <3>7, <3>8, <3>9 DEF LockFile, t
  <2>6. CASE UNCHANGED vars
    BY <2>6 DEF vars, TypeOK
  <2> QED  BY <2>1, <2>2, <2>3, <2>4, <2>5, <2>6 DEF Next
<1> QED  BY <1>1, <1>2, PTL DEF Spec

-----------------------------------------------------------------------------
(* What a request that is not refused leaves of its resource: locks of its *)
(* own user only.                                                          *)
LEMMA SearchLeavesOwn ==
  ASSUME dav_lock \in [Slots -> Lock], OneOwner, NEW p \in Paths, NEW u \in Users,
         Refusing(p, u) = {}, NEW i \in Slots, Searched(p, u)[i].path = p
  PROVE  dav_lock[i].path = p /\ dav_lock[i].user = u
<1>1. dav_lock[i].path = p
  BY LockConstants DEF Searched, Lock
<1>2. i \notin Foreign(p, u)
  BY LockConstants DEF Searched, Lock
<1>3. CASE Own(p, u) = {}
  BY <1>1, <1>2, <1>3 DEF Foreign, On
<1>4. CASE Own(p, u) # {}
  <2> PICK j \in Own(p, u) : TRUE
    BY <1>4
  <2> QED  BY <1>1, LockConstants DEF OneOwner, Own, On
<1> QED  BY <1>3, <1>4

(* The search never gives a lock to another resource or user. *)
LEMMA SearchKeepsOwners ==
  ASSUME dav_lock \in [Slots -> Lock], NEW p, NEW u, NEW i \in Slots,
         Searched(p, u)[i].path # None
  PROVE  /\ Searched(p, u)[i].path = dav_lock[i].path
         /\ Searched(p, u)[i].user = dav_lock[i].user
BY DEF Searched, Lock

(* No resource is ever locked by two users at a time, whatever the order   *)
(* of their requests and of the expiry of their locks.                     *)
THEOREM OneOwnerAlways == Spec => []OneOwner
<1>1. Init => OneOwner
  BY DEF Init, OneOwner
<1>2. TypeOK /\ OneOwner /\ [Next]_vars => OneOwner'
  <2> SUFFICES ASSUME TypeOK, OneOwner, [Next]_vars PROVE OneOwner'
    OBVIOUS
  <2>1. CASE UNCHANGED dav_lock
    BY <2>1 DEF OneOwner
  <2>2. ASSUME NEW c \in Conns, NEW p \in Paths, NEW u \in Users, LockFile(c, p, u)
        PROVE  OneOwner'
    <3> DEFINE t == Searched(p, u)
    <3>1. t \in [Slots -> Lock]
      BY SearchedType DEF TypeOK
    <3>2. \A i \in Slots : t[i].path # None =>
            t[i].path = dav_lock[i].path /\ t[i].user = dav_lock[i].user
      BY SearchKeepsOwners DEF TypeOK
    <3>3. \A i \in Slots : Refusing(p, u) = {} /\ t[i].path = p => t[i].user = u
      <4> SUFFICES ASSUME NEW i \in Slots, Refusing(p, u) = {}, t[i].path = p
                   PROVE  t[i].user = u
        OBVIOUS
      <4>1. dav_lock[i].user = u
        BY SearchLeavesOwn DEF TypeOK
      <4> QED  BY <3>2, <4>1, LockConstants
    <3>4. \A i, j \in Slots : t[i].path # None /\ t[i].path = t[j].path => t[i].user = t[j].user
      BY <3>2 DEF OneOwner
    <3> HIDE DEF t
    <3>5. CASE dav_lock' = t
      BY <3>4, <3>5 DEF OneOwner
    <3>6. ASSUME Refusing(p, u) = {}, NEW k, dav_lock' = [t EXCEPT ![k] = New(p, u)]
          PROVE  OneOwner'
      BY <3>1, <3>3, <3>4, <3>6 DEF OneOwner, New
    <3>7. ASSUME NEW k, dav_lock' = [t EXCEPT ![k].path = None]
          PROVE  OneOwner'
      BY <3>1, <3>4, <3>7 DEF OneOwner, Lock
    <3> QED  BY <2>2, <3>5, <3>6, <3>7 DEF LockFile, t
  <2> QED  BY <2>1, <2>2 DEF Next, Tick, SendToken, SendBody, UnlockFile, vars
<1> QED  BY <1>1, <1>2, TypeCorrect, PTL DEF Spec

-----------------------------------------------------------------------------
(* A lock that has not expired is only taken from its user when the table  *)
(* is full, and then it is the one that was set or renewed first.          *)
THEOREM ValidLockStaysAlways == Spec => ValidLockStays
<1> DEFINE Taken(i) ==
      /\ dav_lock[i].path # None /\ ~ Expired(dav_lock[i])
      /\ <<dav_lock'[i].path, dav_lock'[i].user>> # <<dav_lock[i].path, dav_lock[i].user>>
           NoRoom(i) ==
      \A j \in Slots : dav_lock[j].path # None /\ dav_lock[i].locktime <= dav_lock[j].locktime
<1>1. TypeOK /\ [Next]_vars => [\A i \in Slots : Taken(i) => NoRoom(i)]_vars
  <2> SUFFICES ASSUME TypeOK, [Next]_vars, NEW i \in Slots, Taken(i) PROVE NoRoom(i)
    OBVIOUS
  <2>1. CASE UNCHANGED dav_lock
    BY <2>1
  <2>2. ASSUME NEW c \in Conns, NEW p \in Paths, NEW u \in Users, LockFile(c, p, u)
        PROVE  NoRoom(i)
    <3> DEFINE t == Searched(p, u)
               free == {j \in Slots : t[j].path = None}
    <3>1. t \in [Slots -> Lock]
      BY SearchedType DEF TypeOK
    <3>2. t[i].path = dav_lock[i].path /\ t[i].user = dav_lock[i].user
      <4>1. i \in Foreign(p, u) => i \in Refusing(p, u)
        BY DEF Refusing
      <4>2. i \in Nat
        BY DEF Slots
      <4>3. ~ (i \in Foreign(p, u) /\ \A r \in Refusing(p, u) : i < r)
        BY <4>1, <4>2
      <4>4. dav_lock[i] \in Lock
        BY DEF TypeOK
      <4> QED  BY <4>3, <4>4 DEF Searched, Lock
    <3>3. CASE dav_lock' = t
      BY <3>2, <3>3
    <3>4. CASE free # {} /\ dav_lock' = [t EXCEPT ![Least(free)] = New(p, u)]
      <4>1. free \in SUBSET Nat
        BY DEF Slots
      <4>2. Least(free) \in free
        <5> HIDE DEF free
        <5> QED  BY <3>4, <4>1, LeastIsLeast
      <4>3. Least(free) # i
        BY <3>2, <4>2
      <4> QED  BY <3>1, <3>2, <3>4, <4>3
    <3>5. CASE free = {} /\ Own(p, u) = {} /\ dav_lock' = [t EXCEPT ![Oldest(t)].path = None]
      <4>1. \A j \in Slots : t[j] = dav_lock[j]
        BY <3>5 DEF Searched, TypeOK, Lock
      <4>2. Oldest(t) = i
        BY <3>1, <3>2, <3>5
      <4>3. \A j \in Slots : t[Oldest(t)].locktime <= t[j].locktime
        BY <3>1, OldestType
      <4> QED  BY <3>5, <4>1, <4>2, <4>3
    <3> QED  BY <2>2, <3>3, <3>4, <3>5 DEF LockFile
  <2> QED  BY <2>1, <2>2 DEF Next, Tick, SendToken, SendBody, UnlockFile, vars
<1> QED  BY <1>1, TypeCorrect, PTL DEF Spec, ValidLockStays

-----------------------------------------------------------------------------
(* The table as a service of locks. *)

(* The locks of a table t on a resource, its holder, and whether they have *)
(* all expired at time n.                                                  *)
Locks(t, q) == {i \in Slots : t[i].path = q}
HolderIn(t, q) == IF Locks(t, q) = {} THEN None ELSE t[Least(Locks(t, q))].user
LapsedIn(t, n, q) == Locks(t, q) # {} /\ \A i \in Locks(t, q) : n > t[i].locktime + Duration

Single(t) ==
  /\ t \in [Slots -> Lock]
  /\ \A i, j \in Slots : t[i].path # None /\ t[i].path = t[j].path => t[i].user = t[j].user
  /\ \A i \in Slots : t[i].path # None => t[i].user \in Users

LEMMA HolderIs ==
  ASSUME NEW t, Single(t), NEW q \in Paths, NEW i \in Locks(t, q)
  PROVE  HolderIn(t, q) = t[i].user /\ t[i].user \in Users /\ t[i].user # None
<1> DEFINE l == Locks(t, q)
<1>1. l \in SUBSET Nat /\ l # {} /\ l \subseteq Slots BY DEF Locks, Slots
<1> DEFINE j == Least(l)
<1>2. j \in l
  <2> HIDE DEF l
  <2> QED BY <1>1, LeastIsLeast
<1>3. HolderIn(t, q) = t[j].user BY <1>1 DEF HolderIn
<1> HIDE DEF j
<1>4. /\ j \in Slots /\ t[j].path = q /\ i \in Slots /\ t[i].path = q /\ q # None
  BY <1>2, LockConstants DEF Locks
<1>5. t[j].user = t[i].user /\ t[i].user \in Users BY <1>4 DEF Single
<1> QED BY <1>3, <1>5, LockConstants

(* A resource whose locks stay as they are keeps its holder. *)
LEMMA SameLocks ==
  ASSUME NEW t, NEW s, NEW q, NEW n,
         \A i \in Slots : t[i].path = q \/ s[i].path = q => t[i] = s[i]
  PROVE  HolderIn(t, q) = HolderIn(s, q) /\ (LapsedIn(t, n, q) <=> LapsedIn(s, n, q))
<1>1. Locks(t, q) = Locks(s, q) BY DEF Locks
<1>2. \A i \in Locks(s, q) : t[i] = s[i] BY DEF Locks
<1>3. LapsedIn(t, n, q) <=> LapsedIn(s, n, q) BY <1>1, <1>2 DEF LapsedIn
<1>4. Locks(s, q) # {} => Least(Locks(s, q)) \in Locks(s, q)
  <2>1. Locks(s, q) \in SUBSET Nat BY DEF Locks, Slots
  <2> QED BY <2>1, LeastIsLeast
<1>5. HolderIn(t, q) = HolderIn(s, q) BY <1>1, <1>2, <1>4 DEF HolderIn
<1> QED BY <1>3, <1>5

LEMMA MappingIs ==
  /\ Holder = [q \in Paths |-> HolderIn(dav_lock, q)]
  /\ Lapsed = {q \in Paths : LapsedIn(dav_lock, now, q)}
  /\ Holder' = [q \in Paths |-> HolderIn(dav_lock', q)]
  /\ Lapsed' = {q \in Paths : LapsedIn(dav_lock', now', q)}
BY DEF Holder, Lapsed, On, Expired, HolderIn, LapsedIn, Locks, Least

(* A lock is somebody's. *)
Held == \A i \in Slots : dav_lock[i].path # None => dav_lock[i].user \in Users

LEMMA HeldStep == TypeOK /\ Held /\ [Next]_vars => Held'
<1> SUFFICES ASSUME TypeOK, Held, [Next]_vars PROVE Held' OBVIOUS
<1>1. CASE UNCHANGED dav_lock BY <1>1 DEF Held
<1>2. ASSUME NEW c \in Conns, NEW p \in Paths, NEW u \in Users, LockFile(c, p, u) PROVE Held'
  <2> DEFINE t == Searched(p, u)
  <2>1. t \in [Slots -> Lock] BY SearchedType DEF TypeOK
  <2>2. \A i \in Slots : t[i].path # None => t[i].user \in Users
    BY SearchKeepsOwners DEF TypeOK, Held
  <2> HIDE DEF t
  <2>3. \/ dav_lock' = t
        \/ \E k : dav_lock' = [t EXCEPT ![k] = New(p, u)]
        \/ \E k : dav_lock' = [t EXCEPT ![k].path = None]
    BY <1>2 DEF LockFile, t
  <2>4. CASE dav_lock' = t BY <2>2, <2>4 DEF Held
  <2>5. CASE \E k : dav_lock' = [t EXCEPT ![k] = New(p, u)]
    BY <2>1, <2>2, <2>5 DEF Held, New
  <2>6. CASE \E k : dav_lock' = [t EXCEPT ![k].path = None]
    BY <2>1, <2>2, <2>6 DEF Held, Lock
  <2> QED BY <2>3, <2>4, <2>5, <2>6
<1> QED BY <1>1, <1>2 DEF Next, Tick, SendToken, SendBody, UnlockFile, vars

(* What the search does: only locks on p change, by being cleared or       *)
(* renewed, and nothing is cleared that is the user's own.                 *)
LEMMA SearchFacts ==
  ASSUME TypeOK, NEW p \in Paths, NEW u \in Users, NEW i \in Slots
  PROVE  /\ dav_lock[i].path # p => Searched(p, u)[i] = dav_lock[i]
         /\ Searched(p, u)[i].path \in {dav_lock[i].path, None}
         /\ Searched(p, u)[i].path = None =>
              dav_lock[i].path = None
              \/ (dav_lock[i].path = p /\ dav_lock[i].user # u /\ i \notin Refusing(p, u))
         /\ Refusing(p, u) # {} /\ i \in Refusing(p, u) => Searched(p, u)[i] = dav_lock[i]
<1>1. dav_lock[i] \in Lock BY DEF TypeOK
<1>2. i \in Foreign(p, u) => dav_lock[i].path = p /\ dav_lock[i].user # u
  BY DEF Foreign, Own, On
<1>3. i \in Own(p, u) => dav_lock[i].path = p BY DEF Own, On
<1>4. i \in Refusing(p, u) => ~ (\A r \in Refusing(p, u) : i < r) BY DEF Slots
<1>5. Own(p, u) # {} => Least(Own(p, u)) \in Own(p, u)
  <2>1. Own(p, u) \in SUBSET Nat BY DEF Own, On, Slots
  <2> QED BY <2>1, LeastIsLeast
<1>6. [dav_lock[i] EXCEPT !.path = None].path = None
      /\ [dav_lock[i] EXCEPT !.locktime = now].path = dav_lock[i].path
  BY <1>1 DEF Lock
<1>7. Searched(p, u)[i] =
        IF i \in Foreign(p, u) /\ (\A r \in Refusing(p, u) : i < r)
        THEN [dav_lock[i] EXCEPT !.path = None]
        ELSE IF Refusing(p, u) = {} /\ Own(p, u) # {} /\ i = Least(Own(p, u))
        THEN [dav_lock[i] EXCEPT !.locktime = now]
        ELSE dav_lock[i]
  BY DEF Searched
<1>8. dav_lock[i].path # p => Searched(p, u)[i] = dav_lock[i]
  BY <1>2, <1>3, <1>5, <1>7
<1> QED BY <1>2, <1>4, <1>6, <1>7, <1>8

LEMMA SingleIs == TypeOK /\ OneOwner /\ Held => Single(dav_lock)
BY DEF TypeOK, OneOwner, Held, Single

LEMMA SingleIsPrime == (TypeOK /\ OneOwner /\ Held => Single(dav_lock))'
BY SingleIs, PTL

(* A user who asks is turned away, or takes a resource that nobody else    *)
(* has a valid lock on.                                                    *)
LEMMA WhoMayTake ==
  ASSUME TypeOK, Single(dav_lock), NEW p \in Paths, NEW u \in Users
  PROVE  /\ Refusing(p, u) = {} => Service!Available(p, u)
         /\ Refusing(p, u) # {} => ~ Service!Available(p, u)
         /\ Own(p, u) # {} => Holder[p] = u
         /\ On(p) # {} => Holder[p] # None
<1>1. On(p) = Locks(dav_lock, p) BY DEF On, Locks
<1>2. Holder[p] = HolderIn(dav_lock, p) BY MappingIs
<1>3. \A i \in On(p) : Holder[p] = dav_lock[i].user /\ Holder[p] # None
  BY <1>1, <1>2, HolderIs
<1>4. Own(p, u) # {} => Holder[p] = u BY <1>3 DEF Own
<1>5. ASSUME Refusing(p, u) = {} PROVE Service!Available(p, u)
  <2>1. CASE On(p) = {} BY <1>1, <1>2, <2>1 DEF HolderIn, Service!Available
  <2>2. CASE Own(p, u) # {} BY <1>4, <2>2 DEF Service!Available
  <2>3. CASE On(p) # {} /\ Own(p, u) = {}
    <3>1. On(p) = Foreign(p, u) BY <2>3 DEF Foreign, Own, On
    <3>2. \A i \in On(p) : Expired(dav_lock[i]) BY <1>5, <3>1 DEF Refusing
    <3>3. p \in Lapsed BY <2>3, <3>2 DEF Lapsed
    <3> QED BY <3>3 DEF Service!Available
  <2> QED BY <2>1, <2>2, <2>3
<1>6. ASSUME Refusing(p, u) # {} PROVE ~ Service!Available(p, u)
  <2>1. PICK r \in Refusing(p, u) : TRUE BY <1>6
  <2>2. r \in On(p) /\ dav_lock[r].user # u /\ ~ Expired(dav_lock[r])
    BY DEF Refusing, Foreign, Own, On
  <2>3. p \notin Lapsed BY <2>2 DEF Lapsed
  <2> QED BY <1>3, <2>2, <2>3 DEF Service!Available
<1> QED BY <1>3, <1>4, <1>5, <1>6

(* A table in which u has set or renewed a lock on p. *)
LEMMA TakeStep ==
  ASSUME Single(dav_lock'), UNCHANGED now, NEW p \in Paths, NEW u \in Users,
         Service!Available(p, u), Full => Holder[p] # None,
         NEW k \in Locks(dav_lock', p), dav_lock'[k].user = u,
         ~ (now > dav_lock'[k].locktime + Duration),
         \A q \in Paths \ {p} : \A i \in Slots :
           dav_lock'[i].path = q \/ dav_lock[i].path = q => dav_lock'[i] = dav_lock[i]
  PROVE  Service!Take(p, u)
<1>1. HolderIn(dav_lock', p) = u BY HolderIs
<1>2. ~ LapsedIn(dav_lock', now', p) BY DEF LapsedIn
<1>3. \A q \in Paths \ {p} :
        /\ HolderIn(dav_lock', q) = HolderIn(dav_lock, q)
        /\ LapsedIn(dav_lock', now', q) <=> LapsedIn(dav_lock, now, q)
  BY SameLocks
<1>4. Holder' = [Holder EXCEPT ![p] = u] BY <1>1, <1>3, MappingIs
<1>5. Lapsed' = Lapsed \ {p} BY <1>2, <1>3, MappingIs
<1>6. Full' \in BOOLEAN BY DEF Full
<1> QED BY <1>4, <1>5, <1>6 DEF Service!Take

LEMMA LockIsService ==
  ASSUME TypeOK, TypeOK', Single(dav_lock), Single(dav_lock'),
         NEW c \in Conns, NEW p \in Paths, NEW u \in Users, LockFile(c, p, u)
  PROVE  Service!Next
<1> DEFINE t == Searched(p, u)
           free == {i \in Slots : t[i].path = None}
<1>1. t \in [Slots -> Lock] /\ UNCHANGED now BY SearchedType DEF TypeOK, LockFile
<1>2. ASSUME NEW i \in Slots
      PROVE  /\ dav_lock[i].path # p => t[i] = dav_lock[i]
             /\ t[i].path \in {dav_lock[i].path, None}
             /\ t[i].path = None =>
                  dav_lock[i].path = None
                  \/ (dav_lock[i].path = p /\ dav_lock[i].user # u /\ i \notin Refusing(p, u))
             /\ Refusing(p, u) # {} /\ i \in Refusing(p, u) => t[i] = dav_lock[i]
  BY SearchFacts
<1>3. p # None BY LockConstants
<1>4. \A q \in Paths \ {p} : \A i \in Slots :
        t[i].path = q \/ dav_lock[i].path = q => t[i] = dav_lock[i]
  <2> SUFFICES ASSUME NEW q \in Paths \ {p}, NEW i \in Slots,
                      t[i].path = q \/ dav_lock[i].path = q
               PROVE  dav_lock[i].path # p
    BY <1>2
  <2> QED BY <1>2, LockConstants
<1> HIDE DEF t
(* Turned away. *)
<1>5. CASE Refusing(p, u) # {} /\ dav_lock' = t
  <2>1. PICK r \in Refusing(p, u) : TRUE BY <1>5
  <2>2. r \in Slots /\ dav_lock[r].path = p /\ ~ (now > dav_lock[r].locktime + Duration)
    BY DEF Refusing, Foreign, On, Expired
  <2>3. t[r] = dav_lock[r] BY <1>2, <1>5, <2>2
  <2>4. r \in Locks(dav_lock, p) /\ r \in Locks(t, p) BY <2>2, <2>3 DEF Locks
  <2>5. HolderIn(t, p) = HolderIn(dav_lock, p) BY <1>5, <2>3, <2>4, HolderIs
  <2>6. ~ LapsedIn(t, now, p) /\ ~ LapsedIn(dav_lock, now, p) BY <2>2, <2>3, <2>4 DEF LapsedIn
  <2>7. \A q \in Paths \ {p} :
          /\ HolderIn(t, q) = HolderIn(dav_lock, q)
          /\ LapsedIn(t, now, q) <=> LapsedIn(dav_lock, now, q)
    BY <1>4, SameLocks
  <2>8. Holder' = Holder BY <1>5, <2>5, <2>7, MappingIs
  <2>9. Lapsed' = Lapsed BY <1>1, <1>5, <2>6, <2>7, MappingIs
  <2>10. Full' \in {Full, FALSE}
    <3>1. Full' => Full BY <1>2, <1>5 DEF Full
    <3>2. Full \in BOOLEAN /\ Full' \in BOOLEAN BY DEF Full
    <3> QED BY <3>1, <3>2
  <2>11. ~ Service!Available(p, u) BY <1>5, WhoMayTake
  <2>12. Service!Refuse(p, u) BY <2>8, <2>9, <2>10, <2>11 DEF Service!Refuse
  <2> QED BY <2>12 DEF Service!Next
(* A new lock in a free slot. *)
<1>6. CASE Refusing(p, u) = {} /\ free # {} /\ dav_lock' = [t EXCEPT ![Least(free)] = New(p, u)]
  <2> DEFINE k == Least(free)
  <2>1. k \in free
    <3>1. free \in SUBSET Nat BY DEF Slots
    <3> HIDE DEF free
    <3> QED BY <1>6, <3>1, LeastIsLeast
  <2>2. k \in Slots /\ t[k].path = None BY <2>1
  <2>3. dav_lock' = [t EXCEPT ![k] = New(p, u)] BY <1>6
  <2> HIDE DEF k, free
  <2>4. dav_lock'[k] = New(p, u) /\ \A i \in Slots \ {k} : dav_lock'[i] = t[i]
    BY <1>1, <2>2, <2>3
  <2>5. k \in Locks(dav_lock', p) /\ dav_lock'[k].user = u /\ dav_lock'[k].locktime = now
    BY <2>2, <2>4 DEF Locks, New
  <2>6. ~ (now > dav_lock'[k].locktime + Duration) BY <2>5, LockConstants DEF TypeOK
  <2>7. \A q \in Paths \ {p} : \A i \in Slots :
          dav_lock'[i].path = q \/ dav_lock[i].path = q => dav_lock'[i] = dav_lock[i]
    <3> SUFFICES ASSUME NEW q \in Paths \ {p}, NEW i \in Slots,
                        dav_lock'[i].path = q \/ dav_lock[i].path = q
                 PROVE  dav_lock'[i] = dav_lock[i]
      OBVIOUS
    <3>1. CASE i = k
      <4>1. dav_lock'[i].path = p BY <2>4, <3>1 DEF New
      <4>2. dav_lock[i].path = q BY <4>1
      <4>3. t[i].path = q BY <1>4, <4>2
      <4> QED BY <2>2, <3>1, <4>3, LockConstants
    <3>2. CASE i # k BY <1>4, <2>4, <3>2
    <3> QED BY <3>1, <3>2
  <2>8. Full => Holder[p] # None
    <3> SUFFICES ASSUME Full PROVE On(p) # {} BY WhoMayTake
    <3>1. dav_lock[k].path = p BY <1>2, <2>2 DEF Full
    <3> QED BY <2>2, <3>1 DEF On
  <2>9. Service!Take(p, u) BY <1>1, <1>6, <2>5, <2>6, <2>7, <2>8, TakeStep, WhoMayTake
  <2> QED BY <2>9 DEF Service!Next
(* A renewal in a full table. *)
<1>7. CASE Refusing(p, u) = {} /\ free = {} /\ Own(p, u) # {} /\ dav_lock' = t
  <2> DEFINE k == Least(Own(p, u))
  <2>1. k \in Own(p, u)
    <3>1. Own(p, u) \in SUBSET Nat BY DEF Own, On, Slots
    <3> QED BY <1>7, <3>1, LeastIsLeast
  <2>2. k \in Slots /\ dav_lock[k].path = p /\ dav_lock[k].user = u BY <2>1 DEF Own, On
  <2>3. k \notin Foreign(p, u) BY <2>1 DEF Foreign
  <2>4. t[k] = [dav_lock[k] EXCEPT !.locktime = now]
    BY <1>7, <2>2, <2>3 DEF t, Searched
  <2>5. t[k].path = p /\ t[k].user = u /\ t[k].locktime = now
    <3>1. dav_lock[k] \in Lock BY <2>2 DEF TypeOK
    <3> HIDE DEF k
    <3> QED BY <2>2, <2>4, <3>1 DEF Lock
  <2> HIDE DEF k, free
  <2>6. k \in Locks(dav_lock', p) /\ dav_lock'[k].user = u BY <1>7, <2>2, <2>5 DEF Locks
  <2>7. ~ (now > dav_lock'[k].locktime + Duration) BY <1>7, <2>5, LockConstants DEF TypeOK
  <2>8. Full => Holder[p] # None BY <1>7, WhoMayTake DEF Own
  <2>9. Service!Available(p, u) BY <1>7, WhoMayTake
  <2>10. Service!Take(p, u) BY <1>1, <1>4, <1>7, <2>6, <2>7, <2>8, <2>9, TakeStep
  <2> QED BY <2>10 DEF Service!Next
(* Room is made. *)
<1>8. CASE /\ Refusing(p, u) = {} /\ free = {} /\ Own(p, u) = {}
           /\ dav_lock' = [t EXCEPT ![Oldest(t)].path = None]
  <2>1. \A j \in Slots : t[j] = dav_lock[j]
    <3> SUFFICES ASSUME NEW j \in Slots PROVE t[j] = dav_lock[j] OBVIOUS
    <3>1. t[j].path # None BY <1>8
    <3>2. dav_lock[j] \in Lock BY DEF TypeOK
    <3> QED BY <1>8, <3>1, <3>2 DEF t, Searched, Lock
  <2> DEFINE k == Oldest(t)
  <2>2. k \in Slots /\ \A j \in Slots : dav_lock[k].locktime <= dav_lock[j].locktime
    <3>1. k \in Slots /\ \A j \in Slots : t[k].locktime <= t[j].locktime BY <1>1, OldestType
    <3> HIDE DEF k
    <3> QED BY <2>1, <3>1
  <2>3. dav_lock' = [t EXCEPT ![k].path = None] BY <1>8
  <2>4. \A j \in Slots : dav_lock[j].path # None BY <1>8, <2>1
  <2> HIDE DEF k, free
  <2>5. dav_lock'[k].path = None /\ \A j \in Slots \ {k} : dav_lock'[j] = dav_lock[j]
    <3>1. t[k] \in Lock BY <1>1, <2>2
    <3> QED BY <1>1, <2>1, <2>2, <2>3, <3>1 DEF Lock
  <2>6. Full /\ ~ Full' BY <2>2, <2>4, <2>5 DEF Full
  <2>7. PICK q \in Paths : dav_lock[k].path = q
    <3>1. dav_lock[k] \in Lock BY <2>2 DEF TypeOK
    <3>2. dav_lock[k].path \in Paths BY <2>2, <2>4, <3>1 DEF Lock
    <3> QED BY <3>2
  <2>8. \A s \in Paths \ {q} :
          /\ HolderIn(dav_lock', s) = HolderIn(dav_lock, s)
          /\ LapsedIn(dav_lock', now, s) <=> LapsedIn(dav_lock, now, s)
    <3>1. \A s \in Paths \ {q} : \A i \in Slots :
            dav_lock'[i].path = s \/ dav_lock[i].path = s => dav_lock'[i] = dav_lock[i]
      BY <2>5, <2>7, LockConstants
    <3> QED BY <3>1, SameLocks
  <2>9. Locks(dav_lock', q) = Locks(dav_lock, q) \ {k}
    BY <2>5, <2>7, LockConstants DEF Locks
  <2>10. k \in Locks(dav_lock, q) BY <2>2, <2>7 DEF Locks
  <2>11. \A s \in Paths : s \in Lapsed => Holder[s] # None
    <3> SUFFICES ASSUME NEW s \in Paths, s \in Lapsed PROVE Holder[s] # None OBVIOUS
    <3>1. On(s) # {} BY DEF Lapsed
    <3> QED BY <3>1, WhoMayTake
  <2>12. CASE Locks(dav_lock', q) = {}
    <3>1. HolderIn(dav_lock', q) = None /\ ~ LapsedIn(dav_lock', now, q)
      BY <2>12 DEF HolderIn, LapsedIn
    <3>2. Holder' = [Holder EXCEPT ![q] = None] BY <2>8, <3>1, MappingIs
    <3>3. \A s \in Paths : s \in Lapsed' <=> s \in Lapsed /\ s # q
      BY <1>1, <2>8, <3>1, MappingIs
    <3>4. \A s \in Paths : Holder'[s] = IF s = q THEN None ELSE Holder[s]
      BY <3>2, MappingIs
    <3>5. Lapsed' \subseteq Paths /\ Lapsed \subseteq Paths BY MappingIs
    <3>6. Lapsed' = {s \in Lapsed : Holder'[s] # None}
      BY <2>11, <3>3, <3>4, <3>5
    <3>7. q \in Paths /\ Holder' \in {Holder, [Holder EXCEPT ![q] = None]} BY <3>2
    <3>8. Service!Evict BY <2>6, <3>6, <3>7 DEF Service!Evict
    <3> QED BY <3>8 DEF Service!Next
  <2>13. CASE Locks(dav_lock', q) # {}
    <3>1. PICK j \in Locks(dav_lock', q) : TRUE BY <2>13
    <3>2. j \in Slots \ {k} /\ j \in Locks(dav_lock, q) /\ dav_lock'[j] = dav_lock[j]
      BY <2>5, <2>9 DEF Locks
    <3>3. HolderIn(dav_lock', q) = HolderIn(dav_lock, q) BY <3>1, <3>2, HolderIs
    <3>4. LapsedIn(dav_lock', now, q) <=> LapsedIn(dav_lock, now, q)
      (* What is left is not older than what was dropped. *)
      <4>1. \A i \in Locks(dav_lock', q) : dav_lock'[i] = dav_lock[i] /\ i \in Slots
        BY <2>5, <2>9 DEF Locks
      <4>2. \A i \in Slots : dav_lock[i].locktime \in Nat
        <5> SUFFICES ASSUME NEW i \in Slots PROVE dav_lock[i].locktime \in Nat OBVIOUS
        <5>1. dav_lock[i] \in Lock BY DEF TypeOK
        <5> QED BY <5>1 DEF Lock
      <4>3. now \in Nat /\ Duration \in Nat BY LockConstants DEF TypeOK
      <4>4. now > dav_lock[j].locktime + Duration => now > dav_lock[k].locktime + Duration
        BY <2>2, <3>2, <4>2, <4>3
      <4>5. LapsedIn(dav_lock', now, q) => LapsedIn(dav_lock, now, q)
        BY <2>9, <2>10, <3>1, <3>2, <4>1, <4>4 DEF LapsedIn
      <4>6. LapsedIn(dav_lock, now, q) => LapsedIn(dav_lock', now, q)
        BY <2>9, <2>13, <4>1 DEF LapsedIn
      <4> QED BY <4>5, <4>6
    <3>5. Holder' = Holder BY <2>8, <3>3, MappingIs
    <3>6. Lapsed' = Lapsed BY <1>1, <2>8, <3>4, MappingIs
    <3>7. Lapsed \subseteq Paths BY MappingIs
    <3>8. Lapsed' = {s \in Lapsed : Holder'[s] # None} BY <2>11, <3>5, <3>6, <3>7
    <3>9. q \in Paths /\ Holder' \in {Holder, [Holder EXCEPT ![q] = None]} BY <3>5
    <3>10. Service!Evict BY <2>6, <3>8, <3>9 DEF Service!Evict
    <3> QED BY <3>10 DEF Service!Next
  <2> QED BY <2>12, <2>13
<1> QED BY <1>5, <1>6, <1>7, <1>8 DEF LockFile, t

LEMMA ServiceStep ==
  TypeOK /\ TypeOK' /\ OneOwner /\ OneOwner' /\ Held /\ Held' /\ [Next]_vars
    => [Service!Next]_(Service!vars)
<1> SUFFICES ASSUME TypeOK, TypeOK', Single(dav_lock), Single(dav_lock'), [Next]_vars
             PROVE  [Service!Next]_(Service!vars)
  BY SingleIs, SingleIsPrime
<1>1. CASE \E c \in Conns, p \in Paths, u \in Users : LockFile(c, p, u)
  <2>1. PICK c \in Conns, p \in Paths, u \in Users : LockFile(c, p, u) BY <1>1
  <2>2. Service!Next BY <2>1, LockIsService
  <2> QED BY <2>2
<1>2. CASE Tick
  <2>1. UNCHANGED dav_lock /\ now' = now + 1 /\ now \in Nat BY <1>2 DEF Tick, TypeOK
  <2>2. Holder' = Holder BY <2>1, MappingIs
  <2>3. Full' = Full BY <2>1 DEF Full
  <2>4. \A q \in Paths : LapsedIn(dav_lock, now, q) => LapsedIn(dav_lock', now', q)
    <3> SUFFICES ASSUME NEW q \in Paths, NEW i \in Locks(dav_lock, q),
                        now > dav_lock[i].locktime + Duration
                 PROVE  now' > dav_lock[i].locktime + Duration
      BY <2>1 DEF LapsedIn
    <3>1. dav_lock[i] \in Lock BY DEF TypeOK, Locks
    <3>2. dav_lock[i].locktime \in Nat /\ Duration \in Nat BY <3>1, LockConstants DEF Lock
    <3> QED BY <2>1, <3>2
  <2>5. Lapsed \subseteq Lapsed' BY <2>4, MappingIs
  <2>6. \A q \in Paths : q \in Lapsed' => Holder[q] # None
    <3> SUFFICES ASSUME NEW q \in Paths, q \in Lapsed' PROVE Holder[q] # None OBVIOUS
    <3>1. LapsedIn(dav_lock', now', q) BY MappingIs
    <3>2. PICK i \in Locks(dav_lock, q) : TRUE BY <2>1, <3>1 DEF LapsedIn
    <3>3. HolderIn(dav_lock, q) # None BY HolderIs
    <3> QED BY <3>3, MappingIs
  <2>7. Lapsed' \subseteq {q \in Paths : Holder[q] # None} BY <2>6, MappingIs
  <2>8. Service!Lapse BY <2>2, <2>3, <2>5, <2>7 DEF Service!Lapse
  <2> QED BY <2>8 DEF Service!Next
<1>3. CASE UNCHANGED <<dav_lock, now>>
  <2>1. Holder' = Holder /\ Lapsed' = Lapsed BY <1>3, MappingIs
  <2>2. Full' = Full BY <1>3 DEF Full
  <2> QED BY <2>1, <2>2 DEF Service!vars
<1> QED BY <1>1, <1>2, <1>3 DEF Next, SendToken, SendBody, UnlockFile, vars

(* Users who lock, renew and unlock in any order and at any time see one   *)
(* holder per resource, who is only followed by another user once all his  *)
(* locks have expired, or dropped, one lock at a time, by a full table     *)
(* (dav_lock_file and dav_unlock_file).                                    *)
THEOREM TableImplementsService == Spec => ImplementsService
<1>1. Init => Service!Init
  <2> SUFFICES ASSUME Init PROVE Service!Init OBVIOUS
  <2>1. \A q \in Paths : On(q) = {} BY LockConstants DEF Init, On
  <2>2. Holder = [q \in Paths |-> None] BY <2>1 DEF Holder
  <2>3. Lapsed = {} BY <2>1 DEF Lapsed
  <2>4. 1 \in Slots BY LockConstants DEF Slots
  <2>5. Full = FALSE BY <2>4 DEF Full, Init
  <2> QED BY <2>2, <2>3, <2>5 DEF Service!Init
<1>2. Init => Held BY DEF Init, Held
<1>3. Spec => [](TypeOK /\ OneOwner)
  BY TypeCorrect, OneOwnerAlways, PTL
<1>4. Spec => Service!Init /\ [][Service!Next]_(Service!vars)
  BY <1>1, <1>2, <1>3, HeldStep, ServiceStep, PTL DEF Spec
<1> QED BY <1>4 DEF ImplementsService, Service!Spec

-----------------------------------------------------------------------------
(* The token of an answer. *)

(* A lock carries the token that was made for it: a renewal changes its    *)
(* time only.                                                              *)
Stamped(t) ==
  \A i \in Slots : t[i].path # None =>
    t[i].token \in Token /\ t[i].token.path = t[i].path /\ t[i].token.user = t[i].user

(* The slot a request was granted still is the lock it was granted. *)
StillHeld(t, r) == t[r.index].path = r.path /\ t[r.index].user = r.user
Pending(r) == r.pc \in {"granted", "headers"}

(* A pending request is for a lock of a user on a resource. *)
Asked == \A c \in Conns : Pending(request[c]) => request[c].path \in Paths
AnswerInv == Stamped(dav_lock) /\ Asked

Evictable(i) ==
  \A j \in Slots : dav_lock[j].path # None /\ dav_lock[i].locktime <= dav_lock[j].locktime

(* What an answer says is right while the lock is still there, and how a   *)
(* lock can be gone before the answer.                                     *)
RightWhileHeld(r, s) ==
  Pending(r) /\ StillHeld(dav_lock, r) =>
    /\ r.pc = "granted" /\ s.pc = "headers" =>
         s.token \in Token /\ s.token.path = r.path /\ s.token.user = r.user
    /\ r.pc = "headers" /\ s.pc = "answered" => s.owner = r.user
GrantHolds(r, s) ==
  ~ Pending(r) /\ Pending(s) => StillHeld(dav_lock', s) \/ Full
LossIsDue(r, s) ==
  Pending(r) /\ StillHeld(dav_lock, r) =>
    StillHeld(dav_lock', r) \/ Expired(dav_lock[r.index]) \/ Evictable(r.index)

LEMMA StampedStep == TypeOK /\ Stamped(dav_lock) /\ [Next]_vars => Stamped(dav_lock')
<1> SUFFICES ASSUME TypeOK, Stamped(dav_lock), [Next]_vars PROVE Stamped(dav_lock') OBVIOUS
<1>1. CASE UNCHANGED dav_lock BY <1>1
<1>2. ASSUME NEW c \in Conns, NEW p \in Paths, NEW u \in Users, LockFile(c, p, u)
      PROVE  Stamped(dav_lock')
  <2> DEFINE t == Searched(p, u)
             free == {j \in Slots : t[j].path = None}
  <2>1. t \in [Slots -> Lock] BY SearchedType DEF TypeOK
  <2>2. Stamped(t)
    <3>1. \A i \in Slots : /\ t[i].token = dav_lock[i].token /\ t[i].user = dav_lock[i].user
                           /\ t[i].path \in {None, dav_lock[i].path}
      BY DEF Searched, TypeOK, Lock
    <3> QED BY <3>1 DEF Stamped
  <2> HIDE DEF t
  <2>3. CASE dav_lock' = t BY <2>2, <2>3
  <2>4. CASE dav_lock' = [t EXCEPT ![Least(free)] = New(p, u)]
    <3>1. /\ New(p, u).token \in Token /\ New(p, u).token.path = New(p, u).path
          /\ New(p, u).token.user = New(p, u).user
      BY DEF New, Token, TypeOK
    <3>2. \A i \in Slots : dav_lock'[i] \in {t[i], New(p, u)} BY <2>1, <2>4
    <3> QED BY <2>2, <3>1, <3>2 DEF Stamped
  <2>5. CASE dav_lock' = [t EXCEPT ![Oldest(t)].path = None]
    <3>1. \A i \in Slots : /\ dav_lock'[i].token = t[i].token /\ dav_lock'[i].user = t[i].user
                           /\ dav_lock'[i].path \in {None, t[i].path}
      BY <2>1, <2>5 DEF Lock
    <3> QED BY <2>2, <3>1 DEF Stamped
  <2> QED BY <1>2, <2>3, <2>4, <2>5 DEF LockFile, t
<1> QED BY <1>1, <1>2 DEF Next, Tick, SendToken, SendBody, UnlockFile, vars

(* What a step does to a request that is not the one it is about. *)
LEMMA RequestChanges ==
  ASSUME TypeOK, NEW c \in Conns, Next, request'[c] # request[c]
  PROVE  \/ SendToken(c) \/ SendBody(c) \/ UnlockFile(c)
         \/ \E p \in Paths, u \in Users : LockFile(c, p, u) /\ Refusing(p, u) = {}
<1>1. request \in [Conns -> Request] BY DEF TypeOK
<1> SUFFICES ASSUME NEW d \in Conns,
                    \/ SendToken(d) \/ SendBody(d) \/ UnlockFile(d)
                    \/ \E p \in Paths, u \in Users : LockFile(d, p, u)
             PROVE  /\ d = c
                    /\ \A p \in Paths, u \in Users : LockFile(d, p, u) => Refusing(p, u) = {}
  BY DEF Next, Tick
<1>2. request' # request BY DEF TypeOK
<1>3. d = c
  BY <1>1 DEF SendToken, SendBody, UnlockFile, LockFile, Granted
<1> QED BY <1>2, <1>3 DEF LockFile

LEMMA AnswerInvStep == TypeOK /\ AnswerInv /\ [Next]_vars => AnswerInv'
<1> SUFFICES ASSUME TypeOK, AnswerInv, [Next]_vars PROVE AnswerInv' OBVIOUS
<1>1. Stamped(dav_lock)' BY StampedStep DEF AnswerInv, Stamped
<1>2. ASSUME NEW c \in Conns, Pending(request'[c]) PROVE request'[c].path \in Paths
  <2>1. CASE request'[c] = request[c] BY <1>2, <2>1 DEF AnswerInv, Asked
  <2>2. CASE request'[c] # request[c]
    <3>1. Next BY <2>2 DEF vars
    <3>2. request \in [Conns -> Request] BY DEF TypeOK
    <3>3. CASE SendToken(c) \/ SendBody(c)
      <4>1. Pending(request[c]) /\ request'[c].path = request[c].path
        BY <3>2, <3>3 DEF SendToken, SendBody, Pending, Request
      <4> QED BY <4>1 DEF AnswerInv, Asked
    <3>4. CASE UnlockFile(c) BY <1>2, <3>2, <3>4 DEF UnlockFile, Idle, Pending
    <3>5. ASSUME NEW p \in Paths, NEW u \in Users, LockFile(c, p, u), Refusing(p, u) = {}
          PROVE  request'[c].path \in Paths
      BY <3>2, <3>5 DEF LockFile, Granted
    <3> QED BY <2>2, <3>1, <3>3, <3>4, <3>5, RequestChanges
  <2> QED BY <2>1, <2>2
<1> QED BY <1>1, <1>2 DEF AnswerInv, Asked, Pending

(* A granted request has its lock in its slot, unless the table was full.  *)
LEMMA GrantFacts ==
  ASSUME TypeOK, NEW c \in Conns, NEW p \in Paths, NEW u \in Users, LockFile(c, p, u),
         Refusing(p, u) = {}
  PROVE  StillHeld(dav_lock', request'[c]) \/ Full
<1> DEFINE t == Searched(p, u)
           free == {j \in Slots : t[j].path = None}
<1>1. t \in [Slots -> Lock] BY SearchedType DEF TypeOK
<1>2. \A i \in Slots : t[i].path \in {None, dav_lock[i].path}
  BY DEF Searched, TypeOK, Lock
<1>3. ASSUME free = {} PROVE Full
  BY <1>2, <1>3 DEF Full
<1>4. CASE free # {} /\ dav_lock' = [t EXCEPT ![Least(free)] = New(p, u)]
           /\ Granted(c, p, u, Least(free))
  <2>1. Least(free) \in Slots
    <3>1. free \in SUBSET Nat /\ free \subseteq Slots BY DEF Slots
    <3> HIDE DEF free
    <3> QED BY <1>4, <3>1, LeastIsLeast
  <2> HIDE DEF free, t
  <2>2. dav_lock'[Least(free)] = New(p, u) BY <1>1, <1>4, <2>1
  <2>3. /\ request'[c].index = Least(free) /\ request'[c].path = p /\ request'[c].user = u
    BY <1>4 DEF Granted, TypeOK
  <2> QED BY <2>2, <2>3 DEF StillHeld, New
<1> QED BY <1>3, <1>4 DEF LockFile

(* "return 200 OK" with a "new lock token": the answer to a LOCK names its *)
(* token and its owner rightly as long as the lock is still in the slot    *)
(* the request was given when the mutex was released.  It is there when    *)
(* the request is granted unless the table was full, and before the answer *)
(* it is only lost by a lock that has expired, or is the oldest of a full  *)
(* table.                                                                  *)
THEOREM AnswersAreTheirsWhileHeld ==
  Spec => [][\A c \in Conns : /\ RightWhileHeld(request[c], request'[c])
                              /\ GrantHolds(request[c], request'[c])
                              /\ LossIsDue(request[c], request'[c])]_vars
<1>1. Init => AnswerInv
  BY DEF Init, AnswerInv, Stamped, Asked, Pending, Idle
<1>2. /\ TypeOK /\ AnswerInv /\ [Next]_vars
      /\ [\A i \in Slots :
             /\ dav_lock[i].path # None /\ ~ Expired(dav_lock[i])
             /\ <<dav_lock'[i].path, dav_lock'[i].user>> # <<dav_lock[i].path, dav_lock[i].user>>
             => \A j \in Slots :
                  dav_lock[j].path # None /\ dav_lock[i].locktime <= dav_lock[j].locktime]_vars
      => [\A c \in Conns : /\ RightWhileHeld(request[c], request'[c])
                           /\ GrantHolds(request[c], request'[c])
                           /\ LossIsDue(request[c], request'[c])]_vars
  <2> SUFFICES ASSUME TypeOK, AnswerInv, Next, NEW c \in Conns,
                      \A i \in Slots :
                        /\ dav_lock[i].path # None /\ ~ Expired(dav_lock[i])
                        /\ <<dav_lock'[i].path, dav_lock'[i].user>>
                             # <<dav_lock[i].path, dav_lock[i].user>>
                        => Evictable(i)
               PROVE  /\ RightWhileHeld(request[c], request'[c])
                      /\ GrantHolds(request[c], request'[c])
                      /\ LossIsDue(request[c], request'[c])
    BY DEF Evictable
  <2>1. /\ request \in [Conns -> Request]
        /\ Pending(request[c]) => request[c].index \in Slots
    BY DEF TypeOK, Pending
  <2>2. LossIsDue(request[c], request'[c])
    <3> SUFFICES ASSUME Pending(request[c]), StillHeld(dav_lock, request[c]),
                        ~ StillHeld(dav_lock', request[c]), ~ Expired(dav_lock[request[c].index])
                 PROVE  Evictable(request[c].index)
      BY DEF LossIsDue
    <3>1. dav_lock[request[c].index].path # None
      BY LockConstants DEF AnswerInv, Asked, StillHeld
    <3> QED BY <2>1, <3>1 DEF StillHeld
  <2>3. GrantHolds(request[c], request'[c])
    <3> SUFFICES ASSUME ~ Pending(request[c]), Pending(request'[c]),
                        ~ StillHeld(dav_lock', request'[c])
                 PROVE  Full
      BY DEF GrantHolds
    <3>1. request'[c] # request[c] OBVIOUS
    <3>2. ~ SendToken(c) /\ ~ SendBody(c) BY DEF SendToken, SendBody, Pending
    <3>3. ~ UnlockFile(c) BY <2>1 DEF UnlockFile, Pending, Idle
    <3> QED BY <3>1, <3>2, <3>3, GrantFacts, RequestChanges
  <2>4. RightWhileHeld(request[c], request'[c])
    <3> SUFFICES ASSUME Pending(request[c]), StillHeld(dav_lock, request[c]),
                        request'[c] # request[c]
                 PROVE  /\ request[c].pc = "granted" /\ request'[c].pc = "headers" =>
                             /\ request'[c].token \in Token
                             /\ request'[c].token.path = request[c].path
                             /\ request'[c].token.user = request[c].user
                        /\ request[c].pc = "headers" /\ request'[c].pc = "answered" =>
                             request'[c].owner = request[c].user
      BY DEF RightWhileHeld
    <3> DEFINE i == request[c].index
    <3>1. SendToken(c) \/ SendBody(c)
      BY RequestChanges DEF Pending, UnlockFile, LockFile
    <3>2. i \in Slots /\ dav_lock[i].path # None
      BY <2>1, LockConstants DEF AnswerInv, Asked, StillHeld
    <3>3. CASE SendToken(c)
      <4>1. /\ request[c].pc = "granted" /\ request'[c].pc = "headers"
            /\ request'[c].token = dav_lock[i].token
        BY <2>1, <3>3 DEF SendToken, Request
      <4>2. /\ dav_lock[i].token \in Token /\ dav_lock[i].token.path = request[c].path
            /\ dav_lock[i].token.user = request[c].user
        BY <3>2 DEF AnswerInv, Stamped, StillHeld
      <4> QED BY <4>1, <4>2
    <3>4. CASE SendBody(c)
      <4>1. /\ request[c].pc = "headers" /\ request'[c].owner = dav_lock[i].user
        BY <2>1, <3>4 DEF SendBody, Request
      <4> QED BY <4>1 DEF StillHeld
    <3> QED BY <3>1, <3>3, <3>4
  <2> QED BY <2>2, <2>3, <2>4
<1> QED BY <1>1, <1>2, AnswerInvStep, TypeCorrect, ValidLockStaysAlways, PTL
        DEF Spec, ValidLockStays
=============================================================================
