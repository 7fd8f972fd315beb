--------------------------- MODULE HashTableProofs ---------------------------
(***************************************************************************)
(* Theorems about HashTable, for any keys, values, hashes, capacity and    *)
(* growth factor: size counts the pairs, every pair is found from its home *)
(* and only once, growth keeps them all, and the table is a Dictionary.    *)
(***************************************************************************)
EXTENDS HashTable, FiniteSetTheorems, WellFoundedInduction, TLAPS

-----------------------------------------------------------------------------
(* Arithmetic.                                                             *)

LEMMA LeastOfSome ==
  ASSUME NEW s \in SUBSET Nat, s # {}
  PROVE  \E i \in s : \A j \in s : i <= j
<1>1. IsWellFoundedOn({r \in Nat \X Nat : r[1] < r[2]}, Nat)
  BY NatLessThanWellFounded DEF OpToRel
<1>2. PICK i \in s : \A j \in s : ~ (<<j, i>> \in {r \in Nat \X Nat : r[1] < r[2]})
  BY <1>1, WFMin
<1>3. \A j \in s : ~ (j < i) BY <1>2
<1> QED BY <1>3

LEMMA LeastIsLeast ==
  ASSUME NEW s \in SUBSET Nat, s # {}
  PROVE  Least(s) \in s /\ \A j \in s : Least(s) <= j
BY LeastOfSome DEF Least

LEMMA TimesUp == ASSUME NEW c \in Nat, NEW d \in Int, d >= 1, c > 0 PROVE c * d >= c
OBVIOUS

LEMMA TimesDown == ASSUME NEW c \in Nat, NEW d \in Int, d <= -1, c > 0 PROVE c * d <= 0 - c
OBVIOUS

LEMMA Division ==
  ASSUME NEW a \in Nat, NEW c \in Nat, c > 0
  PROVE  a % c \in 0..(c - 1) /\ a \div c \in Int /\ a = c * (a \div c) + (a % c)
OBVIOUS

(* The remainder is the only number below c that a multiple of c leaves.   *)
LEMMA RemainderIs ==
  ASSUME NEW a \in Nat, NEW c \in Nat, c > 0, NEW q \in Int, NEW r \in 0..(c - 1), a = c * q + r
  PROVE  a % c = r
<1> DEFINE p == a \div c
<1>1. p \in Int /\ a = c * p + (a % c) /\ a % c \in 0..(c - 1) BY Division
<1> HIDE DEF p
<1>2. c * (p - q) = r - (a % c) BY <1>1
<1>3. ~ (p - q >= 1)
  <2> SUFFICES ASSUME p - q >= 1 PROVE FALSE OBVIOUS
  <2>1. c * (p - q) >= c BY <1>1, TimesUp
  <2> QED BY <1>1, <1>2, <2>1
<1>4. ~ (p - q <= -1)
  <2> SUFFICES ASSUME p - q <= -1 PROVE FALSE OBVIOUS
  <2>1. c * (p - q) <= 0 - c BY <1>1, TimesDown
  <2> QED BY <1>1, <1>2, <2>1
<1>5. p = q BY <1>1, <1>3, <1>4
<1> QED BY <1>1, <1>5

-----------------------------------------------------------------------------
(* Probing.                                                                *)

LEMMA HashType == ASSUME NEW k \in Keys PROVE Hash[k] \in Nat
BY TableConstants DEF TableConstants

LEMMA ProbeType ==
  ASSUME NEW k \in Keys, NEW cap \in Nat \ {0}, NEW n \in Nat
  PROVE  Probe(k, n, cap) \in 0..(cap - 1)
<1>1. Hash[k] + n \in Nat BY HashType
<1> QED BY <1>1, Division DEF Probe

LEMMA ProbeInPath ==
  ASSUME NEW k \in Keys, NEW cap \in Nat \ {0}, NEW n \in 0..(cap - 1), NEW m \in 0..(n - 1)
  PROVE  Probe(k, m, cap) \in 0..(cap - 1)
<1>1. m \in Nat OBVIOUS
<1> QED BY <1>1, ProbeType

(* A probe comes by every bucket. *)
LEMMA ProbeOnto ==
  ASSUME NEW k \in Keys, NEW cap \in Nat \ {0}, NEW i \in 0..(cap - 1)
  PROVE  \E n \in 0..(cap - 1) : Probe(k, n, cap) = i
<1> DEFINE h == Hash[k]  q == h \div cap  r == h % cap
<1>1. h \in Nat /\ q \in Int /\ r \in 0..(cap - 1) /\ h = cap * q + r
  <2>1. h \in Nat BY HashType
  <2> HIDE DEF h
  <2>2. cap \in Nat /\ cap > 0 OBVIOUS
  <2> QED BY <2>1, <2>2, Division
<1> HIDE DEF h, q, r
<1>2. CASE i >= r
  <2>1. i - r \in 0..(cap - 1) /\ h + (i - r) \in Nat /\ h + (i - r) = cap * q + i BY <1>1, <1>2
  <2>2. (h + (i - r)) % cap = i BY <1>1, <2>1, RemainderIs
  <2> QED BY <2>1, <2>2 DEF Probe, h
<1>3. CASE i < r
  <2> DEFINE n == cap - (r - i)
  <2>1. n \in 0..(cap - 1)
    <3>1. r - i \in Int /\ r - i >= 1 /\ r - i <= cap BY <1>1, <1>3
    <3> QED BY <3>1
  <2>0. h + n \in Nat
    <3> HIDE DEF n
    <3> QED BY <1>1, <2>1
  <2>2. h + n = cap * (q + 1) + i /\ q + 1 \in Int
    <3>1. cap * (q + 1) = cap * q + cap BY <1>1
    <3>2. h + (cap - (r - i)) = (cap * q + r) + (cap - (r - i)) BY <1>1
    <3>3. cap * q \in Int /\ r \in Int /\ i \in Int /\ cap \in Int BY <1>1
    <3> QED BY <1>1, <3>1, <3>2, <3>3
  <2> HIDE DEF n
  <2>4. cap \in Nat /\ cap > 0 OBVIOUS
  <2>3. (h + n) % cap = i BY <2>0, <2>2, <2>4, RemainderIs
  <2> QED BY <2>1, <2>3 DEF Probe, h
<1> QED BY <1>1, <1>2, <1>3

LEMMA Markers == Empty # Tombstone /\ Empty \notin Pair /\ Tombstone \notin Pair
<1>1. Empty = Tombstone => Cardinality({Empty, Tombstone}) = 1
  BY FS_Singleton
<1> QED BY <1>1, TableConstants, MarkersAreNoPairs DEF TableConstants, MarkersAreNoPairs

LEMMA PairFields ==
  ASSUME NEW p \in Pair
  PROVE  p.key \in Keys /\ p.val \in Values /\ p = [key |-> p.key, val |-> p.val]
BY DEF Pair

(* A table of cap buckets; every pair in it is found, once. *)
Table(b, cap) == cap \in Nat \ {0} /\ b \in [0..(cap - 1) -> Pair \cup {Empty, Tombstone}]

Path(b, cap, k, n) ==
  \A m \in 0..(n - 1) : /\ b[Probe(k, m, cap)] # Empty
                        /\ b[Probe(k, m, cap)] \in Pair => b[Probe(k, m, cap)].key # k

Found(b, cap) ==
  \A i \in Used(b) : \E n \in 0..(cap - 1) :
    Probe(b[i].key, n, cap) = i /\ Path(b, cap, b[i].key, n)

LEMMA UsedIs ==
  ASSUME NEW b, NEW cap, Table(b, cap)
  PROVE  /\ Used(b) = {i \in 0..(cap - 1) : b[i] \in Pair}
         /\ IsFiniteSet(Used(b)) /\ Cardinality(Used(b)) \in 0..cap
         /\ Cardinality(Used(b)) = cap => Used(b) = 0..(cap - 1)
<1>1. Used(b) = {i \in 0..(cap - 1) : b[i] \in Pair} BY DEF Table, Used
<1>2. IsFiniteSet(0..(cap - 1)) /\ Cardinality(0..(cap - 1)) = cap
  BY FS_Interval DEF Table
<1>3. Used(b) \subseteq 0..(cap - 1) BY <1>1
<1>4. /\ IsFiniteSet(Used(b)) /\ Cardinality(Used(b)) <= cap
      /\ Cardinality(Used(b)) = cap => Used(b) = 0..(cap - 1)
  BY <1>2, <1>3, FS_Subset
<1>5. Cardinality(Used(b)) \in Nat BY <1>4, FS_CardinalityType
<1>6. cap \in Nat BY DEF Table
<1> QED BY <1>1, <1>4, <1>5, <1>6

(* Two buckets do not have one key. *)
LEMMA OneBucket ==
  ASSUME NEW b, NEW cap, Table(b, cap), Found(b, cap), NEW i \in Used(b), NEW j \in Used(b),
         b[i].key = b[j].key
  PROVE  i = j
<1> DEFINE k == b[i].key
<1>1. PICK m \in 0..(cap - 1) : Probe(k, m, cap) = i /\ Path(b, cap, k, m) BY DEF Found
<1>2. PICK n \in 0..(cap - 1) : Probe(k, n, cap) = j /\ Path(b, cap, k, n) BY DEF Found
<1>3. b[i] \in Pair /\ b[j] \in Pair BY DEF Used
<1> HIDE DEF k
<1>4. ~ (m < n)
  <2> SUFFICES ASSUME m < n PROVE FALSE OBVIOUS
  <2>1. m \in 0..(n - 1) OBVIOUS
  <2> QED BY <1>1, <1>2, <1>3, <2>1 DEF Path, k
<1>5. ~ (n < m)
  <2> SUFFICES ASSUME n < m PROVE FALSE OBVIOUS
  <2>1. n \in 0..(m - 1) OBVIOUS
  <2> QED BY <1>1, <1>2, <1>3, <2>1 DEF Path, k
<1>6. m = n BY <1>4, <1>5
<1> QED BY <1>1, <1>2, <1>6

Stop(p, k, op) == p = Empty \/ (p = Tombstone /\ op = "PUT") \/ (p \in Pair /\ p.key = k)

LEMMA StopsAre ==
  ASSUME NEW b, NEW cap, NEW k, NEW op
  PROVE  Stops(b, cap, k, op) = {n \in 0..(cap - 1) : Stop(b[Probe(k, n, cap)], k, op)}
BY DEF Stops, Stop

(* A bucket at which a probe would stop makes it end. *)
LEMMA StopAt ==
  ASSUME NEW b, NEW cap, Table(b, cap), NEW k \in Keys, NEW op, NEW j \in 0..(cap - 1),
         Stop(b[j], k, op)
  PROVE  Stops(b, cap, k, op) # {}
<1>1. PICK n \in 0..(cap - 1) : Probe(k, n, cap) = j BY ProbeOnto DEF Table
<1>2. n \in Stops(b, cap, k, op) BY <1>1, StopsAre
<1> QED BY <1>2

(* Where hash_getidx ends. *)
LEMMA StopFacts ==
  ASSUME NEW b, NEW cap, Table(b, cap), NEW k \in Keys, NEW op, Stops(b, cap, k, op) # {}
  PROVE  \E n \in 0..(cap - 1) :
           /\ n = Least(Stops(b, cap, k, op))
           /\ hash_getidx(b, cap, k, op) = Probe(k, n, cap)
           /\ hash_getidx(b, cap, k, op) \in 0..(cap - 1)
           /\ Stop(b[Probe(k, n, cap)], k, op)
           /\ \A m \in 0..(n - 1) : ~ Stop(b[Probe(k, m, cap)], k, op)
<1> DEFINE s == Stops(b, cap, k, op)  n == Least(s)
<1>1. s = {m \in 0..(cap - 1) : Stop(b[Probe(k, m, cap)], k, op)} BY StopsAre
<1>2. s \in SUBSET Nat /\ s # {} BY <1>1 DEF Table
<1> HIDE DEF s
<1>3. n \in s /\ \A j \in s : n <= j BY <1>2, LeastIsLeast
<1> HIDE DEF n
<1>4. n \in 0..(cap - 1) /\ Stop(b[Probe(k, n, cap)], k, op) BY <1>1, <1>3
<1>5. ASSUME NEW m \in 0..(n - 1) PROVE ~ Stop(b[Probe(k, m, cap)], k, op)
  <2>1. ~ (n <= m) /\ m \in 0..(cap - 1) BY <1>4 DEF Table
  <2>2. m \notin s BY <1>3, <2>1
  <2> QED BY <1>1, <2>1, <2>2
<1>6. hash_getidx(b, cap, k, op) = Probe(k, n, cap) BY DEF hash_getidx, n, s
<1>7. Probe(k, n, cap) \in 0..(cap - 1) BY <1>4, ProbeType DEF Table
<1> QED BY <1>4, <1>5, <1>6, <1>7 DEF n, s

(* A stored key is found by any probe that does not stop at tombstones.    *)
LEMMA KeyFound ==
  ASSUME NEW b, NEW cap, Table(b, cap), Found(b, cap), NEW i \in Used(b), NEW op, op # "PUT"
  PROVE  /\ Stops(b, cap, b[i].key, op) # {}
         /\ hash_getidx(b, cap, b[i].key, op) = i
         /\ Probe(b[i].key, Least(Stops(b, cap, b[i].key, op)), cap) = i
<1> DEFINE k == b[i].key
<1>1. b[i] \in Pair /\ k \in Keys /\ i \in 0..(cap - 1) BY UsedIs, PairFields
<1>2. Stop(b[i], k, op) BY <1>1 DEF Stop
<1> HIDE DEF k
<1>3. Stops(b, cap, k, op) # {} BY <1>1, <1>2, StopAt
<1>4. PICK n \in 0..(cap - 1) :
        /\ n = Least(Stops(b, cap, k, op))
        /\ hash_getidx(b, cap, k, op) = Probe(k, n, cap)
        /\ Stop(b[Probe(k, n, cap)], k, op)
        /\ \A m \in 0..(n - 1) : ~ Stop(b[Probe(k, m, cap)], k, op)
  BY <1>1, <1>3, StopFacts
<1>5. PICK m \in 0..(cap - 1) : Probe(k, m, cap) = i /\ Path(b, cap, k, m) BY DEF Found, k
<1>6. ~ (m < n)
  <2> SUFFICES ASSUME m < n PROVE FALSE OBVIOUS
  <2>1. m \in 0..(n - 1) OBVIOUS
  <2> QED BY <1>2, <1>4, <1>5, <2>1
<1>7. ~ (n < m)
  <2> SUFFICES ASSUME n < m PROVE FALSE OBVIOUS
  <2>1. n \in 0..(m - 1) OBVIOUS
  <2> QED BY <1>4, <1>5, <2>1 DEF Path, Stop
<1>8. m = n BY <1>6, <1>7
<1> QED BY <1>3, <1>4, <1>5, <1>8 DEF k

-----------------------------------------------------------------------------
(* Storing.                                                                *)

(* A put at a bucket that is empty or has the key already keeps what is    *)
(* stored and finds what it stores.                                        *)
LEMMA StoreFacts ==
  ASSUME NEW b, NEW cap, Table(b, cap), Found(b, cap), NEW k \in Keys, NEW v \in Values,
         Stops(b, cap, k, "PUT") # {}, b[hash_getidx(b, cap, k, "PUT")] # Tombstone
  PROVE  LET i == hash_getidx(b, cap, k, "PUT")
             t == Stored(b, cap, k, v)
         IN /\ i \in 0..(cap - 1) /\ t[i] = [key |-> k, val |-> v] /\ t[i] \in Pair
            /\ \A j \in 0..(cap - 1) : j # i => t[j] = b[j]
            /\ Table(t, cap) /\ Found(t, cap) /\ Used(t) = Used(b) \cup {i}
            /\ b[i] = Empty \/ (i \in Used(b) /\ b[i].key = k)
            /\ b[i] = Empty => i \notin Used(b) /\ \A j \in Used(b) : b[j].key # k
<1> DEFINE i == hash_getidx(b, cap, k, "PUT")
           t == Stored(b, cap, k, v)
           new == [key |-> k, val |-> v]
<1>1. PICK n \in 0..(cap - 1) :
        /\ i = Probe(k, n, cap) /\ i \in 0..(cap - 1)
        /\ Stop(b[Probe(k, n, cap)], k, "PUT")
        /\ \A m \in 0..(n - 1) : ~ Stop(b[Probe(k, m, cap)], k, "PUT")
  BY StopFacts
<1>2. t = [b EXCEPT ![i] = new] BY DEF Stored
<1>3. b[i] # Tombstone OBVIOUS
<1> HIDE DEF i, t
<1>4. new \in Pair /\ new.key = k BY DEF Pair
<1> HIDE DEF new
<1>5. t \in [0..(cap - 1) -> Pair \cup {Empty, Tombstone}] /\ t[i] = new
      /\ \A j \in 0..(cap - 1) : j # i => t[j] = b[j]
  BY <1>1, <1>2, <1>4 DEF Table
<1>6. Table(t, cap) BY <1>5 DEF Table
<1>7. Used(t) = Used(b) \cup {i}
  <2>1. Used(t) = {j \in 0..(cap - 1) : t[j] \in Pair} BY <1>6, UsedIs
  <2>2. Used(b) = {j \in 0..(cap - 1) : b[j] \in Pair} BY UsedIs
  <2> QED BY <1>1, <1>4, <1>5, <2>1, <2>2
<1>8. b[i] = Empty \/ (i \in Used(b) /\ b[i].key = k)
  <2>1. Used(b) = {j \in 0..(cap - 1) : b[j] \in Pair} BY UsedIs
  <2> QED BY <1>1, <1>3, <2>1 DEF Stop
(* The key is in no bucket but that one. *)
<1>9. \A j \in Used(b) : b[j].key = k => j = i
  <2> SUFFICES ASSUME NEW j \in Used(b), b[j].key = k, j # i PROVE FALSE OBVIOUS
  <2>1. PICK m \in 0..(cap - 1) : Probe(k, m, cap) = j /\ Path(b, cap, k, m) BY DEF Found
  <2>2. b[j] \in Pair BY DEF Used
  <2>3. ~ (m < n)
    <3> SUFFICES ASSUME m < n PROVE FALSE OBVIOUS
    <3>1. m \in 0..(n - 1) OBVIOUS
    <3> QED BY <1>1, <2>1, <2>2, <3>1 DEF Stop
  <2>4. m # n BY <1>1, <2>1
  <2>5. n \in 0..(m - 1) BY <2>3, <2>4
  <2>6. b[i] # Empty /\ (b[i] \in Pair => b[i].key # k) BY <1>1, <2>1, <2>5 DEF Path
  <2> QED BY <1>3, <1>8, <2>6 DEF Used
<1>10. ASSUME NEW j \in Used(t)
       PROVE  \E m \in 0..(cap - 1) : Probe(t[j].key, m, cap) = j /\ Path(t, cap, t[j].key, m)
  <2>1. CASE j = i
    <3>1. Path(t, cap, k, n)
      <4> SUFFICES ASSUME NEW m \in 0..(n - 1)
                   PROVE  /\ t[Probe(k, m, cap)] # Empty
                          /\ t[Probe(k, m, cap)] \in Pair => t[Probe(k, m, cap)].key # k
        BY DEF Path
      <4>1. ~ Stop(b[Probe(k, m, cap)], k, "PUT") BY <1>1
      <4>2. Probe(k, m, cap) \in 0..(cap - 1) BY ProbeInPath DEF Table
      <4>3. Probe(k, m, cap) # i BY <1>1, <4>1
      <4>4. t[Probe(k, m, cap)] = b[Probe(k, m, cap)] BY <1>5, <4>2, <4>3
      <4> QED BY <4>1, <4>4 DEF Stop
    <3> QED BY <1>1, <1>4, <1>5, <2>1, <3>1
  <2>2. CASE j # i
    <3>1. j \in Used(b) /\ j \in 0..(cap - 1) /\ t[j] = b[j] BY <1>5, <1>7, <2>2, UsedIs
    <3>2. b[j].key # k /\ b[j] \in Pair /\ b[j].key \in Keys
      BY <1>9, <2>2, <3>1, PairFields DEF Used
    <3> DEFINE h == b[j].key
    <3>3. PICK m \in 0..(cap - 1) : Probe(h, m, cap) = j /\ Path(b, cap, h, m)
      BY <3>1 DEF Found
    <3>4. h # k /\ h \in Keys /\ t[j].key = h BY <3>1, <3>2
    <3> HIDE DEF h
    <3>5. Path(t, cap, h, m)
      <4> SUFFICES ASSUME NEW l \in 0..(m - 1)
                   PROVE  /\ t[Probe(h, l, cap)] # Empty
                          /\ t[Probe(h, l, cap)] \in Pair => t[Probe(h, l, cap)].key # h
        BY DEF Path
      <4>1. Probe(h, l, cap) \in 0..(cap - 1) BY <3>4, ProbeInPath DEF Table
      <4>2. CASE Probe(h, l, cap) = i BY <1>4, <1>5, <3>4, <4>2, Markers
      <4>3. CASE Probe(h, l, cap) # i BY <1>5, <3>3, <4>1, <4>3 DEF Path
      <4> QED BY <4>2, <4>3
    <3> QED BY <3>3, <3>4, <3>5
  <2> QED BY <2>1, <2>2
<1>11. Found(t, cap) BY <1>10 DEF Found
<1>12. b[i] = Empty => i \notin Used(b) /\ \A j \in Used(b) : b[j].key # k
  <2>1. b[i] = Empty => i \notin Used(b) BY Markers DEF Used
  <2> QED BY <1>9, <2>1
<1> QED BY <1>1, <1>4, <1>5, <1>6, <1>7, <1>8, <1>11, <1>12 DEF i, t, new

(* A tombstone in a bucket loses no other pair.                            *)
LEMMA BuryFacts ==
  ASSUME NEW b, NEW cap, Table(b, cap), Found(b, cap), NEW i \in Used(b)
  PROVE  LET t == [b EXCEPT ![i] = Tombstone]
         IN /\ Table(t, cap) /\ Found(t, cap) /\ Used(t) = Used(b) \ {i}
            /\ \A j \in Used(t) : t[j] = b[j]
<1> DEFINE t == [b EXCEPT ![i] = Tombstone]
<1>1. Used(b) = {j \in 0..(cap - 1) : b[j] \in Pair} BY UsedIs
<1>2. t \in [0..(cap - 1) -> Pair \cup {Empty, Tombstone}] /\ t[i] = Tombstone
      /\ \A j \in 0..(cap - 1) : j # i => t[j] = b[j]
  BY <1>1 DEF Table
<1> HIDE DEF t
<1>3. Table(t, cap) BY <1>2 DEF Table
<1>4. Used(t) = {j \in 0..(cap - 1) : t[j] \in Pair} BY <1>3, UsedIs
<1>5. Used(t) = Used(b) \ {i} /\ \A j \in Used(t) : t[j] = b[j]
  BY <1>1, <1>2, <1>4, Markers
<1>6. ASSUME NEW j \in Used(t)
      PROVE  \E m \in 0..(cap - 1) : Probe(t[j].key, m, cap) = j /\ Path(t, cap, t[j].key, m)
  <2> DEFINE h == b[j].key
  <2>1. j \in Used(b) /\ t[j].key = h /\ b[j] \in Pair BY <1>1, <1>5
  <2>2. PICK m \in 0..(cap - 1) : Probe(h, m, cap) = j /\ Path(b, cap, h, m)
    BY <2>1 DEF Found
  <2>3. h \in Keys BY <2>1, PairFields
  <2> HIDE DEF h
  <2>4. Path(t, cap, h, m)
    <3> SUFFICES ASSUME NEW l \in 0..(m - 1)
                 PROVE  /\ t[Probe(h, l, cap)] # Empty
                        /\ t[Probe(h, l, cap)] \in Pair => t[Probe(h, l, cap)].key # h
      BY DEF Path
    <3>1. Probe(h, l, cap) \in 0..(cap - 1) BY <2>3, ProbeInPath DEF Table
    <3>2. CASE Probe(h, l, cap) = i BY <1>2, <3>2, Markers
    <3>3. CASE Probe(h, l, cap) # i BY <1>2, <2>2, <3>1, <3>3 DEF Path
    <3> QED BY <3>2, <3>3
  <2> QED BY <2>1, <2>2, <2>4
<1>7. Found(t, cap) BY <1>6 DEF Found
<1> QED BY <1>3, <1>5, <1>7 DEF t

-----------------------------------------------------------------------------
(* Growing.                                                                *)

(* What hash_grow makes of the new buckets t at the n-th old bucket.       *)
Move(b, new, n, t) ==
  IF n = 0 THEN [i \in 0..(new - 1) |-> Empty]
  ELSE IF b[n - 1] \in Pair THEN Stored(t, new, b[n - 1].key, b[n - 1].val)
  ELSE t

Moves(b, cap, new) == CHOOSE f : f = [n \in 0..cap |-> Move(b, new, n, f[n - 1])]

LEMMA RehashedIsMoves ==
  ASSUME NEW b, NEW cap, NEW new PROVE Rehashed(b, cap, new) = Moves(b, cap, new)[cap]
BY DEF Rehashed, Moves, Move

LEMMA MoveZero == ASSUME NEW b, NEW new, NEW p, NEW q PROVE Move(b, new, 0, p) = Move(b, new, 0, q)
BY DEF Move

(* The recursion has a solution: for the least depth without one, that of  *)
(* the depth before it and one more step would do.                         *)
Upto(b, new, f, m) == \A n \in 0..m : f[n] = Move(b, new, n, f[n - 1])

LEMMA MovesUpto ==
  ASSUME NEW b, NEW new, NEW cap \in Nat PROVE \E f : Upto(b, new, f, cap)
<1> DEFINE Bad == {m \in 0..cap : ~ \E f : Upto(b, new, f, m)}
<1> SUFFICES ASSUME Bad # {} PROVE FALSE OBVIOUS
<1>1. Bad \in SUBSET Nat OBVIOUS
<1>2. PICK m \in Bad : \A j \in Bad : m <= j
  <2> HIDE DEF Bad
  <2> QED BY <1>1, LeastOfSome
<1>3. m \in 0..cap /\ m \in Nat /\ ~ \E f : Upto(b, new, f, m) OBVIOUS
<1>4. CASE m = 0
  <2> DEFINE f == [n \in {0} |-> Move(b, new, 0, <<>>)]
  <2>1. f[0] = Move(b, new, 0, <<>>) OBVIOUS
  <2> HIDE DEF f
  <2>2. f[0] = Move(b, new, 0, f[0 - 1]) BY <2>1, MoveZero
  <2>3. Upto(b, new, f, 0) BY <2>2 DEF Upto
  <2> QED BY <1>3, <1>4, <2>3
<1>5. CASE m > 0
  <2>1. m - 1 \in 0..cap /\ m - 1 \notin Bad BY <1>2, <1>3, <1>5
  <2>2. PICK g : Upto(b, new, g, m - 1) BY <2>1
  <2> DEFINE h == [n \in 0..m |-> IF n = m THEN Move(b, new, m, g[m - 1]) ELSE g[n]]
  <2>3. h[m] = Move(b, new, m, g[m - 1]) /\ \A n \in 0..m - 1 : h[n] = g[n] BY <1>3
  <2> HIDE DEF h
  <2>4. m - 1 \in 0..m - 1 BY <1>3, <1>5
  <2>5. h[m] = Move(b, new, m, h[m - 1]) BY <2>3, <2>4
  <2>6. ASSUME NEW n \in 0..m - 1 PROVE h[n] = Move(b, new, n, h[n - 1])
    <3>1. h[n] = Move(b, new, n, g[n - 1]) BY <2>2, <2>3 DEF Upto
    <3>2. CASE n = 0 BY <3>1, <3>2, MoveZero
    <3>3. CASE n > 0
      <4>1. n - 1 \in 0..m - 1 BY <1>3, <3>3
      <4> QED BY <2>3, <3>1, <4>1
    <3> QED BY <1>3, <3>2, <3>3
  <2>7. \A n \in 0..m : n = m \/ n \in 0..m - 1 BY <1>3
  <2>8. Upto(b, new, h, m) BY <2>5, <2>6, <2>7 DEF Upto
  <2> QED BY <1>3, <2>8
<1> QED BY <1>3, <1>4, <1>5

LEMMA MovesUnfold ==
  ASSUME NEW b, NEW new, NEW cap \in Nat, NEW n \in 0..cap
  PROVE  Moves(b, cap, new)[n] = Move(b, new, n, Moves(b, cap, new)[n - 1])
<1>1. PICK f : Upto(b, new, f, cap) BY MovesUpto
<1> DEFINE g == [m \in 0..cap |-> f[m]]
<1>2. ASSUME NEW m \in 0..cap PROVE g[m] = Move(b, new, m, g[m - 1])
  <2>1. g[m] = Move(b, new, m, f[m - 1]) BY <1>1 DEF Upto
  <2>2. CASE m = 0
    <3> HIDE DEF g
    <3> QED BY <2>1, <2>2, MoveZero
  <2>3. CASE m > 0
    <3>1. m - 1 \in 0..cap BY <2>3
    <3>2. g[m - 1] = f[m - 1] BY <3>1
    <3> HIDE DEF g
    <3> QED BY <2>1, <3>2
  <2> QED BY <2>2, <2>3
<1>3. g = [m \in 0..cap |-> g[m]] OBVIOUS
<1> HIDE DEF g
<1>4. g = [m \in 0..cap |-> Move(b, new, m, g[m - 1])] BY <1>2, <1>3
<1>5. Moves(b, cap, new) = [m \in 0..cap |-> Move(b, new, m, Moves(b, cap, new)[m - 1])]
  BY <1>4 DEF Moves
<1> QED BY <1>5

PairsOf(b) == {b[i] : i \in Used(b)}

(* The pairs in the first n buckets. *)
Front(b, n) == {j \in 0..(n - 1) : b[j] \in Pair}

(* t has exactly these, and no tombstone. *)
Moved(b, new, n, t) ==
  /\ Table(t, new) /\ Found(t, new)
  /\ \A i \in 0..(new - 1) : t[i] # Tombstone
  /\ PairsOf(t) = {b[j] : j \in Front(b, n)}
  /\ Cardinality(Used(t)) = Cardinality(Front(b, n))

LEMMA FrontFacts ==
  ASSUME NEW b, NEW cap, Table(b, cap), NEW n \in 0..cap
  PROVE  /\ IsFiniteSet(Front(b, n)) /\ Cardinality(Front(b, n)) \in 0..cap
         /\ Front(b, n) \subseteq Used(b) /\ Front(b, cap) = Used(b)
<1>1. Used(b) = {j \in 0..(cap - 1) : b[j] \in Pair} /\ IsFiniteSet(Used(b))
      /\ Cardinality(Used(b)) \in 0..cap
  BY UsedIs
<1>2. cap \in Nat BY DEF Table
<1>3. Front(b, n) \subseteq Used(b) /\ Front(b, cap) = Used(b) BY <1>1, <1>2 DEF Front
<1>4. IsFiniteSet(Front(b, n)) /\ Cardinality(Front(b, n)) <= Cardinality(Used(b))
  BY <1>1, <1>3, FS_Subset
<1>5. Cardinality(Front(b, n)) \in Nat BY <1>4, FS_CardinalityType
<1> QED BY <1>1, <1>2, <1>3, <1>4, <1>5

(* In a table without tombstones that is not full a put finds its bucket.  *)
LEMMA RoomToPut ==
  ASSUME NEW b, NEW cap, Table(b, cap), NEW k \in Keys, Cardinality(Used(b)) < cap
  PROVE  Stops(b, cap, k, "PUT") # {}
<1>1. Used(b) = {j \in 0..(cap - 1) : b[j] \in Pair} /\ IsFiniteSet(Used(b)) BY UsedIs
<1>2. Cardinality(0..(cap - 1)) = cap BY FS_Interval DEF Table
<1>3. cap \in Nat BY DEF Table
<1>4. Used(b) # 0..(cap - 1) BY <1>2, <1>3
<1>5. PICK j \in 0..(cap - 1) : b[j] \notin Pair BY <1>1, <1>4
<1>6. b[j] \in {Empty, Tombstone} BY <1>5 DEF Table
<1>7. Stop(b[j], k, "PUT") BY <1>6 DEF Stop
<1> QED BY <1>7, StopAt

LEMMA MoveStep ==
  ASSUME NEW b, NEW cap, Table(b, cap), Found(b, cap), NEW new \in Nat \ {0}, cap < new,
         NEW n \in 1..cap, NEW t, Moved(b, new, n - 1, t)
  PROVE  Moved(b, new, n, Move(b, new, n, t))
<1>0. cap \in Nat /\ n # 0 /\ n - 1 \in 0..cap /\ n \in 0..cap /\ n - 1 \in 0..(cap - 1)
  BY DEF Table
<1>1. CASE b[n - 1] \notin Pair
  <2>1. Front(b, n) = Front(b, n - 1) BY <1>0, <1>1 DEF Front
  <2> QED BY <1>0, <1>1, <2>1 DEF Move, Moved
<1>2. CASE b[n - 1] \in Pair
  <2> DEFINE k == b[n - 1].key  v == b[n - 1].val  i == hash_getidx(t, new, k, "PUT")
             u == Stored(t, new, k, v)
  <2>1. k \in Keys /\ v \in Values /\ b[n - 1] = [key |-> k, val |-> v] BY <1>2, PairFields
  <2>2. Move(b, new, n, t) = u BY <1>0, <1>2 DEF Move
  <2>3. Table(t, new) /\ Found(t, new) /\ \A j \in 0..(new - 1) : t[j] # Tombstone BY DEF Moved
  <2>4. PairsOf(t) = {b[j] : j \in Front(b, n - 1)}
        /\ Cardinality(Used(t)) = Cardinality(Front(b, n - 1))
    BY DEF Moved
  <2>5. /\ IsFiniteSet(Front(b, n - 1)) /\ Cardinality(Front(b, n - 1)) \in 0..cap
        /\ Front(b, n - 1) \subseteq Used(b)
    BY <1>0, FrontFacts
  <2> HIDE DEF k, v
  <2>6. Stops(t, new, k, "PUT") # {}
    <3>1. Cardinality(Used(t)) < new BY <1>0, <2>4, <2>5
    <3> QED BY <2>1, <2>3, <3>1, RoomToPut
  <2>7. i \in 0..(new - 1)
    <3>1. \E m \in 0..(new - 1) : i \in 0..(new - 1) BY <2>1, <2>3, <2>6, StopFacts
    <3> QED BY <3>1
  <2>8. t[i] # Tombstone BY <2>3, <2>7
  <2>9. /\ u[i] = [key |-> k, val |-> v] /\ u[i] \in Pair
        /\ \A j \in 0..(new - 1) : j # i => u[j] = t[j]
        /\ Table(u, new) /\ Found(u, new) /\ Used(u) = Used(t) \cup {i}
        /\ t[i] = Empty \/ (i \in Used(t) /\ t[i].key = k)
        /\ t[i] = Empty => i \notin Used(t) /\ \A j \in Used(t) : t[j].key # k
    BY <2>1, <2>3, <2>6, <2>8, StoreFacts
  <2> HIDE DEF i, u
  (* The key was not there. *)
  <2>10. \A j \in Used(t) : t[j].key # k
    <3> SUFFICES ASSUME NEW j \in Used(t), t[j].key = k PROVE FALSE OBVIOUS
    <3>1. t[j] \in PairsOf(t) BY DEF PairsOf
    <3>2. PICK l \in Front(b, n - 1) : t[j] = b[l] BY <2>4, <3>1
    <3>3. n - 1 \in Used(b)
      <4>1. Used(b) = {m \in 0..(cap - 1) : b[m] \in Pair} BY UsedIs
      <4> QED BY <1>0, <1>2, <4>1
    <3>4. l = n - 1
      <4>1. l \in Used(b) /\ b[l].key = b[n - 1].key BY <2>5, <3>2 DEF k
      <4> QED BY <3>3, <4>1, OneBucket
    <3>5. l \in 0..(n - 1 - 1) BY <3>2 DEF Front
    <3> QED BY <3>4, <3>5
  <2>11. t[i] = Empty /\ i \notin Used(t) BY <2>9, <2>10
  <2>12. \A j \in 0..(new - 1) : u[j] # Tombstone BY <2>3, <2>9, Markers
  <2>13. Front(b, n) = Front(b, n - 1) \cup {n - 1} /\ n - 1 \notin Front(b, n - 1)
    BY <1>0, <1>2 DEF Front
  <2>14. PairsOf(u) = {b[j] : j \in Front(b, n)}
    <3>1. Used(t) \subseteq 0..(new - 1)
      <4>1. Used(t) = {m \in 0..(new - 1) : t[m] \in Pair} BY <2>3, UsedIs
      <4> QED BY <4>1
    <3>2. \A j \in Used(t) : u[j] = t[j] BY <2>9, <2>11, <3>1
    <3>3. PairsOf(u) = PairsOf(t) \cup {u[i]} BY <2>9, <3>2 DEF PairsOf
    <3>4. u[i] = b[n - 1] BY <2>1, <2>9
    <3> QED BY <2>4, <2>13, <3>3, <3>4
  <2>15. Cardinality(Used(u)) = Cardinality(Front(b, n))
    <3>1. IsFiniteSet(Used(t)) BY <2>3, UsedIs
    <3>2. Cardinality(Used(u)) = Cardinality(Used(t)) + 1 BY <2>9, <2>11, <3>1, FS_AddElement
    <3>3. Cardinality(Front(b, n)) = Cardinality(Front(b, n - 1)) + 1
      BY <2>5, <2>13, FS_AddElement
    <3> QED BY <2>4, <3>2, <3>3
  <2> QED BY <2>2, <2>9, <2>12, <2>14, <2>15 DEF Moved
<1> QED BY <1>1, <1>2

(* Growth keeps every pair, findable and once, and leaves no tombstone.    *)
LEMMA RehashFacts ==
  ASSUME NEW b, NEW cap, Table(b, cap), Found(b, cap), NEW new \in Nat \ {0}, cap < new
  PROVE  LET t == Rehashed(b, cap, new)
         IN /\ Table(t, new) /\ Found(t, new) /\ PairsOf(t) = PairsOf(b)
            /\ Cardinality(Used(t)) = Cardinality(Used(b))
            /\ \A i \in 0..(new - 1) : t[i] # Tombstone
<1> DEFINE f == Moves(b, cap, new)
           Bad == {n \in 0..cap : ~ Moved(b, new, n, f[n])}
<1>0. cap \in Nat BY DEF Table
<1>1. \A n \in 0..cap : f[n] = Move(b, new, n, f[n - 1]) BY <1>0, MovesUnfold
<1> HIDE DEF f
<1>2. Moved(b, new, 0, f[0])
  <2> DEFINE e == [i \in 0..(new - 1) |-> Empty]
  <2>1. 0 \in 0..cap BY <1>0
  <2>2. f[0] = e BY <1>1, <2>1 DEF Move
  <2>3. e \in [0..(new - 1) -> Pair \cup {Empty, Tombstone}]
        /\ \A i \in 0..(new - 1) : e[i] = Empty
    OBVIOUS
  <2> HIDE DEF e
  <2>4. Table(e, new) BY <2>3 DEF Table
  <2>5. Used(e) = {}
    <3>1. Used(e) = {i \in 0..(new - 1) : e[i] \in Pair} BY <2>4, UsedIs
    <3> QED BY <2>3, <3>1, Markers
  <2>6. Front(b, 0) = {} BY DEF Front
  <2>7. Found(e, new) BY <2>5 DEF Found
  <2> QED BY <2>2, <2>3, <2>4, <2>5, <2>6, <2>7, Markers DEF Moved, PairsOf
<1>3. Bad = {}
  <2> SUFFICES ASSUME Bad # {} PROVE FALSE OBVIOUS
  <2>1. Bad \in SUBSET Nat BY <1>0
  <2>2. PICK n \in Bad : \A j \in Bad : n <= j
    <3> HIDE DEF Bad
    <3> QED BY <2>1, LeastOfSome
  <2>3. n \in 0..cap /\ n \in Nat /\ ~ Moved(b, new, n, f[n]) BY <1>0
  <2>4. n # 0 BY <1>2, <2>3
  <2>5. n - 1 \in 0..cap /\ n \in 1..cap BY <1>0, <2>3, <2>4
  <2>6. n - 1 \notin Bad
    <3> HIDE DEF Bad
    <3> QED BY <2>2, <2>3
  <2>7. Moved(b, new, n - 1, f[n - 1]) BY <2>5, <2>6
  <2> HIDE DEF Bad
  <2>8. Moved(b, new, n, Move(b, new, n, f[n - 1])) BY <2>5, <2>7, MoveStep
  <2> QED BY <1>1, <2>3, <2>8
<1>4. Moved(b, new, cap, f[cap])
  <2>1. cap \in 0..cap BY <1>0
  <2> QED BY <1>3, <2>1
<1>5. Rehashed(b, cap, new) = f[cap] BY RehashedIsMoves DEF f
<1>6. Front(b, cap) = Used(b) BY <1>0, FrontFacts
<1> QED BY <1>4, <1>5, <1>6 DEF Moved, PairsOf

-----------------------------------------------------------------------------
(* The invariant.                                                          *)

HInv == TypeOK /\ SizeCounts /\ Reachable

LEMMA Shape ==
  ASSUME HInv
  PROVE  /\ Table(buckets, capacity) /\ Found(buckets, capacity)
         /\ capacity \in Nat \ {0} /\ size \in 0..capacity /\ size = Cardinality(Used(buckets))
         /\ DOMAIN buckets = 0..(capacity - 1)
BY DEF HInv, TypeOK, SizeCounts, Reachable, Table, Found, Path

(* The table grows when it is full, and not before. *)
LEMMA GrowsWhenFull == ASSUME HInv PROVE hash_should_grow <=> size = capacity
<1> DEFINE q == size \div capacity
<1>1. capacity \in Nat /\ capacity > 0 /\ size \in Nat /\ size <= capacity BY Shape
<1>2. q \in Int /\ size = capacity * q + (size % capacity) /\ size % capacity \in 0..(capacity - 1)
  BY <1>1, Division
<1>3. hash_should_grow <=> q >= 1 BY DEF hash_should_grow
<1> HIDE DEF q
<1>4. ASSUME q >= 1 PROVE size = capacity
  <2>1. capacity * q >= capacity BY <1>1, <1>2, <1>4, TimesUp
  <2>2. capacity * q \in Int BY <1>1, <1>2
  <2> QED BY <1>1, <1>2, <2>1, <2>2
<1>5. ASSUME size = capacity PROVE q >= 1
  <2>1. CASE q = 0 BY <1>1, <1>2, <1>5, <2>1
  <2>2. CASE q <= -1
    <3>1. capacity * q <= 0 - capacity BY <1>1, <1>2, <2>2, TimesDown
    <3>2. capacity * q \in Int BY <1>1, <1>2
    <3> QED BY <1>1, <1>2, <3>1, <3>2
  <2> QED BY <1>2, <2>1, <2>2
<1> QED BY <1>3, <1>4, <1>5

(* The table as a put finds it has room, and the pairs it had. *)
LEMMA GrownFacts ==
  ASSUME HInv, NEW k \in Keys
  PROVE  /\ Table(Grown.slot, Grown.cap) /\ Found(Grown.slot, Grown.cap)
         /\ Grown.count = Cardinality(Used(Grown.slot))
         /\ PairsOf(Grown.slot) = PairsOf(buckets)
         /\ Stops(Grown.slot, Grown.cap, k, "PUT") # {}
         /\ IF hash_should_grow THEN \A i \in 0..(Grown.cap - 1) : Grown.slot[i] # Tombstone
                                ELSE Grown.slot = buckets /\ Grown.cap = capacity
<1>1. /\ Table(buckets, capacity) /\ Found(buckets, capacity)
      /\ capacity \in Nat \ {0} /\ size \in 0..capacity /\ size = Cardinality(Used(buckets))
  BY Shape
<1>2. CASE hash_should_grow
  <2> DEFINE new == capacity * GrowthFactor  t == Rehashed(buckets, capacity, new)
  <2>1. new \in Nat \ {0} /\ capacity < new
    <3>1. GrowthFactor \in Nat /\ GrowthFactor - 1 >= 1 /\ GrowthFactor - 1 \in Int
      BY TableConstants DEF TableConstants
    <3>2. capacity * (GrowthFactor - 1) >= capacity BY <1>1, <3>1, TimesUp
    <3>3. new = capacity * (GrowthFactor - 1) + capacity BY <1>1, <3>1
    <3>4. capacity * (GrowthFactor - 1) \in Int BY <1>1, <3>1
    <3> HIDE DEF new
    <3> QED BY <1>1, <3>2, <3>3, <3>4
  <2>2. Grown.cap = new /\ Grown.slot = t /\ Grown.count = Cardinality(Used(buckets))
    BY <1>2 DEF Grown
  <2> HIDE DEF new
  <2>3. /\ Table(t, new) /\ Found(t, new) /\ PairsOf(t) = PairsOf(buckets)
        /\ Cardinality(Used(t)) = Cardinality(Used(buckets))
        /\ \A i \in 0..(new - 1) : t[i] # Tombstone
    BY <1>1, <2>1, RehashFacts
  <2> HIDE DEF t
  <2>4. Cardinality(Used(t)) < new BY <1>1, <2>1, <2>3
  <2>5. Stops(t, new, k, "PUT") # {} BY <2>3, <2>4, RoomToPut
  <2> QED BY <1>2, <2>2, <2>3, <2>5
<1>3. CASE ~ hash_should_grow
  <2>1. Grown.cap = capacity /\ Grown.slot = buckets /\ Grown.count = size
    BY <1>3 DEF Grown
  <2>2. Cardinality(Used(buckets)) < capacity BY <1>1, <1>3, GrowsWhenFull
  <2>3. Stops(buckets, capacity, k, "PUT") # {} BY <1>1, <2>2, RoomToPut
  <2> QED BY <1>1, <1>3, <2>1, <2>3
<1> QED BY <1>2, <1>3

(* A table of pairs found and counted is what the invariant asks for. *)
LEMMA Reshape ==
  ASSUME HInv, kind' = kind, heap' \in {"sound", "damaged", "stuck", "released"},
         answer' \in Values \cup {None}, Table(buckets', capacity'), Found(buckets', capacity'),
         size' = Cardinality(Used(buckets'))
  PROVE  HInv'
<1>1. size' \in 0..capacity' BY UsedIs
<1>2. TypeOK' BY <1>1 DEF HInv, TypeOK, Table
<1> QED BY <1>2 DEF HInv, SizeCounts, Reachable, Found, Path

(* A put that succeeds adds its pair, or replaces the one of its key.      *)
LEMMA StoredPairs ==
  ASSUME NEW b, NEW cap, Table(b, cap), Found(b, cap), NEW k \in Keys, NEW v \in Values,
         Stops(b, cap, k, "PUT") # {}, b[hash_getidx(b, cap, k, "PUT")] # Tombstone
  PROVE  LET t == Stored(b, cap, k, v)
         IN /\ Table(t, cap) /\ Found(t, cap)
            /\ PairsOf(t) = {p \in PairsOf(b) : p.key # k} \cup {[key |-> k, val |-> v]}
            /\ b[hash_getidx(b, cap, k, "PUT")] = Empty
                  => Cardinality(Used(t)) = Cardinality(Used(b)) + 1
            /\ b[hash_getidx(b, cap, k, "PUT")] \in Pair
                  => Cardinality(Used(t)) = Cardinality(Used(b))
<1> DEFINE i == hash_getidx(b, cap, k, "PUT")
           t == Stored(b, cap, k, v)
<1>1. /\ i \in 0..(cap - 1) /\ t[i] = [key |-> k, val |-> v] /\ t[i] \in Pair
      /\ \A j \in 0..(cap - 1) : j # i => t[j] = b[j]
      /\ Table(t, cap) /\ Found(t, cap) /\ Used(t) = Used(b) \cup {i}
      /\ b[i] = Empty \/ (i \in Used(b) /\ b[i].key = k)
      /\ b[i] = Empty => i \notin Used(b) /\ \A j \in Used(b) : b[j].key # k
  BY StoreFacts
<1> HIDE DEF i, t
<1>2. Used(b) = {j \in 0..(cap - 1) : b[j] \in Pair} /\ IsFiniteSet(Used(b)) BY UsedIs
<1>3. \A j \in Used(b) : j # i => b[j].key # k /\ t[j] = b[j]
  <2> SUFFICES ASSUME NEW j \in Used(b), j # i PROVE b[j].key # k BY <1>1, <1>2
  <2>1. CASE b[i] = Empty BY <1>1, <2>1
  <2>2. CASE i \in Used(b) /\ b[i].key = k BY <2>2, OneBucket
  <2> QED BY <1>1, <2>1, <2>2
<1>4. PairsOf(t) = {p \in PairsOf(b) : p.key # k} \cup {[key |-> k, val |-> v]}
  <2>1. PairsOf(t) = {b[j] : j \in Used(b) \ {i}} \cup {[key |-> k, val |-> v]}
    BY <1>1, <1>3 DEF PairsOf
  <2>2. {b[j] : j \in Used(b) \ {i}} = {p \in PairsOf(b) : p.key # k}
    BY <1>1, <1>3 DEF PairsOf
  <2> QED BY <2>1, <2>2
<1>5. b[i] = Empty => Cardinality(Used(t)) = Cardinality(Used(b)) + 1
  BY <1>1, <1>2, FS_AddElement
<1>6. b[i] \in Pair => Cardinality(Used(t)) = Cardinality(Used(b))
  <2>1. b[i] \in Pair => Used(t) = Used(b) BY <1>1, <1>2
  <2> QED BY <2>1
<1> QED BY <1>1, <1>4, <1>5, <1>6 DEF i, t

-----------------------------------------------------------------------------
(* The operations.                                                         *)

TableNext == /\ Table(buckets', capacity') /\ Found(buckets', capacity')
          /\ size' = Cardinality(Used(buckets'))

LEMMA PutFacts ==
  ASSUME HInv, NEW k \in Keys, NEW v \in Values, Put(k, v)
  PROVE  \/ /\ TableNext /\ UNCHANGED <<kind, answer, heap>>
            /\ PairsOf(buckets') = {p \in PairsOf(buckets) : p.key # k} \cup {[key |-> k, val |-> v]}
         \/ /\ Damage
            /\ kind = "string" => \E i \in 0..(capacity - 1) : buckets[i] = Tombstone
<1> DEFINE b == Grown.slot  cap == Grown.cap  p == b[hash_getidx(b, cap, k, "PUT")]
           t == Stored(b, cap, k, v)
<1>1. /\ Table(b, cap) /\ Found(b, cap) /\ Grown.count = Cardinality(Used(b))
      /\ PairsOf(b) = PairsOf(buckets) /\ Stops(b, cap, k, "PUT") # {}
      /\ IF hash_should_grow THEN \A i \in 0..(cap - 1) : b[i] # Tombstone
                             ELSE b = buckets /\ cap = capacity
  BY GrownFacts
<1>2. \/ /\ p = Empty
         /\ buckets' = t /\ size' = Grown.count + 1 /\ capacity' = cap
         /\ UNCHANGED <<kind, answer, heap>>
      \/ /\ p \in Pair
         /\ buckets' = t /\ size' = Grown.count /\ capacity' = cap
         /\ UNCHANGED <<kind, answer, heap>>
      \/ /\ GrowthDamages \/ p = Tombstone \/ (p \in Pair /\ kind = "map")
         /\ Damage
  BY DEF Put
<1>3. hash_getidx(b, cap, k, "PUT") \in 0..(cap - 1)
  <2>1. \E n \in 0..(cap - 1) : hash_getidx(b, cap, k, "PUT") \in 0..(cap - 1)
    BY <1>1, StopFacts
  <2> QED BY <2>1
<1>4. p # Tombstone =>
        /\ Table(t, cap) /\ Found(t, cap)
        /\ PairsOf(t) = {r \in PairsOf(b) : r.key # k} \cup {[key |-> k, val |-> v]}
        /\ p = Empty => Cardinality(Used(t)) = Cardinality(Used(b)) + 1
        /\ p \in Pair => Cardinality(Used(t)) = Cardinality(Used(b))
  BY <1>1, StoredPairs
<1>5. p = Tombstone => \E i \in 0..(capacity - 1) : buckets[i] = Tombstone
  <2> SUFFICES ASSUME p = Tombstone PROVE \E i \in 0..(capacity - 1) : buckets[i] = Tombstone
    OBVIOUS
  <2>1. ~ hash_should_grow BY <1>1, <1>3
  <2>2. b = buckets /\ cap = capacity BY <1>1, <2>1
  <2> HIDE DEF b, cap
  <2> QED BY <1>3, <2>2
<1> HIDE DEF t, p, b, cap
<1>6. CASE p = Empty /\ buckets' = t /\ size' = Grown.count + 1 /\ capacity' = cap
           /\ UNCHANGED <<kind, answer, heap>>
  BY <1>1, <1>4, <1>6, Markers DEF TableNext
<1>7. CASE p \in Pair /\ buckets' = t /\ size' = Grown.count /\ capacity' = cap
           /\ UNCHANGED <<kind, answer, heap>>
  BY <1>1, <1>4, <1>7, Markers DEF TableNext
<1>8. CASE Damage /\ (GrowthDamages \/ p = Tombstone \/ (p \in Pair /\ kind = "map"))
  <2>1. kind = "string" => p = Tombstone BY <1>8 DEF GrowthDamages
  <2> QED BY <1>5, <1>8, <2>1
<1> QED BY <1>2, <1>6, <1>7, <1>8

LEMMA ReplaceFacts ==
  ASSUME HInv, NEW k \in Keys, NEW v \in Values, Replace(k, v)
  PROVE  /\ kind = "map"
         /\ \/ /\ TableNext /\ UNCHANGED <<kind, answer, heap>>
               /\ PairsOf(buckets')
                    = {p \in PairsOf(buckets) : p.key # k} \cup {[key |-> k, val |-> v]}
            \/ Damage
<1> DEFINE p == buckets[hash_getidx(buckets, capacity, k, "PUT")]
           t == Stored(buckets, capacity, k, v)
<1>1. /\ Table(buckets, capacity) /\ Found(buckets, capacity)
      /\ capacity \in Nat \ {0} /\ size \in 0..capacity /\ size = Cardinality(Used(buckets))
  BY Shape
<1>2. CASE ~ hash_should_grow /\ p \in Pair /\ buckets' = t
           /\ UNCHANGED <<kind, capacity, size, answer, heap>>
  <2>1. Stops(buckets, capacity, k, "PUT") # {}
    BY <1>1, <1>2, GrowsWhenFull, RoomToPut
  <2>2. p # Tombstone BY <1>2, Markers
  <2>3. /\ Table(t, capacity) /\ Found(t, capacity)
        /\ PairsOf(t) = {r \in PairsOf(buckets) : r.key # k} \cup {[key |-> k, val |-> v]}
        /\ p \in Pair => Cardinality(Used(t)) = Cardinality(Used(buckets))
    BY <1>1, <2>1, <2>2, StoredPairs
  <2> HIDE DEF t, p
  <2>4. TableNext BY <1>1, <1>2, <2>3 DEF TableNext
  <2> QED BY <1>2, <2>3, <2>4 DEF Replace
<1>3. CASE Damage BY <1>3 DEF Replace
<1> QED BY <1>2, <1>3 DEF Replace

LEMMA DeleteFacts ==
  ASSUME HInv, NEW k \in Keys, Delete(k)
  PROVE  /\ UNCHANGED <<kind, capacity, answer>> /\ TableNext
         /\ \/ /\ heap' = heap
               /\ PairsOf(buckets') = {p \in PairsOf(buckets) : p.key # k}
            \/ heap' = "stuck" /\ UNCHANGED <<buckets, size>>
<1> DEFINE stops == Stops(buckets, capacity, k, "DEL")
           i == Probe(k, Least(stops), capacity)
<1>1. /\ Table(buckets, capacity) /\ Found(buckets, capacity)
      /\ capacity \in Nat \ {0} /\ size \in 0..capacity /\ size = Cardinality(Used(buckets))
  BY Shape
<1>2. UNCHANGED <<kind, capacity, answer>> BY DEF Delete
<1>3. \/ /\ stops # {} /\ buckets[i] \in Pair
         /\ buckets' = [buckets EXCEPT ![i] = Tombstone]
         /\ size' = size - 1 /\ heap' = heap
      \/ stops # {} /\ buckets[i] = Empty /\ UNCHANGED <<buckets, size, heap>>
      \/ heap' = "stuck" /\ UNCHANGED <<buckets, size>>
  BY DEF Delete
<1>4. stops # {} => i \in 0..(capacity - 1) /\ Stop(buckets[i], k, "DEL")
  <2> SUFFICES ASSUME stops # {} PROVE i \in 0..(capacity - 1) /\ Stop(buckets[i], k, "DEL")
    OBVIOUS
  <2>1. PICK n \in 0..(capacity - 1) :
          /\ n = Least(stops) /\ hash_getidx(buckets, capacity, k, "DEL") = Probe(k, n, capacity)
          /\ hash_getidx(buckets, capacity, k, "DEL") \in 0..(capacity - 1)
          /\ Stop(buckets[Probe(k, n, capacity)], k, "DEL")
    BY <1>1, StopFacts
  <2> QED BY <2>1
<1>5. \A j \in Used(buckets) : buckets[j].key = k => j = i
  <2> SUFFICES ASSUME NEW j \in Used(buckets), buckets[j].key = k PROVE j = i OBVIOUS
  <2>1. Probe(buckets[j].key, Least(Stops(buckets, capacity, buckets[j].key, "DEL")), capacity) = j
    BY <1>1, KeyFound
  <2> QED BY <2>1
<1> HIDE DEF stops, i
<1>6. CASE stops # {} /\ buckets[i] \in Pair /\ size' = size - 1 /\ heap' = heap
           /\ buckets' = [buckets EXCEPT ![i] = Tombstone]
  <2>1. i \in Used(buckets) /\ buckets[i].key = k
    <3>1. Used(buckets) = {j \in 0..(capacity - 1) : buckets[j] \in Pair} BY <1>1, UsedIs
    <3> QED BY <1>4, <1>6, <3>1, Markers DEF Stop
  <2>2. /\ Table(buckets', capacity) /\ Found(buckets', capacity)
        /\ Used(buckets') = Used(buckets) \ {i} /\ \A j \in Used(buckets') : buckets'[j] = buckets[j]
    <3> DEFINE t == [buckets EXCEPT ![i] = Tombstone]
    <3>1. /\ Table(t, capacity) /\ Found(t, capacity)
          /\ Used(t) = Used(buckets) \ {i} /\ \A j \in Used(t) : t[j] = buckets[j]
      BY <1>1, <2>1, BuryFacts
    <3>2. buckets' = t BY <1>6
    <3> HIDE DEF t
    <3> QED BY <3>1, <3>2
  <2>3. Cardinality(Used(buckets')) = Cardinality(Used(buckets)) - 1
    <3>1. IsFiniteSet(Used(buckets)) BY <1>1, UsedIs
    <3> QED BY <2>1, <2>2, <3>1, FS_RemoveElement
  <2>4. PairsOf(buckets') = {buckets[j] : j \in Used(buckets) \ {i}} BY <2>2 DEF PairsOf
  <2>5. {buckets[j] : j \in Used(buckets) \ {i}} = {p \in PairsOf(buckets) : p.key # k}
    BY <1>5, <2>1 DEF PairsOf
  <2>6. TableNext BY <1>1, <1>2, <1>6, <2>2, <2>3 DEF TableNext
  <2> QED BY <1>2, <1>6, <2>4, <2>5, <2>6
<1>7. CASE stops # {} /\ buckets[i] = Empty /\ UNCHANGED <<buckets, size, heap>>
  <2>1. \A p \in PairsOf(buckets) : p.key # k
    BY <1>5, <1>7, Markers DEF PairsOf, Used
  <2> QED BY <1>1, <1>2, <1>7, <2>1 DEF TableNext
<1>8. CASE heap' = "stuck" /\ UNCHANGED <<buckets, size>> BY <1>1, <1>2, <1>8 DEF TableNext
<1> QED BY <1>3, <1>6, <1>7, <1>8

LEMMA GetFacts ==
  ASSUME HInv, NEW k \in Keys, Get(k)
  PROVE  /\ UNCHANGED <<kind, capacity, buckets, size>> /\ TableNext
         /\ \/ /\ heap' = heap /\ \A p \in PairsOf(buckets) : p.key = k => answer' = p.val
               /\ (\A p \in PairsOf(buckets) : p.key # k) => answer' = None
            \/ heap' = "stuck" /\ answer' = answer
<1> DEFINE stops == Stops(buckets, capacity, k, "GET")
           i == Probe(k, Least(stops), capacity)
<1>1. /\ Table(buckets, capacity) /\ Found(buckets, capacity)
      /\ capacity \in Nat \ {0} /\ size \in 0..capacity /\ size = Cardinality(Used(buckets))
  BY Shape
<1>2. UNCHANGED <<kind, capacity, buckets, size>> /\ TableNext BY <1>1 DEF Get, TableNext
<1>3. \/ /\ stops # {} /\ heap' = heap
         /\ answer' = IF buckets[i] \in Pair THEN buckets[i].val ELSE None
      \/ heap' = "stuck" /\ answer' = answer
  BY DEF Get
<1>4. stops # {} => i \in 0..(capacity - 1) /\ Stop(buckets[i], k, "GET")
  <2> SUFFICES ASSUME stops # {} PROVE i \in 0..(capacity - 1) /\ Stop(buckets[i], k, "GET")
    OBVIOUS
  <2>1. PICK n \in 0..(capacity - 1) :
          /\ n = Least(stops) /\ hash_getidx(buckets, capacity, k, "GET") = Probe(k, n, capacity)
          /\ hash_getidx(buckets, capacity, k, "GET") \in 0..(capacity - 1)
          /\ Stop(buckets[Probe(k, n, capacity)], k, "GET")
    BY <1>1, StopFacts
  <2> QED BY <2>1
<1>5. \A j \in Used(buckets) : buckets[j].key = k => j = i
  <2> SUFFICES ASSUME NEW j \in Used(buckets), buckets[j].key = k PROVE j = i OBVIOUS
  <2>1. Probe(buckets[j].key, Least(Stops(buckets, capacity, buckets[j].key, "GET")), capacity) = j
    BY <1>1, KeyFound
  <2> QED BY <2>1
<1> HIDE DEF stops, i
<1>6. CASE stops # {} /\ heap' = heap
           /\ answer' = IF buckets[i] \in Pair THEN buckets[i].val ELSE None
  <2>1. \A p \in PairsOf(buckets) : p.key = k => answer' = p.val
    BY <1>5, <1>6 DEF PairsOf, Used
  <2>2. ASSUME \A p \in PairsOf(buckets) : p.key # k PROVE answer' = None
    <3>1. i \notin Used(buckets)
      <4>1. i \in Used(buckets) => buckets[i] \in PairsOf(buckets) BY DEF PairsOf
      <4> QED BY <1>4, <1>6, <2>2, <4>1, Markers DEF Stop, Used
    <3>2. buckets[i] \notin Pair
      <4>1. Used(buckets) = {j \in 0..(capacity - 1) : buckets[j] \in Pair} BY <1>1, UsedIs
      <4> QED BY <1>4, <1>6, <3>1, <4>1
    <3> QED BY <1>6, <3>2
  <2> QED BY <1>2, <1>6, <2>1, <2>2
<1> QED BY <1>2, <1>3, <1>6

-----------------------------------------------------------------------------
(* The invariant holds, and what it says of the runs' properties.          *)

LEMMA HInvInit == Init => HInv
<1> SUFFICES ASSUME Init PROVE HInv OBVIOUS
<1> DEFINE e == [i \in 0..(InitialCapacity - 1) |-> Empty]
<1>1. buckets = e /\ capacity = InitialCapacity /\ size = 0 BY DEF Init
<1>2. InitialCapacity \in Nat \ {0} BY TableConstants DEF TableConstants
<1>3. e \in [0..(InitialCapacity - 1) -> Pair \cup {Empty, Tombstone}]
      /\ \A i \in 0..(InitialCapacity - 1) : e[i] = Empty
  OBVIOUS
<1> HIDE DEF e
<1>4. Used(buckets) = {}
  <2>1. Table(buckets, capacity) BY <1>1, <1>2, <1>3 DEF Table
  <2>2. Used(buckets) = {i \in 0..(capacity - 1) : buckets[i] \in Pair} BY <2>1, UsedIs
  <2> QED BY <1>1, <1>3, <2>2, Markers
<1>5. SizeCounts BY <1>1, <1>4, FS_EmptySet DEF SizeCounts
<1>6. Reachable BY <1>4 DEF Reachable
<1>7. TypeOK BY <1>1, <1>2, <1>3 DEF Init, TypeOK
<1> QED BY <1>5, <1>6, <1>7 DEF HInv

LEMMA HInvStep == HInv /\ [Next]_vars => HInv'
<1> SUFFICES ASSUME HInv, [Next]_vars PROVE HInv' OBVIOUS
<1>0. /\ Table(buckets, capacity) /\ Found(buckets, capacity) /\ size = Cardinality(Used(buckets))
      /\ answer \in Values \cup {None} /\ heap \in {"sound", "damaged", "stuck", "released"}
  BY Shape DEF HInv, TypeOK
<1>1. ASSUME UNCHANGED <<kind, capacity, buckets, size, answer>>,
             heap' \in {"sound", "damaged", "stuck", "released"}
      PROVE  HInv'
  BY <1>0, <1>1, Reshape
<1>2. CASE \E k \in Keys : \E v \in Values : Put(k, v)
  <2>1. PICK k \in Keys, v \in Values : Put(k, v) BY <1>2
  <2>2. (TableNext /\ UNCHANGED <<kind, answer, heap>>) \/ Damage BY <2>1, PutFacts
  <2>3. CASE TableNext /\ UNCHANGED <<kind, answer, heap>> BY <1>0, <2>3, Reshape DEF TableNext
  <2>4. CASE Damage BY <1>1, <2>4 DEF Damage
  <2> QED BY <2>2, <2>3, <2>4
<1>3. CASE \E k \in Keys : \E v \in Values : Replace(k, v)
  <2>1. PICK k \in Keys, v \in Values : Replace(k, v) BY <1>3
  <2>2. (TableNext /\ UNCHANGED <<kind, answer, heap>>) \/ Damage BY <2>1, ReplaceFacts
  <2>3. CASE TableNext /\ UNCHANGED <<kind, answer, heap>> BY <1>0, <2>3, Reshape DEF TableNext
  <2>4. CASE Damage BY <1>1, <2>4 DEF Damage
  <2> QED BY <2>2, <2>3, <2>4
<1>4. CASE \E k \in Keys : Delete(k)
  <2>1. PICK k \in Keys : Delete(k) BY <1>4
  <2>2. UNCHANGED <<kind, capacity, answer>> /\ TableNext /\ (heap' = heap \/ heap' = "stuck")
    BY <2>1, DeleteFacts
  <2> QED BY <1>0, <2>2, Reshape DEF TableNext
<1>5. CASE \E k \in Keys : Get(k)
  <2>1. PICK k \in Keys : Get(k) BY <1>5
  <2>2. /\ UNCHANGED <<kind, capacity, buckets, size>> /\ TableNext
        /\ (heap' = heap \/ heap' = "stuck")
    BY <2>1, GetFacts
  <2>3. answer' \in Values \cup {None}
    <3>1. answer' = answer \/ answer' = None
          \/ \E p \in PairsOf(buckets) : answer' = p.val
      BY <2>1, GetFacts
    <3>2. \A p \in PairsOf(buckets) : p.val \in Values BY PairFields DEF PairsOf, Used
    <3> QED BY <1>0, <3>1, <3>2
  <2> QED BY <1>0, <2>2, <2>3, Reshape DEF TableNext
<1>6. CASE Free BY <1>1, <1>6 DEF Free
<1>7. CASE UNCHANGED vars BY <1>0, <1>1, <1>7 DEF vars
<1> QED BY <1>2, <1>3, <1>4, <1>5, <1>6, <1>7 DEF Next

LEMMA Invariant == Spec => []HInv
<1> QED BY HInvInit, HInvStep, PTL DEF Spec

(* The fields keep their shape; the size never exceeds the capacity.       *)
THEOREM ShapeStays == Spec => []TypeOK
<1>1. HInv => TypeOK BY DEF HInv
<1> QED BY <1>1, Invariant, PTL

(* size is the number of pairs after any puts, updates, deletes, growth.   *)
THEOREM SizeIsExact == Spec => []SizeCounts
<1>1. HInv => SizeCounts BY DEF HInv
<1> QED BY <1>1, Invariant, PTL

(* Every pair is found from the home of its key, and a key is stored once. *)
THEOREM PairsAreFound == Spec => []Reachable
<1>1. HInv => Reachable BY DEF HInv
<1> QED BY <1>1, Invariant, PTL

(* The misplaced tombstone question of hash_grow has no consequence: a     *)
(* table that grows is full of pairs.                                      *)
THEOREM GrowthMissesNothing == Spec => []GrowsWithoutTombstones
<1>1. HInv => GrowsWithoutTombstones
  <2> SUFFICES ASSUME HInv, hash_should_grow PROVE \A i \in DOMAIN buckets : buckets[i] \in Pair
    BY DEF GrowsWithoutTombstones
  <2>1. Cardinality(Used(buckets)) = capacity /\ Table(buckets, capacity)
        /\ DOMAIN buckets = 0..(capacity - 1)
    BY Shape, GrowsWhenFull
  <2>2. Used(buckets) = 0..(capacity - 1) BY <2>1, UsedIs
  <2> QED BY <2>1, <2>2 DEF Used
<1> QED BY <1>1, Invariant, PTL

(* A table of copied strings is only harmed by the reuse of a deleted pair.*)
THEOREM StringsStaySafe == Spec => []StringsSafe
<1>1. Init => StringsSafe BY DEF Init, StringsSafe
<1>2. HInv /\ StringsSafe /\ [Next]_vars => StringsSafe'
  <2> SUFFICES ASSUME HInv, StringsSafe, [Next]_vars PROVE StringsSafe' OBVIOUS
  <2>1. CASE \E k \in Keys : \E v \in Values : Put(k, v)
    <3>1. PICK k \in Keys, v \in Values : Put(k, v) BY <2>1
    <3>2. \/ heap' = heap
          \/ Damage /\ (kind = "string" => \E i \in 0..(capacity - 1) : buckets[i] = Tombstone)
      BY <3>1, PutFacts
    <3>3. heap = "sound" BY <3>1 DEF Put
    <3>4. DOMAIN buckets = 0..(capacity - 1) BY Shape
    <3> QED BY <3>2, <3>3, <3>4 DEF StringsSafe, Damage
  <2>2. CASE \E k \in Keys : \E v \in Values : Replace(k, v)
    BY <2>2 DEF Replace, Damage, StringsSafe
  <2>3. CASE \E k \in Keys : Delete(k) BY <2>3 DEF Delete, StringsSafe
  <2>4. CASE \E k \in Keys : Get(k) BY <2>4 DEF Get, StringsSafe
  <2>5. CASE Free BY <2>5 DEF Free, StringsSafe
  <2>6. CASE UNCHANGED vars BY <2>6 DEF vars, StringsSafe
  <2> QED BY <2>1, <2>2, <2>3, <2>4, <2>5, <2>6 DEF Next
<1> QED BY <1>1, <1>2, Invariant, PTL DEF Spec

-----------------------------------------------------------------------------
(* The refinement: what the pairs in the buckets say is the dictionary.    *)

LEMMA ContentsAre ==
  HInv => \A k \in Keys :
            /\ \A p \in PairsOf(buckets) : p.key = k => Contents[k] = p.val
            /\ (\A p \in PairsOf(buckets) : p.key # k) => Contents[k] = None
<1> SUFFICES ASSUME HInv, NEW k \in Keys
             PROVE  /\ \A p \in PairsOf(buckets) : p.key = k => Contents[k] = p.val
                    /\ (\A p \in PairsOf(buckets) : p.key # k) => Contents[k] = None
  OBVIOUS
<1>1. Table(buckets, capacity) /\ Found(buckets, capacity) BY Shape
<1>2. Contents[k] = IF Present(k) THEN (CHOOSE p \in PairsOf(buckets) : p.key = k).val ELSE None
  BY DEF Contents, PairsOf
<1>3. Present(k) <=> \E p \in PairsOf(buckets) : p.key = k BY DEF Present, PairsOf, Used
<1>4. \A p, q \in PairsOf(buckets) : p.key = q.key => p = q BY <1>1, OneBucket DEF PairsOf
<1> QED BY <1>2, <1>3, <1>4

LEMMA ContentsNext ==
  (HInv => \A k \in Keys :
            /\ \A p \in PairsOf(buckets) : p.key = k => Contents[k] = p.val
            /\ (\A p \in PairsOf(buckets) : p.key # k) => Contents[k] = None)'
BY ContentsAre, PTL

LEMMA ContentsShape == Contents = [k \in Keys |-> Contents[k]] /\ DOMAIN Contents = Keys
BY DEF Contents

LEMMA ContentsShapeNext == (Contents = [k \in Keys |-> Contents[k]] /\ DOMAIN Contents = Keys)'
BY ContentsShape, PTL

LEMMA StoreRefines ==
  ASSUME HInv, HInv', NEW k \in Keys, NEW v \in Values,
         PairsOf(buckets') = {p \in PairsOf(buckets) : p.key # k} \cup {[key |-> k, val |-> v]}
  PROVE  Contents' = [Contents EXCEPT ![k] = v]
<1>1. Contents'[k] = v
  <2>1. [key |-> k, val |-> v] \in PairsOf(buckets') OBVIOUS
  <2>2. \A p \in PairsOf(buckets') : p.key = k => Contents'[k] = p.val BY ContentsNext
  <2> QED BY <2>1, <2>2
<1>2. ASSUME NEW j \in Keys, j # k PROVE Contents'[j] = Contents[j]
  <2>1. \A p : p.key = j => (p \in PairsOf(buckets') <=> p \in PairsOf(buckets)) BY <1>2
  <2>2. CASE \E p \in PairsOf(buckets) : p.key = j BY <2>1, <2>2, ContentsAre, ContentsNext
  <2>3. CASE \A p \in PairsOf(buckets) : p.key # j
    <3>1. Contents[j] = None BY <2>3, ContentsAre
    <3>2. \A p \in PairsOf(buckets') : p.key # j BY <2>1, <2>3
    <3>3. Contents'[j] = None BY <3>2, ContentsNext
    <3> QED BY <3>1, <3>3
  <2> QED BY <2>2, <2>3
<1> QED BY <1>1, <1>2, ContentsShape, ContentsShapeNext

LEMMA DeleteRefines ==
  ASSUME HInv, HInv', NEW k \in Keys,
         PairsOf(buckets') = {p \in PairsOf(buckets) : p.key # k}
  PROVE  Contents' = [Contents EXCEPT ![k] = None]
<1>1. Contents'[k] = None
  <2>1. \A p \in PairsOf(buckets') : p.key # k OBVIOUS
  <2> QED BY <2>1, ContentsNext
<1>2. ASSUME NEW j \in Keys, j # k PROVE Contents'[j] = Contents[j]
  <2>1. \A p : p.key = j => (p \in PairsOf(buckets') <=> p \in PairsOf(buckets)) BY <1>2
  <2>2. CASE \E p \in PairsOf(buckets) : p.key = j BY <2>1, <2>2, ContentsAre, ContentsNext
  <2>3. CASE \A p \in PairsOf(buckets) : p.key # j
    <3>1. Contents[j] = None BY <2>3, ContentsAre
    <3>2. \A p \in PairsOf(buckets') : p.key # j BY <2>1, <2>3
    <3>3. Contents'[j] = None BY <3>2, ContentsNext
    <3> QED BY <3>1, <3>3
  <2> QED BY <2>2, <2>3
<1> QED BY <1>1, <1>2, ContentsShape, ContentsShapeNext

LEMMA RefinesInit == Init => Dict!Init
<1> SUFFICES ASSUME Init PROVE Dict!Init OBVIOUS
<1>1. HInv BY HInvInit
<1>2. Table(buckets, capacity) BY <1>1, Shape
<1>3. buckets = [i \in 0..(capacity - 1) |-> Empty] BY DEF Init
<1>4. PairsOf(buckets) = {} BY <1>3, Markers DEF PairsOf, Used
<1>5. \A k \in Keys : Contents[k] = None BY <1>1, <1>4, ContentsAre
<1> QED BY <1>5, ContentsShape DEF Init, Dict!Init

LEMMA RefinesStep == HInv /\ HInv' /\ [Next]_vars => [Dict!Next]_(Dict!vars)
<1> SUFFICES ASSUME HInv, HInv', [Next]_vars PROVE [Dict!Next]_(Dict!vars) OBVIOUS
<1>1. ASSUME heap = "sound", heap' # "sound", answer' = answer PROVE [Dict!Next]_(Dict!vars)
  BY <1>1 DEF Dict!Next, Dict!Fail
<1>2. CASE \E k \in Keys : \E v \in Values : Put(k, v)
  <2>1. PICK k \in Keys, v \in Values : Put(k, v) BY <1>2
  <2>2. heap = "sound" BY <2>1 DEF Put
  <2>3. CASE Damage BY <1>1, <2>2, <2>3 DEF Damage
  <2>4. CASE ~ Damage
    <3>1. UNCHANGED <<answer, heap>>
          /\ PairsOf(buckets')
                = {p \in PairsOf(buckets) : p.key # k} \cup {[key |-> k, val |-> v]}
      BY <2>1, <2>4, PutFacts
    <3>2. Contents' = [Contents EXCEPT ![k] = v] BY <3>1, StoreRefines
    <3> QED BY <2>2, <3>1, <3>2 DEF Dict!Next, Dict!Put
  <2> QED BY <2>3, <2>4
<1>3. CASE \E k \in Keys : \E v \in Values : Replace(k, v)
  <2>1. PICK k \in Keys, v \in Values : Replace(k, v) BY <1>3
  <2>2. heap = "sound" BY <2>1 DEF Replace
  <2>3. CASE Damage BY <1>1, <2>2, <2>3 DEF Damage
  <2>4. CASE ~ Damage
    <3>1. UNCHANGED <<answer, heap>>
          /\ PairsOf(buckets')
                = {p \in PairsOf(buckets) : p.key # k} \cup {[key |-> k, val |-> v]}
      BY <2>1, <2>4, ReplaceFacts
    <3>2. Contents' = [Contents EXCEPT ![k] = v] BY <3>1, StoreRefines
    <3> QED BY <2>2, <3>1, <3>2 DEF Dict!Next, Dict!Put
  <2> QED BY <2>3, <2>4
<1>4. CASE \E k \in Keys : Delete(k)
  <2>1. PICK k \in Keys : Delete(k) BY <1>4
  <2>2. heap = "sound" /\ answer' = answer BY <2>1 DEF Delete
  <2>3. CASE heap' = "stuck" BY <1>1, <2>2, <2>3
  <2>4. CASE heap' # "stuck"
    <3>1. heap' = heap /\ PairsOf(buckets') = {p \in PairsOf(buckets) : p.key # k}
      BY <2>1, <2>4, DeleteFacts
    <3>2. Contents' = [Contents EXCEPT ![k] = None] BY <3>1, DeleteRefines
    <3> QED BY <2>2, <3>1, <3>2 DEF Dict!Next, Dict!Delete
  <2> QED BY <2>3, <2>4
<1>5. CASE \E k \in Keys : Get(k)
  <2>1. PICK k \in Keys : Get(k) BY <1>5
  <2>2. heap = "sound" /\ buckets' = buckets BY <2>1 DEF Get
  <2>3. CASE heap' = "stuck"
    <3>1. answer' = answer BY <2>1, <2>2, <2>3, GetFacts
    <3> QED BY <1>1, <2>2, <2>3, <3>1
  <2>4. CASE heap' # "stuck"
    <3>1. /\ heap' = heap /\ \A p \in PairsOf(buckets) : p.key = k => answer' = p.val
          /\ (\A p \in PairsOf(buckets) : p.key # k) => answer' = None
      BY <2>1, <2>4, GetFacts
    <3>2. answer' = Contents[k] BY <3>1, ContentsAre
    <3>3. Contents' = Contents BY <2>2 DEF Contents, Present
    <3> QED BY <2>2, <3>1, <3>2, <3>3 DEF Dict!Next, Dict!LookUp
  <2> QED BY <2>3, <2>4
<1>6. CASE Free BY <1>1, <1>6 DEF Free
<1>7. CASE UNCHANGED vars
  <2>1. Contents' = Contents BY <1>7 DEF vars, Contents, Present
  <2> QED BY <1>7, <2>1 DEF vars, Dict!vars
<1> QED BY <1>2, <1>3, <1>4, <1>5, <1>6, <1>7 DEF Next

(* Until an operation fails the table is a dictionary: a lookup answers    *)
(* with the value last stored under the key, across growth and deletes.    *)
THEOREM TableIsDictionary == Spec => IsDictionary
<1>1. Spec => Dict!Init /\ [][Dict!Next]_(Dict!vars)
  BY RefinesInit, RefinesStep, HInvInit, HInvStep, Invariant, PTL DEF Spec
<1> QED BY <1>1 DEF IsDictionary, Dict!Spec
-----------------------------------------------------------------------------
(* Which operations end.                                                   *)

(* No bucket can end a probe for k: k is not stored and none is empty.     *)
Endless(k) == ~ Present(k) /\ \A i \in DOMAIN buckets : buckets[i] # Empty

LEMMA EndlessProbe ==
  ASSUME HInv, NEW k \in Keys, NEW op, op # "PUT"
  PROVE  Stops(buckets, capacity, k, op) = {} <=> Endless(k)
<1>1. Table(buckets, capacity) /\ DOMAIN buckets = 0..(capacity - 1) /\ capacity \in Nat \ {0}
  BY Shape
<1>2. ASSUME NEW n \in Stops(buckets, capacity, k, op) PROVE ~ Endless(k)
  <2>1. n \in 0..(capacity - 1) /\ Stop(buckets[Probe(k, n, capacity)], k, op) BY StopsAre
  <2>2. Probe(k, n, capacity) \in 0..(capacity - 1) BY <1>1, <2>1, ProbeType
  <2> QED BY <1>1, <2>1, <2>2 DEF Stop, Endless, Present
<1>3. ASSUME ~ Endless(k) PROVE Stops(buckets, capacity, k, op) # {}
  <2>1. PICK i \in 0..(capacity - 1) :
          buckets[i] = Empty \/ (buckets[i] \in Pair /\ buckets[i].key = k)
    BY <1>1, <1>3 DEF Endless, Present
  <2>2. Stop(buckets[i], k, op) BY <2>1 DEF Stop
  <2> QED BY <1>1, <2>2, StopAt
<1> QED BY <1>2, <1>3

(* A lookup or a delete fails to end in one case only, whatever was put,   *)
(* deleted and grown before: the key is not there and puts and tombstones  *)
(* have taken the last empty bucket.  In that case it always fails, so     *)
(* this is what WaitFree lacks, no less and no more (hash_getidx).         *)
THEOREM LookupsEndUnlessFull ==
  Spec => [][\A k \in Keys : Get(k) \/ Delete(k) => (heap' = "stuck" <=> Endless(k))]_vars
<1>1. ASSUME HInv, NEW k \in Keys, Get(k) \/ Delete(k) PROVE heap' = "stuck" <=> Endless(k)
  <2>1. CASE Get(k)
    <3>1. Stops(buckets, capacity, k, "GET") = {} <=> Endless(k) BY <1>1, EndlessProbe
    <3> QED BY <2>1, <3>1 DEF Get
  <2>2. CASE Delete(k)
    <3>1. Stops(buckets, capacity, k, "DEL") = {} <=> Endless(k) BY <1>1, EndlessProbe
    <3> QED BY <2>2, <3>1 DEF Delete
  <2> QED BY <1>1, <2>1, <2>2
<1>2. HInv /\ [Next]_vars =>
        [\A k \in Keys : Get(k) \/ Delete(k) => (heap' = "stuck" <=> Endless(k))]_vars
  BY <1>1
<1> QED BY <1>2, Invariant, PTL DEF Spec

(* A put always finds where to stop, because it grows a full table first:  *)
(* hash_operation cannot hang, however full of tombstones the table is.    *)
THEOREM PutsAlwaysEnd ==
  Spec => [](\A k \in Keys : Stops(Grown.slot, Grown.cap, k, "PUT") # {})
<1>1. HInv => \A k \in Keys : Stops(Grown.slot, Grown.cap, k, "PUT") # {} BY GrownFacts
<1> QED BY <1>1, Invariant, PTL
=============================================================================
