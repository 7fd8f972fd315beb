------------------------------ MODULE HashTable ------------------------------
(***************************************************************************)
(* The open addressing hash table of hashtable.c, which holds the headers, *)
(* parameters, cookies and form parts of every connection and the pairs of *)
(* every map: linear probing, tombstones, growth, and what its operations  *)
(* free on the way.                                                        *)
(*                                                                         *)
(* Three kinds of table are in use.  "string": keys and values are copies  *)
(* nobody frees (key_ops_auto, hash_put_str): headers and parameters.      *)
(* "object": values are pointers (key_ops_auto, hash_put): sessions and    *)
(* dispositions.  "map": pointers under keys that are freed                *)
(* (key_ops_string, hash_put and hash_replace): the tables of map.c.       *)
(***************************************************************************)
EXTENDS Integers, FiniteSets

CONSTANTS
  Keys, Values,
  Hash,             \* the 32 bits key_ops.hash gives each key
  InitialCapacity,  \* ARRAY_SIZE or HASH_INIT_CAPACITY
  GrowthFactor,     \* HASH_GROWTH_FACTOR
  Kinds,            \* the kinds of table to consider
  None, Empty, Tombstone

ASSUME TableConstants ==
  /\ Hash \in [Keys -> Nat \ {0}]
  /\ InitialCapacity \in Nat \ {0}
  /\ GrowthFactor \in Nat \ {0, 1}
  /\ Kinds \subseteq {"string", "object", "map"}
  /\ None \notin Values
  /\ Cardinality({Empty, Tombstone}) = 2

VARIABLES
  kind,       \* which kind this table is
  capacity,   \* buckets are numbered from 0 to capacity - 1
  buckets,    \* the pair in each bucket, Empty or Tombstone
  size,
  answer,     \* what the last lookup returned
  heap        \* "sound"; "damaged" by a double free or a pointer to freed
              \* memory; "stuck" in an endless probe; "released" by hash_free

vars == <<kind, capacity, buckets, size, answer, heap>>

Pair == [key : Keys, val : Values]

ASSUME MarkersAreNoPairs == Empty \notin Pair /\ Tombstone \notin Pair

-----------------------------------------------------------------------------
(* Probing, in any table of cap buckets b.                                 *)

(* The bucket n steps (hash_lp_idx) behind the home of a key. *)
Probe(k, n, cap) == (Hash[k] + n) % cap

(* The steps at which hash_getidx ends: an empty bucket, the key itself,   *)
(* and for a PUT the first tombstone.  The home of k is known not to be    *)
(* empty when it is called.                                                *)
Stops(b, cap, k, op) ==
  {n \in 0..(cap - 1) :
     LET p == b[Probe(k, n, cap)]
     IN \/ p = Empty
        \/ p = Tombstone /\ op = "PUT"
        \/ p \in Pair /\ p.key = k}

Least(s) == CHOOSE n \in s : \A m \in s : n <= m

hash_getidx(b, cap, k, op) == Probe(k, Least(Stops(b, cap, k, op)), cap)

(* hash_put_str or hash_put of a key that was not there: the new buckets. *)
Stored(b, cap, k, v) ==
  [b EXCEPT ![hash_getidx(b, cap, k, "PUT")] = [key |-> k, val |-> v]]

Used(b) == {i \in DOMAIN b : b[i] \in Pair}

hash_should_grow == size \div capacity >= 1

(* Mistake: the pairs keep their places. *)
Rehashed_InPlace(b, cap, new) ==
  [i \in 0..(new - 1) |-> IF i < cap THEN b[i] ELSE Empty]

(* hash_grow: every pair is put into the new buckets, in the old order. *)
Rehashed(b, cap, new) ==
  LET moved[n \in 0..cap] ==
        IF n = 0 THEN [i \in 0..(new - 1) |-> Empty]
        ELSE IF b[n - 1] \in Pair THEN Stored(moved[n - 1], new, b[n - 1].key, b[n - 1].val)
        ELSE moved[n - 1]
  IN moved[cap]

(* The table as a put finds it. *)
Grown ==
  IF hash_should_grow
  THEN [cap |-> capacity * GrowthFactor, slot |-> Rehashed(buckets, capacity, capacity * GrowthFactor),
        count |-> Cardinality(Used(buckets))]
  ELSE [cap |-> capacity, slot |-> buckets, count |-> size]

(* Mistake: growth frees the strings of a pair it has moved. *)
GrowthDamages_Strings == hash_should_grow

(* Growth moves an object's pair by storing the pointer to the old pair's  *)
(* value, which it then frees.                                             *)
GrowthDamages == hash_should_grow /\ kind # "string"

-----------------------------------------------------------------------------
Init ==
  /\ kind \in Kinds
  /\ capacity = InitialCapacity
  /\ buckets = [i \in 0..(InitialCapacity - 1) |-> Empty]
  /\ size = 0
  /\ answer = None
  /\ heap = "sound"

Damage == heap' = "damaged" /\ UNCHANGED <<kind, capacity, buckets, size, answer>>

(* Mistake: a put counts every time. *)
Put_Counts(k, v) ==
  /\ heap = "sound"
  /\ LET t == Grown
     IN /\ ~ GrowthDamages
        /\ t.slot[hash_getidx(t.slot, t.cap, k, "PUT")] # Tombstone
        /\ buckets' = Stored(t.slot, t.cap, k, v)
        /\ size' = t.count + 1
        /\ capacity' = t.cap
  /\ UNCHANGED <<kind, answer, heap>>

(* hash_operation.  A tombstone still points at the value that its delete  *)
(* freed and that the reuse frees again; a map's old value is freed twice, *)
(* once as the pair's value and once as its extended value.                *)
Put(k, v) ==
  /\ heap = "sound"
  /\ LET t == Grown
         p == t.slot[hash_getidx(t.slot, t.cap, k, "PUT")]
     IN \/ /\ ~ GrowthDamages
           /\ p = Empty
           /\ buckets' = Stored(t.slot, t.cap, k, v)
           /\ size' = t.count + 1
           /\ capacity' = t.cap
           /\ UNCHANGED <<kind, answer, heap>>
        \/ /\ ~ GrowthDamages
           /\ p \in Pair /\ kind # "map"
           /\ buckets' = Stored(t.slot, t.cap, k, v)
           /\ size' = t.count
           /\ capacity' = t.cap
           /\ UNCHANGED <<kind, answer, heap>>
        \/ /\ GrowthDamages \/ p = Tombstone \/ (p \in Pair /\ kind = "map")
           /\ Damage

(* The key is in the table; map.c asks hash_get before it replaces. *)
Present(k) == \E i \in DOMAIN buckets : buckets[i] \in Pair /\ buckets[i].key = k

(* hash_replace also probes as a put does, and so may stop at a tombstone. *)
Replace(k, v) ==
  /\ heap = "sound"
  /\ kind = "map"
  /\ Present(k)
  /\ \/ /\ ~ hash_should_grow
        /\ buckets[hash_getidx(buckets, capacity, k, "PUT")] \in Pair
        /\ buckets' = Stored(buckets, capacity, k, v)
        /\ UNCHANGED <<kind, capacity, size, answer, heap>>
     \/ /\ hash_should_grow \/ buckets[hash_getidx(buckets, capacity, k, "PUT")] = Tombstone
        /\ Damage

(* hash_get and hash_has.  With no bucket at which to stop, for a key that *)
(* is not there, hash_getidx never returns.                                *)
Get(k) ==
  /\ heap = "sound"
  /\ LET stops == Stops(buckets, capacity, k, "GET")
         p == buckets[Probe(k, Least(stops), capacity)]
     IN \/ /\ stops # {}
           /\ answer' = IF p \in Pair THEN p.val ELSE None
           /\ UNCHANGED heap
        \/ /\ stops = {}
           /\ heap' = "stuck"
           /\ UNCHANGED answer
  /\ UNCHANGED <<kind, capacity, buckets, size>>

(* Mistakes: the size shrinks for an absent key, or stays; the bucket is   *)
(* emptied.                                                                *)
Delete_Absent(k) ==
  /\ heap = "sound"
  /\ ~ Present(k)
  /\ size' = size - 1
  /\ UNCHANGED <<kind, capacity, buckets, answer, heap>>
Delete_Uncounted(k) ==
  /\ heap = "sound"
  /\ Present(k)
  /\ buckets' = [buckets EXCEPT ![hash_getidx(buckets, capacity, k, "DEL")] = Tombstone]
  /\ UNCHANGED <<kind, capacity, size, answer, heap>>
Delete_Empties(k) ==
  /\ heap = "sound"
  /\ Present(k)
  /\ buckets' = [buckets EXCEPT ![hash_getidx(buckets, capacity, k, "DEL")] = Empty]
  /\ size' = size - 1
  /\ UNCHANGED <<kind, capacity, answer, heap>>

(* hash_delete. *)
Delete(k) ==
  /\ heap = "sound"
  /\ LET stops == Stops(buckets, capacity, k, "DEL")
         i == Probe(k, Least(stops), capacity)
     IN \/ /\ stops # {}
           /\ buckets[i] \in Pair
           /\ buckets' = [buckets EXCEPT ![i] = Tombstone]
           /\ size' = size - 1
           /\ UNCHANGED heap
        \/ /\ stops # {}
           /\ buckets[i] = Empty
           /\ UNCHANGED <<buckets, size, heap>>
        \/ /\ stops = {}
           /\ heap' = "stuck"
           /\ UNCHANGED <<buckets, size>>
  /\ UNCHANGED <<kind, capacity, answer>>

(* hash_free, at the end of the scope that made the table. *)
Free == heap = "sound" /\ heap' = "released" /\ UNCHANGED <<kind, capacity, buckets, size, answer>>

Next ==
  \/ \E k \in Keys : Get(k) \/ Delete(k) \/ \E v \in Values : Put(k, v) \/ Replace(k, v)
  \/ Free

Spec == Init /\ [][Next]_vars

-----------------------------------------------------------------------------
(* The table keeps the shape of its fields. *)
TypeOK ==
  /\ kind \in Kinds
  /\ capacity \in Nat \ {0}
  /\ buckets \in [0..(capacity - 1) -> Pair \cup {Empty, Tombstone}]
  /\ size \in 0..capacity
  /\ answer \in Values \cup {None}
  /\ heap \in {"sound", "damaged", "stuck", "released"}

(* size counts the pairs: the update of a pair, whose fetch_sub and        *)
(* fetch_add cancel, the delete and the recount of hash_grow agree on it.  *)
SizeCounts == size = Cardinality(Used(buckets))

(* A pair is found from its home before any empty bucket, and a key is in  *)
(* one bucket only, after any order of puts, deletes and growth.           *)
Reachable ==
  \A i \in Used(buckets) :
    \E n \in 0..(capacity - 1) :
      /\ Probe(buckets[i].key, n, capacity) = i
      /\ \A m \in 0..(n - 1) : LET p == buckets[Probe(buckets[i].key, m, capacity)]
                               IN p # Empty /\ (p \in Pair => p.key # buckets[i].key)

(* hash_grow asks its tombstone question of the new buckets; it is not     *)
(* missed, because a table that grows has no tombstone.                    *)
GrowsWithoutTombstones == hash_should_grow => \A i \in DOMAIN buckets : buckets[i] \in Pair

(* A table of strings comes to harm only by the reuse of a deleted pair:   *)
(* puts and growth are safe where nothing is deleted, as in the headers of *)
(* a request that was received.                                            *)
StringsSafe ==
  heap = "damaged" /\ kind = "string" => \E i \in DOMAIN buckets : buckets[i] = Tombstone

(* The table implements a dictionary, until an operation fails. *)
Contents ==
  [k \in Keys |-> IF Present(k) THEN (CHOOSE p \in {buckets[i] : i \in Used(buckets)} : p.key = k).val
                  ELSE None]
Dict == INSTANCE Dictionary WITH store <- Contents, failed <- heap # "sound"
IsDictionary == Dict!Spec

(* "`atomic` wait free open addressing hash table": every operation ends   *)
(* in a bounded number of steps.                                           *)
WaitFree == heap # "stuck"
=============================================================================
