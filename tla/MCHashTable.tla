----------------------------- MODULE MCHashTable -----------------------------
(* An instance of HashTable for TLC: four keys, three of which share their *)
(* home in the small table and run over its end, as two do in the large.   *)
EXTENDS HashTable, TLC

CONSTANTS a, b, c, d, v1, v2, null, empty, gone

MCHash == a :> 2 @@ b :> 5 @@ c :> 11 @@ d :> 23
MCSymmetry == Permutations(Values)
=============================================================================
