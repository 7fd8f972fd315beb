------------------------------ MODULE Dictionary ------------------------------
(***************************************************************************)
(* What a hash table promises its users: a partial function from keys to   *)
(* values; a lookup answers with the value last stored under the key, or   *)
(* None.  Nothing is promised once an operation has failed: what is stored *)
(* then is not looked at any more.  HashTable implements it.               *)
(***************************************************************************)
CONSTANTS Keys, Values, None

VARIABLES
  store,    \* the value of each key, None when it has none
  answer,   \* what the last lookup returned
  failed    \* an operation did not complete

vars == <<store, answer, failed>>

Init == store = [k \in Keys |-> None] /\ answer = None /\ failed = FALSE

Put(k, v) == store' = [store EXCEPT ![k] = v] /\ UNCHANGED <<answer, failed>>
Delete(k) == store' = [store EXCEPT ![k] = None] /\ UNCHANGED <<answer, failed>>
LookUp(k) == answer' = store[k] /\ UNCHANGED <<store, failed>>
Fail == failed' = TRUE /\ UNCHANGED answer

Next == /\ ~ failed
        /\ \/ \E k \in Keys : Delete(k) \/ LookUp(k) \/ \E v \in Values : Put(k, v)
           \/ Fail

Spec == Init /\ [][Next]_vars
=============================================================================
