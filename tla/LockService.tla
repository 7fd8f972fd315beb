----------------------------- MODULE LockService -----------------------------
(***************************************************************************)
(* What the locks of a server promise its users: a resource has one        *)
(* holder.  A lock is lost in two ways only: once it has lapsed the next   *)
(* user who asks may take the resource, and a service that is full drops   *)
(* one lock to make room, once, before it must take a new lock again.      *)
(* There is no giving back.  DavLocks is shown to implement it.            *)
(***************************************************************************)
CONSTANTS Users, Paths, None

VARIABLES
  holder,   \* the user who holds each resource, or None
  lapsed,   \* the resources whose holder may be replaced
  full      \* a further lock needs room

vars == <<holder, lapsed, full>>

Init ==
  /\ holder = [p \in Paths |-> None]
  /\ lapsed = {}
  /\ full = FALSE

Available(p, u) == holder[p] \in {None, u} \/ p \in lapsed

(* u takes p, for which there must be room, or holds it for longer. *)
Take(p, u) ==
  /\ Available(p, u)
  /\ full => holder[p] # None
  /\ holder' = [holder EXCEPT ![p] = u]
  /\ lapsed' = lapsed \ {p}
  /\ full' \in BOOLEAN

(* u is turned away; locks of the holder that lapsed may be thrown out.    *)
Refuse(p, u) ==
  /\ ~ Available(p, u)
  /\ full' \in {full, FALSE}
  /\ UNCHANGED <<holder, lapsed>>

(* Room is made: at most one resource loses its holder. *)
Evict ==
  /\ full /\ full' = FALSE
  /\ \E p \in Paths : holder' \in {holder, [holder EXCEPT ![p] = None]}
  /\ lapsed' = {p \in lapsed : holder'[p] # None}

Lapse ==
  /\ lapsed \subseteq lapsed' /\ lapsed' \subseteq {p \in Paths : holder[p] # None}
  /\ UNCHANGED <<holder, full>>

Next ==
  \/ \E p \in Paths, u \in Users : Take(p, u) \/ Refuse(p, u)
  \/ Evict \/ Lapse

Spec == Init /\ [][Next]_vars
=============================================================================
