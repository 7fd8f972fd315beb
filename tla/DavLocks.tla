------------------------------- MODULE DavLocks -------------------------------
(***************************************************************************)
(* The WebDAV locks of a server: the table ctx->webdav_lock that           *)
(* dav_lock_file edits under ctx->nonce_mutex, the answers it and          *)
(* dav_unlock_file give after releasing it, and the passing of time.       *)
(***************************************************************************)
EXTENDS Integers, FiniteSets

CONSTANTS
  Users,       \* authenticated users (conn->req.remote_user)
  Paths,       \* links of the resources
  NumLocks,    \* NUM_WEBDAV_LOCKS
  Duration,    \* LOCK_DURATION_S
  MaxTime,     \* bound on the clock
  Conns,       \* requests being handled
  None         \* no path (path[0] == 0), no user, no token

ASSUME LockConstants ==
  /\ NumLocks \in Nat \ {0} /\ Duration \in Nat /\ MaxTime \in Nat
  /\ None \notin Users \cup Paths

VARIABLES
  dav_lock,   \* the table
  now,        \* events_now()
  request     \* what each request has been granted and told

vars == <<dav_lock, now, request>>

Slots == 1..NumLocks
Token == [path : Paths, time : 0..MaxTime, user : Users]
Lock == [locktime : 0..MaxTime, token : Token \cup {None},
         path : Paths \cup {None}, user : Users \cup {None}]
Request == [pc : {"idle", "granted", "headers", "answered"}, path : Paths \cup {None},
            user : Users \cup {None}, index : 0..NumLocks, token : Token \cup {None},
            owner : Users \cup {None}]
Idle == [pc |-> "idle", path |-> None, user |-> None, index |-> 0, token |-> None, owner |-> None]

Least(s) == CHOOSE i \in s : \A j \in s : i <= j

-----------------------------------------------------------------------------
Init ==
  /\ dav_lock = [i \in Slots |-> [locktime |-> 0, token |-> None, path |-> None, user |-> None]]
  /\ now = 0
  /\ request = [c \in Conns |-> Idle]

Tick == now < MaxTime /\ now' = now + 1 /\ UNCHANGED <<dav_lock, request>>

Expired(lock) == now > lock.locktime + Duration

(* The search for an existing lock of user u on path p goes up to the      *)
(* user's own first one, or to the first that is valid and another's.      *)
On(p) == {i \in Slots : dav_lock[i].path = p}
Own(p, u) == {i \in On(p) : dav_lock[i].user = u}
Foreign(p, u) ==
  {i \in On(p) \ Own(p, u) : \A own \in Own(p, u) : i < own}
Refusing(p, u) == {i \in Foreign(p, u) : ~ Expired(dav_lock[i])}

(* Mistake: another user's expired locks stay. *)
Searched_Keeps(p, u) ==
  [i \in Slots |-> IF Own(p, u) # {} /\ i = Least(Own(p, u))
                   THEN [dav_lock[i] EXCEPT !.locktime = now] ELSE dav_lock[i]]

(* The table after the search: expired locks that were met are cleared,    *)
(* the user's own first one is renewed.                                    *)
Searched(p, u) ==
  LET met == {i \in Foreign(p, u) : \A r \in Refusing(p, u) : i < r}
  IN [i \in Slots |->
        IF i \in met THEN [dav_lock[i] EXCEPT !.path = None]
        ELSE IF Refusing(p, u) = {} /\ Own(p, u) # {} /\ i = Least(Own(p, u))
        THEN [dav_lock[i] EXCEPT !.locktime = now]
        ELSE dav_lock[i]]

New(p, u) == [locktime |-> now, token |-> [path |-> p, time |-> now, user |-> u],
              path |-> p, user |-> u]

Oldest(t) == Least({i \in Slots : \A j \in Slots : t[i].locktime <= t[j].locktime})

(* Mistake: the slot of the lock is not kept. *)
Granted_Unset(c, p, u, i) ==
  request' = [request EXCEPT ![c].pc = "granted", ![c].path = p, ![c].user = u]
(* The request is told that u locks p, with the lock in slot i. *)
Granted(c, p, u, i) ==
  request' = [request EXCEPT ![c] = [pc |-> "granted", path |-> p, user |-> u, index |-> i,
                                     token |-> None, owner |-> None]]

(* Mistake: the oldest lock makes room although there is a free slot. *)
LockFile_Evicts(c, p, u) ==
  /\ request[c].pc \in {"idle", "answered"}
  /\ Refusing(p, u) = {}
  /\ dav_lock' = [dav_lock EXCEPT ![Oldest(dav_lock)] = New(p, u)]
  /\ Granted(c, p, u, Oldest(dav_lock))
  /\ UNCHANGED now

(* dav_lock_file up to the release of the lock.  A renewal also takes a    *)
(* free slot, when there is one; with neither, the oldest lock is cleared  *)
(* and its slot is answered as it stands.                                  *)
LockFile(c, p, u) ==
  /\ request[c].pc \in {"idle", "answered"}
  /\ LET t == Searched(p, u)
         free == {i \in Slots : t[i].path = None}
     IN \/ /\ Refusing(p, u) # {}
           /\ dav_lock' = t
           /\ UNCHANGED request
        \/ /\ Refusing(p, u) = {}
           /\ free # {}
           /\ dav_lock' = [t EXCEPT ![Least(free)] = New(p, u)]
           /\ Granted(c, p, u, Least(free))
        \/ /\ Refusing(p, u) = {}
           /\ free = {} /\ Own(p, u) # {}
           /\ dav_lock' = t
           /\ Granted(c, p, u, Least(Own(p, u)))
        \/ /\ Refusing(p, u) = {}
           /\ free = {} /\ Own(p, u) = {}
           /\ dav_lock' = [t EXCEPT ![Oldest(t)].path = None]
           /\ Granted(c, p, u, Oldest(t))
  /\ UNCHANGED now

(* The 200 answer: its headers are sent, with the token in the slot ...    *)
SendToken(c) ==
  /\ request[c].pc = "granted"
  /\ request' = [request EXCEPT ![c].pc = "headers", ![c].token = dav_lock[request[c].index].token]
  /\ UNCHANGED <<dav_lock, now>>

(* ... then its body, with the user that is in the slot by then.           *)
SendBody(c) ==
  /\ request[c].pc = "headers"
  /\ request' = [request EXCEPT ![c].pc = "answered", ![c].owner = dav_lock[request[c].index].user]
  /\ UNCHANGED <<dav_lock, now>>

(* Mistake: the unlock gives the resource back, whoever holds it. *)
UnlockFile_Clears(c) ==
  /\ request[c].pc \in {"idle", "answered"}
  /\ \E p \in Paths :
       dav_lock' = [i \in Slots |-> IF i \in On(p) THEN [dav_lock[i] EXCEPT !.path = None]
                                    ELSE dav_lock[i]]
  /\ request' = [request EXCEPT ![c] = Idle]
  /\ UNCHANGED now
(* dav_unlock_file looks the lock up, answers 204 or 423, and leaves the   *)
(* table as it is.                                                         *)
UnlockFile(c) ==
  /\ request[c].pc \in {"idle", "answered"}
  /\ request' = [request EXCEPT ![c] = Idle]
  /\ UNCHANGED <<dav_lock, now>>

Next ==
  \/ Tick
  \/ \E c \in Conns : \/ SendToken(c) \/ SendBody(c) \/ UnlockFile(c)
                      \/ \E p \in Paths, u \in Users : LockFile(c, p, u)

Spec == Init /\ [][Next]_vars

-----------------------------------------------------------------------------
(* The table and the requests keep their shape; a request that is told of  *)
(* a lock refers to a slot of the table.                                   *)
TypeOK ==
  /\ dav_lock \in [Slots -> Lock]
  /\ now \in 0..MaxTime
  /\ request \in [Conns -> Request]
  /\ \A c \in Conns : request[c].pc # "idle" => request[c].index \in Slots

(* No resource is ever locked by two users: renewals may take a second     *)
(* slot, but another user's lock is only set once all of them are gone.    *)
OneOwner ==
  \A i, j \in Slots :
    dav_lock[i].path # None /\ dav_lock[i].path = dav_lock[j].path
      => dav_lock[i].user = dav_lock[j].user

(* A lock that has not expired is taken from its user only when every slot *)
(* holds a lock, and then from the one that was set or renewed first.      *)
ValidLockStays ==
  [][\A i \in Slots :
       /\ dav_lock[i].path # None /\ ~ Expired(dav_lock[i])
       /\ <<dav_lock'[i].path, dav_lock'[i].user>> # <<dav_lock[i].path, dav_lock[i].user>>
       => \A j \in Slots : dav_lock[j].path # None /\ dav_lock[i].locktime <= dav_lock[j].locktime]_vars

(* A resource has one holder at a time, who loses it to another user only  *)
(* when all the locks on it have expired, or to a full table, which drops  *)
(* one lock and then has a free slot (dav_lock_file): so a renewal's       *)
(* second slot, a partial clearing and an unlock change nobody's hold.     *)
Holder == [p \in Paths |-> IF On(p) = {} THEN None ELSE dav_lock[Least(On(p))].user]
Lapsed == {p \in Paths : On(p) # {} /\ \A i \in On(p) : Expired(dav_lock[i])}
Full == \A i \in Slots : dav_lock[i].path # None
Service == INSTANCE LockService WITH holder <- Holder, lapsed <- Lapsed, full <- Full
ImplementsService == Service!Spec

(* "create new lock token", "return 200 OK": who is told that a resource   *)
(* is locked is given a token of his own for it, and named as its owner.   *)
TokenIsTheirs ==
  \A c \in Conns :
    /\ request[c].token # None => request[c].token.user = request[c].user
    /\ request[c].owner # None => request[c].owner = request[c].user
=============================================================================
