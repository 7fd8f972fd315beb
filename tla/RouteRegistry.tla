---------------------------- MODULE RouteRegistry ----------------------------
(***************************************************************************)
(* The routes of a server: the linked list of uri_handler_info that        *)
(* set_handler_type edits, the domains that http_add_domain hangs on to    *)
(* it, and the requests that look routes up and then use what they found.  *)
(*                                                                         *)
(* Every walk and edit of the list holds ctx->nonce_mutex and is one step; *)
(* what a request does between two of them is not covered by the lock, and *)
(* other coroutines and threads run there.                                 *)
(***************************************************************************)
EXTENDS Integers, Sequences, FiniteSets

CONSTANTS
  Types,      \* the handler types in use, "auth" and "request" among them
  Uris,       \* URIs routes are registered for
  Keys,       \* pairs <<type, URI>> that are registered at some time
  Asked,      \* the URIs requests ask for
  Beneath,    \* pairs <<u, v>>: v is u followed by "/" and more
  Globs,      \* pairs <<u, v>>: v matches the pattern u (http_match_prefix)
  Handlers,   \* handler functions with their cbdata
  Cells,      \* memory cells that calloc may return for a uri_handler_info
  Domains,    \* names of additional domains
  Conns,      \* connections being served
  MainHost,   \* authentication_domain of the server itself
  None        \* no cell, no handler (NULL)

ASSUME RegistryConstants ==
  /\ {"auth", "request"} \subseteq Types
  /\ Keys \subseteq Types \X Uris /\ Asked \subseteq Uris
  /\ Beneath \subseteq Uris \X Uris /\ Globs \subseteq Uris \X Uris
  /\ None \notin Cells \cup Handlers
  /\ MainHost \notin Domains
  /\ IsFiniteSet(Cells)

VARIABLES
  cell,       \* the route in each cell, None in one that is not allocated
  head,       \* ctx->host.handlers
  domHead,    \* the handlers field of each domain, None too when not made yet
  domState,   \* "absent", "built" (http_add_domain before the lock), "linked"
  alike,      \* domains whose copy of the head is still the first route of the
              \* host: history, no program state
  request,    \* what each connection is doing
  freed       \* http_free_ini has run

registry == <<cell, head>>
domains == <<domHead, domState, alike>>
vars == <<cell, head, domHead, domState, alike, request, freed>>

Route == [type : Types, uri : Uris, handler : Handlers, next : Cells \cup {None}]

ASSUME NoneIsNoRoute == None \notin Route

Idle == [pc |-> "idle", domain |-> MainHost, uri |-> None, callback |-> None,
         auth |-> "none", guarded |-> FALSE]
Crashed == [Idle EXCEPT !.pc = "crashed"]
Done(c) == [Idle EXCEPT !.domain = request[c].domain]

-----------------------------------------------------------------------------
(* Lists.                                                                  *)

live == {c \in Cells : cell[c] # None}

(* The allocated cells of memory mem met on the way from pointer p along   *)
(* next; no more of them than there are cells.                             *)
WalkIn(mem, p) ==
  LET from[k \in 0..Cardinality(Cells)] ==
        [at \in Cells \cup {None} |->
           IF k = 0 \/ at = None \/ mem[at] = None THEN <<>>
           ELSE <<at>> \o from[k - 1][mem[at].next]]
  IN from[Cardinality(Cells)][p]

Walk(p) == WalkIn(cell, p)

First(s) == CHOOSE i \in s : \A j \in s : i <= j

(* Mistake: one pass, the first route that matches in any way. *)
Find_OnePass(list, t, u) ==
  LET match == {i \in 1..Len(list) :
                  /\ cell[list[i]].type = t
                  /\ cell[list[i]].uri = u \/ <<cell[list[i]].uri, u>> \in Beneath \cup Globs}
  IN IF match = {} THEN None ELSE cell[list[First(match)]].handler

(* get_request_handler: the exact route, or else the first one the URI     *)
(* lies beneath, or else the first whose pattern it matches.               *)
Find(list, t, u) ==
  LET match(r) == {i \in 1..Len(list) : cell[list[i]].type = t /\ r[cell[list[i]].uri]}
      exact == match([v \in Uris |-> v = u])
      partial == match([v \in Uris |-> <<v, u>> \in Beneath])
      pattern == match([v \in Uris |-> <<v, u>> \in Globs])
  IN IF exact # {} THEN cell[list[First(exact)]].handler
     ELSE IF partial # {} THEN cell[list[First(partial)]].handler
     ELSE IF pattern # {} THEN cell[list[First(pattern)]].handler
     ELSE None

HostList == Walk(head)
Found(t, u) == LET l == HostList
               IN {i \in 1..Len(l) : cell[l[i]].type = t /\ cell[l[i]].uri = u}
Protected(u) == Find(HostList, "auth", u) # None

(* What get_request_handler walks for a domain; that it begins at a cell   *)
(* that was freed.                                                         *)
PointerOf(d) == IF d = MainHost THEN head ELSE domHead[d]
Pointer(c) == PointerOf(request[c].domain)
Dangling(p) == p # None /\ p \notin live

Matches(v, u) == v = u \/ <<v, u>> \in Beneath \cup Globs

(* On the list from p an authorization route other than gone covers u. *)
GuardedBut(p, u, gone) ==
  \E i \in 1..Len(Walk(p)) : LET at == Walk(p)[i]
                            IN at # gone /\ cell[at].type = "auth" /\ Matches(cell[at].uri, u)

-----------------------------------------------------------------------------
Init ==
  /\ cell = [c \in Cells |-> None]
  /\ head = None
  /\ domHead = [d \in Domains |-> None]
  /\ domState = [d \in Domains |-> "absent"]
  /\ alike = {}
  /\ request = [c \in Conns |-> Idle]
  /\ freed = FALSE

(* Mistake: an update clears the handler. *)
UpdateRoute_Clears(t, u, h) ==
  /\ ~ freed
  /\ Found(t, u) # {}
  /\ cell' = [cell EXCEPT ![HostList[First(Found(t, u))]].handler = None]
  /\ UNCHANGED <<head, domains, request, freed>>

(* set_handler_type for a route that is there: update in place. *)
UpdateRoute(t, u, h) ==
  /\ ~ freed
  /\ Found(t, u) # {}
  /\ cell' = [cell EXCEPT ![HostList[First(Found(t, u))]].handler = h]
  /\ UNCHANGED <<head, domains, request, freed>>

(* Mistake: the new cell is put in front. *)
AddRoute_Prepends(t, u, h) ==
  /\ ~ freed
  /\ Found(t, u) = {}
  /\ \E c \in Cells \ live :
       /\ cell' = [cell EXCEPT ![c] = [type |-> t, uri |-> u, handler |-> h, next |-> head]]
       /\ head' = c
  /\ UNCHANGED <<domains, request, freed>>

(* ... for one that is not: append a new cell. *)
AddRoute(t, u, h) ==
  /\ ~ freed
  /\ Found(t, u) = {}
  /\ \E c \in Cells \ live :
       LET new == [type |-> t, uri |-> u, handler |-> h, next |-> None]
       IN IF HostList = <<>>
          THEN head' = c /\ cell' = [cell EXCEPT ![c] = new]
          ELSE /\ cell' = [cell EXCEPT ![HostList[Len(HostList)]].next = c, ![c] = new]
               /\ UNCHANGED head
  /\ UNCHANGED <<domains, request, freed>>

(* Mistake: the predecessor is not relinked. *)
RemoveRoute_Unlinked(t, u) ==
  /\ ~ freed
  /\ Found(t, u) # {}
  /\ LET gone == HostList[First(Found(t, u))]
     IN /\ head' = IF head = gone THEN cell[gone].next ELSE head
        /\ cell' = [cell EXCEPT ![gone] = None]
  /\ UNCHANGED <<domains, request, freed>>

(* ... with is_delete_request: unlink and free. *)
RemoveRoute(t, u) ==
  /\ ~ freed
  /\ Found(t, u) # {}
  /\ LET i == First(Found(t, u))
         gone == HostList[i]
         stays(r) == /\ r.domain \in Domains => domHead[r.domain] # gone
                     /\ GuardedBut(PointerOf(r.domain), r.uri, gone)
     IN /\ IF i = 1
           THEN head' = cell[gone].next /\ cell' = [cell EXCEPT ![gone] = None]
           ELSE /\ cell' = [cell EXCEPT ![HostList[i - 1]].next = cell[gone].next, ![gone] = None]
                /\ UNCHANGED head
        /\ request' = [c \in Conns |-> [request[c] EXCEPT !.guarded = @ /\ stays(request[c])]]
        /\ alike' = IF i = 1 THEN {} ELSE alike
  /\ UNCHANGED <<domHead, domState, freed>>

(* http_add_domain copies the head pointer before it takes the lock ... *)
BuildDomain(d) ==
  /\ ~ freed
  /\ domState[d] = "absent"
  /\ domState' = [domState EXCEPT ![d] = "built"]
  /\ domHead' = [domHead EXCEPT ![d] = head]
  /\ alike' = IF head = None THEN alike ELSE alike \cup {d}
  /\ UNCHANGED <<registry, request, freed>>

(* ... and links the domain under it. *)
LinkDomain(d) ==
  /\ ~ freed
  /\ domState[d] = "built"
  /\ domState' = [domState EXCEPT ![d] = "linked"]
  /\ UNCHANGED <<registry, domHead, alike, request, freed>>

(* http_free_ini: the lock is cleared, the routes of the host and ctx are  *)
(* freed; http_stop calls it after a fixed delay, whatever requests do.    *)
FreeRoutes ==
  /\ ~ freed
  /\ freed' = TRUE
  /\ cell' = [c \in Cells |-> IF \E i \in 1..Len(HostList) : HostList[i] = c
                               THEN None ELSE cell[c]]
  /\ head' = None
  /\ UNCHANGED <<domains, request>>

(* A request that was being handled touches conn->ctx again. *)
UseFreed(c) ==
  /\ freed
  /\ request[c].pc \in {"lookup", "auth", "serve"}
  /\ request' = [request EXCEPT ![c] = Crashed]
  /\ UNCHANGED <<registry, domains, freed>>

-----------------------------------------------------------------------------
(* A request (http_switch_domain, then http_handle_request).               *)

(* Without a Host that names a domain, conn->domain stays what it was. *)
Chosen(c, host) ==
  IF host = MainHost \/ (host \in Domains /\ domState[host] = "linked")
  THEN host ELSE request[c].domain

BeginRequest(c, host, u) ==
  /\ ~ freed
  /\ request[c].pc = "idle"
  /\ request' = [request EXCEPT
       ![c] = [Idle EXCEPT !.pc = "lookup", !.uri = u, !.domain = Chosen(c, host),
                           !.guarded = GuardedBut(PointerOf(Chosen(c, host)), u, None)]]
  /\ UNCHANGED <<registry, domains, freed>>

(* What may answer before any route is looked up and whatever they say:    *)
(* the redirection to https, the callback "handler" of the program, and    *)
(* the answer to a CORS preflight.                                         *)
AnswerEarly(c) ==
  /\ ~ freed
  /\ request[c].pc = "lookup"
  /\ request' = [request EXCEPT ![c] = Done(c)]
  /\ UNCHANGED <<registry, domains, freed>>

(* Mistake: a request with a callback skips the authorization check. *)
LookUp_Unchecked(c) ==
  /\ ~ freed
  /\ request[c].pc = "lookup"
  /\ request' = [request EXCEPT
       ![c] = LET found == IF Dangling(Pointer(c)) THEN None
                           ELSE Find(Walk(Pointer(c)), "request", request[c].uri)
              IN [@ EXCEPT !.pc = IF found = None THEN "auth" ELSE "serve", !.callback = found]]
  /\ UNCHANGED <<registry, domains, freed>>

(* get_request_handler on the domain's list; a freed cell at its start is  *)
(* undefined behaviour, taken here as the end of the coroutine.            *)
LookUp(c) ==
  /\ ~ freed
  /\ request[c].pc = "lookup"
  /\ request' = [request EXCEPT
       ![c] = IF Dangling(Pointer(c)) THEN Crashed
              ELSE [@ EXCEPT !.pc = "auth", !.callback = Find(Walk(Pointer(c)), "request", request[c].uri)]]
  /\ UNCHANGED <<registry, domains, freed>>

(* The authorization check: a handler decides, without one a callback is   *)
(* served unchecked and a file goes by its password files.  A file may     *)
(* also be refused before it, where WebDAV is not enabled.                 *)
Authorize(c) ==
  /\ ~ freed
  /\ request[c].pc = "auth"
  /\ \/ /\ Dangling(Pointer(c))
        /\ request' = [request EXCEPT ![c] = Crashed]
     \/ /\ ~ Dangling(Pointer(c))
        /\ Find(Walk(Pointer(c)), "auth", request[c].uri) # None
        /\ \E ok \in BOOLEAN :
             request' = [request EXCEPT ![c] = IF ok THEN [@ EXCEPT !.pc = "serve", !.auth = "accepted"]
                                               ELSE Done(c)]
     \/ /\ ~ Dangling(Pointer(c))
        /\ Find(Walk(Pointer(c)), "auth", request[c].uri) = None
        /\ request' = [request EXCEPT ![c].pc = "serve", ![c].auth = "none"]
     \/ /\ request[c].callback = None
        /\ request' = [request EXCEPT ![c] = Done(c)]
  /\ UNCHANGED <<registry, domains, freed>>

(* The callback serves the request, or declines, which sends it back to be *)
(* authorized as a file; without a callback the file is served.            *)
Serve(c) ==
  /\ ~ freed
  /\ request[c].pc = "serve"
  /\ \/ request' = [request EXCEPT ![c] = Done(c)]
     \/ /\ request[c].callback # None
        /\ request' = [request EXCEPT ![c].pc = "auth", ![c].callback = None]
  /\ UNCHANGED <<registry, domains, freed>>

-----------------------------------------------------------------------------
Editing == \E key \in Keys :
             \/ RemoveRoute(key[1], key[2])
             \/ \E h \in Handlers : AddRoute(key[1], key[2], h) \/ UpdateRoute(key[1], key[2], h)
Adding == \E d \in Domains : BuildDomain(d) \/ LinkDomain(d)
Requesting == \E c \in Conns :
                \/ \E host \in Domains \cup {MainHost, None}, u \in Asked : BeginRequest(c, host, u)
                \/ AnswerEarly(c) \/ LookUp(c) \/ Authorize(c) \/ Serve(c) \/ UseFreed(c)

Next == Editing \/ Adding \/ FreeRoutes \/ Requesting

Spec == Init /\ [][Next]_vars

-----------------------------------------------------------------------------
(* The registry keeps the shape of its structures. *)
TypeOK ==
  /\ cell \in [Cells -> Route \cup {None}]
  /\ head \in Cells \cup {None}
  /\ domHead \in [Domains -> Cells \cup {None}]
  /\ domState \in [Domains -> {"absent", "built", "linked"}]
  /\ alike \subseteq Domains
  /\ request \in [Conns -> [pc : {"idle", "lookup", "auth", "serve", "crashed"},
                            domain : Domains \cup {MainHost}, uri : Uris \cup {None},
                            callback : Handlers \cup {None}, auth : {"none", "accepted"},
                            guarded : BOOLEAN]]
  /\ freed \in BOOLEAN

(* Unlinking, appending and freeing leave one chain from the head that     *)
(* holds every allocated route exactly once and ends in NULL: nothing      *)
(* leaks, no freed cell is reachable, no type and URI are there twice.     *)
ChainIntact ==
  LET l == HostList
  IN /\ {l[i] : i \in 1..Len(l)} = live
     /\ Len(l) = Cardinality(live)
     /\ live = {} => head = None
     /\ live # {} => cell[l[Len(l)]].next = None
     /\ \A i, j \in 1..Len(l) :
          cell[l[i]].type = cell[l[j]].type /\ cell[l[i]].uri = cell[l[j]].uri => i = j

(* The list implements a table of routes. *)
HostRoutes == LET l == HostList
              IN [i \in 1..Len(l) |-> [type |-> cell[l[i]].type, uri |-> cell[l[i]].uri,
                                       handler |-> cell[l[i]].handler]]
Table == INSTANCE RouteTable WITH routes <- HostRoutes
ImplementsTable == Table!Spec

(* A request for a URI that has a route of its own is given that route,    *)
(* whatever prefixes and patterns were registered before it.               *)
ExactRouteWins ==
  [][\A c \in Conns :
       /\ request[c].pc = "lookup" /\ request'[c].pc = "auth" /\ request[c].domain = MainHost
       /\ Found("request", request[c].uri) # {}
       => request'[c].callback = cell[HostList[First(Found("request", request[c].uri))]].handler]_vars

(* While the list that a request walks, that of the main host or of an     *)
(* added domain, protects its URI by an authorization route from its       *)
(* arrival on, a route or a file is served to it only when a handler has   *)
(* accepted it, also after a callback declined, and whatever domain an     *)
(* earlier request of the connection had chosen.  (What AnswerEarly sends  *)
(* comes before the check and is outside of this.)                         *)
ProtectedIsChecked ==
  \A c \in Conns :
    request[c].pc = "serve" /\ request[c].guarded => request[c].auth = "accepted"

(* A domain answers as the main host does, as long as the route that was   *)
(* first when http_add_domain copied the head remains first: a request is  *)
(* given the callback the host has for it, is authorized when and only     *)
(* when the host protects the URI, and meets no freed route, whatever      *)
(* routes were set, updated and deleted behind the first since the copy.   *)
DomainAnswersAlike ==
  [][\A c \in Conns :
       request[c].domain \in alike /\ ~ freed =>
         /\ request[c].pc # "crashed" => request'[c].pc # "crashed"
         /\ request[c].pc = "lookup" /\ request'[c].pc = "auth" =>
              request'[c].callback = Find(HostList, "request", request[c].uri)
         /\ request[c].pc = "auth" /\ request'[c].pc = "serve" =>
              (request'[c].auth = "accepted" <=> Protected(request[c].uri))]_vars

(* "Add an additional domain to an already running web server": while the  *)
(* server runs, no request walks a list that starts in freed memory.       *)
NoFreedRoute == \A c \in Conns : request[c].pc = "crashed" => freed
=============================================================================
