----------------------------- MODULE RouteTable -----------------------------
(***************************************************************************)
(* What the route registry promises its callers: one handler for each pair *)
(* of a handler type and a URI, kept in the order in which the pairs were  *)
(* first registered; setting a registered pair replaces its handler where  *)
(* it stands.  RouteRegistry implements it with a linked list.             *)
(***************************************************************************)
EXTENDS Naturals, Sequences

CONSTANTS Types, Uris, Handlers

VARIABLE routes

Init == routes = <<>>

(* A request looks a route up. *)
LookUp == UNCHANGED routes

(* A pair that is not registered yet. *)
Distinct(s) == \A i, j \in 1..Len(s) : s[i].type = s[j].type /\ s[i].uri = s[j].uri => i = j

Add ==
  \E new \in [type : Types, uri : Uris, handler : Handlers] :
    /\ routes' = Append(routes, new)
    /\ Distinct(routes')

Replace ==
  \E i \in 1..Len(routes), h \in Handlers : routes' = [routes EXCEPT ![i].handler = h]

Remove ==
  \E i \in 1..Len(routes) :
    routes' = SubSeq(routes, 1, i - 1) \o SubSeq(routes, i + 1, Len(routes))

Clear == routes' = <<>>

Next == LookUp \/ Add \/ Replace \/ Remove \/ Clear

Spec == Init /\ [][Next]_routes
=============================================================================
