------------------------- MODULE RouteRegistryProofs -------------------------
(***************************************************************************)
(* Theorems about RouteRegistry, for any types, URIs, handlers, cells,     *)
(* domains and connections: the routes are one chain that implements       *)
(* RouteTable, a route or a file of a protected URI is served only once    *)
(* accepted, and a domain answers as the host while the first route stays. *)
(***************************************************************************)
EXTENDS RouteRegistry, FiniteSetTheorems, FunctionTheorems, SequenceTheorems,
        WellFoundedInduction, TLAPS

LEMMA LeastOfSome ==
  ASSUME NEW s \in SUBSET Nat, s # {}
  PROVE  \E i \in s : \A j \in s : i <= j
<1>1. IsWellFoundedOn({r \in Nat \X Nat : r[1] < r[2]}, Nat)
  BY NatLessThanWellFounded DEF OpToRel
<1>2. PICK i \in s : \A j \in s : ~ (<<j, i>> \in {r \in Nat \X Nat : r[1] < r[2]})
  BY <1>1, WFMin
<1>3. \A j \in s : ~ (j < i) BY <1>2
<1> QED BY <1>3

LEMMA FirstIsFirst ==
  ASSUME NEW s \in SUBSET Nat, s # {}
  PROVE  First(s) \in s /\ \A j \in s : First(s) <= j
BY LeastOfSome DEF First

-----------------------------------------------------------------------------
(* The recursion of a walk.                                                *)

Depth == Cardinality(Cells)
Pointers == Cells \cup {None}

Row(mem, k, prev) ==
  [at \in Pointers |->
     IF k = 0 \/ at = None \/ mem[at] = None THEN <<>> ELSE <<at>> \o prev[mem[at].next]]

Rows(mem) == CHOOSE g : g = [k \in 0..Depth |-> Row(mem, k, g[k - 1])]

LEMMA DepthType == Depth \in Nat
BY RegistryConstants, FS_CardinalityType DEF RegistryConstants, Depth

LEMMA RowZero == ASSUME NEW mem, NEW p, NEW q PROVE Row(mem, 0, p) = Row(mem, 0, q)
BY DEF Row

(* There are rows as far as any m: for the least m without, those of m - 1 *)
(* and one more would do.                                                  *)
Upto(mem, f, m) == \A k \in 0..m : f[k] = Row(mem, k, f[k - 1])

LEMMA RowsUpto == ASSUME NEW mem, NEW n \in 0..Depth PROVE \E f : Upto(mem, f, n)
<1> DEFINE Bad == {m \in 0..Depth : ~ \E f : Upto(mem, f, m)}
<1> SUFFICES ASSUME Bad # {} PROVE FALSE OBVIOUS
<1>1. Bad \in SUBSET Nat BY DepthType
<1>2. PICK m \in Bad : \A j \in Bad : m <= j
  <2> HIDE DEF Bad
  <2> QED BY <1>1, LeastOfSome
<1>3. m \in 0..Depth /\ m \in Nat /\ ~ \E f : Upto(mem, f, m) BY DepthType
<1>4. CASE m = 0
  <2> DEFINE f == [k \in {0} |-> Row(mem, 0, <<>>)]
  <2>1. f[0] = Row(mem, 0, <<>>) OBVIOUS
  <2> HIDE DEF f
  <2>2. f[0] = Row(mem, 0, f[0 - 1]) BY <2>1, RowZero
  <2>3. Upto(mem, f, 0) BY <2>2 DEF Upto
  <2> QED BY <1>3, <1>4, <2>3
<1>5. CASE m > 0
  <2>1. m - 1 \in 0..Depth /\ m - 1 \notin Bad BY <1>2, <1>3, <1>5, DepthType
  <2>2. PICK g : Upto(mem, g, m - 1) BY <2>1
  <2> DEFINE h == [k \in 0..m |-> IF k = m THEN Row(mem, m, g[m - 1]) ELSE g[k]]
  <2>3. h[m] = Row(mem, m, g[m - 1]) /\ \A k \in 0..m - 1 : h[k] = g[k] BY <1>3
  <2> HIDE DEF h
  <2>4. m - 1 \in 0..m - 1 BY <1>3, <1>5
  <2>5. h[m] = Row(mem, m, h[m - 1]) BY <2>3, <2>4
  <2>6. ASSUME NEW k \in 0..m - 1 PROVE h[k] = Row(mem, k, h[k - 1])
    <3>1. h[k] = Row(mem, k, g[k - 1]) BY <2>2, <2>3 DEF Upto
    <3>2. CASE k = 0 BY <3>1, <3>2, RowZero
    <3>3. CASE k > 0
      <4>1. k - 1 \in 0..m - 1 BY <1>3, <3>3
      <4> QED BY <2>3, <3>1, <4>1
    <3> QED BY <1>3, <3>2, <3>3
  <2>7. \A k \in 0..m : k = m \/ k \in 0..m - 1 BY <1>3
  <2>8. Upto(mem, h, m) BY <2>5, <2>6, <2>7 DEF Upto
  <2> QED BY <1>3, <2>8
<1> QED BY <1>3, <1>4, <1>5

LEMMA RowsExist ==
  ASSUME NEW mem
  PROVE  \E g : g = [k \in 0..Depth |-> Row(mem, k, g[k - 1])]
<1>1. PICK f : Upto(mem, f, Depth) BY RowsUpto, DepthType
<1> DEFINE g == [k \in 0..Depth |-> f[k]]
<1>2. ASSUME NEW k \in 0..Depth PROVE g[k] = Row(mem, k, g[k - 1])
  <2>1. g[k] = Row(mem, k, f[k - 1]) BY <1>1 DEF Upto
  <2>2. CASE k = 0
    <3> HIDE DEF g
    <3> QED BY <2>1, <2>2, RowZero
  <2>3. CASE k > 0
    <3>1. k - 1 \in 0..Depth BY <2>3, DepthType
    <3>2. g[k - 1] = f[k - 1] BY <3>1
    <3> HIDE DEF g
    <3> QED BY <2>1, <3>2
  <2> QED BY <2>2, <2>3, DepthType
<1>3. g = [k \in 0..Depth |-> g[k]] OBVIOUS
<1> HIDE DEF g
<1>4. g = [k \in 0..Depth |-> Row(mem, k, g[k - 1])] BY <1>2, <1>3
<1> QED BY <1>4

LEMMA RowsUnfold ==
  ASSUME NEW mem, NEW k \in 0..Depth PROVE Rows(mem)[k] = Row(mem, k, Rows(mem)[k - 1])
<1>1. Rows(mem) = [n \in 0..Depth |-> Row(mem, n, Rows(mem)[n - 1])]
  BY RowsExist DEF Rows
<1> QED BY <1>1

LEMMA WalkIsRow == ASSUME NEW mem, NEW p PROVE WalkIn(mem, p) = Rows(mem)[Depth][p]
BY DEF WalkIn, Rows, Row, Depth, Pointers

(* s is the list from pointer p in memory mem, which ends in NULL.         *)
Linked(mem, s, p) ==
  /\ s \in Seq(Cells)
  /\ \A i \in 1..Len(s) : mem[s[i]] # None
                          /\ mem[s[i]].next = IF i < Len(s) THEN s[i + 1] ELSE None
  /\ \A i, j \in 1..Len(s) : s[i] = s[j] => i = j
  /\ p = IF Len(s) = 0 THEN None ELSE s[1]

LEMMA ListFits ==
  ASSUME NEW mem, NEW s, NEW p, Linked(mem, s, p) PROVE Len(s) \in 0..Depth
<1>1. s \in Seq(Cells) /\ Len(s) \in Nat /\ s \in [1..Len(s) -> Cells]
  BY LenProperties DEF Linked
<1>2. s \in Injection(1..Len(s), Cells) BY <1>1, Fun_IsInj DEF Linked
<1>3. IsFiniteSet(Cells) BY RegistryConstants DEF RegistryConstants
<1>4. Cardinality(1..Len(s)) <= Cardinality(Cells) BY <1>2, <1>3, FS_Injection
<1>5. Cardinality(1..Len(s)) = Len(s) BY <1>1, FS_Interval
<1> QED BY <1>1, <1>4, <1>5, DepthType DEF Depth

LEMMA RowOfNone == ASSUME NEW mem, NEW k \in 0..Depth PROVE Rows(mem)[k][None] = <<>>
<1>1. Rows(mem)[k] = Row(mem, k, Rows(mem)[k - 1]) BY RowsUnfold
<1>2. None \in Pointers BY DEF Pointers
<1> QED BY <1>1, <1>2 DEF Row

(* A row that is deep enough has the rest of a list for each of its cells. *)
LEMMA RowOfList ==
  ASSUME NEW mem, NEW s, NEW p, Linked(mem, s, p),
         NEW n \in 0..Depth, NEW j \in 1..Len(s), Len(s) - j + 1 <= n
  PROVE  Rows(mem)[n][s[j]] = SubSeq(s, j, Len(s))
<1> DEFINE Holds(k) == \A i \in 1..Len(s) :
                         Len(s) - i + 1 <= k => Rows(mem)[k][s[i]] = SubSeq(s, i, Len(s))
           Bad == {k \in 0..Depth : ~ Holds(k)}
<1> SUFFICES ASSUME Bad # {} PROVE FALSE
  <2>1. n \notin Bad => Holds(n) OBVIOUS
  <2> QED BY <2>1
<1>1. Bad \in SUBSET Nat BY DepthType
<1>2. PICK k \in Bad : \A m \in Bad : k <= m
  <2> HIDE DEF Bad
  <2> QED BY <1>1, LeastOfSome
<1>3. k \in 0..Depth /\ k \in Nat /\ ~ Holds(k)
  <2>1. k \in 0..Depth /\ ~ Holds(k) OBVIOUS
  <2> HIDE DEF Holds, Bad
  <2> QED BY <2>1, DepthType
<1>4. s \in Seq(Cells) /\ Len(s) \in Nat BY DEF Linked
<1>5. ASSUME NEW i \in 1..Len(s), Len(s) - i + 1 <= k
      PROVE  Rows(mem)[k][s[i]] = SubSeq(s, i, Len(s))
  <2>1. k > 0 BY <1>3, <1>4, <1>5
  <2>2. k - 1 \in 0..Depth /\ k - 1 \notin Bad
    <3> HIDE DEF Bad
    <3>1. k - 1 \in 0..Depth /\ ~ (k <= k - 1) BY <1>3, <2>1, DepthType
    <3> QED BY <1>2, <3>1
  <2>3. \A i0 \in 1..Len(s) :
          Len(s) - i0 + 1 <= k - 1 => Rows(mem)[k - 1][s[i0]] = SubSeq(s, i0, Len(s))
    BY <2>2
  <2> HIDE DEF Holds
  <2>4. s[i] \in Cells /\ mem[s[i]] # None /\ s[i] # None /\ s[i] \in Pointers
    BY <1>4, ElementOfSeq, RegistryConstants DEF Linked, RegistryConstants, Pointers
  <2>5. Rows(mem)[k][s[i]] = <<s[i]>> \o Rows(mem)[k - 1][mem[s[i]].next]
    <3>1. Rows(mem)[k] = Row(mem, k, Rows(mem)[k - 1]) BY <1>3, RowsUnfold
    <3>2. k # 0 BY <1>3, <2>1
    <3> HIDE DEF Bad
    <3> QED BY <2>4, <3>1, <3>2 DEF Row
  <2>6. Rows(mem)[k - 1][mem[s[i]].next] = SubSeq(s, i + 1, Len(s))
    <3>1. CASE i < Len(s)
      <4>1. mem[s[i]].next = s[i + 1] BY <3>1 DEF Linked
      <4>2. i + 1 \in 1..Len(s) /\ Len(s) - (i + 1) + 1 <= k - 1 BY <1>3, <1>4, <1>5, <3>1
      <4> QED BY <2>3, <4>1, <4>2
    <3>2. CASE i = Len(s)
      <4>1. mem[s[i]].next = None BY <3>2 DEF Linked
      <4>2. SubSeq(s, i + 1, Len(s)) = <<>> BY <1>4, <3>2, SubSeqEmpty
      <4> QED BY <2>2, <4>1, <4>2, RowOfNone
    <3> QED BY <1>4, <3>1, <3>2
  <2>7. SubSeq(s, i, Len(s)) = <<s[i]>> \o SubSeq(s, i + 1, Len(s))
    <3>1. Len(s) \in i..Len(s) BY <1>4
    <3> QED BY <1>4, <3>1, SubSeqRecursiveFirst
  <2> QED BY <2>5, <2>6, <2>7
<1> QED BY <1>3, <1>5

LEMMA WalkOfList ==
  ASSUME NEW mem, NEW s, NEW p, Linked(mem, s, p) PROVE WalkIn(mem, p) = s
<1>1. s \in Seq(Cells) /\ Len(s) \in 0..Depth BY ListFits DEF Linked
<1>2. Depth \in 0..Depth BY DepthType
<1>3. CASE Len(s) = 0
  <2>1. p = None /\ s = <<>> BY <1>1, <1>3, EmptySeq DEF Linked
  <2> QED BY <1>2, <2>1, WalkIsRow, RowOfNone
<1>4. CASE Len(s) # 0
  <2>1. p = s[1] /\ 1 \in 1..Len(s) BY <1>1, <1>4 DEF Linked
  <2>2. Len(s) - 1 + 1 <= Depth BY <1>1, DepthType
  <2>3. WalkIn(mem, p) = SubSeq(s, 1, Len(s)) BY <1>2, <2>1, <2>2, RowOfList, WalkIsRow
  <2> QED BY <1>1, <2>3, SubSeqFull
<1> QED BY <1>3, <1>4

(* From a cell of the list a walk meets the rest of it. *)
LEMMA WalkInside ==
  ASSUME NEW mem, NEW s, NEW p, Linked(mem, s, p), NEW i \in 1..Len(s)
  PROVE  WalkIn(mem, s[i]) = SubSeq(s, i, Len(s))
<1>1. Len(s) \in 0..Depth /\ Depth \in 0..Depth BY ListFits, DepthType
<1>2. Len(s) - i + 1 <= Depth BY <1>1
<1> QED BY <1>1, <1>2, RowOfList, WalkIsRow

-----------------------------------------------------------------------------
(* The edits of the list.                                                  *)

Memory == [Cells -> Route \cup {None}]
Covers(mem, s) == \A c \in Cells : mem[c] # None => \E i \in 1..Len(s) : s[i] = c
Keyed(mem, s) ==
  \A i, j \in 1..Len(s) :
    mem[s[i]].type = mem[s[j]].type /\ mem[s[i]].uri = mem[s[j]].uri => i = j

(* Every allocated route is once on the list of the host, under a type and *)
(* URI of its own.                                                         *)
ListInv ==
  /\ cell \in Memory /\ head \in Pointers
  /\ Linked(cell, HostList, head)
  /\ Covers(cell, HostList)
  /\ Keyed(cell, HostList)

LEMMA RouteFields ==
  ASSUME NEW r \in Route
  PROVE  /\ r.type \in Types /\ r.uri \in Uris /\ r.handler \in Handlers
         /\ r.next \in Pointers /\ r # None
BY NoneIsNoRoute DEF Route, Pointers

LEMMA OnList ==
  ASSUME NEW mem \in Memory, NEW s, NEW p, Linked(mem, s, p), NEW i \in 1..Len(s)
  PROVE  s[i] \in Cells /\ mem[s[i]] \in Route
<1>1. s \in Seq(Cells) /\ mem[s[i]] # None BY DEF Linked
<1>2. s[i] \in Cells BY <1>1, ElementOfSeq
<1> QED BY <1>1, <1>2 DEF Memory

LEMMA HostFacts ==
  ASSUME ListInv
  PROVE  /\ HostList \in Seq(Cells) /\ Len(HostList) \in Nat
         /\ \A i \in 1..Len(HostList) :
              HostList[i] \in Cells /\ cell[HostList[i]] \in Route /\ HostList[i] # None
BY OnList, RegistryConstants DEF ListInv, Linked, RegistryConstants

LEMMA NewList ==
  ASSUME NEW s, cell' \in Memory, head' \in Pointers,
         Linked(cell', s, head'), Covers(cell', s), Keyed(cell', s)
  PROVE  ListInv' /\ HostList' = s
<1>1. HostList' = s BY WalkOfList DEF HostList, Walk
<1> QED BY <1>1 DEF ListInv, Linked, Covers, Keyed, Memory, Pointers, Route

LEMMA FoundFacts ==
  ASSUME ListInv, NEW t, NEW u, Found(t, u) # {}
  PROVE  /\ First(Found(t, u)) \in 1..Len(HostList)
         /\ cell[HostList[First(Found(t, u))]].type = t
         /\ cell[HostList[First(Found(t, u))]].uri = u
<1>1. Found(t, u) \in SUBSET (1..Len(HostList)) BY DEF Found
<1>2. Found(t, u) \in SUBSET Nat BY <1>1, HostFacts
<1>3. First(Found(t, u)) \in Found(t, u) BY <1>2, FirstIsFirst
<1> QED BY <1>3 DEF Found

(* What a change of a handler, or of a link, leaves of a memory. *)
SameKeys(mem, new, s) ==
  \A i \in 1..Len(s) : new[s[i]].type = mem[s[i]].type /\ new[s[i]].uri = mem[s[i]].uri

LEMMA UpdateKeepsList ==
  ASSUME ListInv, NEW t, NEW u, NEW h \in Handlers, UpdateRoute(t, u, h)
  PROVE  /\ ListInv' /\ HostList' = HostList
         /\ SameKeys(cell, cell', HostList)
         /\ \E i \in 1..Len(HostList) :
              \A j \in 1..Len(HostList) :
                cell'[HostList[j]].handler = IF j = i THEN h ELSE cell[HostList[j]].handler
<1> DEFINE i == First(Found(t, u))
<1>1. /\ Found(t, u) # {} /\ head' = head
      /\ cell' = [cell EXCEPT ![HostList[i]].handler = h]
  BY DEF UpdateRoute
<1>2. i \in 1..Len(HostList) BY <1>1, FoundFacts
<1> HIDE DEF i
<1> DEFINE L == HostList  gone == L[i]
<1>3. /\ L \in Seq(Cells) /\ Len(L) \in Nat /\ gone \in Cells /\ cell[gone] \in Route
      /\ \A j \in 1..Len(L) : L[j] \in Cells /\ cell[L[j]] \in Route
      /\ cell \in Memory /\ head \in Pointers
      /\ Linked(cell, L, head) /\ Covers(cell, L) /\ Keyed(cell, L)
  BY <1>2, HostFacts DEF ListInv
<1>4. cell' = [cell EXCEPT ![gone].handler = h] BY <1>1
<1> HIDE DEF L, gone
<1>5. cell' = [c \in Cells |-> IF c = gone THEN [cell[gone] EXCEPT !.handler = h] ELSE cell[c]]
  BY <1>3, <1>4 DEF Memory
<1> DEFINE r == [cell[gone] EXCEPT !.handler = h]
<1>6. /\ r \in Route /\ r.next = cell[gone].next /\ r.type = cell[gone].type
      /\ r.uri = cell[gone].uri /\ r.handler = h
  BY <1>3 DEF Route
<1> HIDE DEF r
<1>7. \A c \in Cells : cell'[c] = IF c = gone THEN r ELSE cell[c] BY <1>5 DEF r
<1>8. cell' \in Memory BY <1>3, <1>5, <1>6 DEF Memory, r
<1>9. \A c \in Cells : /\ cell'[c] = None <=> cell[c] = None
                       /\ cell[c] # None => /\ cell'[c].next = cell[c].next
                                            /\ cell'[c].type = cell[c].type
                                            /\ cell'[c].uri = cell[c].uri
  BY <1>3, <1>6, <1>7, NoneIsNoRoute
<1>10. /\ \A j \in 1..Len(L) : cell[L[j]] # None
       /\ SameKeys(cell, cell', L)
  BY <1>3, <1>9, NoneIsNoRoute DEF SameKeys
<1>11. Linked(cell', L, head') BY <1>1, <1>3, <1>9, <1>10 DEF Linked
<1>12. Covers(cell', L) BY <1>3, <1>9 DEF Covers
<1>13. Keyed(cell', L) BY <1>3, <1>10 DEF Keyed, SameKeys
<1>14. ListInv' /\ HostList' = L BY <1>1, <1>3, <1>8, <1>11, <1>12, <1>13, NewList
<1>15. \A j \in 1..Len(L) : cell'[L[j]].handler = IF j = i THEN h ELSE cell[L[j]].handler
  <2>1. \A j \in 1..Len(L) : L[j] = gone <=> j = i BY <1>2, <1>3 DEF Linked, gone, L
  <2> QED BY <1>3, <1>6, <1>7, <2>1
<1> QED BY <1>2, <1>10, <1>14, <1>15 DEF L

(* What an edit leaves of the route in a cell, its link apart. *)
SameRoute(r, q) == q.type = r.type /\ q.uri = r.uri /\ q.handler = r.handler

LEMMA AddKeepsList ==
  ASSUME ListInv, NEW t \in Types, NEW u \in Uris, NEW h \in Handlers, AddRoute(t, u, h)
  PROVE  /\ ListInv'
         /\ \E c \in Cells :
              /\ HostList' = Append(HostList, c)
              /\ cell'[c].type = t /\ cell'[c].uri = u /\ cell'[c].handler = h
         /\ \A i \in 1..Len(HostList) : SameRoute(cell[HostList[i]], cell'[HostList[i]])
<1> DEFINE L == HostList  n == Len(L)  new(c) == [type |-> t, uri |-> u, handler |-> h, next |-> None]
<1>1. PICK c \in Cells \ live :
        IF L = <<>>
        THEN head' = c /\ cell' = [cell EXCEPT ![c] = new(c)]
        ELSE cell' = [cell EXCEPT ![L[n]].next = c, ![c] = new(c)] /\ head' = head
  BY DEF AddRoute
<1>2. /\ L \in Seq(Cells) /\ n \in Nat
      /\ \A j \in 1..n : L[j] \in Cells /\ cell[L[j]] \in Route
      /\ cell \in Memory /\ head \in Pointers
      /\ Linked(cell, L, head) /\ Covers(cell, L) /\ Keyed(cell, L)
  BY HostFacts DEF ListInv
<1>3. /\ new(c) \in Route /\ new(c).type = t /\ new(c).uri = u /\ new(c).handler = h
      /\ new(c).next = None
  BY DEF Route
<1>4. c \in Cells /\ cell[c] = None /\ \A j \in 1..n : L[j] # c
  BY <1>1, <1>2, NoneIsNoRoute DEF live
<1>5. ~ \E j \in 1..n : cell[L[j]].type = t /\ cell[L[j]].uri = u
  <2>1. Found(t, u) = {} BY DEF AddRoute
  <2> QED BY <2>1 DEF Found
<1> DEFINE N == new(c)
<1>6. /\ cell' \in Memory /\ head' \in Pointers /\ cell'[c] = N
      /\ \A d \in Cells : d # c => /\ cell'[d] = None <=> cell[d] = None
                                   /\ cell[d] # None => SameRoute(cell[d], cell'[d])
      /\ \A j \in 1..n : cell'[L[j]].next = IF j = n THEN c ELSE cell[L[j]].next
      /\ head' = IF n = 0 THEN c ELSE head
  <2> HIDE DEF L, N
  <2>1. CASE L = <<>>
    <3>1. n = 0 /\ cell' = [cell EXCEPT ![c] = N] /\ head' = c BY <1>1, <2>1 DEF N
    <3>2. cell' = [d \in Cells |-> IF d = c THEN N ELSE cell[d]] BY <1>2, <3>1 DEF Memory
    <3>3. cell' \in Memory /\ head' \in Pointers
      BY <1>2, <1>3, <1>4, <3>1, <3>2 DEF Memory, Pointers, N
    <3> QED BY <1>4, <3>1, <3>2, <3>3 DEF SameRoute
  <2>2. CASE L # <<>>
    <3>1. n # 0 BY <1>2, <2>2, EmptySeq
    <3>2. n \in 1..n BY <1>2, <3>1
    <3> DEFINE last == L[n]  R == [cell[last] EXCEPT !.next = c]
    <3>3. last \in Cells /\ cell[last] \in Route /\ last # c BY <1>2, <1>4, <3>2
    <3>4. cell' = [cell EXCEPT ![last].next = c, ![c] = N] /\ head' = head
      BY <1>1, <2>2 DEF N
    <3>5. R \in Route /\ R.next = c /\ SameRoute(cell[last], R)
      <4> HIDE DEF last
      <4> QED BY <1>4, <3>3 DEF Route, SameRoute
    <3>6. \A j \in 1..n : L[j] = last <=> j = n BY <1>2, <3>2 DEF Linked
    <3> HIDE DEF last
    <3>7. cell' = [d \in Cells |-> IF d = c THEN N ELSE IF d = last THEN R ELSE cell[d]]
      BY <1>2, <1>4, <3>3, <3>4 DEF Memory
    <3> HIDE DEF R
    <3>8. cell' \in Memory /\ head' \in Pointers
      BY <1>2, <1>3, <3>4, <3>5, <3>7 DEF Memory, N
    <3>9. /\ cell'[c] = N
          /\ \A d \in Cells : d # c => cell'[d] = IF d = last THEN R ELSE cell[d]
      BY <1>4, <3>7
    <3>10. R # None /\ cell[last] # None BY <3>3, <3>5, NoneIsNoRoute
    <3>11. \A d \in Cells : d # c => /\ cell'[d] = None <=> cell[d] = None
                                     /\ cell[d] # None => SameRoute(cell[d], cell'[d])
      BY <3>5, <3>9, <3>10 DEF SameRoute
    <3>12. \A j \in 1..n : cell'[L[j]].next = IF j = n THEN c ELSE cell[L[j]].next
      BY <1>2, <1>4, <3>5, <3>6, <3>9
    <3> QED BY <3>1, <3>4, <3>8, <3>9, <3>11, <3>12
  <2> QED BY <2>1, <2>2
<1> DEFINE s == Append(L, c)
<1>7. /\ s \in Seq(Cells) /\ Len(s) = n + 1 /\ s[n + 1] = c
      /\ \A j \in 1..n : s[j] = L[j] /\ s[j] # c
  BY <1>2, <1>4, AppendProperties
<1> HIDE DEF L, n, N, s
<1>8. \A j \in 1..n : cell'[s[j]] # None /\ SameRoute(cell[L[j]], cell'[s[j]])
  BY <1>2, <1>4, <1>6, <1>7, NoneIsNoRoute
<1>9. N \in Route /\ N # None /\ N.type = t /\ N.uri = u /\ N.handler = h /\ N.next = None
  BY <1>3, NoneIsNoRoute DEF N
<1>10. \A j \in 1..n + 1 : j = n + 1 \/ j \in 1..n BY <1>2
<1>11. Linked(cell', s, head')
  <2>1. ASSUME NEW j \in 1..Len(s)
        PROVE  cell'[s[j]] # None /\ cell'[s[j]].next = IF j < Len(s) THEN s[j + 1] ELSE None
    <3>1. CASE j = n + 1 BY <1>6, <1>7, <1>9, <3>1
    <3>2. CASE j \in 1..n - 1
      <4>1. j \in 1..n /\ j + 1 \in 1..n /\ j # n /\ j < n /\ j < n + 1 BY <1>2, <3>2
      <4>2. cell'[L[j]].next = cell[L[j]].next BY <1>6, <4>1
      <4>3. cell[L[j]].next = L[j + 1] BY <1>2, <4>1 DEF Linked, n
      <4> QED BY <1>7, <1>8, <4>1, <4>2, <4>3
    <3>3. CASE j = n
      <4>1. j \in 1..n /\ j < n + 1 BY <1>2, <1>7, <3>3
      <4> QED BY <1>6, <1>7, <1>8, <3>3, <4>1
    <3> QED BY <1>2, <1>7, <3>1, <3>2, <3>3
  <2>2. ASSUME NEW i \in 1..Len(s), NEW j \in 1..Len(s), s[i] = s[j] PROVE i = j
    <3>1. \A a, b \in 1..n : L[a] = L[b] => a = b BY <1>2 DEF Linked, n
    <3> QED BY <1>7, <1>10, <2>2, <3>1
  <2>3. head' = IF Len(s) = 0 THEN None ELSE s[1]
    <3>1. CASE n = 0 BY <1>6, <1>7, <3>1
    <3>2. CASE n # 0
      <4>1. 1 \in 1..n /\ n + 1 # 0 BY <1>2, <3>2
      <4>2. head = L[1] BY <1>2, <3>2 DEF Linked, n
      <4> QED BY <1>6, <1>7, <3>2, <4>1, <4>2
    <3> QED BY <3>1, <3>2
  <2> QED BY <1>7, <2>1, <2>2, <2>3 DEF Linked
<1>12. Covers(cell', s)
  <2> SUFFICES ASSUME NEW d \in Cells, cell'[d] # None PROVE \E i \in 1..Len(s) : s[i] = d
    BY DEF Covers
  <2>1. CASE d = c
    <3>1. n + 1 \in 1..Len(s) BY <1>2, <1>7
    <3> QED BY <1>7, <2>1, <3>1
  <2>2. CASE d # c
    <3>1. PICK i \in 1..n : L[i] = d BY <1>2, <1>6, <2>2 DEF Covers, n
    <3>2. i \in 1..Len(s) BY <1>2, <1>7
    <3> QED BY <1>7, <3>1, <3>2
  <2> QED BY <2>1, <2>2
<1>13. Keyed(cell', s)
  <2> SUFFICES ASSUME NEW i \in 1..Len(s), NEW j \in 1..Len(s),
                      cell'[s[i]].type = cell'[s[j]].type, cell'[s[i]].uri = cell'[s[j]].uri
               PROVE  i = j
    BY DEF Keyed
  <2>1. \A a, b \in 1..n :
          cell[L[a]].type = cell[L[b]].type /\ cell[L[a]].uri = cell[L[b]].uri => a = b
    BY <1>2 DEF Keyed, n
  <2>2. \A a \in 1..n : ~ (cell[L[a]].type = t /\ cell[L[a]].uri = u) BY <1>5 DEF n, L
  <2>3. \A a \in 1..n : cell'[s[a]].type = cell[L[a]].type /\ cell'[s[a]].uri = cell[L[a]].uri
    BY <1>8 DEF SameRoute
  <2>4. cell'[s[n + 1]].type = t /\ cell'[s[n + 1]].uri = u BY <1>6, <1>7, <1>9
  <2> QED BY <1>7, <1>10, <2>1, <2>2, <2>3, <2>4
<1>14. ListInv' /\ HostList' = s BY <1>6, <1>11, <1>12, <1>13, NewList
<1>15. \A j \in 1..n : SameRoute(cell[L[j]], cell'[L[j]]) BY <1>7, <1>8
<1> QED BY <1>4, <1>6, <1>9, <1>14, <1>15 DEF L, n, s

Without(L, i) == SubSeq(L, 1, i - 1) \o SubSeq(L, i + 1, Len(L))

LEMMA WithoutFacts ==
  ASSUME NEW S, NEW L \in Seq(S), NEW i \in 1..Len(L)
  PROVE  /\ Without(L, i) \in Seq(S) /\ Len(Without(L, i)) = Len(L) - 1
         /\ \A j \in 1..Len(L) - 1 : Without(L, i)[j] = IF j < i THEN L[j] ELSE L[j + 1]
<1> DEFINE n == Len(L)  a == SubSeq(L, 1, i - 1)  b == SubSeq(L, i + 1, n)
<1>1. n \in Nat /\ i \in 1..n OBVIOUS
<1>2. /\ a \in Seq(S) /\ Len(a) = i - 1 /\ \A j \in 1..i - 1 : a[j] = L[j]
  <2>1. /\ 1 \in 1..n + 1 /\ i - 1 \in 1 - 1..n
        /\ \A j \in 1..i - 1 : j \in 1..i - 1 - 1 + 1 /\ 1 + j - 1 = j
        /\ i - 1 - 1 + 1 = i - 1 BY <1>1
  <2> HIDE DEF n
  <2>2. Len(a) = IF 1 <= i - 1 THEN i - 1 - 1 + 1 ELSE 0 BY <2>1, SubSeqProperties DEF n
  <2>3. \A j \in 1..i - 1 - 1 + 1 : a[j] = L[1 + j - 1] BY <2>1, SubSeqProperties DEF n
  <2>4. a \in Seq(S) BY <2>1, SubSeqProperties DEF n
  <2> QED BY <1>1, <2>1, <2>2, <2>3, <2>4
<1>3. /\ b \in Seq(S) /\ Len(b) = n - i /\ \A j \in 1..n - i : b[j] = L[i + j]
  <2>1. /\ i + 1 \in 1..n + 1 /\ n \in i + 1 - 1..n
        /\ \A j \in 1..n - i : j \in 1..n - (i + 1) + 1 /\ (i + 1) + j - 1 = i + j
        /\ n - (i + 1) + 1 = n - i BY <1>1
  <2> HIDE DEF n
  <2>2. Len(b) = IF i + 1 <= n THEN n - (i + 1) + 1 ELSE 0 BY <2>1, SubSeqProperties DEF n
  <2>3. \A j \in 1..n - (i + 1) + 1 : b[j] = L[(i + 1) + j - 1] BY <2>1, SubSeqProperties DEF n
  <2>4. b \in Seq(S) BY <2>1, SubSeqProperties DEF n
  <2> QED BY <1>1, <2>1, <2>2, <2>3, <2>4
<1> HIDE DEF n, a, b
<1>4. /\ a \o b \in Seq(S) /\ Len(a \o b) = Len(a) + Len(b)
      /\ \A j \in 1..Len(a) + Len(b) : (a \o b)[j] = IF j <= Len(a) THEN a[j] ELSE b[j - Len(a)]
  BY <1>2, <1>3, ConcatProperties
<1>5. ASSUME NEW j \in 1..n - 1 PROVE (a \o b)[j] = IF j < i THEN L[j] ELSE L[j + 1]
  <2>1. j \in 1..Len(a) + Len(b) BY <1>1, <1>2, <1>3
  <2>2. CASE j < i
    <3>1. j \in 1..i - 1 /\ j <= Len(a) BY <1>1, <1>2, <2>2
    <3> QED BY <1>2, <1>4, <2>1, <2>2, <3>1
  <2>3. CASE ~ (j < i)
    <3>1. /\ ~ (j <= Len(a)) /\ j - Len(a) \in 1..n - i /\ i + (j - Len(a)) = j + 1
      BY <1>1, <1>2, <2>3
    <3> QED BY <1>3, <1>4, <2>1, <2>3, <3>1
  <2> QED BY <2>2, <2>3
<1>6. Len(a) + Len(b) = n - 1 BY <1>1, <1>2, <1>3
<1> QED BY <1>4, <1>5, <1>6 DEF Without, n, a, b

LEMMA RemoveKeepsList ==
  ASSUME ListInv, NEW t, NEW u, RemoveRoute(t, u)
  PROVE  /\ ListInv'
         /\ HostList' = Without(HostList, First(Found(t, u)))
         /\ \A i \in 1..Len(HostList) :
              i # First(Found(t, u)) => SameRoute(cell[HostList[i]], cell'[HostList[i]])
<1> DEFINE L == HostList  n == Len(L)  i == First(Found(t, u))  gone == L[i]  s == Without(L, i)
<1>1. IF i = 1
      THEN head' = cell[gone].next /\ cell' = [cell EXCEPT ![gone] = None]
      ELSE cell' = [cell EXCEPT ![L[i - 1]].next = cell[gone].next, ![gone] = None] /\ head' = head
  BY DEF RemoveRoute
<1>2. /\ L \in Seq(Cells) /\ n \in Nat
      /\ \A j \in 1..n : L[j] \in Cells /\ cell[L[j]] \in Route
      /\ cell \in Memory /\ head \in Pointers
      /\ Linked(cell, L, head) /\ Covers(cell, L) /\ Keyed(cell, L)
  BY HostFacts DEF ListInv
<1>3. i \in 1..n
  <2>1. Found(t, u) # {} BY DEF RemoveRoute
  <2> QED BY <2>1, FoundFacts
<1>4. gone \in Cells /\ cell[gone] \in Route /\ \A j \in 1..n : L[j] = gone <=> j = i
  <2> HIDE DEF i, L
  <2> QED BY <1>2, <1>3 DEF Linked
<1>5. cell[gone].next = IF i < n THEN L[i + 1] ELSE None
  <2> HIDE DEF i, L
  <2> QED BY <1>2, <1>3 DEF Linked
<1>6. cell[gone].next \in Pointers BY <1>4, RouteFields
<1> HIDE DEF gone
<1>7. /\ cell' \in Memory /\ head' \in Pointers /\ cell'[gone] = None
      /\ \A d \in Cells : d # gone => /\ cell'[d] = None <=> cell[d] = None
                                      /\ cell[d] # None => SameRoute(cell[d], cell'[d])
      /\ \A j \in 1..n : j # i =>
           cell'[L[j]].next = IF j = i - 1 THEN cell[gone].next ELSE cell[L[j]].next
      /\ head' = IF i = 1 THEN cell[gone].next ELSE head
  <2> HIDE DEF i, L
  <2>1. CASE i = 1
    <3>1. cell' = [cell EXCEPT ![gone] = None] /\ head' = cell[gone].next BY <1>1, <2>1
    <3>2. cell' = [d \in Cells |-> IF d = gone THEN None ELSE cell[d]]
      BY <1>2, <3>1 DEF Memory
    <3>3. cell' \in Memory BY <1>2, <3>2 DEF Memory
    <3>4. \A j \in 1..n : j # i - 1 BY <1>2, <2>1
    <3> QED BY <1>2, <1>4, <1>6, <2>1, <3>1, <3>2, <3>3, <3>4 DEF SameRoute
  <2>2. CASE i # 1
    <3>1. i - 1 \in 1..n /\ i - 1 # i BY <1>2, <1>3, <2>2
    <3> DEFINE prev == L[i - 1]  R == [cell[prev] EXCEPT !.next = cell[gone].next]
    <3>2. prev \in Cells /\ cell[prev] \in Route /\ prev # gone BY <1>2, <1>4, <3>1
    <3>3. cell' = [cell EXCEPT ![prev].next = cell[gone].next, ![gone] = None] /\ head' = head
      BY <1>1, <2>2
    <3>4. R \in Route /\ R.next = cell[gone].next /\ SameRoute(cell[prev], R)
      <4> HIDE DEF prev
      <4> QED BY <1>6, <3>2 DEF Route, Pointers, SameRoute
    <3>5. \A j \in 1..n : L[j] = prev <=> j = i - 1 BY <1>2, <3>1 DEF Linked
    <3> HIDE DEF prev
    <3>6. cell' = [d \in Cells |-> IF d = gone THEN None ELSE IF d = prev THEN R ELSE cell[d]]
      BY <1>2, <1>4, <3>2, <3>3 DEF Memory
    <3> HIDE DEF R
    <3>7. cell' \in Memory BY <1>2, <3>4, <3>6 DEF Memory
    <3>8. /\ cell'[gone] = None
          /\ \A d \in Cells : d # gone => cell'[d] = IF d = prev THEN R ELSE cell[d]
      BY <1>4, <3>6
    <3>9. R # None /\ cell[prev] # None BY <3>2, <3>4, NoneIsNoRoute
    <3>10. \A d \in Cells : d # gone => /\ cell'[d] = None <=> cell[d] = None
                                        /\ cell[d] # None => SameRoute(cell[d], cell'[d])
      BY <3>4, <3>8, <3>9 DEF SameRoute
    <3>11. \A j \in 1..n : j # i =>
             cell'[L[j]].next = IF j = i - 1 THEN cell[gone].next ELSE cell[L[j]].next
      BY <1>2, <1>4, <3>4, <3>5, <3>8
    <3> QED BY <1>2, <2>2, <3>3, <3>7, <3>8, <3>10, <3>11
  <2> QED BY <2>1, <2>2
<1>8. /\ s \in Seq(Cells) /\ Len(s) = n - 1
      /\ \A j \in 1..n - 1 : s[j] = IF j < i THEN L[j] ELSE L[j + 1]
  <2> HIDE DEF i, L
  <2> QED BY <1>2, <1>3, WithoutFacts
<1> HIDE DEF L, n, i, s
<1> DEFINE at(j) == IF j < i THEN j ELSE j + 1
<1>9. \A j \in 1..n - 1 : at(j) \in 1..n /\ at(j) # i /\ s[j] = L[at(j)] BY <1>2, <1>3, <1>8
<1>10. \A j, k \in 1..n - 1 : at(j) = at(k) => j = k BY <1>2, <1>3
<1>11. \A j \in 1..n : j # i => \E k \in 1..n - 1 : at(k) = j
  <2> SUFFICES ASSUME NEW j \in 1..n, j # i PROVE \E k \in 1..n - 1 : at(k) = j OBVIOUS
  <2>1. CASE j < i
    <3>1. j \in 1..n - 1 /\ at(j) = j BY <1>2, <1>3, <2>1
    <3> QED BY <3>1
  <2>2. CASE j > i
    <3>1. j - 1 \in 1..n - 1 /\ at(j - 1) = j BY <1>2, <1>3, <2>2
    <3> QED BY <3>1
  <2> QED BY <1>2, <1>3, <2>1, <2>2
<1>12. \A j \in 1..n : j # i => cell'[L[j]] # None /\ SameRoute(cell[L[j]], cell'[L[j]])
  BY <1>2, <1>4, <1>7, NoneIsNoRoute
<1>13. Linked(cell', s, head')
  <2>1. ASSUME NEW j \in 1..Len(s)
        PROVE  cell'[s[j]] # None /\ cell'[s[j]].next = IF j < Len(s) THEN s[j + 1] ELSE None
    <3>1. j \in 1..n - 1 /\ j \in Int BY <1>8
    <3>2. \A k \in 1..n : cell[L[k]].next = IF k < n THEN L[k + 1] ELSE None
      BY <1>2 DEF Linked, n
    <3>3. CASE j < i - 1
      <4>1. /\ j \in 1..n /\ j # i /\ j # i - 1 /\ j < n /\ j < i /\ j + 1 < i
            /\ j + 1 \in 1..n - 1 /\ j < n - 1 BY <1>2, <1>3, <3>1, <3>3
      <4>2. s[j] = L[j] /\ s[j + 1] = L[j + 1] BY <1>8, <3>1, <4>1
      <4>3. cell'[L[j]].next = L[j + 1] BY <1>7, <3>2, <4>1
      <4> QED BY <1>8, <1>12, <4>1, <4>2, <4>3
    <3>4. CASE j = i - 1
      <4>1. j \in 1..n /\ j # i /\ j < i /\ ~ (j + 1 < i) /\ (j < n - 1 <=> i < n) /\ i + 1 = j + 1 + 1
        BY <1>2, <1>3, <3>1, <3>4
      <4>2. s[j] = L[j] BY <1>8, <3>1, <4>1
      <4>3. cell'[L[j]].next = IF i < n THEN L[i + 1] ELSE None BY <1>5, <1>7, <3>4, <4>1
      <4>4. j < n - 1 => j + 1 \in 1..n - 1 BY <1>2, <3>1
      <4>5. j < n - 1 => s[j + 1] = L[i + 1] BY <1>8, <4>1, <4>4
      <4> QED BY <1>8, <1>12, <4>1, <4>2, <4>3, <4>5
    <3>5. CASE j >= i
      <4>1. /\ j + 1 \in 1..n /\ j + 1 # i /\ j + 1 # i - 1 /\ ~ (j < i) /\ ~ (j + 1 < i)
            /\ (j < n - 1 <=> j + 1 < n) /\ (j < n - 1 => j + 1 \in 1..n - 1)
        BY <1>2, <1>3, <3>1, <3>5
      <4>2. s[j] = L[j + 1] BY <1>8, <3>1, <4>1
      <4>3. cell'[L[j + 1]].next = IF j + 1 < n THEN L[j + 1 + 1] ELSE None BY <1>7, <3>2, <4>1
      <4>4. j < n - 1 => s[j + 1] = L[j + 1 + 1] BY <1>8, <4>1
      <4> QED BY <1>8, <1>12, <4>1, <4>2, <4>3, <4>4
    <3> QED BY <1>2, <1>3, <3>1, <3>3, <3>4, <3>5
  <2>2. ASSUME NEW j \in 1..Len(s), NEW k \in 1..Len(s), s[j] = s[k] PROVE j = k
    <3>1. \A a, b \in 1..n : L[a] = L[b] => a = b BY <1>2 DEF Linked, n
    <3> HIDE DEF at
    <3> QED BY <1>8, <1>9, <1>10, <2>2, <3>1
  <2>3. head' = IF Len(s) = 0 THEN None ELSE s[1]
    <3>1. CASE i = 1
      <4>1. (i < n <=> n - 1 # 0) /\ (n - 1 # 0 => 1 \in 1..n - 1) /\ ~ (1 < i) BY <1>2, <1>3, <3>1
      <4>2. n - 1 # 0 => s[1] = L[1 + 1] BY <1>8, <4>1
      <4> QED BY <1>5, <1>7, <1>8, <3>1, <4>1, <4>2
    <3>2. CASE i # 1
      <4>1. n - 1 # 0 /\ 1 \in 1..n - 1 /\ 1 < i /\ n # 0 BY <1>2, <1>3, <3>2
      <4>2. head = L[1] BY <1>2, <4>1 DEF Linked, n
      <4> QED BY <1>7, <1>8, <3>2, <4>1, <4>2
    <3> QED BY <3>1, <3>2
  <2> QED BY <1>8, <2>1, <2>2, <2>3 DEF Linked
<1> HIDE DEF at
<1>14. Covers(cell', s)
  <2> SUFFICES ASSUME NEW d \in Cells, cell'[d] # None PROVE \E k \in 1..Len(s) : s[k] = d
    BY DEF Covers
  <2>1. d # gone /\ cell[d] # None BY <1>7
  <2>2. PICK j \in 1..n : L[j] = d BY <1>2, <2>1 DEF Covers, n
  <2>3. j # i BY <1>4, <2>1, <2>2
  <2>4. PICK k \in 1..n - 1 : at(k) = j BY <1>11, <2>3
  <2> QED BY <1>8, <1>9, <2>2, <2>4
<1>15. Keyed(cell', s)
  <2> SUFFICES ASSUME NEW j \in 1..Len(s), NEW k \in 1..Len(s),
                      cell'[s[j]].type = cell'[s[k]].type, cell'[s[j]].uri = cell'[s[k]].uri
               PROVE  j = k
    BY DEF Keyed
  <2>1. \A a, b \in 1..n :
          cell[L[a]].type = cell[L[b]].type /\ cell[L[a]].uri = cell[L[b]].uri => a = b
    BY <1>2 DEF Keyed, n
  <2>2. \A a \in 1..n - 1 : /\ cell'[s[a]].type = cell[L[at(a)]].type
                            /\ cell'[s[a]].uri = cell[L[at(a)]].uri
    BY <1>9, <1>12 DEF SameRoute
  <2>3. at(j) = at(k) BY <1>8, <1>9, <2>1, <2>2
  <2> QED BY <1>8, <1>10, <2>3
<1>16. ListInv' /\ HostList' = s BY <1>7, <1>13, <1>14, <1>15, NewList
<1> QED BY <1>12, <1>16 DEF L, n, s, i

LEMMA InitList == ASSUME Init PROVE ListInv /\ HostList = <<>>
<1>1. cell \in Memory /\ head \in Pointers /\ \A c \in Cells : cell[c] = None
  BY DEF Init, Memory, Pointers
<1>2. <<>> \in Seq(Cells) /\ Len(<<>>) = 0 /\ 1..0 = {} OBVIOUS
<1>3. head = None BY DEF Init
<1>4. Linked(cell, <<>>, head) /\ Covers(cell, <<>>) /\ Keyed(cell, <<>>)
  BY <1>1, <1>2, <1>3 DEF Linked, Covers, Keyed
<1>5. HostList = <<>> BY <1>4, WalkOfList DEF HostList, Walk
<1> QED BY <1>1, <1>4, <1>5 DEF ListInv

LEMMA FreeKeepsList == ASSUME ListInv, FreeRoutes PROVE ListInv' /\ HostList' = <<>>
<1>1. /\ cell' = [c \in Cells |-> IF \E i \in 1..Len(HostList) : HostList[i] = c
                                  THEN None ELSE cell[c]]
      /\ head' = None
  BY DEF FreeRoutes
<1>2. \A c \in Cells : cell'[c] = None BY <1>1 DEF ListInv, Covers
<1>3. cell' \in Memory /\ head' \in Pointers BY <1>1 DEF ListInv, Memory, Pointers
<1>4. <<>> \in Seq(Cells) /\ Len(<<>>) = 0 /\ 1..0 = {} OBVIOUS
<1>5. Linked(cell', <<>>, head') /\ Covers(cell', <<>>) /\ Keyed(cell', <<>>)
  BY <1>1, <1>2, <1>4 DEF Linked, Covers, Keyed
<1> QED BY <1>3, <1>5, NewList

LEMMA SameList ==
  ASSUME UNCHANGED registry
  PROVE  (ListInv => ListInv') /\ HostList' = HostList
<1>1. cell' = cell /\ head' = head BY DEF registry
<1>2. HostList' = HostList BY <1>1 DEF HostList, Walk
<1> QED BY <1>1, <1>2 DEF ListInv, Linked, Covers, Keyed, Memory, Pointers, Route

(* The steps that leave the list alone. *)
Elsewhere == Adding \/ Requesting \/ UNCHANGED vars

LEMMA ElsewhereSame == ASSUME Elsewhere PROVE UNCHANGED registry
BY DEF Elsewhere, Adding, Requesting, BuildDomain, LinkDomain, BeginRequest, AnswerEarly, LookUp,
       Authorize, Serve, UseFreed, vars, registry, domains

LEMMA ListStep == ASSUME ListInv, [Next]_vars PROVE ListInv'
<1>1. ASSUME NEW key \in Keys, RemoveRoute(key[1], key[2]) PROVE ListInv'
  BY <1>1, RemoveKeepsList
<1>2. ASSUME NEW key \in Keys, NEW h \in Handlers, AddRoute(key[1], key[2], h) PROVE ListInv'
  <2>1. key[1] \in Types /\ key[2] \in Uris BY RegistryConstants DEF RegistryConstants
  <2> QED BY <1>2, <2>1, AddKeepsList
<1>3. ASSUME NEW key \in Keys, NEW h \in Handlers, UpdateRoute(key[1], key[2], h) PROVE ListInv'
  BY <1>3, UpdateKeepsList
<1>4. CASE FreeRoutes BY <1>4, FreeKeepsList
<1>5. CASE Elsewhere BY <1>5, ElsewhereSame, SameList
<1> QED BY <1>1, <1>2, <1>3, <1>4, <1>5 DEF Next, Editing, Elsewhere

(* The invariant that the other theorems rest on. *)
LEMMA ListStays == Spec => []ListInv
<1>1. Init => ListInv BY InitList
<1>2. ListInv /\ [Next]_vars => ListInv' BY ListStep
<1> QED BY <1>1, <1>2, PTL DEF Spec

LEMMA ListIsIntact == ASSUME ListInv PROVE ChainIntact
<1> DEFINE L == HostList  n == Len(L)
<1>1. /\ L \in Seq(Cells) /\ n \in Nat
      /\ \A j \in 1..n : L[j] \in Cells /\ cell[L[j]] \in Route
      /\ Linked(cell, L, head) /\ Covers(cell, L) /\ Keyed(cell, L)
  BY HostFacts DEF ListInv
<1> HIDE DEF L
<1>2. {L[i] : i \in 1..n} = live BY <1>1, NoneIsNoRoute DEF live, Covers
<1>3. n = Cardinality(live)
  <2>1. L \in [1..n -> live] BY <1>1, <1>2
  <2>2. L \in Bijection(1..n, live)
    <3>1. L \in Injection(1..n, live) BY <1>1, <2>1, Fun_IsInj DEF Linked
    <3>2. L \in Surjection(1..n, live) BY <1>2, <2>1, Fun_IsSurj
    <3> QED BY <3>1, <3>2, Fun_IsBij
  <2>3. IsFiniteSet(1..n) /\ Cardinality(1..n) = n
    <3> HIDE DEF n
    <3>1. 1 \in Int /\ n \in Int BY <1>1
    <3>2. IsFiniteSet(1..n) /\ Cardinality(1..n) = IF 1 > n THEN 0 ELSE n - 1 + 1
      BY <3>1, FS_Interval
    <3> QED BY <1>1, <3>2
  <2>4. Cardinality(1..n) = Cardinality(live)
    <3> HIDE DEF n
    <3>1. ExistsBijection(1..n, live) BY <2>2 DEF ExistsBijection
    <3> QED BY <2>3, <3>1, FS_Bijection
  <2> HIDE DEF n
  <2> QED BY <2>3, <2>4
<1>4. n # 0 => n \in 1..n
  <2>1. n \in Nat BY <1>1
  <2> HIDE DEF n
  <2> QED BY <2>1
<1>5. live = {} => head = None
  <2>1. live = {} => n = 0 BY <1>2, <1>4
  <2>2. n = 0 => head = None BY <1>1 DEF Linked
  <2> QED BY <2>1, <2>2
<1>6. live # {} => cell[L[n]].next = None
  <2>1. live # {} => n # 0 BY <1>1, <1>2
  <2> QED BY <1>1, <1>4, <2>1 DEF Linked
<1>7. \A i, j \in 1..n :
        cell[L[i]].type = cell[L[j]].type /\ cell[L[i]].uri = cell[L[j]].uri => i = j
  BY <1>1 DEF Keyed
<1> QED BY <1>2, <1>3, <1>5, <1>6, <1>7 DEF ChainIntact, L

(* Setting, deleting and freeing routes keep one chain of exactly the      *)
(* allocated routes, each pair of type and URI once.                       *)
THEOREM ListIsOneChain == Spec => []ChainIntact
BY ListStays, ListIsIntact, PTL

-----------------------------------------------------------------------------
(* What a lookup finds.                                                    *)

Exact(list, t, u) == {i \in 1..Len(list) : cell[list[i]].type = t /\ cell[list[i]].uri = u}

LEMMA FindFacts ==
  ASSUME NEW list, Len(list) \in Nat, NEW t, NEW u,
         \A i \in 1..Len(list) : cell[list[i]] \in Route
  PROVE  /\ Find(list, t, u) \in Handlers \cup {None}
         /\ Find(list, t, u) # None
              <=> \E i \in 1..Len(list) : cell[list[i]].type = t /\ Matches(cell[list[i]].uri, u)
         /\ Exact(list, t, u) # {}
              => Find(list, t, u) = cell[list[First(Exact(list, t, u))]].handler
<1> DEFINE exact == {i \in 1..Len(list) : cell[list[i]].type = t /\ cell[list[i]].uri = u}
           partial == {i \in 1..Len(list) : cell[list[i]].type = t /\ <<cell[list[i]].uri, u>> \in Beneath}
           pattern == {i \in 1..Len(list) : cell[list[i]].type = t /\ <<cell[list[i]].uri, u>> \in Globs}
<1>1. \A i \in 1..Len(list) : /\ cell[list[i]].uri \in Uris /\ cell[list[i]].handler \in Handlers
                              /\ cell[list[i]].handler # None
  BY RouteFields, RegistryConstants DEF RegistryConstants
<1>2. Find(list, t, u) = IF exact # {} THEN cell[list[First(exact)]].handler
                         ELSE IF partial # {} THEN cell[list[First(partial)]].handler
                         ELSE IF pattern # {} THEN cell[list[First(pattern)]].handler
                         ELSE None
  <2> DEFINE match(r) == {i \in 1..Len(list) : cell[list[i]].type = t /\ r[cell[list[i]].uri]}
  <2>1. match([v \in Uris |-> v = u]) = exact BY <1>1
  <2>2. match([v \in Uris |-> <<v, u>> \in Beneath]) = partial BY <1>1
  <2>3. match([v \in Uris |-> <<v, u>> \in Globs]) = pattern BY <1>1
  <2> HIDE DEF exact, partial, pattern
  <2> QED BY <2>1, <2>2, <2>3 DEF Find
<1>3. /\ exact \in SUBSET (1..Len(list)) /\ partial \in SUBSET (1..Len(list))
      /\ pattern \in SUBSET (1..Len(list))
  OBVIOUS
<1>4. exact \cup partial \cup pattern
        = {i \in 1..Len(list) : cell[list[i]].type = t /\ Matches(cell[list[i]].uri, u)}
  BY <1>1 DEF Matches
<1> HIDE DEF exact, partial, pattern
<1>5. \A s \in SUBSET (1..Len(list)) : s # {} => First(s) \in s
  <2> SUFFICES ASSUME NEW s \in SUBSET (1..Len(list)), s # {} PROVE First(s) \in s OBVIOUS
  <2>1. s \in SUBSET Nat OBVIOUS
  <2> QED BY <2>1, FirstIsFirst
<1>6. /\ exact # {} => First(exact) \in 1..Len(list)
      /\ partial # {} => First(partial) \in 1..Len(list)
      /\ pattern # {} => First(pattern) \in 1..Len(list)
  BY <1>3, <1>5
<1>7. Find(list, t, u) \in Handlers \cup {None} BY <1>1, <1>2, <1>6
<1>8. Find(list, t, u) # None <=> exact \cup partial \cup pattern # {}
  BY <1>1, <1>2, <1>6
<1>9. Exact(list, t, u) = exact BY DEF Exact, exact
<1> QED BY <1>2, <1>4, <1>7, <1>8, <1>9

LEMMA HostFind ==
  ASSUME ListInv, NEW t, NEW u
  PROVE  /\ Find(HostList, t, u) \in Handlers \cup {None}
         /\ Find(HostList, t, u) # None
              <=> \E i \in 1..Len(HostList) : /\ cell[HostList[i]].type = t
                                              /\ Matches(cell[HostList[i]].uri, u)
         /\ Found(t, u) # {}
              => Find(HostList, t, u) = cell[HostList[First(Found(t, u))]].handler
<1>1. Len(HostList) \in Nat /\ \A i \in 1..Len(HostList) : cell[HostList[i]] \in Route
  BY HostFacts
<1> DEFINE L == HostList
<1>2. Found(t, u) = Exact(L, t, u) BY DEF Found, Exact
<1> HIDE DEF L
<1>3. Len(L) \in Nat /\ \A i \in 1..Len(L) : cell[L[i]] \in Route BY <1>1 DEF L
<1> QED BY <1>2, <1>3, FindFacts DEF L

-----------------------------------------------------------------------------
(* The lists domains walk.                                                 *)

(* From an allocated route a walk meets the rest of the host's list. *)
LEMMA TailFrom ==
  ASSUME ListInv, NEW p \in Cells, cell[p] # None
  PROVE  \E i \in 1..Len(HostList) : Walk(p) = SubSeq(HostList, i, Len(HostList))
<1>1. PICK i \in 1..Len(HostList) : HostList[i] = p BY DEF ListInv, Covers
<1>2. Walk(p) = SubSeq(HostList, i, Len(HostList)) BY <1>1, WalkInside DEF ListInv, Walk
<1> QED BY <1>2

LEMMA WalkOfNone == Walk(None) = <<>>
<1>1. Depth \in 0..Depth BY DepthType
<1> QED BY <1>1, WalkIsRow, RowOfNone DEF Walk

LEMMA WalkRoutes ==
  ASSUME ListInv, NEW p \in Pointers, p = None \/ cell[p] # None
  PROVE  /\ Len(Walk(p)) \in Nat
         /\ \A i \in 1..Len(Walk(p)) : Walk(p)[i] \in Cells /\ cell[Walk(p)[i]] \in Route
<1>1. CASE p = None
  <2>1. Len(<<>>) = 0 /\ 1..0 = {} OBVIOUS
  <2> QED BY <1>1, <2>1, WalkOfNone
<1>2. CASE p # None
  <2>1. p \in Cells BY <1>2 DEF Pointers
  <2>2. PICK i \in 1..Len(HostList) : Walk(p) = SubSeq(HostList, i, Len(HostList))
    BY <1>2, <2>1, TailFrom
  <2> DEFINE L == HostList  n == Len(L)
  <2>3. /\ L \in Seq(Cells) /\ n \in Nat
        /\ \A j \in 1..n : L[j] \in Cells /\ cell[L[j]] \in Route
    BY HostFacts
  <2> HIDE DEF L, n
  <2>4. i \in 1..n + 1 /\ n \in i - 1..n BY <2>3 DEF n, L
  <2> DEFINE s == SubSeq(L, i, n)
  <2>5. /\ Len(s) = IF i <= n THEN n - i + 1 ELSE 0
        /\ \A j \in 1..n - i + 1 : s[j] = L[i + j - 1]
    BY <2>3, <2>4, SubSeqProperties DEF n
  <2> HIDE DEF s
  <2>6. Len(s) \in Nat /\ \A j \in 1..Len(s) : j \in 1..n - i + 1 /\ i + j - 1 \in 1..n
    BY <2>3, <2>4, <2>5
  <2>7. \A j \in 1..Len(s) : s[j] \in Cells /\ cell[s[j]] \in Route BY <2>3, <2>5, <2>6
  <2> QED BY <2>2, <2>6, <2>7 DEF s, n, L
<1> QED BY <1>1, <1>2

-----------------------------------------------------------------------------
(* Types.                                                                  *)

Requests == [pc : {"idle", "lookup", "auth", "serve", "crashed"},
             domain : Domains \cup {MainHost}, uri : Uris \cup {None},
             callback : Handlers \cup {None}, auth : {"none", "accepted"}, guarded : BOOLEAN]

Shape ==
  /\ domHead \in [Domains -> Pointers]
  /\ domState \in [Domains -> {"absent", "built", "linked"}]
  /\ alike \subseteq Domains
  /\ request \in [Conns -> Requests]
  /\ freed \in BOOLEAN

LEMMA IdleTypes == ASSUME Shape, NEW c \in Conns
                   PROVE  Idle \in Requests /\ Crashed \in Requests /\ Done(c) \in Requests
<1>1. request[c].domain \in Domains \cup {MainHost} BY DEF Shape, Requests
<1> QED BY <1>1 DEF Idle, Crashed, Done, Requests

(* What a request finds on the list of its domain. *)
LEMMA PointerFind ==
  ASSUME ListInv, Shape, NEW c \in Conns, NEW t, ~ Dangling(Pointer(c))
  PROVE  Find(Walk(Pointer(c)), t, request[c].uri) \in Handlers \cup {None}
<1>1. request[c].domain \in Domains \cup {MainHost} BY DEF Shape, Requests
<1>2. Pointer(c) \in Pointers BY <1>1 DEF Pointer, PointerOf, Shape, ListInv
<1>3. Pointer(c) = None \/ cell[Pointer(c)] # None BY <1>2 DEF Dangling, live
<1> QED BY <1>2, <1>3, WalkRoutes, FindFacts

LEMMA RequestStep ==
  ASSUME ListInv, Shape, NEW c \in Conns,
         AnswerEarly(c) \/ LookUp(c) \/ Authorize(c) \/ Serve(c) \/ UseFreed(c)
  PROVE  request' \in [Conns -> Requests]
<1>1. \A r \in Requests : [request EXCEPT ![c] = r] \in [Conns -> Requests] BY DEF Shape
<1>2. request[c] \in Requests BY DEF Shape
<1>3. CASE LookUp(c)
  <2>1. CASE Dangling(Pointer(c)) BY <1>1, <1>3, <2>1, IdleTypes DEF LookUp
  <2>2. CASE ~ Dangling(Pointer(c))
    <3> DEFINE f == Find(Walk(Pointer(c)), "request", request[c].uri)
               r == [request[c] EXCEPT !.pc = "auth", !.callback = f]
    <3>1. f \in Handlers \cup {None} BY <2>2, PointerFind
    <3>2. request' = [request EXCEPT ![c] = r] BY <1>3, <2>2 DEF LookUp
    <3> HIDE DEF f
    <3>3. r \in Requests BY <1>2, <3>1 DEF Requests
    <3> HIDE DEF r
    <3> QED BY <1>1, <3>2, <3>3
  <2> QED BY <2>1, <2>2
<1>4. CASE Authorize(c)
  <2> DEFINE a == [request[c] EXCEPT !.pc = "serve", !.auth = "accepted"]
             n == [request[c] EXCEPT !.pc = "serve", !.auth = "none"]
  <2>1. \E r \in {Crashed, Done(c), a, n} : request' = [request EXCEPT ![c] = r]
    BY <1>2, <1>4 DEF Authorize, Shape
  <2>2. a \in Requests /\ n \in Requests BY <1>2 DEF Requests
  <2> HIDE DEF a, n
  <2> QED BY <1>1, <2>1, <2>2, IdleTypes
<1>5. CASE Serve(c)
  <2> DEFINE b == [request[c] EXCEPT !.pc = "auth", !.callback = None]
  <2>1. \E r \in {Done(c), b} : request' = [request EXCEPT ![c] = r]
    BY <1>2, <1>5 DEF Serve, Shape
  <2>2. b \in Requests BY <1>2 DEF Requests
  <2> HIDE DEF b
  <2> QED BY <1>1, <2>1, <2>2, IdleTypes
<1>6. CASE UseFreed(c) BY <1>1, <1>6, IdleTypes DEF UseFreed
<1>7. CASE AnswerEarly(c) BY <1>1, <1>7, IdleTypes DEF AnswerEarly
<1> QED BY <1>3, <1>4, <1>5, <1>6, <1>7

LEMMA BeginStep ==
  ASSUME Shape, NEW c \in Conns, NEW host, NEW u \in Asked, BeginRequest(c, host, u)
  PROVE  request' \in [Conns -> Requests]
<1> DEFINE d == Chosen(c, host)
           g == GuardedBut(PointerOf(d), u, None)
           r == [Idle EXCEPT !.pc = "lookup", !.uri = u, !.domain = d, !.guarded = g]
<1>1. g \in BOOLEAN BY DEF GuardedBut
<1>2. d \in Domains \cup {MainHost} BY DEF Shape, Requests, Chosen
<1>3. request' = [request EXCEPT ![c] = r] BY DEF BeginRequest
<1>4. u \in Uris BY RegistryConstants DEF RegistryConstants
<1> HIDE DEF g, d
<1>5. r \in Requests BY <1>1, <1>2, <1>4 DEF Idle, Requests
<1> HIDE DEF r
<1> QED BY <1>3, <1>5 DEF Shape

(* What is left of a guard when the route in cell gone is removed. *)
Stays(r, gone) == /\ r.domain \in Domains => domHead[r.domain] # gone
                  /\ GuardedBut(PointerOf(r.domain), r.uri, gone)

(* RemoveRoute changes the guard of a request and nothing else of it. *)
LEMMA RemoveRequest ==
  ASSUME Shape, NEW t, NEW v, RemoveRoute(t, v), NEW c \in Conns
  PROVE  /\ request' \in [Conns -> Requests]
         /\ request'[c].pc = request[c].pc /\ request'[c].domain = request[c].domain
         /\ request'[c].uri = request[c].uri /\ request'[c].callback = request[c].callback
         /\ request'[c].auth = request[c].auth
         /\ request'[c].guarded => /\ request[c].guarded
                                   /\ Stays(request[c], HostList[First(Found(t, v))])
<1> DEFINE gone == HostList[First(Found(t, v))]
           g(d) == request[d].guarded /\ Stays(request[d], gone)
           r(d) == [request[d] EXCEPT !.guarded = g(d)]
<1>1. request' = [d \in Conns |-> [request[d] EXCEPT !.guarded = @ /\ Stays(request[d], gone)]]
  BY DEF RemoveRoute, Stays
<1>2. \A d \in Conns : request[d] \in Requests BY DEF Shape
<1>3. \A d \in Conns : g(d) \in BOOLEAN OBVIOUS
<1>4. request' = [d \in Conns |-> r(d)] BY <1>1, <1>2 DEF Requests
<1> HIDE DEF g
<1>5. \A d \in Conns : r(d) \in Requests BY <1>2, <1>3 DEF Requests
<1>6. /\ r(c).pc = request[c].pc /\ r(c).domain = request[c].domain
      /\ r(c).uri = request[c].uri /\ r(c).callback = request[c].callback
      /\ r(c).auth = request[c].auth /\ r(c).guarded = g(c)
  BY <1>2 DEF Requests
<1> HIDE DEF r
<1>7. request' \in [Conns -> Requests] /\ request'[c] = r(c) BY <1>4, <1>5
<1> QED BY <1>6, <1>7 DEF g

LEMMA ShapeStep == ASSUME ListInv, Shape, [Next]_vars PROVE Shape'
<1>1. ASSUME NEW key \in Keys, RemoveRoute(key[1], key[2]) PROVE Shape'
  <2>1. request' \in [Conns -> Requests]
    <3>1. CASE Conns = {} BY <1>1, <3>1 DEF RemoveRoute
    <3>2. CASE Conns # {} BY <1>1, <3>2, RemoveRequest
    <3> QED BY <3>1, <3>2
  <2>2. UNCHANGED <<domHead, domState, freed>> /\ alike' \in {alike, {}}
    BY <1>1 DEF RemoveRoute
  <2> QED BY <2>1, <2>2 DEF Shape
<1> USE DEF Shape
<1>2. ASSUME NEW key \in Keys, NEW h \in Handlers,
             AddRoute(key[1], key[2], h) \/ UpdateRoute(key[1], key[2], h)
      PROVE  Shape'
  BY <1>2 DEF AddRoute, UpdateRoute, domains
<1>3. ASSUME NEW d \in Domains, BuildDomain(d) \/ LinkDomain(d) PROVE Shape'
  BY <1>3 DEF BuildDomain, LinkDomain, ListInv
<1>4. CASE FreeRoutes BY <1>4 DEF FreeRoutes, domains
<1>5. ASSUME NEW c \in Conns, NEW host, NEW u \in Asked, BeginRequest(c, host, u) PROVE Shape'
  BY <1>5, BeginStep DEF BeginRequest, domains
<1>6. ASSUME NEW c \in Conns,
             AnswerEarly(c) \/ LookUp(c) \/ Authorize(c) \/ Serve(c) \/ UseFreed(c)
      PROVE  Shape'
  BY <1>6, RequestStep DEF AnswerEarly, LookUp, Authorize, Serve, UseFreed, domains
<1>7. CASE UNCHANGED vars BY <1>7 DEF vars, domains
<1> QED BY <1>1, <1>2, <1>3, <1>4, <1>5, <1>6, <1>7 DEF Next, Editing, Adding, Requesting

(* The registry keeps the shape of its structures. *)
THEOREM ShapeStays == Spec => []TypeOK
<1>1. Init => ListInv /\ Shape
  <2>1. Idle \in Requests BY DEF Idle, Requests
  <2>2. Init => Shape BY <2>1 DEF Init, Shape, Pointers
  <2> QED BY <2>2, InitList
<1>2. (ListInv /\ Shape) /\ [Next]_vars => (ListInv /\ Shape)' BY ListStep, ShapeStep
<1>3. ListInv /\ Shape => TypeOK BY DEF ListInv, Shape, Memory, Pointers, Requests, TypeOK
<1> QED BY <1>1, <1>2, <1>3, PTL DEF Spec

-----------------------------------------------------------------------------
(* Steps of requests.                                                      *)

(* Only a step of its own moves a request. *)
LEMMA MovedBy ==
  ASSUME Shape, [Next]_vars, NEW c \in Conns,
         request'[c].pc # request[c].pc \/ request'[c].domain # request[c].domain
  PROVE  \/ AnswerEarly(c) \/ LookUp(c) \/ Authorize(c) \/ Serve(c) \/ UseFreed(c)
         \/ \E host \in Domains \cup {MainHost, None}, u \in Asked : BeginRequest(c, host, u)
<1>1. request'[c] # request[c] OBVIOUS
<1>2. ASSUME NEW key \in Keys, RemoveRoute(key[1], key[2]) PROVE FALSE
  BY <1>2, RemoveRequest
<1>3. ASSUME NEW key \in Keys, NEW h \in Handlers,
             AddRoute(key[1], key[2], h) \/ UpdateRoute(key[1], key[2], h)
      PROVE  FALSE
  BY <1>1, <1>3 DEF AddRoute, UpdateRoute
<1>4. ~ Adding /\ ~ FreeRoutes /\ ~ UNCHANGED vars
  BY <1>1 DEF Adding, BuildDomain, LinkDomain, FreeRoutes, vars
<1>5. ASSUME NEW b \in Conns, b # c,
             \/ AnswerEarly(b) \/ LookUp(b) \/ Authorize(b) \/ Serve(b) \/ UseFreed(b)
             \/ \E host \in Domains \cup {MainHost, None}, u \in Asked : BeginRequest(b, host, u)
      PROVE  FALSE
  BY <1>1, <1>5 DEF AnswerEarly, LookUp, Authorize, Serve, UseFreed, BeginRequest, Shape
<1>6. PICK b \in Conns :
        \/ AnswerEarly(b) \/ LookUp(b) \/ Authorize(b) \/ Serve(b) \/ UseFreed(b)
        \/ \E host \in Domains \cup {MainHost, None}, u \in Asked : BeginRequest(b, host, u)
  BY <1>2, <1>3, <1>4 DEF Next, Editing, Requesting
<1> QED BY <1>5, <1>6

(* What the steps of a request lead to. *)
LEMMA Begun ==
  ASSUME Shape, NEW c \in Conns, NEW host, NEW u, BeginRequest(c, host, u)
  PROVE  /\ ~ freed /\ UNCHANGED <<registry, domains, freed>> /\ request[c].pc = "idle"
         /\ request'[c].pc = "lookup" /\ request'[c].uri = u
         /\ request'[c].domain = Chosen(c, host)
         /\ request'[c].guarded = GuardedBut(PointerOf(Chosen(c, host)), u, None)
<1> DEFINE d == Chosen(c, host)
           g == GuardedBut(PointerOf(d), u, None)
           r == [Idle EXCEPT !.pc = "lookup", !.uri = u, !.domain = d, !.guarded = g]
<1>1. /\ request' = [request EXCEPT ![c] = r] /\ ~ freed /\ request[c].pc = "idle"
      /\ UNCHANGED <<registry, domains, freed>>
  BY DEF BeginRequest
<1> HIDE DEF d, g
<1>2. r.pc = "lookup" /\ r.uri = u /\ r.domain = d /\ r.guarded = g BY DEF Idle
<1> HIDE DEF r
<1>3. request'[c] = r BY <1>1 DEF Shape
<1> QED BY <1>1, <1>2, <1>3 DEF d, g

LEMMA LookedUp ==
  ASSUME Shape, NEW c \in Conns, LookUp(c)
  PROVE  /\ ~ freed /\ UNCHANGED <<registry, domains, freed>> /\ request[c].pc = "lookup"
         /\ \/ Dangling(Pointer(c)) /\ request'[c] = Crashed
            \/ /\ ~ Dangling(Pointer(c))
               /\ request'[c] = [request[c] EXCEPT !.pc = "auth",
                    !.callback = Find(Walk(Pointer(c)), "request", request[c].uri)]
BY DEF LookUp, Shape

LEMMA Authorized ==
  ASSUME Shape, NEW c \in Conns, Authorize(c)
  PROVE  /\ ~ freed /\ UNCHANGED <<registry, domains, freed>> /\ request[c].pc = "auth"
         /\ \/ Dangling(Pointer(c)) /\ request'[c] = Crashed
            \/ /\ ~ Dangling(Pointer(c))
               /\ Find(Walk(Pointer(c)), "auth", request[c].uri) # None
               /\ request'[c] = [request[c] EXCEPT !.pc = "serve", !.auth = "accepted"]
            \/ /\ ~ Dangling(Pointer(c))
               /\ Find(Walk(Pointer(c)), "auth", request[c].uri) = None
               /\ request'[c] = [request[c] EXCEPT !.pc = "serve", !.auth = "none"]
            \/ request'[c] = Done(c)
<1>1. request[c] \in Requests BY DEF Shape
<1>2. [request[c] EXCEPT !.pc = "serve", !.auth = "none"]
        = [[request[c] EXCEPT !.pc = "serve"] EXCEPT !.auth = "none"]
  BY <1>1 DEF Requests
<1> QED BY <1>1, <1>2 DEF Authorize, Shape

LEMMA ServedOrBack ==
  ASSUME Shape, NEW c \in Conns, Serve(c)
  PROVE  /\ ~ freed /\ UNCHANGED <<registry, domains, freed>> /\ request[c].pc = "serve"
         /\ \/ request'[c] = Done(c)
            \/ request'[c] = [request[c] EXCEPT !.pc = "auth", !.callback = None]
<1>1. request[c] \in Requests BY DEF Shape
<1> QED BY <1>1 DEF Serve, Shape

LEMMA PlainPcs ==
  ASSUME Shape, NEW c \in Conns
  PROVE  /\ Crashed.pc = "crashed" /\ ~ Crashed.guarded /\ Crashed.domain = MainHost
         /\ Done(c).pc = "idle" /\ ~ Done(c).guarded /\ Done(c).domain = request[c].domain
BY DEF Crashed, Done, Idle

(* A request is on the main host or on a domain that has been linked. *)
OnDomain(c) == \/ request[c].domain = MainHost
               \/ request[c].domain \in Domains /\ domState[request[c].domain] = "linked"
DomainInv == \A c \in Conns : OnDomain(c)

LEMMA DomainStep == ASSUME Shape, Shape', DomainInv, [Next]_vars PROVE DomainInv'
<1> SUFFICES ASSUME NEW c \in Conns PROVE OnDomain(c)' BY DEF DomainInv
<1>1. OnDomain(c) /\ request[c] \in Requests BY DEF DomainInv, Shape
<1>2. \A d \in Domains : domState[d] = "linked" => domState'[d] = "linked"
  BY DEF Next, Editing, Adding, Requesting, AddRoute, UpdateRoute, RemoveRoute, BuildDomain,
         LinkDomain, FreeRoutes, AnswerEarly, LookUp, Authorize, Serve, UseFreed, BeginRequest,
         Shape, domains, vars
<1>3. CASE request'[c].domain = request[c].domain BY <1>1, <1>2, <1>3 DEF OnDomain
<1>4. CASE request'[c].domain # request[c].domain
  <2>1. CASE AnswerEarly(c) \/ LookUp(c) \/ Authorize(c) \/ Serve(c) \/ UseFreed(c)
    <3>1. request'[c].domain \in {request[c].domain, MainHost}
      <4>1. CASE AnswerEarly(c) BY <4>1, PlainPcs DEF AnswerEarly, Shape
      <4>2. CASE LookUp(c) BY <1>1, <4>2, LookedUp, PlainPcs DEF Requests
      <4>3. CASE Authorize(c)
        <5> DEFINE a == [request[c] EXCEPT !.pc = "serve", !.auth = "accepted"]
                   n == [request[c] EXCEPT !.pc = "serve", !.auth = "none"]
        <5>1. request'[c] \in {Crashed, Done(c), a, n} BY <4>3, Authorized
        <5>2. a.domain = request[c].domain /\ n.domain = request[c].domain
          BY <1>1 DEF Requests
        <5> HIDE DEF a, n
        <5> QED BY <5>1, <5>2, PlainPcs
      <4>4. CASE Serve(c) BY <1>1, <4>4, ServedOrBack, PlainPcs DEF Requests
      <4>5. CASE UseFreed(c) BY <4>5, PlainPcs DEF UseFreed, Shape
      <4> QED BY <2>1, <4>1, <4>2, <4>3, <4>4, <4>5
    <3> QED BY <1>4, <3>1 DEF OnDomain
  <2>2. ASSUME NEW host, NEW u \in Asked, BeginRequest(c, host, u) PROVE OnDomain(c)'
    <3>1. request'[c].domain = Chosen(c, host) /\ UNCHANGED domState
      BY <2>2, Begun DEF domains
    <3> QED BY <1>1, <3>1 DEF OnDomain, Chosen
  <2> QED BY <1>4, <2>1, <2>2, MovedBy
<1> QED BY <1>3, <1>4

-----------------------------------------------------------------------------
(* Protection.                                                             *)

(* A walk that starts in freed memory, or nowhere, meets nothing. *)
LEMMA WalkOfNothing ==
  ASSUME NEW p \in Pointers, p = None \/ cell[p] = None PROVE Walk(p) = <<>>
<1>1. Depth \in 0..Depth BY DepthType
<1>2. Rows(cell)[Depth] = Row(cell, Depth, Rows(cell)[Depth - 1]) BY <1>1, RowsUnfold
<1> QED BY <1>2, WalkIsRow DEF Walk, Row

(* The route at place j of the host's list protects u. *)
Covered(j, u) == cell[HostList[j]].type = "auth" /\ Matches(cell[HostList[j]].uri, u)

(* On the list from a pointer a route other than gone protects u when one  *)
(* does at or behind the place of the pointer in the host's list.          *)
LEMMA GuardPlace ==
  ASSUME ListInv, NEW p \in Pointers, NEW u, NEW gone
  PROVE  GuardedBut(p, u, gone) <=>
           \E k, j \in 1..Len(HostList) :
             k <= j /\ HostList[k] = p /\ HostList[j] # gone /\ Covered(j, u)
<1> DEFINE L == HostList  n == Len(L)
<1>1. /\ L \in Seq(Cells) /\ n \in Nat
      /\ \A j \in 1..n : L[j] \in Cells /\ cell[L[j]] \in Route /\ L[j] # None
  BY HostFacts
<1>2. CASE p = None \/ cell[p] = None
  <2>1. Len(<<>>) = 0 /\ 1..0 = {} OBVIOUS
  <2>2. ~ GuardedBut(p, u, gone) BY <1>2, <2>1, WalkOfNothing DEF GuardedBut
  <2>3. \A k \in 1..n : L[k] # p BY <1>1, <1>2, NoneIsNoRoute
  <2> QED BY <2>2, <2>3
<1>3. CASE p # None /\ cell[p] # None
  <2>1. p \in Cells BY <1>3 DEF Pointers
  <2>2. PICK m \in 1..n : L[m] = p BY <1>3, <2>1 DEF ListInv, Covers
  <2>3. \A k \in 1..n : L[k] = p <=> k = m BY <2>2 DEF ListInv, Linked
  <2>4. Walk(p) = SubSeq(L, m, n) BY <2>2, WalkInside DEF ListInv, Walk
  <2> HIDE DEF L, n
  <2>5. m \in 1..n + 1 /\ n \in m - 1..n BY <1>1, <2>2
  <2>6. /\ Len(Walk(p)) = n - m + 1
        /\ \A i \in 1..n - m + 1 : Walk(p)[i] = L[m + i - 1]
    BY <1>1, <2>2, <2>4, <2>5, SubSeqProperties DEF n
  <2>7. ASSUME GuardedBut(p, u, gone)
        PROVE  \E k, j \in 1..n : k <= j /\ L[k] = p /\ L[j] # gone /\ Covered(j, u)
    <3>1. PICK i \in 1..Len(Walk(p)) : /\ Walk(p)[i] # gone /\ cell[Walk(p)[i]].type = "auth"
                                       /\ Matches(cell[Walk(p)[i]].uri, u)
      BY <2>7 DEF GuardedBut
    <3>2. m + i - 1 \in 1..n /\ m <= m + i - 1 /\ Walk(p)[i] = L[m + i - 1]
      BY <1>1, <2>2, <2>6
    <3>3. L[m + i - 1] # gone /\ Covered(m + i - 1, u) BY <3>1, <3>2 DEF Covered, L
    <3> QED BY <2>2, <3>2, <3>3
  <2>8. ASSUME NEW k \in 1..n, NEW j \in 1..n, k <= j, L[k] = p, L[j] # gone, Covered(j, u)
        PROVE  GuardedBut(p, u, gone)
    <3>1. k = m BY <2>3, <2>8
    <3>2. j - m + 1 \in 1..n - m + 1 /\ m + (j - m + 1) - 1 = j BY <1>1, <2>2, <2>8, <3>1
    <3>3. j - m + 1 \in 1..Len(Walk(p)) /\ Walk(p)[j - m + 1] = L[j] BY <2>6, <3>2
    <3>4. cell[L[j]].type = "auth" /\ Matches(cell[L[j]].uri, u) BY <2>8 DEF Covered, L
    <3> QED BY <2>8, <3>3, <3>4 DEF GuardedBut
  <2> QED BY <2>7, <2>8 DEF n, L
<1> QED BY <1>2, <1>3

(* That is what get_request_handler asks. *)
LEMMA GuardFind ==
  ASSUME ListInv, NEW p \in Pointers, ~ Dangling(p), NEW u
  PROVE  GuardedBut(p, u, None) <=> Find(Walk(p), "auth", u) # None
<1>1. p = None \/ cell[p] # None BY DEF Dangling, live, Pointers
<1>2. /\ Len(Walk(p)) \in Nat
      /\ \A i \in 1..Len(Walk(p)) : Walk(p)[i] \in Cells /\ cell[Walk(p)[i]] \in Route
  BY <1>1, WalkRoutes
<1>3. Find(Walk(p), "auth", u) # None
        <=> \E i \in 1..Len(Walk(p)) : /\ cell[Walk(p)[i]].type = "auth"
                                       /\ Matches(cell[Walk(p)[i]].uri, u)
  BY <1>2, FindFacts
<1>4. \A i \in 1..Len(Walk(p)) : Walk(p)[i] # None
  BY <1>2, RegistryConstants DEF RegistryConstants
<1> QED BY <1>3, <1>4 DEF GuardedBut

(* A guarded request has a protecting route on its domain's list: anywhere *)
(* on that of the main host, at or behind the place of its pointer for an  *)
(* added domain.  It is served only once accepted.                         *)
Anchored(d, u) ==
  \E k, j \in 1..Len(HostList) :
    k <= j /\ (d = MainHost \/ HostList[k] = domHead[d]) /\ Covered(j, u)

Guarded(c) ==
  request[c].guarded => /\ freed \/ Anchored(request[c].domain, request[c].uri)
                        /\ request[c].pc = "serve" => request[c].auth = "accepted"
GuardInv == \A c \in Conns : Guarded(c)

LEMMA AnchoredIf ==
  ASSUME ListInv, Shape, NEW d \in Domains \cup {MainHost}, NEW u
  PROVE  /\ PointerOf(d) \in Pointers
         /\ Anchored(d, u) <=> GuardedBut(PointerOf(d), u, None)
<1>1. PointerOf(d) \in Pointers BY DEF PointerOf, Shape, ListInv
<1>2. GuardedBut(PointerOf(d), u, None) <=>
        \E k, j \in 1..Len(HostList) :
          k <= j /\ HostList[k] = PointerOf(d) /\ HostList[j] # None /\ Covered(j, u)
  BY <1>1, GuardPlace
<1>3. Len(HostList) \in Nat /\ \A j \in 1..Len(HostList) : HostList[j] # None BY HostFacts
<1>4. CASE d = MainHost
  <2>1. \A j \in 1..Len(HostList) : 1 \in 1..Len(HostList) /\ 1 <= j BY <1>3
  <2>2. \A j \in 1..Len(HostList) : HostList[1] = PointerOf(d)
    BY <1>3, <1>4 DEF ListInv, Linked, PointerOf
  <2> QED BY <1>1, <1>2, <1>3, <1>4, <2>1, <2>2 DEF Anchored
<1>5. CASE d # MainHost BY <1>1, <1>2, <1>3, <1>5 DEF Anchored, PointerOf
<1> QED BY <1>4, <1>5

(* Routes that stay in order keep what they protect. *)
LEMMA AnchorStays ==
  ASSUME NEW d, NEW u, NEW k \in 1..Len(HostList), NEW j \in 1..Len(HostList),
         d = MainHost \/ HostList[k] = domHead[d], Covered(j, u),
         d = MainHost \/ domHead'[d] = domHead[d],
         NEW k2 \in 1..Len(HostList'), NEW j2 \in 1..Len(HostList'), k2 <= j2,
         d = MainHost \/ HostList'[k2] = HostList[k], HostList'[j2] = HostList[j],
         cell'[HostList[j]].type = cell[HostList[j]].type,
         cell'[HostList[j]].uri = cell[HostList[j]].uri
  PROVE  Anchored(d, u)'
<1>1. Covered(j2, u)' BY DEF Covered, Matches
<1>2. d = MainHost \/ HostList'[k2] = domHead'[d] OBVIOUS
<1> QED BY <1>1, <1>2 DEF Anchored

LEMMA SameAnchored ==
  ASSUME ListInv, UNCHANGED registry, NEW d, d = MainHost \/ domHead'[d] = domHead[d],
         NEW u, Anchored(d, u)
  PROVE  Anchored(d, u)'
<1>1. HostList' = HostList /\ cell' = cell BY SameList DEF registry
<1> QED BY <1>1 DEF Anchored, Covered, Matches

LEMMA AddAnchored ==
  ASSUME ListInv, NEW t \in Types, NEW v \in Uris, NEW h \in Handlers, AddRoute(t, v, h),
         NEW d, NEW u, Anchored(d, u)
  PROVE  Anchored(d, u)'
<1>1. PICK c \in Cells : HostList' = Append(HostList, c) BY AddKeepsList
<1>2. \A i \in 1..Len(HostList) : SameRoute(cell[HostList[i]], cell'[HostList[i]])
  BY AddKeepsList
<1>3. HostList \in Seq(Cells) /\ Len(HostList) \in Nat BY HostFacts
<1>4. /\ Len(HostList') = Len(HostList) + 1
      /\ \A i \in 1..Len(HostList) : HostList'[i] = HostList[i]
  BY <1>1, <1>3, AppendProperties
<1>5. \A i \in 1..Len(HostList) : i \in 1..Len(HostList') BY <1>3, <1>4
<1>6. domHead' = domHead BY DEF AddRoute, domains
<1>7. PICK k, j \in 1..Len(HostList) :
        k <= j /\ (d = MainHost \/ HostList[k] = domHead[d]) /\ Covered(j, u)
  BY DEF Anchored
<1>8. SameRoute(cell[HostList[j]], cell'[HostList[j]]) BY <1>2
<1> QED BY <1>4, <1>5, <1>6, <1>7, <1>8, AnchorStays DEF SameRoute

LEMMA UpdateAnchored ==
  ASSUME ListInv, NEW t, NEW v, NEW h \in Handlers, UpdateRoute(t, v, h),
         NEW d, NEW u, Anchored(d, u)
  PROVE  Anchored(d, u)'
<1>1. HostList' = HostList /\ SameKeys(cell, cell', HostList) BY UpdateKeepsList
<1>2. domHead' = domHead BY DEF UpdateRoute, domains
<1> QED BY <1>1, <1>2 DEF Anchored, Covered, Matches, SameKeys

(* What RemoveRoute keeps of a guard is what still protects afterwards. *)
LEMMA RemoveAnchored ==
  ASSUME ListInv, Shape, NEW t, NEW v, RemoveRoute(t, v), NEW r,
         r.domain \in Domains \cup {MainHost}, Stays(r, HostList[First(Found(t, v))])
  PROVE  Anchored(r.domain, r.uri)'
<1> DEFINE L == HostList  n == Len(L)  i == First(Found(t, v))  s == Without(L, i)
<1>0. PICK d, u : d = r.domain /\ u = r.uri OBVIOUS
<1>1. /\ HostList' = s
      /\ \A j \in 1..n : j # i => SameRoute(cell[L[j]], cell'[L[j]])
  BY RemoveKeepsList
<1>2. L \in Seq(Cells) /\ n \in Nat BY HostFacts
<1>3. i \in 1..n
  <2>1. Found(t, v) # {} BY DEF RemoveRoute
  <2> QED BY <2>1, FoundFacts
<1>4. /\ Len(s) = n - 1 /\ \A j \in 1..n - 1 : s[j] = IF j < i THEN L[j] ELSE L[j + 1]
  <2> HIDE DEF i, L
  <2> QED BY <1>2, <1>3, WithoutFacts
<1>5. domHead' = domHead BY DEF RemoveRoute
<1>6. PointerOf(d) \in Pointers BY <1>0 DEF PointerOf, Shape, ListInv
<1>7. GuardedBut(PointerOf(d), u, L[i]) /\ (d \in Domains => domHead[d] # L[i])
  BY <1>0 DEF Stays
<1>8. PICK k, j \in 1..n : k <= j /\ L[k] = PointerOf(d) /\ L[j] # L[i] /\ Covered(j, u)
  BY <1>6, <1>7, GuardPlace
<1>9. j # i /\ (d # MainHost => k # i /\ L[k] = domHead[d])
  BY <1>0, <1>7, <1>8 DEF PointerOf
<1> HIDE DEF L, n, i, s
<1> DEFINE to(x) == IF x < i THEN x ELSE x - 1
<1>10. ASSUME NEW x \in 1..n, x # i PROVE to(x) \in 1..n - 1 /\ s[to(x)] = L[x]
  <2>1. CASE x < i
    <3>1. x \in 1..n - 1 /\ to(x) = x BY <1>2, <1>3, <2>1
    <3> QED BY <1>4, <2>1, <3>1
  <2>2. CASE x > i
    <3>1. x - 1 \in 1..n - 1 /\ to(x) = x - 1 /\ ~ (x - 1 < i) /\ x - 1 + 1 = x
      BY <1>2, <1>3, <2>2
    <3> QED BY <1>4, <3>1
  <2> QED BY <1>2, <1>3, <1>10, <2>1, <2>2
<1>11. k # i => to(k) <= to(j) BY <1>2, <1>3, <1>8, <1>9
<1>12. to(j) \in 1..n - 1 /\ s[to(j)] = L[j] /\ (k # i => to(k) \in 1..n - 1 /\ s[to(k)] = L[k])
  BY <1>8, <1>9, <1>10
<1>13. to(j) <= to(j) BY <1>2, <1>12
<1> HIDE DEF to
<1>14. SameRoute(cell[L[j]], cell'[L[j]]) BY <1>1, <1>8, <1>9
<1>15. PICK k2, j2 \in 1..n - 1 :
         k2 <= j2 /\ s[j2] = L[j] /\ (d = MainHost \/ s[k2] = L[k])
  <2>1. CASE d = MainHost BY <1>12, <1>13, <2>1
  <2>2. CASE d # MainHost BY <1>9, <1>11, <1>12, <2>2
  <2> QED BY <2>1, <2>2
<1>16. Covered(j2, u)'
  <2>1. cell'[L[j]].type = "auth" /\ Matches(cell'[L[j]].uri, u)
    BY <1>8, <1>14 DEF Covered, SameRoute, L
  <2> QED BY <1>1, <1>15, <2>1 DEF Covered, Matches
<1>17. d = MainHost \/ s[k2] = domHead'[d] BY <1>5, <1>9, <1>15
<1>18. Anchored(d, u)' BY <1>1, <1>4, <1>15, <1>16, <1>17 DEF Anchored
<1> QED BY <1>0, <1>18

(* A step that leaves a request alone keeps its guard when it keeps what   *)
(* its domain is anchored to.                                              *)
LEMMA GuardKept ==
  ASSUME NEW c, request'[c] = request[c], Guarded(c),
         \/ freed'
         \/ /\ freed' = freed
            /\ \A u : Anchored(request[c].domain, u) => Anchored(request[c].domain, u)'
  PROVE  Guarded(c)'
<1>1. CASE freed' BY <1>1 DEF Guarded
<1>2. CASE freed' = freed /\ \A u : Anchored(request[c].domain, u) => Anchored(request[c].domain, u)'
  <2>1. request[c].guarded => freed' \/ Anchored(request[c].domain, request[c].uri)'
    <3> SUFFICES ASSUME NEW d, d = request'[c].domain, NEW u, u = request'[c].uri,
                        request[c].guarded
                 PROVE  freed' \/ Anchored(d, u)'
      BY DEF Anchored, Covered, Matches
    <3> QED BY <1>2 DEF Guarded
  <2> QED BY <2>1 DEF Guarded, Anchored, Covered, Matches
<1> QED BY <1>1, <1>2

(* A request that moves on keeps its guard, or gives it up. *)
LEMMA GuardMoved ==
  ASSUME ListInv, UNCHANGED <<registry, domains, freed>>, NEW c, Guarded(c),
         request'[c].guarded =>
           /\ request[c].guarded
           /\ request'[c].uri = request[c].uri /\ request'[c].domain = request[c].domain
           /\ request'[c].pc = "serve" => request'[c].auth = "accepted"
  PROVE  Guarded(c)'
<1>1. HostList' = HostList /\ cell' = cell BY SameList DEF registry
<1>2. domHead' = domHead /\ freed' = freed BY DEF domains
<1> QED BY <1>1, <1>2 DEF Guarded, Anchored, Covered, Matches

LEMMA GuardRequest ==
  ASSUME ListInv, Shape, NEW c \in Conns, Guarded(c),
         AnswerEarly(c) \/ LookUp(c) \/ Authorize(c) \/ Serve(c)
  PROVE  Guarded(c)'
<1>1. request[c] \in Requests /\ request[c].domain \in Domains \cup {MainHost}
  BY DEF Shape, Requests
<1>2. CASE AnswerEarly(c)
  <2>1. request'[c] = Done(c) /\ UNCHANGED <<registry, domains, freed>>
    BY <1>2 DEF AnswerEarly, Shape
  <2> QED BY <2>1, PlainPcs, GuardMoved
<1>3. CASE LookUp(c)
  <2> DEFINE f == Find(Walk(Pointer(c)), "request", request[c].uri)
             r == [request[c] EXCEPT !.pc = "auth", !.callback = f]
  <2>1. UNCHANGED <<registry, domains, freed>> /\ request'[c] \in {Crashed, r}
    BY <1>3, LookedUp
  <2> HIDE DEF f
  <2>2. /\ r.pc = "auth" /\ r.uri = request[c].uri /\ r.domain = request[c].domain
        /\ r.guarded = request[c].guarded
    BY <1>1 DEF Requests
  <2> HIDE DEF r
  <2> QED BY <2>1, <2>2, PlainPcs, GuardMoved
<1>4. CASE Authorize(c)
  <2> DEFINE a == [request[c] EXCEPT !.pc = "serve", !.auth = "accepted"]
             n == [request[c] EXCEPT !.pc = "serve", !.auth = "none"]
  <2>1. /\ ~ freed /\ UNCHANGED <<registry, domains, freed>>
        /\ \/ request'[c] \in {Crashed, Done(c), a}
           \/ /\ ~ Dangling(Pointer(c))
              /\ Find(Walk(Pointer(c)), "auth", request[c].uri) = None
              /\ request'[c] = n
    BY <1>4, Authorized
  <2>2. /\ a.uri = request[c].uri /\ a.domain = request[c].domain
        /\ a.guarded = request[c].guarded /\ a.auth = "accepted"
        /\ n.guarded = request[c].guarded
    BY <1>1 DEF Requests
  <2> HIDE DEF a, n
  <2>3. CASE request'[c] \in {Crashed, Done(c), a}
    BY <2>1, <2>2, <2>3, PlainPcs, GuardMoved
  <2>4. CASE /\ ~ Dangling(Pointer(c))
             /\ Find(Walk(Pointer(c)), "auth", request[c].uri) = None
             /\ request'[c] = n
    <3>1. ~ GuardedBut(PointerOf(request[c].domain), request[c].uri, None)
      BY <1>1, <2>4, AnchoredIf, GuardFind DEF Pointer
    <3>2. ~ Anchored(request[c].domain, request[c].uri) BY <1>1, <3>1, AnchoredIf
    <3>3. ~ request[c].guarded BY <2>1, <3>2 DEF Guarded
    <3> QED BY <2>1, <2>2, <2>4, <3>3, GuardMoved
  <2> QED BY <2>1, <2>3, <2>4
<1>5. CASE Serve(c)
  <2> DEFINE b == [request[c] EXCEPT !.pc = "auth", !.callback = None]
  <2>1. UNCHANGED <<registry, domains, freed>> /\ request'[c] \in {Done(c), b}
    BY <1>5, ServedOrBack
  <2>2. /\ b.pc = "auth" /\ b.uri = request[c].uri /\ b.domain = request[c].domain
        /\ b.guarded = request[c].guarded
    BY <1>1 DEF Requests
  <2> HIDE DEF b
  <2> QED BY <2>1, <2>2, PlainPcs, GuardMoved
<1> QED BY <1>2, <1>3, <1>4, <1>5

LEMMA GuardBegun ==
  ASSUME ListInv, Shape, NEW c \in Conns, NEW host, NEW u \in Asked, BeginRequest(c, host, u)
  PROVE  Guarded(c)'
<1>0. PICK d : d = Chosen(c, host) OBVIOUS
<1>1. d \in Domains \cup {MainHost} BY <1>0 DEF Chosen, Shape, Requests
<1>2. /\ UNCHANGED <<registry, domains, freed>>
      /\ request'[c].pc = "lookup" /\ request'[c].uri = u /\ request'[c].domain = d
      /\ request'[c].guarded = GuardedBut(PointerOf(d), u, None)
  BY <1>0, Begun
<1>3. Anchored(d, u) <=> GuardedBut(PointerOf(d), u, None) BY <1>1, AnchoredIf
<1>4. HostList' = HostList /\ cell' = cell BY <1>2, SameList DEF registry
<1>5. domHead' = domHead BY <1>2 DEF domains
<1>6. Anchored(d, u) => Anchored(d, u)' BY <1>4, <1>5 DEF Anchored, Covered, Matches
<1>7. request'[c].guarded => Anchored(d, u)' BY <1>2, <1>3, <1>6
<1> QED BY <1>2, <1>7 DEF Guarded, Anchored, Covered, Matches

LEMMA GuardStep ==
  ASSUME ListInv, Shape, DomainInv, GuardInv, [Next]_vars PROVE GuardInv'
<1> SUFFICES ASSUME NEW c \in Conns PROVE Guarded(c)' BY DEF GuardInv
<1>1. Guarded(c) BY DEF GuardInv
<1>2. ASSUME NEW key \in Keys, RemoveRoute(key[1], key[2]) PROVE Guarded(c)'
  <2> DEFINE t == key[1]  v == key[2]  r == request[c]
  <2>1. /\ request'[c].pc = r.pc /\ request'[c].domain = r.domain
        /\ request'[c].uri = r.uri /\ request'[c].auth = r.auth
        /\ request'[c].guarded => r.guarded /\ Stays(r, HostList[First(Found(t, v))])
    BY <1>2, RemoveRequest
  <2>2. r.domain \in Domains \cup {MainHost} BY DEF Shape, Requests
  <2>3. request'[c].guarded => Anchored(r.domain, r.uri)' BY <1>2, <2>1, <2>2, RemoveAnchored
  <2>4. freed' = freed BY <1>2 DEF RemoveRoute
  <2> QED BY <1>1, <2>1, <2>3, <2>4 DEF Guarded, Anchored, Covered, Matches
<1>3. ASSUME NEW key \in Keys, NEW h \in Handlers,
             AddRoute(key[1], key[2], h) \/ UpdateRoute(key[1], key[2], h)
      PROVE  Guarded(c)'
  <2>1. key[1] \in Types /\ key[2] \in Uris BY RegistryConstants DEF RegistryConstants
  <2>2. \A d, u : Anchored(d, u) => Anchored(d, u)' BY <1>3, <2>1, AddAnchored, UpdateAnchored
  <2>3. UNCHANGED <<request, freed>> BY <1>3 DEF AddRoute, UpdateRoute
  <2> QED BY <1>1, <2>2, <2>3, GuardKept
<1>4. CASE FreeRoutes
  <2>1. freed' /\ request' = request BY <1>4 DEF FreeRoutes
  <2> QED BY <1>1, <2>1, GuardKept
<1>5. CASE Adding \/ UNCHANGED vars
  <2>1. UNCHANGED <<registry, request, freed>>
    BY <1>5 DEF Adding, BuildDomain, LinkDomain, vars, registry
  <2>2. request[c].domain = MainHost \/ domHead'[request[c].domain] = domHead[request[c].domain]
    <3>1. OnDomain(c) BY DEF DomainInv
    <3> QED BY <1>5, <3>1 DEF OnDomain, Adding, BuildDomain, LinkDomain, vars, Shape
  <2>3. \A u : Anchored(request[c].domain, u) => Anchored(request[c].domain, u)'
    <3> SUFFICES ASSUME NEW d, d = request[c].domain, d = MainHost \/ domHead'[d] = domHead[d],
                        NEW u, Anchored(d, u)
                 PROVE  Anchored(d, u)'
      BY <2>1, <2>2 DEF Anchored, Covered, Matches
    <3> QED BY <2>1, SameAnchored
  <2> QED BY <1>1, <2>1, <2>3, GuardKept
<1>6. ASSUME NEW b \in Conns, b # c,
             \/ AnswerEarly(b) \/ LookUp(b) \/ Authorize(b) \/ Serve(b)
             \/ \E host \in Domains \cup {MainHost, None}, u \in Asked : BeginRequest(b, host, u)
      PROVE  Guarded(c)'
  <2>1. UNCHANGED <<registry, domains, freed>> /\ request'[c] = request[c]
    BY <1>6 DEF AnswerEarly, LookUp, Authorize, Serve, BeginRequest, Shape
  <2> QED BY <1>1, <2>1, GuardMoved DEF Guarded
<1>7. ASSUME NEW b \in Conns, UseFreed(b) PROVE Guarded(c)'
  <2>1. /\ freed /\ UNCHANGED <<registry, domains, freed>>
        /\ (request'[c] = request[c] \/ request'[c] = Crashed)
    BY <1>7 DEF UseFreed, Shape
  <2> QED BY <1>1, <2>1, PlainPcs, GuardMoved DEF Guarded
<1> QED
  BY <1>1, <1>2, <1>3, <1>4, <1>5, <1>6, <1>7, GuardRequest, GuardBegun
  DEF Next, Editing, Requesting

(* Whatever routes are set, updated and deleted and whatever domains are   *)
(* added meanwhile: what the list of a request's domain protected when it  *)
(* came, and has since, a route or a file serves to it only after an       *)
(* authorization handler accepted it.                                      *)
THEOREM ProtectedStaysChecked == Spec => []ProtectedIsChecked
<1>1. Init => ListInv /\ Shape /\ DomainInv /\ GuardInv
  <2>1. Init => GuardInv BY DEF Init, GuardInv, Guarded, Idle
  <2>2. Idle \in Requests BY DEF Idle, Requests
  <2>3. Init => Shape BY <2>2 DEF Init, Shape, Pointers
  <2>4. Init => DomainInv BY DEF Init, DomainInv, OnDomain, Idle
  <2> QED BY <2>1, <2>3, <2>4, InitList
<1>2. (ListInv /\ Shape /\ DomainInv /\ GuardInv) /\ [Next]_vars
        => (ListInv /\ Shape /\ DomainInv /\ GuardInv)'
  BY ListStep, ShapeStep, DomainStep, GuardStep
<1>3. GuardInv => ProtectedIsChecked BY DEF GuardInv, Guarded, ProtectedIsChecked
<1> QED BY <1>1, <1>2, <1>3, PTL DEF Spec

-----------------------------------------------------------------------------
(* What an added domain answers.                                           *)

(* The copy of the head is the head, as long as the first route remains. *)
AlikeInv == \A d \in alike : d \in Domains /\ (freed \/ (domHead[d] = head /\ head # None))

LEMMA HeadLives == ASSUME ListInv PROVE ~ Dangling(head) /\ (head = None <=> HostList = <<>>)
<1>1. HostList \in Seq(Cells) /\ Len(HostList) \in Nat BY HostFacts
<1>2. CASE Len(HostList) = 0
  <2>1. HostList = <<>> /\ head = None BY <1>1, <1>2, EmptySeq DEF ListInv, Linked
  <2> QED BY <2>1 DEF Dangling
<1>3. CASE Len(HostList) # 0
  <2>1. 1 \in 1..Len(HostList) /\ HostList # <<>> BY <1>1, <1>3
  <2>2. head = HostList[1] BY <1>3 DEF ListInv, Linked
  <2>3. HostList[1] \in Cells /\ cell[HostList[1]] # None /\ HostList[1] # None
    BY <2>1, HostFacts DEF ListInv, Linked
  <2> QED BY <2>1, <2>2, <2>3 DEF Dangling, live
<1> QED BY <1>2, <1>3

LEMMA AlikeStep == ASSUME ListInv, Shape, AlikeInv, [Next]_vars PROVE AlikeInv'
<1>1. ASSUME NEW key \in Keys, RemoveRoute(key[1], key[2]) PROVE AlikeInv'
  <2>1. \/ alike' = {}
        \/ alike' = alike /\ head' = head /\ domHead' = domHead /\ freed' = freed
    BY <1>1 DEF RemoveRoute
  <2> QED BY <2>1 DEF AlikeInv
<1>2. ASSUME NEW key \in Keys, NEW h \in Handlers, AddRoute(key[1], key[2], h) PROVE AlikeInv'
  <2>1. alike' = alike /\ domHead' = domHead /\ freed' = freed /\ ~ freed
    BY <1>2 DEF AddRoute, domains
  <2>2. HostList # <<>> => head' = head BY <1>2 DEF AddRoute
  <2>3. head # None => head' = head BY <2>2, HeadLives
  <2> QED BY <2>1, <2>3 DEF AlikeInv
<1>3. ASSUME NEW key \in Keys, NEW h \in Handlers, UpdateRoute(key[1], key[2], h) PROVE AlikeInv'
  BY <1>3 DEF UpdateRoute, domains, AlikeInv
<1>4. CASE FreeRoutes BY <1>4 DEF FreeRoutes, domains, AlikeInv
<1>5. ASSUME NEW d \in Domains, BuildDomain(d) PROVE AlikeInv'
  BY <1>5 DEF BuildDomain, registry, AlikeInv, Shape
<1>6. CASE \/ \E d \in Domains : LinkDomain(d)
           \/ Requesting
           \/ UNCHANGED vars
  <2>1. UNCHANGED <<alike, domHead, head, freed>>
    BY <1>6 DEF LinkDomain, Requesting, BeginRequest, AnswerEarly, LookUp, Authorize, Serve,
                UseFreed, registry, domains, vars
  <2> QED BY <2>1 DEF AlikeInv
<1> QED BY <1>1, <1>2, <1>3, <1>4, <1>5, <1>6 DEF Next, Editing, Adding

(* Whatever is set, updated and deleted behind the route that was first    *)
(* when a domain copied the head, the domain answers as the main host.     *)
THEOREM DomainsAnswerAlike == Spec => DomainAnswersAlike
<1>1. ASSUME ListInv, Shape, AlikeInv, [Next]_vars, NEW c \in Conns,
             request[c].domain \in alike, ~ freed
      PROVE  /\ request[c].pc # "crashed" => request'[c].pc # "crashed"
             /\ request[c].pc = "lookup" /\ request'[c].pc = "auth" =>
                  request'[c].callback = Find(HostList, "request", request[c].uri)
             /\ request[c].pc = "auth" /\ request'[c].pc = "serve" =>
                  (request'[c].auth = "accepted" <=> Protected(request[c].uri))
  <2>1. request[c] \in Requests BY <1>1 DEF Shape
  <2>2. Pointer(c) = head
    BY <1>1, RegistryConstants DEF AlikeInv, Pointer, PointerOf, RegistryConstants
  <2>3. Walk(Pointer(c)) = HostList /\ ~ Dangling(Pointer(c))
    BY <1>1, <2>2, HeadLives DEF HostList
  <2>4. CASE LookUp(c)
    <3> DEFINE f == Find(HostList, "request", request[c].uri)
               r == [request[c] EXCEPT !.pc = "auth", !.callback = f]
    <3>1. request[c].pc = "lookup" /\ request'[c] = r BY <1>1, <2>3, <2>4, LookedUp
    <3> HIDE DEF f
    <3>2. r.pc = "auth" /\ r.callback = f BY <2>1 DEF Requests
    <3> HIDE DEF r
    <3> QED BY <3>1, <3>2 DEF f
  <2>5. CASE Authorize(c)
    <3> DEFINE a == [request[c] EXCEPT !.pc = "serve", !.auth = "accepted"]
               n == [request[c] EXCEPT !.pc = "serve", !.auth = "none"]
    <3>1. /\ request[c].pc = "auth"
          /\ \/ Protected(request[c].uri) /\ request'[c] = a
             \/ ~ Protected(request[c].uri) /\ request'[c] = n
             \/ request'[c] = Done(c)
      BY <1>1, <2>3, <2>5, Authorized DEF Protected
    <3>2. a.pc = "serve" /\ a.auth = "accepted" /\ n.pc = "serve" /\ n.auth = "none"
      BY <2>1 DEF Requests
    <3>3. Done(c).pc = "idle" BY <1>1, PlainPcs
    <3> HIDE DEF a, n
    <3> QED BY <3>1, <3>2, <3>3
  <2>6. CASE Serve(c)
    <3> DEFINE b == [request[c] EXCEPT !.pc = "auth", !.callback = None]
    <3>1. request[c].pc = "serve" /\ request'[c] \in {Done(c), b} BY <1>1, <2>6, ServedOrBack
    <3>2. b.pc = "auth" BY <2>1 DEF Requests
    <3>3. Done(c).pc = "idle" BY <1>1, PlainPcs
    <3> HIDE DEF b
    <3> QED BY <3>1, <3>2, <3>3
  <2>7. CASE AnswerEarly(c)
    <3>1. request'[c] = Done(c) /\ Done(c).pc = "idle" BY <1>1, <2>7, PlainPcs DEF AnswerEarly, Shape
    <3> QED BY <3>1
  <2>8. CASE \E host \in Domains \cup {MainHost, None}, u \in Asked : BeginRequest(c, host, u)
    <3>1. request[c].pc = "idle" /\ request'[c].pc = "lookup" BY <1>1, <2>8, Begun
    <3> QED BY <3>1
  <2>9. CASE request'[c].pc = request[c].pc BY <2>9
  <2>10. ~ UseFreed(c) BY <1>1 DEF UseFreed
  <2> QED BY <1>1, <2>4, <2>5, <2>6, <2>7, <2>8, <2>9, <2>10, MovedBy
<1>2. ListInv /\ Shape /\ AlikeInv /\ [Next]_vars =>
        [\A c \in Conns :
           request[c].domain \in alike /\ ~ freed =>
             /\ request[c].pc # "crashed" => request'[c].pc # "crashed"
             /\ request[c].pc = "lookup" /\ request'[c].pc = "auth" =>
                  request'[c].callback = Find(HostList, "request", request[c].uri)
             /\ request[c].pc = "auth" /\ request'[c].pc = "serve" =>
                  (request'[c].auth = "accepted" <=> Protected(request[c].uri))]_vars
  BY <1>1
<1>3. Init => ListInv /\ Shape /\ AlikeInv
  <2>1. Idle \in Requests BY DEF Idle, Requests
  <2>2. Init => Shape BY <2>1 DEF Init, Shape, Pointers
  <2>3. Init => AlikeInv BY DEF Init, AlikeInv
  <2> QED BY <2>2, <2>3, InitList
<1>4. (ListInv /\ Shape /\ AlikeInv) /\ [Next]_vars => (ListInv /\ Shape /\ AlikeInv)'
  BY ListStep, ShapeStep, AlikeStep
<1> QED BY <1>2, <1>3, <1>4, PTL DEF Spec, DomainAnswersAlike
LEMMA ExactStep ==
  ASSUME ListInv, Shape, [Next]_vars, NEW c \in Conns,
         request[c].pc = "lookup", request'[c].pc = "auth", request[c].domain = MainHost,
         Found("request", request[c].uri) # {}
  PROVE  request'[c].callback = cell[HostList[First(Found("request", request[c].uri))]].handler
<1>1. \A r \in Requests : [request EXCEPT ![c] = r][c] = r BY DEF Shape
<1>2. request[c] \in Requests BY DEF Shape
<1>3. LookUp(c)
  <2>1. ~ (Authorize(c) \/ Serve(c)) BY DEF Authorize, Serve
  <2>2. ~ AnswerEarly(c) BY PlainPcs DEF AnswerEarly, Shape
  <2>3. ~ UseFreed(c) BY PlainPcs DEF UseFreed, Shape
  <2>4. ASSUME NEW host, NEW u, BeginRequest(c, host, u) PROVE FALSE BY <2>4, Begun
  <2> QED BY <2>1, <2>2, <2>3, <2>4, MovedBy
<1>4. ~ Dangling(Pointer(c))
  <2>1. Dangling(Pointer(c)) => request'[c] = Crashed BY <1>3 DEF LookUp, Shape
  <2>2. Crashed.pc = "crashed" BY DEF Crashed, Idle
  <2> QED BY <2>1, <2>2
<1>5. Walk(Pointer(c)) = HostList BY DEF Pointer, PointerOf, HostList
<1> DEFINE f == Find(HostList, "request", request[c].uri)
           r == [request[c] EXCEPT !.pc = "auth", !.callback = f]
<1>6. request' = [request EXCEPT ![c] = r] BY <1>3, <1>4, <1>5 DEF LookUp
<1>7. f = cell[HostList[First(Found("request", request[c].uri))]].handler BY HostFind
<1> HIDE DEF f
<1>8. r.callback = f BY <1>2 DEF Requests
<1>9. request'[c] = r BY <1>6 DEF Shape
<1> QED BY <1>7, <1>8, <1>9

(* The exact route wins against every prefix and pattern, in whatever      *)
(* order they were registered.                                             *)
THEOREM ExactAlwaysWins == Spec => ExactRouteWins
<1>1. Init => ListInv /\ Shape
  <2>1. Idle \in Requests BY DEF Idle, Requests
  <2>2. Init => Shape BY <2>1 DEF Init, Shape, Pointers
  <2> QED BY <2>2, InitList
<1>2. (ListInv /\ Shape) /\ [Next]_vars => (ListInv /\ Shape)' BY ListStep, ShapeStep
<1>3. ListInv /\ Shape /\ [Next]_vars =>
        [\A c \in Conns :
           /\ request[c].pc = "lookup" /\ request'[c].pc = "auth" /\ request[c].domain = MainHost
           /\ Found("request", request[c].uri) # {}
           => request'[c].callback = cell[HostList[First(Found("request", request[c].uri))]].handler]_vars
  BY ExactStep
<1> QED BY <1>1, <1>2, <1>3, PTL DEF Spec, ExactRouteWins

-----------------------------------------------------------------------------
(* Refinement: the list implements RouteTable.                             *)

Entries == [type : Types, uri : Uris, handler : Handlers]

LEMMA HostRoutesFacts ==
  ListInv => /\ HostRoutes \in Seq(Entries) /\ Len(HostRoutes) = Len(HostList)
             /\ Len(HostList) \in Nat
             /\ \A i \in 1..Len(HostList) :
                  HostRoutes[i] = [type |-> cell[HostList[i]].type, uri |-> cell[HostList[i]].uri,
                                   handler |-> cell[HostList[i]].handler]
<1> SUFFICES ASSUME ListInv
    PROVE  /\ HostRoutes \in Seq(Entries) /\ Len(HostRoutes) = Len(HostList)
           /\ Len(HostList) \in Nat
           /\ \A i \in 1..Len(HostList) :
                HostRoutes[i] = [type |-> cell[HostList[i]].type, uri |-> cell[HostList[i]].uri,
                                 handler |-> cell[HostList[i]].handler]
    OBVIOUS
<1> DEFINE L == HostList  n == Len(L)
           entry(i) == [type |-> cell[L[i]].type, uri |-> cell[L[i]].uri,
                        handler |-> cell[L[i]].handler]
<1>1. n \in Nat /\ \A i \in 1..n : cell[L[i]] \in Route BY HostFacts
<1>2. \A i \in 1..n : entry(i) \in Entries
  <2> SUFFICES ASSUME NEW i \in 1..n PROVE entry(i) \in Entries OBVIOUS
  <2>1. cell[L[i]] \in Route BY <1>1
  <2> QED BY <2>1, RouteFields DEF Entries
<1>3. HostRoutes = [i \in 1..n |-> entry(i)] BY DEF HostRoutes
<1> HIDE DEF L, n, entry
<1>4. HostRoutes \in [1..n -> Entries] BY <1>2, <1>3
<1>5. HostRoutes \in Seq(Entries) /\ Len(HostRoutes) = n BY <1>1, <1>4
<1>6. \A i \in 1..n : HostRoutes[i] = entry(i) BY <1>3
<1> QED BY <1>1, <1>5, <1>6 DEF L, n, entry

LEMMA HostRoutesNext ==
  (ListInv => /\ HostRoutes \in Seq(Entries) /\ Len(HostRoutes) = Len(HostList)
              /\ Len(HostList) \in Nat
              /\ \A i \in 1..Len(HostList) :
                   HostRoutes[i] = [type |-> cell[HostList[i]].type, uri |-> cell[HostList[i]].uri,
                                    handler |-> cell[HostList[i]].handler])'
BY HostRoutesFacts, PTL

LEMMA AddAppends ==
  ASSUME ListInv, NEW t \in Types, NEW u \in Uris, NEW h \in Handlers, AddRoute(t, u, h)
  PROVE  Table!Add
<1> DEFINE L == HostList  n == Len(L)  new == [type |-> t, uri |-> u, handler |-> h]
<1>1. PICK c \in Cells :
        /\ HostList' = Append(L, c)
        /\ cell'[c].type = t /\ cell'[c].uri = u /\ cell'[c].handler = h
  BY AddKeepsList
<1>2. ListInv' /\ \A i \in 1..n : SameRoute(cell[L[i]], cell'[L[i]]) BY AddKeepsList
<1>3. L \in Seq(Cells) /\ n \in Nat BY HostFacts
<1>4. /\ Len(HostList') = n + 1 /\ HostList'[n + 1] = c
      /\ \A i \in 1..n : HostList'[i] = L[i]
  BY <1>1, <1>3, AppendProperties
<1>5. new \in Entries BY DEF Entries
<1>6. HostRoutes \in Seq(Entries) /\ Len(HostRoutes) = n BY HostRoutesFacts
<1>7. /\ Append(HostRoutes, new) \in Seq(Entries) /\ Len(Append(HostRoutes, new)) = n + 1
      /\ Append(HostRoutes, new)[n + 1] = new
      /\ \A i \in 1..n : Append(HostRoutes, new)[i] = HostRoutes[i]
  <2> HIDE DEF n, new
  <2> QED BY <1>5, <1>6, AppendProperties
<1>8. HostRoutes' \in Seq(Entries) /\ Len(HostRoutes') = n + 1
  BY <1>2, <1>4, HostRoutesNext
<1>9. \A i \in 1..n + 1 : HostRoutes'[i] = Append(HostRoutes, new)[i]
  <2> SUFFICES ASSUME NEW i \in 1..n + 1 PROVE HostRoutes'[i] = Append(HostRoutes, new)[i]
    OBVIOUS
  <2>1. HostRoutes'[i] = [type |-> cell'[HostList'[i]].type, uri |-> cell'[HostList'[i]].uri,
                          handler |-> cell'[HostList'[i]].handler]
    BY <1>2, <1>4, HostRoutesNext
  <2>2. CASE i = n + 1 BY <1>1, <1>4, <1>7, <2>1, <2>2
  <2>3. CASE i # n + 1
    <3>1. i \in 1..n BY <1>3, <2>3
    <3>2. HostRoutes[i] = [type |-> cell[L[i]].type, uri |-> cell[L[i]].uri,
                           handler |-> cell[L[i]].handler]
      BY <3>1, HostRoutesFacts
    <3> QED BY <1>2, <1>4, <1>7, <2>1, <3>1, <3>2 DEF SameRoute
  <2> QED BY <2>2, <2>3
<1>10. HostRoutes' = Append(HostRoutes, new)
  <2> HIDE DEF n, new
  <2> QED BY <1>7, <1>8, <1>9, SeqEqual
<1>11. \A i, j \in 1..Len(HostRoutes') :
         HostRoutes'[i].type = HostRoutes'[j].type /\ HostRoutes'[i].uri = HostRoutes'[j].uri => i = j
  <2>1. Keyed(cell, HostList)' BY <1>2 DEF ListInv
  <2>2. \A i \in 1..n + 1 : /\ HostRoutes'[i].type = cell'[HostList'[i]].type
                            /\ HostRoutes'[i].uri = cell'[HostList'[i]].uri
    BY <1>2, <1>4, HostRoutesNext
  <2> HIDE DEF n
  <2> QED BY <1>4, <1>8, <2>1, <2>2 DEF Keyed
<1>12. Table!Distinct(HostRoutes') BY <1>11 DEF Table!Distinct
<1> QED BY <1>5, <1>10, <1>12 DEF Table!Add, Entries

LEMMA UpdateReplaces ==
  ASSUME ListInv, NEW t, NEW u, NEW h \in Handlers, UpdateRoute(t, u, h) PROVE Table!Replace
<1> DEFINE L == HostList  n == Len(L)
<1>1. ListInv' /\ HostList' = L /\ SameKeys(cell, cell', L) BY UpdateKeepsList
<1>2. PICK i \in 1..n : \A j \in 1..n : cell'[L[j]].handler = IF j = i THEN h ELSE cell[L[j]].handler
  BY UpdateKeepsList
<1> DEFINE e == [HostRoutes[i] EXCEPT !.handler = h]
<1>3. /\ HostRoutes \in Seq(Entries) /\ Len(HostRoutes) = n /\ n \in Nat
      /\ \A j \in 1..n : HostRoutes[j] = [type |-> cell[L[j]].type, uri |-> cell[L[j]].uri,
                                          handler |-> cell[L[j]].handler]
  BY HostRoutesFacts
<1>4. /\ HostRoutes' \in Seq(Entries) /\ Len(HostRoutes') = n
      /\ \A j \in 1..n : HostRoutes'[j] = [type |-> cell'[L[j]].type, uri |-> cell'[L[j]].uri,
                                           handler |-> cell'[L[j]].handler]
  BY <1>1, HostRoutesNext
<1> HIDE DEF L, n
<1>5. HostRoutes[i] \in Entries BY <1>2, <1>3, ElementOfSeq
<1>6. e \in Entries /\ e.type = cell[L[i]].type /\ e.uri = cell[L[i]].uri /\ e.handler = h
  BY <1>2, <1>3, <1>5 DEF Entries
<1>7. e = [type |-> cell[L[i]].type, uri |-> cell[L[i]].uri, handler |-> h]
  BY <1>2, <1>3, <1>5 DEF Entries
<1>8. [HostRoutes EXCEPT ![i].handler = h] = [HostRoutes EXCEPT ![i] = e] OBVIOUS
<1> HIDE DEF e
<1>9. /\ [HostRoutes EXCEPT ![i] = e] \in Seq(Entries)
      /\ Len([HostRoutes EXCEPT ![i] = e]) = n
      /\ \A j \in 1..n : [HostRoutes EXCEPT ![i] = e][j] = IF j = i THEN e ELSE HostRoutes[j]
  BY <1>2, <1>3, <1>6, ExceptSeq
<1>10. ASSUME NEW j \in 1..n PROVE HostRoutes'[j] = [HostRoutes EXCEPT ![i] = e][j]
  <2>1. cell'[L[j]].type = cell[L[j]].type /\ cell'[L[j]].uri = cell[L[j]].uri
    BY <1>1 DEF SameKeys, n
  <2>2. HostRoutes'[j] = [type |-> cell[L[j]].type, uri |-> cell[L[j]].uri,
                          handler |-> IF j = i THEN h ELSE cell[L[j]].handler]
    BY <1>2, <1>4, <2>1
  <2>3. CASE j = i BY <1>7, <1>9, <2>2, <2>3
  <2>4. CASE j # i BY <1>3, <1>9, <2>2, <2>4
  <2> QED BY <2>3, <2>4
<1>11. HostRoutes' = [HostRoutes EXCEPT ![i] = e] BY <1>4, <1>9, <1>10, SeqEqual
<1> QED BY <1>2, <1>3, <1>8, <1>11 DEF Table!Replace

LEMMA RemoveRemoves == ASSUME ListInv, NEW t, NEW u, RemoveRoute(t, u) PROVE Table!Remove
<1> DEFINE L == HostList  n == Len(L)  i == First(Found(t, u))
<1>1. /\ ListInv' /\ HostList' = Without(L, i)
      /\ \A j \in 1..n : j # i => SameRoute(cell[L[j]], cell'[L[j]])
  BY RemoveKeepsList
<1>2. L \in Seq(Cells) /\ n \in Nat BY HostFacts
<1>3. i \in 1..n
  <2>1. Found(t, u) # {} BY DEF RemoveRoute
  <2> QED BY <2>1, FoundFacts
<1> HIDE DEF i
<1>4. /\ HostRoutes \in Seq(Entries) /\ Len(HostRoutes) = n
      /\ \A j \in 1..n : HostRoutes[j] = [type |-> cell[L[j]].type, uri |-> cell[L[j]].uri,
                                          handler |-> cell[L[j]].handler]
  BY HostRoutesFacts
<1> HIDE DEF L
<1>5. /\ Len(Without(L, i)) = n - 1
      /\ \A j \in 1..n - 1 : Without(L, i)[j] = IF j < i THEN L[j] ELSE L[j + 1]
  BY <1>2, <1>3, WithoutFacts
<1> HIDE DEF n
<1>6. /\ Without(HostRoutes, i) \in Seq(Entries) /\ Len(Without(HostRoutes, i)) = n - 1
      /\ \A j \in 1..n - 1 : Without(HostRoutes, i)[j] = IF j < i THEN HostRoutes[j] ELSE HostRoutes[j + 1]
  BY <1>3, <1>4, WithoutFacts
<1>7. /\ HostRoutes' \in Seq(Entries) /\ Len(HostRoutes') = n - 1
      /\ \A j \in 1..n - 1 :
           HostRoutes'[j] = [type |-> cell'[Without(L, i)[j]].type,
                             uri |-> cell'[Without(L, i)[j]].uri,
                             handler |-> cell'[Without(L, i)[j]].handler]
  BY <1>1, <1>5, HostRoutesNext
<1>8. ASSUME NEW j \in 1..n - 1 PROVE HostRoutes'[j] = Without(HostRoutes, i)[j]
  <2>1. CASE j < i
    <3>1. j \in 1..n /\ j # i BY <1>2, <2>1
    <3>2. SameRoute(cell[L[j]], cell'[L[j]]) BY <1>1, <3>1
    <3> QED BY <1>4, <1>5, <1>6, <1>7, <2>1, <3>1, <3>2 DEF SameRoute
  <2>2. CASE ~ (j < i)
    <3>1. j + 1 \in 1..n /\ j + 1 # i BY <1>2, <1>3, <2>2
    <3>2. SameRoute(cell[L[j + 1]], cell'[L[j + 1]]) BY <1>1, <3>1
    <3> QED BY <1>4, <1>5, <1>6, <1>7, <2>2, <3>1, <3>2 DEF SameRoute
  <2> QED BY <2>1, <2>2
<1>9. HostRoutes' = Without(HostRoutes, i) BY <1>6, <1>7, <1>8, SeqEqual
<1> QED BY <1>3, <1>4, <1>9 DEF Table!Remove, Without

LEMMA NoRoutes == ListInv => (HostList = <<>> => HostRoutes = <<>>)
<1> SUFFICES ASSUME ListInv, HostList = <<>> PROVE HostRoutes = <<>> OBVIOUS
<1>1. HostRoutes \in Seq(Entries) /\ Len(HostRoutes) = 0 BY HostRoutesFacts
<1> QED BY <1>1, EmptySeq

LEMMA NoRoutesNext == (ListInv => (HostList = <<>> => HostRoutes = <<>>))'
BY NoRoutes, PTL

LEMMA TableStep == ASSUME ListInv, [Next]_vars PROVE [Table!Next]_HostRoutes
<1>1. ASSUME NEW key \in Keys, RemoveRoute(key[1], key[2]) PROVE Table!Next
  BY <1>1, RemoveRemoves DEF Table!Next
<1>2. ASSUME NEW key \in Keys, NEW h \in Handlers, AddRoute(key[1], key[2], h) PROVE Table!Next
  <2>1. key[1] \in Types /\ key[2] \in Uris BY RegistryConstants DEF RegistryConstants
  <2> QED BY <1>2, <2>1, AddAppends DEF Table!Next
<1>3. ASSUME NEW key \in Keys, NEW h \in Handlers, UpdateRoute(key[1], key[2], h)
      PROVE  Table!Next
  BY <1>3, UpdateReplaces DEF Table!Next
<1>4. CASE FreeRoutes
  <2>1. ListInv' /\ HostList' = <<>> BY <1>4, FreeKeepsList
  <2>2. HostRoutes' = <<>> BY <2>1, NoRoutesNext
  <2> QED BY <2>2 DEF Table!Next, Table!Clear
<1>5. CASE Elsewhere
  <2>1. cell' = cell /\ HostList' = HostList BY <1>5, ElsewhereSame, SameList DEF registry
  <2>2. HostRoutes' = HostRoutes BY <2>1 DEF HostRoutes
  <2> QED BY <2>2
<1> QED BY <1>1, <1>2, <1>3, <1>4, <1>5 DEF Next, Editing, Elsewhere

(* The linked list implements the table of routes: every step of the       *)
(* server adds, replaces, removes or clears entries of it, in the order of *)
(* registration, or leaves it alone.                                       *)
THEOREM ListIsTable == Spec => ImplementsTable
<1>1. Init => ListInv /\ Table!Init BY InitList, NoRoutes DEF Table!Init
<1>2. ListInv /\ [Next]_vars => ListInv' BY ListStep
<1>3. ListInv /\ [Next]_vars => [Table!Next]_HostRoutes BY TableStep
<1> QED BY <1>1, <1>2, <1>3, PTL DEF Spec, ImplementsTable, Table!Spec
-----------------------------------------------------------------------------
(* Freed routes.                                                           *)

(* A linked domain's copy of the head points at memory that was freed. *)
LeftBehind(d) == d \in Domains /\ domState[d] = "linked" /\ Dangling(domHead[d])

(* While the server runs a request can only come upon a freed route in one *)
(* way: on an additional domain that still begins at the route that was    *)
(* first when http_add_domain copied the head.  The main host never does,  *)
(* whatever is registered, updated and deleted in between.                 *)
THEOREM FreedRoutesAreLeftBehind ==
  Spec => [][\A c \in Conns : /\ ~ freed
                              /\ request[c].pc # "crashed" /\ request'[c].pc = "crashed"
                              => LeftBehind(request[c].domain)]_vars
<1> DEFINE Crashes(c) == ~ freed /\ request[c].pc # "crashed" /\ request'[c].pc = "crashed"
<1>1. ASSUME ListInv, Shape, DomainInv, [Next]_vars, NEW c \in Conns, Crashes(c)
      PROVE  LeftBehind(request[c].domain)
  <2>1. ~ Dangling(head) BY <1>1, HeadLives
  <2>2. Dangling(Pointer(c))
    <3>1. request[c] \in Requests BY <1>1 DEF Shape
    <3>2. CASE LookUp(c)
      <4> DEFINE r == [request[c] EXCEPT !.pc = "auth",
                         !.callback = Find(Walk(Pointer(c)), "request", request[c].uri)]
      <4>1. Dangling(Pointer(c)) \/ request'[c] = r BY <1>1, <3>2, LookedUp
      <4>2. r.pc = "auth" BY <3>1 DEF Requests
      <4> HIDE DEF r
      <4> QED BY <1>1, <4>1, <4>2
    <3>3. CASE Authorize(c)
      <4> DEFINE a == [request[c] EXCEPT !.pc = "serve", !.auth = "accepted"]
                 n == [request[c] EXCEPT !.pc = "serve", !.auth = "none"]
      <4>1. Dangling(Pointer(c)) \/ request'[c] \in {Done(c), a, n} BY <1>1, <3>3, Authorized
      <4>2. Done(c).pc = "idle" /\ a.pc = "serve" /\ n.pc = "serve"
        BY <1>1, <3>1, PlainPcs DEF Requests
      <4> HIDE DEF a, n
      <4> QED BY <1>1, <4>1, <4>2
    <3>4. ~ Serve(c)
      <4> DEFINE b == [request[c] EXCEPT !.pc = "auth", !.callback = None]
      <4>1. Serve(c) => request'[c] \in {Done(c), b} BY <1>1, ServedOrBack
      <4>2. Done(c).pc = "idle" /\ b.pc = "auth" BY <1>1, <3>1, PlainPcs DEF Requests
      <4> HIDE DEF b
      <4> QED BY <1>1, <4>1, <4>2
    <3>5. ~ AnswerEarly(c)
      <4>1. AnswerEarly(c) => request'[c] = Done(c) BY <1>1 DEF AnswerEarly, Shape
      <4> QED BY <1>1, <4>1, PlainPcs
    <3>6. ASSUME NEW host, NEW u, BeginRequest(c, host, u) PROVE FALSE
      BY <1>1, <3>6, Begun
    <3>7. ~ UseFreed(c) BY <1>1 DEF UseFreed
    <3> QED BY <1>1, <3>2, <3>3, <3>4, <3>5, <3>6, <3>7, MovedBy
  <2>3. request[c].domain # MainHost BY <2>1, <2>2 DEF Pointer, PointerOf
  <2> QED BY <1>1, <2>2, <2>3 DEF Pointer, PointerOf, DomainInv, OnDomain, LeftBehind
<1>2. ListInv /\ Shape /\ DomainInv /\ [Next]_vars =>
        [\A c \in Conns : /\ ~ freed
                          /\ request[c].pc # "crashed" /\ request'[c].pc = "crashed"
                          => LeftBehind(request[c].domain)]_vars
  BY <1>1
<1>3. Init => ListInv /\ Shape /\ DomainInv
  <2>1. Idle \in Requests BY DEF Idle, Requests
  <2>2. Init => Shape BY <2>1 DEF Init, Shape, Pointers
  <2>3. Init => DomainInv BY DEF Init, DomainInv, OnDomain, Idle
  <2> QED BY <2>2, <2>3, InitList
<1>4. (ListInv /\ Shape /\ DomainInv) /\ [Next]_vars => (ListInv /\ Shape /\ DomainInv)'
  BY ListStep, ShapeStep, DomainStep
<1> QED BY <1>2, <1>3, <1>4, PTL DEF Spec
=============================================================================
