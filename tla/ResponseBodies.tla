---------------------------- MODULE ResponseBodies ----------------------------
(***************************************************************************)
(* Theorems about Response on top of ResponseProofs: that a client which   *)
(* is kept for another request got the length it was told, for any file,   *)
(* blocks, ranges and throttles (the sum of a sequence, what the blocks of *)
(* a file add up to, and the balance of what was sent and what is still to *)
(* be written), and that every step of a call brings it nearer to its end. *)
(***************************************************************************)
EXTENDS ResponseProofs, WellFoundedInduction

LEMMA LeastOf == ASSUME NEW s \in SUBSET Nat, s # {} PROVE \E i \in s : \A j \in s : i <= j
<1>1. IsWellFoundedOn({r \in Nat \X Nat : r[1] < r[2]}, Nat)
  BY NatLessThanWellFounded DEF OpToRel
<1>2. PICK i \in s : \A j \in s : ~ (<<j, i>> \in {r \in Nat \X Nat : r[1] < r[2]})
  BY <1>1, WFMin
<1>3. \A j \in s : ~ (j < i) BY <1>2
<1> QED BY <1>3

-----------------------------------------------------------------------------
(* Sums. *)

(* g holds the sums of the first k elements of b, for k up to n. *)
Sums(b, n, g) ==
  /\ g[0] = 0
  /\ \A k \in 1..n : g[k] = g[k - 1] + b[k]
  /\ \A k \in 0..n : g[k] \in Nat

(* Sums exist: for the least length without them, those of the length      *)
(* before it and one more element would do.                                *)
LEMMA SumsExist == ASSUME NEW b \in Seq(Nat) PROVE \E g : Sums(b, Len(b), g)
<1> DEFINE Bad == {m \in 0..Len(b) : ~ \E g : Sums(b, m, g)}
<1> SUFFICES ASSUME Bad # {} PROVE FALSE
  <2>1. Len(b) \in 0..Len(b) OBVIOUS
  <2> QED BY <2>1
<1>1. Bad \in SUBSET Nat OBVIOUS
<1>2. PICK m \in Bad : \A j \in Bad : m <= j
  <2> HIDE DEF Bad
  <2> QED BY <1>1, LeastOf
<1>3. m \in 0..Len(b) /\ m \in Nat /\ ~ \E g : Sums(b, m, g) OBVIOUS
<1>4. CASE m = 0
  <2> DEFINE g == [k \in {0} |-> 0]
  <2>1. Sums(b, 0, g) BY DEF Sums
  <2> QED BY <1>3, <1>4, <2>1
<1>5. CASE m > 0
  <2>1. m - 1 \in 0..Len(b) /\ m - 1 \in Nat /\ m - 1 \notin Bad BY <1>2, <1>3, <1>5
  <2>2. PICK g : Sums(b, m - 1, g) BY <2>1
  <2> DEFINE h == [k \in 0..m |-> IF k = m THEN g[m - 1] + b[m] ELSE g[k]]
  <2>3. /\ h[m] = g[m - 1] + b[m] /\ \A k \in 0..m - 1 : h[k] = g[k]
        /\ g[m - 1] \in Nat /\ b[m] \in Nat
    <3>1. m \in 1..Len(b) BY <1>3, <1>5
    <3>2. b[m] \in Nat BY <3>1
    <3>3. m - 1 \in 0..m - 1 BY <2>1
    <3>4. g[m - 1] \in Nat BY <2>2, <3>3 DEF Sums
    <3> QED BY <1>3, <3>2, <3>4
  <2> HIDE DEF h
  <2>4. 0 \in 0..m - 1 /\ m - 1 \in 0..m - 1 BY <1>3, <1>5
  <2>5. h[0] = 0 BY <2>2, <2>3, <2>4 DEF Sums
  <2>6. ASSUME NEW k \in 1..m PROVE h[k] = h[k - 1] + b[k]
    <3>1. CASE k = m BY <2>3, <2>4, <3>1
    <3>2. CASE k # m
      <4>1. k \in 1..m - 1 /\ k \in 0..m - 1 /\ k - 1 \in 0..m - 1 BY <1>3, <3>2
      <4> QED BY <2>2, <2>3, <4>1 DEF Sums
    <3> QED BY <3>1, <3>2
  <2>7. ASSUME NEW k \in 0..m PROVE h[k] \in Nat
    <3>1. CASE k = m BY <2>3, <3>1
    <3>2. CASE k # m
      <4>1. k \in 0..m - 1 BY <1>3, <3>2
      <4> QED BY <2>2, <2>3, <4>1 DEF Sums
    <3> QED BY <3>1, <3>2
  <2>8. Sums(b, m, h) BY <2>5, <2>6, <2>7 DEF Sums
  <2> QED BY <1>3, <2>8
<1> QED BY <1>3, <1>4, <1>5

(* And there is one way to sum. *)
LEMMA TotalIs ==
  ASSUME NEW b \in Seq(Nat), NEW g, Sums(b, Len(b), g) PROVE Total(b) = g[Len(b)]
<1> DEFINE n == Len(b)
           upto == CHOOSE f : f = [k \in 0..n |-> IF k = 0 THEN 0 ELSE f[k - 1] + b[k]]
           f == [k \in 0..n |-> g[k]]
<1>1. n \in Nat OBVIOUS
<1>2. Total(b) = upto[n] BY DEF Total
<1> HIDE DEF n
<1>3. ASSUME NEW k \in 0..n PROVE f[k] = IF k = 0 THEN 0 ELSE f[k - 1] + b[k]
  <2>1. f[k] = g[k] OBVIOUS
  <2>2. CASE k = 0 BY <2>1, <2>2 DEF Sums
  <2>3. CASE k # 0
    <3>1. k \in 1..n /\ k - 1 \in 0..n BY <1>1, <2>3
    <3>2. f[k - 1] = g[k - 1] BY <3>1
    <3>3. g[k] = g[k - 1] + b[k] BY <3>1 DEF Sums, n
    <3> HIDE DEF f
    <3> QED BY <2>1, <2>3, <3>2, <3>3
  <2> QED BY <2>2, <2>3
<1>4. f = [k \in 0..n |-> f[k]] OBVIOUS
<1> HIDE DEF f
<1>5. f = [k \in 0..n |-> IF k = 0 THEN 0 ELSE f[k - 1] + b[k]] BY <1>3, <1>4
<1>6. upto = [k \in 0..n |-> IF k = 0 THEN 0 ELSE upto[k - 1] + b[k]] BY <1>5
<1> HIDE DEF upto
<1>7. /\ upto[0] = 0
      /\ \A k \in 1..n : upto[k] = upto[k - 1] + b[k]
  <2>1. 0 \in 0..n BY <1>1
  <2>2. upto[0] = 0 BY <1>6, <2>1
  <2>3. ASSUME NEW k \in 1..n PROVE upto[k] = upto[k - 1] + b[k]
    <3>1. k \in 0..n /\ k # 0 BY <1>1
    <3> QED BY <1>6, <3>1
  <2> QED BY <2>2, <2>3
<1> DEFINE Bad == {k \in 0..n : upto[k] # g[k]}
<1>8. Bad = {}
  <2> SUFFICES ASSUME Bad # {} PROVE FALSE OBVIOUS
  <2>1. Bad \in SUBSET Nat BY <1>1
  <2>2. PICK k \in Bad : \A j \in Bad : k <= j
    <3> HIDE DEF Bad
    <3> QED BY <2>1, LeastOf
  <2>3. k \in 0..n /\ upto[k] # g[k] OBVIOUS
  <2>4. k # 0 BY <1>7, <2>3 DEF Sums
  <2>5. k \in 1..n /\ k - 1 \in 0..n /\ ~ (k <= k - 1) BY <1>1, <2>3, <2>4
  <2>6. upto[k - 1] = g[k - 1] BY <2>2, <2>5
  <2>7. g[k] = g[k - 1] + b[k] BY <2>5 DEF Sums, n
  <2> QED BY <1>7, <2>3, <2>5, <2>6, <2>7
<1>9. n \in 0..n BY <1>1
<1>10. upto[n] = g[n] BY <1>8, <1>9
<1> QED BY <1>2, <1>10 DEF n

LEMMA TotalConcat ==
  ASSUME NEW a \in Seq(Nat), NEW b \in Seq(Nat)
  PROVE  Total(a \o b) = Total(a) + Total(b) /\ Total(a) \in Nat /\ Total(b) \in Nat
<1> DEFINE s == a \o b
           m == Len(a)
           n == Len(b)
<1>1. PICK f : Sums(a, m, f) BY SumsExist
<1>2. PICK g : Sums(b, n, g) BY SumsExist
<1>3. Total(a) = f[m] /\ Total(b) = g[n] BY <1>1, <1>2, TotalIs
<1>4. /\ s \in Seq(Nat) /\ Len(s) = m + n /\ m \in Nat /\ n \in Nat
      /\ \A i \in 1..(m + n) : s[i] = IF i <= m THEN a[i] ELSE b[i - m]
  BY ConcatProperties
<1> HIDE DEF s, m, n
<1> DEFINE h == [k \in 0..(m + n) |-> IF k <= m THEN f[k] ELSE f[m] + g[k - m]]
<1>5. \A k \in 0..m + n : h[k] = IF k <= m THEN f[k] ELSE f[m] + g[k - m] OBVIOUS
<1> HIDE DEF h
<1>6. f[0] = 0 /\ g[0] = 0 /\ (\A k \in 0..m : f[k] \in Nat) /\ (\A k \in 0..n : g[k] \in Nat)
  BY <1>1, <1>2 DEF Sums
<1>7. m \in 0..m /\ n \in 0..n /\ 0 \in 0..m + n /\ m + n \in 0..m + n BY <1>4
<1>8. h[0] = 0 BY <1>4, <1>5, <1>6, <1>7
<1>9. ASSUME NEW k \in 0..m + n PROVE h[k] \in Nat
  <2>1. CASE k <= m
    <3>1. k \in 0..m BY <1>4, <2>1
    <3> QED BY <1>5, <1>6, <2>1, <3>1
  <2>2. CASE ~ (k <= m)
    <3>1. k - m \in 0..n BY <1>4, <2>2
    <3>2. f[m] \in Nat /\ g[k - m] \in Nat BY <1>6, <1>7, <3>1
    <3>3. h[k] = f[m] + g[k - m] BY <1>5, <2>2
    <3> QED BY <3>2, <3>3
  <2> QED BY <2>1, <2>2
<1>10. ASSUME NEW k \in 1..m + n PROVE h[k] = h[k - 1] + s[k]
  <2>0. k \in 0..m + n /\ k - 1 \in 0..m + n BY <1>4
  <2>1. CASE k <= m
    <3>1. k \in 1..m /\ k - 1 <= m BY <1>4, <2>1
    <3>2. f[k] = f[k - 1] + a[k] BY <1>1, <3>1 DEF Sums
    <3> QED BY <1>4, <1>5, <2>0, <2>1, <3>1, <3>2
  <2>2. CASE k = m + 1
    <3>1. 1 \in 1..n /\ k - m = 1 /\ k - 1 = m /\ ~ (k <= m) /\ k - 1 <= m BY <1>4, <2>2
    <3>2. g[1] = g[1 - 1] + b[1] BY <1>2, <3>1 DEF Sums
    <3>3. g[1] = b[1]
      <4>1. 1 - 1 = 0 OBVIOUS
      <4>2. b[1] \in Nat BY <3>1 DEF n
      <4> QED BY <1>6, <3>2, <4>1, <4>2
    <3>4. h[k] = f[m] + g[1] /\ h[k - 1] = f[m] /\ s[k] = b[1]
      BY <1>4, <1>5, <2>0, <3>1
    <3> QED BY <3>3, <3>4
  <2>3. CASE k > m + 1
    <3>1. /\ k - m \in 1..n /\ k - m \in 0..n /\ (k - 1) - m \in 0..n
          /\ ~ (k <= m) /\ ~ (k - 1 <= m) /\ (k - m) - 1 = (k - 1) - m
      BY <1>4, <2>3
    <3>2. g[k - m] = g[(k - 1) - m] + b[k - m] BY <1>2, <3>1 DEF Sums
    <3>3. h[k] = f[m] + g[k - m] /\ h[k - 1] = f[m] + g[(k - 1) - m] /\ s[k] = b[k - m]
      BY <1>4, <1>5, <2>0, <3>1
    <3>4. b[k - m] \in Nat BY <3>1 DEF n
    <3>5. f[m] \in Nat /\ g[(k - 1) - m] \in Nat BY <1>6, <1>7, <3>1
    <3> QED BY <3>2, <3>3, <3>4, <3>5
  <2> QED BY <1>4, <2>1, <2>2, <2>3
<1>11. Sums(s, Len(s), h) BY <1>4, <1>8, <1>9, <1>10 DEF Sums
<1>12. Total(s) = h[m + n] BY <1>4, <1>11, TotalIs
<1>13. h[m + n] = f[m] + g[n]
  <2>1. CASE n = 0 BY <1>4, <1>5, <1>6, <1>7, <2>1
  <2>2. CASE n > 0
    <3>1. ~ (m + n <= m) /\ (m + n) - m = n BY <1>4, <2>2
    <3> QED BY <1>5, <1>7, <3>1
  <2> QED BY <1>4, <2>1, <2>2
<1> QED BY <1>3, <1>6, <1>7, <1>12, <1>13 DEF s

LEMMA TotalOne == ASSUME NEW x \in Nat PROVE Total(<<x>>) = x /\ Total(<<>>) = 0
<1> DEFINE g == [k \in 0..1 |-> IF k = 0 THEN 0 ELSE x]
<1>1. <<x>> \in Seq(Nat) /\ Len(<<x>>) = 1 /\ <<x>>[1] = x OBVIOUS
<1>2. Sums(<<x>>, 1, g) BY <1>1 DEF Sums
<1>3. Total(<<x>>) = g[1]
  <2> HIDE DEF g
  <2> QED BY <1>1, <1>2, TotalIs
<1> DEFINE z == [k \in {0} |-> 0]
<1>4. <<>> \in Seq(Nat) /\ Len(<<>>) = 0 OBVIOUS
<1>5. Sums(<<>>, 0, z) BY DEF Sums
<1>6. Total(<<>>) = z[0]
  <2> HIDE DEF z
  <2> QED BY <1>4, <1>5, TotalIs
<1> QED BY <1>3, <1>6

-----------------------------------------------------------------------------
(* The bytes of a body, sent and to be sent. *)

SentBytes(p) == IF p.kind = "body" THEN p.sent ELSE 0
PlannedBytes(p) == IF p.kind = "body" THEN p.len ELSE 0

BodyLeft(s) == Total([i \in DOMAIN s |-> PlannedBytes(s[i])])

LEMMA BodySentIs == BodySent = Total([i \in DOMAIN wire |-> SentBytes(wire[i])])
BY DEF BodySent, SentBytes

LEMMA SentAppend ==
  ASSUME NEW w \in Seq(WirePiece), NEW p \in WirePiece
  PROVE  LET sent(s) == Total([i \in DOMAIN s |-> SentBytes(s[i])])
         IN  sent(Append(w, p)) = sent(w) + SentBytes(p) /\ sent(w) \in Nat
<1> DEFINE bytes(s) == [i \in DOMAIN s |-> SentBytes(s[i])]
           x == SentBytes(p)
<1>1. \A q \in WirePiece : SentBytes(q) \in Nat BY DEF WirePiece, SentBytes
<1>2. x \in Nat BY <1>1
<1>3. Len(w) \in Nat /\ DOMAIN w = 1..Len(w) /\ \A i \in DOMAIN w : w[i] \in WirePiece OBVIOUS
<1>4. /\ DOMAIN Append(w, p) = 1..(Len(w) + 1)
      /\ \A i \in 1..(Len(w) + 1) : Append(w, p)[i] = IF i <= Len(w) THEN w[i] ELSE p
  BY AppendProperties
<1>5. bytes(w) \in Seq(Nat) /\ Len(bytes(w)) = Len(w)
  BY <1>1, <1>3, IsASeq
<1>6. bytes(Append(w, p)) = bytes(w) \o <<x>>
  <2>1. <<x>> \in Seq(Nat) /\ Len(<<x>>) = 1 /\ <<x>>[1] = x BY <1>2
  <2>2. /\ DOMAIN (bytes(w) \o <<x>>) = 1..(Len(w) + 1)
        /\ \A i \in 1..(Len(w) + 1) :
             (bytes(w) \o <<x>>)[i] = IF i <= Len(w) THEN bytes(w)[i] ELSE <<x>>[i - Len(w)]
        /\ bytes(w) \o <<x>> \in Seq(Nat)
    <3> HIDE DEF bytes, x
    <3> QED BY <1>5, <2>1, ConcatProperties
  <2>3. ASSUME NEW i \in 1..(Len(w) + 1)
        PROVE  bytes(Append(w, p))[i] = (bytes(w) \o <<x>>)[i]
    <3>1. bytes(Append(w, p))[i] = SentBytes(Append(w, p)[i]) BY <1>4
    <3>2. CASE i <= Len(w)
      <4>1. i \in DOMAIN w BY <1>3, <3>2
      <4>2. bytes(w)[i] = SentBytes(w[i]) BY <4>1
      <4> HIDE DEF bytes, x
      <4> QED BY <1>4, <2>2, <3>1, <3>2, <4>2
    <3>3. CASE ~ (i <= Len(w))
      <4>1. i - Len(w) = 1 BY <1>3, <3>3
      <4>2. (bytes(w) \o <<x>>)[i] = x BY <2>1, <2>2, <3>3, <4>1
      <4> HIDE DEF bytes
      <4> QED BY <1>4, <3>1, <3>3, <4>2
    <3> QED BY <3>2, <3>3
  <2>4. DOMAIN bytes(Append(w, p)) = 1..(Len(w) + 1) BY <1>4
  <2>5. bytes(Append(w, p)) = [i \in 1..(Len(w) + 1) |-> bytes(Append(w, p))[i]] BY <2>4
  <2>6. bytes(w) \o <<x>> = [i \in 1..(Len(w) + 1) |-> (bytes(w) \o <<x>>)[i]]
    <3> HIDE DEF bytes, x
    <3> QED BY <1>5, <2>1, <2>2
  <2> HIDE DEF bytes, x
  <2> QED BY <2>3, <2>5, <2>6
<1>7. Total(<<x>>) = x BY <1>2, TotalOne
<1>8. <<x>> \in Seq(Nat) BY <1>2
<1>9. Total(bytes(w) \o <<x>>) = Total(bytes(w)) + x /\ Total(bytes(w)) \in Nat
  <2> HIDE DEF bytes, x
  <2> QED BY <1>5, <1>7, <1>8, TotalConcat
<1> QED BY <1>6, <1>9

LEMMA PlannedTypes ==
  ASSUME NEW s \in Script
  PROVE  /\ [i \in DOMAIN s |-> PlannedBytes(s[i])] \in Seq(Nat)
         /\ Len([i \in DOMAIN s |-> PlannedBytes(s[i])]) = Len(s)
         /\ BodyLeft(s) \in Nat
<1> DEFINE bytes == [i \in DOMAIN s |-> PlannedBytes(s[i])]
<1>1. \A q \in Piece : PlannedBytes(q) \in Nat BY DEF Piece, PlannedBytes
<1>2. Len(s) \in Nat /\ DOMAIN s = 1..Len(s) /\ \A i \in DOMAIN s : s[i] \in Piece BY DEF Script
<1>3. bytes \in Seq(Nat) /\ Len(bytes) = Len(s) BY <1>1, <1>2, IsASeq
<1>4. <<>> \in Seq(Nat) OBVIOUS
<1>5. Total(bytes) \in Nat
  <2> HIDE DEF bytes
  <2> QED BY <1>3, <1>4, TotalConcat
<1> QED BY <1>3, <1>5 DEF BodyLeft

LEMMA LeftConcat ==
  ASSUME NEW a \in Script, NEW b \in Script
  PROVE  BodyLeft(a \o b) = BodyLeft(a) + BodyLeft(b) /\ a \o b \in Script
<1> DEFINE bytes(s) == [i \in DOMAIN s |-> PlannedBytes(s[i])]
           m == Len(a)
           n == Len(b)
<1>1. /\ a \in Seq(Piece) /\ b \in Seq(Piece) /\ m \in Nat /\ n \in Nat
      /\ DOMAIN a = 1..m /\ DOMAIN b = 1..n
  BY DEF Script
<1>2. /\ a \o b \in Script /\ DOMAIN (a \o b) = 1..(m + n)
      /\ \A i \in 1..(m + n) : (a \o b)[i] = IF i <= m THEN a[i] ELSE b[i - m]
  BY <1>1, ConcatProperties DEF Script
<1>3. /\ bytes(a) \in Seq(Nat) /\ Len(bytes(a)) = m
      /\ bytes(b) \in Seq(Nat) /\ Len(bytes(b)) = n
  BY PlannedTypes
<1>4. bytes(a \o b) = bytes(a) \o bytes(b)
  <2>1. /\ bytes(a) \o bytes(b) \in Seq(Nat)
        /\ DOMAIN (bytes(a) \o bytes(b)) = 1..(m + n)
        /\ \A i \in 1..(m + n) :
             (bytes(a) \o bytes(b))[i] = IF i <= m THEN bytes(a)[i] ELSE bytes(b)[i - m]
    <3> HIDE DEF bytes, m, n
    <3> QED BY <1>1, <1>3, ConcatProperties
  <2>2. ASSUME NEW i \in 1..(m + n) PROVE bytes(a \o b)[i] = (bytes(a) \o bytes(b))[i]
    <3>1. bytes(a \o b)[i] = PlannedBytes((a \o b)[i]) BY <1>2
    <3>2. CASE i <= m
      <4>1. i \in DOMAIN a BY <1>1, <3>2
      <4>2. bytes(a)[i] = PlannedBytes(a[i]) BY <4>1
      <4> HIDE DEF bytes
      <4> QED BY <1>2, <2>1, <3>1, <3>2, <4>2
    <3>3. CASE ~ (i <= m)
      <4>1. i - m \in DOMAIN b BY <1>1, <3>3
      <4>2. bytes(b)[i - m] = PlannedBytes(b[i - m]) BY <4>1
      <4> HIDE DEF bytes
      <4> QED BY <1>2, <2>1, <3>1, <3>3, <4>2
    <3> QED BY <3>2, <3>3
  <2>3. bytes(a \o b) = [i \in 1..(m + n) |-> bytes(a \o b)[i]] BY <1>2
  <2>4. bytes(a) \o bytes(b) = [i \in 1..(m + n) |-> (bytes(a) \o bytes(b))[i]]
    <3> DEFINE joined == bytes(a) \o bytes(b)
    <3>1. joined \in Seq(Nat) /\ DOMAIN joined = 1..(m + n) BY <2>1
    <3> HIDE DEF joined, m, n
    <3>2. joined = [i \in DOMAIN joined |-> joined[i]] BY <3>1
    <3> QED BY <3>1, <3>2 DEF joined
  <2> HIDE DEF bytes, m, n
  <2> QED BY <2>2, <2>3, <2>4
<1>5. Total(bytes(a) \o bytes(b)) = Total(bytes(a)) + Total(bytes(b))
  <2> HIDE DEF bytes
  <2> QED BY <1>3, TotalConcat
<1> QED BY <1>2, <1>4, <1>5 DEF BodyLeft

LEMMA LeftOfOne ==
  ASSUME NEW p \in Piece PROVE BodyLeft(<<p>>) = PlannedBytes(p) /\ BodyLeft(<<>>) = 0
<1>1. PlannedBytes(p) \in Nat BY DEF PlannedBytes, Piece
<1>2. [i \in DOMAIN <<p>> |-> PlannedBytes(<<p>>[i])] = <<PlannedBytes(p)>> OBVIOUS
<1>3. [i \in DOMAIN <<>> |-> PlannedBytes(<<>>[i])] = <<>> OBVIOUS
<1> QED BY <1>1, <1>2, <1>3, TotalOne DEF BodyLeft

(* A piece written whole is no longer to be written. *)
LEMMA LeftBehind ==
  ASSUME NEW s \in Script, s # <<>>
  PROVE  BodyLeft(s) = PlannedBytes(Head(s)) + BodyLeft(Tail(s))
<1>1. /\ s \in Seq(Piece) /\ Head(s) \in Piece /\ Tail(s) \in Script
      /\ s = <<Head(s)>> \o Tail(s)
  <2>1. s \in Seq(Piece) BY DEF Script
  <2>2. Head(s) \in Piece /\ Tail(s) \in Seq(Piece) BY <2>1, HeadTailProperties
  <2>3. s = <<Head(s)>> \o Tail(s) BY <2>1
  <2> QED BY <2>1, <2>2, <2>3 DEF Script
<1>2. <<Head(s)>> \in Script BY <1>1 DEF Script
<1>3. BodyLeft(<<Head(s)>> \o Tail(s)) = BodyLeft(<<Head(s)>>) + BodyLeft(Tail(s))
  BY <1>1, <1>2, LeftConcat
<1> QED BY <1>1, <1>3, LeftOfOne

(* A head has nothing of a body. *)
LEMMA LeftOfHead ==
  ASSUME NEW s \in Script, \A i \in DOMAIN s : s[i].kind # "body" PROVE BodyLeft(s) = 0
<1> DEFINE bytes == [i \in DOMAIN s |-> PlannedBytes(s[i])]
           g == [k \in 0..Len(s) |-> 0]
<1>1. bytes \in Seq(Nat) /\ Len(bytes) = Len(s) /\ Len(s) \in Nat /\ DOMAIN s = 1..Len(s)
  BY PlannedTypes DEF Script
<1>2. \A i \in 1..Len(s) : bytes[i] = 0 BY <1>1 DEF PlannedBytes
<1> HIDE DEF bytes
<1>3. Sums(bytes, Len(s), g) BY <1>1, <1>2 DEF Sums
<1>4. Total(bytes) = g[Len(s)]
  <2> HIDE DEF g
  <2> QED BY <1>1, <1>3, TotalIs
<1>5. Total(bytes) = 0 BY <1>1, <1>4
<1> QED BY <1>5 DEF BodyLeft, bytes

LEMMA WholeHeadHasNoBody == BodyLeft(WholeHead) = 0
<1>1. WholeHead \in Script /\ \A i \in DOMAIN WholeHead : WholeHead[i] \in {StatusLine, Header, Blank}
  BY HeadTypes
<1>2. StatusLine.kind # "body" /\ Header.kind # "body" /\ Blank.kind # "body" BY HeadPieces
<1>3. \A i \in DOMAIN WholeHead : WholeHead[i].kind # "body"
  <2> HIDE DEF StatusLine, Header, Blank, WholeHead
  <2> QED BY <1>1, <1>2
<1> HIDE DEF WholeHead
<1> QED BY <1>1, <1>3, LeftOfHead

(* The blocks http_send_file_data writes add up to what it was asked for:  *)
(* after k of them it is at byte k * FileBuf, or at the end.               *)
LEMMA BlocksAddUp == ASSUME NEW bytes \in Nat PROVE BodyLeft(FileBlocks(bytes)) = bytes
<1> DEFINE q == (bytes + FileBuf - 1) \div FileBuf
           size(i) == Smaller(FileBuf, bytes - (i - 1) * FileBuf)
           planned == [i \in DOMAIN FileBlocks(bytes) |-> PlannedBytes(FileBlocks(bytes)[i])]
           g == [k \in 0..q |-> Smaller(k * FileBuf, bytes)]
<1>1. FileBuf \in Nat /\ FileBuf > 0 BY ResponseConstants DEF ResponseConstants
<1>2. q \in Nat /\ FileBuf * q <= bytes + FileBuf - 1 /\ bytes <= FileBuf * q
  <2>1. bytes + FileBuf - 1 \in Nat BY <1>1
  <2>2. q \in Int /\ bytes + FileBuf - 1 = FileBuf * q + ((bytes + FileBuf - 1) % FileBuf)
        /\ (bytes + FileBuf - 1) % FileBuf \in 0..(FileBuf - 1)
    BY <1>1, <2>1
  <2>3. q \in Nat BY <1>1
  <2> HIDE DEF q
  <2> QED BY <1>1, <2>2, <2>3
<1>3. FileBlocks(bytes) = [i \in 1..q |-> FileBlock(size(i))] BY DEF FileBlocks
<1>4. FileBlocks(bytes) \in Script BY BlockTypes
<1>5. planned \in Seq(Nat) /\ Len(planned) = Len(FileBlocks(bytes)) BY <1>4, PlannedTypes
<1>6. Len(FileBlocks(bytes)) = q BY <1>2, <1>3
<1>7. \A i \in 1..q : planned[i] = size(i)
  BY <1>3 DEF PlannedBytes, FileBlock
<1> HIDE DEF q, planned
<1>8. ASSUME NEW k \in 0..q
      PROVE  /\ k * FileBuf \in Nat
             /\ k < q => k * FileBuf < bytes
             /\ k = q => k * FileBuf >= bytes
  <2>1. k * FileBuf \in Nat BY <1>1, <1>2
  <2>2. ASSUME k < q PROVE k * FileBuf < bytes
    <3>1. FileBuf * (k + 1) <= FileBuf * q BY <1>1, <1>2, <2>2
    <3>2. FileBuf * (k + 1) = k * FileBuf + FileBuf BY <1>1, <1>2
    <3>3. FileBuf * q \in Nat BY <1>1, <1>2
    <3> QED BY <1>1, <1>2, <2>1, <3>1, <3>2, <3>3
  <2>3. k = q => k * FileBuf >= bytes BY <1>1, <1>2
  <2> QED BY <2>1, <2>2, <2>3
<1>9. \A k \in 0..q : g[k] = Smaller(k * FileBuf, bytes) OBVIOUS
<1> HIDE DEF g
<1>10. Sums(planned, q, g)
  <2>1. g[0] = 0
    <3>1. 0 \in 0..q /\ 0 * FileBuf = 0 BY <1>1, <1>2
    <3> QED BY <1>9, <3>1 DEF Smaller
  <2>2. ASSUME NEW k \in 0..q PROVE g[k] \in Nat
    <3>1. k * FileBuf \in Nat BY <1>8
    <3> QED BY <1>9, <3>1 DEF Smaller
  <2>3. ASSUME NEW k \in 1..q PROVE g[k] = g[k - 1] + planned[k]
    <3>1. k \in 0..q /\ k - 1 \in 0..q /\ k - 1 < q BY <1>2
    <3>2. (k - 1) * FileBuf \in Nat /\ (k - 1) * FileBuf < bytes BY <1>8, <3>1
    <3>3. k * FileBuf = (k - 1) * FileBuf + FileBuf BY <1>1, <1>2
    <3>4. g[k - 1] = (k - 1) * FileBuf BY <1>9, <3>1, <3>2 DEF Smaller
    <3>5. g[k] = Smaller(k * FileBuf, bytes) BY <1>9, <3>1
    <3>6. planned[k] = Smaller(FileBuf, bytes - (k - 1) * FileBuf) BY <1>7
    <3> HIDE DEF size
    <3> DEFINE c == (k - 1) * FileBuf
    <3>7. c \in Nat /\ c < bytes /\ k * FileBuf = c + FileBuf BY <3>2, <3>3
    <3>8. Smaller(k * FileBuf, bytes) = c + Smaller(FileBuf, bytes - c)
      <4> HIDE DEF c
      <4> QED BY <1>1, <3>7 DEF Smaller
    <3> QED BY <3>4, <3>5, <3>6, <3>8
  <2> QED BY <2>1, <2>2, <2>3 DEF Sums
<1>11. Total(planned) = g[q] BY <1>5, <1>6, <1>10, TotalIs
<1>12. g[q] = bytes
  <2>1. q \in 0..q BY <1>2
  <2>2. q * FileBuf \in Nat /\ q * FileBuf >= bytes BY <1>8, <2>1
  <2> QED BY <1>9, <2>1, <2>2 DEF Smaller
<1> QED BY <1>11, <1>12 DEF BodyLeft, planned

(* Inside the file the length that is declared is the length that is read. *)
LEMMA RangeIsRead ==
  ASSUME NEW n \in 0..2, NEW r1 \in 0..MaxPosition, NEW r2 \in 0..MaxPosition,
         n = 0 => r1 = 0, r1 <= FileSize, n = 2 => r1 <= r2 + 1 /\ r2 < FileSize
  PROVE  FileBytes(r1, RangeLength(n, r1, r2), FileSize) = RangeLength(n, r1, r2)
<1>1. FileSize \in Nat /\ MaxPosition \in Nat BY ResponseConstants DEF ResponseConstants
<1>2. RangeLength(n, r1, r2) \in Nat /\ RangeLength(n, r1, r2) <= FileSize - r1
  BY <1>1 DEF RangeLength, Smaller
<1>3. Smaller(r1, FileSize) = r1 BY <1>1 DEF Smaller
<1> QED BY <1>1, <1>2, <1>3 DEF FileBytes, Larger, Smaller

-----------------------------------------------------------------------------
(* What was sent of a body and what is still to be written make up the     *)
(* length that was declared.                                               *)

Promised == link = "up" /\ served # NothingServed /\ served.inside /\ served.unchanged

BalanceInv == Promised => Refused \/ BodySent + BodyLeft(todo) = served.length

(* A piece written whole moves its bytes from one side to the other; one   *)
(* that was not leaves a refused write behind.                             *)
LEMMA WholeKeepsBalance ==
  ASSUME SliceInv, BalanceInv, todo # <<>>, link = "up", link' = "up", UNCHANGED served,
         Returns(Head(todo).len, Head(todo).len)
  PROVE  BalanceInv'
<1> DEFINE h == Head(todo)
           p == [kind |-> h.kind, len |-> h.len, sent |-> h.len]
<1>1. todo \in Script /\ wire \in Seq(WirePiece) /\ h \in Piece /\ h.len \in Nat
  BY HeadOfScript DEF SliceInv
<1>2. todo' = Tail(todo) /\ wire' = Append(wire, p) BY DEF Returns, Behind
<1>3. p \in WirePiece /\ SentBytes(p) = PlannedBytes(h)
  BY <1>1 DEF Piece, WirePiece, SentBytes, PlannedBytes
<1> HIDE DEF p, h
<1>4. BodySent' = Total([i \in DOMAIN wire' |-> SentBytes(wire'[i])])
  BY DEF BodySent, SentBytes, Total
<1>5. BodySent' = BodySent + SentBytes(p) /\ BodySent \in Nat
  BY <1>1, <1>2, <1>3, <1>4, BodySentIs, SentAppend
<1>6. BodyLeft(todo) = PlannedBytes(h) + BodyLeft(todo')
  BY <1>1, <1>2, LeftBehind DEF h
<1>7. BodyLeft(todo') \in Nat /\ PlannedBytes(h) \in Nat
  <2>1. todo' \in Script BY <1>1, <1>2, HeadTailProperties DEF Script
  <2> QED BY <1>1, <2>1, PlannedTypes DEF PlannedBytes
<1>8. BodySent' + BodyLeft(todo') = BodySent + BodyLeft(todo) BY <1>3, <1>5, <1>6, <1>7
<1>9. Refused => Refused'
  <2> SUFFICES ASSUME NEW i \in DOMAIN wire, wire[i].sent < wire[i].len
               PROVE  \E j \in DOMAIN wire' : wire'[j].sent < wire'[j].len
    BY DEF Refused
  <2>1. i \in DOMAIN wire' /\ wire'[i] = wire[i] BY <1>1, <1>2, <1>3, AppendProperties
  <2> QED BY <2>1
<1>10. Promised' => Promised BY DEF Promised, NothingServed
<1>11. Promised' => Refused' \/ BodySent' + BodyLeft(todo') = served'.length
  BY <1>8, <1>9, <1>10 DEF BalanceInv
<1> QED BY <1>11 DEF BalanceInv, BodyLeft, Total, PlannedBytes

LEMMA RefusalKeepsBalance ==
  ASSUME SliceInv, todo # <<>>, link' = "up", Head(todo).len > 0, Returns(0, 0)
  PROVE  BalanceInv'
<1> DEFINE p == [kind |-> Head(todo).kind, len |-> Head(todo).len, sent |-> 0]
<1>1. Head(todo) \in Piece /\ wire \in Seq(WirePiece) BY HeadOfScript DEF SliceInv
<1>2. wire' = Append(wire, p) BY DEF Returns
<1>3. p \in WirePiece /\ p.sent < p.len BY <1>1 DEF Piece, WirePiece
<1> HIDE DEF p
<1>4. Len(wire) + 1 \in DOMAIN wire' /\ wire'[Len(wire) + 1] = p
  BY <1>1, <1>2, <1>3, AppendProperties
<1>5. Refused' BY <1>3, <1>4 DEF Refused
<1> QED BY <1>5 DEF BalanceInv

LEMMA LoopKeepsBalance ==
  ASSUME BalanceInv, link = "up", UNCHANGED <<todo, wire, served>> PROVE BalanceInv'
BY DEF BalanceInv, Promised, Refused, BodySent, BodyLeft, Total, PlannedBytes, NothingServed

LEMMA WriteKeepsBalance ==
  ASSUME SliceInv, ChunkInv, BalanceInv, FirstSlice \/ NextSlice \/ LoopStops PROVE BalanceInv'
<1>1. todo # <<>> /\ UNCHANGED served
  BY DEF FirstSlice, NextSlice, LoopStops, SliceInv
<1>2. CASE link' # "up" BY <1>2 DEF BalanceInv, Promised
<1>3. CASE link' = "up" /\ FirstSlice
  <2>1. Head(todo).len > 0
    <3>1. todo \in Seq(Piece) /\ Remainder(todo) BY DEF SliceInv, ChunkInv, Script
    <3>2. 1 \in DOMAIN todo /\ Head(todo) = todo[1] BY <1>1, <3>1, HeadTailProperties
    <3> QED BY <3>1, <3>2 DEF Remainder
  <2>2. link = "up" BY <1>3, <2>1, FirstFacts
  <2>3. \/ UNCHANGED <<todo, wire>>
        \/ Returns(Head(todo).len, Head(todo).len)
        \/ Returns(0, 0)
    BY <1>3, <2>1, FirstFacts
  <2> QED BY <1>1, <1>3, <2>1, <2>2, <2>3, LoopKeepsBalance, WholeKeepsBalance, RefusalKeepsBalance
<1>4. CASE link' = "up" /\ NextSlice
  <2>1. link = "up" BY <1>4, NextFacts
  <2>2. UNCHANGED <<todo, wire>> \/ Returns(Head(todo).len, Head(todo).len)
    BY <1>4, NextFacts
  <2> QED BY <1>1, <1>4, <2>1, <2>2, LoopKeepsBalance, WholeKeepsBalance
<1>5. CASE link' = "up" /\ LoopStops BY <1>5 DEF LoopStops
<1> QED BY <1>2, <1>3, <1>4, <1>5

(* What a call that promises nothing leaves. *)
LEMMA NothingPromised == ASSUME served' = NothingServed PROVE BalanceInv'
BY DEF BalanceInv, Promised, NothingServed

(* A file begins on a response of which nothing was sent. *)
LEMMA FileKeepsBalance == ASSUME SliceInv, HeadInv, FilePage PROVE BalanceInv'
<1>1. PICK isHead \in BOOLEAN, n \in 0..2, r1, r2 \in 0..MaxPosition, size \in 0..FileSize :
        /\ n = 0 => r1 = 0
        /\ n # 2 => r2 = 0
        /\ Writes(WholeHead \o (IF isHead THEN <<>>
                    ELSE FileBlocks(FileBytes(r1, RangeLength(n, r1, r2), size))),
                  IF MayStart
                    THEN [length    |-> IF isHead THEN 0 ELSE RangeLength(n, r1, r2),
                          inside    |-> r1 <= FileSize
                                        /\ (n = 2 => r1 <= r2 + 1 /\ r2 < FileSize),
                          unchanged |-> size = FileSize]
                    ELSE NothingServed)
        /\ UNCHANGED mustClose
  BY Zenon DEF FilePage
<1> DEFINE length == RangeLength(n, r1, r2)
           blocks == IF isHead THEN <<>> ELSE FileBlocks(FileBytes(r1, length, size))
<1>2. CASE ~ MayStart BY <1>1, <1>2, NothingPromised DEF Writes
<1>3. CASE MayStart
  <2>1. /\ todo' = WholeHead \o blocks /\ wire' = wire
        /\ served'.length = (IF isHead THEN 0 ELSE length)
        /\ served'.inside => r1 <= FileSize /\ (n = 2 => r1 <= r2 + 1 /\ r2 < FileSize)
        /\ served'.unchanged => size = FileSize
    BY <1>1, <1>3 DEF Writes
  <2>2. wire' = <<>> BY <1>3, <2>1 DEF MayStart, HeadInv
  <2>3. BodySent' = 0
    <3>1. BodySent' = Total([i \in DOMAIN wire' |-> SentBytes(wire'[i])])
      BY DEF BodySent, SentBytes, Total
    <3>2. [i \in DOMAIN wire' |-> SentBytes(wire'[i])] = <<>> BY <2>2
    <3> QED BY <3>1, <3>2, TotalOne
  <2>4. SUFFICES ASSUME served'.inside, served'.unchanged
                 PROVE  BodySent' + BodyLeft(todo') = served'.length
    BY DEF BalanceInv, Promised, BodyLeft, Total, PlannedBytes
  <2>5. FileBytes(r1, length, size) = length /\ length \in Nat
    <3>1. FileBytes(r1, length, FileSize) = length BY <1>1, <2>1, <2>4, RangeIsRead
    <3>2. FileBytes(r1, length, FileSize) \in Nat
      BY ResponseConstants DEF ResponseConstants, FileBytes, RangeLength, Larger, Smaller
    <3> HIDE DEF length
    <3> QED BY <2>1, <2>4, <3>1, <3>2
  <2> HIDE DEF length
  <2>6. BodyLeft(blocks) = IF isHead THEN 0 ELSE length
    <3>1. CASE isHead BY <3>1, LeftOfOne, PieceTypes
    <3>2. CASE ~ isHead BY <2>5, <3>2, BlocksAddUp
    <3> QED BY <3>1, <3>2
  <2>7. blocks \in Script BY <2>5, BlockTypes DEF Script
  <2> HIDE DEF blocks
  <2>8. BodyLeft(WholeHead \o blocks) = 0 + BodyLeft(blocks)
    BY <2>7, HeadTypes, LeftConcat, WholeHeadHasNoBody
  <2> QED BY <2>1, <2>3, <2>5, <2>6, <2>8
<1> QED BY <1>2, <1>3

LEMMA BalanceStep ==
  SliceInv /\ HeadInv /\ ChunkInv /\ BalanceInv /\ [Next]_vars => BalanceInv'
<1> SUFFICES ASSUME SliceInv, HeadInv, ChunkInv, BalanceInv, [Next]_vars PROVE BalanceInv'
  OBVIOUS
<1>1. CASE Start \/ Add \/ Send \/ Write \/ Chunk \/ Ok \/ ServeCompressed
  <2>1. served' = NothingServed
    BY <1>1 DEF Start, Add, Send, Write, Chunk, Ok, ServeCompressed, HandlerWrites, Writes
  <2> QED BY <2>1, NothingPromised
<1>2. CASE ServeFile BY <1>2, FileKeepsBalance DEF ServeFile
<1>3. ASSUME NEW hasBody, DefaultPage(hasBody) PROVE BalanceInv'
  BY <1>3, NothingPromised DEF DefaultPage, Writes
<1>4. CASE Error BY <1>3, <1>4, FileKeepsBalance DEF Error
<1>5. CASE ErrorCallback \/ NextRequest
  BY <1>5, NothingPromised DEF ErrorCallback, NextRequest
<1>6. ASSUME UNCHANGED <<todo, wire, served>>, link' \in {link, "stopped"} PROVE BalanceInv'
  BY <1>6 DEF BalanceInv, Promised, Refused, BodySent, BodyLeft, Total, PlannedBytes,
              NothingServed
<1>7. CASE ErrorCallbackReturns
  <2>1. CASE UNCHANGED <<conn, mustClose, served, calls, requests>>
    BY <1>6, <2>1 DEF conn
  <2> QED BY <1>3, <1>7, <2>1, FileKeepsBalance DEF ErrorCallbackReturns
<1>8. CASE Tick \/ Stop \/ UNCHANGED vars BY <1>6, <1>8 DEF Tick, Stop, vars, conn
<1> QED BY <1>1, <1>2, <1>4, <1>5, <1>7, <1>8, WriteKeepsBalance DEF Next

(* The connection goes on to another request behind a file only when the   *)
(* client got the length it was told, unless the range was not inside the  *)
(* file, the file got shorter or the throttle refused a write              *)
(* (handle_static_file_request against http_send_file_data and http_write).*)
THEOREM LengthAlwaysDelivered == Spec => LengthDelivered
<1>1. Init => ChunkInv /\ BalanceInv
  <2> SUFFICES ASSUME Init PROVE ChunkInv /\ BalanceInv OBVIOUS
  <2>1. todo = <<>> /\ wire = <<>> /\ ~ slice.on /\ served = NothingServed BY DEF Init, NoSlice
  <2> QED BY <2>1 DEF ChunkInv, Remainder, BalanceInv, Promised
<1>2. Init => HeadInv BY DEF Init, HeadInv, HeadInOrder, Ordered
<1>3. BalanceInv /\ SliceInv /\ [Next]_vars =>
        [NextRequest => \/ served = NothingServed
                        \/ ~served.inside \/ ~served.unchanged \/ Refused
                        \/ BodySent = served.length]_vars
  <2> SUFFICES ASSUME BalanceInv, SliceInv, NextRequest
               PROVE  \/ served = NothingServed
                      \/ ~served.inside \/ ~served.unchanged \/ Refused
                      \/ BodySent = served.length
    OBVIOUS
  <2>1. link = "up" /\ todo = <<>> BY DEF NextRequest, Idle
  <2>2. BodyLeft(todo) = 0 BY <2>1, LeftOfOne, PieceTypes
  <2>3. BodySent \in Nat
    <3>1. wire \in Seq(WirePiece) BY DEF SliceInv
    <3>2. [kind |-> "end", len |-> 0, sent |-> 0] \in WirePiece BY DEF WirePiece, Kinds
    <3> QED BY <3>1, <3>2, SentAppend, BodySentIs
  <2> QED BY <2>1, <2>2, <2>3 DEF BalanceInv, Promised
<1> QED
  BY <1>1, <1>2, <1>3, SliceInit, SliceStep, HeadStep, ChunkStep, BalanceStep, PTL
  DEF Spec, LengthDelivered

-----------------------------------------------------------------------------
(* Progress. *)

(* Fewer pieces are left, or the piece at the front has begun, or more of  *)
(* it has left.  No piece can begin twice or pass its end (SliceInv), so a *)
(* call takes finitely many of these steps.                                *)
Advances ==
  \/ Len(todo') < Len(todo)
  \/ /\ UNCHANGED todo /\ slice'.on
     /\ slice.on => slice.total < slice'.total

LEMMA ShorterBehind ==
  ASSUME NEW s \in Script, s # <<>>, NEW ret PROVE Len(Behind(s, ret)) < Len(s)
<1>1. s \in Seq(Piece) /\ Len(s) \in Nat /\ Len(s) > 0 /\ Head(s) = s[1] BY DEF Script
<1>2. Len(Tail(s)) = Len(s) - 1 BY <1>1, HeadTailProperties
<1>3. CASE Behind(s, ret) = Tail(s) BY <1>1, <1>2, <1>3
<1>4. CASE Behind(s, ret) = <<>> BY <1>1, <1>4
(* The end marker is written without asking for the whole of it, so the    *)
(* piece that was cut short is another one.                                *)
<1>5. CASE Behind(s, ret) = <<EndOfChunks>> /\ Behind(s, ret) # Tail(s)
  <2>1. Head(s).whole /\ s[Len(s)] = EndOfChunks BY <1>5 DEF Behind, EndOfChunks
  <2>2. ~ EndOfChunks.whole BY DEF EndOfChunks
  <2>3. Len(s) # 1 BY <1>1, <2>1, <2>2
  <2>4. Len(<<EndOfChunks>>) = 1 OBVIOUS
  <2> QED BY <1>1, <1>5, <2>3, <2>4
<1> QED BY <1>3, <1>4, <1>5, BehindTypes

LEMMA ReturnAdvances ==
  ASSUME SliceInv, todo # <<>>, NEW ret, NEW left, Returns(ret, left) PROVE Advances
<1>1. todo \in Script BY DEF SliceInv
<1> QED BY <1>1, ShorterBehind DEF Returns, Advances

LEMMA WriteAdvances ==
  ASSUME SliceInv, FirstSlice \/ NextSlice \/ LoopStops PROVE Advances
<1>1. todo # <<>>
  BY DEF FirstSlice, NextSlice, LoopStops, SliceInv
<1>2. CASE FirstSlice
  <2>1. ~ slice.on BY <1>2 DEF FirstSlice
  <2>2. \/ \E ret, left : Returns(ret, left)
        \/ \E total, left, buf : Loops(total, left, buf)
    BY <1>2 DEF FirstSlice
  <2> QED BY <1>1, <2>1, <2>2, ReturnAdvances DEF Loops, Advances
<1>3. CASE NextSlice
  <2> DEFINE n == SliceLength(Head(todo).len, slice.total)
  <2>1. /\ throttle \in Nat /\ throttle > 0 /\ slice.total \in Nat
        /\ slice.total < Head(todo).len /\ Head(todo).len \in Nat
    BY <1>1, <1>3, HeadOfScript DEF NextSlice, SliceInv
  <2>2. n \in Nat /\ n > 0 BY <2>1 DEF SliceLength, Smaller
  <2>3. \/ \E ret, left : Returns(ret, left)
        \/ \E left, buf : Loops(slice.total + n, left, buf)
    BY <1>3 DEF NextSlice
  <2> HIDE DEF n
  <2>4. CASE \E left, buf : Loops(slice.total + n, left, buf)
    <3>1. UNCHANGED todo /\ slice'.on /\ slice'.total = slice.total + n
      BY <2>4 DEF Loops
    <3> QED BY <2>1, <2>2, <3>1 DEF Advances
  <2> QED BY <1>1, <2>3, <2>4, ReturnAdvances
<1>4. CASE LoopStops BY <1>1, <1>4, ReturnAdvances DEF LoopStops
<1> QED BY <1>2, <1>3, <1>4

(* What makes a call of http_write, http_chunk and their callers come back *)
(* (CallsReturn) once its coroutine runs: every turn brings it nearer to   *)
(* its end, whatever the throttle, the clock and the socket do, and no     *)
(* step of the clock, of http_stop or of another call sets it back.        *)
THEOREM CallsAdvance ==
  Spec => [][todo # <<>> => Advances \/ UNCHANGED <<todo, slice>>]_vars
<1>1. SliceInv /\ [Next]_vars => [todo # <<>> => Advances \/ UNCHANGED <<todo, slice>>]_vars
  <2> SUFFICES ASSUME SliceInv, Next, todo # <<>>
               PROVE  Advances \/ UNCHANGED <<todo, slice>>
    OBVIOUS
  <2>1. CASE FirstSlice \/ NextSlice \/ LoopStops BY <2>1, WriteAdvances
  <2>2. ~ IsCall BY DEF IsCall, Writes, Idle
  <2>3. ~ FilePage /\ ~ \E b : DefaultPage(b) BY <2>2, FileCalls, PageCalls
  <2>4. ~ (Start \/ Add \/ Send \/ Write \/ Chunk \/ Ok \/ ServeFile \/ ServeCompressed \/ Error)
    BY <2>2, AllCalls
  <2>5. ~ (ErrorCallback \/ ErrorCallbackReturns \/ NextRequest)
    BY DEF ErrorCallback, ErrorCallbackReturns, NextRequest, Idle
  <2>6. CASE Tick \/ Stop BY <2>6 DEF Tick, Stop
  <2> QED BY <2>1, <2>4, <2>5, <2>6 DEF Next
<1> HIDE DEF Advances
<1> QED BY <1>1, SliceInit, SliceStep, PTL DEF Spec
=============================================================================
