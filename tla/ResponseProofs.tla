---------------------------- MODULE ResponseProofs ----------------------------
(***************************************************************************)
(* Theorems about Response, for any throttles, file, blocks and number of  *)
(* calls and requests: what the slices of a throttled http_write add up    *)
(* to, the order of the parts of a response, the range of every variable,  *)
(* and that no chunk is left without its end.                              *)
(***************************************************************************)
EXTENDS Response, SequenceTheorems, TLAPS

(* What the calls of a handler and of the server write. *)
Script == Seq(Piece)

LEMMA PieceTypes ==
  /\ StatusLine \in Piece /\ Header \in Piece /\ Blank \in Piece /\ EndOfChunks \in Piece
  /\ \A n \in Nat : Body(n) \in Piece /\ FileBlock(n) \in Piece
  /\ \A n \in Nat, k \in {"size", "data", "crlf"} : ChunkPart(k, n) \in Piece
BY DEF StatusLine, Header, Blank, EndOfChunks, Body, FileBlock, ChunkPart, Piece, Kinds

(* The blocks of a file are never of a negative length. *)
LEMMA BlockTypes ==
  ASSUME NEW bytes \in Nat
  PROVE  /\ FileBlocks(bytes) \in Script
         /\ \A i \in DOMAIN FileBlocks(bytes) : FileBlocks(bytes)[i].kind = "body"
<1> DEFINE q == (bytes + FileBuf - 1) \div FileBuf
           block(i) == FileBlock(Smaller(FileBuf, bytes - (i - 1) * FileBuf))
<1>1. FileBuf \in Nat \ {0} BY ResponseConstants DEF ResponseConstants
<1>2. q \in Nat /\ FileBuf * q <= bytes + FileBuf - 1 BY <1>1
<1>3. FileBlocks(bytes) = [i \in 1..q |-> block(i)] BY DEF FileBlocks
<1>4. ASSUME NEW i \in 1..q PROVE block(i) \in Piece /\ block(i).kind = "body"
  <2>1. FileBuf * i <= FileBuf * q BY <1>1, <1>2
  <2>2. (i - 1) * FileBuf = FileBuf * i - FileBuf BY <1>1, <1>2
  <2>3. (i - 1) * FileBuf \in Int BY <1>1, <1>2
  <2>4. bytes - (i - 1) * FileBuf \in Nat BY <1>1, <1>2, <2>1, <2>2, <2>3
  <2>5. Smaller(FileBuf, bytes - (i - 1) * FileBuf) \in Nat BY <1>1, <2>4 DEF Smaller
  <2>6. block(i) \in Piece BY <2>5, PieceTypes
  <2>7. block(i).kind = "body" BY DEF FileBlock
  <2> QED BY <2>6, <2>7
<1> HIDE DEF q, block
<1>5. FileBlocks(bytes) \in Script BY <1>2, <1>3, <1>4, IsASeq DEF Script
<1>6. \A i \in DOMAIN FileBlocks(bytes) : FileBlocks(bytes)[i].kind = "body"
  BY <1>3, <1>4
<1> QED BY <1>5, <1>6

LEMMA Tuples ==
  ASSUME NEW S, NEW a \in S, NEW b \in S, NEW c \in S, NEW d \in S
  PROVE  /\ <<>> \in Seq(S) /\ <<a>> \in Seq(S) /\ <<a, b>> \in Seq(S)
         /\ <<a, b, c>> \in Seq(S) /\ <<a, b, c, d>> \in Seq(S)
OBVIOUS

LEMMA Ranks ==
  /\ Rank("status") = 1 /\ Rank("header") = 2 /\ Rank("blank") = 3
  /\ \A k \in {"body", "size", "data", "crlf", "end"} : Rank(k) = 4
BY DEF Rank

(* The head and the calls are made of pieces. *)
LEMMA HeadTypes ==
  /\ WholeHead \in Script
  /\ \A i \in DOMAIN WholeHead : WholeHead[i] \in {StatusLine, Header, Blank}
<1>1. WholeHead \in {<<StatusLine, Header, Header, Blank>>, <<Header, Header, Blank>>, <<>>}
  BY DEF WholeHead
<1> HIDE DEF StatusLine, Header, Blank
<1>2. StatusLine \in Piece /\ Header \in Piece /\ Blank \in Piece BY PieceTypes
<1>3. CASE WholeHead = <<StatusLine, Header, Header, Blank>>
  BY <1>2, <1>3, Tuples DEF Script
<1>4. CASE WholeHead = <<Header, Header, Blank>>
  BY <1>2, <1>4, Tuples DEF Script
<1>5. CASE WholeHead = <<>>
  BY <1>2, <1>5, Tuples DEF Script
<1> QED BY <1>1, <1>3, <1>4, <1>5

(* What follows a head is data. *)
Data == {s \in Script : \A i \in DOMAIN s : Rank(s[i].kind) = 4 /\ s[i].then # 1}

LEMMA DataTypes ==
  /\ <<>> \in Data
  /\ <<Body(1), Body(1)>> \in Data
  /\ \A n \in 1..MaxWrite : <<Body(n)>> \in Data
  /\ \A n \in Nat : ChunkPieces(n) \in Data
  /\ \A bytes \in Nat : FileBlocks(bytes) \in Data
  /\ <<EndOfChunks>> \in Data /\ ChunkPieces(2) \o <<EndOfChunks>> \in Data
<1> DEFINE D == {p \in Piece : Rank(p.kind) = 4 /\ p.then # 1}
<1>1. Data = Seq(D)
  <2>1. ASSUME NEW s \in Data PROVE s \in Seq(D)
    <3>1. s \in Seq(Piece) /\ \A i \in 1..Len(s) : s[i] \in D BY DEF Data, Script
    <3> QED BY <3>1, IsASeq
  <2>2. ASSUME NEW s \in Seq(D) PROVE s \in Data
    <3>1. Len(s) \in Nat /\ \A i \in 1..Len(s) : s[i] \in D OBVIOUS
    <3>2. s \in Seq(Piece) BY <3>1, SeqMonotonic
    <3> QED BY <3>1, <3>2 DEF Data, Script
  <2> QED BY <2>1, <2>2
<1>2. ASSUME NEW n \in Nat PROVE Body(n) \in D
  <2>1. Body(n) \in Piece BY PieceTypes
  <2>2. Body(n).kind = "body" /\ Body(n).then = 10 BY DEF Body
  <2>3. Rank(Body(n).kind) = 4 BY <2>2, Ranks
  <2> QED BY <2>1, <2>2, <2>3
<1>3. ASSUME NEW n \in Nat, NEW k \in {"size", "data", "crlf"} PROVE ChunkPart(k, n) \in D
  <2>1. ChunkPart(k, n) \in Piece BY PieceTypes
  <2>2. ChunkPart(k, n).kind = k /\ ChunkPart(k, n).then = 10 BY DEF ChunkPart
  <2>3. Rank(ChunkPart(k, n).kind) = 4 BY <2>2, Ranks
  <2> QED BY <2>1, <2>2, <2>3
<1>4. EndOfChunks \in D
  BY PieceTypes, Ranks DEF EndOfChunks
<1> HIDE DEF D
<1>5. <<>> \in Data /\ <<Body(1), Body(1)>> \in Data /\ \A n \in Nat : <<Body(n)>> \in Data
  BY <1>1, <1>2, Tuples
<1>6. \A n \in Nat : ChunkPieces(n) \in Data
  <2> SUFFICES ASSUME NEW n \in Nat PROVE ChunkPieces(n) \in Data OBVIOUS
  <2>1. ChunkPart("size", 1) \in D /\ ChunkPart("data", n) \in D /\ ChunkPart("crlf", 1) \in D
    BY <1>3
  <2> QED BY <1>1, <2>1, Tuples DEF ChunkPieces
<1>7. <<EndOfChunks>> \in Data BY <1>1, <1>4, Tuples
<1>8. ChunkPieces(2) \o <<EndOfChunks>> \in Data
  BY <1>1, <1>6, <1>7, ConcatProperties
<1>9. ASSUME NEW bytes \in Nat PROVE FileBlocks(bytes) \in Data
  <2>1. FileBlocks(bytes) \in Script BY BlockTypes
  <2>2. \A i \in DOMAIN FileBlocks(bytes) :
          FileBlocks(bytes)[i].kind = "body" /\ FileBlocks(bytes)[i].then # 1
    BY BlockTypes DEF FileBlocks, FileBlock
  <2> QED BY <2>1, <2>2, Ranks DEF Data
<1>10. \A n \in 1..MaxWrite : n \in Nat
  BY ResponseConstants DEF ResponseConstants
<1> QED BY <1>5, <1>6, <1>7, <1>8, <1>9, <1>10

(* Every call writes one of these. *)
Call(pieces) ==
  \/ state = 0 /\ pieces = <<StatusLine>>
  \/ state = 1 /\ pieces \in {<<Header>>, <<Header, Blank>>}
  \/ \E d \in Data : pieces = WholeHead \o d
  \/ pieces \in Data

LEMMA CallTypes == ASSUME NEW pieces, Call(pieces) PROVE pieces \in Script
<1>1. ASSUME NEW d \in Data PROVE WholeHead \o d \in Script
  BY HeadTypes, ConcatProperties DEF Data, Script
<1>2. StatusLine \in Piece /\ Header \in Piece /\ Blank \in Piece BY PieceTypes
<1>3. <<StatusLine>> \in Script /\ <<Header>> \in Script /\ <<Header, Blank>> \in Script
  BY <1>2, Tuples DEF Script
<1>4. Data \subseteq Script BY DEF Data
<1> QED BY <1>1, <1>3, <1>4 DEF Call

IsCall == \E pieces, what : Call(pieces) /\ Writes(pieces, what)

LEMMA FileCalls == ASSUME FilePage PROVE IsCall
<1>1. PICK isHead \in BOOLEAN, n \in 0..2, r1 \in 0..MaxPosition, r2 \in 0..MaxPosition,
          size \in 0..FileSize :
        \E what : Writes(WholeHead \o (IF isHead THEN <<>>
                    ELSE FileBlocks(FileBytes(r1, RangeLength(n, r1, r2), size))), what)
  BY DEF FilePage
<1>2. FileBytes(r1, RangeLength(n, r1, r2), size) \in Nat
  BY ResponseConstants DEF ResponseConstants, FileBytes, RangeLength, Larger, Smaller
<1>3. (IF isHead THEN <<>> ELSE FileBlocks(FileBytes(r1, RangeLength(n, r1, r2), size))) \in Data
  BY <1>2, DataTypes
<1> QED BY <1>1, <1>3 DEF IsCall, Call

LEMMA PageCalls == ASSUME NEW hasBody, DefaultPage(hasBody) PROVE IsCall
<1>1. (IF hasBody THEN <<Body(1), Body(1)>> ELSE <<>>) \in Data BY DataTypes
<1> QED BY <1>1 DEF DefaultPage, IsCall, Call

LEMMA AllCalls ==
  ASSUME \/ Start \/ Add \/ Send \/ Write \/ Chunk \/ Ok
         \/ ServeFile \/ ServeCompressed \/ Error
  PROVE  IsCall
<1> USE DEF IsCall, HandlerWrites
<1>1. CASE Start BY <1>1 DEF Start, MayStart, Call
<1>2. CASE Add BY <1>2 DEF Add, HeadersOpen, Call
<1>3. CASE Send BY <1>3 DEF Send, HeadersOpen, Call
<1>4. CASE Write BY <1>4, DataTypes DEF Write, Call
<1>5. CASE Chunk
  <2>1. \A n \in 1..MaxWrite : ChunkPieces(n) \in Data
    BY DataTypes, ResponseConstants DEF ResponseConstants
  <2> QED BY <1>5, <2>1 DEF Chunk, Call
<1>6. CASE Ok
  <2>1. WholeHead = WholeHead \o <<>> BY HeadTypes, ConcatEmptySeq DEF Script
  <2>2. Call(WholeHead) BY <2>1, DataTypes DEF Call
  <2> QED BY <1>6, <2>2 DEF Ok
<1>7. CASE ServeFile BY <1>7, FileCalls DEF ServeFile
<1>8. CASE ServeCompressed
  <2>1. PICK chunks \in {<<>>, ChunkPieces(2)}, readError \in BOOLEAN :
          Writes(WholeHead \o chunks \o (IF readError THEN <<>> ELSE <<EndOfChunks>>),
                 NothingServed)
    BY <1>8 DEF ServeCompressed
  <2> DEFINE rest == IF readError THEN <<>> ELSE <<EndOfChunks>>
  <2>2. chunks \in Data /\ rest \in Data BY DataTypes
  <2>3. chunks \in Script /\ rest \in Script BY <2>2 DEF Data
  <2>4. chunks \o rest \in Data
    <3>1. CASE chunks = <<>> BY <2>2, <2>3, <3>1, ConcatEmptySeq DEF Script
    <3>2. CASE rest = <<>> BY <2>2, <2>3, <3>2, ConcatEmptySeq DEF Script
    <3>3. CASE chunks = ChunkPieces(2) /\ rest = <<EndOfChunks>> BY <3>3, DataTypes
    <3> QED BY <3>1, <3>2, <3>3
  <2>5. (WholeHead \o chunks) \o rest = WholeHead \o (chunks \o rest)
    <3>1. chunks \in Seq(Piece) /\ rest \in Seq(Piece) /\ WholeHead \in Seq(Piece)
      BY <2>3, HeadTypes DEF Script
    <3> HIDE DEF rest
    <3> QED BY <3>1, ConcatAssociative
  <2> QED BY <2>1, <2>4, <2>5 DEF Call
<1>9. CASE Error BY <1>9, FileCalls, PageCalls DEF Error
<1> QED BY <1>1, <1>2, <1>3, <1>4, <1>5, <1>6, <1>7, <1>8, <1>9

-----------------------------------------------------------------------------
(* The slices of a write. *)

WirePiece == [kind : Kinds, len : Nat, sent : Nat]

(* While http_write loops, its piece is not finished, what it counts is    *)
(* what left, and the throttle is on.                                      *)
SliceInv ==
  /\ todo \in Script
  /\ throttle \in Nat /\ top \in Nat /\ throttle <= top
  /\ spent \in Nat /\ spent <= top
  /\ link \in {"up", "gone", "stopped"}
  /\ slice \in [on : BOOLEAN, buf : Nat, total : Nat, left : Nat]
  /\ slice.on => throttle > 0 /\ todo # <<>> /\ slice.total < Head(todo).len
  /\ wire \in Seq(WirePiece)
  /\ SlicesJoin
  /\ ThrottleDelaysOnly

LEMMA BehindTypes ==
  ASSUME NEW s \in Script, s # <<>>, NEW ret
  PROVE  /\ Behind(s, ret) \in Script
         /\ \/ Behind(s, ret) = Tail(s)
            \/ Behind(s, ret) = <<EndOfChunks>> /\ s[Len(s)] = EndOfChunks
            \/ Behind(s, ret) = <<>>
<1>1. Tail(s) \in Script BY HeadTailProperties DEF Script
<1>2. <<EndOfChunks>> \in Script /\ <<>> \in Script BY PieceTypes, Tuples DEF Script
<1> QED BY <1>1, <1>2 DEF Behind

(* A write that returns has sent its piece whole, or nothing of it because *)
(* the throttle was lowered, unless the socket is down.                    *)
LEMMA ReturnKeepsSlices ==
  ASSUME SliceInv, todo # <<>>, NEW ret, NEW left \in Nat, Returns(ret, left),
         UNCHANGED <<throttle, top>>, spent' \in Nat, spent' <= top,
         link' \in {"up", "gone", "stopped"},
         link' = "up" => /\ link = "up"
                         /\ left = Head(todo).len \/ (left = 0 /\ 0 < throttle /\ throttle < top)
  PROVE  SliceInv'
<1> DEFINE p == [kind |-> Head(todo).kind, len |-> Head(todo).len, sent |-> left]
<1>1. Head(todo) \in Piece /\ todo \in Script /\ wire \in Seq(WirePiece)
  BY HeadTailProperties DEF SliceInv, Script
<1>2. p \in WirePiece BY <1>1 DEF Piece, WirePiece
<1>3. todo' \in Script BY <1>1, BehindTypes DEF Returns
<1>4. /\ slice' = NoSlice
      /\ wire' = IF link' = "up" \/ left > 0 THEN Append(wire, p) ELSE wire
  BY DEF Returns
<1>5. /\ slice' \in [on : BOOLEAN, buf : Nat, total : Nat, left : Nat] /\ ~ slice'.on
      /\ SlicesJoin'
  BY <1>4 DEF NoSlice, SlicesJoin
<1>6. wire' \in Seq(WirePiece)
  <2> HIDE DEF p
  <2> QED BY <1>1, <1>2, <1>4, AppendProperties
<1>7. ThrottleDelaysOnly'
  <2> SUFFICES ASSUME link' = "up", NEW i \in DOMAIN wire'
               PROVE  wire'[i].sent = wire'[i].len
                      \/ (wire'[i].sent = 0 /\ 0 < throttle' /\ throttle' < top')
    BY DEF ThrottleDelaysOnly
  <2>1. wire' = Append(wire, p) BY <1>4
  <2>2. p.sent = left /\ p.len = Head(todo).len OBVIOUS
  <2> HIDE DEF p
  <2>3. i \in 1..Len(wire) + 1 BY <1>1, <1>2, <2>1, AppendProperties
  <2>4. CASE i = Len(wire) + 1
    <3>1. wire'[i] = p BY <1>1, <1>2, <2>1, <2>4, AppendProperties
    <3> QED BY <2>2, <3>1
  <2>5. CASE i \in 1..Len(wire)
    <3>1. wire'[i] = wire[i] BY <1>1, <1>2, <2>1, <2>5, AppendProperties
    <3>2. i \in DOMAIN wire BY <1>1, <2>5
    <3> QED BY <3>1, <3>2 DEF SliceInv, ThrottleDelaysOnly
  <2> QED BY <1>1, <2>3, <2>4, <2>5
<1> QED BY <1>3, <1>5, <1>6, <1>7 DEF SliceInv

(* What _write_all does with a length: all, part with a socket that fails, *)
(* or nothing.                                                             *)
LEMMA OutcomeTypes ==
  ASSUME link \in {"up", "gone", "stopped"}, NEW n \in Int, NEW w \in Outcomes(n)
  PROVE  /\ w.left \in Nat /\ w.ret \in Int /\ w.link \in {"up", "gone", "stopped"}
         /\ n <= 0 => w.ret = 0 /\ w.left = 0 /\ w.link = link
         /\ n > 0 /\ w.ret = n => w.left = n /\ w.link = "up" /\ link = "up"
         /\ w.link = "up" => link = "up" /\ (n > 0 => w.ret = n)
<1>1. CASE n <= 0 BY <1>1 DEF Outcomes
<1>2. CASE n > 0 /\ link = "up" BY <1>2 DEF Outcomes
<1>3. CASE n > 0 /\ link # "up" BY <1>3 DEF Outcomes
<1> QED BY <1>1, <1>2, <1>3

LEMMA HeadOfScript ==
  ASSUME SliceInv, todo # <<>> PROVE Head(todo) \in Piece /\ Head(todo).len \in Nat
<1>1. todo \in Seq(Piece) BY DEF SliceInv, Script
<1>2. Head(todo) \in Piece BY <1>1, HeadTailProperties
<1>3. \A p \in Piece : p.len \in Nat BY DEF Piece
<1> QED BY <1>2, <1>3

(* A budget below zero means that more was sent in this second than the    *)
(* throttle allows now: it was lowered.                                    *)
LEMMA FirstKeepsSlices == ASSUME SliceInv, FirstSlice PROVE SliceInv'
<1> DEFINE len == Head(todo).len
           n   == Allowed(len)
<1>1. todo # <<>> /\ ~ slice.on /\ UNCHANGED <<throttle, top>> BY DEF FirstSlice
<1>2. PICK w \in Outcomes(n) :
        /\ link' = w.link
        /\ IF throttle > 0
             THEN /\ thisSecond' = TRUE
                  /\ spent' = Spent + (IF w.ret = n THEN n ELSE 0)
             ELSE UNCHANGED <<thisSecond, spent>>
        /\ IF throttle > 0 /\ w.ret = n /\ ~ AllWritten(len, n) /\ link # "stopped"
             THEN Loops(n, w.left, BufAfter(0, n))
             ELSE Returns(w.ret, w.left)
  BY DEF FirstSlice
<1>3. len \in Nat BY <1>1, HeadOfScript
<1>4. throttle \in Nat /\ top \in Nat /\ throttle <= top /\ spent \in Nat /\ spent <= top
  BY DEF SliceInv
<1>5. Spent \in Nat /\ Spent <= top BY <1>4 DEF Spent
<1> HIDE DEF len
<1>6. /\ n \in Int /\ n <= len
      /\ throttle = 0 => n = len
      /\ throttle > 0 => n = len \/ n = throttle - Spent
      /\ throttle > 0 => n <= throttle - Spent
  BY <1>3, <1>4, <1>5 DEF Allowed, Smaller
<1> HIDE DEF n
<1>7. link \in {"up", "gone", "stopped"} BY DEF SliceInv
<1>8. /\ w.left \in Nat /\ w.ret \in Int /\ w.link \in {"up", "gone", "stopped"}
      /\ n <= 0 => w.ret = 0 /\ w.left = 0 /\ w.link = link
      /\ n > 0 /\ w.ret = n => w.left = n /\ w.link = "up" /\ link = "up"
      /\ w.link = "up" => link = "up" /\ (n > 0 => w.ret = n)
  BY <1>6, <1>7, OutcomeTypes
<1>9. w.ret = n => n \in Nat /\ w.left = n BY <1>6, <1>8
<1>10. spent' \in Nat /\ spent' <= top
  <2>1. CASE throttle > 0 /\ w.ret = n
    <3>1. spent' = Spent + n BY <1>2, <2>1
    <3> QED BY <1>4, <1>5, <1>6, <1>9, <2>1, <3>1
  <2>2. CASE throttle > 0 /\ w.ret # n
    <3>1. spent' = Spent + 0 BY <1>2, <2>2
    <3> QED BY <1>5, <3>1
  <2>3. CASE throttle = 0 BY <1>2, <1>4, <2>3
  <2> QED BY <1>4, <2>1, <2>2, <2>3
<1>11. CASE throttle > 0 /\ w.ret = n /\ ~ AllWritten(len, n) /\ link # "stopped"
  <2>1. Loops(n, w.left, BufAfter(0, n)) BY <1>2, <1>11
  <2>2. n \in Nat /\ w.left = n /\ n < len BY <1>3, <1>9, <1>11 DEF AllWritten
  <2>3. slice' = [on |-> TRUE, buf |-> n, total |-> n, left |-> n]
    BY <2>1, <2>2 DEF Loops, BufAfter
  <2>4. /\ slice' \in [on : BOOLEAN, buf : Nat, total : Nat, left : Nat]
        /\ slice'.total = n /\ SlicesJoin'
    BY <2>2, <2>3 DEF SlicesJoin
  <2>5. UNCHANGED <<todo, wire>> BY <2>1 DEF Loops
  <2>6. ThrottleDelaysOnly' BY <1>1, <1>2, <1>8, <2>5 DEF SliceInv, ThrottleDelaysOnly
  <2>7. slice'.on => throttle' > 0 /\ todo' # <<>> /\ slice'.total < Head(todo').len
    BY <1>1, <1>11, <2>2, <2>4, <2>5 DEF len
  <2>8. link' \in {"up", "gone", "stopped"} BY <1>2, <1>8
  <2> QED BY <1>1, <1>10, <2>4, <2>5, <2>6, <2>7, <2>8 DEF SliceInv
<1>12. CASE ~ (throttle > 0 /\ w.ret = n /\ ~ AllWritten(len, n) /\ link # "stopped")
  <2>1. Returns(w.ret, w.left) BY <1>2, <1>12
  <2>2. ASSUME link' = "up"
        PROVE  link = "up" /\ (w.left = len \/ (w.left = 0 /\ 0 < throttle /\ throttle < top))
    <3>1. link = "up" /\ (n > 0 => w.ret = n) BY <1>2, <1>8, <2>2
    <3>2. CASE throttle = 0 BY <1>3, <1>6, <1>8, <3>1, <3>2
    <3>3. CASE throttle > 0 /\ w.ret = n
      <4>1. n >= len BY <1>12, <3>1, <3>3 DEF AllWritten
      <4> QED BY <1>3, <1>6, <1>9, <3>1, <3>3, <4>1
    <3>4. CASE throttle > 0 /\ w.ret # n
      (* Nothing was asked of the socket: the budget is negative. *)
      <4>1. n < 0 BY <1>6, <1>8, <3>1, <3>4
      <4>2. Spent > throttle BY <1>3, <1>4, <1>5, <1>6, <3>4, <4>1
      <4>3. w.left = 0 BY <1>6, <1>8, <4>1
      <4>4. 0 < throttle /\ throttle < top BY <1>4, <1>5, <3>4, <4>2
      <4> QED BY <3>1, <4>3, <4>4
    <3> QED BY <1>4, <3>2, <3>3, <3>4
  <2>3. link' \in {"up", "gone", "stopped"} BY <1>2, <1>8
  <2> QED BY <1>1, <1>8, <1>10, <2>1, <2>2, <2>3, ReturnKeepsSlices DEF len
<1> QED BY <1>11, <1>12

LEMMA NextKeepsSlices == ASSUME SliceInv, NextSlice PROVE SliceInv'
<1> DEFINE len == Head(todo).len
           n   == SliceLength(len, slice.total)
<1>1. slice.on /\ UNCHANGED <<throttle, top>> BY DEF NextSlice
<1>2. PICK w \in Outcomes(n) :
        /\ link' = w.link
        /\ IF w.ret = n
             THEN /\ spent' = SpentAfter(n) /\ thisSecond' = TRUE
                  /\ IF AllWritten(len, slice.total + n)
                       THEN Returns(slice.total + n, slice.left + w.left)
                       ELSE Loops(slice.total + n, slice.left + w.left,
                                  BufAfter(slice.buf, n))
             ELSE /\ Returns(slice.total, slice.left + w.left)
                  /\ UNCHANGED <<spent, thisSecond>>
  BY DEF NextSlice
<1>3. /\ todo # <<>> /\ throttle \in Nat /\ throttle > 0
      /\ slice.total \in Nat /\ slice.left = slice.total /\ slice.buf = slice.total
      /\ slice.total < len
  BY <1>1 DEF SliceInv, SlicesJoin
<1>4. len \in Nat BY <1>3, HeadOfScript
<1>5. top \in Nat /\ throttle <= top /\ spent \in Nat /\ spent <= top
      /\ link \in {"up", "gone", "stopped"}
  BY DEF SliceInv
<1> HIDE DEF len
<1>6. n \in Nat /\ n > 0 /\ n <= throttle /\ n <= len - slice.total
  BY <1>3, <1>4 DEF SliceLength, Smaller
<1> HIDE DEF n
<1>7. /\ w.left \in Nat /\ w.ret \in Int /\ w.link \in {"up", "gone", "stopped"}
      /\ w.ret = n => w.left = n /\ w.link = "up" /\ link = "up"
      /\ w.link = "up" => link = "up" /\ w.ret = n
  BY <1>5, <1>6, OutcomeTypes
<1>8. spent' \in Nat /\ spent' <= top BY <1>2, <1>3, <1>5, <1>6 DEF SpentAfter
<1>9. CASE w.ret = n /\ ~ AllWritten(len, slice.total + n)
  <2> DEFINE t == slice.total + n
  <2>1. Loops(t, slice.left + w.left, BufAfter(slice.buf, n)) BY <1>2, <1>9
  <2>2. t \in Nat /\ t < len BY <1>3, <1>4, <1>6, <1>9 DEF AllWritten
  <2>3. slice' = [on |-> TRUE, buf |-> t, total |-> t, left |-> t]
    BY <1>3, <1>7, <1>9, <2>1 DEF Loops, BufAfter
  <2> HIDE DEF t
  <2>4. /\ slice' \in [on : BOOLEAN, buf : Nat, total : Nat, left : Nat]
        /\ slice'.total = t /\ SlicesJoin'
    BY <2>2, <2>3 DEF SlicesJoin
  <2>5. UNCHANGED <<todo, wire>> BY <2>1 DEF Loops
  <2>6. ThrottleDelaysOnly' BY <1>1, <1>2, <1>7, <2>5 DEF SliceInv, ThrottleDelaysOnly
  <2>7. slice'.on => throttle' > 0 /\ todo' # <<>> /\ slice'.total < Head(todo').len
    BY <1>1, <1>3, <2>2, <2>4, <2>5 DEF len
  <2>8. link' \in {"up", "gone", "stopped"} BY <1>2, <1>7
  <2> QED BY <1>1, <1>8, <2>4, <2>5, <2>6, <2>7, <2>8 DEF SliceInv
<1>10. CASE w.ret = n /\ AllWritten(len, slice.total + n)
  <2>1. Returns(slice.total + n, slice.left + w.left) BY <1>2, <1>10
  <2>2. slice.left + w.left = len BY <1>3, <1>4, <1>6, <1>7, <1>10 DEF AllWritten
  <2>3. slice.left + w.left \in Nat BY <1>3, <1>7
  <2>4. link' \in {"up", "gone", "stopped"} /\ (link' = "up" => link = "up") BY <1>2, <1>7
  <2> QED BY <1>1, <1>3, <1>8, <2>1, <2>2, <2>3, <2>4, ReturnKeepsSlices DEF len
<1>11. CASE w.ret # n
  <2>1. Returns(slice.total, slice.left + w.left) BY <1>2, <1>11
  <2>2. slice.left + w.left \in Nat BY <1>3, <1>7
  <2>3. link' \in {"up", "gone", "stopped"} /\ link' # "up" BY <1>2, <1>7, <1>11
  <2> QED BY <1>1, <1>3, <1>8, <2>1, <2>2, <2>3, ReturnKeepsSlices
<1> QED BY <1>9, <1>10, <1>11

LEMMA StopKeepsSlices == ASSUME SliceInv, LoopStops PROVE SliceInv'
<1>1. /\ slice.on /\ link = "stopped" /\ Returns(slice.total, slice.left)
      /\ UNCHANGED <<throttle, top, spent, link>>
  BY DEF LoopStops
<1>2. todo # <<>> /\ slice.left \in Nat BY <1>1 DEF SliceInv
<1>3. spent' \in Nat /\ spent' <= top /\ link' \in {"up", "gone", "stopped"} /\ link' # "up"
  BY <1>1 DEF SliceInv
<1> QED BY <1>1, <1>2, <1>3, ReturnKeepsSlices

LEMMA CallKeepsSlices == ASSUME SliceInv, IsCall PROVE SliceInv'
<1>1. PICK pieces, what : Call(pieces) /\ Writes(pieces, what) BY DEF IsCall
<1>2. /\ todo = <<>> /\ todo' = pieces
      /\ UNCHANGED <<throttle, top, spent, slice, wire, link>>
  BY <1>1 DEF Writes, Idle
<1>3. todo' \in Script BY <1>1, <1>2, CallTypes
<1>4. ~ slice.on BY <1>2 DEF SliceInv
<1> QED BY <1>2, <1>3, <1>4 DEF SliceInv, SlicesJoin, ThrottleDelaysOnly

LEMMA SliceInit == Init => SliceInv
<1> SUFFICES ASSUME Init PROVE SliceInv OBVIOUS
<1>1. /\ todo = <<>> /\ wire = <<>> /\ slice = NoSlice /\ spent = 0 /\ link = "up"
      /\ throttle \in Nat /\ top = throttle
  BY ResponseConstants DEF Init, ResponseConstants
<1>2. todo \in Script /\ wire \in Seq(WirePiece) BY <1>1 DEF Script
<1>3. slice \in [on : BOOLEAN, buf : Nat, total : Nat, left : Nat] /\ ~ slice.on /\ SlicesJoin
  BY <1>1 DEF NoSlice, SlicesJoin
<1>4. ThrottleDelaysOnly BY <1>1 DEF ThrottleDelaysOnly
<1> QED BY <1>1, <1>2, <1>3, <1>4 DEF SliceInv

LEMMA SliceStep == SliceInv /\ [Next]_vars => SliceInv'
<1> SUFFICES ASSUME SliceInv, [Next]_vars PROVE SliceInv' OBVIOUS
<1>1. CASE FirstSlice \/ NextSlice \/ LoopStops
  BY <1>1, FirstKeepsSlices, NextKeepsSlices, StopKeepsSlices
<1>2. CASE \/ Start \/ Add \/ Send \/ Write \/ Chunk \/ Ok
           \/ ServeFile \/ ServeCompressed \/ Error
  BY <1>2, AllCalls, CallKeepsSlices
<1>3. CASE ErrorCallbackReturns
  <2>1. CASE IsCall BY <2>1, CallKeepsSlices
  <2>2. CASE UNCHANGED conn
    BY <2>2 DEF conn, SliceInv, SlicesJoin, ThrottleDelaysOnly
  <2> QED BY <1>3, <2>1, <2>2, PageCalls, FileCalls DEF ErrorCallbackReturns
<1>4. CASE ErrorCallback \/ Tick \/ Stop \/ UNCHANGED vars
  <2>1. /\ UNCHANGED <<todo, throttle, top, spent, slice, wire>>
        /\ link' \in {link, "stopped"}
    BY <1>4 DEF ErrorCallback, Tick, Stop, vars, conn
  <2> QED BY <2>1 DEF SliceInv, SlicesJoin, ThrottleDelaysOnly
<1>5. CASE NextRequest
  <2>1. /\ UNCHANGED <<todo, slice, spent, link>> /\ todo = <<>>
        /\ throttle' \in Throttles /\ top' = Larger(top, throttle') /\ wire' = <<>>
    BY <1>5 DEF NextRequest, Idle
  <2>2. throttle' \in Nat BY <2>1, ResponseConstants DEF ResponseConstants
  <2>3. top' \in Nat /\ throttle' <= top' /\ spent' <= top'
    BY <2>1, <2>2 DEF SliceInv, Larger
  <2>4. ~ slice.on BY <2>1 DEF SliceInv
  <2>5. wire' \in Seq(WirePiece) /\ ThrottleDelaysOnly' BY <2>1 DEF ThrottleDelaysOnly
  <2> QED BY <2>1, <2>2, <2>3, <2>4, <2>5 DEF SliceInv, SlicesJoin
<1> QED BY <1>1, <1>2, <1>3, <1>4, <1>5 DEF Next

(* Whatever the throttle, the lengths and the moments of the clock: no     *)
(* byte of a write is skipped, sent twice or left out of its count.        *)
THEOREM SlicesAlwaysJoin == Spec => []SlicesJoin
<1>1. SliceInv => SlicesJoin BY DEF SliceInv
<1> QED BY <1>1, SliceInit, SliceStep, PTL DEF Spec

(* A write is cut short by the socket only, and refused, whole, only below *)
(* a throttle that was lowered.                                            *)
THEOREM ThrottleOnlyDelays == Spec => []ThrottleDelaysOnly
<1>1. SliceInv => ThrottleDelaysOnly BY DEF SliceInv
<1> QED BY <1>1, SliceInit, SliceStep, PTL DEF Spec

-----------------------------------------------------------------------------
(* The order of the parts of a response. *)

Ordered(s) == \A i, j \in DOMAIN s : i < j => Follows(s[i], s[j])

BehindWire(q) == \A i \in DOMAIN wire : wire[i].sent > 0 => Follows(wire[i], q)

(* Only the status line and the headers leave the headers open.            *)
OpensHeaders(q) == q.then = 1 => Rank(q.kind) <= 2

(* What is on the wire comes before all that a call may still write, and   *)
(* req.state tells how far the head got, whoever wrote it.                 *)
HeadInv ==
  /\ HeadInOrder
  /\ Ordered(todo)
  /\ \A j \in DOMAIN todo : BehindWire(todo[j]) /\ OpensHeaders(todo[j])
  /\ state = 0 => wire = <<>>
  /\ state = 1 => \A i \in DOMAIN wire : wire[i].sent > 0 => Rank(wire[i].kind) <= 2

LEMMA RankRange == \A k \in Kinds : Rank(k) \in 1..4
BY DEF Kinds, Rank

LEMMA KindsOfPieces ==
  ASSUME NEW s \in Seq(Piece), NEW i \in DOMAIN s PROVE s[i].kind \in Kinds
<1>1. s[i] \in Piece BY ElementOfSeq
<1>2. \A p \in Piece : p.kind \in Kinds BY DEF Piece
<1> QED BY <1>1, <1>2

LEMMA KindsOnWire ==
  ASSUME SliceInv, NEW i \in DOMAIN wire PROVE wire[i].kind \in Kinds
<1>1. wire \in Seq(WirePiece) BY DEF SliceInv
<1>2. wire[i] \in WirePiece BY <1>1, ElementOfSeq
<1>3. \A p \in WirePiece : p.kind \in Kinds BY DEF WirePiece
<1> QED BY <1>2, <1>3

LEMMA DataFollows ==
  ASSUME NEW p, p.kind \in Kinds, NEW q, Rank(q.kind) = 4 PROVE Follows(p, q)
<1>1. Rank(p.kind) \in 1..4 BY RankRange
<1>2. Rank(p.kind) < 4 \/ Rank(p.kind) = 4 BY <1>1
<1> QED BY <1>2 DEF Follows

LEMMA HeadPieces ==
  /\ StatusLine.kind = "status" /\ Header.kind = "header" /\ Blank.kind = "blank"
  /\ Header.then = 1 /\ StatusLine.then = 1 /\ Blank.then = 3
BY DEF StatusLine, Header, Blank

LEMMA HeadFollows ==
  /\ Follows(StatusLine, Header) /\ Follows(StatusLine, Blank)
  /\ Follows(Header, Header) /\ Follows(Header, Blank)
BY HeadPieces, Ranks DEF Follows

LEMMA HeadOpens == OpensHeaders(StatusLine) /\ OpensHeaders(Header) /\ OpensHeaders(Blank)
BY HeadPieces, Ranks DEF OpensHeaders

LEMMA HeadOrdered ==
  /\ Ordered(<<StatusLine>>) /\ Ordered(<<Header>>) /\ Ordered(<<Header, Blank>>)
  /\ Ordered(WholeHead)
<1> HIDE DEF StatusLine, Header, Blank
<1>1. Ordered(<<StatusLine>>) /\ Ordered(<<Header>>) BY DEF Ordered
<1>2. Ordered(<<Header, Blank>>) BY HeadFollows DEF Ordered
<1>3. Ordered(<<StatusLine, Header, Header, Blank>>) BY HeadFollows DEF Ordered
<1>4. Ordered(<<Header, Header, Blank>>) BY HeadFollows DEF Ordered
<1>5. Ordered(<<>>) BY DEF Ordered
<1> QED BY <1>1, <1>2, <1>3, <1>4, <1>5 DEF WholeHead

LEMMA DataOrdered ==
  ASSUME NEW h \in Script, NEW d \in Data, Ordered(h),
         \A i \in DOMAIN h : OpensHeaders(h[i])
  PROVE  Ordered(h \o d) /\ \A i \in DOMAIN (h \o d) : OpensHeaders((h \o d)[i])
<1>1. /\ h \in Seq(Piece) /\ d \in Seq(Piece)
      /\ \A i \in DOMAIN d : Rank(d[i].kind) = 4 /\ d[i].then # 1
  BY DEF Script, Data
<1>2. /\ \A i \in DOMAIN h : h[i].kind \in Kinds
      /\ \A i \in DOMAIN d : d[i].kind \in Kinds
  BY <1>1, KindsOfPieces
<1> DEFINE s == h \o d
<1>3. /\ DOMAIN s = 1..(Len(h) + Len(d)) /\ Len(h) \in Nat /\ Len(d) \in Nat
      /\ \A i \in 1..Len(h) : i \in DOMAIN h /\ s[i] = h[i]
      /\ \A i \in (Len(h) + 1)..(Len(h) + Len(d)) : i - Len(h) \in DOMAIN d /\ s[i] = d[i - Len(h)]
  BY <1>1, ConcatProperties
<1> HIDE DEF s
<1>4. ASSUME NEW i \in DOMAIN s
      PROVE  /\ s[i].kind \in Kinds /\ OpensHeaders(s[i])
             /\ i \in 1..Len(h) \/ Rank(s[i].kind) = 4
  <2>1. CASE i \in 1..Len(h) BY <1>2, <1>3, <2>1
  <2>2. CASE i \in (Len(h) + 1)..(Len(h) + Len(d))
    <3>1. s[i].kind \in Kinds /\ Rank(s[i].kind) = 4 /\ s[i].then # 1 BY <1>1, <1>2, <1>3, <2>2
    <3> QED BY <3>1 DEF OpensHeaders
  <2> QED BY <1>3, <2>1, <2>2
<1>5. ASSUME NEW i \in DOMAIN s, NEW j \in DOMAIN s, i < j PROVE Follows(s[i], s[j])
  <2>1. CASE Rank(s[j].kind) = 4 BY <1>4, <2>1, DataFollows
  <2>2. CASE j \in 1..Len(h)
    <3>1. i \in 1..Len(h) BY <1>3, <1>5, <2>2
    <3> QED BY <1>3, <1>5, <2>2, <3>1 DEF Ordered
  <2> QED BY <1>4, <2>1, <2>2
<1> QED BY <1>4, <1>5 DEF Ordered, s

(* The tests of req.state are what keeps a call from writing a part of a   *)
(* head that the wire is past.                                             *)
LEMMA CallBehind ==
  ASSUME SliceInv, HeadInv, NEW pieces, Call(pieces)
  PROVE  /\ Ordered(pieces)
         /\ \A j \in DOMAIN pieces : BehindWire(pieces[j]) /\ OpensHeaders(pieces[j])
<1> HIDE DEF StatusLine, Header, Blank
<1>1. \A i \in DOMAIN wire : wire[i].kind \in Kinds BY KindsOnWire
<1>2. ASSUME NEW q, Rank(q.kind) = 4 PROVE BehindWire(q)
  BY <1>1, <1>2, DataFollows DEF BehindWire
<1>3. ASSUME state = 0, NEW q PROVE BehindWire(q)
  BY <1>3 DEF HeadInv, BehindWire
<1>4. ASSUME state = 1, NEW q \in {Header, Blank} PROVE BehindWire(q)
  <2>1. \A i \in DOMAIN wire : wire[i].sent > 0 => Rank(wire[i].kind) \in 1..2
    BY <1>1, <1>4, RankRange DEF HeadInv
  <2>2. Rank(q.kind) \in 2..3 BY HeadPieces, Ranks
  <2>3. ASSUME NEW i \in DOMAIN wire, wire[i].sent > 0 PROVE Follows(wire[i], q)
    <3>1. Rank(wire[i].kind) \in 1..2 BY <2>1, <2>3
    <3>2. \/ Rank(wire[i].kind) < Rank(q.kind)
          \/ Rank(wire[i].kind) = Rank(q.kind) /\ Rank(wire[i].kind) = 2
      BY <2>2, <3>1
    <3> QED BY <3>2 DEF Follows
  <2> QED BY <2>3 DEF BehindWire
<1>5. CASE state = 0 /\ pieces = <<StatusLine>>
  BY <1>3, <1>5, HeadOpens, HeadOrdered
<1>6. CASE state = 1 /\ pieces \in {<<Header>>, <<Header, Blank>>}
  <2>1. \A j \in DOMAIN pieces : pieces[j] \in {Header, Blank} BY <1>6
  <2> QED BY <1>4, <1>6, <2>1, HeadOpens, HeadOrdered
<1>7. ASSUME NEW d \in Data, pieces = WholeHead \o d
      PROVE  /\ Ordered(pieces)
             /\ \A j \in DOMAIN pieces : BehindWire(pieces[j]) /\ OpensHeaders(pieces[j])
  <2>1. \A i \in DOMAIN WholeHead : OpensHeaders(WholeHead[i]) BY HeadTypes, HeadOpens
  <2>2. Ordered(pieces) /\ \A j \in DOMAIN pieces : OpensHeaders(pieces[j])
    BY <1>7, <2>1, HeadTypes, HeadOrdered, DataOrdered
  <2>3. ASSUME NEW j \in DOMAIN pieces PROVE BehindWire(pieces[j])
    <3>1. CASE state = 0 BY <1>3, <3>1
    <3>2. /\ WholeHead \in Seq(Piece) /\ d \in Seq(Piece)
          /\ \A i \in DOMAIN d : Rank(d[i].kind) = 4
      BY HeadTypes DEF Script, Data
    <3>3. j \in 1..(Len(WholeHead) + Len(d)) /\ Len(WholeHead) \in Nat /\ Len(d) \in Nat
      BY <1>7, <3>2, ConcatProperties
    <3>4. CASE j > Len(WholeHead)
      <4>1. j - Len(WholeHead) \in DOMAIN d /\ pieces[j] = d[j - Len(WholeHead)]
        BY <1>7, <3>2, <3>3, <3>4, ConcatProperties
      <4> QED BY <1>2, <3>2, <4>1
    <3>5. CASE state # 0 /\ j <= Len(WholeHead)
      <4>1. j \in 1..Len(WholeHead) /\ pieces[j] = WholeHead[j]
        BY <1>7, <3>2, <3>3, <3>5, ConcatProperties
      <4>2. state = 1 /\ WholeHead = <<Header, Header, Blank>>
        BY <3>5, <4>1 DEF WholeHead, MayStart, HeadersOpen
      <4>3. pieces[j] \in {Header, Blank} BY <4>1, <4>2
      <4> QED BY <1>4, <4>2, <4>3
    <3> QED BY <3>1, <3>3, <3>4, <3>5
  <2> QED BY <2>2, <2>3
<1>8. CASE pieces \in Data
  <2>1. /\ pieces \in Seq(Piece) /\ <<>> \in Script
        /\ \A i \in DOMAIN pieces : Rank(pieces[i].kind) = 4
    BY <1>8, Tuples DEF Data, Script
  <2>2. Ordered(<<>>) /\ \A i \in DOMAIN <<>> : OpensHeaders(<<>>[i]) BY DEF Ordered
  <2>3. <<>> \o pieces = pieces BY <2>1, ConcatEmptySeq
  <2>4. Ordered(pieces) /\ \A j \in DOMAIN pieces : OpensHeaders(pieces[j])
    BY <1>8, <2>1, <2>2, <2>3, DataOrdered
  <2> QED BY <1>2, <2>1, <2>4
<1> QED BY <1>5, <1>6, <1>7, <1>8 DEF Call

LEMMA EndIsData == Rank(EndOfChunks.kind) = 4 /\ OpensHeaders(EndOfChunks)
BY Ranks DEF EndOfChunks, OpensHeaders

(* A write that returns leaves its piece behind all that was sent and      *)
(* before all that is left to write.                                       *)
LEMMA ReturnKeepsHead ==
  ASSUME SliceInv, SliceInv', HeadInv, todo # <<>>, NEW ret, NEW left, Returns(ret, left)
  PROVE  HeadInv'
<1> DEFINE h == Head(todo)
           p == [kind |-> h.kind, len |-> h.len, sent |-> left]
<1>1. /\ wire' = Append(wire, p) \/ wire' = wire
      /\ todo' = Behind(todo, ret) /\ state' = h.then
  BY DEF Returns
<1>2. todo \in Script /\ todo \in Seq(Piece) /\ wire \in Seq(WirePiece)
  BY DEF SliceInv, Script
<1>3. 1 \in DOMAIN todo /\ h = todo[1] /\ h \in Piece BY <1>2, HeadOfScript, HeadTailProperties
<1>4. BehindWire(h) /\ OpensHeaders(h) BY <1>3 DEF HeadInv
<1>5. h.kind \in Kinds /\ h.then \in {1, 3, 10} BY <1>3 DEF Piece
<1> DEFINE after(q) == (\A i \in DOMAIN wire : wire[i].sent > 0 => Follows(wire[i], q))
                       /\ Follows(p, q)
<1>6. ASSUME NEW q, Follows(h, q), BehindWire(q) PROVE after(q)
  BY <1>6 DEF BehindWire, Follows
<1>7. p.kind = h.kind /\ p.sent = left OBVIOUS
<1> HIDE DEF p, h
<1>8. DOMAIN wire' \subseteq 1..Len(wire) + 1 /\ DOMAIN wire = 1..Len(wire) /\ Len(wire) \in Nat
  BY <1>1, <1>2, AppendProperties
<1>9. ASSUME NEW i \in DOMAIN wire'
      PROVE  \/ i \in DOMAIN wire /\ wire'[i] = wire[i]
             \/ i = Len(wire) + 1 /\ wire'[i] = p
  <2>1. CASE wire' = wire BY <1>9, <2>1
  <2>2. CASE wire' = Append(wire, p) BY <1>2, <1>8, <1>9, <2>2, AppendProperties
  <2> QED BY <1>1, <2>1, <2>2
<1>10. HeadInOrder'
  <2> SUFFICES ASSUME NEW i \in DOMAIN wire', NEW j \in DOMAIN wire',
                      i < j, wire'[i].sent > 0, wire'[j].sent > 0
               PROVE  Follows(wire'[i], wire'[j])
    BY DEF HeadInOrder, Follows
  <2>1. i \in DOMAIN wire /\ wire'[i] = wire[i] BY <1>8, <1>9
  <2>2. CASE j \in DOMAIN wire /\ wire'[j] = wire[j]
    BY <2>1, <2>2 DEF HeadInv, HeadInOrder
  <2>3. CASE wire'[j] = p
    <3>1. Follows(wire[i], h) BY <1>4, <2>1 DEF BehindWire
    <3> QED BY <1>7, <2>1, <2>3, <3>1 DEF Follows
  <2> QED BY <1>9, <2>2, <2>3
<1>11. ASSUME NEW j \in DOMAIN todo' PROVE after(todo'[j]) /\ OpensHeaders(todo'[j])
  <2>1. CASE todo' = Tail(todo)
    <3>1. /\ j \in 1..Len(todo) - 1 /\ Len(todo) \in Nat /\ DOMAIN todo = 1..Len(todo)
          /\ todo'[j] = todo[j + 1]
      BY <1>2, <1>11, <2>1, HeadTailProperties
    <3>2. j + 1 \in DOMAIN todo /\ 1 < j + 1 BY <3>1
    <3>3. Follows(h, todo[j + 1]) BY <1>3, <3>2 DEF HeadInv, Ordered
    <3>4. BehindWire(todo[j + 1]) /\ OpensHeaders(todo[j + 1]) BY <3>2 DEF HeadInv
    <3> QED BY <1>6, <3>1, <3>3, <3>4
  <2>2. CASE todo' = <<EndOfChunks>>
    <3>1. todo'[j] = EndOfChunks BY <1>11, <2>2
    <3>2. BehindWire(EndOfChunks) BY EndIsData, KindsOnWire, DataFollows DEF BehindWire
    <3>3. Follows(h, EndOfChunks) BY <1>5, EndIsData, DataFollows
    <3> QED BY <1>6, <3>1, <3>2, <3>3, EndIsData
  <2>3. CASE todo' = <<>> BY <1>11, <2>3
  <2> QED BY <1>1, <1>2, <2>1, <2>2, <2>3, BehindTypes
<1>12. (\A j \in DOMAIN todo : BehindWire(todo[j]) /\ OpensHeaders(todo[j]))'
  <2>1. ASSUME NEW j \in DOMAIN todo', NEW i \in DOMAIN wire', wire'[i].sent > 0
        PROVE  Follows(wire'[i], todo'[j])
    BY <1>9, <1>11, <2>1
  <2>2. \A j \in DOMAIN todo' : OpensHeaders(todo'[j]) BY <1>11
  <2> QED BY <2>1, <2>2 DEF BehindWire, OpensHeaders, Follows, Rank
<1>13. Ordered(todo)'
  <2>1. CASE todo' = Tail(todo)
    <3> SUFFICES ASSUME NEW i \in DOMAIN todo', NEW j \in DOMAIN todo', i < j
                 PROVE  Follows(todo'[i], todo'[j])
      BY DEF Ordered, Follows
    <3>1. /\ i \in 1..Len(todo) - 1 /\ j \in 1..Len(todo) - 1 /\ Len(todo) \in Nat
          /\ DOMAIN todo = 1..Len(todo)
          /\ todo'[i] = todo[i + 1] /\ todo'[j] = todo[j + 1]
      BY <1>2, <2>1, HeadTailProperties
    <3>2. i + 1 \in DOMAIN todo /\ j + 1 \in DOMAIN todo /\ i + 1 < j + 1 BY <3>1
    <3> QED BY <3>1, <3>2 DEF HeadInv, Ordered
  <2>2. CASE todo' = <<EndOfChunks>> \/ todo' = <<>>
    <3>1. \A i, j \in DOMAIN todo' : ~ (i < j) BY <2>2
    <3> QED BY <3>1 DEF Ordered
  <2> QED BY <1>1, <1>2, <2>1, <2>2, BehindTypes
<1>14. state' # 0 BY <1>1, <1>5
<1>15. ASSUME state' = 1, NEW i \in DOMAIN wire', wire'[i].sent > 0
       PROVE  Rank(wire'[i].kind) <= 2
  <2>1. Rank(h.kind) <= 2 BY <1>1, <1>4, <1>15 DEF OpensHeaders
  <2>2. CASE wire'[i] = p BY <1>7, <2>1, <2>2
  <2>3. CASE i \in DOMAIN wire /\ wire'[i] = wire[i]
    <3>1. Follows(wire[i], h) BY <1>4, <1>15, <2>3 DEF BehindWire
    <3>2. Rank(wire[i].kind) \in 1..4 /\ Rank(h.kind) \in 1..4
      BY <1>5, <2>3, KindsOnWire, RankRange
    <3> QED BY <2>1, <2>3, <3>1, <3>2 DEF Follows
  <2> QED BY <1>9, <2>2, <2>3
<1> QED BY <1>10, <1>12, <1>13, <1>14, <1>15 DEF HeadInv, Rank

LEMMA HeadStep == SliceInv /\ SliceInv' /\ HeadInv /\ [Next]_vars => HeadInv'
<1> SUFFICES ASSUME SliceInv, SliceInv', HeadInv, [Next]_vars PROVE HeadInv' OBVIOUS
<1> USE DEF Ordered, BehindWire, OpensHeaders, Follows, HeadInOrder, Rank
<1>1. ASSUME UNCHANGED <<todo, wire>>, state' \in {state, 10} PROVE HeadInv'
  BY <1>1 DEF HeadInv
<1>2. ASSUME todo # <<>>, NEW ret, NEW left, Returns(ret, left) PROVE HeadInv'
  BY <1>2, ReturnKeepsHead
<1>3. CASE FirstSlice
  <2>1. \/ \E total, left, buf : Loops(total, left, buf)
        \/ \E ret, left : Returns(ret, left)
    BY <1>3 DEF FirstSlice
  <2>2. todo # <<>> BY <1>3 DEF FirstSlice
  <2> QED BY <1>1, <1>2, <2>1, <2>2 DEF Loops
<1>4. CASE NextSlice
  <2>1. \/ \E total, left, buf : Loops(total, left, buf)
        \/ \E ret, left : Returns(ret, left)
    BY <1>4 DEF NextSlice
  <2>2. todo # <<>> BY <1>4 DEF NextSlice, SliceInv
  <2> QED BY <1>1, <1>2, <2>1, <2>2 DEF Loops
<1>5. CASE LoopStops
  <2>1. todo # <<>> /\ Returns(slice.total, slice.left) BY <1>5 DEF LoopStops, SliceInv
  <2> QED BY <1>2, <2>1
<1>6. ASSUME IsCall PROVE HeadInv'
  <2>1. PICK pieces, what : Call(pieces) /\ Writes(pieces, what) BY <1>6 DEF IsCall
  <2>2. todo' = pieces /\ UNCHANGED <<wire, state>> BY <2>1 DEF Writes
  <2>3. /\ Ordered(pieces)
        /\ \A j \in DOMAIN pieces : BehindWire(pieces[j]) /\ OpensHeaders(pieces[j])
    BY <2>1, CallBehind
  <2> QED BY <2>2, <2>3 DEF HeadInv
<1>7. CASE \/ Start \/ Add \/ Send \/ Write \/ Chunk \/ Ok
           \/ ServeFile \/ ServeCompressed \/ Error
  BY <1>6, <1>7, AllCalls
<1>8. CASE ErrorCallbackReturns
  <2>1. CASE UNCHANGED conn BY <1>1, <2>1 DEF conn
  <2> QED BY <1>6, <1>8, <2>1, PageCalls, FileCalls DEF ErrorCallbackReturns
<1>9. CASE ErrorCallback \/ Tick \/ Stop \/ UNCHANGED vars
  BY <1>1, <1>9 DEF ErrorCallback, Tick, Stop, vars, conn
<1>10. CASE NextRequest
  <2>1. todo = <<>> /\ todo' = <<>> /\ wire' = <<>> /\ state' = 0
    BY <1>10 DEF NextRequest, Idle
  <2> QED BY <2>1 DEF HeadInv
<1> QED BY <1>3, <1>4, <1>5, <1>7, <1>8, <1>9, <1>10 DEF Next

(* Any number of handlers, callbacks and error pages in any order, written *)
(* in any slices: one status line, then headers, then one blank line, and  *)
(* nothing of a head behind the first byte of data.                        *)
THEOREM HeadComesInOrder == Spec => []HeadInOrder
<1>1. Init => HeadInv BY DEF Init, HeadInv, HeadInOrder, Ordered
<1>2. HeadInv => HeadInOrder BY DEF HeadInv
<1> QED BY <1>1, <1>2, SliceInit, SliceStep, HeadStep, PTL DEF Spec

-----------------------------------------------------------------------------
(* Types. *)

(* A throttle is one of those set_throttle returns, and no piece on the    *)
(* wire is longer than it should be.                                       *)
PlainInv ==
  /\ state \in {0, 1, 3, 10}
  /\ throttle \in Throttles /\ top \in Throttles
  /\ thisSecond \in BOOLEAN /\ mustClose \in BOOLEAN
  /\ ~ slice.on => slice = NoSlice
  /\ \A i \in DOMAIN wire : wire[i].kind \in Kinds /\ wire[i].sent \in 0..wire[i].len
  /\ frame \in {"none", "body", "nobody"}
  /\ calls \in 0..MaxCalls /\ requests \in 1..MaxRequests

LEMMA OutcomeWithin ==
  ASSUME link \in {"up", "gone", "stopped"}, NEW n \in Int, NEW w \in Outcomes(n)
  PROVE  w.left \in Nat /\ (w.left <= n \/ w.left = 0)
<1>1. CASE n <= 0 BY <1>1 DEF Outcomes
<1>2. CASE n > 0 /\ link = "up" BY <1>2 DEF Outcomes
<1>3. CASE n > 0 /\ link # "up" BY <1>3 DEF Outcomes
<1> QED BY <1>1, <1>2, <1>3

LEMMA ReturnKeepsPlain ==
  ASSUME SliceInv, PlainInv, todo # <<>>, NEW ret, NEW left \in Nat, Returns(ret, left),
         left <= Head(todo).len, thisSecond' \in BOOLEAN,
         UNCHANGED <<throttle, top, mustClose, frame, calls, requests>>
  PROVE  PlainInv'
<1> DEFINE p == [kind |-> Head(todo).kind, len |-> Head(todo).len, sent |-> left]
<1>1. Head(todo) \in Piece /\ wire \in Seq(WirePiece) BY HeadOfScript DEF SliceInv
<1>2. state' \in {1, 3, 10} BY <1>1 DEF Returns, Piece
<1>3. slice' = NoSlice BY DEF Returns
<1>4. wire' = wire \/ wire' = Append(wire, p) BY DEF Returns
<1>5. p \in WirePiece /\ p.kind \in Kinds /\ p.sent \in 0..p.len
  BY <1>1 DEF Piece, WirePiece
<1> HIDE DEF p
<1>6. ASSUME NEW i \in DOMAIN wire'
      PROVE  wire'[i].kind \in Kinds /\ wire'[i].sent \in 0..wire'[i].len
  <2>1. CASE wire' = wire BY <1>6, <2>1 DEF PlainInv
  <2>2. CASE wire' = Append(wire, p)
    <3>1. /\ i \in 1..(Len(wire) + 1) /\ Len(wire) \in Nat /\ DOMAIN wire = 1..Len(wire)
          /\ i <= Len(wire) => wire'[i] = wire[i]
          /\ i = Len(wire) + 1 => wire'[i] = p
      BY <1>1, <1>5, <1>6, <2>2, AppendProperties
    <3>2. CASE i <= Len(wire)
      <4>1. i \in DOMAIN wire BY <3>1, <3>2
      <4> QED BY <3>1, <3>2, <4>1 DEF PlainInv
    <3>3. CASE i = Len(wire) + 1 BY <1>5, <3>1, <3>3
    <3> QED BY <3>1, <3>2, <3>3
  <2> QED BY <1>4, <2>1, <2>2
<1> QED BY <1>2, <1>3, <1>6 DEF PlainInv

LEMMA LoopKeepsPlain ==
  ASSUME PlainInv, NEW total, NEW left, NEW buf, Loops(total, left, buf),
         thisSecond' \in BOOLEAN,
         UNCHANGED <<throttle, top, mustClose, frame, calls, requests>>
  PROVE  PlainInv'
<1>1. /\ slice' = [on |-> TRUE, buf |-> buf, total |-> total, left |-> left]
      /\ state' = 10 /\ UNCHANGED wire
  BY DEF Loops
<1>2. slice'.on BY <1>1
<1> QED BY <1>1, <1>2 DEF PlainInv

LEMMA FirstKeepsPlain == ASSUME SliceInv, PlainInv, FirstSlice PROVE PlainInv'
<1> DEFINE len == Head(todo).len
           n   == Allowed(len)
<1>1. todo # <<>> /\ UNCHANGED <<throttle, top, mustClose, frame, calls, requests>>
  BY DEF FirstSlice
<1>2. PICK w \in Outcomes(n) :
        /\ IF throttle > 0
             THEN /\ thisSecond' = TRUE
                  /\ spent' = Spent + (IF w.ret = n THEN n ELSE 0)
             ELSE UNCHANGED <<thisSecond, spent>>
        /\ \/ Loops(n, w.left, BufAfter(0, n))
           \/ Returns(w.ret, w.left)
  BY DEF FirstSlice
<1>3. len \in Nat /\ throttle \in Nat /\ spent \in Nat /\ link \in {"up", "gone", "stopped"}
  BY <1>1, HeadOfScript DEF SliceInv
<1>4. Spent \in Nat BY <1>3 DEF Spent
<1> HIDE DEF len
<1>5. n \in Int /\ n <= len BY <1>3, <1>4 DEF Allowed, Smaller
<1> HIDE DEF n
<1>6. w.left \in Nat /\ w.left <= len
  <2>1. w.left \in Nat /\ (w.left <= n \/ w.left = 0) BY <1>3, <1>5, OutcomeWithin
  <2> QED BY <1>3, <1>5, <2>1
<1>7. thisSecond' \in BOOLEAN BY <1>2 DEF PlainInv
<1>8. CASE Loops(n, w.left, BufAfter(0, n)) BY <1>1, <1>7, <1>8, LoopKeepsPlain
<1>9. CASE Returns(w.ret, w.left) BY <1>1, <1>6, <1>7, <1>9, ReturnKeepsPlain DEF len
<1> QED BY <1>2, <1>8, <1>9

LEMMA NextKeepsPlain == ASSUME SliceInv, PlainInv, NextSlice PROVE PlainInv'
<1> DEFINE len == Head(todo).len
           n   == SliceLength(len, slice.total)
<1>1. slice.on /\ UNCHANGED <<throttle, top, mustClose, frame, calls, requests>>
  BY DEF NextSlice
<1>2. PICK w \in Outcomes(n) :
        /\ thisSecond' = TRUE \/ UNCHANGED thisSecond
        /\ \/ Loops(slice.total + n, slice.left + w.left, BufAfter(slice.buf, n))
           \/ Returns(slice.total + n, slice.left + w.left)
           \/ Returns(slice.total, slice.left + w.left)
  BY DEF NextSlice
<1>3. /\ todo # <<>> /\ throttle \in Nat /\ link \in {"up", "gone", "stopped"}
      /\ slice.total \in Nat /\ slice.left = slice.total /\ slice.total < len
  BY <1>1 DEF SliceInv, SlicesJoin
<1>4. len \in Nat BY <1>3, HeadOfScript
<1> HIDE DEF len
<1>5. n \in Int /\ n <= len - slice.total BY <1>3, <1>4 DEF SliceLength, Smaller
<1> HIDE DEF n
<1>6. slice.left + w.left \in Nat /\ slice.left + w.left <= len
  <2>1. w.left \in Nat /\ (w.left <= n \/ w.left = 0) BY <1>3, <1>5, OutcomeWithin
  <2> QED BY <1>3, <1>4, <1>5, <2>1
<1>7. thisSecond' \in BOOLEAN BY <1>2 DEF PlainInv
<1>8. CASE \E total, left, buf : Loops(total, left, buf)
  BY <1>1, <1>7, <1>8, LoopKeepsPlain
<1>9. CASE \E ret : Returns(ret, slice.left + w.left)
  BY <1>1, <1>3, <1>6, <1>7, <1>9, ReturnKeepsPlain DEF len
<1> QED BY <1>2, <1>8, <1>9

LEMMA StopKeepsPlain == ASSUME SliceInv, PlainInv, LoopStops PROVE PlainInv'
<1>1. /\ slice.on /\ Returns(slice.total, slice.left)
      /\ UNCHANGED <<throttle, top, thisSecond, mustClose, frame, calls, requests>>
  BY DEF LoopStops
<1>2. todo # <<>> /\ slice.left \in Nat /\ slice.left < Head(todo).len
  BY <1>1 DEF SliceInv, SlicesJoin
<1>3. slice.left <= Head(todo).len BY <1>2, HeadOfScript
<1>4. thisSecond' \in BOOLEAN BY <1>1 DEF PlainInv
<1> QED BY <1>1, <1>2, <1>3, <1>4, ReturnKeepsPlain

(* A call counts itself; an error may also ask to close. *)
LEMMA CallKeepsPlain ==
  ASSUME PlainInv, NEW pieces, NEW what, Writes(pieces, what),
         mustClose' \in BOOLEAN, frame' \in {"none", "body", "nobody"}
  PROVE  PlainInv'
<1>1. /\ calls < MaxCalls /\ calls' = calls + 1
      /\ UNCHANGED <<state, throttle, top, thisSecond, slice, wire, requests>>
  BY DEF Writes
<1>2. calls' \in 0..MaxCalls
  BY <1>1, ResponseConstants DEF PlainInv, ResponseConstants
<1> QED BY <1>1, <1>2 DEF PlainInv

LEMMA PlainStep == SliceInv /\ PlainInv /\ [Next]_vars => PlainInv'
<1> SUFFICES ASSUME SliceInv, PlainInv, [Next]_vars PROVE PlainInv' OBVIOUS
<1>1. mustClose \in BOOLEAN /\ frame \in {"none", "body", "nobody"} BY DEF PlainInv
<1>2. CASE \/ Start \/ Add \/ Send \/ Write \/ Chunk \/ Ok
           \/ ServeFile \/ ServeCompressed \/ Error
  <2>1. /\ \E pieces, what : Writes(pieces, what)
        /\ mustClose' \in {mustClose, TRUE} /\ UNCHANGED frame
    <3>1. CASE Start \/ Add \/ Send \/ Write \/ Chunk \/ Ok \/ ServeCompressed
      <4>1. \E pieces : HandlerWrites(pieces)
        BY <3>1 DEF Start, Add, Send, Write, Chunk, Ok, ServeCompressed
      <4> QED BY <4>1 DEF HandlerWrites
    <3>2. CASE FilePage /\ UNCHANGED frame BY <3>2 DEF FilePage
    <3>3. CASE (\E hasBody : DefaultPage(hasBody)) /\ UNCHANGED frame
      BY <3>3 DEF DefaultPage
    <3> QED BY <1>2, <3>1, <3>2, <3>3 DEF ServeFile, Error
  <2> QED BY <1>1, <2>1, CallKeepsPlain
<1>3. CASE ErrorCallbackReturns
  <2>1. frame' = "none" BY <1>3 DEF ErrorCallbackReturns
  <2>2. CASE UNCHANGED <<conn, mustClose, served, calls, requests>>
    BY <2>1, <2>2 DEF PlainInv, conn
  <2>3. CASE \E hasBody : DefaultPage(hasBody)
    BY <2>1, <2>3, CallKeepsPlain DEF DefaultPage
  <2>4. CASE FilePage
    <3>1. UNCHANGED mustClose /\ \E pieces, what : Writes(pieces, what) BY <2>4 DEF FilePage
    <3> QED BY <1>1, <2>1, <3>1, CallKeepsPlain
  <2> QED BY <1>3, <2>2, <2>3, <2>4 DEF ErrorCallbackReturns
<1>4. CASE ErrorCallback
  <2>1. /\ calls < MaxCalls /\ calls' = calls + 1 /\ frame' \in {"body", "nobody"}
        /\ UNCHANGED <<conn, mustClose, requests>>
    BY <1>4 DEF ErrorCallback
  <2>2. calls' \in 0..MaxCalls
    BY <2>1, ResponseConstants DEF PlainInv, ResponseConstants
  <2> QED BY <2>1, <2>2 DEF PlainInv, conn
<1>5. CASE NextRequest
  <2>1. /\ state' = 0 /\ throttle' \in Throttles /\ top' \in {top, throttle'}
        /\ wire' = <<>> /\ requests < MaxRequests /\ requests' = requests + 1
        /\ UNCHANGED <<thisSecond, slice, mustClose, frame, calls>>
    BY <1>5 DEF NextRequest, Larger
  <2>2. requests' \in 1..MaxRequests
    BY <2>1, ResponseConstants DEF PlainInv, ResponseConstants
  <2> QED BY <2>1, <2>2 DEF PlainInv
<1>6. CASE Tick \/ Stop \/ UNCHANGED vars
  <2>1. /\ UNCHANGED <<state, throttle, top, slice, wire, mustClose, frame, calls, requests>>
        /\ thisSecond' \in {thisSecond, FALSE}
    BY <1>6 DEF Tick, Stop, vars, conn
  <2>2. thisSecond' \in BOOLEAN BY <2>1 DEF PlainInv
  <2> QED BY <2>1, <2>2 DEF PlainInv
<1> QED BY <1>2, <1>3, <1>4, <1>5, <1>6, FirstKeepsPlain, NextKeepsPlain, StopKeepsPlain DEF Next

(* The values of all variables: no piece is longer on the wire than it is, *)
(* and no second has more bytes than the highest throttle.                 *)
THEOREM TypeCorrect == Spec => []TypeOK
<1>1. Init => PlainInv
  <2> SUFFICES ASSUME Init PROVE PlainInv OBVIOUS
  <2>1. calls \in 0..MaxCalls /\ requests \in 1..MaxRequests
    BY ResponseConstants DEF Init, ResponseConstants
  <2>2. thisSecond \in BOOLEAN /\ mustClose \in BOOLEAN BY DEF Init
  <2>3. state = 0 /\ throttle \in Throttles /\ top \in Throttles /\ slice = NoSlice /\ wire = <<>>
        /\ frame = "none"
    BY DEF Init
  <2> QED BY <2>1, <2>2, <2>3 DEF PlainInv
<1>2. SliceInv /\ PlainInv => TypeOK
  <2> SUFFICES ASSUME SliceInv, PlainInv PROVE TypeOK OBVIOUS
  <2>1. slice.on \in BOOLEAN BY DEF SliceInv
  <2>2. CASE slice.on
    <3>1. todo # <<>> /\ slice.total \in Nat /\ slice.total < Head(todo).len
      BY <2>2 DEF SliceInv
    <3>2. slice.total \in 0..Head(todo).len - 1 BY <3>1, HeadOfScript
    <3> QED BY <2>1, <2>2, <3>1, <3>2 DEF TypeOK, SliceInv, PlainInv, Script
  <2>3. CASE ~ slice.on
    BY <2>1, <2>3 DEF TypeOK, SliceInv, PlainInv, Script
  <2> QED BY <2>1, <2>2, <2>3
<1> QED BY <1>1, <1>2, SliceInit, SliceStep, PlainStep, PTL DEF Spec

-----------------------------------------------------------------------------
(* Chunks. *)

(* What is still to be written: a chunk, or what is left of one. *)
Remainder(s) ==
  \A j \in DOMAIN s :
    /\ s[j].len > 0
    /\ s[j].kind = "size" =>
         s[j].whole /\ j + 2 \in DOMAIN s /\ s[j + 1].kind = "data" /\ s[j + 2].kind = "crlf"
    /\ s[j].kind = "data" =>
         s[j].whole /\ j + 1 \in DOMAIN s /\ s[j + 1].kind = "crlf"
         /\ (j = 1 \/ s[j - 1].kind = "size")

(* What a call writes begins no chunk in its middle. *)
Shaped(s) == s \in Script /\ Remainder(s) /\ (s # <<>> => s[1].kind # "data")

LEMMA PlainIsShaped ==
  ASSUME NEW s \in Script,
         \A j \in DOMAIN s : s[j].kind \notin {"size", "data"} /\ s[j].len > 0
  PROVE  Shaped(s)
<1>1. s # <<>> => 1 \in DOMAIN s
  <2>1. s \in Seq(Piece) BY DEF Script
  <2> QED BY <2>1
<1> QED BY <1>1 DEF Shaped, Remainder

LEMMA ShapedConcat ==
  ASSUME NEW a, NEW b, Shaped(a), Shaped(b) PROVE Shaped(a \o b)
<1> DEFINE s == a \o b
<1>1. a \in Seq(Piece) /\ b \in Seq(Piece) /\ Len(a) \in Nat /\ Len(b) \in Nat
  BY DEF Shaped, Script
<1>2. /\ s \in Script /\ DOMAIN s = 1..(Len(a) + Len(b))
      /\ \A i \in 1..Len(a) : i \in DOMAIN a /\ s[i] = a[i]
      /\ \A i \in 1..Len(b) : i \in DOMAIN b /\ s[Len(a) + i] = b[i]
  <2>1. s \in Script BY <1>1, ConcatProperties DEF Script
  <2>2. /\ DOMAIN s = 1..(Len(a) + Len(b))
        /\ \A i \in 1..(Len(a) + Len(b)) :
             s[i] = IF i <= Len(a) THEN a[i] ELSE b[i - Len(a)]
    BY <1>1, ConcatProperties
  <2>3. ASSUME NEW i \in 1..Len(b) PROVE i \in DOMAIN b /\ s[Len(a) + i] = b[i]
    <3>1. /\ Len(a) + i \in 1..(Len(a) + Len(b)) /\ ~ (Len(a) + i <= Len(a))
          /\ (Len(a) + i) - Len(a) = i
      BY <1>1
    <3> QED BY <1>1, <2>2, <3>1
  <2>4. ASSUME NEW i \in 1..Len(a) PROVE i \in DOMAIN a /\ s[i] = a[i]
    <3>1. i \in 1..(Len(a) + Len(b)) /\ i <= Len(a) BY <1>1
    <3> QED BY <1>1, <2>2, <3>1
  <2> QED BY <2>1, <2>2, <2>3, <2>4
<1> HIDE DEF s
<1>3. /\ Remainder(a) /\ Remainder(b) /\ (b # <<>> => b[1].kind # "data")
      /\ (a # <<>> => a[1].kind # "data")
      /\ DOMAIN a = 1..Len(a) /\ DOMAIN b = 1..Len(b)
  BY <1>1 DEF Shaped
<1>4. ASSUME NEW j \in DOMAIN s
      PROVE  /\ s[j].len > 0
             /\ s[j].kind = "size" =>
                  s[j].whole /\ j + 2 \in DOMAIN s /\ s[j + 1].kind = "data"
                  /\ s[j + 2].kind = "crlf"
             /\ s[j].kind = "data" =>
                  s[j].whole /\ j + 1 \in DOMAIN s /\ s[j + 1].kind = "crlf"
                  /\ (j = 1 \/ s[j - 1].kind = "size")
  <2>1. CASE j \in 1..Len(a)
    <3>1. s[j] = a[j] /\ j \in DOMAIN a BY <1>2, <2>1
    <3>2. ASSUME NEW k \in DOMAIN a PROVE k \in DOMAIN s /\ s[k] = a[k]
      BY <1>1, <1>2, <1>3
    <3>3. j - 1 \in DOMAIN a \/ j = 1 BY <1>1, <1>3, <2>1
    <3> QED BY <1>3, <3>1, <3>2, <3>3 DEF Remainder
  <2>2. CASE j \in (Len(a) + 1)..(Len(a) + Len(b))
    <3> DEFINE i == j - Len(a)
    <3>1. i \in 1..Len(b) /\ j = Len(a) + i BY <1>1, <2>2
    <3>2. s[j] = b[i] /\ i \in DOMAIN b BY <1>2, <3>1
    <3>3. ASSUME NEW k \in DOMAIN b PROVE Len(a) + k \in DOMAIN s /\ s[Len(a) + k] = b[k]
      BY <1>1, <1>2, <1>3
    <3> HIDE DEF i
    <3>4. /\ j + 1 = Len(a) + (i + 1) /\ j + 2 = Len(a) + (i + 2) /\ j - 1 = Len(a) + (i - 1)
      BY <1>1, <3>1
    <3>5. i - 1 \in DOMAIN b \/ i = 1 BY <1>1, <1>3, <3>1
    <3>6. i = 1 => s[j].kind # "data"
      <4>1. b # <<>> BY <1>1, <3>1
      <4> QED BY <1>3, <3>2, <4>1
    <3> QED BY <1>3, <3>2, <3>3, <3>4, <3>5, <3>6 DEF Remainder
  <2> QED BY <1>1, <1>2, <2>1, <2>2
<1>5. s # <<>> => s[1].kind # "data"
  <2>1. CASE a = <<>>
    <3>1. s = b BY <1>1, <2>1 DEF s
    <3> QED BY <1>3, <3>1
  <2>2. CASE a # <<>>
    <3>1. 1 \in 1..Len(a) BY <1>1, <2>2
    <3> QED BY <1>2, <1>3, <2>2, <3>1
  <2> QED BY <2>1, <2>2
<1> QED BY <1>2, <1>4, <1>5 DEF Shaped, Remainder, s

LEMMA HeadIsShaped ==
  /\ Shaped(<<>>) /\ Shaped(<<StatusLine>>) /\ Shaped(<<Header>>) /\ Shaped(<<Header, Blank>>)
  /\ Shaped(WholeHead) /\ Shaped(<<EndOfChunks>>) /\ Shaped(<<Body(1), Body(1)>>)
  /\ \A n \in Nat \ {0} : Shaped(<<Body(n)>>)
<1> DEFINE Plain == {p \in Piece : p.kind \notin {"size", "data"} /\ p.len > 0}
<1>1. ASSUME NEW s \in Seq(Plain) PROVE Shaped(s)
  <2>1. s \in Seq(Piece) /\ \A j \in DOMAIN s : s[j] \in Plain BY SeqMonotonic, ElementOfSeq
  <2> QED BY <2>1, PlainIsShaped DEF Script
<1>2. StatusLine \in Plain /\ Header \in Plain /\ Blank \in Plain /\ EndOfChunks \in Plain
  BY PieceTypes DEF StatusLine, Header, Blank, EndOfChunks
<1>3. \A n \in Nat \ {0} : Body(n) \in Plain
  <2> SUFFICES ASSUME NEW n \in Nat \ {0} PROVE Body(n) \in Plain OBVIOUS
  <2>1. n \in Nat /\ n > 0 OBVIOUS
  <2>2. Body(n) \in Piece BY <2>1, PieceTypes
  <2>3. Body(n).kind = "body" /\ Body(n).len = n BY DEF Body
  <2> QED BY <2>1, <2>2, <2>3
<1> HIDE DEF Plain
<1> HIDE DEF StatusLine, Header, Blank, EndOfChunks
<1>4. Shaped(<<>>) /\ Shaped(<<StatusLine>>) /\ Shaped(<<Header>>) /\ Shaped(<<Header, Blank>>)
      /\ Shaped(<<EndOfChunks>>)
  BY <1>1, <1>2, Tuples
<1>5. Shaped(<<StatusLine, Header, Header, Blank>>) /\ Shaped(<<Header, Header, Blank>>)
  <2>1. <<StatusLine, Header, Header, Blank>> \in Seq(Plain) BY <1>2, Tuples
  <2>2. <<Header, Header, Blank>> \in Seq(Plain) BY <1>2, Tuples
  <2> QED BY <1>1, <2>1, <2>2
<1>6. Shaped(WholeHead) BY <1>4, <1>5 DEF WholeHead
<1>7. Shaped(<<Body(1), Body(1)>>) /\ \A n \in Nat \ {0} : Shaped(<<Body(n)>>)
  <2>1. Body(1) \in Plain BY <1>3
  <2> QED BY <1>1, <1>3, <2>1, Tuples
<1> QED BY <1>4, <1>6, <1>7

LEMMA ChunkIsShaped == ASSUME NEW n \in Nat \ {0} PROVE Shaped(ChunkPieces(n))
<1> DEFINE s == ChunkPieces(n)
<1>1. s \in Script BY DataTypes DEF Data
<1>2. s = <<ChunkPart("size", 1), ChunkPart("data", n), ChunkPart("crlf", 1)>>
  BY DEF ChunkPieces
<1> HIDE DEF s
<1>3. /\ DOMAIN s = 1..3 /\ s[1] = ChunkPart("size", 1) /\ s[2] = ChunkPart("data", n)
      /\ s[3] = ChunkPart("crlf", 1)
  BY <1>2
<1>4. /\ s[1].kind = "size" /\ s[1].len > 0 /\ s[1].whole
      /\ s[2].kind = "data" /\ s[2].len > 0 /\ s[2].whole
      /\ s[3].kind = "crlf" /\ s[3].len > 0
  BY <1>3 DEF ChunkPart
<1>5. Remainder(s) BY <1>3, <1>4 DEF Remainder
<1> QED BY <1>1, <1>4, <1>5 DEF Shaped, s

LEMMA BlocksAreShaped == ASSUME NEW bytes \in Nat PROVE Shaped(FileBlocks(bytes))
<1> DEFINE q == (bytes + FileBuf - 1) \div FileBuf
           size(i) == Smaller(FileBuf, bytes - (i - 1) * FileBuf)
<1>1. FileBuf \in Nat \ {0} BY ResponseConstants DEF ResponseConstants
<1>2. q \in Nat /\ FileBuf * q <= bytes + FileBuf - 1 BY <1>1
<1>3. FileBlocks(bytes) = [i \in 1..q |-> FileBlock(size(i))] BY DEF FileBlocks
<1>4. ASSUME NEW i \in 1..q PROVE size(i) > 0
  <2>1. FileBuf * i <= FileBuf * q BY <1>1, <1>2
  <2>2. (i - 1) * FileBuf = FileBuf * i - FileBuf BY <1>1, <1>2
  <2>3. (i - 1) * FileBuf \in Int BY <1>1, <1>2
  <2>4. bytes - (i - 1) * FileBuf > 0 BY <1>1, <1>2, <2>1, <2>2, <2>3
  <2> QED BY <1>1, <2>3, <2>4 DEF Smaller
<1> HIDE DEF q, size
<1>5. ASSUME NEW i \in 1..q
      PROVE  FileBlock(size(i)).kind = "body" /\ FileBlock(size(i)).len > 0
  BY <1>4 DEF FileBlock
<1>6. FileBlocks(bytes) \in Script BY BlockTypes
<1>7. DOMAIN FileBlocks(bytes) = 1..q
      /\ \A i \in 1..q : FileBlocks(bytes)[i] = FileBlock(size(i))
  BY <1>3
<1> HIDE DEF FileBlocks, FileBlock
<1> QED BY <1>5, <1>6, <1>7, PlainIsShaped

IsShapedCall == \E pieces, what : Shaped(pieces) /\ Writes(pieces, what)

LEMMA ShapedFile == ASSUME FilePage PROVE IsShapedCall
<1>1. PICK isHead \in BOOLEAN, n \in 0..2, r1 \in 0..MaxPosition, r2 \in 0..MaxPosition,
          size \in 0..FileSize :
        \E what : Writes(WholeHead \o (IF isHead THEN <<>>
                    ELSE FileBlocks(FileBytes(r1, RangeLength(n, r1, r2), size))), what)
  BY DEF FilePage
<1>2. FileBytes(r1, RangeLength(n, r1, r2), size) \in Nat
  BY ResponseConstants DEF ResponseConstants, FileBytes, RangeLength, Larger, Smaller
<1>3. Shaped(IF isHead THEN <<>> ELSE FileBlocks(FileBytes(r1, RangeLength(n, r1, r2), size)))
  BY <1>2, BlocksAreShaped, HeadIsShaped
<1> QED BY <1>1, <1>3, ShapedConcat, HeadIsShaped DEF IsShapedCall

LEMMA ShapedPage == ASSUME NEW hasBody, DefaultPage(hasBody) PROVE IsShapedCall
<1>1. Shaped(IF hasBody THEN <<Body(1), Body(1)>> ELSE <<>>) BY HeadIsShaped
<1> QED BY <1>1, ShapedConcat, HeadIsShaped DEF DefaultPage, IsShapedCall

LEMMA AllShaped ==
  ASSUME \/ Start \/ Add \/ Send \/ Write \/ Chunk \/ Ok
         \/ ServeFile \/ ServeCompressed \/ Error
  PROVE  IsShapedCall
<1> USE DEF IsShapedCall, HandlerWrites
<1>1. CASE Start \/ Add \/ Send \/ Ok BY <1>1, HeadIsShaped DEF Start, Add, Send, Ok
<1>2. \A n \in 1..MaxWrite : n \in Nat \ {0} BY ResponseConstants DEF ResponseConstants
<1>3. CASE Write BY <1>2, <1>3, HeadIsShaped DEF Write
<1>4. CASE Chunk BY <1>2, <1>4, ChunkIsShaped DEF Chunk
<1>5. CASE ServeFile BY <1>5, ShapedFile DEF ServeFile
<1>6. CASE ServeCompressed
  <2>1. PICK chunks \in {<<>>, ChunkPieces(2)}, readError \in BOOLEAN :
          Writes(WholeHead \o chunks \o (IF readError THEN <<>> ELSE <<EndOfChunks>>),
                 NothingServed)
    BY <1>6 DEF ServeCompressed
  <2>2. Shaped(chunks) BY HeadIsShaped, ChunkIsShaped
  <2>3. Shaped(IF readError THEN <<>> ELSE <<EndOfChunks>>) BY HeadIsShaped
  <2> QED BY <2>1, <2>2, <2>3, HeadIsShaped, ShapedConcat
<1>7. CASE Error BY <1>7, ShapedFile, ShapedPage DEF Error
<1> QED BY <1>1, <1>3, <1>4, <1>5, <1>6, <1>7

(* The budget of this second, once spent in part, is never overdrawn. *)
InBudget == throttle = 0 \/ Spent <= throttle

(* The wire ends in a part of a chunk only if the rest is still to come.   *)
(* Writes are refused only before the first that is not.                   *)
ChunkInv ==
  /\ Remainder(todo)
  /\ link = "up" =>
       /\ \A i, j \in DOMAIN wire : i < j /\ Reached(i) => Reached(j)
       /\ slice.on \/ (\E i \in DOMAIN wire : Reached(i)) => InBudget
       /\ todo # <<>> /\ todo[1].kind = "data" =>
            Len(wire) > 0 /\ Reached(Len(wire)) /\ wire[Len(wire)].kind = "size"
       /\ \A i \in DOMAIN wire : Reached(i) =>
            /\ wire[i].kind = "size" =>
                 /\ i = Len(wire) => todo # <<>> /\ todo[1].kind = "data"
                 /\ i + 1 <= Len(wire) => wire[i + 1].kind = "data"
                 /\ i + 1 = Len(wire) => todo # <<>> /\ todo[1].kind = "crlf"
                 /\ i + 2 <= Len(wire) => wire[i + 2].kind = "crlf"
            /\ wire[i].kind = "data" => i > 1 /\ Reached(i - 1) /\ wire[i - 1].kind = "size"

LEMMA TailRemains ==
  ASSUME NEW s \in Script, s # <<>>, Remainder(s)
  PROVE  /\ Remainder(Tail(s))
         /\ s[1].kind = "size" =>
              Tail(s) # <<>> /\ Tail(s)[1].kind = "data"
         /\ s[1].kind = "data" =>
              Tail(s) # <<>> /\ Tail(s)[1].kind = "crlf"
         /\ Tail(s) # <<>> /\ Tail(s)[1].kind = "data" => s[1].kind = "size"
<1> DEFINE t == Tail(s)
<1>1. /\ s \in Seq(Piece) /\ Len(s) \in Nat /\ DOMAIN s = 1..Len(s) /\ 1 \in DOMAIN s
      /\ t \in Seq(Piece) /\ DOMAIN t = 1..(Len(s) - 1)
      /\ \A j \in DOMAIN t : j + 1 \in DOMAIN s /\ t[j] = s[j + 1]
  BY HeadTailProperties DEF Script
<1>2. \A j \in Nat \ {0} : j + 1 \in DOMAIN s => j \in DOMAIN t BY <1>1
<1>3. \A j \in DOMAIN t : j \in Nat \ {0} BY <1>1
<1>4. t = <<>> <=> ~ (1 \in DOMAIN t)
  <2>1. t # <<>> => 1 \in DOMAIN t BY <1>1
  <2>2. ~ (1 \in DOMAIN <<>>) OBVIOUS
  <2> HIDE DEF t
  <2> QED BY <2>1, <2>2
<1> HIDE DEF t
<1>5. ASSUME NEW j \in DOMAIN t
      PROVE  /\ t[j].len > 0
             /\ t[j].kind = "size" =>
                  t[j].whole /\ j + 2 \in DOMAIN t /\ t[j + 1].kind = "data"
                  /\ t[j + 2].kind = "crlf"
             /\ t[j].kind = "data" =>
                  t[j].whole /\ j + 1 \in DOMAIN t /\ t[j + 1].kind = "crlf"
                  /\ (j = 1 \/ t[j - 1].kind = "size")
  <2>1. j + 1 \in DOMAIN s /\ t[j] = s[j + 1] /\ j \in Nat \ {0} BY <1>1, <1>3
  <2>2. /\ (j + 1) + 1 = (j + 1) + 1 /\ (j + 1) + 2 = (j + 2) + 1 /\ (j + 1) - 1 = j
        /\ j + 1 # 1 /\ j + 1 \in Nat \ {0} /\ j + 2 \in Nat \ {0}
    BY <2>1
  <2>3. /\ s[j + 1].len > 0
        /\ s[j + 1].kind = "size" =>
             /\ s[j + 1].whole /\ (j + 2) + 1 \in DOMAIN s
             /\ s[(j + 1) + 1].kind = "data" /\ s[(j + 2) + 1].kind = "crlf"
        /\ s[j + 1].kind = "data" =>
             /\ s[j + 1].whole /\ (j + 1) + 1 \in DOMAIN s /\ s[(j + 1) + 1].kind = "crlf"
             /\ s[j].kind = "size"
    BY <2>1, <2>2 DEF Remainder
  <2>4. CASE t[j].kind = "size"
    <3>1. j + 2 \in DOMAIN t BY <1>2, <2>1, <2>2, <2>3, <2>4
    <3>2. j + 1 \in DOMAIN t BY <1>1, <2>1, <3>1
    <3> QED BY <1>1, <2>1, <2>3, <2>4, <3>1, <3>2
  <2>5. CASE t[j].kind = "data"
    <3>1. j + 1 \in DOMAIN t BY <1>2, <2>1, <2>2, <2>3, <2>5
    <3>2. j = 1 \/ t[j - 1].kind = "size"
      <4>1. CASE j # 1
        <5>1. j - 1 \in DOMAIN t /\ (j - 1) + 1 = j BY <1>1, <2>1, <4>1
        <5> QED BY <1>1, <2>1, <2>3, <2>5, <5>1
      <4> QED BY <4>1
    <3> QED BY <1>1, <2>1, <2>3, <2>5, <3>1, <3>2
  <2> QED BY <2>1, <2>3, <2>4, <2>5
<1>6. s[1].kind = "size" => 1 \in DOMAIN t /\ t[1].kind = "data"
  <2>1. s[1].kind = "size" => 1 + 2 \in DOMAIN s /\ s[1 + 1].kind = "data"
    BY <1>1 DEF Remainder
  <2>2. 1 + 2 \in DOMAIN s => 1 \in DOMAIN t BY <1>1
  <2> QED BY <1>1, <2>1, <2>2
<1>7. s[1].kind = "data" => 1 \in DOMAIN t /\ t[1].kind = "crlf"
  <2>1. s[1].kind = "data" => 1 + 1 \in DOMAIN s /\ s[1 + 1].kind = "crlf"
    BY <1>1 DEF Remainder
  <2> QED BY <1>1, <1>2, <2>1
<1>8. 1 \in DOMAIN t /\ t[1].kind = "data" => s[1].kind = "size"
  <2>1. 1 \in DOMAIN t => 1 + 1 \in DOMAIN s /\ t[1] = s[1 + 1] BY <1>1
  <2>2. (1 + 1) - 1 = 1 /\ 1 + 1 # 1 OBVIOUS
  <2>3. 1 + 1 \in DOMAIN s /\ s[1 + 1].kind = "data" => s[1].kind = "size"
    BY <2>2 DEF Remainder
  <2> QED BY <2>1, <2>3
<1>9. Remainder(t) BY <1>5 DEF Remainder
<1> QED BY <1>4, <1>6, <1>7, <1>8, <1>9 DEF t

(* Whatever a write returned. *)
LEMMA BehindRemains ==
  ASSUME NEW s \in Script, s # <<>>, Remainder(s), NEW ret PROVE Remainder(Behind(s, ret))
BY TailRemains, BehindTypes, HeadIsShaped DEF Shaped

(* A piece that was written whole. *)
LEMMA WholeKeepsChunks ==
  ASSUME SliceInv, ChunkInv, todo # <<>>, link = "up", link' = "up",
         Returns(Head(todo).len, Head(todo).len), InBudget'
  PROVE  ChunkInv'
<1> DEFINE h == Head(todo)
           p == [kind |-> h.kind, len |-> h.len, sent |-> h.len]
           n == Len(wire)
<1>1. /\ todo \in Script /\ wire \in Seq(WirePiece) /\ h \in Piece /\ h = todo[1]
      /\ Remainder(todo) /\ 1 \in DOMAIN todo
  <2>1. todo \in Seq(Piece) BY DEF SliceInv, Script
  <2> QED BY <2>1, HeadOfScript, HeadTailProperties DEF SliceInv, ChunkInv
<1>2. todo' = Tail(todo) /\ wire' = Append(wire, p) /\ ~ slice'.on
  BY DEF Returns, Behind, NoSlice
<1>3. h.len > 0 BY <1>1 DEF Remainder
<1>4. p \in WirePiece /\ p.sent > 0 /\ p.kind = h.kind BY <1>1, <1>3 DEF Piece, WirePiece
<1> HIDE DEF p, h
<1>5. /\ n \in Nat /\ Len(wire') = n + 1 /\ DOMAIN wire = 1..n /\ DOMAIN wire' = 1..(n + 1)
      /\ wire'[n + 1] = p /\ \A i \in 1..n : wire'[i] = wire[i]
  BY <1>1, <1>2, <1>4, AppendProperties
<1> HIDE DEF n
<1>6. Remainder(todo)'
  <2>1. Remainder(Tail(todo)) BY <1>1, TailRemains
  <2> QED BY <1>2, <2>1 DEF Remainder
<1>7. /\ h.kind = "size" => todo' # <<>> /\ todo'[1].kind = "data"
      /\ h.kind = "data" => todo' # <<>> /\ todo'[1].kind = "crlf"
      /\ todo' # <<>> /\ todo'[1].kind = "data" => h.kind = "size"
  BY <1>1, <1>2, TailRemains
<1>8. /\ \A i, j \in 1..n : i < j /\ wire[i].sent > 0 => wire[j].sent > 0
      /\ h.kind = "data" => n > 0 /\ wire[n].sent > 0 /\ wire[n].kind = "size"
      /\ \A i \in 1..n : wire[i].sent > 0 =>
           /\ wire[i].kind = "size" =>
                /\ i = n => h.kind = "data"
                /\ i + 1 <= n => wire[i + 1].kind = "data"
                /\ i + 1 = n => h.kind = "crlf"
                /\ i + 2 <= n => wire[i + 2].kind = "crlf"
           /\ wire[i].kind = "data" => i > 1 /\ wire[i - 1].sent > 0 /\ wire[i - 1].kind = "size"
  BY <1>1, <1>5 DEF ChunkInv, Reached, n
<1>9. ASSUME NEW i \in 1..(n + 1), NEW j \in 1..(n + 1), i < j, wire'[i].sent > 0
      PROVE  wire'[j].sent > 0
  <2>1. CASE j = n + 1 BY <1>4, <1>5, <2>1
  <2>2. CASE j \in 1..n
    <3>1. i \in 1..n BY <1>5, <1>9, <2>2
    <3> QED BY <1>5, <1>8, <1>9, <2>2, <3>1
  <2> QED BY <1>5, <2>1, <2>2
<1>10. todo' # <<>> /\ todo'[1].kind = "data" =>
         n + 1 > 0 /\ wire'[n + 1].sent > 0 /\ wire'[n + 1].kind = "size"
  BY <1>4, <1>5, <1>7
<1>11. ASSUME NEW i \in 1..(n + 1), wire'[i].sent > 0, wire'[i].kind = "size"
       PROVE  /\ i = n + 1 => todo' # <<>> /\ todo'[1].kind = "data"
              /\ i + 1 <= n + 1 => wire'[i + 1].kind = "data"
              /\ i + 1 = n + 1 => todo' # <<>> /\ todo'[1].kind = "crlf"
              /\ i + 2 <= n + 1 => wire'[i + 2].kind = "crlf"
  <2>1. CASE i = n + 1
    <3>1. ~ (i + 1 <= n + 1) /\ ~ (i + 1 = n + 1) /\ ~ (i + 2 <= n + 1) BY <1>5, <2>1
    <3> QED BY <1>4, <1>5, <1>7, <1>11, <2>1, <3>1
  <2>2. CASE i = n
    <3>1. i # n + 1 /\ i + 1 = n + 1 /\ ~ (i + 2 <= n + 1) /\ i \in 1..n BY <1>5, <2>2
    <3>2. h.kind = "data" BY <1>5, <1>8, <1>11, <2>2, <3>1
    <3> QED BY <1>4, <1>5, <1>7, <3>1, <3>2
  <2>3. CASE i + 1 = n
    <3>1. i \in 1..n /\ i # n + 1 /\ i + 1 \in 1..n /\ i + 1 # n + 1 /\ i + 2 = n + 1
          /\ i # n /\ i + 1 <= n
      BY <1>5, <2>3
    <3>2. h.kind = "crlf" /\ wire[i + 1].kind = "data" BY <1>5, <1>8, <1>11, <2>3, <3>1
    <3> QED BY <1>4, <1>5, <3>1, <3>2
  <2>4. CASE i + 1 < n
    <3>1. /\ i \in 1..n /\ i # n + 1 /\ i + 1 \in 1..n /\ i + 1 # n + 1 /\ i + 2 \in 1..n
          /\ i + 1 <= n /\ i + 2 <= n
      BY <1>5, <2>4
    <3>2. wire[i].sent > 0 /\ wire[i].kind = "size" BY <1>5, <1>11, <3>1
    <3>3. wire[i + 1].kind = "data" /\ wire[i + 2].kind = "crlf" BY <1>8, <3>1, <3>2
    <3> QED BY <1>5, <3>1, <3>3
  <2> QED BY <1>5, <2>1, <2>2, <2>3, <2>4
<1>12. ASSUME NEW i \in 1..(n + 1), wire'[i].sent > 0, wire'[i].kind = "data"
       PROVE  i > 1 /\ wire'[i - 1].sent > 0 /\ wire'[i - 1].kind = "size"
  <2>1. CASE i = n + 1
    <3>1. h.kind = "data" BY <1>4, <1>5, <1>12, <2>1
    <3>2. n > 0 /\ n \in 1..n /\ i - 1 = n /\ i > 1 BY <1>5, <1>8, <2>1, <3>1
    <3> QED BY <1>5, <1>8, <3>1, <3>2
  <2>2. CASE i \in 1..n
    <3>1. i > 1 /\ wire[i - 1].sent > 0 /\ wire[i - 1].kind = "size"
      BY <1>5, <1>8, <1>12, <2>2
    <3>2. i - 1 \in 1..n BY <1>5, <2>2, <3>1
    <3> QED BY <1>5, <3>1, <3>2
  <2> QED BY <1>5, <2>1, <2>2
<1> QED BY <1>5, <1>6, <1>9, <1>10, <1>11, <1>12 DEF ChunkInv, Reached

(* A piece the throttle refused: nothing was sent before it. *)
LEMMA RefusalKeepsChunks ==
  ASSUME SliceInv, ChunkInv, todo # <<>>, link = "up", link' = "up",
         Returns(0, 0), ~ InBudget
  PROVE  ChunkInv'
<1> DEFINE h == Head(todo)
           p == [kind |-> h.kind, len |-> h.len, sent |-> 0]
           n == Len(wire)
<1>1. /\ todo \in Script /\ wire \in Seq(WirePiece) /\ h \in Piece /\ h = todo[1]
      /\ Remainder(todo) /\ 1 \in DOMAIN todo
  <2>1. todo \in Seq(Piece) BY DEF SliceInv, Script
  <2> QED BY <2>1, HeadOfScript, HeadTailProperties DEF SliceInv, ChunkInv
<1>2. todo' = Behind(todo, 0) /\ wire' = Append(wire, p) /\ ~ slice'.on
  BY DEF Returns, NoSlice
<1>3. h.len > 0 BY <1>1 DEF Remainder
<1>4. h.kind = "size" => h.whole BY <1>1 DEF Remainder
<1>5. (todo' = Tail(todo) /\ ~ h.whole) \/ todo' = <<EndOfChunks>> \/ todo' = <<>>
  BY <1>2, <1>3 DEF Behind
<1>6. p \in WirePiece /\ ~ (p.sent > 0) BY <1>1 DEF Piece, WirePiece
<1> HIDE DEF p, h
<1>7. /\ n \in Nat /\ Len(wire') = n + 1 /\ DOMAIN wire = 1..n /\ DOMAIN wire' = 1..(n + 1)
      /\ wire'[n + 1] = p /\ \A i \in 1..n : wire'[i] = wire[i]
  BY <1>1, <1>2, <1>6, AppendProperties
<1>8. \A i \in DOMAIN wire : ~ (wire[i].sent > 0) BY DEF ChunkInv, Reached
<1> HIDE DEF n
<1>9. \A i \in DOMAIN wire' : ~ (wire'[i].sent > 0)
  <2> SUFFICES ASSUME NEW i \in DOMAIN wire' PROVE ~ (wire'[i].sent > 0) OBVIOUS
  <2>1. i = n + 1 \/ i \in 1..n BY <1>7
  <2> QED BY <1>6, <1>7, <1>8, <2>1
<1>10. Remainder(todo)' BY <1>1, <1>2, BehindRemains DEF Remainder
<1>11. ~ (todo' # <<>> /\ todo'[1].kind = "data")
  <2>1. CASE todo' = Tail(todo) /\ ~ h.whole
    BY <1>1, <1>4, <2>1, TailRemains
  <2>2. CASE todo' = <<EndOfChunks>> BY <2>2 DEF EndOfChunks
  <2> QED BY <1>5, <2>1, <2>2
<1> QED BY <1>2, <1>9, <1>10, <1>11 DEF ChunkInv, Reached

(* A write that goes on in slices keeps within the throttle. *)
LEMMA LoopKeepsChunks ==
  ASSUME ChunkInv, link = "up", UNCHANGED <<todo, wire>>, InBudget' PROVE ChunkInv'
BY DEF ChunkInv, Reached, Remainder

(* With the socket down only what is still to write counts. *)
LEMMA DownKeepsChunks ==
  ASSUME SliceInv, ChunkInv, todo # <<>>, link' # "up",
         UNCHANGED todo \/ \E ret : todo' = Behind(todo, ret)
  PROVE  ChunkInv'
<1>1. todo \in Script /\ Remainder(todo) BY DEF SliceInv, ChunkInv
<1>2. Remainder(todo)'
  <2>1. CASE UNCHANGED todo BY <1>1, <2>1 DEF Remainder
  <2>2. CASE \E ret : todo' = Behind(todo, ret)
    <3>1. PICK ret : todo' = Behind(todo, ret) BY <2>2
    <3>2. Remainder(Behind(todo, ret)) BY <1>1, BehindRemains
    <3> QED BY <3>1, <3>2 DEF Remainder
  <2> QED BY <2>1, <2>2
<1> QED BY <1>2 DEF ChunkInv

(* The first slice of a write on a socket that works: it goes on within    *)
(* the throttle, has sent the piece, or was refused because the budget of  *)
(* this second is overdrawn.                                               *)
LEMMA FirstFacts ==
  ASSUME SliceInv, FirstSlice, link' = "up", Head(todo).len > 0
  PROVE  /\ link = "up"
         /\ \/ UNCHANGED <<todo, wire>> /\ InBudget'
            \/ Returns(Head(todo).len, Head(todo).len) /\ InBudget'
            \/ Returns(0, 0) /\ ~ InBudget
<1> DEFINE len == Head(todo).len
           n   == Allowed(len)
<1>1. todo # <<>> /\ UNCHANGED throttle BY DEF FirstSlice
<1>2. PICK w \in Outcomes(n) :
        /\ link' = w.link
        /\ IF throttle > 0
             THEN /\ thisSecond' = TRUE
                  /\ spent' = Spent + (IF w.ret = n THEN n ELSE 0)
             ELSE UNCHANGED <<thisSecond, spent>>
        /\ IF throttle > 0 /\ w.ret = n /\ ~ AllWritten(len, n) /\ link # "stopped"
             THEN Loops(n, w.left, BufAfter(0, n))
             ELSE Returns(w.ret, w.left)
  BY DEF FirstSlice
<1>3. len \in Nat /\ len > 0 BY <1>1, HeadOfScript
<1>4. throttle \in Nat /\ spent \in Nat /\ link \in {"up", "gone", "stopped"} BY DEF SliceInv
<1>5. Spent \in Nat BY <1>4 DEF Spent
<1>6. SUFFICES \/ link = "up" /\ UNCHANGED <<todo, wire>> /\ InBudget'
               \/ link = "up" /\ Returns(len, len) /\ InBudget'
               \/ link = "up" /\ Returns(0, 0) /\ ~ InBudget
  OBVIOUS
<1> HIDE DEF len
<1>7. /\ n \in Int /\ n <= len
      /\ throttle = 0 => n = len
      /\ throttle > 0 => n <= throttle - Spent /\ (n = len \/ n = throttle - Spent)
  BY <1>3, <1>4, <1>5 DEF Allowed, Smaller
<1> HIDE DEF n
<1>8. /\ link = "up" /\ w.left \in Nat /\ w.ret \in Int
      /\ n <= 0 => w.ret = 0 /\ w.left = 0
      /\ n > 0 => w.ret = n /\ w.left = n
  BY <1>2, <1>4, <1>7, OutcomeTypes
<1>9. CASE throttle = 0
  <2>1. Returns(len, len) BY <1>2, <1>3, <1>4, <1>7, <1>8, <1>9
  <2>2. InBudget' BY <1>1, <1>9 DEF InBudget
  <2> QED BY <1>8, <2>1, <2>2
<1>10. CASE throttle > 0 /\ n >= 0
  <2>1. w.ret = n /\ w.left = n BY <1>7, <1>8, <1>10
  <2>2. thisSecond' = TRUE /\ spent' = Spent + n BY <1>2, <1>10, <2>1
  <2>3. InBudget' BY <1>1, <1>4, <1>5, <1>7, <1>10, <2>2 DEF InBudget, Spent
  <2>4. CASE ~ AllWritten(len, n)
    <3>1. Loops(n, w.left, BufAfter(0, n)) BY <1>2, <1>8, <1>10, <2>1, <2>4
    <3> QED BY <1>8, <2>3, <3>1 DEF Loops
  <2>5. CASE AllWritten(len, n)
    <3>1. n = len BY <1>3, <1>7, <2>5 DEF AllWritten
    <3>2. Returns(len, len) BY <1>2, <2>1, <2>5, <3>1
    <3> QED BY <1>8, <2>3, <3>2
  <2> QED BY <2>4, <2>5
<1>11. CASE throttle > 0 /\ n < 0
  <2>1. w.ret = 0 /\ w.left = 0 /\ w.ret # n BY <1>7, <1>8, <1>11
  <2>2. Returns(0, 0) BY <1>2, <2>1
  <2>3. n = throttle - Spent /\ Spent > throttle BY <1>3, <1>4, <1>5, <1>7, <1>11
  <2>4. ~ InBudget BY <1>4, <1>5, <1>11, <2>3 DEF InBudget
  <2> QED BY <1>8, <2>2, <2>4
<1> QED BY <1>4, <1>7, <1>9, <1>10, <1>11

(* And the ones behind it. *)
LEMMA NextFacts ==
  ASSUME SliceInv, NextSlice, link' = "up"
  PROVE  /\ link = "up" /\ InBudget'
         /\ \/ UNCHANGED <<todo, wire>>
            \/ Returns(Head(todo).len, Head(todo).len)
<1> DEFINE len == Head(todo).len
           n   == SliceLength(len, slice.total)
<1>1. slice.on /\ UNCHANGED throttle BY DEF NextSlice
<1>2. PICK w \in Outcomes(n) :
        /\ link' = w.link
        /\ IF w.ret = n
             THEN /\ spent' = SpentAfter(n) /\ thisSecond' = TRUE
                  /\ IF AllWritten(len, slice.total + n)
                       THEN Returns(slice.total + n, slice.left + w.left)
                       ELSE Loops(slice.total + n, slice.left + w.left,
                                  BufAfter(slice.buf, n))
             ELSE /\ Returns(slice.total, slice.left + w.left)
                  /\ UNCHANGED <<spent, thisSecond>>
  BY DEF NextSlice
<1>3. /\ todo # <<>> /\ throttle \in Nat /\ throttle > 0
      /\ slice.total \in Nat /\ slice.left = slice.total /\ slice.total < len
      /\ link \in {"up", "gone", "stopped"}
  BY <1>1 DEF SliceInv, SlicesJoin
<1>4. len \in Nat BY <1>3, HeadOfScript
<1>5. SUFFICES /\ link = "up" /\ InBudget'
               /\ UNCHANGED <<todo, wire>> \/ Returns(len, len)
  OBVIOUS
<1> HIDE DEF len
<1>6. n \in Nat /\ n > 0 /\ n <= throttle /\ n <= len - slice.total
  BY <1>3, <1>4 DEF SliceLength, Smaller
<1> HIDE DEF n
<1>7. link = "up" /\ w.ret = n /\ w.left = n BY <1>2, <1>3, <1>6, OutcomeTypes
<1>8. InBudget'
  <2>1. thisSecond' = TRUE /\ spent' = n BY <1>2, <1>7 DEF SpentAfter
  <2> QED BY <1>1, <1>6, <2>1 DEF InBudget, Spent
<1>9. CASE AllWritten(len, slice.total + n)
  <2>1. slice.total + n = len /\ slice.left + w.left = len
    BY <1>3, <1>4, <1>6, <1>7, <1>9 DEF AllWritten
  <2> QED BY <1>2, <1>7, <1>8, <1>9, <2>1
<1>10. CASE ~ AllWritten(len, slice.total + n)
  BY <1>2, <1>7, <1>8, <1>10 DEF Loops
<1> QED BY <1>9, <1>10

LEMMA WriteKeepsChunks ==
  ASSUME SliceInv, ChunkInv, FirstSlice \/ NextSlice \/ LoopStops PROVE ChunkInv'
<1>1. todo # <<>>
  BY DEF FirstSlice, NextSlice, LoopStops, SliceInv
<1>2. CASE link' # "up"
  <2>1. UNCHANGED todo \/ \E ret : todo' = Behind(todo, ret)
    <3>1. CASE FirstSlice BY <3>1 DEF FirstSlice, Loops, Returns
    <3>2. CASE NextSlice BY <3>2 DEF NextSlice, Loops, Returns
    <3>3. CASE LoopStops BY <3>3 DEF LoopStops, Returns
    <3> QED BY <3>1, <3>2, <3>3
  <2> QED BY <1>1, <1>2, <2>1, DownKeepsChunks
<1>3. CASE link' = "up" /\ FirstSlice
  <2>1. Head(todo).len > 0
    <3>1. todo \in Seq(Piece) /\ Remainder(todo) BY DEF SliceInv, ChunkInv, Script
    <3>2. 1 \in DOMAIN todo /\ Head(todo) = todo[1] BY <1>1, <3>1, HeadTailProperties
    <3> QED BY <3>1, <3>2 DEF Remainder
  <2>2. link = "up" BY <1>3, <2>1, FirstFacts
  <2>3. \/ UNCHANGED <<todo, wire>> /\ InBudget'
        \/ Returns(Head(todo).len, Head(todo).len) /\ InBudget'
        \/ Returns(0, 0) /\ ~ InBudget
    BY <1>3, <2>1, FirstFacts
  <2> QED BY <1>1, <1>3, <2>2, <2>3, LoopKeepsChunks, WholeKeepsChunks, RefusalKeepsChunks
<1>4. CASE link' = "up" /\ NextSlice
  <2>1. link = "up" /\ InBudget' BY <1>4, NextFacts
  <2>2. UNCHANGED <<todo, wire>> \/ Returns(Head(todo).len, Head(todo).len)
    BY <1>4, NextFacts
  <2> QED BY <1>1, <1>4, <2>1, <2>2, LoopKeepsChunks, WholeKeepsChunks
<1>5. CASE link' = "up" /\ LoopStops BY <1>5 DEF LoopStops
<1> QED BY <1>2, <1>3, <1>4, <1>5

(* A call begins behind what was written whole. *)
LEMMA CallKeepsChunks == ASSUME ChunkInv, IsShapedCall PROVE ChunkInv'
<1>1. PICK pieces, what : Shaped(pieces) /\ Writes(pieces, what) BY DEF IsShapedCall
<1>2. /\ todo = <<>> /\ todo' = pieces
      /\ UNCHANGED <<throttle, spent, thisSecond, slice, wire, link>>
  BY <1>1 DEF Writes, Idle
<1>3. Remainder(todo)' /\ (todo' # <<>> => todo'[1].kind # "data")
  <2>1. Remainder(pieces) /\ (pieces # <<>> => pieces[1].kind # "data") BY <1>1 DEF Shaped
  <2> QED BY <1>2, <2>1 DEF Remainder
<1>4. InBudget' = InBudget BY <1>2 DEF InBudget, Spent
<1> QED BY <1>2, <1>3, <1>4 DEF ChunkInv, Reached

LEMMA ChunkStep == SliceInv /\ ChunkInv /\ [Next]_vars => ChunkInv'
<1> SUFFICES ASSUME SliceInv, ChunkInv, [Next]_vars PROVE ChunkInv' OBVIOUS
<1>1. CASE UNCHANGED conn
  BY <1>1 DEF conn, ChunkInv, Reached, InBudget, Spent, Remainder
<1>2. CASE \/ Start \/ Add \/ Send \/ Write \/ Chunk \/ Ok
           \/ ServeFile \/ ServeCompressed \/ Error
  BY <1>2, AllShaped, CallKeepsChunks
<1>3. CASE ErrorCallbackReturns
  BY <1>1, <1>3, ShapedPage, ShapedFile, CallKeepsChunks DEF ErrorCallbackReturns
<1>4. CASE Tick
  <2>1. UNCHANGED <<throttle, todo, slice, wire, link>> /\ ~ thisSecond'
    BY <1>4 DEF Tick
  <2>2. InBudget'
    <3>1. throttle' \in Nat BY <2>1 DEF SliceInv
    <3> QED BY <2>1, <3>1 DEF InBudget, Spent
  <2> QED BY <2>1, <2>2 DEF ChunkInv, Reached, Remainder
<1>5. CASE Stop BY <1>5 DEF Stop, ChunkInv, Remainder
<1>6. CASE NextRequest
  <2>1. todo = <<>> /\ todo' = <<>> /\ wire' = <<>> /\ ~ slice'.on
    BY <1>6 DEF NextRequest, Idle, SliceInv
  <2> QED BY <2>1 DEF ChunkInv, Remainder
<1>7. ErrorCallback \/ UNCHANGED vars => UNCHANGED conn BY DEF ErrorCallback, vars, conn
<1> QED BY <1>1, <1>2, <1>3, <1>4, <1>5, <1>6, <1>7, WriteKeepsChunks DEF Next

(* Between two calls no chunk on a working connection lacks its size, its  *)
(* data or its end, whatever the throttle refused (http_chunk over         *)
(* http_write).                                                            *)
THEOREM ChunksStayWhole == Spec => []ChunksWhole
<1>1. Init => ChunkInv
  <2> SUFFICES ASSUME Init PROVE ChunkInv OBVIOUS
  <2>1. todo = <<>> /\ wire = <<>> /\ ~ slice.on BY DEF Init, NoSlice
  <2> QED BY <2>1 DEF ChunkInv, Remainder
<1>2. SliceInv /\ ChunkInv => ChunksWhole
  <2> SUFFICES ASSUME SliceInv, ChunkInv, todo = <<>>, link = "up",
                      NEW i \in DOMAIN wire, Reached(i)
               PROVE  /\ wire[i].kind = "size" =>
                           /\ i + 2 <= Len(wire) /\ Reached(i + 1) /\ Reached(i + 2)
                           /\ wire[i + 1].kind = "data" /\ wire[i + 2].kind = "crlf"
                      /\ wire[i].kind = "data" =>
                           i > 1 /\ Reached(i - 1) /\ wire[i - 1].kind = "size"
    BY DEF ChunksWhole, Idle
  <2>1. Len(wire) \in Nat /\ DOMAIN wire = 1..Len(wire) BY DEF SliceInv
  <2>2. /\ \A j \in DOMAIN wire : i < j => Reached(j)
        /\ wire[i].kind = "size" =>
             /\ i # Len(wire) /\ i + 1 # Len(wire)
             /\ i + 1 <= Len(wire) => wire[i + 1].kind = "data"
             /\ i + 2 <= Len(wire) => wire[i + 2].kind = "crlf"
        /\ wire[i].kind = "data" => i > 1 /\ Reached(i - 1) /\ wire[i - 1].kind = "size"
    BY DEF ChunkInv
  <2>3. wire[i].kind = "size" => i + 1 <= Len(wire) /\ i + 2 <= Len(wire)
    BY <2>1, <2>2
  <2>4. i + 1 <= Len(wire) => i + 1 \in DOMAIN wire /\ i < i + 1 BY <2>1
  <2>5. i + 2 <= Len(wire) => i + 2 \in DOMAIN wire /\ i < i + 2 BY <2>1
  <2> HIDE DEF Reached
  <2> QED BY <2>2, <2>3, <2>4, <2>5
<1> QED BY <1>1, <1>2, SliceInit, SliceStep, ChunkStep, PTL DEF Spec
=============================================================================
