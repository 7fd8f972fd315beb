------------------------------- MODULE Response -------------------------------
(***************************************************************************)
(* What httpi sends on one connection: the calls a handler or the server   *)
(* itself makes (http_response_start, _add and _send, http_write,          *)
(* http_chunk, http_ok, http_redirect, http_error and                      *)
(* handle_static_file_request) in any order, over conn->req.state, and     *)
(* the slices in which http_write hands their bytes to the socket when the *)
(* connection is throttled.                                                *)
(*                                                                         *)
(* A call is the sequence of pieces it writes.  The calls of one           *)
(* connection are made by one coroutine, so only the socket, the clock and *)
(* http_stop act between two pieces or two slices of one.  Text is reduced *)
(* to the kind and the number of bytes of a piece.                         *)
(***************************************************************************)
EXTENDS Integers, Sequences

CONSTANTS
  Throttles,    \* what set_throttle may return for a request; 0 is no throttle
  FileSize,     \* the size of the file that is served
  FileBuf,      \* what http_send_file_data reads at a time
  MaxPosition,  \* the greatest number in a Range header
  MaxWrite,     \* the greatest length given to http_write or http_chunk
  MaxCalls,     \* how many calls are made on the connection
  MaxRequests   \* how many requests the connection brings

ASSUME ResponseConstants ==
  /\ Throttles \subseteq Nat
  /\ FileSize \in Nat /\ MaxPosition \in Nat
  /\ FileBuf \in Nat \ {0} /\ MaxWrite \in Nat \ {0}
  /\ MaxCalls \in Nat /\ MaxRequests \in Nat \ {0}

VARIABLES
  state,      \* conn->req.state: 0 nothing sent, 1 headers open, 3 sent, 10 data
  throttle,   \* conn->req.throttle
  top,        \* history: the highest throttle of the connection so far
  spent,      \* conn->req.last_throttle_bytes
  thisSecond, \* the clock still shows conn->req.last_throttle_time
  todo,       \* the pieces the call in progress has yet to write
  slice,      \* http_write's buf, total, and the bytes that left; or NoSlice
  wire,       \* the pieces of this response written while the socket took any
  link,       \* the socket: "up", "gone", or "stopped" by http_stop
  mustClose,  \* conn->req.must_close
  frame,      \* the http_error that waits for its callback, or "none"
  served,     \* history: what the response was told to deliver of the file
  calls,      \* calls made so far
  requests    \* requests begun

conn == <<state, throttle, top, spent, thisSecond, todo, slice, wire, link>>
vars == <<conn, mustClose, frame, served, calls, requests>>

Kinds == {"status", "header", "blank", "body", "size", "data", "crlf", "end"}

(* then: conn->req.state behind the piece, where the caller resets it.     *)
(* whole: the caller gives up when not all of the piece was written.       *)
Piece == [kind : Kinds, len : Nat, then : {1, 3, 10}, whole : BOOLEAN]

StatusLine   == [kind |-> "status", len |-> 3, then |-> 1, whole |-> FALSE]
Header       == [kind |-> "header", len |-> 1, then |-> 1, whole |-> FALSE]
Blank        == [kind |-> "blank",  len |-> 1, then |-> 3, whole |-> FALSE]
Body(n)      == [kind |-> "body",   len |-> n, then |-> 10, whole |-> FALSE]
FileBlock(n) == [kind |-> "body",   len |-> n, then |-> 10, whole |-> TRUE]
ChunkPart(k, n) == [kind |-> k,     len |-> n, then |-> 10, whole |-> TRUE]
EndOfChunks  == [kind |-> "end",    len |-> 1, then |-> 10, whole |-> FALSE]

NoSlice == [on |-> FALSE, buf |-> 0, total |-> 0, left |-> 0]
NothingServed == [length |-> -1, inside |-> TRUE, unchanged |-> TRUE]

Smaller(a, b) == IF a < b THEN a ELSE b
Larger(a, b)  == IF a > b THEN a ELSE b

Init ==
  /\ state = 0
  /\ throttle \in Throttles /\ top = throttle
  /\ spent = 0 /\ thisSecond = FALSE
  /\ todo = <<>> /\ slice = NoSlice /\ wire = <<>>
  /\ link = "up" /\ mustClose = FALSE /\ frame = "none"
  /\ served = NothingServed
  /\ calls = 0 /\ requests = 1

-----------------------------------------------------------------------------
(* http_write. *)

(* What _write_all may do with n bytes: the value it returns, the bytes    *)
(* that reach the wire and the state it leaves the socket in.  A socket    *)
(* that failed takes nothing more; nothing is written once http_stop ran.  *)
Outcomes(n) ==
  IF n <= 0 THEN {[ret |-> 0, left |-> 0, link |-> link]}
  ELSE IF link = "up"
       THEN {[ret |-> n, left |-> n, link |-> "up"]}
            \cup {[ret |-> k, left |-> k, link |-> "gone"] : k \in 0..n - 1}
            \cup {[ret |-> -1, left |-> 0, link |-> "gone"]}
       ELSE {[ret |-> IF link = "gone" THEN -1 ELSE 0, left |-> 0, link |-> link]}

(* The budget of this second: a new second forgets what was spent.         *)
Spent == IF thisSecond THEN spent ELSE 0

(* Mistake: the budget may exceed the piece. *)
Allowed_Uncapped(len) == IF throttle > 0 THEN throttle - Spent ELSE len
Allowed(len) == IF throttle > 0 THEN Smaller(throttle - Spent, len) ELSE len

SliceLength(len, total) == Smaller(throttle, len - total)

(* buf, last_throttle_bytes and the loop's test behind a slice of n bytes. *)
(* Mistake: buf is not advanced in the loop. *)
BufAfter_Kept(buf, n) == IF buf = 0 THEN n ELSE buf
BufAfter(buf, n) == buf + n
(* Mistake: the slices of one write add up. *)
SpentAfter_Summed(n) == spent + n
SpentAfter(n) == n
(* Mistake: one turn too many. *)
AllWritten_Late(len, total) == total > len
AllWritten(len, total) == total >= len

(* A write returned ret.  The call goes on with its next piece unless it   *)
(* needs the whole of this one; http_compressed_data gives up its chunks   *)
(* but still sends the end marker.                                         *)
(* Mistake: a short write is not noticed. *)
Behind_GoesOn(pieces, ret) == Tail(pieces)
Behind(pieces, ret) ==
  IF Head(pieces).whole /\ ret # Head(pieces).len
    THEN IF pieces[Len(pieces)] = EndOfChunks THEN <<EndOfChunks>> ELSE <<>>
    ELSE Tail(pieces)

Returns(ret, left) ==
  /\ wire' = IF link' = "up" \/ left > 0
               THEN Append(wire, [kind |-> Head(todo).kind, len |-> Head(todo).len, sent |-> left])
               ELSE wire
  /\ todo' = Behind(todo, ret)
  /\ state' = Head(todo).then
  /\ slice' = NoSlice

Loops(total, left, buf) ==
  /\ slice' = [on |-> TRUE, buf |-> buf, total |-> total, left |-> left]
  /\ state' = 10
  /\ UNCHANGED <<todo, wire>>

(* Up to the loop: what the budget of this second allows.                  *)
FirstSlice ==
  /\ todo # <<>> /\ ~slice.on
  /\ LET len == Head(todo).len
         n   == Allowed(len)
     IN \E w \in Outcomes(n) :
          /\ link' = w.link
          /\ IF throttle > 0
               THEN /\ thisSecond' = TRUE
                    /\ spent' = Spent + (IF w.ret = n THEN n ELSE 0)
               ELSE UNCHANGED <<thisSecond, spent>>
          /\ IF throttle > 0 /\ w.ret = n /\ ~AllWritten(len, n) /\ link # "stopped"
               THEN Loops(n, w.left, BufAfter(0, n))
               ELSE Returns(w.ret, w.left)
  /\ UNCHANGED <<throttle, top, mustClose, frame, served, calls, requests>>

(* One turn of the loop, to behind its yields, where the clock is read.    *)
NextSlice ==
  /\ slice.on /\ link # "stopped"
  /\ LET len == Head(todo).len
         n   == SliceLength(len, slice.total)
     IN \E w \in Outcomes(n) :
          /\ link' = w.link
          /\ IF w.ret = n
               THEN /\ spent' = SpentAfter(n) /\ thisSecond' = TRUE
                    /\ IF AllWritten(len, slice.total + n)
                         THEN Returns(slice.total + n, slice.left + w.left)
                         ELSE Loops(slice.total + n, slice.left + w.left,
                                    BufAfter(slice.buf, n))
               ELSE /\ Returns(slice.total, slice.left + w.left)
                    /\ UNCHANGED <<spent, thisSecond>>
  /\ UNCHANGED <<throttle, top, mustClose, frame, served, calls, requests>>

(* The server stopped during the yields.                                   *)
LoopStops ==
  /\ slice.on /\ link = "stopped"
  /\ UNCHANGED link
  /\ Returns(slice.total, slice.left)
  /\ UNCHANGED <<throttle, top, spent, thisSecond, mustClose, frame, served, calls, requests>>

-----------------------------------------------------------------------------
(* The calls. *)

Idle == todo = <<>>

(* Only allowed if nothing was sent up to now.                             *)
(* Mistake: a second status line is let through. *)
MayStart_Always == TRUE
MayStart == state = 0
(* Only allowed if http_response_start has been called before.             *)
HeadersOpen == state = 1

(* start, adds and send in a row, each refused where the state forbids it. *)
WholeHead ==
  IF MayStart THEN <<StatusLine, Header, Header, Blank>>
  ELSE IF HeadersOpen THEN <<Header, Header, Blank>>
  ELSE <<>>

Writes(pieces, what) ==
  /\ Idle /\ calls < MaxCalls
  /\ calls' = calls + 1
  /\ todo' = pieces /\ served' = what
  /\ UNCHANGED <<state, throttle, top, spent, thisSecond, slice, wire, link, requests>>

HandlerWrites(pieces) ==
  Writes(pieces, NothingServed) /\ UNCHANGED <<mustClose, frame>>

Start == MayStart /\ HandlerWrites(<<StatusLine>>)
Add   == HeadersOpen /\ HandlerWrites(<<Header>>)

(* The headers sent along are those of the request: at least one.          *)
Send  == HeadersOpen /\ HandlerWrites(<<Header, Blank>>)

Write == \E n \in 1..MaxWrite : HandlerWrites(<<Body(n)>>)

ChunkPieces(n) == <<ChunkPart("size", 1), ChunkPart("data", n), ChunkPart("crlf", 1)>>
Chunk == \E n \in 1..MaxWrite : HandlerWrites(ChunkPieces(n))

(* http_ok and http_redirect ignore what their calls return.               *)
Ok == HandlerWrites(WholeHead)

(* http_error with its own page.  hasBody: not 1xx, 204 or 304.            *)
DefaultPage(hasBody) ==
  /\ Writes(WholeHead \o (IF hasBody THEN <<Body(1), Body(1)>> ELSE <<>>), NothingServed)
  /\ mustClose' = TRUE

(* cl of handle_static_file_request: n numbers were read from the header.  *)
RangeLength(n, r1, r2) ==
  IF n = 0 THEN FileSize
  ELSE IF n = 2 THEN Smaller(r2, FileSize) - r1 + 1
  ELSE FileSize - r1

(* http_send_file_data: size is what the file still holds when it is read. *)
(* Mistake: the file is sent to its end, whatever the range. *)
FileBytes_ToEnd(offset, len, size) == Larger(0, size - Smaller(offset, FileSize))
FileBytes(offset, len, size) == Larger(0, Smaller(len, size - Smaller(offset, FileSize)))

FileBlocks(bytes) ==
  [i \in 1..(bytes + FileBuf - 1) \div FileBuf |->
     FileBlock(Smaller(FileBuf, bytes - (i - 1) * FileBuf))]

(* A file with its length declared.  The error pages of http_error come    *)
(* this way too, with status 200.  A file in which no position can be set  *)
(* gets its head and then an http_error: two calls here, the first as of a *)
(* HEAD request, the second Error or ErrorCallback.                        *)
FilePage ==
  \E isHead \in BOOLEAN, n \in 0..2, r1, r2 \in 0..MaxPosition, size \in 0..FileSize :
    /\ n = 0 => r1 = 0
    /\ n # 2 => r2 = 0
    /\ LET length == RangeLength(n, r1, r2)
       IN Writes(WholeHead
                   \o (IF isHead THEN <<>> ELSE FileBlocks(FileBytes(r1, length, size))),
                 IF MayStart
                   THEN [length    |-> IF isHead THEN 0 ELSE length,
                         inside    |-> r1 <= FileSize /\ (n = 2 => r1 <= r2 + 1 /\ r2 < FileSize),
                         unchanged |-> size = FileSize]
                   ELSE NothingServed)
    /\ UNCHANGED mustClose

ServeFile == FilePage /\ UNCHANGED frame

(* On the fly compression: chunks of a length not known in advance; a read *)
(* error leaves without the end marker.                                    *)
ServeCompressed ==
  \E chunks \in {<<>>, ChunkPieces(2)}, readError \in BOOLEAN :
    HandlerWrites(WholeHead \o chunks \o (IF readError THEN <<>> ELSE <<EndOfChunks>>))

(* http_error asks its callback, which may make calls of its own; an       *)
(* http_error among them (in_error_handler) asks nobody and looks for no   *)
(* page.  Without a callback the page is looked for at once.               *)
ErrorCallback ==
  /\ Idle /\ frame = "none" /\ calls < MaxCalls
  /\ frame' \in {"body", "nobody"}
  /\ calls' = calls + 1
  /\ served' = NothingServed
  /\ UNCHANGED <<conn, mustClose, requests>>

Error ==
  /\ \/ \E hasBody \in BOOLEAN : DefaultPage(hasBody)
     \/ frame = "none" /\ FilePage
  /\ UNCHANGED frame

(* The callback returned 0 if it handled the error.                        *)
ErrorCallbackReturns ==
  /\ Idle /\ frame # "none"
  /\ frame' = "none"
  /\ \/ UNCHANGED <<conn, mustClose, served, calls, requests>>
     \/ DefaultPage(frame = "body")
     \/ FilePage

(* The next request of the connection.                                     *)
NextRequest ==
  /\ Idle /\ frame = "none" /\ link = "up" /\ ~mustClose /\ wire # <<>>
  /\ requests < MaxRequests
  /\ requests' = requests + 1
  /\ state' = 0
  /\ throttle' \in Throttles
  /\ top' = Larger(top, throttle')
  /\ wire' = <<>> /\ served' = NothingServed
  /\ UNCHANGED <<spent, thisSecond, todo, slice, link, mustClose, frame, calls>>

Tick ==
  /\ thisSecond /\ thisSecond' = FALSE
  /\ UNCHANGED <<state, throttle, top, spent, todo, slice, wire, link,
                 mustClose, frame, served, calls, requests>>

Stop ==
  /\ link = "up" /\ link' = "stopped"
  /\ UNCHANGED <<state, throttle, top, spent, thisSecond, todo, slice, wire,
                 mustClose, frame, served, calls, requests>>

Next ==
  \/ FirstSlice \/ NextSlice \/ LoopStops
  \/ Start \/ Add \/ Send \/ Write \/ Chunk \/ Ok
  \/ ServeFile \/ ServeCompressed
  \/ Error \/ ErrorCallback \/ ErrorCallbackReturns
  \/ NextRequest \/ Tick \/ Stop

Spec == Init /\ [][Next]_vars

(* A coroutine that can run is run: a write goes on.                       *)
FairSpec == Spec /\ WF_vars(FirstSlice \/ NextSlice \/ LoopStops)

-----------------------------------------------------------------------------
(* The values every variable stays within: a slice never runs past its     *)
(* piece, nor a piece past its length.                                     *)
TypeOK ==
  /\ state \in {0, 1, 3, 10}
  /\ throttle \in Throttles /\ top \in Throttles /\ throttle <= top
  /\ spent \in 0..top
  /\ thisSecond \in BOOLEAN /\ mustClose \in BOOLEAN
  /\ todo \in Seq(Piece)
  /\ slice.on \in BOOLEAN
  /\ IF slice.on THEN todo # <<>> /\ slice.total \in 0..Head(todo).len - 1
                 ELSE slice = NoSlice
  /\ \A i \in DOMAIN wire : wire[i].kind \in Kinds /\ wire[i].sent \in 0..wire[i].len
  /\ link \in {"up", "gone", "stopped"}
  /\ frame \in {"none", "body", "nobody"}
  /\ calls \in 0..MaxCalls /\ requests \in 1..MaxRequests

Rank(kind) ==
  CASE kind = "status" -> 1 [] kind = "header" -> 2 [] kind = "blank" -> 3 [] OTHER -> 4

(* q may follow p in a response. *)
Follows(p, q) ==
  Rank(p.kind) < Rank(q.kind) \/ (Rank(p.kind) = Rank(q.kind) /\ Rank(p.kind) \in {2, 4})

(* Whatever the order of the calls, and with an error, its callback and    *)
(* its page in the middle of them, the client reads at most one status     *)
(* line, before the headers, at most one blank line, behind them, and      *)
(* nothing of a head once there is data (the tests of req.state in         *)
(* mod_response.c and its resets from 10).                                 *)
HeadInOrder ==
  \A i, j \in DOMAIN wire :
    i < j /\ wire[i].sent > 0 /\ wire[j].sent > 0 => Follows(wire[i], wire[j])

(* Something of the i-th piece reached the client. *)
Reached(i) == wire[i].sent > 0

(* A chunk is sent with its size, its data and its end, one behind the     *)
(* other, or not at all, even when the throttle refuses some of the writes *)
(* of http_chunk, as long as the socket takes what it is given.            *)
ChunksWhole ==
  Idle /\ link = "up" =>
    \A i \in DOMAIN wire : Reached(i) =>
      /\ wire[i].kind = "size" =>
           /\ i + 2 <= Len(wire) /\ Reached(i + 1) /\ Reached(i + 2)
           /\ wire[i + 1].kind = "data" /\ wire[i + 2].kind = "crlf"
      /\ wire[i].kind = "data" => i > 1 /\ Reached(i - 1) /\ wire[i - 1].kind = "size"

(* On a socket that takes everything a throttle delays a write and never   *)
(* cuts it short; only a throttle lower than that of an earlier request    *)
(* refuses writes, whole ones, until the second is over (the budget of     *)
(* http_write then is negative).                                           *)
ThrottleDelaysOnly ==
  link = "up" =>
    \A i \in DOMAIN wire :
      \/ wire[i].sent = wire[i].len
      \/ wire[i].sent = 0 /\ 0 < throttle /\ throttle < top

(* The slices of one write join: the next one begins behind the bytes that *)
(* left, no byte is sent twice or skipped, and the count http_write will   *)
(* return is the count that left.                                          *)
SlicesJoin == slice.buf = slice.left /\ slice.total = slice.left

Total(b) ==
  LET upto[k \in 0..Len(b)] == IF k = 0 THEN 0 ELSE upto[k - 1] + b[k]
  IN upto[Len(b)]

BodySent == Total([i \in DOMAIN wire |-> IF wire[i].kind = "body" THEN wire[i].sent ELSE 0])

Refused == \E i \in DOMAIN wire : wire[i].sent < wire[i].len

(* The connection goes on to another request behind a file only when the   *)
(* client got the length it was told (handle_static_file_request against   *)
(* http_send_file_data), unless the range did not lie inside the file, the *)
(* file got shorter while it was sent, or writes were refused: in these    *)
(* three cases the code keeps the connection all the same.                 *)
LengthDelivered ==
  [][NextRequest =>
       \/ served = NothingServed
       \/ ~served.inside \/ ~served.unchanged \/ Refused
       \/ BodySent = served.length]_vars

(* Every call returns, whatever the throttle, the clock and the socket do. *)
CallsReturn == ~Idle ~> Idle
=============================================================================
