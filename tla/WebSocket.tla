------------------------------ MODULE WebSocket ------------------------------
(***************************************************************************)
(* One websocket connection of httpi, on the side of a server              *)
(* (http_websocket_request) or of a client (http_websocket_connect_impl):  *)
(* the coroutine that reads frames (http_read_websocket), application      *)
(* coroutines that write messages (http_websocket_write_exec) or wait for  *)
(* one (http_websocket_wait), and whoever closes the connection            *)
(* (http_close_connection) or stops the server.  Each coroutine lives on a *)
(* thread and runs while the others of that thread are suspended.          *)
(*                                                                         *)
(* The peer's bytes are the positions 1, 2, ... of a stream; a frame of it *)
(* has its header at start+1..body and its payload at body+1..end.  The    *)
(* queue behind the upgrade request in conn->req.buf holds the positions   *)
(* at+1..at+queued, that is, queued is data_len - request_len.             *)
(***************************************************************************)
EXTENDS Integers, Sequences

CONSTANTS
  Streams,             \* the streams of the peer to consider
  Sides,               \* which sides to consider, of "server" and "client"
  Room,                \* buf_size - request_len, what the queue may hold
  MemSize,             \* the longest payload that needs no malloc
  MaxUnansweredPing,   \* MAX_UNANSWERED_PING
  Reader,              \* the coroutine that reads
  Writers,             \* the coroutines that write messages
  Waiters,             \* the coroutines that wait for messages
  Placings,            \* the ways to place the coroutines on threads
  NoOne,               \* the value of a mutex nobody holds
  Lost,                \* the value of a mutex nobody will release
  Messages,            \* what an application writes, of "small" and "large"
  MaxWrites            \* how many messages the application writes

(* fits: the length in the header is at most 0x7FFF0000; rsv1: the payload *)
(* is compressed.  The header comes with its mask, if it has one.          *)
Frame == [op : {"data", "close", "ping", "pong"}, start : Nat, body : Nat, end : Nat,
          rsv1 : BOOLEAN, fits : BOOLEAN]

(* The frames of a stream lie one behind the other and the queue has room  *)
(* for each header: the upgrade request leaves at least 14 bytes of buf.   *)
WellPlaced(s) ==
  \A i \in 1..Len(s) :
    /\ s[i].start = (IF i = 1 THEN 0 ELSE s[i - 1].end)
    /\ s[i].start < s[i].body /\ s[i].body <= s[i].end
    /\ s[i].body - s[i].start <= Room

ASSUME SocketConstants ==
  /\ Sides \subseteq {"server", "client"}
  /\ Room \in Nat \ {0} /\ MemSize \in Nat /\ MaxUnansweredPing \in Nat /\ MaxWrites \in Nat
  /\ Reader \notin Writers \cup Waiters
  /\ {NoOne, Lost} \cap ({Reader} \cup Writers) = {} /\ NoOne # Lost
  /\ Messages \subseteq {"small", "large"}
  /\ \A s \in Streams : s \in Seq(Frame) /\ WellPlaced(s)

VARIABLES
  (* fixed when the connection is made *)
  frames, side, enable_ping_pong, accept_gzip,
  thread,         \* the thread of each coroutine
  (* shared by all coroutines *)
  status,         \* ctx->status, "RUNNING" or not
  must_close,
  sock,           \* "open", "failed" once a write failed, "closed" by us
  app,            \* http_close_connection of a client: "open", "closing", "freed"
  (* the reader *)
  pc, at, queued,
  got,            \* bytes taken off the socket
  cur,            \* the frame being read or handled, as an index of frames
  data,           \* the stream positions in its payload buffer
  ping_count, is_data_ready, websocket_deflate_initialized,
  (* the writers *)
  mutex,          \* who holds conn->req.mutex
  writing,        \* where each coroutine is in http_websocket_write_exec
  budget,         \* messages the application may still write
  (* the waiters *)
  seeing,         \* those that left the loop of http_websocket_wait, flag still set
  (* history *)
  delivered,      \* what the data handler was called with
  unanswered,     \* PINGs sent since the peer was last heard of
  due,            \* whose frame on the wire still lacks its payload
  torn,           \* a frame was begun on the wire inside another one
  shown,          \* messages made ready
  saw,            \* the last of them when a waiter found the flag, 0 if it did not
  answered        \* the last of them that a wait returned for

config == <<frames, side, enable_ping_pong, accept_gzip, thread>>
shared == <<config, status, must_close, sock, app>>
queue == <<at, queued, got, cur, data>>
pings == <<ping_count, unanswered>>
deflater == websocket_deflate_initialized
lock == <<mutex, writing>>
wire == <<due, torn>>
wait == <<is_data_ready, seeing, shown, saw, answered>>
message == <<cur, data, deflater, delivered>>
allButPc == <<shared, queue, pings, deflater, lock, budget, wire, wait, delivered>>
vars == <<pc, allButPc>>

Everyone == {Reader} \cup Writers
Idle == [step |-> "idle", message |-> "none"]

Least2(a, b) == IF a < b THEN a ELSE b
StreamEnd == IF frames = <<>> THEN 0 ELSE frames[Len(frames)].end

-----------------------------------------------------------------------------
Init ==
  /\ frames \in Streams
  /\ side \in Sides
  /\ enable_ping_pong \in IF side = "server" THEN BOOLEAN ELSE {FALSE}
  /\ accept_gzip \in IF side = "server" THEN BOOLEAN ELSE {FALSE}
  /\ thread \in Placings
  /\ status = "RUNNING"
  /\ must_close = FALSE
  /\ sock = "open"
  /\ app = "open"
  /\ pc = "upgrade"
  /\ at = 0 /\ queued = 0 /\ got = 0 /\ cur = 0 /\ data = {}
  /\ ping_count = 0
  /\ is_data_ready = FALSE
  /\ websocket_deflate_initialized = FALSE
  /\ mutex = NoOne
  /\ writing = [w \in Everyone |-> Idle]
  /\ budget = MaxWrites
  /\ seeing = {}
  /\ delivered = <<>> /\ unanswered = 0 /\ due = NoOne /\ torn = FALSE
  /\ shown = 0 /\ saw = [c \in Waiters |-> 0] /\ answered = 0

-----------------------------------------------------------------------------
(* A coroutine runs until it yields.  One that is at the mutex, a spin     *)
(* lock, does not yield, and neither does one between the test of the flag *)
(* and its clearing, nor a reader whose inflating never ends: meanwhile no *)
(* other coroutine of its thread runs, the holder of the mutex neither.    *)
Runs(v) ==
  /\ \A w \in Everyone \ {v} : thread[w] = thread[v] => writing[w].step # "lock"
  /\ \A c \in seeing \ {v} : thread[c] # thread[v]
  /\ pc = "spin" => v = Reader \/ thread[v] # thread[Reader]

(* The reader.  After http_close_connection has freed the connection of a  *)
(* client its next step is undefined (UseFreed).                           *)

ReaderAt(place) == pc = place /\ app # "freed" /\ Runs(Reader)
Go(place) == pc' = place /\ UNCHANGED allButPc

(* http_websocket_request refuses: a missing key, another version, no      *)
(* handler, a veto of the connect handler, a handshake that does not fit.  *)
Refuse ==
  /\ ReaderAt("upgrade")
  /\ side = "server"
  /\ must_close' \in {must_close, TRUE}
  /\ pc' = "closed"
  /\ UNCHANGED <<config, status, sock, app, queue, pings, deflater, lock, budget, wire, wait,
                 delivered>>

(* The handshake is out and the ready handler runs, or the client's thread *)
(* starts, which sets ctx->status once more.                               *)
Accept ==
  /\ ReaderAt("upgrade")
  /\ \/ side = "server" /\ pc' = "ready" /\ UNCHANGED status
     \/ side = "client" /\ pc' = "loop" /\ status' = "RUNNING"
  /\ UNCHANGED <<config, must_close, sock, app, queue, pings, deflater, lock, budget, wire, wait,
                 delivered>>

ReadyReturns == ReaderAt("ready") /\ writing[Reader] = Idle /\ Go("loop")

(* The condition of the read loop, and a mistake: must_close forgotten. *)
Looping_Closing == status = "RUNNING"
Looping == status = "RUNNING" /\ ~ must_close

(* A header that is wholly in the queue. *)
FrameAt(i) == frames[i].start = at /\ frames[i].body - at <= queued

(* The loop ends: its condition, a length beyond 0x7FFF0000, no memory. *)
LoopEnds ==
  /\ ReaderAt("loop")
  /\ \/ ~ Looping
     \/ \E i \in 1..Len(frames) :
          FrameAt(i) /\ (frames[i].fits => frames[i].end - frames[i].body > MemSize)
  /\ Go("left")

(* No header yet: on to the socket. *)
NeedMore ==
  /\ ReaderAt("loop")
  /\ Looping
  /\ \A i \in 1..Len(frames) : ~ FrameAt(i)
  /\ Go("recv")

(* Mistake: the queue is moved by the payload's length only. *)
FrameLen_Payload(f) == f.end - f.body
FrameLen(f) == f.end - f.start

Copied(f) == (f.body + 1)..Least2(f.end, at + queued)

(* A frame with a whole header.  If its payload is queued too, it is       *)
(* copied and the queue moved forward; otherwise what is there is copied   *)
(* and the rest read straight into the payload buffer (the overflow case). *)
TakeFrame ==
  /\ ReaderAt("loop")
  /\ Looping
  /\ \E i \in 1..Len(frames) :
       LET f == frames[i]
       IN /\ FrameAt(i) /\ f.fits
          /\ cur' = i
          /\ data' = Copied(f)
          /\ \/ /\ f.end <= at + queued
                /\ at' = at + FrameLen(f)
                /\ queued' = queued - FrameLen(f)
                /\ pc' = "message"
             \/ /\ f.end > at + queued
                /\ pc' = "overflow"
                /\ UNCHANGED <<at, queued>>
  /\ UNCHANGED <<shared, got, pings, deflater, lock, budget, wire, wait, delivered>>

(* One tls_reader of the overflow case; a timeout (0) is retried at once,  *)
(* whatever must_close and ctx->status say, and changes nothing.           *)
OverflowRecv ==
  /\ ReaderAt("overflow")
  /\ sock # "closed"
  /\ LET missing == frames[cur].end - got
     IN \E n \in 1..Least2(missing, StreamEnd - got) :
          /\ got' = got + n
          /\ data' = data \cup ((got + 1)..(got + n))
          /\ \/ n < missing /\ UNCHANGED <<pc, at, queued>>
             \/ n = missing /\ pc' = "message" /\ at' = got + n /\ queued' = 0
  /\ unanswered' = 0
  /\ UNCHANGED <<shared, cur, ping_count, deflater, lock, budget, wire, wait, delivered>>

OverflowFails == ReaderAt("overflow") /\ Go("left")

-----------------------------------------------------------------------------
(* What becomes of a frame that was read.                                  *)

Filtered(f) == enable_ping_pong /\ f.op \in {"ping", "pong"}

HandlePong ==
  /\ ReaderAt("message")
  /\ enable_ping_pong /\ frames[cur].op = "pong"
  /\ ping_count' = 0
  /\ pc' = "loop"
  /\ UNCHANGED <<shared, queue, unanswered, deflater, lock, budget, wire, wait, delivered>>

(* The reader starts to write a PING, or a PONG with the PING's payload    *)
(* (a control frame has at most 125 bytes of it).                          *)
SendControl(place, m) ==
  /\ writing' = [writing EXCEPT ![Reader] = [step |-> "lock", message |-> m]]
  /\ pc' = place
  /\ UNCHANGED <<shared, queue, pings, deflater, mutex, budget, wire, wait, delivered>>

HandlePing ==
  /\ ReaderAt("message")
  /\ enable_ping_pong /\ frames[cur].op = "ping"
  /\ SendControl("pong", IF data = {} THEN "empty" ELSE "small")

(* http_websocket_deflate_init: without negotiated window sizes zlib       *)
(* refuses them, otherwise it needs memory.                                *)
DeflateInit(ok) ==
  \/ ok /\ (deflater \/ accept_gzip) /\ websocket_deflate_initialized' = TRUE
  \/ ~ ok /\ ~ deflater /\ UNCHANGED deflater

(* The data handler is called.  A payload that does not inflate is passed  *)
(* on as far as it came, and ends the loop.                                *)
CallHandler ==
  /\ ReaderAt("message")
  /\ ~ Filtered(frames[cur])
  /\ \E intact \in BOOLEAN :
       /\ delivered' = Append(delivered, [op |-> frames[cur].op, data |-> data, intact |-> intact])
       /\ \/ ~ frames[cur].rsv1 /\ intact /\ UNCHANGED deflater
          \/ frames[cur].rsv1 /\ data # {} /\ DeflateInit(TRUE)
  /\ pc' = "handler"
  /\ UNCHANGED <<shared, queue, pings, lock, budget, wire, wait>>

(* An empty compressed payload: the output buffer has length 0, avail_out  *)
(* stays 0 and twice its length is 0 again.                                *)
InflateSpins ==
  /\ ReaderAt("message")
  /\ ~ Filtered(frames[cur])
  /\ frames[cur].rsv1 /\ data = {}
  /\ DeflateInit(TRUE)
  /\ pc' = "spin"
  /\ UNCHANGED <<shared, queue, pings, lock, budget, wire, wait, delivered>>

(* http_websocket_wait is told that a message was handled. *)
Ready == is_data_ready' = TRUE /\ shown' = shown + 1 /\ UNCHANGED <<seeing, saw, answered>>

(* No inflater: the message is dropped and the loop ends. *)
CannotInflate ==
  /\ ReaderAt("message")
  /\ ~ Filtered(frames[cur])
  /\ frames[cur].rsv1
  /\ DeflateInit(FALSE)
  /\ Ready
  /\ pc' = "left"
  /\ UNCHANGED <<shared, queue, pings, lock, budget, wire, delivered>>

(* What ends the loop whatever the handler returns: a message that did not *)
(* inflate, or a close frame.  Mistake: only the latter.                   *)
MustEnd_Close == frames[cur].op = "close"
MustEnd == ~ delivered[Len(delivered)].intact \/ frames[cur].op = "close"

HandlerReturns ==
  /\ ReaderAt("handler")
  /\ writing[Reader] = Idle
  /\ Ready
  /\ \/ pc' = "left"
     \/ pc' = "loop" /\ ~ MustEnd
  /\ UNCHANGED <<shared, queue, pings, deflater, lock, budget, wire, delivered>>

-----------------------------------------------------------------------------
(* tls_reader of the loop: some bytes, an error, or nothing for a while.   *)

(* Mistake: the read may fill the buffer from its beginning. *)
Free_Whole == Room
Free == Room - queued

Recv ==
  /\ ReaderAt("recv")
  /\ sock # "closed"
  /\ \E n \in 1..Least2(Free, StreamEnd - got) :
       got' = got + n /\ queued' = queued + n
  /\ ping_count' = 0
  /\ unanswered' = 0
  /\ pc' = "loop"
  /\ UNCHANGED <<shared, at, message, lock, budget, wire, wait>>

RecvFails == ReaderAt("recv") /\ Go("left")

(* Mistake: one PING more is tolerated. *)
TooManyPings_Late == ping_count > MaxUnansweredPing + 1
TooManyPings == ping_count > MaxUnansweredPing

RecvTimeout ==
  /\ ReaderAt("recv")
  /\ \/ ~ Looping /\ Go("loop")
     \/ Looping /\ TooManyPings /\ Go("left")
     \/ Looping /\ ~ TooManyPings /\ enable_ping_pong /\ SendControl("ping", "empty")
     \/ Looping /\ ~ TooManyPings /\ ~ enable_ping_pong /\ Go("loop")

(* Behind the loop: in_websocket_handling is cleared, a server calls the   *)
(* close handler and gives the connection back to the keep-alive loop.     *)
ReaderLeaves == ReaderAt("left") /\ Go("closed")

-----------------------------------------------------------------------------
(* Writing a message: http_websocket_write_exec.  Any coroutine may write, *)
(* the reader from its callbacks and for PING and PONG.                    *)

WriterAt(w, step) == writing[w].step = step /\ app # "freed" /\ Runs(w)
Step(w, step) == writing' = [writing EXCEPT ![w] = [step |-> step, message |-> writing[w].message]]
Return(w) == writing' = [writing EXCEPT ![w] = Idle]

BeginWrite(w) ==
  /\ WriterAt(w, "idle")
  /\ budget > 0
  /\ pc \notin {"upgrade", "closed", "crashed"}
  /\ w = Reader => pc \in {"ready", "handler"}
  /\ budget' = budget - 1
  /\ \E m \in Messages : writing' = [writing EXCEPT ![w] = [step |-> "lock", message |-> m]]
  /\ UNCHANGED <<shared, pc, queue, pings, deflater, mutex, wire, wait, delivered>>

Compressed(w) == writing[w].message = "large" /\ accept_gzip

(* Mistake: the mutex is not waited for. *)
MutexFree_Ignored == TRUE
MutexFree == mutex = NoOne

(* The mutex is taken; a large message is deflated when the peer agreed to *)
(* it.  Without memory for the result the mutex is released again; without *)
(* a deflater the call returns 0 and the mutex stays taken for ever.       *)
LockWrite(w) ==
  /\ WriterAt(w, "lock")
  /\ MutexFree
  /\ \/ ~ Compressed(w) /\ mutex' = w /\ Step(w, "head") /\ UNCHANGED deflater
     \/ Compressed(w) /\ DeflateInit(TRUE) /\ mutex' = w /\ Step(w, "head")
     \/ Compressed(w) /\ DeflateInit(TRUE) /\ UNCHANGED mutex /\ Return(w)
     \/ Compressed(w) /\ DeflateInit(FALSE) /\ mutex' = Lost /\ Return(w)
  /\ UNCHANGED <<shared, pc, queue, pings, budget, wire, wait, delivered>>

(* Mistakes: the mutex is kept when a write fails; a PING is not counted. *)
Finish_Kept(w, ok) ==
  /\ mutex' = IF ok THEN NoOne ELSE mutex
  /\ Return(w)
  /\ pc' = IF w = Reader /\ pc \in {"ping", "pong"} THEN IF ok THEN "loop" ELSE "left" ELSE pc
  /\ UNCHANGED pings
Finish_NotCounted(w, ok) ==
  /\ mutex' = NoOne
  /\ Return(w)
  /\ pc' = IF w = Reader /\ pc \in {"ping", "pong"} THEN IF ok THEN "loop" ELSE "left" ELSE pc
  /\ UNCHANGED pings

(* The mutex is released, and the reader goes on with the result of its    *)
(* own PING or PONG.                                                       *)
Finish(w, ok) ==
  LET pinged == IF w = Reader /\ pc = "ping" /\ ok THEN 1 ELSE 0
  IN /\ mutex' = NoOne
     /\ Return(w)
     /\ pc' = IF w = Reader /\ pc \in {"ping", "pong"} THEN IF ok THEN "loop" ELSE "left" ELSE pc
     /\ ping_count' = ping_count + pinged
     /\ unanswered' = unanswered + pinged

CanWrite == sock = "open" /\ status = "RUNNING"

(* The header goes out, which is the whole frame when there is no payload. *)
WriteHead(w) ==
  /\ WriterAt(w, "head")
  /\ CanWrite
  /\ torn' = (torn \/ due # NoOne)
  /\ \/ writing[w].message = "empty" /\ Finish(w, TRUE) /\ UNCHANGED due
     \/ writing[w].message # "empty" /\ Step(w, "payload") /\ due' = w
        /\ UNCHANGED <<pc, mutex, pings>>
  /\ UNCHANGED <<shared, queue, deflater, budget, wait, delivered>>

(* The payload goes out.  A large one is written from the buffer of the    *)
(* deflated one, which is NULL when nothing was deflated: -1, with the     *)
(* header already sent.                                                    *)
WritePayload(w) ==
  /\ WriterAt(w, "payload")
  /\ CanWrite
  /\ \/ writing[w].message = "large" /\ ~ accept_gzip /\ Finish(w, FALSE) /\ UNCHANGED due
     \/ (writing[w].message = "large" => accept_gzip) /\ Finish(w, TRUE) /\ due' = NoOne
  /\ UNCHANGED <<shared, queue, deflater, budget, torn, wait, delivered>>

(* http_write writes less than it was given; a socket that failed once     *)
(* takes nothing more.                                                     *)
WriteFails(w) ==
  /\ WriterAt(w, "head") \/ WriterAt(w, "payload")
  /\ sock' = IF sock = "closed" THEN "closed" ELSE "failed"
  /\ Finish(w, FALSE)
  /\ UNCHANGED <<config, status, must_close, app, queue, deflater, budget, wire, wait, delivered>>

-----------------------------------------------------------------------------
(* Closing, stopping and waiting, by any coroutine.                        *)

(* http_close_connection of a server's connection: during the read loop it *)
(* only asks the reader to end, otherwise it closes the socket.            *)
ServerClose ==
  /\ side = "server"
  /\ pc # "closed"
  /\ must_close' = TRUE
  /\ sock' = IF pc \in {"upgrade", "ready", "left"} THEN "closed" ELSE sock
  /\ UNCHANGED <<config, status, app, pc, queue, pings, deflater, lock, budget, wire, wait,
                 delivered>>

(* http_close_connection of a client's: close_connection with the close    *)
(* handler and the socket, ...                                             *)
ClientClose ==
  /\ side = "client"
  /\ app = "open"
  /\ app' = "closing"
  /\ status' = "STOPPING"
  /\ must_close' = TRUE
  /\ sock' = "closed"
  /\ UNCHANGED <<config, pc, queue, pings, deflater, lock, budget, wire, wait, delivered>>

(* ... then the buffer, the context and the connection are freed. *)
ClientFree ==
  /\ app = "closing"
  /\ app' = "freed"
  /\ UNCHANGED <<config, status, must_close, sock, pc, queue, pings, deflater, lock, budget, wire,
                 wait, delivered>>

(* The reader, a writer or a waiter goes on with a connection that was     *)
(* freed; whoever can wait may have begun to before.                       *)
UseFreed ==
  /\ app = "freed"
  /\ pc # "crashed"
  /\ \/ pc # "closed"
     \/ \E w \in Writers : writing[w] # Idle
     \/ Waiters # {}
  /\ Go("crashed")

(* http_stop of the server. *)
Stop ==
  /\ side = "server"
  /\ status' = "TERMINATED"
  /\ UNCHANGED <<config, must_close, sock, app, pc, queue, pings, deflater, lock, budget, wire,
                 wait, delivered>>

(* The connection of a server is freed once its coroutine has ended, and   *)
(* is no DATA_HTTPINFO any more.                                           *)
Gone == side = "server" /\ pc = "closed"

(* http_websocket_wait leaves its loop; one that stays in it has changed   *)
(* nothing and yields.                                                     *)
SeesReady(c) ==
  /\ app # "freed" /\ pc # "upgrade" /\ Runs(c)
  /\ c \notin seeing
  /\ is_data_ready \/ Gone
  /\ seeing' = seeing \cup {c}
  /\ saw' = [saw EXCEPT ![c] = IF is_data_ready THEN shown ELSE 0]
  /\ UNCHANGED <<shared, pc, queue, pings, deflater, lock, budget, wire, is_data_ready, shown,
                 answered, delivered>>

(* Mistake: the flag stays set. *)
ClearReady_Not == UNCHANGED is_data_ready
ClearReady == is_data_ready' = FALSE

(* Then it clears the flag, whoever set it in between, and returns. *)
WaitReturns(c) ==
  /\ app # "freed" /\ Runs(c)
  /\ c \in seeing
  /\ seeing' = seeing \ {c}
  /\ ClearReady
  /\ answered' = IF saw[c] = 0 THEN answered ELSE saw[c]
  /\ saw' = [saw EXCEPT ![c] = 0]
  /\ UNCHANGED <<shared, pc, queue, pings, deflater, lock, budget, wire, shown, delivered>>

-----------------------------------------------------------------------------
Reading ==
  \/ LoopEnds \/ NeedMore \/ TakeFrame
  \/ HandlePong \/ HandlePing \/ CallHandler \/ CannotInflate \/ InflateSpins
Receiving == Recv \/ RecvFails \/ RecvTimeout
Writing(w) == LockWrite(w) \/ WriteHead(w) \/ WritePayload(w) \/ WriteFails(w)
Closing == ServerClose \/ ClientClose \/ ClientFree \/ UseFreed \/ Stop
Waiting == \E c \in Waiters : SeesReady(c) \/ WaitReturns(c)

Next ==
  \/ Refuse \/ Accept \/ ReadyReturns \/ HandlerReturns \/ ReaderLeaves
  \/ Reading \/ Receiving \/ OverflowRecv \/ OverflowFails
  \/ \E w \in Everyone : BeginWrite(w) \/ Writing(w)
  \/ Closing \/ Waiting

Spec == Init /\ [][Next]_vars

(* A coroutine that can run does in the end, callbacks return, a read of   *)
(* the loop returns (the socket has a timeout) and so does a write.        *)
(* Nothing is asked of the peer, who may fall silent, also in the middle   *)
(* of a frame, and the spin lock promises nobody a turn: only the writes   *)
(* of others coming to an end does.                                        *)
FairSpec ==
  /\ Spec
  /\ WF_vars(Refuse \/ Accept)
  /\ WF_vars(Reading \/ ReaderLeaves)
  /\ WF_vars(Receiving)
  /\ WF_vars(ReadyReturns \/ HandlerReturns)
  /\ \A w \in Everyone : WF_vars(Writing(w))
  /\ \A c \in Waiters : WF_vars(WaitReturns(c))

-----------------------------------------------------------------------------
Places == {"upgrade", "ready", "loop", "recv", "overflow", "message", "handler", "spin",
           "ping", "pong", "left", "closed", "crashed"}

(* Every variable keeps its range. *)
TypeOK ==
  /\ frames \in Streams /\ side \in Sides
  /\ enable_ping_pong \in BOOLEAN /\ accept_gzip \in BOOLEAN /\ thread \in Placings
  /\ status \in {"RUNNING", "STOPPING", "TERMINATED"}
  /\ must_close \in BOOLEAN
  /\ sock \in {"open", "failed", "closed"}
  /\ app \in {"open", "closing", "freed"}
  /\ pc \in Places
  /\ at \in Nat /\ queued \in 0..Room /\ got \in 0..StreamEnd
  /\ cur \in 0..Len(frames)
  /\ data \subseteq 1..StreamEnd
  /\ ping_count \in Nat /\ unanswered \in Nat
  /\ is_data_ready \in BOOLEAN /\ seeing \subseteq Waiters
  /\ websocket_deflate_initialized \in BOOLEAN
  /\ mutex \in Everyone \cup {NoOne, Lost} /\ due \in Everyone \cup {NoOne}
  /\ writing \in [Everyone -> [step : {"idle", "lock", "head", "payload"},
                               message : {"none", "empty", "small", "large"}]]
  /\ budget \in 0..MaxWrites
  /\ torn \in BOOLEAN
  /\ delivered \in Seq([op : {"data", "close", "ping", "pong"}, data : SUBSET Nat,
                        intact : BOOLEAN])
  /\ shown \in Nat /\ saw \in [Waiters -> Nat] /\ answered \in Nat

(* Whenever the reader looks for a header, the queue is one unbroken piece *)
(* of the stream that begins with a frame, however the frames before it    *)
(* lay in the buffer or ran over its end.                                  *)
QueueAtFrame ==
  pc \in {"loop", "recv"} =>
    /\ at + queued = got
    /\ at = StreamEnd \/ \E i \in 1..Len(frames) : frames[i].start = at

(* Frames of different coroutines never mix on the wire, whoever is        *)
(* preempted where, as long as no large message is written uncompressed.   *)
FramesUnmixed == ("large" \in Messages => accept_gzip) => ~ torn

(* The mutex is held only by a coroutine that is writing a message: every  *)
(* way out of http_websocket_write_exec releases it, whether the write     *)
(* succeeds, fails or finds no memory, but for the one without a deflater. *)
MutexInUse ==
  /\ mutex \in Everyone => writing[mutex].step \in {"head", "payload"}
  /\ mutex = Lost => accept_gzip /\ "large" \in Messages

(* The peer is never sent more PINGs in a row than MAX_UNANSWERED_PING and *)
(* one without having been heard of.                                       *)
PingsBounded == unanswered <= MaxUnansweredPing + 1

(* Test and clear of the flag are two steps without a lock.  Still, on the *)
(* thread of the reader a wait that found the flag returns for the last    *)
(* message and no other wait returned for it: one message does not wake    *)
(* two, and none that comes in between is lost.  (Across threads both      *)
(* happen.)                                                                *)
WaitMeansMessage ==
  (\A c \in Waiters : thread[c] = thread[Reader]) =>
    \A c \in seeing : saw[c] # 0 => saw[c] = shown /\ saw[c] > answered

(* The data handler is shown the peer's messages as MessageChannel says:   *)
(* every one that is not a PING or PONG to be answered, with its payload   *)
(* whole, in order.  One that is still being read is not passed.           *)
PeerMessages ==
  [i \in 1..Len(frames) |-> [op |-> frames[i].op, data |-> (frames[i].body + 1)..frames[i].end,
                         forHandler |-> ~ Filtered(frames[i])]]
Passed == IF pc \in {"overflow", "message"} THEN cur - 1 ELSE cur
Listening ==
  /\ pc \notin {"left", "closed", "crashed", "spin"}
  /\ delivered # <<>> => LET last == delivered[Len(delivered)]
                         IN last.intact /\ last.op # "close"
Channel == INSTANCE MessageChannel
             WITH messages <- PeerMessages, passed <- Passed, listening <- Listening
DeliversChannel == Channel!Spec

(* The holder of the mutex never runs again, because a coroutine of its    *)
(* own thread spins for the mutex, or there is no holder.                  *)
MutexStuck ==
  \/ mutex = Lost
  \/ /\ mutex \in Everyone
     /\ \E w \in Everyone \ {mutex} : thread[w] = thread[mutex] /\ writing[w].step = "lock"

(* Where the reader can be held for ever: a silent peer in the middle of a *)
(* frame, an empty compressed frame, and a mutex that will not be released *)
(* while the reader or another coroutine of its thread spins for it.       *)
Ended == pc \in {"closed", "crashed"} \/ app = "freed"
Held ==
  \/ pc \in {"overflow", "spin"}
  \/ /\ MutexStuck
     /\ \E w \in Everyone : thread[w] = thread[Reader] /\ writing[w].step = "lock"

(* A peer that falls silent is dropped in the end when PINGs are enabled.  *)
SilentPeerDropped == <>[](enable_ping_pong => Ended \/ Held)

(* "Set close flag, so the server thread can exit": once the connection is *)
(* closed or the server stopped the reader ends.                           *)
CloseEndsLoop == <>[](must_close \/ status # "RUNNING" => Ended \/ Held)

(* "This task will automatically stop when http_disconnect is called on    *)
(* the client connection": no coroutine uses a connection that was freed.  *)
NeverUsesFreed == pc # "crashed"
=============================================================================
