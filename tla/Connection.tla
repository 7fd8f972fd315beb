----------------------------- MODULE Connection -----------------------------
(***************************************************************************)
(* One server connection of httpi: the keep-alive loop of                  *)
(* http_process_connection and everything below it that reads the socket   *)
(* (get_request_response, get_message, read_message, http_read,            *)
(* _read_inner, _read_all), with a request handler that reads as much of   *)
(* the body as it likes and a thread that stops the server.                *)
(*                                                                         *)
(* The client's bytes are the positions 1..Len of a stream; a message of   *)
(* the stream ends its head (the blank line) at "head" and its body at     *)
(* "end".  The buffer conn->req.buf holds base+1..base+data_len of it.     *)
(***************************************************************************)
EXTENDS Integers, Sequences, FiniteSets

CONSTANTS
  Workloads,        \* the client streams to consider: sequences of messages
  BufSize,          \* conn->req.buf_size, the max_request_size option
  MaxRead,          \* the largest len a handler passes to http_read
  EnableKeepAlive   \* the enable_keep_alive option, "yes" or not

(* A message of a stream.  start, head and end are stream positions; cl is *)
(* its Content-Length header (Absent when it has none), te its             *)
(* Transfer-Encoding ("chunked", or "none"), conn its Connection header    *)
(* ("none", "keep-alive", or "close" for any other), method "GET" for a    *)
(* method without and "POST" for one with a body, fault what is wrong:     *)
(* an unprintable byte in the head, a method parse_http refuses, anything  *)
(* refused after its headers were stored (host, length, coding), or a      *)
(* target that is not on this server.                                      *)
Absent == -1
Message == [start : Nat, head : Nat, end : Nat,
            cl : {Absent} \cup Nat, te : {"none", "chunked"},
            conn : {"none", "keep-alive", "close"}, method : {"GET", "POST"},
            fault : {"none", "bytes", "method", "late", "elsewhere"}]

ASSUME ConstantsOK ==
  /\ BufSize \in Nat \ {0}
  /\ MaxRead \in Nat \ {0}
  /\ EnableKeepAlive \in BOOLEAN
  /\ Workloads \subseteq Seq(Message)

(* The messages of a stream lie one behind the other. *)
ASSUME StreamsInOrder ==
  \A m \in Workloads : \A i \in 1..Len(m) :
    /\ m[i].start < m[i].head /\ m[i].head <= m[i].end
    /\ m[i].start = IF i = 1 THEN 0 ELSE m[i - 1].end

VARIABLES
  msgs,         \* the client's stream, fixed from the start
  taken,        \* bytes the server has taken off the socket
  status,       \* ctx->status, "RUNNING" or "TERMINATED"
  pc,           \* where the connection's coroutine is
  base,         \* stream position before the first byte of req.buf
  data_len, request_len, content_len, consumed, is_chunked, must_close, state,
  headers,      \* conn->headers, made by the first parse and never cleared
  method,       \* conn->method
  handled,      \* req.handled_requests
  want,         \* bytes _read_all still has to read for the running http_read
  err,          \* reqerr of the running iteration
  answer,       \* what http_error did for a refused request
  body,         \* stream positions handed to the handler of this request
  served        \* stream positions at which dispatched requests began

framing == <<base, data_len, request_len>>
request == <<content_len, is_chunked, headers, method>>
ghosts  == <<body, served>>
vars == <<msgs, taken, status, pc, base, data_len, request_len, content_len,
          consumed, is_chunked, must_close, state, headers, method, handled,
          want, err, answer, body, served>>

StreamLen(m) == IF m = <<>> THEN 0 ELSE m[Len(m)].end

Max2(a, b) == IF a < b THEN b ELSE a
Min2(a, b) == IF a < b THEN a ELSE b

-----------------------------------------------------------------------------
(* Scanning the buffer.                                                    *)

HeadEndsAt(p) == \E i \in 1..Len(msgs) : msgs[i].head = p
BadByteAt(p) == \E i \in 1..Len(msgs) :
                  msgs[i].fault = "bytes" /\ msgs[i].start + 1 = p

(* What get_http_header_len returns for n bytes after position from: the   *)
(* length of the head, -1 at an unprintable byte, 0 when neither is there. *)
HeaderLen(from, n, len) ==
  LET mark(k) == HeadEndsAt(from + k) \/ BadByteAt(from + k)
      first(k) == mark(k) /\ \A j \in 1..(k - 1) : ~ mark(j)
  IN \/ len = 0 /\ \A k \in 1..n : ~ mark(k)
     \/ len = -1 /\ \E k \in 1..n : first(k) /\ BadByteAt(from + k)
     \/ len \in 1..n /\ first(len) /\ ~ BadByteAt(from + len)

-----------------------------------------------------------------------------
Init ==
  /\ msgs \in Workloads
  /\ taken = 0 /\ base = 0 /\ data_len = 0 /\ request_len = 0
  /\ content_len = -1
  /\ consumed = 0
  /\ is_chunked = 0
  /\ must_close = FALSE
  /\ state = 0
  /\ headers = [made |-> FALSE, cl |-> Absent, te |-> "none", conn |-> "none"]
  /\ method = "none"
  /\ handled = 0
  /\ want = 0
  /\ err = 0
  /\ answer = "none"
  /\ body = {}
  /\ served = <<>>
  /\ status = "RUNNING"
  /\ pc = "scan"

(* http_stop, from another coroutine or the Ctrl-C handler. *)
Stop ==
  /\ status = "RUNNING"
  /\ status' = "TERMINATED"
  /\ UNCHANGED <<msgs, taken, pc, framing, request, consumed, must_close, state,
                 handled, want, err, answer, ghosts>>

-----------------------------------------------------------------------------
(* read_message: scan what is buffered, read more until a head is there.   *)

Scan ==
  /\ pc = "scan"
  /\ \E len \in -1..data_len :
       /\ HeaderLen(base, data_len, len)
       /\ \/ /\ len # 0
             /\ request_len' = len
             /\ pc' = "message"
          \/ /\ len = 0
             /\ status # "RUNNING"
             /\ request_len' = -1
             /\ pc' = "message"
          \/ /\ len = 0
             /\ status = "RUNNING"
             /\ data_len >= BufSize
             /\ request_len' = -2
             /\ pc' = "message"
          \/ /\ len = 0
             /\ status = "RUNNING"
             /\ data_len < BufSize
             /\ pc' = "recv"
             /\ UNCHANGED request_len
  /\ UNCHANGED <<msgs, taken, status, base, data_len, request, consumed, must_close,
                 state, handled, want, err, answer, ghosts>>

(* Mistake: the read is not limited to the room left in the buffer. *)
Recv_Unlimited ==
  /\ pc = "recv"
  /\ \E n \in 1..Min2(BufSize, StreamLen(msgs) - taken) :
       taken' = taken + n /\ data_len' = data_len + n
  /\ pc' = "scan"
  /\ UNCHANGED <<msgs, status, base, request_len, request, consumed, must_close,
                 state, handled, want, err, answer, ghosts>>

Recv ==
  /\ pc = "recv"
  /\ \E n \in 1..Min2(BufSize - data_len, StreamLen(msgs) - taken) :
       /\ taken' = taken + n
       /\ data_len' = data_len + n
  /\ pc' = "scan"
  /\ UNCHANGED <<msgs, status, base, request_len, request, consumed, must_close,
                 state, handled, want, err, answer, ghosts>>

(* Mistake: the end of the stream is taken for "nothing yet". *)
RecvFails_Retries ==
  /\ pc = "recv"
  /\ pc' = "scan"
  /\ UNCHANGED <<msgs, taken, status, framing, request, consumed, must_close, state,
                 handled, want, err, answer, ghosts>>

(* tls_reader returns 0 or less: end of stream, an error or a timeout. *)
RecvFails ==
  /\ pc = "recv"
  /\ request_len' = -1
  /\ pc' = "message"
  /\ UNCHANGED <<msgs, taken, status, base, data_len, request, consumed, must_close,
                 state, handled, want, err, answer, ghosts>>

-----------------------------------------------------------------------------
(* get_request_response and the refusals of http_process_connection.       *)

(* http_error with the default error page: must_close is set; a status     *)
(* line goes out only when nothing of a response was sent since state was  *)
(* last reset; http_response_send then walks conn->headers, which only a   *)
(* parse creates: with none, it is a null dereference.                     *)
SendError(table) ==
  /\ must_close' = TRUE
  /\ \/ /\ state = 0 /\ table
        /\ answer' = "full" /\ state' = 10 /\ pc' = "finish"
     \/ /\ state = 0 /\ ~ table
        /\ answer' = "crash" /\ state' = 2 /\ pc' = "crashed"
     \/ /\ state # 0
        /\ answer' = "headless" /\ state' = 10 /\ pc' = "finish"

(* get_message fails: "Message too large" (413), "Malformed message" (400) *)
(* or, with nothing received, a silent close.                              *)
NoMessage ==
  /\ pc = "message"
  /\ request_len <= 0
  /\ \/ /\ data_len > 0
        /\ err' = IF request_len = 0 /\ data_len = BufSize THEN 413 ELSE 400
        /\ SendError(headers.made)
     \/ /\ data_len = 0
        /\ err' = 0
        /\ must_close' = TRUE
        /\ pc' = "finish"
        /\ UNCHANGED <<answer, state>>
  /\ UNCHANGED <<msgs, taken, status, framing, request, consumed, handled, want, ghosts>>

(* parse_http puts the headers a message has over those already stored. *)
Overlay(m) ==
  [made |-> TRUE,
   cl   |-> IF m.cl # Absent THEN m.cl ELSE headers.cl,
   te   |-> IF m.te # "none" THEN m.te ELSE headers.te,
   conn |-> IF m.conn # "none" THEN m.conn ELSE headers.conn]

(* What parse_http makes of the head just found: the message that owns it  *)
(* when the buffer starts with that message.  Otherwise the first line is  *)
(* the tail of a body: refused as a method, or, without "HTTP/" in it,     *)
(* ignored, so that the previous method stands.                            *)
Parsed(m, fault, meth) ==
  /\ m.head = base + request_len
  /\ \/ m.start = base /\ fault = m.fault /\ meth = m.method
     \/ m.start # base /\ fault = "method" /\ meth = method
     \/ m.start # base /\ fault = m.fault /\ meth = method

BodyFraming(h, meth) ==
  IF h.te = "chunked" THEN [len |-> 0, chunked |-> 1]
  ELSE IF h.cl # Absent THEN [len |-> h.cl, chunked |-> is_chunked]
  ELSE IF meth = "POST" THEN [len |-> -1, chunked |-> is_chunked]
  ELSE [len |-> 0, chunked |-> is_chunked]

(* What was parsed is refused, or asks for another server (a proxy's       *)
(* request, or "*"), which closes the connection without an answer.        *)
Refuse ==
  /\ pc = "message"
  /\ request_len > 0
  /\ \E i \in 1..Len(msgs), meth \in {"GET", "POST", "none"} :
       \/ /\ Parsed(msgs[i], "method", meth)
          /\ headers' = [headers EXCEPT !.made = TRUE]
          /\ err' = 400
          /\ SendError(TRUE)
          /\ UNCHANGED method
       \/ /\ Parsed(msgs[i], "late", meth)
          /\ headers' = Overlay(msgs[i])
          /\ method' = meth
          /\ err' = 400
          /\ SendError(TRUE)
       \/ /\ Parsed(msgs[i], "elsewhere", meth)
          /\ headers' = Overlay(msgs[i])
          /\ method' = meth
          /\ err' = 0
          /\ must_close' = TRUE
          /\ pc' = "finish"
          /\ UNCHANGED <<answer, state>>
  /\ UNCHANGED <<msgs, taken, status, framing, content_len, is_chunked, consumed,
                 handled, want, ghosts>>

(* A request is accepted; http_handle_request resets req.state. *)
Dispatch ==
  /\ pc = "message"
  /\ request_len > 0
  /\ \E i \in 1..Len(msgs), meth \in {"GET", "POST", "none"} :
       LET f == BodyFraming(Overlay(msgs[i]), meth)
       IN /\ Parsed(msgs[i], "none", meth)
          /\ headers' = Overlay(msgs[i])
          /\ method' = meth
          /\ content_len' = f.len
          /\ is_chunked' = f.chunked
  /\ err' = 0
  /\ state' = 0
  /\ body' = {}
  /\ served' = Append(served, base)
  /\ pc' = "handle"
  /\ UNCHANGED <<msgs, taken, status, framing, consumed, must_close, handled, want,
                 answer>>

-----------------------------------------------------------------------------
(* The request handler.                                                    *)

(* Mistake: the declared length is not heeded. *)
Allowed_Any(len, n) == n

(* The bytes a read of n may still return, by the declared length. *)
Allowed(len, n) == IF len < 0 THEN n ELSE Max2(0, Min2(n, len - consumed))

(* The stream position behind which the handler reads next. *)
BodyStart_Rewound == base + request_len
BodyStart == base + request_len + consumed

(* http_read(conn, buf, n): first what is buffered, then the socket.  A    *)
(* chunked read raises content_len by what it is about to ask for.         *)
HandlerRead ==
  /\ pc = "handle"
  /\ is_chunked < 2
  /\ \E n \in 1..MaxRead :
       LET len == IF is_chunked = 1 THEN content_len + n ELSE content_len
           room == Allowed(len, n)
           buffered == Max2(0, Min2(data_len - request_len - consumed, room))
       IN /\ content_len' = len
          /\ consumed' = consumed + buffered
          /\ body' = body \cup ((BodyStart + 1)..(BodyStart + buffered))
          /\ want' = room - buffered
          /\ pc' = IF room - buffered > 0 THEN "body" ELSE "handle"
          /\ is_chunked' = IF is_chunked = 1 /\ room = 0 THEN 3 ELSE is_chunked
  /\ UNCHANGED <<msgs, taken, status, framing, must_close, state, headers, method,
                 handled, err, answer, served>>

(* One tls_reader of _read_all. *)
BodyRecv ==
  /\ pc = "body"
  /\ status = "RUNNING"
  /\ \E n \in 1..Min2(want, StreamLen(msgs) - taken) :
       /\ taken' = taken + n
       /\ consumed' = consumed + n
       /\ body' = body \cup ((taken + 1)..(taken + n))
       /\ want' = want - n
       /\ pc' = IF n = want THEN "handle" ELSE "body"
  /\ UNCHANGED <<msgs, status, framing, request, must_close, state, handled, err,
                 answer, served>>

(* End of stream, an error or a timeout, or the server is being stopped; a *)
(* chunked reader then fails on its next byte.                             *)
BodyEnds ==
  /\ pc = "body"
  /\ want' = 0
  /\ pc' = "handle"
  /\ is_chunked' = IF is_chunked = 1 THEN 3 ELSE is_chunked
  /\ UNCHANGED <<msgs, taken, status, framing, content_len, headers, method, consumed,
                 must_close, state, handled, err, answer, ghosts>>

(* The chunk of length zero, or a malformed chunk header. *)
ChunksEnd ==
  /\ pc = "handle"
  /\ is_chunked = 1
  /\ is_chunked' \in {2, 3}
  /\ UNCHANGED <<msgs, taken, status, pc, framing, content_len, headers, method,
                 consumed, must_close, state, handled, want, err, answer, ghosts>>

(* The handler returns, having sent nothing, a response, or http_error's   *)
(* default page.                                                           *)
HandlerReturns ==
  /\ pc = "handle"
  /\ \/ UNCHANGED <<state, must_close>>
     \/ state' = 10 /\ must_close' \in {must_close, TRUE}
  /\ pc' = "finish"
  /\ UNCHANGED <<msgs, taken, status, framing, request, consumed, handled, want, err,
                 answer, ghosts>>

-----------------------------------------------------------------------------
(* The end of an iteration of http_process_connection.                     *)

(* Mistakes: must_close, or the client's Connection header, forgotten. *)
should_keep_alive_MustClose == EnableKeepAlive /\ headers.conn # "close"
should_keep_alive_Connection == ~ must_close /\ EnableKeepAlive

should_keep_alive ==
  ~ must_close /\ EnableKeepAlive /\ headers.conn # "close"

(* Mistake: keep-alive without a look at whether the body was read. *)
keep_alive_Unread ==
  status = "RUNNING" /\ should_keep_alive /\ content_len >= 0 /\ request_len > 0

keep_alive ==
  /\ status = "RUNNING"
  /\ should_keep_alive
  /\ content_len >= 0
  /\ request_len > 0
  /\ \/ is_chunked = 4
     \/ /\ is_chunked = 0
        /\ \/ consumed = content_len
           \/ request_len + content_len <= data_len

(* Mistakes: more than is buffered is discarded; the head is not. *)
discard_len_Whole == request_len + content_len
discard_len_Body == Min2(content_len, data_len)

discard_len == Min2(request_len + content_len, data_len)

Finish ==
  /\ pc = "finish"
  /\ handled' = handled + 1
  /\ \/ /\ keep_alive
        /\ data_len' = data_len - discard_len
        /\ base' = IF data_len > discard_len THEN base + discard_len ELSE taken
        /\ pc' = "scan"
     \/ /\ ~ keep_alive
        /\ pc' = "done"
        /\ UNCHANGED <<data_len, base>>
  /\ UNCHANGED <<msgs, taken, status, request_len, request, consumed, must_close,
                 state, want, err, answer, ghosts>>

-----------------------------------------------------------------------------
Receiving == Scan \/ Recv \/ RecvFails
Parsing == NoMessage \/ Refuse \/ Dispatch
Handling == HandlerRead \/ BodyRecv \/ BodyEnds \/ ChunksEnd \/ HandlerReturns

Next == Stop \/ Receiving \/ Parsing \/ Handling \/ Finish

Spec == Init /\ [][Next]_vars

(* A read returns (request_timeout puts a timeout on the socket), the      *)
(* coroutine keeps running, and a handler returns; the client owes nothing.*)
FairSpec ==
  /\ Spec
  /\ WF_vars(Receiving \/ Parsing \/ Finish)
  /\ WF_vars(BodyRecv \/ BodyEnds)
  /\ SF_vars(HandlerReturns)

-----------------------------------------------------------------------------
(* Every variable keeps the range its field has in httpi_s. *)
TypeOK ==
  /\ msgs \in Workloads
  /\ taken \in Nat /\ base \in Nat /\ data_len \in 0..BufSize
  /\ request_len \in -2..BufSize
  /\ content_len \in Nat \cup {-1}
  /\ consumed \in Nat
  /\ is_chunked \in 0..3
  /\ must_close \in BOOLEAN
  /\ state \in {0, 2, 10}
  /\ headers \in [made : BOOLEAN, cl : {Absent} \cup Nat, te : {"none", "chunked"},
                  conn : {"none", "keep-alive", "close"}]
  /\ method \in {"none", "GET", "POST"}
  /\ handled \in Nat
  /\ want \in Nat
  /\ err \in {0, 400, 413}
  /\ answer \in {"none", "full", "crash", "headless"}
  /\ body \subseteq Nat
  /\ served \in Seq(Nat)
  /\ status \in {"RUNNING", "TERMINATED"}
  /\ pc \in {"scan", "recv", "message", "handle", "body", "finish", "done", "crashed"}

(* While a head is being read, the buffer is one unbroken piece of the     *)
(* stream that ends at the last byte taken off the socket: the discard at  *)
(* the end of an iteration (the memmove) never leaves a hole between what  *)
(* stayed buffered and what a handler read from the socket.                *)
BufferContiguous ==
  pc \in {"scan", "recv", "message"} => base + data_len = taken

(* Reading a body of declared length never takes a byte of the socket that *)
(* lies behind that body, however the reads interleave with the buffer.    *)
BodyWithinMessage ==
  pc \in {"handle", "body", "finish"} /\ is_chunked = 0 /\ content_len >= 0 =>
    taken <= Max2(base + data_len, base + request_len + content_len)

(* The handler of the first request of a connection is handed exactly the  *)
(* bytes that follow its head, none twice and none left out.               *)
BodyExact == body = (base + request_len + 1)..(base + request_len + Cardinality(body))
FirstBodyExact == pc \in {"handle", "body", "finish"} /\ handled = 0 => BodyExact

(* A connection never handles a request again, nor one that begins before  *)
(* another it has handled.                                                 *)
ServedInOrder == \A i, j \in 1..Len(served) : i < j => served[i] < served[j]

(* A stream the loop frames right: a body is declared by at most one       *)
(* message, and each later one states that it has none itself.             *)
Framed(m) ==
  \A i \in 1..Len(m) :
    /\ m[i].te = "none"
    /\ m[i].end = m[i].head + Max2(0, m[i].cl)
    /\ m[i].method = "POST" => m[i].cl >= 0
    /\ \A j \in 1..(i - 1) : m[j].cl > 0 => m[i].cl = 0

(* On such a stream every dispatched request begins where a message does,  *)
(* and the n-th dispatched request is the n-th message.                    *)
InSync ==
  Framed(msgs) =>
    \A i \in 1..Len(served) : i <= Len(msgs) /\ served[i] = msgs[i].start

(* ... on every stream whose messages declare their lengths. *)
Declared(m) ==
  \A i \in 1..Len(m) : /\ m[i].te = "none" /\ m[i].method = "POST" => m[i].cl >= 0
                       /\ m[i].end = m[i].head + Max2(0, m[i].cl)
AlwaysInSync ==
  Declared(msgs) => \A i \in 1..Len(served) : \E j \in 1..Len(msgs) : served[i] = msgs[j].start

(* "Send an error message and close the connection": a refused message is  *)
(* answered with a whole response.                                         *)
RefusalAnswered == err > 0 /\ pc # "message" => answer = "full"

(* A framed stream is handled as RequestPipeline promises. *)
Pipeline == INSTANCE RequestPipeline
  WITH open <- pc \notin {"done", "crashed"}, stated <- Framed(msgs)
HandlesPipeline == Pipeline!Spec

(* Once must_close is set the loop handles no further request: it is read  *)
(* at the end of the iteration that set it and no later one starts.        *)
NothingAfterMustClose == [][must_close => served' = served]_vars

(* The connection's coroutine ends: the client's silence, its disconnect   *)
(* and a server stop all reach the end of the loop.                        *)
Terminates == <>(pc \in {"done", "crashed"})
=============================================================================
