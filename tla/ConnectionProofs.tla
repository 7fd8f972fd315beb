-------------------------- MODULE ConnectionProofs --------------------------
(***************************************************************************)
(* TLAPS proofs about Connection, for every stream, buffer size and read   *)
(* size.  The inductive invariant IInv says what the buffer, the socket    *)
(* and consumed_content have to do with each other while a body is read:   *)
(* that is what makes the discard at the end of an iteration sound.        *)
(***************************************************************************)
EXTENDS Connection, FiniteSetTheorems, TLAPS

Reading == {"scan", "recv", "message"}
Serving == {"handle", "body", "finish"}

(* The buffer ends at the last byte taken, or before it, and then what lies *)
(* between was counted in consumed.                                         *)
SocketCounted ==
  /\ base + data_len <= taken
  /\ pc \in Serving => taken <= Max2(base + data_len, base + request_len + consumed)

(* A head found lies in the buffer. *)
HeadBuffered ==
  /\ pc \in {"message", "handle", "body", "finish"} => request_len <= data_len
  /\ pc \in {"handle", "body"} => request_len > 0

(* _read_all runs only when the buffer is used up, for bytes of the body. *)
ReadingSocket ==
  pc = "body" => /\ data_len <= request_len + consumed
                 /\ is_chunked = 0 /\ content_len >= 0 => consumed + want <= content_len

(* No request of the past began at or behind the bytes still to be parsed. *)
ServedBehind ==
  \A i \in 1..Len(served) :
    served[i] <= base /\ (pc \in Reading => served[i] < base)

IInv ==
  /\ TypeOK
  /\ BufferContiguous
  /\ BodyWithinMessage
  /\ SocketCounted
  /\ HeadBuffered
  /\ ReadingSocket
  /\ ServedBehind
  /\ ServedInOrder

-----------------------------------------------------------------------------
(* The invariant holds when http_accept hands the connection over. *)
LEMMA InitIInv == Init => IInv
  <1> SUFFICES ASSUME Init PROVE IInv
    OBVIOUS
  <1> USE DEF Init
  <1>1. headers \in [made : BOOLEAN, cl : {Absent} \cup Nat, te : {"none", "chunked"},
                    conn : {"none", "keep-alive", "close"}]
    OBVIOUS
  <1>2. must_close \in BOOLEAN
    OBVIOUS
  <1>3. data_len \in 0..BufSize /\ request_len \in -2..BufSize
    BY ConstantsOK DEF ConstantsOK
  <1>4. TypeOK
    BY <1>1, <1>2, <1>3 DEF TypeOK
  <1>5. BufferContiguous /\ SocketCounted /\ BodyWithinMessage /\ HeadBuffered /\ ReadingSocket
    BY DEF BufferContiguous, SocketCounted, BodyWithinMessage, HeadBuffered, ReadingSocket,
       Serving
  <1>6. ServedBehind /\ ServedInOrder
    BY DEF ServedBehind, ServedInOrder
  <1> QED BY <1>4, <1>5, <1>6 DEF IInv

(* Whatever message a head belongs to has the fields of a Message. *)
LEMMA MessagesTyped ==
  ASSUME TypeOK, NEW i \in 1..Len(msgs)
  PROVE  msgs[i] \in Message
  BY ConstantsOK DEF ConstantsOK, TypeOK

(* The length of the stream is a number. *)
LEMMA StreamLenTyped ==
  ASSUME TypeOK
  PROVE  StreamLen(msgs) \in Nat
  <1>1. msgs \in Seq(Message)
    BY ConstantsOK DEF ConstantsOK, TypeOK
  <1>2. CASE msgs # <<>>
    <2>1. msgs[Len(msgs)] \in Message
      BY <1>1, <1>2
    <2>2. msgs[Len(msgs)].end \in Nat
      BY <2>1 DEF Message
    <2> QED BY <1>2, <2>2 DEF StreamLen
  <1> QED BY <1>2 DEF StreamLen

(* Storing the headers of a message keeps the type of the table. *)
LEMMA OverlayTyped ==
  ASSUME TypeOK, NEW i \in 1..Len(msgs)
  PROVE  /\ Overlay(msgs[i]) \in [made : BOOLEAN, cl : {Absent} \cup Nat,
                                 te : {"none", "chunked"},
                                 conn : {"none", "keep-alive", "close"}]
  BY MessagesTyped DEF Overlay, TypeOK, Message

(* The framing chosen for a body is one the read loop understands. *)
LEMMA BodyFramingTyped ==
  ASSUME TypeOK, NEW i \in 1..Len(msgs), NEW meth
  PROVE  /\ BodyFraming(Overlay(msgs[i]), meth).len \in Nat \cup {-1}
         /\ BodyFraming(Overlay(msgs[i]), meth).chunked \in 0..3
  <1>1. Overlay(msgs[i]).cl \in {Absent} \cup Nat
    BY OverlayTyped
  <1>2. is_chunked \in 0..3
    BY DEF TypeOK
  <1> QED BY <1>1, <1>2 DEF BodyFraming, Absent

-----------------------------------------------------------------------------
(* The numbers of a connection. *)
Numbers ==
  /\ BufSize \in Nat /\ taken \in Nat /\ base \in Nat /\ data_len \in 0..BufSize
  /\ request_len \in Int /\ content_len \in Nat \cup {-1} /\ consumed \in Nat
  /\ want \in Nat /\ is_chunked \in 0..3

(* One http_read of n bytes: the length it goes by, the bytes it may       *)
(* return, and those of them that are buffered.                            *)
ReadLen(n) == IF is_chunked = 1 THEN content_len + n ELSE content_len
ReadRoom(n) == Allowed(ReadLen(n), n)
ReadBuffered(n) == Max2(0, Min2(data_len - request_len - consumed, ReadRoom(n)))
ReadStep(n) ==
  /\ content_len' = ReadLen(n)
  /\ consumed' = consumed + ReadBuffered(n)
  /\ body' = body \cup ((base + request_len + consumed + 1)
                        ..(base + request_len + consumed + ReadBuffered(n)))
  /\ want' = ReadRoom(n) - ReadBuffered(n)
  /\ pc' = IF ReadRoom(n) - ReadBuffered(n) > 0 THEN "body" ELSE "handle"
  /\ is_chunked' = IF is_chunked = 1 /\ ReadRoom(n) = 0 THEN 3 ELSE is_chunked

ReadFacts(n) ==
  /\ ReadLen(n) \in Nat \cup {-1}
  /\ is_chunked = 0 => ReadLen(n) = content_len
  /\ ReadRoom(n) \in Nat
  /\ ReadBuffered(n) \in 0..ReadRoom(n)
  /\ ReadRoom(n) > ReadBuffered(n) => data_len <= request_len + consumed + ReadBuffered(n)
  /\ is_chunked = 0 /\ content_len >= 0 /\ ReadRoom(n) > ReadBuffered(n)
       => consumed + ReadRoom(n) <= content_len
  /\ base + request_len + consumed \in Nat

(* HandlerRead is a ReadStep of some length. *)
LEMMA HandlerReadStep == HandlerRead => \E n \in 1..MaxRead : ReadStep(n)
  BY DEF HandlerRead, ReadStep, ReadLen, ReadRoom, ReadBuffered, BodyStart

(* What http_read may return is at most what the declared length leaves,   *)
(* and it goes to the socket only when the buffer is used up.              *)
LEMMA ReadStepFacts ==
  ASSUME IInv, pc = "handle", NEW n \in Nat
  PROVE  ReadFacts(n)
  <1>1. Numbers /\ request_len > 0
    BY ConstantsOK DEF IInv, TypeOK, Numbers, ConstantsOK, HeadBuffered
  <1>2. ReadLen(n) \in Nat \cup {-1} /\ (is_chunked = 0 => ReadLen(n) = content_len)
    BY <1>1 DEF Numbers, ReadLen
  <1>3. /\ ReadRoom(n) \in Nat
        /\ ReadLen(n) >= 0 => ReadRoom(n) <= Max2(0, ReadLen(n) - consumed)
    BY <1>1, <1>2 DEF Numbers, ReadRoom, Allowed, Max2, Min2
  <1>4. /\ ReadBuffered(n) \in 0..ReadRoom(n)
        /\ ReadRoom(n) > ReadBuffered(n) => data_len <= request_len + consumed + ReadBuffered(n)
    BY <1>1, <1>3 DEF Numbers, ReadBuffered, Max2, Min2
  <1>5. is_chunked = 0 /\ content_len >= 0 /\ ReadRoom(n) > ReadBuffered(n)
          => consumed + ReadRoom(n) <= content_len
    BY <1>1, <1>2, <1>3, <1>4 DEF Numbers, Max2
  <1> QED BY <1>1, <1>2, <1>3, <1>4, <1>5 DEF ReadFacts, Numbers

(* A number up to either of two is one up to their maximum. *)
LEMMA Max2Bound ==
  ASSUME NEW a \in Int, NEW b \in Int, NEW t \in Int
  PROVE  t <= Max2(a, b) <=> (t <= a \/ t <= b)
  BY DEF Max2

(* The discard of an iteration that keeps the connection alive moves the   *)
(* buffer on, and it then ends where the socket reading ended.             *)
LEMMA FinishFacts ==
  ASSUME IInv, Finish, keep_alive
  PROVE  /\ base' \in Nat /\ base' > base
         /\ data_len' \in 0..BufSize
         /\ base' + data_len' = taken' /\ taken' = taken
         /\ pc' = "scan"
  <1>1. Numbers /\ SocketCounted /\ HeadBuffered /\ BodyWithinMessage
    BY ConstantsOK DEF IInv, TypeOK, Numbers, ConstantsOK
  <1>2. /\ request_len > 0 /\ content_len >= 0 /\ is_chunked = 0
        /\ pc = "finish" /\ pc' = "scan" /\ taken' = taken
        /\ data_len' = data_len - discard_len
        /\ base' = IF data_len > discard_len THEN base + discard_len ELSE taken
    BY <1>1 DEF Finish, keep_alive, Numbers
  <1>3. request_len <= data_len
    BY <1>1, <1>2 DEF HeadBuffered
  <1>4. /\ discard_len \in 1..data_len
        /\ data_len > discard_len => discard_len = request_len + content_len
    BY <1>1, <1>2, <1>3 DEF discard_len, Min2, Numbers
  <1>5. base + data_len <= taken
    BY <1>1 DEF SocketCounted
  <1>6. taken <= Max2(base + data_len, base + request_len + content_len)
    BY <1>1, <1>2 DEF BodyWithinMessage
  <1>7. data_len > discard_len => base + data_len = taken
    BY <1>1, <1>2, <1>4, <1>5, <1>6 DEF Max2, Numbers
  <1> QED BY <1>1, <1>2, <1>4, <1>5, <1>7 DEF Numbers

-----------------------------------------------------------------------------
(* Every step keeps the types of the fields. *)
LEMMA NextTypeOK == IInv /\ [Next]_vars => TypeOK'
  <1> SUFFICES ASSUME IInv, [Next]_vars PROVE TypeOK'
    OBVIOUS
  <1>0. TypeOK
    BY DEF IInv
  <1> USE DEF framing, request, ghosts
  <1>1. CASE Stop
    BY <1>0, <1>1 DEF TypeOK, Stop
  <1>2. CASE Scan
    <2>1. request_len' \in -2..BufSize
      BY <1>0, <1>2, ConstantsOK DEF TypeOK, Scan, ConstantsOK
    <2>2. pc' \in {"message", "recv"}
      BY <1>2 DEF Scan
    <2> QED BY <1>0, <1>2, <2>1, <2>2 DEF TypeOK, Scan
  <1>3. CASE Recv
    <2>1. PICK n \in 1..Min2(BufSize - data_len, StreamLen(msgs) - taken) :
            taken' = taken + n /\ data_len' = data_len + n
      BY <1>3 DEF Recv
    <2>2. n \in Nat /\ data_len + n <= BufSize
      BY <1>0, <2>1, StreamLenTyped, ConstantsOK DEF Min2, TypeOK, ConstantsOK
    <2>3. taken' \in Nat /\ data_len' \in 0..BufSize
      BY <1>0, <2>1, <2>2 DEF TypeOK
    <2> QED BY <1>0, <1>3, <2>3 DEF TypeOK, Recv
  <1>4. CASE RecvFails
    BY <1>0, <1>4, ConstantsOK DEF TypeOK, RecvFails, ConstantsOK
  <1>5. CASE NoMessage
    <2>1. /\ must_close' \in BOOLEAN
          /\ err' \in {0, 400, 413}
      BY <1>5 DEF NoMessage, SendError
    <2>2. /\ answer' \in {"none", "full", "crash", "headless"}
          /\ state' \in {0, 2, 10}
          /\ pc' \in {"finish", "crashed"}
      BY <1>0, <1>5 DEF TypeOK, NoMessage, SendError
    <2> QED BY <1>0, <1>5, <2>1, <2>2 DEF TypeOK, NoMessage
  <1>6. CASE Refuse
    <2>1. PICK i \in 1..Len(msgs), meth \in {"GET", "POST", "none"} :
            \/ headers' = [headers EXCEPT !.made = TRUE] /\ method' = method
            \/ headers' = Overlay(msgs[i]) /\ method' = meth
      BY <1>6 DEF Refuse
    <2>2. headers' \in [made : BOOLEAN, cl : {Absent} \cup Nat, te : {"none", "chunked"},
                        conn : {"none", "keep-alive", "close"}]
      <3>1. CASE headers' = Overlay(msgs[i])
        BY <1>0, <3>1, OverlayTyped
      <3>2. CASE headers' = [headers EXCEPT !.made = TRUE]
        BY <1>0, <3>2 DEF TypeOK
      <3> QED BY <2>1, <3>1, <3>2
    <2>3. method' \in {"none", "GET", "POST"}
      BY <1>0, <2>1 DEF TypeOK
    <2>4. /\ must_close' \in BOOLEAN
          /\ answer' \in {"none", "full", "crash", "headless"}
          /\ state' \in {0, 2, 10}
          /\ pc' \in {"finish", "crashed"}
          /\ err' \in {0, 400}
      <3>1. answer \in {"none", "full", "crash", "headless"} /\ state \in {0, 2, 10}
        BY <1>0 DEF TypeOK
      <3>2. \/ err' = 400 /\ SendError(TRUE)
            \/ /\ err' = 0 /\ must_close' = TRUE /\ pc' = "finish"
               /\ answer' = answer /\ state' = state
        BY <1>6 DEF Refuse
      <3> QED BY <3>1, <3>2 DEF SendError
    <2> QED BY <1>0, <1>6, <2>2, <2>3, <2>4 DEF TypeOK, Refuse
  <1>7. CASE Dispatch
    <2>1. PICK i \in 1..Len(msgs), meth \in {"GET", "POST", "none"} :
            /\ headers' = Overlay(msgs[i])
            /\ method' = meth
            /\ content_len' = BodyFraming(Overlay(msgs[i]), meth).len
            /\ is_chunked' = BodyFraming(Overlay(msgs[i]), meth).chunked
      BY <1>7 DEF Dispatch
    <2>2. headers' \in [made : BOOLEAN, cl : {Absent} \cup Nat, te : {"none", "chunked"},
                        conn : {"none", "keep-alive", "close"}]
      BY <1>0, <2>1, OverlayTyped
    <2>3. content_len' \in Nat \cup {-1} /\ is_chunked' \in 0..3
      BY <1>0, <2>1, BodyFramingTyped
    <2>4. served' \in Seq(Nat) /\ method' \in {"none", "GET", "POST"}
      BY <1>0, <1>7, <2>1 DEF Dispatch, TypeOK
    <2> QED BY <1>0, <1>7, <2>2, <2>3, <2>4 DEF TypeOK, Dispatch
  <1>8. CASE HandlerRead
    <2>1. PICK n \in 1..MaxRead : ReadStep(n)
      BY <1>8, HandlerReadStep
    <2>2. n \in Nat /\ ReadFacts(n)
      BY <1>8, <2>1, ReadStepFacts, ConstantsOK DEF ConstantsOK, IInv, HandlerRead
    <2>3. /\ content_len' \in Nat \cup {-1} /\ consumed' \in Nat /\ want' \in Nat
          /\ is_chunked' \in 0..3 /\ pc' \in {"body", "handle"}
      BY <1>0, <2>1, <2>2 DEF TypeOK, ReadStep, ReadFacts
    <2>4. body' \subseteq Nat
      <3>1. body \subseteq Nat
        BY <1>0 DEF TypeOK
      <3>2. base + request_len + consumed \in Nat /\ ReadBuffered(n) \in Nat
        BY <2>2 DEF ReadFacts
      <3>3. ((base + request_len + consumed + 1)
             ..(base + request_len + consumed + ReadBuffered(n))) \subseteq Nat
        BY <3>2
      <3> QED BY <2>1, <3>1, <3>3 DEF ReadStep
    <2> QED BY <1>0, <1>8, <2>3, <2>4 DEF TypeOK, HandlerRead
  <1>9. CASE BodyRecv
    <2>1. PICK n \in 1..Min2(want, StreamLen(msgs) - taken) :
            /\ taken' = taken + n
            /\ consumed' = consumed + n
            /\ body' = body \cup ((taken + 1)..(taken + n))
            /\ want' = want - n
            /\ pc' = IF n = want THEN "handle" ELSE "body"
      BY <1>9 DEF BodyRecv
    <2>2. n \in Nat /\ n <= want
      BY <1>0, <2>1, StreamLenTyped DEF Min2, TypeOK
    <2>3. taken' \in Nat /\ consumed' \in Nat /\ want' \in Nat /\ pc' \in {"handle", "body"}
      BY <1>0, <2>1, <2>2 DEF TypeOK
    <2>4. body' \subseteq Nat
      BY <1>0, <2>1, <2>2 DEF TypeOK
    <2> QED BY <1>0, <1>9, <2>3, <2>4 DEF TypeOK, BodyRecv
  <1>10. CASE BodyEnds
    <2>1. is_chunked' \in 0..3
      BY <1>0, <1>10 DEF TypeOK, BodyEnds
    <2> QED BY <1>0, <1>10, <2>1 DEF TypeOK, BodyEnds
  <1>11. CASE ChunksEnd
    BY <1>0, <1>11 DEF TypeOK, ChunksEnd
  <1>12. CASE HandlerReturns
    <2>0. must_close \in BOOLEAN /\ state \in {0, 2, 10}
      BY <1>0 DEF TypeOK
    <2>1. must_close' \in BOOLEAN
      BY <1>12, <2>0, Zenon DEF HandlerReturns
    <2>2. state' \in {0, 2, 10}
      BY <1>12, <2>0 DEF HandlerReturns
    <2> QED BY <1>0, <1>12, <2>1, <2>2 DEF TypeOK, HandlerReturns
  <1>13. CASE Finish
    <2>1. data_len' \in 0..BufSize /\ base' \in Nat
      <3>1. CASE ~ keep_alive
        BY <1>0, <1>13, <3>1 DEF Finish, TypeOK
      <3>2. CASE keep_alive
        BY <1>0, <1>13, <3>2, FinishFacts DEF Finish, IInv
      <3> QED BY <3>1, <3>2
    <2>2. pc' \in {"scan", "done"} /\ handled' \in Nat
      BY <1>0, <1>13 DEF Finish, TypeOK
    <2> QED BY <1>0, <1>13, <2>1, <2>2 DEF TypeOK, Finish
  <1>14. CASE UNCHANGED vars
    BY <1>0, <1>14 DEF vars, TypeOK
  <1> QED BY <1>1, <1>2, <1>3, <1>4, <1>5, <1>6, <1>7, <1>8, <1>9, <1>10, <1>11, <1>12,
             <1>13, <1>14 DEF Next, Receiving, Parsing, Handling

(* Every step keeps what the buffer, the socket and the counters say of    *)
(* each other.                                                             *)
LEMMA NextShape ==
  IInv /\ [Next]_vars => /\ (BufferContiguous /\ BodyWithinMessage)'
                         /\ (SocketCounted /\ HeadBuffered /\ ReadingSocket)'
  <1> SUFFICES ASSUME IInv, [Next]_vars
               PROVE  /\ (BufferContiguous /\ BodyWithinMessage)'
                      /\ (SocketCounted /\ HeadBuffered /\ ReadingSocket)'
    OBVIOUS
  <1>0. Numbers
    BY ConstantsOK DEF IInv, TypeOK, Numbers, ConstantsOK
  <1>a. BufferContiguous /\ BodyWithinMessage /\ SocketCounted /\ HeadBuffered /\ ReadingSocket
    BY DEF IInv
  <1>b. StreamLen(msgs) \in Nat
    BY StreamLenTyped DEF IInv
  <1> USE <1>0, <1>a DEF Numbers, BufferContiguous, BodyWithinMessage, SocketCounted,
          HeadBuffered, ReadingSocket, Serving, framing, request, ghosts
  <1>1. CASE Stop
    BY <1>1 DEF Stop
  <1>2. CASE Scan
    BY <1>2 DEF Scan
  <1>3. CASE Recv
    BY <1>3, <1>b DEF Recv, Min2
  <1>4. CASE RecvFails
    BY <1>4 DEF RecvFails
  <1>5. CASE NoMessage
    BY <1>5 DEF NoMessage, SendError, Max2
  <1>6. CASE Refuse
    <2>1. /\ pc = "message" /\ pc' \in {"finish", "crashed"}
          /\ UNCHANGED <<taken, base, data_len, request_len, content_len, is_chunked, consumed>>
      BY <1>6 DEF Refuse, SendError
    <2> QED BY <2>1 DEF Max2
  <1>7. CASE Dispatch
    <2>1. /\ pc = "message" /\ request_len > 0 /\ pc' = "handle"
          /\ UNCHANGED <<taken, base, data_len, request_len, consumed>>
      BY <1>7 DEF Dispatch
    <2>2. content_len' \in Nat \cup {-1}
      BY <1>7, NextTypeOK DEF TypeOK
    <2>3. base + data_len = taken /\ request_len <= data_len
      BY <2>1
    <2>4. SocketCounted'
      BY <2>1, <2>3, Max2Bound
    <2>6. BodyWithinMessage'
      <3> SUFFICES ASSUME content_len' >= 0
                   PROVE  taken <= Max2(base + data_len, base + request_len + content_len')
        BY <2>1
      <3> QED BY <2>2, <2>3, Max2Bound
    <2>5. BufferContiguous' /\ HeadBuffered' /\ ReadingSocket'
      BY <2>1, <2>3
    <2> QED BY <2>4, <2>5, <2>6
  <1>8. CASE HandlerRead
    <2>1. PICK n \in 1..MaxRead : ReadStep(n)
      BY <1>8, HandlerReadStep
    <2>2. n \in Nat /\ ReadFacts(n)
      BY <1>8, <2>1, ReadStepFacts, ConstantsOK DEF ConstantsOK, IInv, HandlerRead
    <2>3. pc = "handle" /\ UNCHANGED <<taken, base, data_len, request_len>>
      BY <1>8 DEF HandlerRead
    <2>4. /\ consumed' \in Nat /\ consumed' >= consumed /\ want' \in Nat
          /\ pc' = IF want' > 0 THEN "body" ELSE "handle"
          /\ want' > 0 => data_len <= request_len + consumed'
          /\ is_chunked' = 0 => is_chunked = 0 /\ content_len' = content_len
          /\ is_chunked' = 0 /\ content_len >= 0 /\ want' > 0 => consumed' + want' <= content_len
      BY <2>1, <2>2 DEF ReadStep, ReadFacts
    <2>5. SocketCounted'
      <3>1. taken <= base + data_len \/ taken <= base + request_len + consumed
        BY <2>3, Max2Bound
      <3>2. taken <= Max2(base + data_len, base + request_len + consumed')
        BY <2>4, <3>1, Max2Bound
      <3> QED BY <2>3, <3>2
    <2>6. BodyWithinMessage'
      BY <2>3, <2>4
    <2>7. BufferContiguous' /\ HeadBuffered'
      BY <2>3, <2>4
    <2>8. ReadingSocket'
      BY <2>3, <2>4
    <2> QED BY <2>5, <2>6, <2>7, <2>8
  <1>9. CASE BodyRecv
    <2>1. PICK n \in 1..Min2(want, StreamLen(msgs) - taken) :
            /\ taken' = taken + n
            /\ consumed' = consumed + n
            /\ want' = want - n
            /\ pc' = IF n = want THEN "handle" ELSE "body"
      BY <1>9 DEF BodyRecv
    <2>2. /\ pc = "body"
          /\ UNCHANGED <<base, data_len, request_len, content_len, is_chunked>>
      BY <1>9 DEF BodyRecv
    <2>3. n \in Nat /\ n <= want
      BY <2>1, <1>b DEF Min2
    <2> QED BY <2>1, <2>2, <2>3 DEF Max2
  <1>10. CASE BodyEnds
    BY <1>10 DEF BodyEnds, Max2
  <1>11. CASE ChunksEnd
    BY <1>11 DEF ChunksEnd, Max2
  <1>12. CASE HandlerReturns
    BY <1>12 DEF HandlerReturns, Max2
  <1>13. CASE Finish
    <2>1. CASE keep_alive
      <3>1. pc' = "scan" /\ base' + data_len' = taken' /\ base' + data_len' <= taken'
        BY <1>13, <2>1, FinishFacts DEF Finish, IInv
      <3> QED BY <3>1
    <2>2. CASE ~ keep_alive
      BY <1>13, <2>2 DEF Finish
    <2> QED BY <2>1, <2>2
  <1>14. CASE UNCHANGED vars
    BY <1>14 DEF vars
  <1> QED BY <1>1, <1>2, <1>3, <1>4, <1>5, <1>6, <1>7, <1>8, <1>9, <1>10, <1>11, <1>12,
             <1>13, <1>14 DEF Next, Receiving, Parsing, Handling

(* Every step keeps the dispatched requests in the order of the stream. *)
LEMMA NextOrder == IInv /\ [Next]_vars => (ServedBehind /\ ServedInOrder)'
  <1> SUFFICES ASSUME IInv, [Next]_vars PROVE (ServedBehind /\ ServedInOrder)'
    OBVIOUS
  <1>0. served \in Seq(Nat) /\ base \in Nat /\ ServedBehind /\ ServedInOrder
    BY DEF IInv, TypeOK
  <1> USE <1>0 DEF ServedBehind, ServedInOrder, Reading, framing, request, ghosts
  <1>1. CASE Dispatch
    <2>1. pc = "message" /\ pc' = "handle" /\ base' = base /\ served' = Append(served, base)
      BY <1>1 DEF Dispatch
    <2> QED BY <2>1
  <1>2. CASE Finish
    <2>1. CASE keep_alive
      <3>1. base' \in Nat /\ base' > base
        BY <1>2, <2>1, FinishFacts DEF IInv
      <3>2. served' = served
        BY <1>2 DEF Finish
      <3> QED BY <3>1, <3>2
    <2>2. CASE ~ keep_alive
      BY <1>2, <2>2 DEF Finish
    <2> QED BY <2>1, <2>2
  <1>3. CASE Stop \/ Receiving
    BY <1>3 DEF Stop, Receiving, Scan, Recv, RecvFails
  <1>4. CASE NoMessage \/ Refuse
    <2>1. /\ UNCHANGED <<served, base>>
          /\ pc' \notin Reading
      BY <1>4 DEF NoMessage, Refuse, SendError
    <2> QED BY <2>1
  <1>5. CASE Handling
    <2>1. UNCHANGED <<served, base>> /\ pc' \notin Reading
      BY <1>5 DEF Handling, HandlerRead, BodyRecv, BodyEnds, ChunksEnd, HandlerReturns
    <2> QED BY <2>1
  <1>6. CASE UNCHANGED vars
    BY <1>6 DEF vars
  <1> QED BY <1>1, <1>2, <1>3, <1>4, <1>5, <1>6 DEF Next, Parsing

(* Every step keeps the invariant. *)
LEMMA NextIInv == IInv /\ [Next]_vars => IInv'
  BY NextTypeOK, NextShape, NextOrder DEF IInv

-----------------------------------------------------------------------------
(* Every reachable state of a connection satisfies the invariant. *)
THEOREM Invariant == Spec => []IInv
  BY InitIInv, NextIInv, PTL DEF Spec

(* The types of the connection's fields, for every stream and size. *)
THEOREM TypeCorrect == Spec => []TypeOK
  <1>1. IInv => TypeOK
    BY DEF IInv
  <1> QED BY <1>1, Invariant, PTL

(* The memmove of the keep-alive loop never leaves a hole in the buffer. *)
THEOREM BufferStaysContiguous == Spec => []BufferContiguous
  <1>1. IInv => BufferContiguous
    BY DEF IInv
  <1> QED BY <1>1, Invariant, PTL

(* A handler's reads never take socket bytes behind the declared body. *)
THEOREM ReadsStayInBody == Spec => []BodyWithinMessage
  <1>1. IInv => BodyWithinMessage
    BY DEF IInv
  <1> QED BY <1>1, Invariant, PTL

(* No request is dispatched twice, nor out of the order of the stream. *)
THEOREM RequestsInOrder == Spec => []ServedInOrder
  <1>1. IInv => ServedInOrder
    BY DEF IInv
  <1> QED BY <1>1, Invariant, PTL

-----------------------------------------------------------------------------
(* The first body.  Its handler has been given the first "consumed" bytes  *)
(* behind the head; once those reach behind the buffer, the socket has     *)
(* been read exactly that far.                                             *)
ReadSoFar ==
  \/ consumed <= data_len - request_len /\ taken = base + data_len
  \/ consumed >= data_len - request_len /\ taken = base + request_len + consumed

FirstBody ==
  handled = 0 =>
    /\ pc \in Reading => consumed = 0 /\ body = {}
    /\ pc \in Serving => /\ body = (base + request_len + 1)..(base + request_len + consumed)
                         /\ ReadSoFar
    /\ pc = "body" => taken = base + request_len + consumed

(* Two adjoining runs of stream positions make one. *)
LEMMA Adjoin ==
  ASSUME NEW a \in Int, NEW m \in Int, NEW b \in Int, a <= m + 1, m <= b
  PROVE  ((a)..(m)) \cup ((m + 1)..(b)) = (a)..(b)
  OBVIOUS

(* Every step keeps the first body in order. *)
LEMMA NextFirstBody == IInv /\ FirstBody /\ [Next]_vars => FirstBody'
  <1> SUFFICES ASSUME IInv, FirstBody, [Next]_vars, handled' = 0 PROVE FirstBody'
    BY DEF FirstBody
  <1>0. Numbers /\ handled \in Nat
    BY ConstantsOK DEF IInv, TypeOK, Numbers, ConstantsOK
  <1>a. BufferContiguous /\ HeadBuffered
    BY DEF IInv
  <1> USE <1>0 DEF Numbers, Reading, Serving, framing, request, ghosts
  <1>1. CASE Stop
    BY <1>1 DEF Stop, FirstBody, ReadSoFar
  <1>2. CASE Receiving
    <2>1. UNCHANGED <<handled, consumed, body>>
      BY <1>2 DEF Receiving, Scan, Recv, RecvFails
    <2>2. pc \in Reading /\ pc' \in Reading
      BY <1>2 DEF Receiving, Scan, Recv, RecvFails
    <2> QED BY <2>1, <2>2 DEF FirstBody
  <1>3. CASE NoMessage \/ Refuse
    <2>1. /\ pc = "message" /\ pc' \in {"finish", "crashed"}
          /\ UNCHANGED <<handled, consumed, body, base, data_len, request_len, taken>>
      BY <1>3 DEF NoMessage, Refuse, SendError
    <2>2. consumed = 0 /\ body = {} /\ base + data_len = taken /\ request_len <= data_len
      BY <2>1, <1>a DEF FirstBody, BufferContiguous, HeadBuffered
    <2>3. body = (base + request_len + 1)..(base + request_len + consumed)
      BY <2>2
    <2> QED BY <2>1, <2>2, <2>3 DEF FirstBody, ReadSoFar
  <1>4. CASE Dispatch
    <2>1. /\ pc = "message" /\ pc' = "handle" /\ body' = {}
          /\ UNCHANGED <<handled, consumed, base, data_len, request_len, taken>>
      BY <1>4 DEF Dispatch
    <2>2. consumed = 0 /\ base + data_len = taken /\ request_len <= data_len
      BY <2>1, <1>a DEF FirstBody, BufferContiguous, HeadBuffered
    <2>3. body' = (base + request_len + 1)..(base + request_len + consumed)
      BY <2>1, <2>2
    <2> QED BY <2>1, <2>2, <2>3 DEF FirstBody, ReadSoFar
  <1>5. CASE HandlerRead
    <2>1. PICK n \in 1..MaxRead : ReadStep(n)
      BY <1>5, HandlerReadStep
    <2>2. n \in Nat /\ ReadFacts(n)
      BY <1>5, <2>1, ReadStepFacts, ConstantsOK DEF ConstantsOK, IInv, HandlerRead
    <2>3. pc = "handle" /\ UNCHANGED <<handled, taken, base, data_len, request_len>>
      BY <1>5 DEF HandlerRead
    <2>4. body = (base + request_len + 1)..(base + request_len + consumed) /\ ReadSoFar
      BY <2>3 DEF FirstBody
    <2>5. body' = (base + request_len + 1)..(base + request_len + consumed')
      <3>1. consumed' = consumed + ReadBuffered(n) /\ ReadBuffered(n) \in Nat
        BY <2>1, <2>2 DEF ReadStep, ReadFacts
      <3>2. body' = body \cup ((base + request_len + consumed + 1)
                               ..(base + request_len + consumed + ReadBuffered(n)))
        BY <2>1 DEF ReadStep
      <3>3. base + request_len + consumed + ReadBuffered(n) = base + request_len + consumed'
        BY <3>1
      <3> QED BY <2>4, <3>1, <3>2, <3>3, Adjoin
    <2>6. /\ ReadBuffered(n) > 0 => consumed + ReadBuffered(n) <= data_len - request_len
          /\ ReadBuffered(n) \in Nat
      BY <2>2 DEF ReadBuffered, ReadFacts, Max2, Min2
    <2>7. /\ consumed' = consumed + ReadBuffered(n)
          /\ pc' = "body" => data_len <= request_len + consumed'
          /\ pc' \in {"handle", "body"}
      BY <2>1, <2>2 DEF ReadStep, ReadFacts
    <2>8. ReadSoFar' /\ (pc' = "body" => taken' = base' + request_len' + consumed')
      <3>1. consumed' \in Nat /\ consumed' >= consumed
        BY <2>6, <2>7
      <3>2. CASE ReadBuffered(n) = 0
        <4>1. consumed' = consumed
          BY <2>6, <2>7, <3>2
        <4> QED BY <2>3, <2>4, <2>7, <4>1 DEF ReadSoFar
      <3>3. CASE ReadBuffered(n) > 0
        <4>1. consumed' <= data_len - request_len /\ consumed' > consumed
          BY <2>6, <2>7, <3>3
        <4>2. taken = base + data_len
          BY <2>4, <3>1, <4>1 DEF ReadSoFar
        <4> QED BY <2>3, <2>7, <3>1, <4>1, <4>2 DEF ReadSoFar
      <3> QED BY <2>6, <3>2, <3>3
    <2> QED BY <2>3, <2>5, <2>7, <2>8 DEF FirstBody
  <1>6. CASE BodyRecv
    <2>1. PICK n \in 1..Min2(want, StreamLen(msgs) - taken) :
            /\ taken' = taken + n
            /\ consumed' = consumed + n
            /\ body' = body \cup ((taken + 1)..(taken + n))
      BY <1>6 DEF BodyRecv
    <2>2. /\ pc = "body" /\ pc' \in {"handle", "body"}
          /\ UNCHANGED <<handled, base, data_len, request_len>>
      BY <1>6 DEF BodyRecv
    <2>3. n \in Nat
      BY <2>1, StreamLenTyped DEF Min2, IInv
    <2>4. /\ body = (base + request_len + 1)..(base + request_len + consumed)
          /\ ReadSoFar
          /\ taken = base + request_len + consumed
      BY <2>2 DEF FirstBody
    <2>5. request_len > 0
      BY <2>2, <1>a DEF HeadBuffered
    <2>6. body' = (base + request_len + 1)..(taken + n)
      BY <2>1, <2>3, <2>4, <2>5, Adjoin
    <2>7. ReadSoFar' /\ taken' = base' + request_len' + consumed'
      BY <2>1, <2>2, <2>3, <2>4 DEF ReadSoFar
    <2> QED BY <2>1, <2>2, <2>3, <2>4, <2>6, <2>7 DEF FirstBody
  <1>7. CASE BodyEnds \/ ChunksEnd \/ HandlerReturns
    <2>1. /\ pc \in {"body", "handle"} /\ pc' \in {"handle", "finish"}
          /\ UNCHANGED <<handled, consumed, body, base, data_len, request_len, taken>>
      BY <1>7 DEF BodyEnds, ChunksEnd, HandlerReturns
    <2> QED BY <2>1 DEF FirstBody, ReadSoFar
  <1>8. CASE Finish
    BY <1>8 DEF Finish
  <1>9. CASE UNCHANGED vars
    BY <1>9 DEF vars, FirstBody, ReadSoFar
  <1> QED BY <1>1, <1>2, <1>3, <1>4, <1>5, <1>6, <1>7, <1>8, <1>9
          DEF Next, Parsing, Handling

(* The first request's handler is given the bytes that follow its head,    *)
(* none twice and none left out, however reads of the buffer and of the    *)
(* socket interleave.                                                      *)
THEOREM FirstBodyIsExact == Spec => []FirstBodyExact
  <1>1. Init => FirstBody
    BY DEF Init, FirstBody, Reading, Serving
  <1>2. IInv /\ FirstBody => FirstBodyExact
    <2> SUFFICES ASSUME IInv, FirstBody, handled = 0, pc \in {"handle", "body", "finish"}
                 PROVE  BodyExact
      BY DEF FirstBodyExact
    <2>1. Numbers
      BY ConstantsOK DEF IInv, TypeOK, Numbers, ConstantsOK
    <2>2. body = (base + request_len + 1)..(base + request_len + consumed)
      BY DEF FirstBody, Serving
    <2>3. Cardinality(body) = consumed
      BY <2>1, <2>2, FS_Interval DEF Numbers
    <2> QED BY <2>2, <2>3 DEF BodyExact
  <1> QED BY <1>1, <1>2, Invariant, NextFirstBody, PTL DEF Spec

-----------------------------------------------------------------------------
(* must_close is only set on the way out of the loop. *)
ClosingLeaves == must_close => pc \in {"finish", "done", "crashed"}

(* Every step keeps a closing connection on its way out. *)
LEMMA NextClosingLeaves ==
  ClosingLeaves /\ [Next]_vars => ClosingLeaves' /\ (must_close => served' = served)
  <1> SUFFICES ASSUME ClosingLeaves, [Next]_vars
               PROVE  ClosingLeaves' /\ (must_close => served' = served)
    OBVIOUS
  <1> USE DEF ClosingLeaves, framing, request, ghosts
  <1>1. CASE Stop \/ Receiving
    BY <1>1 DEF Stop, Receiving, Scan, Recv, RecvFails
  <1>2. CASE NoMessage \/ Refuse
    BY <1>2 DEF NoMessage, Refuse, SendError
  <1>3. CASE Dispatch
    BY <1>3 DEF Dispatch
  <1>4. CASE HandlerRead \/ BodyRecv \/ BodyEnds \/ ChunksEnd
    BY <1>4 DEF HandlerRead, BodyRecv, BodyEnds, ChunksEnd
  <1>5. CASE HandlerReturns
    BY <1>5 DEF HandlerReturns
  <1>6. CASE Finish
    BY <1>6 DEF Finish, keep_alive, should_keep_alive
  <1>7. CASE UNCHANGED vars
    BY <1>7 DEF vars
  <1> QED BY <1>1, <1>2, <1>3, <1>4, <1>5, <1>6, <1>7 DEF Next, Parsing, Handling

(* A request is never dispatched on a connection that an error page has    *)
(* marked to be closed.                                                    *)
THEOREM SilentAfterMustClose == Spec => NothingAfterMustClose
  <1>1. Init => ClosingLeaves
    BY DEF Init, ClosingLeaves
  <1>2. ClosingLeaves /\ [Next]_vars => [must_close => served' = served]_vars
    BY NextClosingLeaves
  <1> QED BY <1>1, <1>2, NextClosingLeaves, PTL DEF Spec, NothingAfterMustClose

-----------------------------------------------------------------------------
(* Turns.                                                                  *)

(* Every turn of the loop that is over discarded at least one byte. *)
TurnsBounded ==
  /\ handled <= base + (IF pc \in {"done", "crashed"} THEN 1 ELSE 0)
  /\ taken <= StreamLen(msgs)

LEMMA RoomTaken ==
  ASSUME NEW a \in Nat, NEW l \in Nat, NEW t \in Nat, NEW n \in 1..Min2(a, l - t)
  PROVE  t + n <= l
  BY DEF Min2

LEMMA NextTurnsBounded == IInv /\ TurnsBounded /\ [Next]_vars => TurnsBounded'
  <1> SUFFICES ASSUME IInv, TurnsBounded, [Next]_vars PROVE TurnsBounded'
    OBVIOUS
  <1>1. /\ StreamLen(msgs) \in Nat /\ taken \in Nat /\ base \in Nat /\ handled \in Nat
        /\ BufSize \in Nat /\ data_len \in 0..BufSize /\ want \in Nat
    BY StreamLenTyped, ConstantsOK DEF IInv, TypeOK, ConstantsOK
  <1> USE DEF TurnsBounded, framing, request, ghosts
  <1>2. CASE Recv
    <2>1. PICK n \in 1..Min2(BufSize - data_len, StreamLen(msgs) - taken) : taken' = taken + n
      BY <1>2 DEF Recv
    <2>2. taken' <= StreamLen(msgs)
      BY <1>1, <2>1, RoomTaken
    <2>3. UNCHANGED <<msgs, base, handled>> /\ pc \notin {"done", "crashed"}
      BY <1>2 DEF Recv
    <2>4. StreamLen(msgs)' = StreamLen(msgs)
      BY <2>3 DEF StreamLen
    <2> QED BY <1>1, <2>2, <2>3, <2>4
  <1>3. CASE BodyRecv
    <2>1. PICK n \in 1..Min2(want, StreamLen(msgs) - taken) : taken' = taken + n
      BY <1>3 DEF BodyRecv
    <2>2. taken' <= StreamLen(msgs)
      BY <1>1, <2>1, RoomTaken
    <2>3. UNCHANGED <<msgs, base, handled>> /\ pc \notin {"done", "crashed"}
      BY <1>3 DEF BodyRecv
    <2>4. StreamLen(msgs)' = StreamLen(msgs)
      BY <2>3 DEF StreamLen
    <2> QED BY <1>1, <2>2, <2>3, <2>4
  <1>4. CASE Finish
    <2>1. UNCHANGED <<msgs, taken>> /\ handled' = handled + 1 /\ pc = "finish"
      BY <1>4 DEF Finish
    <2>4. handled <= base /\ taken' <= StreamLen(msgs)'
      BY <1>1, <2>1 DEF StreamLen
    <2>2. CASE keep_alive
      <3>1. base' \in Nat /\ base' > base /\ pc' = "scan"
        BY <1>4, <2>2, FinishFacts
      <3>2. handled' <= base'
        BY <1>1, <2>1, <2>4, <3>1
      <3> QED BY <1>1, <2>4, <3>1, <3>2
    <2>3. CASE ~ keep_alive
      <3>1. base' = base /\ pc' = "done"
        BY <1>4, <2>3 DEF Finish
      <3> QED BY <1>1, <2>1, <2>4, <3>1
    <2> QED BY <2>2, <2>3
  <1>5. CASE NoMessage \/ Refuse
    BY <1>1, <1>5 DEF NoMessage, Refuse, SendError, StreamLen
  <1>6. CASE Stop \/ Scan \/ RecvFails \/ Dispatch
    BY <1>1, <1>6 DEF Stop, Scan, RecvFails, Dispatch, StreamLen
  <1>7. CASE HandlerRead \/ BodyEnds \/ ChunksEnd \/ HandlerReturns
    BY <1>1, <1>7 DEF HandlerRead, BodyEnds, ChunksEnd, HandlerReturns, StreamLen
  <1>8. CASE UNCHANGED vars
    BY <1>8 DEF vars, StreamLen
  <1> QED BY <1>2, <1>3, <1>4, <1>5, <1>6, <1>7, <1>8 DEF Next, Receiving, Parsing, Handling

(* The loop turns no more often than the client sent bytes, and once more: *)
(* no stream, however framed, makes http_process_connection go round with  *)
(* nothing discarded.  With a handler that returns this is what Terminates *)
(* rests on.                                                               *)
THEOREM LoopTurnsAreBounded == Spec => [](handled <= StreamLen(msgs) + 1)
  <1>1. Init => TurnsBounded
    <2> SUFFICES ASSUME Init PROVE TurnsBounded
      OBVIOUS
    <2>1. StreamLen(msgs) \in Nat
      BY InitIInv, StreamLenTyped DEF IInv
    <2> QED BY <2>1 DEF Init, TurnsBounded
  <1>2. IInv /\ TurnsBounded => handled <= StreamLen(msgs) + 1
    <2> SUFFICES ASSUME IInv, TurnsBounded PROVE handled <= StreamLen(msgs) + 1
      OBVIOUS
    <2>1. /\ StreamLen(msgs) \in Nat /\ taken \in Nat /\ base \in Nat /\ handled \in Nat
          /\ data_len \in Nat /\ base + data_len <= taken
      BY StreamLenTyped, ConstantsOK DEF IInv, TypeOK, ConstantsOK, SocketCounted
    <2>2. handled <= base + 1 /\ taken <= StreamLen(msgs)
      BY <2>1 DEF TurnsBounded
    <2> QED BY <2>1, <2>2
  <1> QED BY <1>1, <1>2, Invariant, NextTurnsBounded, PTL DEF Spec

-----------------------------------------------------------------------------
(* Refusals.                                                               *)

(* How a refused message can be left without a whole response: the header  *)
(* table is there from the first parse on, and req.state can only be stale *)
(* behind a request that was handled.                                      *)
RefusalInv ==
  /\ pc \in Reading /\ state # 0 => served # <<>>
  /\ served # <<>> => headers.made
  /\ pc \in {"handle", "body"} => err = 0 /\ served # <<>>
  /\ pc = "finish" /\ ~ must_close => served # <<>>
  /\ pc \in {"finish", "done"} /\ err > 0 => answer \in {"full", "headless"}
  /\ answer = "crash" => pc = "crashed" /\ served = <<>> /\ ~ headers.made
  /\ answer = "headless" => served # <<>>

LEMMA NextRefusalInv == TypeOK /\ ClosingLeaves /\ RefusalInv /\ [Next]_vars => RefusalInv'
  <1> SUFFICES ASSUME TypeOK, ClosingLeaves, RefusalInv, [Next]_vars PROVE RefusalInv'
    OBVIOUS
  <1>0. state \in {0, 2, 10} /\ served \in Seq(Nat) /\ err \in {0, 400, 413}
    BY DEF TypeOK
  <1> USE <1>0 DEF RefusalInv, Reading, framing, request, ghosts
  <1>1. CASE Stop \/ Receiving
    BY <1>1 DEF Stop, Receiving, Scan, Recv, RecvFails
  <1>2. CASE NoMessage
    BY <1>2 DEF NoMessage, SendError
  <1>3. CASE Refuse
    <2>1. [headers EXCEPT !.made = TRUE].made /\ \A i : Overlay(msgs[i]).made
      BY DEF Overlay, TypeOK
    <2>2. headers'.made
      <3>1. headers' = [headers EXCEPT !.made = TRUE] \/ \E i : headers' = Overlay(msgs[i])
        BY <1>3 DEF Refuse
      <3>2. CASE headers' = [headers EXCEPT !.made = TRUE] BY <2>1, <3>2
      <3>3. CASE \E i : headers' = Overlay(msgs[i])
        <4>1. PICK i : headers' = Overlay(msgs[i]) BY <3>3
        <4>2. Overlay(msgs[i]).made BY <2>1
        <4> QED BY <4>1, <4>2
      <3> QED BY <3>1, <3>2, <3>3
    <2>3. pc = "message" /\ pc' = "finish" /\ must_close' /\ UNCHANGED served
      BY <1>3 DEF Refuse, SendError
    <2>4. \/ answer' = answer /\ err' = 0
          \/ answer' = "full"
          \/ answer' = "headless" /\ state # 0
      BY <1>3 DEF Refuse, SendError
    <2> QED BY <2>2, <2>3, <2>4
  <1>4. CASE Dispatch
    <2>1. served' = Append(served, base) /\ served' # <<>>
      BY <1>4 DEF Dispatch
    <2>2. headers'.made
      BY <1>4 DEF Dispatch, Overlay
    <2>3. UNCHANGED answer /\ pc = "message" /\ pc' = "handle" /\ err' = 0 /\ state' = 0
      BY <1>4 DEF Dispatch
    <2> QED BY <2>1, <2>2, <2>3
  <1>5. CASE HandlerRead \/ BodyRecv \/ BodyEnds \/ ChunksEnd \/ HandlerReturns
    <2>1. UNCHANGED <<headers, err, answer, served>> /\ pc \in {"handle", "body"}
      BY <1>5 DEF HandlerRead, BodyRecv, BodyEnds, ChunksEnd, HandlerReturns
    <2>2. pc' \in {"handle", "body", "finish"}
      BY <1>5 DEF HandlerRead, BodyRecv, BodyEnds, ChunksEnd, HandlerReturns
    <2> QED BY <2>1, <2>2
  <1>6. CASE Finish
    BY <1>6 DEF Finish, keep_alive, should_keep_alive
  <1>7. CASE UNCHANGED vars
    BY <1>7 DEF vars
  <1> QED BY <1>1, <1>2, <1>3, <1>4, <1>5, <1>6, <1>7 DEF Next, Parsing, Handling

(* A refused message goes without a whole response in two cases only: the  *)
(* connection's first, refused before parse_http made the header table,    *)
(* ends the coroutine; one behind a handled request may lack its status    *)
(* line, because req.state is reset for requests, not for messages.  The   *)
(* first message, once its head could be parsed, is always answered.       *)
THEOREM RefusalsFailTwoWays ==
  Spec => [](/\ answer = "crash" => served = <<>> /\ ~ headers.made
             /\ answer = "headless" => served # <<>>
             /\ pc \in {"finish", "done"} /\ err > 0 /\ served = <<>> => answer = "full")
  <1>1. Init => RefusalInv
    BY DEF Init, RefusalInv, Reading
  <1>2. Init => ClosingLeaves
    BY DEF Init, ClosingLeaves
  <1>3. IInv => TypeOK
    BY DEF IInv
  <1>4. RefusalInv => /\ answer = "crash" => served = <<>> /\ ~ headers.made
                      /\ answer = "headless" => served # <<>>
                      /\ pc \in {"finish", "done"} /\ err > 0 /\ served = <<>>
                           => answer = "full"
    BY DEF RefusalInv
  <1> QED BY <1>1, <1>2, <1>3, <1>4, Invariant, NextClosingLeaves, NextRefusalInv, PTL DEF Spec
=============================================================================
