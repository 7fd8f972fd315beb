--------------------------- MODULE PipelineProofs ---------------------------
(***************************************************************************)
(* Theorems about Connection on streams that state their framing: every    *)
(* dispatched request begins where a message does, the n-th where the n-th *)
(* does, and the loop implements RequestPipeline.  For any such stream,    *)
(* buffer and read size, any handler, and a stop at any moment.            *)
(***************************************************************************)
EXTENDS ConnectionProofs, WellFoundedInduction

(* Where the k-th message of a stream ends. *)
After(m, k) == IF k = 0 THEN 0 ELSE m[k].end

(* The first head in the buffer is the one read_message found. *)
FirstHead ==
  pc = "message" /\ request_len > 0 =>
    /\ HeadEndsAt(base + request_len)
    /\ \A j \in 1..(request_len - 1) : ~ HeadEndsAt(base + j)

(* A request is being handled, and its connection may go on. *)
Active == pc \in {"handle", "body"} \/ (pc = "finish" /\ ~ must_close)

(* The messages dispatched so far are the first of the stream, in order. *)
ServedFirst ==
  /\ Len(served) <= Len(msgs)
  /\ \A i \in 1..Len(served) : served[i] = msgs[i].start /\ msgs[i].fault = "none"

(* Between two requests the buffer begins behind the last one. *)
AtNextMessage ==
  pc \in Reading => /\ base = After(msgs, Len(served))
                    /\ \A i \in 1..Len(served) : msgs[i].conn # "close"

(* During a request it begins with its head, the length is the one that    *)
(* the message declares, and its Connection header is the one stored.      *)
InMessage ==
  Active => LET k == Len(served)
            IN /\ k > 0
               /\ base = msgs[k].start /\ base + request_len = msgs[k].head
               /\ content_len = Max2(0, msgs[k].cl)
               /\ msgs[k].cl > 0 => base + request_len + consumed <= taken
               /\ msgs[k].conn # "none" => headers.conn = msgs[k].conn
               /\ \A i \in 1..k - 1 : msgs[i].conn # "close"

(* The stored headers state the framing of a message handled; nothing was  *)
(* read of a body before the first message that has one.                   *)
HeadersOfServed ==
  Active \/ pc \in Reading =>
    /\ is_chunked = 0 /\ headers.te = "none"
    /\ headers.cl = Absent \/ \E j \in 1..Len(served) : headers.cl = msgs[j].cl
    /\ (\A j \in 1..Len(served) : msgs[j].cl <= 0) => consumed = 0

SyncInv ==
  /\ FirstHead
  /\ Framed(msgs) => ServedFirst /\ AtNextMessage /\ InMessage /\ HeadersOfServed

-----------------------------------------------------------------------------
(* Streams.                                                                *)

(* A set of naturals that is not empty has a least element. *)
LEMMA LeastNat ==
  ASSUME NEW s \in SUBSET Nat, s # {}
  PROVE  \E i \in s : \A j \in s : i <= j
<1>1. IsWellFoundedOn({r \in Nat \X Nat : r[1] < r[2]}, Nat)
  BY NatLessThanWellFounded DEF OpToRel
<1>2. PICK i \in s : \A j \in s : ~ (<<j, i>> \in {r \in Nat \X Nat : r[1] < r[2]})
  BY <1>1, WFMin
<1>3. \A j \in s : ~ (j < i) BY <1>2
<1> QED BY <1>3

LEMMA StreamFacts ==
  ASSUME NEW m \in Workloads
  PROVE  /\ Len(m) \in Nat
         /\ \A i \in 1..Len(m) :
              /\ m[i].start \in Nat /\ m[i].head \in Nat /\ m[i].end \in Nat
              /\ m[i].cl \in Nat \cup {-1} /\ m[i].conn \in {"none", "keep-alive", "close"}
              /\ m[i].start < m[i].head /\ m[i].head <= m[i].end
              /\ m[i].start = IF i = 1 THEN 0 ELSE m[i - 1].end
<1>1. m \in Seq(Message) BY ConstantsOK DEF ConstantsOK
<1>2. \A i \in 1..Len(m) : m[i] \in Message BY <1>1
<1> QED BY <1>1, <1>2, StreamsInOrder DEF StreamsInOrder, Message, Absent

(* A message ends before any later one begins. *)
LEMMA InOrder ==
  ASSUME NEW m \in Workloads, NEW i \in 1..Len(m), NEW j \in 1..Len(m), i < j
  PROVE  m[i].end <= m[j].start
<1> DEFINE Bad == {d \in 1..Len(m) : i < d /\ ~ (m[i].end <= m[d].start)}
<1> SUFFICES ASSUME Bad # {} PROVE FALSE OBVIOUS
<1>1. Len(m) \in Nat BY StreamFacts
<1>2. Bad \in SUBSET Nat OBVIOUS
<1>3. PICK d \in Bad : \A e \in Bad : d <= e
  <2> HIDE DEF Bad
  <2> QED BY <1>2, LeastNat
<1>4. d \in 1..Len(m) /\ i < d /\ ~ (m[i].end <= m[d].start) OBVIOUS
<1>5. d - 1 \notin Bad
  <2> HIDE DEF Bad
  <2>1. d \in Nat /\ ~ (d <= d - 1) BY <1>2, <1>3
  <2> QED BY <1>3, <2>1
<1>6. m[d].start = m[d - 1].end /\ m[i].end \in Nat /\ m[d - 1].end \in Nat
      /\ d - 1 \in 1..Len(m)
  BY <1>1, <1>4, StreamFacts
<1>7. CASE d - 1 = i BY <1>4, <1>6, <1>7
<1>8. CASE d - 1 # i
  <2>1. i < d - 1 BY <1>4, <1>8
  <2>2. m[i].end <= m[d - 1].start BY <1>5, <1>6, <2>1
  <2>3. /\ m[d - 1].start < m[d - 1].head /\ m[d - 1].head <= m[d - 1].end
        /\ m[d - 1].start \in Nat /\ m[d - 1].head \in Nat /\ m[d].start \in Nat
    BY <1>4, <1>6, StreamFacts
  <2> QED BY <1>4, <1>6, <2>2, <2>3
<1> QED BY <1>7, <1>8

LEMMA Between ==
  ASSUME NEW a \in Nat, NEW h \in Nat, NEW l \in Nat, h > a, h < a + l
  PROVE  \E g \in 1..(l - 1) : h = a + g
<1>1. h - a \in 1..(l - 1) /\ h = a + (h - a) OBVIOUS
<1> QED BY <1>1

(* The first head behind the k-th message is that of the next one. *)
LEMMA HeadOfNext ==
  ASSUME NEW m \in Workloads, NEW k \in 0..Len(m), NEW len \in Nat, len > 0,
         NEW j \in 1..Len(m), m[j].head = After(m, k) + len,
         \A n \in 1..(len - 1) : \A i \in 1..Len(m) : m[i].head # After(m, k) + n
  PROVE  j = k + 1 /\ m[j].start = After(m, k)
<1>1. Len(m) \in Nat /\ After(m, k) \in Nat BY StreamFacts DEF After
<1>2. j > k
  <2> SUFFICES ASSUME j <= k PROVE FALSE BY <1>1
  <2>1. k \in 1..Len(m) /\ After(m, k) = m[k].end BY <1>1 DEF After
  <2>2. m[j].end <= m[k].end
    <3>1. CASE j = k BY <2>1, <3>1, StreamFacts
    <3>2. CASE j < k
      <4>1. m[j].end <= m[k].start BY <2>1, <3>2, InOrder
      <4>2. /\ m[k].start < m[k].head /\ m[k].head <= m[k].end
            /\ m[k].start \in Nat /\ m[k].head \in Nat /\ m[k].end \in Nat
        BY <2>1, StreamFacts
      <4>3. m[j].end \in Nat BY StreamFacts
      <4> QED BY <4>1, <4>2, <4>3
    <3> QED BY <1>1, <3>1, <3>2
  <2>3. m[j].head <= m[j].end /\ m[j].head \in Nat /\ m[j].end \in Nat BY StreamFacts
  <2>4. m[k].end \in Nat BY <2>1, StreamFacts
  <2> QED BY <2>1, <2>2, <2>3, <2>4
<1>3. k + 1 \in 1..Len(m) /\ m[k + 1].start = After(m, k)
  <2>1. k + 1 \in 1..Len(m) BY <1>1, <1>2
  <2>2. k + 1 = 1 <=> k = 0 BY <1>1
  <2>3. k + 1 - 1 = k BY <1>1
  <2> QED BY <2>1, <2>2, <2>3, StreamFacts DEF After
<1>4. j = k + 1
  <2> SUFFICES ASSUME j # k + 1 PROVE FALSE OBVIOUS
  <2>1. m[k + 1].end <= m[j].start BY <1>1, <1>2, <1>3, InOrder
  <2>2. \E g \in 1..(len - 1) : m[k + 1].head = After(m, k) + g
    <3>1. /\ m[k + 1].start < m[k + 1].head /\ m[k + 1].head <= m[k + 1].end
          /\ m[k + 1].head \in Nat /\ m[k + 1].end \in Nat
      BY <1>3, StreamFacts
    <3>2. m[j].start < m[j].head /\ m[j].start \in Nat /\ m[j].head \in Nat BY StreamFacts
    <3>3. m[k + 1].head > After(m, k) /\ m[k + 1].head < After(m, k) + len
      BY <1>1, <1>3, <2>1, <3>1, <3>2
    <3> QED BY <1>1, <3>1, <3>3, Between
  <2> QED BY <1>3, <2>2
<1> QED BY <1>3, <1>4

-----------------------------------------------------------------------------
(* The parts of the invariant that hold of a framed stream. *)
Framing == ServedFirst /\ AtNextMessage /\ InMessage /\ HeadersOfServed

(* What Framed says of one message. *)
LEMMA FramedFacts ==
  ASSUME TypeOK, Framed(msgs)
  PROVE  /\ msgs \in Workloads /\ Len(msgs) \in Nat
         /\ \A i \in 1..Len(msgs) :
              /\ msgs[i].te = "none"
              /\ msgs[i].end = msgs[i].head + Max2(0, msgs[i].cl)
              /\ msgs[i].method = "POST" => msgs[i].cl >= 0
              /\ \A j \in 1..(i - 1) : msgs[j].cl > 0 => msgs[i].cl = 0
BY StreamFacts DEF TypeOK, Framed

(* read_message stops at the first head. *)
LEMMA FirstHeadStep == ASSUME TypeOK, FirstHead, [Next]_vars PROVE FirstHead'
<1> USE DEF FirstHead, HeadEndsAt, framing, request, ghosts
<1>1. CASE Scan
  <2> SUFFICES ASSUME pc' = "message", request_len' > 0
               PROVE  (/\ HeadEndsAt(base + request_len)
                       /\ \A j \in 1..(request_len - 1) : ~ HeadEndsAt(base + j))'
    OBVIOUS
  <2>1. PICK len \in -1..data_len :
          /\ HeaderLen(base, data_len, len)
          /\ request_len' = len \/ request_len' \in {-1, -2}
    BY <1>1 DEF Scan
  <2>2. request_len' = len /\ len > 0 /\ len \in Nat BY <2>1 DEF TypeOK
  <2>3. /\ HeadEndsAt(base + len)
        /\ \A j \in 1..(len - 1) : ~ HeadEndsAt(base + j)
    BY <2>1, <2>2 DEF HeaderLen
  <2>4. base' = base /\ msgs' = msgs BY <1>1 DEF Scan
  <2> QED BY <2>2, <2>3, <2>4
<1>2. CASE Stop BY <1>2 DEF Stop
<1>3. CASE Recv BY <1>3 DEF Recv
<1>4. CASE RecvFails BY <1>4 DEF RecvFails
<1>5. CASE Parsing BY <1>5 DEF Parsing, NoMessage, Refuse, Dispatch, SendError
<1>6. CASE Handling
  BY <1>6 DEF Handling, HandlerRead, BodyRecv, BodyEnds, ChunksEnd, HandlerReturns
<1>7. CASE Finish BY <1>7 DEF Finish
<1>8. CASE UNCHANGED vars BY <1>8 DEF vars
<1> QED BY <1>1, <1>2, <1>3, <1>4, <1>5, <1>6, <1>7, <1>8 DEF Next, Receiving

(* The head that is parsed is that of the next message. *)
LEMMA ParsedIsNext ==
  ASSUME TypeOK, FirstHead, Framed(msgs), Framing, pc = "message", request_len > 0,
         NEW i \in 1..Len(msgs), NEW fault, NEW meth, Parsed(msgs[i], fault, meth)
  PROVE  /\ i = Len(served) + 1 /\ msgs[i].start = base /\ base + request_len = msgs[i].head
         /\ fault = msgs[i].fault /\ meth = msgs[i].method
<1> DEFINE k == Len(served)
<1>1. msgs \in Workloads /\ Len(msgs) \in Nat BY FramedFacts
<1>2. k \in 0..Len(msgs) /\ base = After(msgs, k)
  <2>1. served \in Seq(Nat) BY DEF TypeOK
  <2>2. k \in Nat BY <2>1
  <2> QED BY <1>1, <2>2 DEF Framing, ServedFirst, AtNextMessage, Reading
<1>3. request_len \in Nat /\ msgs[i].head = base + request_len BY DEF TypeOK, Parsed
<1>4. \A n \in 1..(request_len - 1) : \A j \in 1..Len(msgs) : msgs[j].head # After(msgs, k) + n
  BY <1>2 DEF FirstHead, HeadEndsAt
<1> HIDE DEF k
<1>5. i = k + 1 /\ msgs[i].start = After(msgs, k) BY <1>1, <1>2, <1>3, <1>4, HeadOfNext
<1> QED BY <1>2, <1>3, <1>5 DEF Parsed, k

(* A step that dispatches nothing and leaves the buffer where it is. *)
LEMMA QuietStep ==
  ASSUME TypeOK, TypeOK', Framing,
         UNCHANGED <<msgs, served, base, headers, is_chunked, consumed>>,
         \/ pc' \in {"done", "crashed"} \/ (pc' = "finish" /\ must_close')
         \/ pc \in Reading /\ pc' \in Reading
         \/ Active /\ pc' \in Serving /\ UNCHANGED <<request_len, content_len>> /\ taken' >= taken
  PROVE  Framing'
<1> USE DEF Framing, Reading, Serving, Active
<1>1. ServedFirst' BY DEF ServedFirst
<1>2. AtNextMessage' BY DEF AtNextMessage, After
<1>3. HeadersOfServed' BY DEF HeadersOfServed
<1>4. InMessage'
  <2> SUFFICES ASSUME Active' PROVE InMessage' BY DEF InMessage
  <2>1. Active /\ UNCHANGED <<request_len, content_len>> /\ taken' >= taken OBVIOUS
  <2>2. base + request_len + consumed \in Int /\ taken \in Int /\ taken' \in Int
    BY <2>1 DEF TypeOK
  <2> QED BY <2>1, <2>2 DEF InMessage
<1> QED BY <1>1, <1>2, <1>3, <1>4

(* Dispatching the next message. *)
LEMMA DispatchStep ==
  ASSUME TypeOK, TypeOK', HeadBuffered, BufferContiguous, FirstHead, Framed(msgs), Framing, Dispatch
  PROVE  /\ Framing' /\ served' = Append(served, msgs[Len(served) + 1].start)
         /\ Len(served) + 1 <= Len(msgs) /\ msgs[Len(served) + 1].fault = "none"
<1> DEFINE k == Len(served)  n == k + 1  h == Overlay(msgs[n])
<1>1. pc = "message" /\ request_len > 0 /\ pc' = "handle" /\ served' = Append(served, base)
  BY DEF Dispatch
<1>2. UNCHANGED <<msgs, taken, base, data_len, request_len, consumed, must_close>>
  BY DEF Dispatch, framing
<1>3. PICK i \in 1..Len(msgs), meth \in {"GET", "POST", "none"} :
        /\ Parsed(msgs[i], "none", meth) /\ headers' = Overlay(msgs[i])
        /\ content_len' = BodyFraming(Overlay(msgs[i]), meth).len
        /\ is_chunked' = BodyFraming(Overlay(msgs[i]), meth).chunked
  BY DEF Dispatch
<1>4. /\ i = n /\ msgs[n].start = base /\ base + request_len = msgs[n].head
      /\ msgs[n].fault = "none" /\ meth = msgs[n].method
  BY <1>1, <1>3, ParsedIsNext
<1>5. /\ served \in Seq(Nat) /\ k \in Nat /\ base \in Nat /\ n \in 1..Len(msgs) /\ Len(msgs) \in Nat
      /\ request_len \in Int /\ data_len \in Int /\ taken \in Int /\ consumed \in Int
  <2>1. served \in Seq(Nat) BY DEF TypeOK
  <2>2. base \in Nat /\ request_len \in Int /\ data_len \in Int /\ taken \in Int /\ consumed \in Int
    BY DEF TypeOK
  <2>3. n \in 1..Len(msgs) BY <1>3, <1>4
  <2>4. k \in Nat BY <2>1
  <2> QED BY <2>1, <2>2, <2>3, <2>4, FramedFacts
<1>6. /\ Len(served') = n /\ served'[n] = base /\ \A j \in 1..k : served'[j] = served[j]
  BY <1>1, <1>5
<1> HIDE DEF k, n
<1>7. \A j \in 1..n : j = n \/ j \in 1..k BY <1>5 DEF n
<1>8. ServedFirst'
  <2>1. \A j \in 1..k : served[j] = msgs[j].start /\ msgs[j].fault = "none"
    BY DEF Framing, ServedFirst, k
  <2>2. n <= Len(msgs) BY <1>5
  <2> QED BY <1>2, <1>4, <1>6, <1>7, <2>1, <2>2 DEF ServedFirst
<1>9. AtNextMessage' BY <1>1 DEF AtNextMessage, Reading
<1>10. /\ is_chunked = 0 /\ headers.te = "none"
       /\ headers.cl = Absent \/ \E j \in 1..k : headers.cl = msgs[j].cl
       /\ (\A j \in 1..k : msgs[j].cl <= 0) => consumed = 0
  BY <1>1 DEF Framing, HeadersOfServed, Reading, k
<1>11. /\ msgs[n].te = "none" /\ msgs[n].cl \in Nat \cup {-1}
       /\ msgs[n].method = "POST" => msgs[n].cl >= 0
       /\ \A j \in 1..(n - 1) : msgs[j].cl > 0 => msgs[n].cl = 0
       /\ \A j \in 1..Len(msgs) : msgs[j].cl \in Nat \cup {-1}
  BY <1>5, FramedFacts, StreamFacts DEF Absent
<1>12. \A j \in 1..k : j \in 1..(n - 1) /\ j \in 1..Len(msgs) BY <1>5 DEF n
<1>13. /\ h.te = "none" /\ h.cl = (IF msgs[n].cl # Absent THEN msgs[n].cl ELSE headers.cl)
       /\ msgs[n].conn # "none" => h.conn = msgs[n].conn
  BY <1>10, <1>11 DEF Overlay
<1> HIDE DEF h
<1>14. headers' = h /\ content_len' = BodyFraming(h, meth).len
       /\ is_chunked' = BodyFraming(h, meth).chunked
  BY <1>3, <1>4 DEF h
<1>15. msgs[n].cl = Absent => h.cl = Absent \/ h.cl = 0
  <2> SUFFICES ASSUME msgs[n].cl = Absent, headers.cl # Absent PROVE headers.cl = 0 BY <1>13
  <2>1. PICK j \in 1..k : headers.cl = msgs[j].cl BY <1>10
  <2>2. ~ (msgs[j].cl > 0) BY <1>11, <1>12 DEF Absent
  <2>3. msgs[j].cl \in Nat \cup {-1} BY <1>11, <1>12
  <2> QED BY <2>1, <2>2, <2>3 DEF Absent
<1>16. content_len' = Max2(0, msgs[n].cl) /\ is_chunked' = 0
  <2>1. is_chunked' = 0 BY <1>10, <1>13, <1>14 DEF BodyFraming
  <2>2. CASE msgs[n].cl # Absent
    <3>1. content_len' = msgs[n].cl BY <1>13, <1>14, <2>2 DEF BodyFraming
    <3> QED BY <1>11, <2>1, <2>2, <3>1 DEF Max2, Absent
  <2>3. CASE msgs[n].cl = Absent
    <3>1. meth # "POST" BY <1>4, <1>11, <2>3 DEF Absent
    <3>2. content_len' = 0 BY <1>13, <1>14, <1>15, <2>3, <3>1 DEF BodyFraming
    <3> QED BY <2>1, <2>3, <3>2 DEF Max2, Absent
  <2> QED BY <2>2, <2>3
<1>17. msgs[n].cl > 0 => consumed = 0
  <2> SUFFICES ASSUME msgs[n].cl > 0 PROVE \A j \in 1..k : msgs[j].cl <= 0 BY <1>10
  <2> TAKE j \in 1..k
  <2>1. ~ (msgs[j].cl > 0) BY <1>11, <1>12
  <2>2. msgs[j].cl \in Nat \cup {-1} BY <1>11, <1>12
  <2> QED BY <2>1, <2>2
<1>18. base + request_len <= taken
  <2>1. request_len <= data_len /\ base + data_len = taken
    BY <1>1 DEF HeadBuffered, BufferContiguous
  <2> QED BY <1>5, <2>1
<1>19. \A j \in 1..k : msgs[j].conn # "close" BY <1>1 DEF Framing, AtNextMessage, Reading, k
<1>20. InMessage'
  <2>1. n > 0 /\ n - 1 = k BY <1>5 DEF n
  <2>2. msgs[n].cl > 0 => base + request_len + consumed <= taken BY <1>5, <1>17, <1>18
  <2> QED BY <1>2, <1>4, <1>6, <1>13, <1>14, <1>16, <1>19, <2>1, <2>2 DEF InMessage
<1>21. HeadersOfServed'
  <2>1. headers'.te = "none" BY <1>13, <1>14
  <2>2. headers'.cl = Absent \/ \E j \in 1..n : headers'.cl = msgs[j].cl
    <3>1. n \in 1..n /\ \A j \in 1..k : j \in 1..n BY <1>5 DEF n
    <3> QED BY <1>10, <1>13, <1>14, <3>1
  <2>3. (\A j \in 1..n : msgs[j].cl <= 0) => consumed = 0
    <3>1. \A j \in 1..k : j \in 1..n BY <1>5 DEF n
    <3> QED BY <1>10, <3>1
  <2> QED BY <1>2, <1>6, <1>16, <2>1, <2>2, <2>3 DEF HeadersOfServed
<1>22. n <= Len(msgs) BY <1>5
<1> QED BY <1>1, <1>4, <1>8, <1>9, <1>20, <1>21, <1>22 DEF Framing, n, k

(* What a handler reads of a body that is declared. *)
LEMMA ReadStepFraming ==
  ASSUME TypeOK, TypeOK', SocketCounted, HeadBuffered, ReadingSocket, Framed(msgs), Framing,
         HandlerRead
  PROVE  Framing'
<1> DEFINE k == Len(served)
<1>1. pc = "handle" /\ pc' \in {"handle", "body"} BY DEF HandlerRead
<1>2. UNCHANGED <<msgs, taken, base, data_len, request_len, headers, served>>
  BY DEF HandlerRead, framing
<1>3. PICK n \in 1..MaxRead : ReadStep(n) BY HandlerReadStep
<1>4. is_chunked = 0 /\ InMessage BY <1>1 DEF Framing, HeadersOfServed, Active
<1>5. is_chunked' = 0 /\ content_len' = content_len /\ consumed' = consumed + ReadBuffered(n)
  BY <1>3, <1>4 DEF ReadStep, ReadLen
<1>6. /\ content_len = Max2(0, msgs[k].cl) /\ k \in 1..Len(msgs) /\ msgs[k].cl \in Int
      /\ msgs[k].cl > 0 => base + request_len + consumed <= taken
  <2>1. served \in Seq(Nat) BY DEF TypeOK
  <2>2. k \in Nat BY <2>1
  <2>3. k > 0 /\ k <= Len(msgs) BY <1>1, <1>4 DEF InMessage, Active, Framing, ServedFirst
  <2>4. k \in 1..Len(msgs) BY <2>2, <2>3, FramedFacts
  <2>5. msgs[k].cl \in Int BY <2>4, FramedFacts, StreamFacts
  <2> QED BY <1>1, <1>4, <2>4, <2>5 DEF InMessage, Active
<1> HIDE DEF k
<1>7. /\ base \in Int /\ request_len \in Int /\ data_len \in Int /\ taken \in Int
      /\ consumed \in Nat /\ content_len \in Int /\ n \in Nat
  BY <1>3 DEF TypeOK
<1>8. ReadRoom(n) = Max2(0, Min2(n, content_len - consumed))
  BY <1>4, <1>6, <1>7 DEF ReadRoom, ReadLen, Allowed, Max2
<1>9. msgs[k].cl <= 0 => ReadBuffered(n) = 0
  BY <1>6, <1>7, <1>8 DEF ReadBuffered, Max2, Min2
<1>10. ReadBuffered(n) \in Nat /\ (ReadBuffered(n) > 0 => ReadBuffered(n) <= data_len - request_len - consumed)
  BY <1>6, <1>7, <1>8 DEF ReadBuffered, Max2, Min2
<1>11. base + data_len <= taken BY DEF SocketCounted
<1>12. ServedFirst' BY <1>2 DEF Framing, ServedFirst
<1>13. AtNextMessage' BY <1>1 DEF AtNextMessage, Reading
<1>14. HeadersOfServed'
  <2>1. (\A j \in 1..Len(served) : msgs[j].cl <= 0) => consumed' = 0
    <3> SUFFICES ASSUME \A j \in 1..Len(served) : msgs[j].cl <= 0 PROVE consumed' = 0 OBVIOUS
    <3>1. consumed = 0 BY <1>1 DEF Framing, HeadersOfServed, Active
    <3>2. k \in 1..Len(served)
      <4>1. served \in Seq(Nat) BY DEF TypeOK
      <4> QED BY <1>6, <4>1 DEF k
    <3>3. ReadBuffered(n) = 0 BY <1>9, <3>2
    <3> QED BY <1>5, <3>1, <3>3
  <2> QED BY <1>1, <1>2, <1>5, <2>1 DEF Framing, HeadersOfServed, Active
<1>15. InMessage'
  <2>1. msgs[k].cl > 0 => base + request_len + consumed' <= taken
    BY <1>5, <1>6, <1>7, <1>10, <1>11
  <2> QED BY <1>1, <1>2, <1>4, <1>5, <2>1 DEF InMessage, Active, k
<1> QED BY <1>12, <1>13, <1>14, <1>15 DEF Framing

LEMMA RecvStepFraming ==
  ASSUME TypeOK, TypeOK', ReadingSocket, Framed(msgs), Framing, BodyRecv
  PROVE  Framing'
<1> DEFINE k == Len(served)
<1>1. pc = "body" /\ pc' \in {"handle", "body"} BY DEF BodyRecv
<1>2. UNCHANGED <<msgs, base, data_len, request_len, content_len, is_chunked, headers, served>>
  BY DEF BodyRecv, framing, request
<1>3. PICK n \in 1..Min2(want, StreamLen(msgs) - taken) :
         taken' = taken + n /\ consumed' = consumed + n
  BY DEF BodyRecv
<1>4. is_chunked = 0 /\ InMessage BY <1>1 DEF Framing, HeadersOfServed, Active
<1>5. /\ content_len = Max2(0, msgs[k].cl) /\ k \in 1..Len(msgs) /\ msgs[k].cl \in Int
      /\ msgs[k].cl > 0 => base + request_len + consumed <= taken
  <2>1. served \in Seq(Nat) BY DEF TypeOK
  <2>2. k \in Nat BY <2>1
  <2>3. k > 0 /\ k <= Len(msgs) BY <1>1, <1>4 DEF InMessage, Active, Framing, ServedFirst
  <2>4. k \in 1..Len(msgs) BY <2>2, <2>3, FramedFacts
  <2>5. msgs[k].cl \in Int BY <2>4, FramedFacts, StreamFacts
  <2> QED BY <1>1, <1>4, <2>4, <2>5 DEF InMessage, Active
<1>6. /\ base \in Int /\ request_len \in Int /\ taken \in Int
      /\ consumed \in Nat /\ content_len \in Int /\ want \in Nat
  BY DEF TypeOK
<1>7. n \in Nat /\ n >= 1 /\ n <= want
  BY <1>3, <1>6, StreamLenTyped DEF Min2
<1>8. consumed + want <= content_len BY <1>1, <1>4, <1>5, <1>6 DEF ReadingSocket, Max2
<1>9. msgs[k].cl > 0 BY <1>5, <1>6, <1>7, <1>8 DEF Max2
<1>10. ServedFirst' BY <1>2 DEF Framing, ServedFirst
<1>11. AtNextMessage' BY <1>1 DEF AtNextMessage, Reading
<1>12. HeadersOfServed'
  <2>1. ~ \A j \in 1..Len(served) : msgs[j].cl <= 0
    <3>1. served \in Seq(Nat) BY DEF TypeOK
    <3>2. k \in 1..Len(served) BY <1>5, <3>1
    <3>3. ~ (msgs[k].cl <= 0) BY <1>5, <1>9
    <3> HIDE DEF k
    <3> QED BY <3>2, <3>3
  <2> QED BY <1>1, <1>2, <2>1 DEF Framing, HeadersOfServed, Active
<1>13. InMessage'
  <2>1. base + request_len + consumed' <= taken' BY <1>3, <1>5, <1>6, <1>7, <1>9
  <2> QED BY <1>1, <1>2, <1>4, <2>1 DEF InMessage, Active
<1> QED BY <1>10, <1>11, <1>12, <1>13 DEF Framing

(* The discard at the end of an iteration stops at the end of the message. *)
LEMMA FinishFraming ==
  ASSUME TypeOK, TypeOK', SocketCounted, HeadBuffered, BodyWithinMessage, Framed(msgs), Framing,
         Finish
  PROVE  Framing'
<1> DEFINE k == Len(served)
<1>1. UNCHANGED <<msgs, taken, request_len, content_len, is_chunked, headers, consumed, served>>
  BY DEF Finish, request, ghosts
<1>2. ServedFirst' BY <1>1 DEF Framing, ServedFirst
<1>3. CASE ~ keep_alive
  <2>1. pc' = "done" BY <1>3 DEF Finish
  <2> QED BY <1>2, <2>1 DEF Framing, AtNextMessage, InMessage, HeadersOfServed, Active, Reading
<1>4. CASE keep_alive
  <2>1. pc = "finish" /\ pc' = "scan" /\ ~ must_close
        /\ base' = (IF data_len > discard_len THEN base + discard_len ELSE taken)
    BY <1>4 DEF Finish, keep_alive, should_keep_alive
  <2>2. is_chunked = 0 /\ InMessage BY <2>1 DEF Framing, HeadersOfServed, Active
  <2>3. /\ content_len = Max2(0, msgs[k].cl) /\ k \in 1..Len(msgs) /\ msgs[k].cl \in Int
        /\ msgs[k].cl > 0 => base + request_len + consumed <= taken
        /\ base + request_len = msgs[k].head /\ msgs[k].end = msgs[k].head + Max2(0, msgs[k].cl)
        /\ msgs[k].conn # "none" => headers.conn = msgs[k].conn
        /\ \A i \in 1..k - 1 : msgs[i].conn # "close"
    <3>1. served \in Seq(Nat) BY DEF TypeOK
    <3>2. k \in Nat BY <3>1
    <3>3. k > 0 /\ k <= Len(msgs) BY <2>1, <2>2 DEF InMessage, Active, Framing, ServedFirst
    <3>4. k \in 1..Len(msgs) BY <3>2, <3>3, FramedFacts
    <3>5. msgs[k].cl \in Int BY <3>4, FramedFacts, StreamFacts
    <3> QED BY <2>1, <2>2, <3>4, <3>5, FramedFacts DEF InMessage, Active
  <2> HIDE DEF k
  <2>4. /\ base \in Nat /\ request_len \in Int /\ data_len \in Nat /\ taken \in Nat
        /\ consumed \in Nat /\ content_len \in Int /\ content_len >= 0
    <3>1. /\ base \in Nat /\ request_len \in Int /\ data_len \in Nat /\ taken \in Nat
          /\ consumed \in Nat
      BY ConstantsOK DEF TypeOK, ConstantsOK
    <3>2. content_len \in Int /\ content_len >= 0 BY <2>3 DEF Max2
    <3> QED BY <3>1, <3>2
  <2>5. consumed = content_len \/ request_len + content_len <= data_len
    BY <1>4, <2>2 DEF keep_alive
  <2>6. /\ request_len <= data_len /\ base + data_len <= taken
        /\ taken <= Max2(base + data_len, base + request_len + content_len)
    BY <2>1, <2>2, <2>4 DEF SocketCounted, HeadBuffered, BodyWithinMessage, Serving
  <2>7. content_len > 0 => msgs[k].cl > 0 BY <2>3 DEF Max2
  <2>8. base' = base + request_len + content_len
    <3>1. /\ base' = IF data_len > discard_len THEN base + discard_len ELSE taken
          /\ content_len > 0 => base + request_len + consumed <= taken
      BY <2>1, <2>3, <2>4, <2>7
    <3>2. CASE data_len > request_len + content_len
      <4>1. discard_len = request_len + content_len BY <2>4, <3>2 DEF discard_len, Min2
      <4> QED BY <2>4, <3>1, <3>2, <4>1
    <3>3. CASE data_len <= request_len + content_len
      <4>1. base' = taken BY <2>4, <3>1, <3>3 DEF discard_len, Min2
      <4>2. taken <= base + request_len + content_len BY <2>4, <2>6, <3>3 DEF Max2
      <4>3. content_len = 0 => base + request_len <= taken BY <2>4, <2>6
      <4>4. content_len > 0 => base + request_len + content_len <= taken
        BY <2>4, <2>5, <2>6, <3>1
      <4> QED BY <2>4, <4>1, <4>2, <4>3, <4>4
    <3> QED BY <2>4, <3>2, <3>3
  <2>9. base' = msgs[k].end BY <2>3, <2>8
  <2>10. \A i \in 1..k : msgs[i].conn # "close"
    <3>1. msgs[k].conn # "close"
      BY <1>4, <2>3 DEF keep_alive, should_keep_alive
    <3>2. Len(msgs) \in Nat BY FramedFacts
    <3>3. \A i \in 1..k : i = k \/ i \in 1..k - 1 BY <2>3, <3>2
    <3> QED BY <2>3, <3>1, <3>3
  <2>11. AtNextMessage'
    <3>1. k # 0 BY <2>3, FramedFacts
    <3> QED BY <1>1, <2>9, <2>10, <3>1 DEF AtNextMessage, After, k
  <2>12. HeadersOfServed' BY <1>1, <2>1 DEF Framing, HeadersOfServed, Active
  <2>13. InMessage' BY <2>1 DEF InMessage, Active
  <2> QED BY <1>2, <2>11, <2>12, <2>13 DEF Framing
<1> QED BY <1>3, <1>4

(* Every step keeps the framing of a stream that states it. *)
LEMMA FramingStep ==
  ASSUME IInv, TypeOK', FirstHead, Framed(msgs), Framing, [Next]_vars
  PROVE  Framing'
<1> USE DEF framing, request, ghosts, Active, Reading, Serving
<1>0. TypeOK /\ SocketCounted /\ HeadBuffered /\ ReadingSocket /\ BodyWithinMessage
      /\ BufferContiguous
  BY DEF IInv
<1>1. CASE Stop
  <2>1. Framing /\ UNCHANGED <<msgs, served, base, headers, is_chunked, consumed, pc, must_close,
                               taken, request_len, content_len>>
    BY <1>1 DEF Stop
  <2> QED BY <2>1 DEF Framing, ServedFirst, AtNextMessage, InMessage, HeadersOfServed, After
<1>2. CASE Receiving
  <2>1. UNCHANGED <<msgs, served, base, headers, is_chunked, consumed>>
        /\ pc \in Reading /\ pc' \in Reading
    BY <1>2 DEF Receiving, Scan, Recv, RecvFails
  <2> QED BY <1>0, <2>1, QuietStep
<1>3. CASE NoMessage
  <2>1. UNCHANGED <<msgs, served, base, headers, is_chunked, consumed>>
        /\ must_close' /\ pc' \in {"finish", "crashed"}
    BY <1>3 DEF NoMessage, SendError
  <2> QED BY <1>0, <2>1, QuietStep
<1>4. CASE Refuse
  <2>1. UNCHANGED <<msgs, served>> /\ must_close' /\ pc' \in {"finish", "crashed"}
    BY <1>4 DEF Refuse, SendError
  <2> QED BY <2>1 DEF Framing, ServedFirst, AtNextMessage, InMessage, HeadersOfServed
<1>5. CASE Dispatch BY <1>0, <1>5, DispatchStep
<1>6. CASE HandlerRead BY <1>0, <1>6, ReadStepFraming
<1>7. CASE BodyRecv BY <1>0, <1>7, RecvStepFraming
<1>8. CASE BodyEnds
  <2>1. is_chunked = 0 BY <1>8 DEF BodyEnds, Framing, HeadersOfServed
  <2>2. UNCHANGED <<msgs, served, base, headers, is_chunked, consumed, request_len, content_len,
                    taken>>
        /\ Active /\ pc' \in Serving
    BY <1>8, <2>1 DEF BodyEnds
  <2>3. taken' >= taken BY <1>0, <2>2 DEF TypeOK
  <2> QED BY <1>0, <2>2, <2>3, QuietStep
<1>9. CASE ChunksEnd BY <1>9 DEF ChunksEnd, Framing, HeadersOfServed
<1>10. CASE HandlerReturns
  <2>1. UNCHANGED <<msgs, served, base, headers, is_chunked, consumed, request_len, content_len,
                    taken>>
        /\ Active /\ pc' \in Serving
    BY <1>10 DEF HandlerReturns
  <2>2. taken' >= taken BY <1>0, <2>1 DEF TypeOK
  <2> QED BY <1>0, <2>1, <2>2, QuietStep
<1>11. CASE Finish BY <1>0, <1>11, FinishFraming
<1>12. CASE UNCHANGED vars
  BY <1>12 DEF vars, Framing, ServedFirst, AtNextMessage, InMessage, HeadersOfServed, After
<1> QED
  BY <1>1, <1>2, <1>3, <1>4, <1>5, <1>6, <1>7, <1>8, <1>9, <1>10, <1>11, <1>12
  DEF Next, Parsing, Handling

LEMMA MsgsStay == ASSUME [Next]_vars PROVE msgs' = msgs
<1> USE DEF framing, request, ghosts
<1>1. CASE Stop BY <1>1 DEF Stop
<1>2. CASE Receiving BY <1>2 DEF Receiving, Scan, Recv, RecvFails
<1>3. CASE Parsing BY <1>3 DEF Parsing, NoMessage, Refuse, Dispatch, SendError
<1>4. CASE Handling
  BY <1>4 DEF Handling, HandlerRead, BodyRecv, BodyEnds, ChunksEnd, HandlerReturns
<1>5. CASE Finish BY <1>5 DEF Finish
<1>6. CASE UNCHANGED vars BY <1>6 DEF vars
<1> QED BY <1>1, <1>2, <1>3, <1>4, <1>5, <1>6 DEF Next

(* A connection starts in step with its stream, and stays so. *)
LEMMA SyncInit == Init => SyncInv
<1> SUFFICES ASSUME Init PROVE SyncInv OBVIOUS
<1>1. msgs \in Workloads /\ Len(msgs) \in Nat BY StreamFacts DEF Init
<1>2. Len(served) = 0 BY DEF Init
<1>3. ServedFirst /\ AtNextMessage /\ InMessage /\ HeadersOfServed
  BY <1>1, <1>2 DEF Init, ServedFirst, AtNextMessage, InMessage, HeadersOfServed, Active, Reading,
     After, Absent
<1> QED BY <1>3 DEF SyncInv, FirstHead, Init

LEMMA SyncStep == IInv /\ SyncInv /\ [Next]_vars => SyncInv'
<1> SUFFICES ASSUME IInv, SyncInv, [Next]_vars PROVE SyncInv' OBVIOUS
<1>1. TypeOK /\ TypeOK' BY NextTypeOK DEF IInv
<1>2. FirstHead' BY <1>1, FirstHeadStep DEF SyncInv
<1>3. ASSUME Framed(msgs') PROVE Framing'
  <2>1. Framed(msgs) BY <1>3, MsgsStay
  <2> QED BY <1>1, <2>1, FramingStep DEF SyncInv, Framing
<1> QED BY <1>2, <1>3 DEF SyncInv, Framing

LEMMA SyncHolds == Spec => []SyncInv
<1>1. IInv /\ SyncInv /\ [Next]_vars => SyncInv' BY SyncStep
<1> QED BY <1>1, SyncInit, Invariant, PTL DEF Spec

(* On every stream that states its framing, the n-th request dispatched is *)
(* the n-th message: no body is ever parsed as a request.                  *)
THEOREM FramedStaysInSync == Spec => []InSync
<1>1. IInv /\ SyncInv => InSync
  <2> SUFFICES ASSUME IInv, SyncInv, Framed(msgs)
               PROVE  \A i \in 1..Len(served) : i <= Len(msgs) /\ served[i] = msgs[i].start
    BY DEF InSync
  <2>1. TypeOK BY DEF IInv
  <2>2. Len(msgs) \in Nat BY <2>1, FramedFacts
  <2>3. Len(served) \in Nat
    <3>1. served \in Seq(Nat) BY <2>1 DEF TypeOK
    <3> QED BY <3>1
  <2> QED BY <2>2, <2>3 DEF SyncInv, ServedFirst
<1> QED BY <1>1, SyncHolds, Invariant, PTL

-----------------------------------------------------------------------------
(* The refinement: dispatching is Handle, the end of the loop Close, and   *)
(* everything else is hidden.                                              *)
LEMMA PipelineInit == Init => Pipeline!Init
<1> SUFFICES ASSUME Init PROVE Pipeline!Init OBVIOUS
<1>1. Framed(msgs) \in BOOLEAN BY DEF Framed
<1> QED BY <1>1 DEF Init, Pipeline!Init

LEMMA OthersStutter ==
  ASSUME [Next]_vars, ~ Dispatch
  PROVE  /\ served' = served
         /\ pc \notin {"done", "crashed"} \/ pc' = pc
<1> USE DEF framing, request, ghosts
<1>1. CASE Stop BY <1>1 DEF Stop
<1>2. CASE Receiving BY <1>2 DEF Receiving, Scan, Recv, RecvFails
<1>3. CASE Parsing BY <1>3 DEF Parsing, NoMessage, Refuse, SendError
<1>4. CASE Handling
  BY <1>4 DEF Handling, HandlerRead, BodyRecv, BodyEnds, ChunksEnd, HandlerReturns
<1>5. CASE Finish BY <1>5 DEF Finish
<1>6. CASE UNCHANGED vars BY <1>6 DEF vars
<1> QED BY <1>1, <1>2, <1>3, <1>4, <1>5, <1>6 DEF Next

LEMMA PipelineStep == IInv /\ SyncInv /\ [Next]_vars => [Pipeline!Next]_(Pipeline!vars)
<1> SUFFICES ASSUME IInv, SyncInv, [Next]_vars PROVE [Pipeline!Next]_(Pipeline!vars) OBVIOUS
<1>0. TypeOK /\ TypeOK' BY NextTypeOK DEF IInv
<1>1. msgs' = msgs BY MsgsStay
<1>2. Framed(msgs)' = Framed(msgs) BY <1>1
<1>3. CASE ~ Framed(msgs) BY <1>2, <1>3 DEF Pipeline!Next
<1>4. CASE Framed(msgs) /\ Dispatch
  <2> DEFINE n == Len(served) + 1
  <2>1. /\ Framing' /\ served' = Append(served, msgs[n].start)
        /\ n <= Len(msgs) /\ msgs[n].fault = "none"
    BY <1>0, <1>4, DispatchStep DEF SyncInv, Framing, IInv
  <2>2. pc = "message" /\ pc' = "handle" BY <1>4 DEF Dispatch
  <2>3. \A i \in 1..(n - 1) : msgs[i].conn # "close" /\ msgs[i].fault = "none"
    <3>1. \A i \in 1..Len(served) : msgs[i].conn # "close" /\ msgs[i].fault = "none"
      BY <1>4, <2>2 DEF SyncInv, AtNextMessage, ServedFirst, Reading
    <3>2. n - 1 = Len(served)
      <4>1. served \in Seq(Nat) BY <1>0 DEF TypeOK
      <4> QED BY <4>1
    <3> QED BY <3>1, <3>2
  <2>4. Pipeline!Handle BY <1>1, <1>2, <2>1, <2>2, <2>3 DEF Pipeline!Handle, Pipeline!Last
  <2> QED BY <1>2, <2>4 DEF Pipeline!Next
<1>5. CASE Framed(msgs) /\ ~ Dispatch
  <2>1. served' = served /\ (pc \notin {"done", "crashed"} \/ pc' = pc) BY <1>5, OthersStutter
  <2>2. CASE (pc' \notin {"done", "crashed"}) = (pc \notin {"done", "crashed"})
    BY <1>1, <1>2, <2>1, <2>2 DEF Pipeline!vars
  <2>3. CASE (pc' \notin {"done", "crashed"}) # (pc \notin {"done", "crashed"})
    <3>1. Pipeline!Close BY <1>1, <1>2, <2>1, <2>3 DEF Pipeline!Close
    <3> QED BY <1>2, <3>1 DEF Pipeline!Next
  <2> QED BY <2>2, <2>3
<1> QED BY <1>3, <1>4, <1>5

(* A connection on a framed stream handles its requests one at a time, in  *)
(* order, each once, none behind a refused one or one that asked to close. *)
THEOREM ImplementsPipeline == Spec => HandlesPipeline
<1>1. IInv /\ SyncInv /\ [Next]_vars => [Pipeline!Next]_(Pipeline!vars) BY PipelineStep
<1>2. Spec => Pipeline!Init /\ [][Pipeline!Next]_(Pipeline!vars)
  BY <1>1, PipelineInit, SyncHolds, Invariant, PTL DEF Spec
<1> QED BY <1>2 DEF HandlesPipeline, Pipeline!Spec
=============================================================================
