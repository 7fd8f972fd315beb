--------------------------- MODULE WebSocketProofs ---------------------------
(***************************************************************************)
(* Invariants of WebSocket for any streams, writers and bounds: the        *)
(* discipline of conn->req.mutex and what it gives for the wire, the bound *)
(* on PINGs, and the messages http_websocket_wait returns for.  Each is    *)
(* proved through a strengthening that a step of Next preserves; steps     *)
(* that leave what the strengthening is about alone are dealt with once.   *)
(***************************************************************************)
EXTENDS WebSocket, SequenceTheorems, WellFoundedInduction, TLAPS

-----------------------------------------------------------------------------
(* The mutex and the wire. *)

Steps == {"idle", "lock", "head", "payload"}
Sizes == {"none", "empty", "small", "large"}

LockTypes ==
  /\ mutex \in Everyone \cup {NoOne, Lost}
  /\ due \in Everyone \cup {NoOne}
  /\ writing \in [Everyone -> [step : Steps, message : Sizes]]
  /\ accept_gzip \in BOOLEAN

(* What is written was given by the application, or is a control frame. *)
LargeIsGiven == \A w \in Everyone : writing[w].message = "large" => "large" \in Messages

(* Who writes to the socket holds the mutex. *)
WriterHolds == \A w \in Everyone : writing[w].step \in {"head", "payload"} => mutex = w

(* The reader writes only where it waits for its write to end. *)
ReaderWrites ==
  writing[Reader].step # "idle" => pc \in {"ready", "handler", "ping", "pong", "crashed"}

(* A frame that lacks its payload belongs to the writer that is about to   *)
(* send it, or to one that failed.                                         *)
Exempt == "large" \in Messages /\ ~ accept_gzip
DueHasWriter == Exempt \/ due = NoOne \/ sock # "open" \/ writing[due].step = "payload"

LockInv ==
  /\ LockTypes /\ LargeIsGiven /\ WriterHolds /\ ReaderWrites
  /\ MutexInUse /\ DueHasWriter /\ FramesUnmixed

LEMMA NobodyHolds == NoOne \notin Everyone /\ Lost \notin Everyone /\ NoOne # Lost
BY SocketConstants DEF SocketConstants, Everyone

(* A step of the reader that does not write. *)
LockQuiet ==
  /\ UNCHANGED <<mutex, writing, due, torn, sock, accept_gzip>>
  /\ pc' \in {pc, "crashed"} \/ writing[Reader].step = "idle"

LEMMA LockQuietKeeps == ASSUME LockInv, LockQuiet PROVE LockInv'
<1>1. LockTypes' /\ LargeIsGiven' /\ WriterHolds'
  BY DEF LockInv, LockQuiet, LockTypes, LargeIsGiven, WriterHolds
<1>2. ReaderWrites'
  BY DEF LockInv, LockQuiet, ReaderWrites
<1>3. MutexInUse' /\ DueHasWriter' /\ FramesUnmixed'
  BY DEF LockInv, LockQuiet, MutexInUse, DueHasWriter, FramesUnmixed, Exempt
<1> QED BY <1>1, <1>2, <1>3 DEF LockInv

LEMMA LockInit == Init => LockInv
<1> SUFFICES ASSUME Init PROVE LockInv OBVIOUS
<1>1. LockTypes
  <2>1. accept_gzip \in BOOLEAN BY DEF Init
  <2>2. writing \in [Everyone -> [step : Steps, message : Sizes]]
    BY DEF Init, Idle, Steps, Sizes
  <2> QED BY <2>1, <2>2 DEF Init, LockTypes
<1>2. LargeIsGiven /\ WriterHolds BY DEF Init, LargeIsGiven, WriterHolds, Idle
<1>3. Reader \in Everyone BY DEF Everyone
<1>4. ReaderWrites BY <1>3 DEF Init, ReaderWrites, Idle
<1>5. MutexInUse /\ DueHasWriter /\ FramesUnmixed
  BY NobodyHolds DEF Init, MutexInUse, DueHasWriter, FramesUnmixed
<1> QED BY <1>1, <1>2, <1>4, <1>5 DEF LockInv

(* The actions that write nothing. *)
LEMMA ReaderIsQuiet ==
  ASSUME LockInv,
         \/ Refuse \/ Accept \/ ReadyReturns \/ HandlerReturns \/ ReaderLeaves
         \/ LoopEnds \/ NeedMore \/ TakeFrame \/ HandlePong \/ CallHandler
         \/ CannotInflate \/ InflateSpins \/ Recv \/ RecvFails
         \/ OverflowRecv \/ OverflowFails \/ UseFreed
  PROVE  LockQuiet
<1> USE DEF LockQuiet, LockInv, ReaderWrites, ReaderAt, Go, allButPc, shared, config, lock, wire
<1>1. CASE Refuse BY <1>1 DEF Refuse
<1>2. CASE Accept BY <1>2 DEF Accept
<1>3. CASE ReadyReturns BY <1>3 DEF ReadyReturns, Idle
<1>4. CASE HandlerReturns BY <1>4 DEF HandlerReturns, Idle
<1>5. CASE ReaderLeaves BY <1>5 DEF ReaderLeaves
<1>6. CASE LoopEnds BY <1>6 DEF LoopEnds
<1>7. CASE NeedMore BY <1>7 DEF NeedMore
<1>8. CASE TakeFrame BY <1>8 DEF TakeFrame
<1>9. CASE HandlePong BY <1>9 DEF HandlePong
<1>10. CASE CallHandler BY <1>10 DEF CallHandler
<1>11. CASE CannotInflate BY <1>11 DEF CannotInflate
<1>12. CASE InflateSpins BY <1>12 DEF InflateSpins
<1>13. CASE Recv BY <1>13 DEF Recv
<1>14. CASE RecvFails BY <1>14 DEF RecvFails
<1>15. CASE OverflowRecv BY <1>15 DEF OverflowRecv
<1>16. CASE OverflowFails BY <1>16 DEF OverflowFails
<1>17. CASE UseFreed BY <1>17 DEF UseFreed
<1> QED BY <1>1, <1>2, <1>3, <1>4, <1>5, <1>6, <1>7, <1>8, <1>9, <1>10, <1>11, <1>12,
           <1>13, <1>14, <1>15, <1>16, <1>17

(* The reader begins a PING or a PONG: it held nothing before. *)
LEMMA ControlKeepsLock ==
  ASSUME LockInv, pc \in {"message", "recv"},
         NEW place \in {"ping", "pong"}, NEW m \in {"empty", "small"}, SendControl(place, m)
  PROVE  LockInv'
<1> USE DEF SendControl
<1>1. /\ Reader \in Everyone /\ writing[Reader].step = "idle"
      /\ UNCHANGED <<mutex, due, torn, sock, accept_gzip>> /\ pc' = place
  BY DEF Everyone, LockInv, ReaderWrites, shared, config, wire
<1>2. LockTypes
  BY DEF LockInv
<1>3. /\ writing' \in [Everyone -> [step : Steps, message : Sizes]]
      /\ writing'[Reader] = [step |-> "lock", message |-> m]
      /\ \A w \in Everyone : w # Reader => writing'[w] = writing[w]
  BY <1>1, <1>2 DEF LockTypes, Steps, Sizes
<1>4. LockTypes' BY <1>1, <1>2, <1>3 DEF LockTypes
<1>5. LargeIsGiven' /\ WriterHolds'
  BY <1>1, <1>3 DEF LockInv, LargeIsGiven, WriterHolds
<1>6. ReaderWrites' BY <1>1 DEF ReaderWrites
<1>7. MutexInUse' BY <1>1, <1>2, <1>3 DEF LockInv, MutexInUse, LockTypes
<1>8. DueHasWriter' BY <1>1, <1>2, <1>3 DEF LockInv, DueHasWriter, Exempt, LockTypes
<1>9. FramesUnmixed' BY <1>1 DEF LockInv, FramesUnmixed
<1> QED BY <1>4, <1>5, <1>6, <1>7, <1>8, <1>9 DEF LockInv

(* A write that ends, well or not, gives the mutex back. *)
LEMMA FinishKeepsLock ==
  ASSUME LockInv, NEW w \in Everyone, writing[w].step \in {"head", "payload"},
         NEW ok \in BOOLEAN, Finish(w, ok), UNCHANGED accept_gzip,
         due' \in {due, NoOne},
         Exempt \/ due' = NoOne \/ sock' # "open",
         Exempt \/ ~ torn'
  PROVE  LockInv'
<1>1. LockTypes /\ mutex = w BY DEF LockInv, WriterHolds
<1>2. /\ mutex' = NoOne
      /\ pc' = pc \/ w = Reader
      /\ writing' = [writing EXCEPT ![w] = Idle]
  BY DEF Finish, Return
<1>3. /\ writing' \in [Everyone -> [step : Steps, message : Sizes]]
      /\ writing'[w] = Idle
      /\ \A v \in Everyone : v # w => writing'[v] = writing[v]
  BY <1>1, <1>2 DEF LockTypes, Steps, Sizes, Idle
<1>4. LockTypes' BY <1>1, <1>2, <1>3 DEF LockTypes
<1>5. LargeIsGiven' BY <1>3 DEF LockInv, LargeIsGiven, Idle
<1>6. WriterHolds' BY <1>1, <1>3 DEF LockInv, WriterHolds, Idle
<1>7. ReaderWrites'
  <2>1. Reader \in Everyone BY DEF Everyone
  <2>2. CASE w = Reader BY <1>3, <2>2 DEF ReaderWrites, Idle
  <2>3. CASE w # Reader BY <1>2, <1>3, <2>1, <2>3 DEF LockInv, ReaderWrites
  <2> QED BY <2>2, <2>3
<1>8. MutexInUse' BY <1>2, NobodyHolds DEF MutexInUse
<1>9. DueHasWriter' /\ FramesUnmixed' BY DEF DueHasWriter, FramesUnmixed, Exempt
<1> QED BY <1>4, <1>5, <1>6, <1>7, <1>8, <1>9 DEF LockInv

LEMMA BeginKeepsLock ==
  ASSUME SocketConstants, LockInv, NEW w \in Everyone, BeginWrite(w)
  PROVE  LockInv'
<1> USE DEF LockInv
<1>1. PICK m \in Messages : writing' = [writing EXCEPT ![w] = [step |-> "lock", message |-> m]]
  BY DEF BeginWrite
<1>2. /\ writing[w].step = "idle"
      /\ UNCHANGED <<mutex, due, torn, sock, accept_gzip, pc>>
      /\ w = Reader => pc \in {"ready", "handler"}
      /\ m \in Sizes
  BY DEF BeginWrite, WriterAt, shared, config, wire, SocketConstants, Sizes
<1>3. /\ writing' \in [Everyone -> [step : Steps, message : Sizes]]
      /\ writing'[w] = [step |-> "lock", message |-> m]
      /\ \A v \in Everyone : v # w => writing'[v] = writing[v]
  BY <1>1, <1>2 DEF LockTypes, Steps, Sizes
<1>4. LockTypes' BY <1>2, <1>3 DEF LockTypes
<1>5. LargeIsGiven' BY <1>3 DEF LargeIsGiven
<1>6. WriterHolds' BY <1>2, <1>3 DEF WriterHolds
<1>7. ReaderWrites'
  <2>1. Reader \in Everyone BY DEF Everyone
  <2> QED BY <1>2, <1>3, <2>1 DEF ReaderWrites
<1>8. MutexInUse' BY <1>2, <1>3 DEF MutexInUse, LockTypes
<1>9. DueHasWriter' BY <1>2, <1>3 DEF DueHasWriter, LockTypes, Exempt
<1>10. FramesUnmixed' BY <1>2 DEF FramesUnmixed
<1> QED BY <1>4, <1>5, <1>6, <1>7, <1>8, <1>9, <1>10

(* Nobody is in the middle of a frame when the mutex is taken. *)
LEMMA LockWriteKeepsLock ==
  ASSUME LockInv, NEW w \in Everyone, LockWrite(w)
  PROVE  LockInv'
<1> USE DEF LockInv
<1>1. /\ writing[w].step = "lock" /\ mutex = NoOne
      /\ UNCHANGED <<due, torn, sock, accept_gzip, pc>>
      /\ \/ mutex' = w /\ Step(w, "head")
         \/ mutex' = NoOne /\ Return(w)
         \/ mutex' = Lost /\ Return(w) /\ accept_gzip /\ writing[w].message = "large"
  BY DEF LockWrite, WriterAt, MutexFree, shared, config, wire, Compressed
<1>2. \E n \in {Idle, [step |-> "head", message |-> writing[w].message]} :
        /\ writing' = [writing EXCEPT ![w] = n]
        /\ n = Idle => \/ mutex' = NoOne
                       \/ mutex' = Lost /\ accept_gzip /\ writing[w].message = "large"
        /\ n # Idle => mutex' = w
  BY <1>1 DEF Step, Return, Idle
<1>3. PICK n \in {Idle, [step |-> "head", message |-> writing[w].message]} :
        /\ writing' = [writing EXCEPT ![w] = n]
        /\ n = Idle => \/ mutex' = NoOne
                       \/ mutex' = Lost /\ accept_gzip /\ writing[w].message = "large"
        /\ n # Idle => mutex' = w
  BY <1>2
<1>4. n \in [step : Steps, message : Sizes] BY DEF LockTypes, Steps, Sizes, Idle
<1>5. /\ writing' \in [Everyone -> [step : Steps, message : Sizes]]
      /\ writing'[w] = n
      /\ \A v \in Everyone : v # w => writing'[v] = writing[v]
  BY <1>3, <1>4 DEF LockTypes
<1>6. LockTypes' BY <1>1, <1>5 DEF LockTypes
<1>7. LargeIsGiven' BY <1>5 DEF LargeIsGiven, Idle
<1>8. \A v \in Everyone : writing[v].step \notin {"head", "payload"}
  BY <1>1, NobodyHolds DEF WriterHolds
<1>9. WriterHolds' BY <1>3, <1>5, <1>8 DEF WriterHolds, Idle
<1>10. ReaderWrites'
  <2>1. Reader \in Everyone BY DEF Everyone
  <2> QED BY <1>1, <1>5, <2>1 DEF ReaderWrites, Idle
<1>11. MutexInUse'
  <2>1. CASE n # Idle
    <3>1. mutex' = w /\ writing'[w].step = "head" BY <1>3, <1>5, <2>1
    <3> QED BY <3>1, NobodyHolds DEF MutexInUse
  <2>2. CASE mutex' = NoOne BY <2>2, NobodyHolds DEF MutexInUse
  <2>3. CASE mutex' = Lost /\ accept_gzip /\ writing[w].message = "large"
    <3>1. accept_gzip' /\ "large" \in Messages BY <1>1, <2>3 DEF LargeIsGiven
    <3> QED BY <2>3, <3>1, NobodyHolds DEF MutexInUse
  <2> QED BY <1>3, <2>1, <2>2, <2>3
<1>12. DueHasWriter' BY <1>1, <1>5, <1>8 DEF DueHasWriter, LockTypes, Exempt
<1>13. FramesUnmixed' BY <1>1 DEF FramesUnmixed
<1> QED BY <1>6, <1>7, <1>9, <1>10, <1>11, <1>12, <1>13

(* The header of a frame: no other frame lacks its payload, since its      *)
(* writer would hold the mutex.                                            *)
LEMMA HeadKeepsLock ==
  ASSUME LockInv, NEW w \in Everyone, WriteHead(w)
  PROVE  LockInv'
<1> USE DEF LockInv
<1>1. /\ writing[w].step = "head" /\ sock = "open" /\ mutex = w
      /\ UNCHANGED <<sock, accept_gzip>>
      /\ torn' = (torn \/ due # NoOne)
  BY DEF WriteHead, WriterAt, CanWrite, WriterHolds, shared, config
<1>2. Exempt \/ due = NoOne
  BY <1>1 DEF DueHasWriter, WriterHolds, LockTypes
<1>3. Exempt \/ ~ torn' BY <1>1, <1>2 DEF FramesUnmixed, Exempt
<1>4. CASE Finish(w, TRUE) /\ UNCHANGED due
  BY <1>1, <1>2, <1>3, <1>4, FinishKeepsLock
<1>5. CASE Step(w, "payload") /\ due' = w /\ UNCHANGED <<pc, mutex>>
  <2>1. writing' = [writing EXCEPT ![w] = [step |-> "payload", message |-> writing[w].message]]
    BY <1>5 DEF Step
  <2>2. /\ writing' \in [Everyone -> [step : Steps, message : Sizes]]
        /\ writing'[w] = [step |-> "payload", message |-> writing[w].message]
        /\ \A v \in Everyone : v # w => writing'[v] = writing[v]
    BY <2>1 DEF LockTypes, Steps
  <2>3. LockTypes' BY <1>1, <1>5, <2>2 DEF LockTypes
  <2>4. LargeIsGiven' BY <2>2 DEF LargeIsGiven
  <2>5. WriterHolds' BY <1>1, <1>5, <2>2 DEF WriterHolds
  <2>6. ReaderWrites'
    <3>1. Reader \in Everyone BY DEF Everyone
    <3> QED BY <1>1, <1>5, <2>2, <3>1 DEF ReaderWrites
  <2>7. MutexInUse' BY <1>1, <1>5, <2>2 DEF MutexInUse
  <2>8. DueHasWriter' BY <1>5, <2>2 DEF DueHasWriter
  <2>9. FramesUnmixed' BY <1>1, <1>3 DEF FramesUnmixed, Exempt
  <2> QED BY <2>3, <2>4, <2>5, <2>6, <2>7, <2>8, <2>9
<1> QED BY <1>4, <1>5 DEF WriteHead

LEMMA PayloadKeepsLock ==
  ASSUME LockInv, NEW w \in Everyone, WritePayload(w)
  PROVE  LockInv'
<1> USE DEF LockInv
<1>1. /\ writing[w].step = "payload" /\ UNCHANGED <<sock, accept_gzip, torn>>
  BY DEF WritePayload, WriterAt, shared, config
<1>2. Exempt \/ ~ torn' BY <1>1 DEF FramesUnmixed, Exempt
<1>3. CASE writing[w].message = "large" /\ ~ accept_gzip /\ Finish(w, FALSE) /\ UNCHANGED due
  BY <1>1, <1>2, <1>3, FinishKeepsLock DEF LargeIsGiven, Exempt
<1>4. CASE Finish(w, TRUE) /\ due' = NoOne
  BY <1>1, <1>2, <1>4, FinishKeepsLock
<1> QED BY <1>3, <1>4 DEF WritePayload

LEMMA FailKeepsLock ==
  ASSUME LockInv, NEW w \in Everyone, WriteFails(w)
  PROVE  LockInv'
<1> USE DEF LockInv
<1>1. /\ writing[w].step \in {"head", "payload"} /\ sock' # "open"
      /\ UNCHANGED <<accept_gzip, torn, due>> /\ Finish(w, FALSE)
  BY DEF WriteFails, WriterAt, config, wire
<1>2. Exempt \/ ~ torn' BY <1>1 DEF FramesUnmixed, Exempt
<1> QED BY <1>1, <1>2, FinishKeepsLock

(* Closing and stopping may close the socket, and touch nothing else here. *)
LEMMA CloseKeepsLock ==
  ASSUME LockInv, ServerClose \/ ClientClose \/ ClientFree \/ Stop \/ Waiting
  PROVE  LockInv'
<1>1. /\ UNCHANGED <<mutex, writing, due, torn, accept_gzip, pc>>
      /\ sock' \in {sock, "closed"}
  BY DEF ServerClose, ClientClose, ClientFree, Stop, Waiting, SeesReady, WaitReturns, shared, config, lock,
         wire
<1> QED BY <1>1 DEF LockInv, LockTypes, LargeIsGiven, WriterHolds, ReaderWrites, MutexInUse,
                    DueHasWriter, FramesUnmixed, Exempt

LEMMA LockStep == LockInv /\ [Next]_vars => LockInv'
<1> SUFFICES ASSUME LockInv, [Next]_vars PROVE LockInv' OBVIOUS
<1>1. CASE UNCHANGED vars
  BY <1>1, LockQuietKeeps DEF vars, allButPc, shared, config, lock, wire, LockQuiet
<1>2. CASE \/ Refuse \/ Accept \/ ReadyReturns \/ HandlerReturns \/ ReaderLeaves
           \/ LoopEnds \/ NeedMore \/ TakeFrame \/ HandlePong \/ CallHandler
           \/ CannotInflate \/ InflateSpins \/ Recv \/ RecvFails
           \/ OverflowRecv \/ OverflowFails \/ UseFreed
  BY <1>2, ReaderIsQuiet, LockQuietKeeps
<1>3. CASE HandlePing BY <1>3, ControlKeepsLock DEF HandlePing, ReaderAt
<1>4. CASE RecvTimeout
  <2>1. pc = "recv" BY <1>4 DEF RecvTimeout, ReaderAt
  <2>2. CASE SendControl("ping", "empty") BY <2>1, <2>2, ControlKeepsLock
  <2>3. CASE Go("loop") \/ Go("left")
    <3>1. LockQuiet
      BY <2>1, <2>3 DEF Go, allButPc, shared, config, lock, wire, LockQuiet, LockInv, ReaderWrites
    <3> QED BY <3>1, LockQuietKeeps
  <2> QED BY <1>4, <2>2, <2>3 DEF RecvTimeout
<1>5. ASSUME NEW w \in Everyone, BeginWrite(w) \/ Writing(w) PROVE LockInv'
  BY <1>5, SocketConstants, BeginKeepsLock, LockWriteKeepsLock, HeadKeepsLock, PayloadKeepsLock,
     FailKeepsLock DEF Writing
<1>6. CASE ServerClose \/ ClientClose \/ ClientFree \/ Stop \/ Waiting
  BY <1>6, CloseKeepsLock
<1> QED BY <1>1, <1>2, <1>3, <1>4, <1>5, <1>6 DEF Next, Reading, Receiving, Closing

(* Whatever the coroutines do, the mutex is only held by one that is       *)
(* writing, and what is lost was lost for want of a deflater.              *)
THEOREM MutexIsInUse == Spec => []MutexInUse
<1>1. LockInv => MutexInUse BY DEF LockInv
<1> QED BY <1>1, LockInit, LockStep, PTL DEF Spec

(* Any number of coroutines may write: their frames do not mix. *)
THEOREM FramesNeverMix == Spec => []FramesUnmixed
<1>1. LockInv => FramesUnmixed BY DEF LockInv
<1> QED BY <1>1, LockInit, LockStep, PTL DEF Spec

-----------------------------------------------------------------------------
(* PINGs without an answer. *)

NoHeader == \A i \in 1..Len(frames) : ~ FrameAt(i)

(* Once a PING is out unanswered, the reader is at its socket with no      *)
(* whole header queued, or has left the loop.                              *)
PingInv ==
  /\ ping_count \in Nat /\ unanswered \in Nat
  /\ pc \in {"recv", "ping"} => NoHeader
  /\ \/ unanswered = 0
     \/ pc \in {"recv", "ping", "left", "closed", "crashed"}
     \/ pc = "loop" /\ NoHeader
  /\ unanswered <= ping_count
  /\ ping_count <= MaxUnansweredPing + 1
  /\ pc = "ping" => ping_count <= MaxUnansweredPing

LEMMA PingInit == Init => PingInv
BY SocketConstants DEF SocketConstants, Init, PingInv

(* Steps that keep the counts and the queue and move the reader, if at     *)
(* all, to a place where an unanswered PING does no harm.                  *)
PingQuiet ==
  /\ UNCHANGED <<ping_count, unanswered, frames, at, queued>>
  /\ \/ pc' = pc
     \/ pc' \in {"left", "closed", "crashed"}
     \/ pc \in {"recv", "ping"} /\ pc' = "loop"
     \/ pc = "loop" /\ NoHeader /\ pc' = "recv"
     \/ unanswered = 0 /\ pc' \notin {"recv", "ping"}

LEMMA PingQuietKeeps == ASSUME PingInv, PingQuiet PROVE PingInv'
<1>1. NoHeader' = NoHeader BY DEF PingQuiet, NoHeader, FrameAt
<1> QED BY <1>1 DEF PingInv, PingQuiet

LEMMA PingStep == PingInv /\ [Next]_vars => PingInv'
<1> SUFFICES ASSUME PingInv, [Next]_vars PROVE PingInv' OBVIOUS
<1> USE DEF PingInv, ReaderAt, Go, allButPc, shared, config, queue, pings, message
<1>1. CASE \/ UNCHANGED vars \/ Refuse \/ Accept \/ ReadyReturns \/ HandlerReturns
           \/ ReaderLeaves \/ LoopEnds \/ NeedMore \/ CallHandler
           \/ CannotInflate \/ InflateSpins \/ RecvFails \/ OverflowFails \/ UseFreed
  <2>1. PingQuiet
    BY <1>1 DEF PingQuiet, vars, Refuse, Accept, ReadyReturns, HandlerReturns, ReaderLeaves,
                LoopEnds, NeedMore, NoHeader, CallHandler, CannotInflate, InflateSpins,
                RecvFails, OverflowFails, UseFreed
  <2> QED BY <2>1, PingQuietKeeps
<1>2. CASE \/ ServerClose \/ ClientClose \/ ClientFree \/ Stop \/ Waiting
           \/ \E w \in Everyone : BeginWrite(w) \/ LockWrite(w)
  <2>1. PingQuiet
    BY <1>2 DEF PingQuiet, ServerClose, ClientClose, ClientFree, Stop, Waiting, SeesReady, WaitReturns,
                BeginWrite, LockWrite
  <2> QED BY <2>1, PingQuietKeeps
<1>3. CASE TakeFrame
  (* A whole header is queued, so no PING is unanswered. *)
  <2>1. ~ NoHeader /\ pc = "loop" BY <1>3 DEF TakeFrame, NoHeader
  <2>2. unanswered = 0 BY <2>1
  <2>3. /\ UNCHANGED <<ping_count, unanswered>> /\ pc' \in {"message", "overflow"}
    BY <1>3 DEF TakeFrame
  <2> QED BY <2>2, <2>3
<1>4. CASE HandlePong
  BY <1>4, SocketConstants DEF HandlePong, SocketConstants
<1>5. CASE HandlePing
  <2>1. PingQuiet BY <1>5 DEF HandlePing, SendControl, PingQuiet
  <2> QED BY <2>1, PingQuietKeeps
<1>6. CASE Recv
  <2>1. ping_count' = 0 /\ unanswered' = 0 /\ pc' = "loop" BY <1>6 DEF Recv
  <2> QED BY <2>1, SocketConstants DEF SocketConstants
<1>7. CASE OverflowRecv
  <2>1. ping_count' = ping_count /\ unanswered' = 0 /\ pc' \in {"overflow", "message"}
    BY <1>7 DEF OverflowRecv
  <2> QED BY <2>1
<1>8. CASE RecvTimeout
  <2>1. pc = "recv" BY <1>8 DEF RecvTimeout
  <2>2. CASE Go("loop") \/ Go("left")
    <3>1. PingQuiet BY <2>1, <2>2 DEF PingQuiet
    <3> QED BY <3>1, PingQuietKeeps
  <2>3. CASE ~ TooManyPings /\ SendControl("ping", "empty")
    <3>1. /\ UNCHANGED <<ping_count, unanswered, frames, at, queued>> /\ pc' = "ping"
      BY <2>3 DEF SendControl
    <3>2. NoHeader' = NoHeader BY <3>1 DEF NoHeader, FrameAt
    <3>3. ping_count <= MaxUnansweredPing
      BY <2>3, SocketConstants DEF TooManyPings, SocketConstants
    <3> QED BY <2>1, <3>1, <3>2, <3>3
  <2> QED BY <1>8, <2>2, <2>3 DEF RecvTimeout
<1>9. ASSUME NEW w \in Everyone, WriteHead(w) \/ WritePayload(w) \/ WriteFails(w) PROVE PingInv'
  <2>1. UNCHANGED <<frames, at, queued>> BY <1>9 DEF WriteHead, WritePayload, WriteFails
  <2>2. NoHeader' = NoHeader BY <2>1 DEF NoHeader, FrameAt
  <2>3. CASE UNCHANGED <<pc, pings>>
    <3>1. PingQuiet BY <2>1, <2>3 DEF PingQuiet
    <3> QED BY <3>1, PingQuietKeeps
  <2>4. ASSUME NEW ok \in BOOLEAN, Finish(w, ok) PROVE PingInv'
    <3>1. CASE w = Reader /\ pc = "ping" /\ ok
      <4>1. ping_count' = ping_count + 1 /\ unanswered' = unanswered + 1 /\ pc' = "loop"
        BY <2>4, <3>1 DEF Finish
      <4> QED BY <2>2, <3>1, <4>1, SocketConstants DEF SocketConstants
    <3>2. CASE ~ (w = Reader /\ pc = "ping" /\ ok)
      <4>1. ping_count' = ping_count /\ unanswered' = unanswered
        BY <2>4, <3>2 DEF Finish
      <4>2. pc' = pc \/ pc' = "left" \/ (pc = "pong" /\ pc' = "loop")
        BY <2>4, <3>2 DEF Finish
      <4>3. PingQuiet BY <2>1, <4>1, <4>2 DEF PingQuiet
      <4> QED BY <4>3, PingQuietKeeps
    <3> QED BY <3>1, <3>2
  <2> QED BY <1>9, <2>3, <2>4 DEF WriteHead, WritePayload, WriteFails
<1> QED BY <1>1, <1>2, <1>3, <1>4, <1>5, <1>6, <1>7, <1>8, <1>9
    DEF Next, Reading, Receiving, Closing, Writing

(* A peer is sent at most MAX_UNANSWERED_PING and one PINGs in a row,      *)
(* whatever frames arrive, whole or in parts, in between.                  *)
THEOREM PingsAreBounded == Spec => []PingsBounded
<1>1. PingInv => PingsBounded BY SocketConstants DEF SocketConstants, PingInv, PingsBounded
<1> QED BY <1>1, PingInit, PingStep, PTL DEF Spec

-----------------------------------------------------------------------------
(* Waiting for a message. *)

WaitersWithReader == \A c \in Waiters : thread[c] = thread[Reader]

(* A flag that is set stands for a message no wait returned for. *)
WaitInv ==
  /\ shown \in Nat /\ answered \in Nat /\ saw \in [Waiters -> Nat]
  /\ is_data_ready \in BOOLEAN /\ seeing \subseteq Waiters
  /\ answered <= shown /\ \A c \in Waiters : saw[c] <= shown
  /\ is_data_ready => answered < shown
  /\ WaitMeansMessage

(* Where nothing of it changes. *)
WaitQuiet == UNCHANGED <<is_data_ready, shown, answered, saw, seeing, thread>>

LEMMA WaitQuietKeeps == ASSUME WaitInv, WaitQuiet PROVE WaitInv'
BY DEF WaitInv, WaitQuiet, WaitMeansMessage

(* The reader makes a message ready while nobody of its thread is between  *)
(* test and clear.                                                         *)
LEMMA ReadyKeepsWait ==
  ASSUME WaitInv, Ready, Runs(Reader), Reader \notin Waiters, UNCHANGED thread
  PROVE  WaitInv'
<1>1. /\ is_data_ready' = TRUE /\ shown' = shown + 1
      /\ UNCHANGED <<seeing, saw, answered, thread>>
  BY DEF Ready
<1>2. /\ shown \in Nat /\ answered \in Nat /\ saw \in [Waiters -> Nat]
      /\ seeing \subseteq Waiters /\ answered <= shown
      /\ \A c \in Waiters : saw[c] <= shown
  BY DEF WaitInv
<1>3. /\ shown' \in Nat /\ answered' <= shown' /\ answered' < shown'
      /\ \A c \in Waiters : saw'[c] <= shown'
  BY <1>1, <1>2
<1>4. WaitMeansMessage'
  <2> SUFFICES ASSUME WaitersWithReader', NEW c \in seeing' PROVE FALSE
    BY DEF WaitMeansMessage, WaitersWithReader
  <2>1. c \in seeing \ {Reader} /\ thread[c] = thread[Reader]
    BY <1>1, <1>2 DEF WaitersWithReader
  <2> QED BY <2>1 DEF Runs
<1> QED BY <1>1, <1>2, <1>3, <1>4 DEF WaitInv

(* A waiter that finds the flag is the only one of its thread to do so. *)
LEMMA SeesKeepsWait == ASSUME WaitInv, NEW c \in Waiters, SeesReady(c) PROVE WaitInv'
<1>1. /\ seeing' = seeing \cup {c}
      /\ saw' = [saw EXCEPT ![c] = IF is_data_ready THEN shown ELSE 0]
      /\ UNCHANGED <<is_data_ready, shown, answered, thread>>
  BY DEF SeesReady, shared, config
<1>2. /\ shown \in Nat /\ answered \in Nat /\ saw \in [Waiters -> Nat]
      /\ is_data_ready \in BOOLEAN /\ seeing \subseteq Waiters /\ answered <= shown
      /\ \A d \in Waiters : saw[d] <= shown
      /\ is_data_ready => answered < shown
  BY DEF WaitInv
<1>3. /\ saw' \in [Waiters -> Nat]
      /\ \A d \in Waiters : saw'[d] = IF d = c THEN IF is_data_ready THEN shown ELSE 0 ELSE saw[d]
  BY <1>1, <1>2
<1>4. \A d \in Waiters : saw'[d] <= shown' BY <1>1, <1>2, <1>3
<1>5. WaitMeansMessage'
  <2> SUFFICES ASSUME WaitersWithReader', NEW d \in seeing', saw'[d] # 0
               PROVE  saw'[d] = shown' /\ saw'[d] > answered'
    BY DEF WaitMeansMessage, WaitersWithReader
  <2>1. WaitersWithReader BY <1>1 DEF WaitersWithReader
  <2>2. CASE d = c
    <3>1. is_data_ready /\ saw'[d] = shown BY <1>2, <1>3, <2>2
    <3> QED BY <1>1, <1>2, <3>1
  <2>3. CASE d # c
    <3>1. d \in seeing /\ saw[d] # 0 BY <1>1, <1>2, <1>3, <2>3
    <3>2. saw[d] = shown /\ saw[d] > answered
      BY <2>1, <3>1 DEF WaitInv, WaitMeansMessage, WaitersWithReader
    <3> QED BY <1>1, <1>2, <1>3, <2>3, <3>1, <3>2
  <2> QED BY <2>2, <2>3
<1> QED BY <1>1, <1>2, <1>3, <1>4, <1>5 DEF WaitInv

(* Nobody else of its thread is where it was when it clears the flag. *)
LEMMA ReturnKeepsWait == ASSUME WaitInv, NEW c \in Waiters, WaitReturns(c) PROVE WaitInv'
<1>1. /\ c \in seeing /\ seeing' = seeing \ {c} /\ is_data_ready' = FALSE
      /\ answered' = IF saw[c] = 0 THEN answered ELSE saw[c]
      /\ saw' = [saw EXCEPT ![c] = 0]
      /\ UNCHANGED <<shown, thread>>
      /\ Runs(c)
  BY DEF WaitReturns, ClearReady, shared, config
<1>2. /\ shown \in Nat /\ answered \in Nat /\ saw \in [Waiters -> Nat]
      /\ seeing \subseteq Waiters /\ answered <= shown
      /\ \A d \in Waiters : saw[d] <= shown
  BY DEF WaitInv
<1>3. /\ saw' \in [Waiters -> Nat]
      /\ \A d \in Waiters : saw'[d] = IF d = c THEN 0 ELSE saw[d]
  BY <1>1, <1>2
<1>4. answered' \in Nat /\ answered' <= shown' /\ \A d \in Waiters : saw'[d] <= shown'
  BY <1>1, <1>2, <1>3
<1>5. WaitMeansMessage'
  <2> SUFFICES ASSUME WaitersWithReader', NEW d \in seeing' PROVE FALSE
    BY DEF WaitMeansMessage, WaitersWithReader
  <2>1. d \in seeing \ {c} /\ thread[d] = thread[c]
    BY <1>1, <1>2 DEF WaitersWithReader
  <2> QED BY <1>1, <2>1 DEF Runs
<1> QED BY <1>1, <1>2, <1>3, <1>4, <1>5 DEF WaitInv

LEMMA WaitStep == WaitInv /\ [Next]_vars => WaitInv'
<1> SUFFICES ASSUME WaitInv, [Next]_vars PROVE WaitInv' OBVIOUS
<1> USE DEF wait, Go, allButPc, shared, config
<1>1. CASE \/ UNCHANGED vars \/ Refuse \/ Accept \/ ReadyReturns \/ ReaderLeaves
           \/ LoopEnds \/ NeedMore \/ TakeFrame \/ HandlePong \/ HandlePing
           \/ CallHandler \/ InflateSpins
  <2>1. WaitQuiet
    BY <1>1 DEF WaitQuiet, vars, Refuse, Accept, ReadyReturns, ReaderLeaves, LoopEnds, NeedMore,
                TakeFrame, HandlePong, HandlePing, SendControl, CallHandler, InflateSpins
  <2> QED BY <2>1, WaitQuietKeeps
<1>2. CASE HandlerReturns \/ CannotInflate
  <2>1. Ready /\ Runs(Reader) /\ UNCHANGED thread
    BY <1>2 DEF HandlerReturns, CannotInflate, ReaderAt
  <2> QED BY <2>1, ReadyKeepsWait, SocketConstants DEF SocketConstants
<1>3. CASE Receiving \/ OverflowRecv \/ OverflowFails
  <2>1. WaitQuiet
    BY <1>3 DEF WaitQuiet, Receiving, Recv, RecvFails, RecvTimeout, SendControl, OverflowRecv,
                OverflowFails
  <2> QED BY <2>1, WaitQuietKeeps
<1>4. ASSUME NEW w \in Everyone, BeginWrite(w) \/ Writing(w) PROVE WaitInv'
  <2>1. WaitQuiet
    BY <1>4 DEF WaitQuiet, BeginWrite, Writing, LockWrite, WriteHead, WritePayload, WriteFails
  <2> QED BY <2>1, WaitQuietKeeps
<1>5. CASE Closing
  <2>1. WaitQuiet
    BY <1>5 DEF WaitQuiet, Closing, ServerClose, ClientClose, ClientFree, UseFreed, Stop
  <2> QED BY <2>1, WaitQuietKeeps
<1>6. CASE Waiting BY <1>6, SeesKeepsWait, ReturnKeepsWait DEF Waiting
<1> QED BY <1>1, <1>2, <1>3, <1>4, <1>5, <1>6 DEF Next, Reading

LEMMA WaitInit == Init => WaitInv
<1> SUFFICES ASSUME Init PROVE WaitInv OBVIOUS
<1>1. /\ shown = 0 /\ answered = 0 /\ saw = [c \in Waiters |-> 0] /\ seeing = {}
      /\ is_data_ready = FALSE
  BY DEF Init
<1>2. WaitMeansMessage BY <1>1 DEF WaitMeansMessage
<1>3. saw \in [Waiters -> Nat] /\ \A c \in Waiters : saw[c] <= shown BY <1>1
<1>4. seeing \subseteq Waiters /\ is_data_ready \in BOOLEAN /\ ~ is_data_ready BY <1>1
<1>5. shown \in Nat /\ answered \in Nat /\ answered <= shown BY <1>1
<1> QED BY <1>2, <1>3, <1>4, <1>5 DEF WaitInv

(* However many coroutines wait, on the thread of the reader each wait     *)
(* that found the flag returns for the last message, and alone.            *)
THEOREM WaitReturnsForMessage == Spec => []WaitMeansMessage
<1>1. WaitInv => WaitMeansMessage BY DEF WaitInv
<1> QED BY <1>1, WaitInit, WaitStep, PTL DEF Spec

-----------------------------------------------------------------------------
(* The queue. *)

Streaming == frames \in Seq(Frame) /\ WellPlaced(frames)

(* A frame begins here, or the stream ends. *)
FrameBegins(p) == p = StreamEnd \/ \E i \in 1..Len(frames) : frames[i].start = p

(* Where the reader does not use the queue any more. *)
OutOfLoop == {"left", "closed", "crashed", "spin"}

(* Between frames the queue begins with one and ends with the last byte    *)
(* off the socket; in the overflow case the frame is known and incomplete. *)
QueueInv ==
  /\ Streaming
  /\ at \in Nat /\ queued \in 0..Room /\ got \in Nat
  /\ pc \notin OutOfLoop \cup {"overflow"} => at + queued = got /\ FrameBegins(at)
  /\ pc = "overflow" => cur \in 1..Len(frames) /\ got < frames[cur].end

(* Behind a frame the next one begins. *)
LEMMA BehindFrame ==
  ASSUME Streaming, NEW i \in 1..Len(frames)
  PROVE  /\ frames[i].start \in Nat /\ frames[i].body \in Nat /\ frames[i].end \in Nat
         /\ frames[i].start < frames[i].body /\ frames[i].body <= frames[i].end
         /\ FrameBegins(frames[i].end)
<1>1. frames[i] \in Frame BY DEF Streaming
<1>2. frames[i].start \in Nat /\ frames[i].body \in Nat /\ frames[i].end \in Nat
  BY <1>1 DEF Frame
<1>3. frames[i].start < frames[i].body /\ frames[i].body <= frames[i].end
  BY DEF Streaming, WellPlaced
<1>4. Len(frames) \in Nat /\ frames # <<>> BY DEF Streaming
<1>5. CASE i = Len(frames)
  <2>1. frames[i].end = StreamEnd BY <1>4, <1>5 DEF StreamEnd
  <2> QED BY <1>2, <1>3, <2>1 DEF FrameBegins
<1>6. CASE i < Len(frames)
  <2>1. i + 1 \in 1..Len(frames) /\ i + 1 # 1 /\ (i + 1) - 1 = i BY <1>4, <1>6
  <2>2. frames[i + 1].start = frames[(i + 1) - 1].end
    BY <2>1 DEF Streaming, WellPlaced
  <2>3. frames[i + 1].start = frames[i].end BY <2>1, <2>2
  <2> QED BY <1>2, <1>3, <2>1, <2>3 DEF FrameBegins
<1> QED BY <1>4, <1>5, <1>6

LEMMA QueueInit == Init => QueueInv
<1> SUFFICES ASSUME Init PROVE QueueInv OBVIOUS
<1>1. Streaming BY SocketConstants DEF SocketConstants, Init, Streaming
<1>2. at = 0 /\ queued = 0 /\ got = 0 /\ pc = "upgrade" BY DEF Init
<1>3. FrameBegins(0)
  <2>1. CASE frames = <<>> BY <2>1 DEF FrameBegins, StreamEnd
  <2>2. CASE frames # <<>>
    <3>1. 1 \in 1..Len(frames) BY <1>1, <2>2 DEF Streaming
    <3>2. frames[1].start = 0 BY <1>1, <3>1 DEF Streaming, WellPlaced
    <3> QED BY <3>1, <3>2 DEF FrameBegins
  <2> QED BY <2>1, <2>2
<1> QED BY <1>1, <1>2, <1>3, SocketConstants DEF QueueInv, SocketConstants

QueueQuiet ==
  /\ UNCHANGED <<frames, at, queued, got>>
  /\ \/ pc' = pc /\ cur' = cur
     \/ pc' \in OutOfLoop
     \/ pc \notin OutOfLoop \cup {"overflow"} /\ pc' # "overflow"

LEMMA QueueQuietKeeps == ASSUME QueueInv, QueueQuiet PROVE QueueInv'
<1>1. Streaming' BY DEF QueueInv, QueueQuiet, Streaming, WellPlaced
<1>2. FrameBegins(at)' = FrameBegins(at) BY DEF QueueQuiet, FrameBegins, StreamEnd
<1> QED BY <1>1, <1>2 DEF QueueInv, QueueQuiet, OutOfLoop

LEMMA TakeKeepsQueue == ASSUME QueueInv, TakeFrame PROVE QueueInv'
<1>1. PICK i \in 1..Len(frames) :
        /\ FrameAt(i) /\ cur' = i
        /\ \/ /\ frames[i].end <= at + queued
              /\ at' = at + FrameLen(frames[i])
              /\ queued' = queued - FrameLen(frames[i])
              /\ pc' = "message"
           \/ /\ frames[i].end > at + queued
              /\ pc' = "overflow"
              /\ UNCHANGED <<at, queued>>
  BY DEF TakeFrame
<1>2. /\ pc = "loop" /\ UNCHANGED <<frames, got>>
  BY DEF TakeFrame, ReaderAt, shared, config
<1>3. /\ Streaming /\ at \in Nat /\ queued \in Nat /\ queued <= Room /\ got \in Nat
      /\ at + queued = got
  BY <1>2 DEF QueueInv, OutOfLoop
<1>4. /\ frames[i].end \in Nat /\ frames[i].start \in Nat /\ frames[i].start = at
      /\ frames[i].start < frames[i].end /\ FrameBegins(frames[i].end)
  BY <1>1, <1>3, BehindFrame DEF FrameAt
<1>5. Streaming' BY <1>2, <1>3 DEF Streaming, WellPlaced
<1>7. CASE pc' = "message"
  <2>1. /\ frames[i].end <= at + queued
        /\ at' = at + (frames[i].end - frames[i].start)
        /\ queued' = queued - (frames[i].end - frames[i].start)
    BY <1>1, <1>7 DEF FrameLen
  <2>2. at' = frames[i].end /\ queued' \in 0..Room /\ at' + queued' = got'
    BY <1>2, <1>3, <1>4, <2>1, SocketConstants DEF SocketConstants
  <2>3. FrameBegins(at)' BY <1>2, <1>4, <2>2 DEF FrameBegins, StreamEnd
  <2> QED BY <1>2, <1>3, <1>4, <1>5, <1>7, <2>2, <2>3 DEF QueueInv
<1>8. CASE pc' = "overflow"
  <2>1. UNCHANGED <<at, queued>> /\ frames[i].end > got BY <1>1, <1>3, <1>8
  <2>2. cur' \in 1..Len(frames') /\ got' < frames'[cur'].end
    BY <1>1, <1>2, <1>3, <1>4, <2>1
  <2> QED BY <1>2, <1>3, <1>5, <1>8, <2>1, <2>2 DEF QueueInv
<1> QED BY <1>1, <1>7, <1>8

(* The read that completes the frame takes exactly what was missing of it. *)
LEMMA OverflowKeepsQueue == ASSUME QueueInv, OverflowRecv PROVE QueueInv'
<1>1. /\ pc = "overflow" /\ UNCHANGED <<frames, cur>>
  BY DEF OverflowRecv, ReaderAt, shared, config
<1>2. /\ Streaming /\ at \in Nat /\ queued \in 0..Room /\ got \in Nat
      /\ cur \in 1..Len(frames) /\ got < frames[cur].end
  BY <1>1 DEF QueueInv
<1>3. frames[cur].end \in Nat /\ FrameBegins(frames[cur].end) BY <1>2, BehindFrame
<1> DEFINE missing == frames[cur].end - got
<1>4. PICK n \in 1..Least2(missing, StreamEnd - got) :
        /\ got' = got + n
        /\ \/ n < missing /\ UNCHANGED <<pc, at, queued>>
           \/ n = missing /\ pc' = "message" /\ at' = got + n /\ queued' = 0
  BY DEF OverflowRecv
<1>5. n \in Nat
  <2>1. n \in Int /\ 1 <= n BY <1>4
  <2> QED BY <2>1
<1>6. Streaming' BY <1>1, <1>2 DEF Streaming, WellPlaced
<1>7. CASE n < missing /\ UNCHANGED <<pc, at, queued>>
  <2>1. got' \in Nat /\ got' < frames[cur].end BY <1>2, <1>3, <1>4, <1>5, <1>7
  <2> QED BY <1>1, <1>2, <1>6, <1>7, <2>1 DEF QueueInv
<1>8. CASE n = missing /\ pc' = "message" /\ at' = got + n /\ queued' = 0
  <2>1. got' = frames[cur].end /\ at' = frames[cur].end /\ at' + queued' = got'
    BY <1>2, <1>3, <1>4, <1>8
  <2>2. FrameBegins(at)' BY <1>1, <1>3, <2>1 DEF FrameBegins, StreamEnd
  <2>3. queued' \in 0..Room BY <1>8, SocketConstants DEF SocketConstants
  <2> QED BY <1>3, <1>6, <1>8, <2>1, <2>2, <2>3 DEF QueueInv
<1> QED BY <1>4, <1>7, <1>8

(* A read never asks for more than the room behind the queue. *)
LEMMA RecvKeepsQueue == ASSUME QueueInv, Recv PROVE QueueInv'
<1>1. /\ pc = "recv" /\ pc' = "loop" /\ UNCHANGED <<frames, at>>
  BY DEF Recv, ReaderAt, shared, config
<1>2. /\ Streaming /\ at \in Nat /\ queued \in 0..Room /\ got \in Nat
      /\ at + queued = got /\ FrameBegins(at)
  BY <1>1 DEF QueueInv, OutOfLoop
<1>3. PICK n \in 1..Least2(Free, StreamEnd - got) : got' = got + n /\ queued' = queued + n
  BY DEF Recv
<1>4. StreamEnd \in Nat
  <2>1. CASE frames = <<>> BY <2>1 DEF StreamEnd
  <2>2. CASE frames # <<>>
    <3>1. Len(frames) \in 1..Len(frames) BY <1>2, <2>2 DEF Streaming
    <3> QED BY <1>2, <2>2, <3>1, BehindFrame DEF StreamEnd
  <2> QED BY <2>1, <2>2
<1>5. n \in Nat /\ n <= Room - queued
  BY <1>2, <1>3, <1>4, SocketConstants DEF Least2, Free, SocketConstants
<1>6. got' \in Nat /\ queued' \in 0..Room /\ at' + queued' = got'
  BY <1>1, <1>2, <1>3, <1>5, SocketConstants DEF SocketConstants
<1>7. Streaming' /\ FrameBegins(at)'
  BY <1>1, <1>2 DEF Streaming, WellPlaced, FrameBegins, StreamEnd
<1> QED BY <1>1, <1>2, <1>6, <1>7 DEF QueueInv

LEMMA QueueStep == QueueInv /\ [Next]_vars => QueueInv'
<1> SUFFICES ASSUME QueueInv, [Next]_vars PROVE QueueInv' OBVIOUS
<1> USE DEF ReaderAt, Go, allButPc, shared, config, queue, message, OutOfLoop
<1>1. CASE \/ UNCHANGED vars \/ Refuse \/ Accept \/ ReadyReturns \/ HandlerReturns
           \/ ReaderLeaves \/ LoopEnds \/ NeedMore \/ HandlePong \/ HandlePing \/ CallHandler
           \/ CannotInflate \/ InflateSpins \/ RecvFails \/ OverflowFails \/ UseFreed
  <2>1. QueueQuiet
    BY <1>1 DEF QueueQuiet, vars, Refuse, Accept, ReadyReturns, HandlerReturns, ReaderLeaves,
                LoopEnds, NeedMore, HandlePong, HandlePing, SendControl, CallHandler,
                CannotInflate, InflateSpins, RecvFails, OverflowFails, UseFreed
  <2> QED BY <2>1, QueueQuietKeeps
<1>2. CASE \/ ServerClose \/ ClientClose \/ ClientFree \/ Stop \/ Waiting
           \/ \E w \in Everyone : BeginWrite(w) \/ LockWrite(w)
  <2>1. QueueQuiet
    BY <1>2 DEF QueueQuiet, ServerClose, ClientClose, ClientFree, Stop, Waiting, SeesReady, WaitReturns,
                BeginWrite, LockWrite
  <2> QED BY <2>1, QueueQuietKeeps
<1>3. CASE RecvTimeout
  <2>1. QueueQuiet BY <1>3 DEF QueueQuiet, RecvTimeout, SendControl
  <2> QED BY <2>1, QueueQuietKeeps
<1>4. ASSUME NEW w \in Everyone, WriteHead(w) \/ WritePayload(w) \/ WriteFails(w) PROVE QueueInv'
  <2>1. UNCHANGED <<frames, at, queued, got, cur>>
    BY <1>4 DEF WriteHead, WritePayload, WriteFails
  <2>2. pc' = pc \/ (pc \in {"ping", "pong"} /\ pc' \in {"loop", "left"})
    BY <1>4 DEF WriteHead, WritePayload, WriteFails, Finish
  <2>3. QueueQuiet BY <2>1, <2>2 DEF QueueQuiet
  <2> QED BY <2>3, QueueQuietKeeps
<1> QED BY <1>1, <1>2, <1>3, <1>4, TakeKeepsQueue, OverflowKeepsQueue, RecvKeepsQueue
    DEF Next, Reading, Receiving, Closing, Writing

(* For every stream, however the network splits it: where the reader looks *)
(* for a header there is one, or the end of what was read.                 *)
THEOREM QueueBeginsAtFrame == Spec => []QueueAtFrame
<1>1. QueueInv => QueueAtFrame
  BY DEF QueueInv, QueueAtFrame, FrameBegins, OutOfLoop
<1> QED BY <1>1, QueueInit, QueueStep, PTL DEF Spec

-----------------------------------------------------------------------------
(* The frames of a stream. *)

LEMMA LeastNat ==
  ASSUME NEW s \in SUBSET Nat, s # {}
  PROVE  \E i \in s : \A j \in s : i <= j
<1>1. IsWellFoundedOn({r \in Nat \X Nat : r[1] < r[2]}, Nat)
  BY NatLessThanWellFounded DEF OpToRel
<1>2. PICK i \in s : \A j \in s : ~ (<<j, i>> \in {r \in Nat \X Nat : r[1] < r[2]})
  BY <1>1, WFMin
<1>3. \A j \in s : ~ (j < i) BY <1>2
<1> QED BY <1>3

(* A frame ends before any later one begins. *)
LEMMA InOrder ==
  ASSUME Streaming, NEW i \in 1..Len(frames), NEW j \in 1..Len(frames), i < j
  PROVE  frames[i].end <= frames[j].start
<1> DEFINE Bad == {d \in 1..Len(frames) : i < d /\ ~ (frames[i].end <= frames[d].start)}
<1> SUFFICES ASSUME Bad # {} PROVE FALSE OBVIOUS
<1>1. Bad \in SUBSET Nat OBVIOUS
<1>2. PICK d \in Bad : \A e \in Bad : d <= e
  <2> HIDE DEF Bad
  <2> QED BY <1>1, LeastNat
<1>3. d \in 1..Len(frames) /\ i < d /\ ~ (frames[i].end <= frames[d].start) OBVIOUS
<1>4. d - 1 \notin Bad
  <2> HIDE DEF Bad
  <2>1. d \in Nat /\ ~ (d <= d - 1) BY <1>1, <1>2
  <2> QED BY <1>2, <2>1
<1>5. /\ Len(frames) \in Nat /\ d - 1 \in 1..Len(frames) /\ d # 1
      /\ frames[d].start = frames[d - 1].end
  BY <1>3 DEF Streaming, WellPlaced
<1>6. CASE d - 1 = i BY <1>3, <1>5, <1>6, BehindFrame
<1>7. CASE d - 1 # i
  <2>1. i < d - 1 BY <1>3, <1>5, <1>7
  <2>2. frames[i].end <= frames[d - 1].start BY <1>4, <1>5, <2>1
  <2>3. /\ frames[d - 1].start < frames[d - 1].body /\ frames[d - 1].body <= frames[d - 1].end
        /\ frames[d - 1].start \in Nat /\ frames[d - 1].body \in Nat
        /\ frames[d - 1].end \in Nat /\ frames[i].end \in Nat
    BY <1>5, BehindFrame
  <2> QED BY <1>3, <1>5, <2>2, <2>3
<1> QED BY <1>6, <1>7

EndOf(k) == IF k = 0 THEN 0 ELSE frames[k].end

(* The frame that begins where the k-th ends is the next one. *)
LEMMA NextFrame ==
  ASSUME Streaming, NEW k \in 0..Len(frames), NEW i \in 1..Len(frames),
         frames[i].start = EndOf(k)
  PROVE  i = k + 1
<1>1. Len(frames) \in Nat BY DEF Streaming
<1>2. /\ frames[i].start \in Nat /\ frames[i].body \in Nat /\ frames[i].end \in Nat
      /\ frames[i].start < frames[i].body /\ frames[i].body <= frames[i].end
  BY BehindFrame
<1>3. CASE i <= k
  <2>1. k \in 1..Len(frames) /\ EndOf(k) = frames[k].end BY <1>1, <1>3 DEF EndOf
  <2>2. CASE i = k BY <1>2, <2>1, <2>2
  <2>3. CASE i < k
    <3>1. frames[i].end <= frames[k].start BY <2>1, <2>3, InOrder
    <3>2. /\ frames[k].start \in Nat /\ frames[k].body \in Nat /\ frames[k].end \in Nat
          /\ frames[k].start < frames[k].body /\ frames[k].body <= frames[k].end
      BY <2>1, BehindFrame
    <3> QED BY <1>2, <2>1, <3>1, <3>2
  <2> QED BY <1>1, <1>3, <2>2, <2>3
<1>4. CASE i > k + 1
  <2>1. k + 1 \in 1..Len(frames) /\ k + 1 < i BY <1>1, <1>4
  <2>2. frames[k + 1].end <= frames[i].start BY <2>1, InOrder
  <2>3. frames[k + 1].start = EndOf(k)
    <3>1. (k + 1) - 1 = k BY <1>1
    <3>2. k + 1 = 1 <=> k = 0 BY <1>1
    <3> QED BY <2>1, <3>1, <3>2 DEF Streaming, WellPlaced, EndOf
  <2>4. /\ frames[k + 1].start \in Nat /\ frames[k + 1].body \in Nat
        /\ frames[k + 1].end \in Nat
        /\ frames[k + 1].start < frames[k + 1].body
        /\ frames[k + 1].body <= frames[k + 1].end
    BY <2>1, BehindFrame
  <2> QED BY <1>2, <2>2, <2>3, <2>4
<1> QED BY <1>1, <1>3, <1>4

LEMMA WithinStream ==
  ASSUME Streaming
  PROVE  StreamEnd \in Nat /\ \A i \in 1..Len(frames) : frames[i].end <= StreamEnd
<1>1. Len(frames) \in Nat BY DEF Streaming
<1>2. CASE frames = <<>> BY <1>2 DEF StreamEnd
<1>3. CASE frames # <<>>
  <2>1. Len(frames) \in 1..Len(frames) BY <1>1, <1>3 DEF Streaming
  <2>2. StreamEnd = frames[Len(frames)].end BY <1>3 DEF StreamEnd
  <2>3. /\ frames[Len(frames)].start \in Nat /\ frames[Len(frames)].body \in Nat
        /\ frames[Len(frames)].end \in Nat
        /\ frames[Len(frames)].start < frames[Len(frames)].body
        /\ frames[Len(frames)].body <= frames[Len(frames)].end
    BY <2>1, BehindFrame
  <2>4. ASSUME NEW i \in 1..Len(frames) PROVE frames[i].end <= StreamEnd
    <3>1. CASE i = Len(frames) BY <2>2, <2>3, <3>1
    <3>2. CASE i < Len(frames)
      <4>1. frames[i].end <= frames[Len(frames)].start BY <2>1, <3>2, InOrder
      <4>2. frames[i].end \in Nat BY BehindFrame
      <4> QED BY <2>2, <2>3, <4>1, <4>2
    <3> QED BY <1>1, <3>1, <3>2
  <2> QED BY <2>2, <2>3, <2>4
<1> QED BY <1>2, <1>3

-----------------------------------------------------------------------------
(* The payload of a frame and the order of the frames. *)

Shown == [op : {"data", "close", "ping", "pong"}, data : SUBSET Nat, intact : BOOLEAN]

LastShown == delivered[Len(delivered)]

(* Nothing shown so far ends the loop. *)
Heard == delivered # <<>> => LastShown.intact /\ LastShown.op # "close"

(* Frames are taken one behind the other; a payload is put together from   *)
(* the queue and the reads of the overflow case without a gap.             *)
ReadInv ==
  /\ cur \in 0..Len(frames)
  /\ delivered \in Seq(Shown)
  /\ pc \notin OutOfLoop \cup {"overflow"} => at = EndOf(cur)
  /\ pc = "overflow" =>
       cur # 0 /\ frames[cur].body <= got /\ data = (frames[cur].body + 1)..got
  /\ pc = "message" => cur # 0 /\ data = (frames[cur].body + 1)..frames[cur].end
  /\ pc \notin OutOfLoop \cup {"handler"} => Heard
  /\ pc = "handler" =>
       delivered # <<>> /\ LastShown.op = frames[cur].op

(* Steps that take no frame and show none. *)
ReadQuiet ==
  /\ UNCHANGED <<frames, cur, delivered>>
  /\ \/ UNCHANGED <<pc, at, got, data>>
     \/ pc' \in OutOfLoop
     \/ /\ pc \notin OutOfLoop \cup {"overflow", "handler"}
        /\ pc' \notin {"overflow", "message", "handler"}
        /\ UNCHANGED at

LEMMA ReadQuietKeeps == ASSUME ReadInv, ReadQuiet PROVE ReadInv'
<1>1. EndOf(cur)' = EndOf(cur) /\ LastShown' = LastShown /\ Heard' = Heard
  BY DEF ReadQuiet, EndOf, LastShown, Heard
<1>2. UNCHANGED <<frames, cur, delivered>> BY DEF ReadQuiet
<1>3. CASE UNCHANGED <<pc, at, got, data>> BY <1>1, <1>2, <1>3 DEF ReadInv
<1>4. CASE pc' \in OutOfLoop BY <1>1, <1>2, <1>4 DEF ReadInv, OutOfLoop
<1>5. CASE /\ pc \notin OutOfLoop \cup {"overflow", "handler"}
           /\ pc' \notin {"overflow", "message", "handler"}
           /\ UNCHANGED at
  BY <1>1, <1>2, <1>5 DEF ReadInv, OutOfLoop
<1> QED BY <1>3, <1>4, <1>5 DEF ReadQuiet

LEMMA ReadInit == Init => ReadInv
<1> SUFFICES ASSUME Init PROVE ReadInv OBVIOUS
<1>1. /\ cur = 0 /\ delivered = <<>> /\ at = 0 /\ pc = "upgrade" /\ frames \in Streams
  BY DEF Init
<1>2. Len(frames) \in Nat BY <1>1, SocketConstants DEF SocketConstants
<1> QED BY <1>1, <1>2 DEF ReadInv, EndOf, Heard

(* The frame that is taken is the one behind the last. *)
LEMMA TakeTakesNext ==
  ASSUME QueueInv, ReadInv, TakeFrame
  PROVE  /\ cur' = cur + 1 /\ cur' \in 1..Len(frames)
         /\ frames[cur'].start = at
         /\ data' = Copied(frames[cur'])
         /\ at + queued = got /\ frames[cur'].body <= got
         /\ \/ /\ pc' = "message" /\ frames[cur'].end <= got
               /\ at' = frames[cur'].end
            \/ /\ pc' = "overflow" /\ frames[cur'].end > got
               /\ UNCHANGED at
<1>1. PICK i \in 1..Len(frames) :
        /\ FrameAt(i) /\ cur' = i /\ data' = Copied(frames[i])
        /\ \/ /\ frames[i].end <= at + queued
              /\ at' = at + FrameLen(frames[i])
              /\ pc' = "message"
           \/ /\ frames[i].end > at + queued
              /\ pc' = "overflow"
              /\ UNCHANGED <<at, queued>>
  BY DEF TakeFrame
<1>2. pc = "loop" BY DEF TakeFrame, ReaderAt
<1>3. /\ Streaming /\ at \in Nat /\ queued \in Nat /\ at + queued = got
      /\ at = EndOf(cur) /\ cur \in 0..Len(frames)
  BY <1>2 DEF QueueInv, ReadInv, OutOfLoop
<1>4. frames[i].start = at /\ frames[i].body - at <= queued BY <1>1 DEF FrameAt
<1>5. i = cur + 1 BY <1>3, <1>4, NextFrame
<1>6. /\ frames[i].start \in Nat /\ frames[i].body \in Nat /\ frames[i].end \in Nat
  BY <1>3, BehindFrame
<1>7. frames[i].body <= got BY <1>3, <1>4, <1>6
<1>8. at + FrameLen(frames[i]) = frames[i].end BY <1>3, <1>4, <1>6 DEF FrameLen
<1> QED BY <1>1, <1>3, <1>4, <1>5, <1>7, <1>8

LEMMA TakeKeepsRead == ASSUME QueueInv, ReadInv, TakeFrame PROVE ReadInv'
<1>1. /\ pc = "loop" /\ UNCHANGED <<frames, got, delivered>>
  BY DEF TakeFrame, ReaderAt, shared, config
<1>2. /\ cur' \in 1..Len(frames)
      /\ data' = (frames[cur'].body + 1)..Least2(frames[cur'].end, got)
      /\ frames[cur'].body <= got
      /\ \/ /\ pc' = "message" /\ frames[cur'].end <= got /\ at' = frames[cur'].end
         \/ /\ pc' = "overflow" /\ frames[cur'].end > got
  BY TakeTakesNext DEF Copied
<1>3. cur' \in 0..Len(frames) /\ cur' # 0 /\ Len(frames) \in Nat
  BY <1>2 DEF QueueInv, Streaming
<1>4. frames[cur'].end \in Nat /\ got \in Nat BY <1>2, BehindFrame DEF QueueInv
<1>5. Heard' BY <1>1 DEF ReadInv, OutOfLoop, Heard, LastShown
<1>6. CASE pc' = "message"
  <2>1. Least2(frames[cur'].end, got) = frames[cur'].end
    BY <1>2, <1>4, <1>6 DEF Least2
  <2>2. EndOf(cur)' = frames[cur'].end BY <1>1, <1>3 DEF EndOf
  <2> QED BY <1>1, <1>2, <1>3, <1>5, <1>6, <2>1, <2>2 DEF ReadInv
<1>7. CASE pc' = "overflow"
  <2>1. Least2(frames[cur'].end, got) = got
    BY <1>2, <1>4, <1>7 DEF Least2
  <2> QED BY <1>1, <1>2, <1>3, <1>5, <1>7, <2>1 DEF ReadInv
<1> QED BY <1>2, <1>6, <1>7

LEMMA Joins ==
  ASSUME NEW a \in Nat, NEW b \in Nat, NEW n \in Nat, a <= b
  PROVE  ((a + 1)..b) \cup ((b + 1)..(b + n)) = (a + 1)..(b + n)
OBVIOUS

LEMMA OverflowKeepsRead == ASSUME QueueInv, ReadInv, OverflowRecv PROVE ReadInv'
<1>1. /\ pc = "overflow" /\ UNCHANGED <<frames, cur, delivered>>
  BY DEF OverflowRecv, ReaderAt, shared, config
<1>2. /\ Streaming /\ got \in Nat /\ cur \in 1..Len(frames) /\ cur # 0 /\ cur \in 0..Len(frames)
      /\ frames[cur].body <= got /\ data = (frames[cur].body + 1)..got
      /\ Heard /\ delivered \in Seq(Shown) /\ got < frames[cur].end
  BY <1>1 DEF QueueInv, ReadInv, OutOfLoop
<1>3. frames[cur].body \in Nat /\ frames[cur].end \in Nat BY <1>2, BehindFrame
<1>4. StreamEnd \in Nat BY <1>2, WithinStream
<1> DEFINE missing == frames[cur].end - got
<1>5. PICK n \in 1..Least2(missing, StreamEnd - got) :
        /\ got' = got + n
        /\ data' = data \cup ((got + 1)..(got + n))
        /\ \/ n < missing /\ UNCHANGED <<pc, at, queued>>
           \/ n = missing /\ pc' = "message" /\ at' = got + n /\ queued' = 0
  BY DEF OverflowRecv
<1>6. n \in Nat
  <2>1. n \in Int /\ 1 <= n BY <1>5
  <2> QED BY <2>1
<1>7. data' = (frames[cur].body + 1)..got' /\ frames[cur].body <= got'
  BY <1>2, <1>3, <1>5, <1>6, Joins
<1>8. Heard' /\ EndOf(cur)' = frames[cur].end
  BY <1>1, <1>2 DEF Heard, LastShown, EndOf
<1>9. CASE n < missing /\ UNCHANGED <<pc, at, queued>>
  BY <1>1, <1>2, <1>7, <1>8, <1>9 DEF ReadInv
<1>10. CASE n = missing /\ pc' = "message" /\ at' = got + n /\ queued' = 0
  <2>1. got' = frames[cur].end /\ at' = frames[cur].end BY <1>2, <1>3, <1>5, <1>10
  <2> QED BY <1>1, <1>2, <1>7, <1>8, <1>10, <2>1 DEF ReadInv
<1> QED BY <1>5, <1>9, <1>10

(* What the handler is called with. *)
AsShown(intact) ==
  [op |-> frames[cur].op, data |-> (frames[cur].body + 1)..frames[cur].end, intact |-> intact]

LEMMA CallShows ==
  ASSUME QueueInv, ReadInv, CallHandler
  PROVE  /\ pc = "message" /\ pc' = "handler" /\ cur \in 1..Len(frames)
         /\ ~ Filtered(frames[cur])
         /\ UNCHANGED <<frames, cur, at, enable_ping_pong>>
         /\ Heard
         /\ delivered' \in Seq(Shown) /\ delivered' # <<>>
         /\ \E intact \in BOOLEAN :
              delivered' = Append(delivered, AsShown(intact)) /\ LastShown' = AsShown(intact)
<1>1. /\ pc = "message" /\ pc' = "handler" /\ ~ Filtered(frames[cur])
      /\ UNCHANGED <<frames, cur, at, enable_ping_pong>>
  BY DEF CallHandler, ReaderAt, shared, config, queue
<1>2. /\ cur \in 1..Len(frames) /\ data = (frames[cur].body + 1)..frames[cur].end
      /\ Heard /\ delivered \in Seq(Shown) /\ Streaming
  BY <1>1 DEF QueueInv, ReadInv, OutOfLoop, Streaming
<1>3. PICK intact \in BOOLEAN :
        delivered' = Append(delivered, [op |-> frames[cur].op, data |-> data, intact |-> intact])
  BY DEF CallHandler
<1> DEFINE shot == AsShown(intact)
<1>4. shot \in Shown
  <2>1. frames[cur] \in Frame BY <1>2 DEF Streaming
  <2>2. frames[cur].op \in {"data", "close", "ping", "pong"} BY <2>1 DEF Frame
  <2>3. data \in SUBSET Nat
    <3>1. frames[cur].body \in Nat /\ frames[cur].end \in Nat BY <1>2, BehindFrame
    <3> QED BY <1>2, <3>1
  <2> QED BY <1>2, <2>2, <2>3 DEF Shown, AsShown
<1>5. delivered' = Append(delivered, shot) BY <1>2, <1>3 DEF AsShown
<1> HIDE DEF shot
<1>6. /\ delivered' \in Seq(Shown) /\ Len(delivered') = Len(delivered) + 1
      /\ delivered'[Len(delivered) + 1] = shot /\ Len(delivered) \in Nat
  BY <1>2, <1>4, <1>5, AppendProperties
<1>7. delivered' # <<>>
  <2> SUFFICES ASSUME delivered' = <<>> PROVE FALSE OBVIOUS
  <2>1. Len(delivered') = 0 BY EmptySeq
  <2> QED BY <1>6, <2>1
<1>8. LastShown' = shot BY <1>6 DEF LastShown
<1> QED BY <1>1, <1>2, <1>5, <1>6, <1>7, <1>8 DEF shot

LEMMA CallKeepsRead == ASSUME QueueInv, ReadInv, CallHandler PROVE ReadInv'
<1>1. LastShown'.op = frames[cur].op
  <2>1. PICK intact \in BOOLEAN : LastShown' = AsShown(intact)
    <3>1. \E intact \in BOOLEAN :
            delivered' = Append(delivered, AsShown(intact)) /\ LastShown' = AsShown(intact)
      BY CallShows
    <3> QED BY <3>1
  <2>2. AsShown(intact).op = frames[cur].op BY DEF AsShown
  <2> QED BY <2>1, <2>2
<1>2. /\ pc = "message" /\ pc' = "handler" /\ UNCHANGED <<frames, cur, at>>
      /\ delivered' \in Seq(Shown) /\ delivered' # <<>>
  BY CallShows
<1>3. cur \in 0..Len(frames) /\ at = EndOf(cur) BY <1>2 DEF ReadInv, OutOfLoop
<1>4. EndOf(cur)' = EndOf(cur) BY <1>2 DEF EndOf
<1> QED BY <1>1, <1>2, <1>3, <1>4 DEF ReadInv

LEMMA ReturnKeepsRead == ASSUME ReadInv, HandlerReturns PROVE ReadInv'
<1>1. /\ pc = "handler" /\ UNCHANGED <<frames, cur, at, delivered, data, got>>
      /\ pc' = "left" \/ (pc' = "loop" /\ ~ MustEnd)
  BY DEF HandlerReturns, ReaderAt, shared, config, queue
<1>2. CASE pc' = "left"
  <2>1. ReadQuiet BY <1>1, <1>2 DEF ReadQuiet, OutOfLoop
  <2> QED BY <2>1, ReadQuietKeeps
<1>3. CASE pc' = "loop" /\ ~ MustEnd
  <2>1. Heard' BY <1>1, <1>3 DEF ReadInv, MustEnd, Heard, LastShown
  <2>2. EndOf(cur)' = EndOf(cur) BY <1>1 DEF EndOf
  <2> QED BY <1>1, <1>3, <2>1, <2>2 DEF ReadInv, OutOfLoop
<1> QED BY <1>1, <1>2, <1>3

(* The other steps. *)
QuietSteps ==
  \/ UNCHANGED vars \/ Refuse \/ Accept \/ ReadyReturns
  \/ ReaderLeaves \/ LoopEnds \/ NeedMore \/ HandlePong \/ HandlePing
  \/ CannotInflate \/ InflateSpins \/ Recv \/ RecvFails \/ RecvTimeout \/ OverflowFails
  \/ ServerClose \/ ClientClose \/ ClientFree \/ UseFreed \/ Stop \/ Waiting
  \/ \E w \in Everyone : BeginWrite(w) \/ Writing(w)

LEMMA QuietIsQuiet == ASSUME QuietSteps PROVE ReadQuiet /\ UNCHANGED enable_ping_pong
<1> USE DEF ReadQuiet, ReaderAt, Go, allButPc, shared, config, queue, message, OutOfLoop
<1>1. CASE \/ UNCHANGED vars \/ Refuse \/ Accept \/ ReadyReturns
           \/ ReaderLeaves \/ LoopEnds \/ NeedMore \/ HandlePong \/ HandlePing
  BY <1>1 DEF vars, Refuse, Accept, ReadyReturns, ReaderLeaves, LoopEnds, NeedMore, HandlePong,
              HandlePing, SendControl
<1>2. CASE CannotInflate \/ InflateSpins \/ Recv \/ RecvFails \/ RecvTimeout \/ OverflowFails
  BY <1>2 DEF CannotInflate, InflateSpins, Recv, RecvFails, RecvTimeout, SendControl,
              OverflowFails
<1>3. CASE ServerClose \/ ClientClose \/ ClientFree \/ UseFreed \/ Stop \/ Waiting
  BY <1>3 DEF ServerClose, ClientClose, ClientFree, UseFreed, Stop, Waiting, SeesReady, WaitReturns
<1>4. ASSUME NEW w \in Everyone, BeginWrite(w) \/ LockWrite(w)
      PROVE  ReadQuiet /\ UNCHANGED enable_ping_pong
  BY <1>4 DEF BeginWrite, LockWrite
<1>5. ASSUME NEW w \in Everyone, WriteHead(w) \/ WritePayload(w) \/ WriteFails(w)
      PROVE  ReadQuiet /\ UNCHANGED enable_ping_pong
  <2>1. UNCHANGED <<frames, at, got, cur, data, delivered, enable_ping_pong>>
    BY <1>5 DEF WriteHead, WritePayload, WriteFails
  <2>2. pc' = pc \/ (pc \in {"ping", "pong"} /\ pc' \in {"loop", "left"})
    BY <1>5 DEF WriteHead, WritePayload, WriteFails, Finish
  <2> QED BY <2>1, <2>2
<1> QED BY <1>1, <1>2, <1>3, <1>4, <1>5 DEF QuietSteps, Writing

LEMMA StepCases ==
  ASSUME [Next]_vars
  PROVE  QuietSteps \/ TakeFrame \/ OverflowRecv \/ CallHandler \/ HandlerReturns
BY DEF Next, Reading, Receiving, Closing, QuietSteps

LEMMA ReadStep == QueueInv /\ ReadInv /\ [Next]_vars => ReadInv'
BY StepCases, QuietIsQuiet, ReadQuietKeeps, TakeKeepsRead, OverflowKeepsRead, CallKeepsRead,
   ReturnKeepsRead

-----------------------------------------------------------------------------
(* The channel. *)

(* A frame at hand is answered, or lost with the loop. *)
LEMMA LeavesMessage ==
  ASSUME QuietSteps, pc = "message"
  PROVE  HandlePong \/ HandlePing \/ pc' \in OutOfLoop \cup {"message"}
<1> USE DEF ReaderAt, Go, allButPc, OutOfLoop
<1>1. CASE \/ UNCHANGED vars \/ Refuse \/ Accept \/ ReadyReturns
           \/ ReaderLeaves \/ LoopEnds \/ NeedMore
  BY <1>1 DEF vars, Refuse, Accept, ReadyReturns, ReaderLeaves, LoopEnds, NeedMore
<1>2. CASE CannotInflate \/ InflateSpins \/ Recv \/ RecvFails \/ RecvTimeout \/ OverflowFails
  BY <1>2 DEF CannotInflate, InflateSpins, Recv, RecvFails, RecvTimeout, OverflowFails
<1>3. CASE ServerClose \/ ClientClose \/ ClientFree \/ UseFreed \/ Stop \/ Waiting
  BY <1>3 DEF ServerClose, ClientClose, ClientFree, UseFreed, Stop, Waiting, SeesReady, WaitReturns
<1>4. ASSUME NEW w \in Everyone, BeginWrite(w) \/ Writing(w) PROVE pc' = "message"
  BY <1>4 DEF BeginWrite, Writing, LockWrite, WriteHead, WritePayload, WriteFails, Finish
<1> QED BY <1>1, <1>2, <1>3, <1>4 DEF QuietSteps

LEMMA MessageFacts ==
  ASSUME Streaming
  PROVE  /\ Len(PeerMessages) = Len(frames)
         /\ \A i \in 1..Len(frames) :
              /\ PeerMessages[i].op = frames[i].op
              /\ PeerMessages[i].data = (frames[i].body + 1)..frames[i].end
              /\ PeerMessages[i].forHandler = ~ Filtered(frames[i])
<1>1. Len(frames) \in Nat BY DEF Streaming
<1> QED BY <1>1 DEF PeerMessages

LEMMA ListeningIs == Listening <=> pc \notin OutOfLoop /\ Heard
BY DEF Listening, OutOfLoop, Heard, LastShown

LEMMA ChannelInit == Init => Channel!Init
BY DEF Init, Channel!Init, Passed, Listening

LEMMA SkipStep ==
  ASSUME QueueInv, ReadInv, HandlePong \/ HandlePing PROVE Channel!Skip
<1>1. /\ pc = "message" /\ pc' \in {"loop", "pong"} /\ Filtered(frames[cur])
      /\ UNCHANGED <<frames, enable_ping_pong, cur, delivered>>
  BY DEF HandlePong, HandlePing, SendControl, ReaderAt, Filtered, shared, config, queue
<1>2. Streaming /\ cur \in 1..Len(frames) /\ Heard
  BY <1>1 DEF QueueInv, ReadInv, Streaming, OutOfLoop
<1>3. Passed = cur - 1 /\ Passed' = cur BY <1>1 DEF Passed
<1>4. Heard' = Heard BY <1>1 DEF Heard, LastShown
<1>5. Listening /\ Listening' BY <1>1, <1>2, <1>4 DEF Listening, Heard, LastShown
<1>6. UNCHANGED PeerMessages BY <1>1 DEF PeerMessages, Filtered
<1>7. Len(frames) \in Nat BY <1>2 DEF Streaming
<1>8. /\ Passed < Len(PeerMessages) /\ Passed' = Passed + 1
      /\ ~ PeerMessages[Passed + 1].forHandler
  <2>1. (cur - 1) + 1 = cur /\ cur - 1 < Len(frames) BY <1>2, <1>7
  <2> QED BY <1>1, <1>2, <1>3, <2>1, MessageFacts
<1> QED BY <1>1, <1>5, <1>6, <1>8 DEF Channel!Skip, Channel!Pass

LEMMA DeliverStep ==
  ASSUME QueueInv, ReadInv, CallHandler
  PROVE  \E intact \in BOOLEAN : Channel!Deliver(intact)
<1>1. PICK intact \in BOOLEAN :
        delivered' = Append(delivered, AsShown(intact)) /\ LastShown' = AsShown(intact)
  <2>1. \E intact \in BOOLEAN :
          delivered' = Append(delivered, AsShown(intact)) /\ LastShown' = AsShown(intact)
    BY CallShows
  <2> QED BY <2>1
<1>2. /\ pc = "message" /\ pc' = "handler" /\ cur \in 1..Len(frames)
      /\ ~ Filtered(frames[cur]) /\ Heard /\ delivered' # <<>>
      /\ UNCHANGED <<frames, cur, enable_ping_pong>>
  BY CallShows
<1>3. Streaming /\ Len(frames) \in Nat BY DEF QueueInv, Streaming
<1>4. Passed = cur - 1 /\ Passed' = cur BY <1>2 DEF Passed
<1>5. UNCHANGED PeerMessages BY <1>2 DEF PeerMessages, Filtered
<1> DEFINE next == PeerMessages[Passed + 1]
<1>6. /\ Passed < Len(PeerMessages) /\ Passed' = Passed + 1 /\ next.forHandler
      /\ next.op = frames[cur].op /\ next.data = (frames[cur].body + 1)..frames[cur].end
  <2>1. (cur - 1) + 1 = cur /\ cur - 1 < Len(frames) BY <1>2, <1>3
  <2> QED BY <1>2, <1>3, <1>4, <2>1, MessageFacts
<1> HIDE DEF next
<1>7. AsShown(intact) = [op |-> next.op, data |-> next.data, intact |-> intact]
  BY <1>6 DEF AsShown
<1>8. Listening BY <1>2, ListeningIs DEF OutOfLoop
<1>9. Listening' = (intact /\ next.op # "close")
  <2>1. LastShown'.intact = intact /\ LastShown'.op = next.op BY <1>1, <1>7
  <2>2. Heard' <=> intact /\ next.op # "close" BY <1>2, <2>1 DEF Heard
  <2>3. Listening' <=> Heard' BY <1>2 DEF Listening, Heard, LastShown
  <2>4. Listening' \in BOOLEAN BY DEF Listening
  <2> QED BY <2>2, <2>3, <2>4
<1>10. Channel!Pass BY <1>5, <1>6, <1>8 DEF Channel!Pass
<1> QED BY <1>1, <1>6, <1>7, <1>9, <1>10 DEF Channel!Deliver, next

(* Any other step passes no message, unless it ends the loop. *)
LEMMA OtherStep ==
  ASSUME UNCHANGED <<frames, enable_ping_pong, delivered>>,
         Passed' \in {Passed, Passed + 1},
         \/ UNCHANGED <<Passed, Listening>>
         \/ Listening /\ ~ Listening',
         Passed \in Int
  PROVE  Channel!Close \/ UNCHANGED Channel!vars
<1>1. UNCHANGED PeerMessages BY DEF PeerMessages, Filtered
<1>2. CASE UNCHANGED <<Passed, Listening>> BY <1>1, <1>2 DEF Channel!vars
<1>3. CASE Listening /\ ~ Listening'
  <2>1. Passed' \in Passed..(Passed + 1) OBVIOUS
  <2>2. Listening' = FALSE BY <1>3 DEF Listening
  <2> QED BY <1>1, <1>3, <2>1, <2>2 DEF Channel!Close
<1> QED BY <1>2, <1>3

LEMMA ChannelStep ==
  ASSUME QueueInv, ReadInv, [Next]_vars
  PROVE  [Channel!Next]_Channel!vars
<1> USE DEF Channel!Next
<1>1. /\ cur \in Int /\ Passed \in Int
  <2>1. Len(frames) \in Nat /\ cur \in 0..Len(frames) BY DEF QueueInv, Streaming, ReadInv
  <2>2. cur \in Int BY <2>1
  <2> QED BY <2>2 DEF Passed
<1>2. CASE HandlePong \/ HandlePing BY <1>2, SkipStep
<1>3. CASE CallHandler BY <1>3, DeliverStep
<1>4. CASE TakeFrame
  <2>1. /\ pc = "loop" /\ pc' \in {"overflow", "message"}
        /\ UNCHANGED <<frames, enable_ping_pong, delivered>>
    BY <1>4 DEF TakeFrame, ReaderAt, shared, config
  <2>2. cur' = cur + 1 BY <1>4, TakeTakesNext
  <2>3. Passed' = Passed BY <1>1, <2>1, <2>2 DEF Passed
  <2>4. Listening' = Listening BY <2>1 DEF Listening
  <2> QED BY <1>1, <2>1, <2>3, <2>4, OtherStep
<1>5. CASE OverflowRecv
  <2>1. /\ pc = "overflow" /\ pc' \in {"overflow", "message"}
        /\ UNCHANGED <<frames, enable_ping_pong, delivered, cur>>
    BY <1>5 DEF OverflowRecv, ReaderAt, shared, config
  <2>2. Passed' = Passed /\ Listening' = Listening BY <2>1 DEF Passed, Listening
  <2> QED BY <1>1, <2>1, <2>2, OtherStep
<1>6. CASE HandlerReturns
  <2>1. /\ pc = "handler" /\ pc' \in {"left", "loop"}
        /\ UNCHANGED <<frames, enable_ping_pong, delivered, cur>>
        /\ pc' = "loop" => ~ MustEnd
    BY <1>6 DEF HandlerReturns, ReaderAt, shared, config, queue
  <2>2. Passed' = Passed BY <2>1 DEF Passed
  <2>3. CASE pc' = "left"
    <3>1. ~ Listening' BY <2>3 DEF Listening
    <3>2. Listening \in BOOLEAN /\ Listening' \in BOOLEAN BY DEF Listening
    <3> QED BY <1>1, <2>1, <2>2, <3>1, <3>2, OtherStep
  <2>4. CASE pc' = "loop"
    <3>1. Heard BY <2>1, <2>4 DEF ReadInv, MustEnd, Heard, LastShown
    <3>2. Listening BY <2>1, <3>1, ListeningIs DEF OutOfLoop
    <3>3. Listening' BY <2>1, <2>4, <3>1 DEF Listening, Heard, LastShown
    <3>4. Listening \in BOOLEAN /\ Listening' \in BOOLEAN BY DEF Listening
    <3> QED BY <1>1, <2>1, <2>2, <3>2, <3>3, <3>4, OtherStep
  <2> QED BY <2>1, <2>3, <2>4
<1>7. CASE QuietSteps /\ ~ HandlePong /\ ~ HandlePing
  <2>1. ReadQuiet /\ UNCHANGED enable_ping_pong BY <1>7, QuietIsQuiet
  <2>2. UNCHANGED <<frames, cur, delivered>> BY <2>1 DEF ReadQuiet
  <2>3. Listening \in BOOLEAN /\ Listening' \in BOOLEAN BY DEF Listening
  <2>4. CASE pc' = pc
    <3>1. Passed' = Passed /\ Listening' = Listening BY <2>2, <2>4 DEF Passed, Listening
    <3> QED BY <1>1, <2>1, <2>2, <3>1, OtherStep
  <2>5. CASE pc' \in OutOfLoop
    <3>1. ~ Listening' /\ Passed' = cur BY <2>2, <2>5 DEF Listening, Passed, OutOfLoop
    <3>2. Passed' \in {Passed, Passed + 1} BY <1>1, <3>1 DEF Passed
    <3>3. CASE Listening BY <1>1, <2>1, <2>2, <3>1, <3>2, <3>3, OtherStep
    <3>4. CASE ~ Listening
      <4>1. pc \notin {"overflow", "message"}
        BY <3>4, ListeningIs DEF ReadInv, OutOfLoop
      <4>2. Passed' = Passed BY <3>1, <4>1 DEF Passed
      <4> QED BY <1>1, <2>1, <2>2, <2>3, <3>1, <3>4, <4>2, OtherStep
    <3> QED BY <3>3, <3>4
  <2>6. CASE pc' # pc /\ pc' \notin OutOfLoop
    <3>1. /\ pc \notin OutOfLoop \cup {"overflow", "handler"}
          /\ pc' \notin {"overflow", "message", "handler"}
      BY <2>1, <2>6 DEF ReadQuiet
    <3>2. pc # "message" BY <1>7, <2>6, LeavesMessage
    <3>3. Passed' = Passed BY <2>2, <3>1, <3>2 DEF Passed
    <3>4. Listening' = Listening
      BY <2>2, <2>6, <3>1 DEF Listening, OutOfLoop
    <3> QED BY <1>1, <2>1, <2>2, <3>3, <3>4, OtherStep
  <2> QED BY <2>4, <2>5, <2>6
<1> QED BY <1>2, <1>3, <1>4, <1>5, <1>6, <1>7, StepCases

(* However the network splits the stream and wherever its frames meet the  *)
(* end of the buffer, the data handler is shown the peer's messages whole, *)
(* each once and in order, and none behind the end.                        *)
THEOREM ImplementsChannel == Spec => DeliversChannel
<1>1. QueueInv /\ ReadInv /\ [Next]_vars => [Channel!Next]_Channel!vars
  BY ChannelStep
<1> QED BY <1>1, QueueInit, QueueStep, ReadInit, ReadStep, ChannelInit, PTL
        DEF Spec, DeliversChannel, Channel!Spec

-----------------------------------------------------------------------------
(* Types. *)

(* What the invariants above do not say. *)
PlainTypes ==
  /\ frames \in Streams /\ side \in Sides
  /\ enable_ping_pong \in BOOLEAN
  /\ status \in {"RUNNING", "STOPPING", "TERMINATED"}
  /\ must_close \in BOOLEAN
  /\ sock \in {"open", "failed", "closed"}
  /\ app \in {"open", "closing", "freed"}
  /\ pc \in Places
  /\ thread \in Placings
  /\ seeing \subseteq Waiters
  /\ websocket_deflate_initialized \in BOOLEAN
  /\ budget \in 0..MaxWrites
  /\ torn \in BOOLEAN

(* Nothing is read beyond the end of the stream. *)
ReadTypes == got <= StreamEnd /\ data \subseteq 1..StreamEnd

LEMMA PlainInit == Init => PlainTypes
<1> SUFFICES ASSUME Init PROVE PlainTypes OBVIOUS
<1>1. enable_ping_pong \in BOOLEAN BY DEF Init
<1>2. budget \in 0..MaxWrites BY SocketConstants DEF SocketConstants, Init
<1> QED BY <1>1, <1>2 DEF Init, PlainTypes, Places

LEMMA PlainStep == PlainTypes /\ [Next]_vars => PlainTypes'
<1> SUFFICES ASSUME PlainTypes, [Next]_vars PROVE PlainTypes' OBVIOUS
<1> USE DEF PlainTypes, Places, ReaderAt, Go, allButPc, shared, config, queue, message, deflater,
            wire, wait
<1>1. CASE \/ UNCHANGED vars \/ Refuse \/ Accept \/ ReadyReturns \/ HandlerReturns
           \/ ReaderLeaves \/ LoopEnds \/ NeedMore \/ TakeFrame
  <2>1. CASE UNCHANGED vars BY <2>1 DEF vars
  <2>2. CASE Refuse
    <3>1. /\ UNCHANGED <<config, status, sock, app, seeing, deflater, budget, torn>>
          /\ must_close' \in {must_close, TRUE} /\ pc' = "closed"
      BY <2>2 DEF Refuse
    <3>2. must_close' \in BOOLEAN BY <3>1
    <3> QED BY <3>1, <3>2
  <2>3. CASE Accept BY <2>3 DEF Accept
  <2>4. CASE ReadyReturns \/ HandlerReturns \/ ReaderLeaves
    BY <2>4 DEF ReadyReturns, HandlerReturns, ReaderLeaves, Ready
  <2>5. CASE LoopEnds \/ NeedMore \/ TakeFrame
    BY <2>5 DEF LoopEnds, NeedMore, TakeFrame
  <2> QED BY <1>1, <2>1, <2>2, <2>3, <2>4, <2>5
<1>2. CASE HandlePong \/ HandlePing \/ CallHandler \/ CannotInflate \/ InflateSpins
  BY <1>2 DEF HandlePong, HandlePing, SendControl, CallHandler, CannotInflate, InflateSpins,
              DeflateInit, Ready
<1>3. CASE Recv \/ RecvFails \/ RecvTimeout \/ OverflowRecv \/ OverflowFails
  BY <1>3 DEF Recv, RecvFails, RecvTimeout, SendControl, OverflowRecv, OverflowFails
<1>4. CASE ServerClose \/ ClientClose \/ ClientFree \/ UseFreed \/ Stop \/ Waiting
  BY <1>4 DEF ServerClose, ClientClose, ClientFree, UseFreed, Stop, Waiting, SeesReady, WaitReturns
<1>5. ASSUME NEW w \in Everyone, BeginWrite(w) PROVE PlainTypes'
  <2>1. budget > 0 /\ budget' = budget - 1 BY <1>5 DEF BeginWrite
  <2>2. budget' \in 0..MaxWrites BY <2>1, SocketConstants DEF SocketConstants
  <2> QED BY <1>5, <2>2 DEF BeginWrite
<1>6. ASSUME NEW w \in Everyone, LockWrite(w) PROVE PlainTypes'
  <2>1. UNCHANGED <<config, status, must_close, sock, app, pc, seeing, budget, torn>>
    BY <1>6 DEF LockWrite
  <2>2. UNCHANGED deflater \/ websocket_deflate_initialized' = TRUE
    BY <1>6 DEF LockWrite, DeflateInit
  <2>3. websocket_deflate_initialized' \in BOOLEAN BY <2>2
  <2> QED BY <2>1, <2>3
<1>7. ASSUME NEW w \in Everyone, WriteHead(w) \/ WritePayload(w) \/ WriteFails(w)
      PROVE  PlainTypes'
  <2>1. /\ UNCHANGED <<config, status, must_close, app, deflater, budget, seeing>>
        /\ sock' \in {sock, "closed", "failed"}
        /\ torn' \in {torn, torn \/ due # NoOne}
    BY <1>7 DEF WriteHead, WritePayload, WriteFails
  <2>2. pc' \in {pc, "loop", "left"}
    BY <1>7 DEF WriteHead, WritePayload, WriteFails, Finish
  <2>3. torn' \in BOOLEAN BY <2>1
  <2> QED BY <2>1, <2>2, <2>3
<1> QED BY <1>1, <1>2, <1>3, <1>4, <1>5, <1>6, <1>7
        DEF Next, Reading, Receiving, Closing, Writing

LEMMA ReadTypesStep ==
  ASSUME QueueInv, ReadInv, ReadTypes, [Next]_vars PROVE ReadTypes'
<1>1. Streaming /\ got \in Nat /\ StreamEnd \in Nat BY WithinStream DEF QueueInv
<1>2. ASSUME UNCHANGED <<frames, got, data>> PROVE ReadTypes'
  BY <1>2 DEF ReadTypes, StreamEnd
<1>3. CASE TakeFrame
  <2>1. /\ cur' \in 1..Len(frames) /\ data' = Copied(frames[cur'])
        /\ at + queued = got
    BY <1>3, TakeTakesNext
  <2>2. UNCHANGED <<frames, got>> BY <1>3 DEF TakeFrame, shared, config
  <2>3. frames[cur'].body \in Nat /\ frames[cur'].end \in Nat /\ frames[cur'].end <= StreamEnd
    BY <1>1, <2>1, BehindFrame, WithinStream
  <2>4. data' \subseteq 1..StreamEnd
    BY <1>1, <2>1, <2>3 DEF Copied, Least2, ReadTypes
  <2> QED BY <2>2, <2>4 DEF ReadTypes, StreamEnd
<1>4. ASSUME NEW n \in 1..(StreamEnd - got), got' = got + n, UNCHANGED frames,
             data' \in {data, data \cup ((got + 1)..(got + n))}
      PROVE  ReadTypes'
  <2>1. n \in Nat /\ got + n <= StreamEnd BY <1>1, <1>4
  <2>2. (got + 1)..(got + n) \subseteq 1..StreamEnd BY <1>1, <2>1
  <2>3. data' \subseteq 1..StreamEnd BY <1>4, <2>2 DEF ReadTypes
  <2> QED BY <1>4, <2>1, <2>3 DEF ReadTypes, StreamEnd
<1>5. CASE OverflowRecv
  <2>1. cur \in 1..Len(frames)
    BY <1>5 DEF OverflowRecv, ReaderAt, QueueInv
  <2>2. frames[cur].end - got \in Int BY <1>1, <2>1, BehindFrame
  <2>3. PICK n \in 1..Least2(frames[cur].end - got, StreamEnd - got) :
          got' = got + n /\ data' = data \cup ((got + 1)..(got + n))
    BY <1>5 DEF OverflowRecv
  <2>4. n \in 1..(StreamEnd - got) BY <1>1, <2>2, <2>3 DEF Least2
  <2> QED BY <1>4, <1>5, <2>3, <2>4 DEF OverflowRecv, shared, config
<1>6. CASE Recv
  <2>1. Free \in Int
    BY <1>6, SocketConstants DEF Free, SocketConstants, QueueInv
  <2>2. PICK n \in 1..Least2(Free, StreamEnd - got) : got' = got + n
    BY <1>6 DEF Recv
  <2>3. n \in 1..(StreamEnd - got) BY <1>1, <2>1, <2>2 DEF Least2
  <2> QED BY <1>4, <1>6, <2>2, <2>3 DEF Recv, shared, config, message
<1>7. CASE ~ TakeFrame /\ ~ OverflowRecv /\ ~ Recv
  <2> USE DEF Go, allButPc, shared, config, queue, message
  <2>1. CASE \/ UNCHANGED vars \/ Refuse \/ Accept \/ ReadyReturns \/ HandlerReturns
             \/ ReaderLeaves \/ LoopEnds \/ NeedMore \/ HandlePong \/ HandlePing
    BY <1>2, <2>1 DEF vars, Refuse, Accept, ReadyReturns, HandlerReturns, ReaderLeaves, LoopEnds,
                      NeedMore, HandlePong, HandlePing, SendControl
  <2>2. CASE \/ CallHandler \/ CannotInflate \/ InflateSpins \/ RecvFails \/ RecvTimeout
             \/ OverflowFails
    BY <1>2, <2>2 DEF CallHandler, CannotInflate, InflateSpins, RecvFails, RecvTimeout,
                      SendControl, OverflowFails
  <2>3. CASE Closing \/ Waiting
    BY <1>2, <2>3 DEF Closing, ServerClose, ClientClose, ClientFree, UseFreed, Stop, Waiting, SeesReady,
                      WaitReturns
  <2>4. ASSUME NEW w \in Everyone, BeginWrite(w) \/ Writing(w) PROVE ReadTypes'
    BY <1>2, <2>4 DEF BeginWrite, Writing, LockWrite, WriteHead, WritePayload, WriteFails
  <2> QED BY <1>7, <2>1, <2>2, <2>3, <2>4 DEF Next, Reading, Receiving
<1> QED BY <1>3, <1>5, <1>6, <1>7

(* The values of all variables: the queue never outgrows its room and no   *)
(* payload holds a byte the peer did not send.                             *)
THEOREM TypeCorrect == Spec => []TypeOK
<1>1. Init => ReadTypes
  <2> SUFFICES ASSUME Init PROVE ReadTypes OBVIOUS
  <2>1. Streaming BY QueueInit DEF QueueInv
  <2>2. got = 0 /\ data = {} BY DEF Init
  <2> QED BY <2>1, <2>2, WithinStream DEF ReadTypes
<1>2. Init => WaitInv BY WaitInit
<1>3. QueueInv /\ ReadInv /\ ReadTypes /\ [Next]_vars => ReadTypes' BY ReadTypesStep
<1>4. /\ PlainTypes /\ ReadTypes /\ LockInv /\ PingInv /\ WaitInv /\ QueueInv /\ ReadInv
      => TypeOK
  <2> SUFFICES ASSUME PlainTypes, ReadTypes, LockInv, PingInv, WaitInv, QueueInv, ReadInv
               PROVE  TypeOK
    OBVIOUS
  <2>1. got \in 0..StreamEnd
    <3>1. got \in Nat /\ StreamEnd \in Nat BY WithinStream DEF QueueInv
    <3> QED BY <3>1 DEF ReadTypes
  <2>2. /\ at \in Nat /\ queued \in 0..Room /\ cur \in 0..Len(frames)
        /\ data \subseteq 1..StreamEnd
    BY DEF QueueInv, ReadInv, ReadTypes
  <2>3. /\ ping_count \in Nat /\ unanswered \in Nat /\ is_data_ready \in BOOLEAN
        /\ shown \in Nat /\ answered \in Nat /\ saw \in [Waiters -> Nat]
    BY DEF PingInv, WaitInv
  <2>4. /\ mutex \in Everyone \cup {NoOne, Lost} /\ due \in Everyone \cup {NoOne}
        /\ accept_gzip \in BOOLEAN
        /\ writing \in [Everyone -> [step : {"idle", "lock", "head", "payload"},
                                     message : {"none", "empty", "small", "large"}]]
    BY DEF LockInv, LockTypes, Steps, Sizes
  <2>5. delivered \in Seq([op : {"data", "close", "ping", "pong"}, data : SUBSET Nat,
                           intact : BOOLEAN])
    BY DEF ReadInv, Shown
  <2> QED BY <2>1, <2>2, <2>3, <2>4, <2>5 DEF TypeOK, PlainTypes
<1> QED BY <1>1, <1>2, <1>3, <1>4, PlainInit, PlainStep, LockInit, LockStep, PingInit, PingStep,
           WaitStep, QueueInit, QueueStep, ReadInit, ReadStep, PTL DEF Spec

-----------------------------------------------------------------------------
(* The way out of the read loop. *)

(* How far the reader is from its end, once it no longer goes on reading.  *)
RankOf(place) ==
  CASE place = "upgrade" -> 9
    [] place = "ready" -> 8
    [] place = "overflow" -> 7
    [] place = "message" -> 6
    [] place \in {"handler", "spin"} -> 5
    [] place = "recv" -> 4
    [] place \in {"ping", "pong"} -> 3
    [] place = "loop" -> 2
    [] place = "left" -> 1
    [] place = "closed" -> 0
    [] place = "crashed" -> -1

(* Only http_close_connection changes the status of a client, and it sets  *)
(* must_close too, which the start of the client's thread does not reset.  *)
ClosedByBoth == side = "client" /\ status # "RUNNING" => must_close

CloseInv == PlainTypes /\ ClosedByBoth

LEMMA CloseInvStep == CloseInv /\ [Next]_vars => ClosedByBoth' /\ (~ Looping => ~ Looping')
<1> SUFFICES ASSUME CloseInv, [Next]_vars
             PROVE  ClosedByBoth' /\ (~ Looping => ~ Looping')
  OBVIOUS
<1> USE DEF ClosedByBoth, Looping, CloseInv
<1>1. CASE UNCHANGED <<side, status, must_close>> BY <1>1
<1>2. CASE Refuse
  <2>1. UNCHANGED config /\ UNCHANGED status BY <1>2, Zenon DEF Refuse
  <2>2. UNCHANGED <<side, status>> BY <2>1 DEF config
  <2>3. must_close' \in {must_close, TRUE} BY <1>2, Zenon DEF Refuse
  <2>4. must_close' = must_close \/ must_close' = TRUE BY <2>3, Zenon
  <2>5. must_close => must_close' BY <2>4, Zenon
  <2> QED BY <2>2, <2>5
<1>3. CASE Accept
  <2>1. UNCHANGED <<side, must_close>> /\ status' \in {status, "RUNNING"}
    BY <1>3 DEF Accept, config
  <2>2. side = "server" => UNCHANGED status
    BY <1>3 DEF Accept
  <2>3. side = "server" \/ side = "client"
    BY <1>3 DEF Accept
  <2>4. ~ Looping => ~ Looping'
    BY <2>1, <2>2, <2>3
  <2> QED BY <2>1, <2>4
<1>4. CASE ServerClose BY <1>4 DEF ServerClose, config
<1>5. CASE ClientClose BY <1>5 DEF ClientClose, config
<1>6. CASE Stop BY <1>6 DEF Stop, config
<1>7. ASSUME NEW w \in Everyone, BeginWrite(w) \/ Writing(w)
      PROVE  UNCHANGED <<side, status, must_close>>
  BY <1>7 DEF BeginWrite, Writing, LockWrite, WriteHead, WritePayload, WriteFails, shared, config
<1>8. CASE \/ ReadyReturns \/ HandlerReturns \/ ReaderLeaves \/ Reading \/ Receiving
           \/ OverflowRecv \/ OverflowFails \/ ClientFree \/ UseFreed \/ Waiting
  <2> USE DEF Go, allButPc, shared, config
  <2>1. CASE ReadyReturns \/ HandlerReturns \/ ReaderLeaves
    BY <1>1, <2>1 DEF ReadyReturns, HandlerReturns, ReaderLeaves
  <2>2. CASE Reading
    BY <1>1, <2>2 DEF Reading, LoopEnds, NeedMore, TakeFrame, HandlePong, HandlePing,
                      SendControl, CallHandler, CannotInflate, InflateSpins
  <2>3. CASE Receiving \/ OverflowRecv \/ OverflowFails
    BY <1>1, <2>3 DEF Receiving, Recv, RecvFails, RecvTimeout, SendControl, OverflowRecv,
                      OverflowFails
  <2>4. CASE ClientFree \/ UseFreed \/ Waiting
    BY <1>1, <2>4 DEF ClientFree, UseFreed, Waiting, SeesReady, WaitReturns
  <2> QED BY <1>8, <2>1, <2>2, <2>3, <2>4
<1> QED BY <1>1, <1>2, <1>3, <1>4, <1>5, <1>6, <1>7, <1>8
        DEF Next, Closing, vars, allButPc, shared, config

(* A reader that is not to go on only moves towards its end. *)
LEMMA RankFalls ==
  ASSUME PlainTypes, [Next]_vars, ~ Looping, pc' # pc
  PROVE  RankOf(pc') < RankOf(pc)
<1> USE DEF RankOf, ReaderAt, Go
<1>1. CASE Refuse \/ Accept \/ ReadyReturns \/ HandlerReturns \/ ReaderLeaves
  <2>1. \/ pc = "upgrade" /\ pc' \in {"closed", "ready", "loop"}
        \/ pc = "ready" /\ pc' = "loop"
        \/ pc = "handler" /\ pc' \in {"left", "loop"}
        \/ pc = "left" /\ pc' = "closed"
    BY <1>1 DEF Refuse, Accept, ReadyReturns, HandlerReturns, ReaderLeaves
  <2> QED BY <2>1
<1>2. CASE Reading
  <2>1. ~ NeedMore /\ ~ TakeFrame
    BY DEF NeedMore, TakeFrame
  <2>2. \/ pc = "loop" /\ pc' = "left"
        \/ pc = "message" /\ pc' \in {"loop", "pong", "handler", "left", "spin"}
    <3>1. LoopEnds \/ HandlePong \/ HandlePing \/ CallHandler \/ CannotInflate \/ InflateSpins
      BY <1>2, <2>1 DEF Reading
    <3>2. CASE LoopEnds BY <3>2 DEF LoopEnds
    <3>3. CASE HandlePong \/ HandlePing BY <3>3 DEF HandlePong, HandlePing, SendControl
    <3>4. CASE CallHandler BY <3>4 DEF CallHandler
    <3>5. CASE CannotInflate \/ InflateSpins BY <3>5 DEF CannotInflate, InflateSpins
    <3> QED BY <3>1, <3>2, <3>3, <3>4, <3>5
  <2> QED BY <2>2
<1>3. CASE Receiving
  BY <1>3 DEF Receiving, Recv, RecvFails, RecvTimeout, SendControl
<1>4. CASE OverflowRecv
  <2>1. pc = "overflow" /\ (pc' = pc \/ pc' = "message")
    BY <1>4 DEF OverflowRecv
  <2> QED BY <2>1
<1>5. CASE OverflowFails BY <1>5 DEF OverflowFails
<1>6. CASE UseFreed BY <1>6 DEF UseFreed, PlainTypes, Places
<1>7. ~ (ServerClose \/ ClientClose \/ ClientFree \/ Stop \/ Waiting)
  BY DEF ServerClose, ClientClose, ClientFree, Stop, Waiting, SeesReady, WaitReturns
<1>8. ASSUME NEW w \in Everyone, BeginWrite(w) \/ Writing(w)
      PROVE  pc \in {"ping", "pong"} /\ pc' \in {"loop", "left"}
  BY <1>8 DEF BeginWrite, Writing, LockWrite, WriteHead, WritePayload, WriteFails, Finish
<1>9. CASE \E w \in Everyone : BeginWrite(w) \/ Writing(w)
  BY <1>8, <1>9
<1>10. ~ UNCHANGED vars BY DEF vars
<1> QED BY <1>1, <1>2, <1>3, <1>4, <1>5, <1>6, <1>7, <1>9, <1>10 DEF Next, Closing

(* "Set close flag, so the server thread can exit": once the connection is *)
(* closed or the server stopped this is never undone, not by the start of  *)
(* a client's thread either, and the reader reads no other frame: each     *)
(* step that moves it brings it nearer to its end, over the callback, the  *)
(* PING or the payload it is in (what it may wait for there is Held).      *)
THEOREM CloseLeadsOut ==
  Spec => [][~ Looping => ~ Looping' /\ (pc' # pc => RankOf(pc') < RankOf(pc))]_vars
<1>1. Init => CloseInv
  BY PlainInit DEF Init, CloseInv, ClosedByBoth
<1>2. CloseInv /\ [Next]_vars => CloseInv'
  BY CloseInvStep, PlainStep DEF CloseInv
<1>3. CloseInv /\ [Next]_vars
        => [~ Looping => ~ Looping' /\ (pc' # pc => RankOf(pc') < RankOf(pc))]_vars
  BY CloseInvStep, RankFalls DEF CloseInv
<1> QED BY <1>1, <1>2, <1>3, PTL DEF Spec
=============================================================================
