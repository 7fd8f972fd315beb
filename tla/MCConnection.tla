---------------------------- MODULE MCConnection ----------------------------
(* Instances of Connection for TLC: short streams that between them meet   *)
(* every branch of the keep-alive loop.  One unit of a stream stands for a *)
(* run of bytes; the last unit of a head is the one with the blank line.   *)
EXTENDS Connection, SequencesExt

(* A request of h head and b body units, before it is placed in a stream. *)
Req(h, b) == [start |-> 0, head |-> h, end |-> h + b, cl |-> Absent, te |-> "none",
              conn |-> "none", method |-> "GET", fault |-> "none"]
Get == Req(1, 0)
GetNoBody == [Get EXCEPT !.cl = 0]
Post(b) == [Req(2, b) EXCEPT !.cl = b, !.method = "POST"]
Endless(b) == [Req(1, b) EXCEPT !.method = "POST"]
Chunked(b) == [Req(1, b) EXCEPT !.te = "chunked", !.method = "POST"]
Closing == [Get EXCEPT !.conn = "close"]
Alive == [Get EXCEPT !.conn = "keep-alive"]
Faulty(f) == [Req(2, 0) EXCEPT !.fault = f]

(* The requests one behind the other. *)
Stream(reqs) ==
  FoldLeft(LAMBDA s, r : LET at == StreamLen(s)
                         IN Append(s, [r EXCEPT !.start = at, !.head = at + @, !.end = at + @]),
           <<>>, reqs)

Pipelined == {Stream(<<Get, Get, Alive>>), Stream(<<Get, Closing, Get>>),
              Stream(<<Get, Post(3)>>), Stream(<<Post(2), GetNoBody, GetNoBody>>),
              Stream(<<GetNoBody, Post(4), GetNoBody>>)}
Refused == {Stream(<<Faulty("bytes"), Get>>), Stream(<<Get, Faulty("bytes")>>),
            Stream(<<Faulty("method"), Get>>), Stream(<<Get, Faulty("late")>>),
            Stream(<<Get, Faulty("elsewhere"), Get>>), Stream(<<Closing, Post(2)>>),
            Stream(<<Req(6, 0)>>), Stream(<<Get, Req(5, 0)>>)}
Unframed == {Stream(<<Endless(3)>>), Stream(<<Chunked(3), Get>>), Stream(<<Get, Chunked(2)>>)}
Stale == {Stream(<<Post(2), Post(3)>>), Stream(<<Post(1), Post(1), Get>>), Stream(<<Post(2), Get, Get>>),
          Stream(<<Chunked(1), Post(2)>>)}

MCWorkloads == Pipelined \cup Refused \cup Unframed \cup Stale
=============================================================================
