----------------------------- MODULE MCWebSocket -----------------------------
(* Instances of WebSocket for TLC: short streams that between them meet    *)
(* every branch of the read loop.                                          *)
EXTENDS WebSocket, SequencesExt

(* A frame of h header and p payload units, before it is placed. *)
Fr(op, h, p) == [op |-> op, start |-> 0, body |-> h, end |-> h + p, rsv1 |-> FALSE, fits |-> TRUE]
Data(p) == Fr("data", 1, p)
Packed(p) == [Data(p) EXCEPT !.rsv1 = TRUE]
Huge == [Fr("data", 2, 1) EXCEPT !.fits = FALSE]
Control(op) == Fr(op, 1, 0)

Stream(fs) ==
  FoldLeft(LAMBDA s, f : LET at0 == IF s = <<>> THEN 0 ELSE s[Len(s)].end
                         IN Append(s, [f EXCEPT !.start = at0, !.body = at0 + @, !.end = at0 + @]),
           <<>>, fs)

MCStreams == {Stream(<<Data(1), Data(2)>>), Stream(<<Fr("data", 2, 2), Data(0)>>),
              Stream(<<Control("ping"), Fr("ping", 1, 1)>>), Stream(<<Control("pong"), Data(1)>>),
              Stream(<<Packed(1), Data(1)>>), Stream(<<Packed(0)>>),
              Stream(<<Data(1), Control("close"), Data(0)>>), Stream(<<Huge>>)}

(* All coroutines on one thread; a writer and a waiter on another than the *)
(* reader and the other waiter.                                            *)
OnThreads(second) == [c \in Everyone \cup Waiters |-> IF c \in second THEN 2 ELSE 1]
MCPlacings == {OnThreads({}), OnThreads({Reader, CHOOSE c \in Waiters : TRUE})}
MCOneThread == {OnThreads({})}
=============================================================================
