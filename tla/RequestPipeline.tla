--------------------------- MODULE RequestPipeline ---------------------------
(***************************************************************************)
(* What one server connection promises a client that pipelines requests    *)
(* whose framing it states: the requests are handled one at a time, each   *)
(* once, in the order they were sent, and none behind one that was refused *)
(* or that asked to close; the server may close at any moment.  Nothing is *)
(* promised for a stream whose framing is not stated.  Connection is shown *)
(* to implement it.                                                        *)
(***************************************************************************)
EXTENDS Naturals, Sequences

VARIABLES
  msgs,     \* the messages of the client
  served,   \* the stream positions at which handled requests began
  open,     \* the connection is still being served
  stated    \* the client states the framing of its requests

vars == <<msgs, served, open, stated>>

Init == served = <<>> /\ open = TRUE /\ stated \in BOOLEAN

Last(i) == msgs[i].conn = "close" \/ msgs[i].fault # "none"

Handle ==
  LET next == Len(served) + 1
  IN /\ open
     /\ next <= Len(msgs)
     /\ \A i \in 1..(next - 1) : ~ Last(i)
     /\ msgs[next].fault = "none"
     /\ served' = Append(served, msgs[next].start)
     /\ UNCHANGED <<msgs, open, stated>>

Close == open /\ open' = FALSE /\ UNCHANGED <<msgs, served, stated>>

Next == (stated => Handle \/ Close) /\ stated' = stated

Spec == Init /\ [][Next]_vars
=============================================================================
