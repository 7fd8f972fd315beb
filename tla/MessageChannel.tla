---------------------------- MODULE MessageChannel ----------------------------
(***************************************************************************)
(* What the reading side of a websocket promises the data handler of a     *)
(* route or of a client: of the peer's messages it is shown those that are *)
(* for it, whole, each once, in the order they were sent, none left out,   *)
(* none behind the peer's close frame, and none behind a message that      *)
(* could not be decompressed.  Listening may end at any moment, with the   *)
(* message then at hand lost.  WebSocket is shown to implement it.         *)
(***************************************************************************)
EXTENDS Naturals, Sequences

VARIABLES
  messages,    \* the peer's messages: op, data, and whether the handler sees it
  passed,      \* how many of them are dealt with
  delivered,   \* the messages the handler was called with
  listening    \* the handler may be called again

vars == <<messages, passed, delivered, listening>>

Init == passed = 0 /\ delivered = <<>> /\ listening = TRUE

Pass ==
  /\ listening
  /\ passed < Len(messages)
  /\ passed' = passed + 1
  /\ UNCHANGED messages

Deliver(intact) ==
  LET next == messages[passed + 1]
  IN /\ Pass
     /\ next.forHandler
     /\ delivered' = Append(delivered, [op |-> next.op, data |-> next.data, intact |-> intact])
     /\ listening' = (intact /\ next.op # "close")

(* PING and PONG are answered by the connection itself. *)
Skip == Pass /\ ~ messages[passed + 1].forHandler /\ UNCHANGED <<delivered, listening>>

Close ==
  /\ listening /\ listening' = FALSE
  /\ passed' \in passed..(passed + 1)
  /\ UNCHANGED <<messages, delivered>>

Next == Skip \/ Close \/ \E intact \in BOOLEAN : Deliver(intact)

Spec == Init /\ [][Next]_vars
=============================================================================
