------------------------------ MODULE MCResponse ------------------------------
(* An instance of Response for TLC: no throttle, one below the length of   *)
(* most pieces and one above it; a file of two blocks with ranges inside,  *)
(* at and past its end; three calls in all, over two requests.              *)
EXTENDS Response

MCThrottles == {0, 1, 3}
=============================================================================
