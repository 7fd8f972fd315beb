------------------------------ MODULE MCDavLocks ------------------------------
(* An instance of DavLocks for TLC: two users, two resources, two slots,   *)
(* two requests, and a clock that lets a lock expire twice.                *)
EXTENDS DavLocks, TLC

CONSTANTS u1, u2, p1, p2, c1, c2, null

MCSymmetry == Permutations(Users) \cup Permutations(Paths) \cup Permutations(Conns)
=============================================================================
