----------------------------- MODULE MCUnixLock -----------------------------
(* Instances of UnixLock for TLC: two processes with two connections each. *)
EXTENDS UnixLock, TLC

CONSTANTS a1, a2, b1, b2, A, B

TwoAndTwo == a1 :> A @@ a2 :> A @@ b1 :> B @@ b2 :> B
=============================================================================
