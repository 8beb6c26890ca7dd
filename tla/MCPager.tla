------------------------------- MODULE MCPager -------------------------------
(* Instances of Pager for TLC: two connections, of two processes or one. *)
EXTENDS Pager, TLC

CONSTANTS a1, b1, A1, B1

Apart == a1 :> A1 @@ b1 :> B1
(* The two processes, each with its connection, change places. *)
Swap == {a1 :> b1 @@ b1 :> a1 @@ A1 :> B1 @@ B1 :> A1}

Together == a1 :> A1 @@ b1 :> A1
=============================================================================
