---------------------------- MODULE MCAttendance ----------------------------
(* Instances of Attendance for TLC. *)
EXTENDS Attendance, TLC

CONSTANTS g1, c1, n1, p1, r1, r2, j1, j2

(* Files that have the player not any more, once, and twice, which is once *)
(* as online; an image that shows him.                                     *)
Files == {[names |-> (n1 :> 0), online |-> (n1 :> 0)],
          [names |-> (n1 :> 1), online |-> (n1 :> 1)],
          [names |-> (n1 :> 2), online |-> (n1 :> 1)]}
Images == {n1 :> 1}

Interchangeable == Permutations({r1, r2}) \cup Permutations({j1, j2})
=============================================================================
