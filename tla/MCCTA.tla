------------------------------- MODULE MCCTA -------------------------------
(* Instances of CTA for TLC. *)
EXTENDS CTA, TLC

CONSTANTS g1, g2, c1, c2, c3
=============================================================================
