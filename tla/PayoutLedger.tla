---------------------------- MODULE PayoutLedger ----------------------------
(***************************************************************************)
(* What a payout promises whatever happens around it: an amount is put on  *)
(* record before any balance grows by it, no balance ever holds more of a  *)
(* panel's amount than is on record, the record never shrinks, and a       *)
(* balance only shrinks by its row being deleted and inserted anew, at     *)
(* zero.  Amounts are counted in half shares.                              *)
(***************************************************************************)
EXTENDS Naturals

CONSTANTS
  Payee,  \* rows that have a balance
  Panel   \* what amounts are quoted by

VARIABLES
  recorded,  \* per panel, the half shares on record
  credit     \* per row and panel, the half shares in its balance

Zero == [p \in Panel |-> 0]

Init ==
  /\ recorded = Zero
  /\ credit = [x \in Payee |-> Zero]

Record(p) ==
  /\ recorded' = [recorded EXCEPT ![p] = @ + 2]
  /\ UNCHANGED credit

(* Some balances grow by k half shares of p, none beyond the record. *)
Distribute(p, k) ==
  /\ credit' \in [Payee -> [Panel -> Nat]]
  /\ \A x \in Payee :
       \/ credit'[x] = credit[x]
       \/ /\ credit'[x] = [credit[x] EXCEPT ![p] = @ + k]
          /\ credit'[x][p] <= recorded[p]
  /\ UNCHANGED recorded

InsertRow(x) ==
  /\ credit' = [credit EXCEPT ![x] = Zero]
  /\ UNCHANGED recorded

Next ==
  \/ \E p \in Panel : Record(p)
  \/ \E p \in Panel, k \in 1..2 : Distribute(p, k)
  \/ \E x \in Payee : InsertRow(x)

Spec == Init /\ [][Next]_<<recorded, credit>>
=============================================================================
