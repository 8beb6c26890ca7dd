----------------------------- MODULE AtomicStore -----------------------------
(***************************************************************************)
(* What the pager of SQLite promises to those who read and write pages:    *)
(* a transaction sees one committed state, its own changes apart, becomes  *)
(* the committed state as a whole or not at all, and outlives a crash.     *)
(*                                                                         *)
(* The commit deletes the journal and does not wait until the directory is *)
(* on disk, so the power may take the last transaction back, as a whole.   *)
(***************************************************************************)
CONSTANTS Conn, Page, Value, None

VARIABLES
  db,   \* the committed content
  last, \* the content a power loss may bring back
  view  \* what a connection in a transaction sees

vars == <<db, last, view>>

Content == [Page -> Value]
Reads(c) == view[c] # None
OthersUnchanged(c) == \A d \in Conn \ {c} : view[d] \in {None, db}

Init ==
  /\ db \in Content /\ last = db
  /\ view = [c \in Conn |-> None]

Begin(c) == ~Reads(c) /\ view' = [view EXCEPT ![c] = db] /\ UNCHANGED <<db, last>>

(* One at a time changes pages. *)
Write(c) ==
  /\ Reads(c) /\ OthersUnchanged(c)
  /\ \E p \in Page, v \in Value : view' = [view EXCEPT ![c] = [@ EXCEPT ![p] = v]]
  /\ UNCHANGED <<db, last>>

Commit(c) ==
  /\ Reads(c) /\ \A d \in Conn \ {c} : ~Reads(d)
  /\ db' = view[c] /\ last' = db
  /\ UNCHANGED view

Rollback(c) == Reads(c) /\ view' = [view EXCEPT ![c] = db] /\ UNCHANGED <<db, last>>

End(C) ==
  /\ view' = [c \in Conn |-> IF c \in C THEN None ELSE view[c]]
  /\ UNCHANGED <<db, last>>

(* The directory is on disk at last. *)
Settle == last' = db /\ UNCHANGED <<db, view>>

PowerLoss ==
  /\ db' \in {db, last} /\ last' = db'
  /\ view' = [c \in Conn |-> None]

Next ==
  \/ \E c \in Conn : Begin(c) \/ Write(c) \/ Commit(c) \/ Rollback(c)
  \/ \E C \in SUBSET Conn : End(C)
  \/ Settle \/ PowerLoss

Spec == Init /\ [][Next]_vars

=============================================================================
