------------------------------ MODULE LockTable ------------------------------
(***************************************************************************)
(* What the locks on a database file promise to the pager of SQLite: one   *)
(* level for each connection, and who may have which level beside whom.    *)
(*                                                                         *)
(* A connection goes from SHARED to EXCLUSIVE by way of RESERVED when it   *)
(* writes, and around RESERVED when it recovers the file from a journal.   *)
(***************************************************************************)
EXTENDS Naturals

CONSTANTS
  Conn,    \* connections to the database file
  Process, \* processes
  ProcOf   \* the process of a connection

VARIABLES
  lock,  \* the level of a connection
  writer \* the connections, at most one, that came by way of RESERVED

vars == <<lock, writer>>

NONE == 0
SHARED == 1
RESERVED == 2
PENDING == 3
EXCLUSIVE == 4

Neighbours(c) == {d \in Conn : d # c /\ ProcOf[d] = ProcOf[c]}

Init == lock = [c \in Conn |-> NONE] /\ writer = {}

(* Nobody starts to read once a lock is pending, but for connections of a  *)
(* process that reads already: they share its lock.                        *)
TakeShared(c) ==
  /\ lock[c] = NONE
  /\ \A d \in Conn : lock[d] # EXCLUSIVE
  /\ \A d \in Neighbours(c) : lock[d] < PENDING
  /\ (\E d \in Neighbours(c) : lock[d] # NONE) \/ (\A d \in Conn : lock[d] < PENDING)
  /\ lock' = [lock EXCEPT ![c] = SHARED]
  /\ UNCHANGED writer

TakeReserved(c) ==
  /\ lock[c] = SHARED /\ writer = {}
  /\ lock' = [lock EXCEPT ![c] = RESERVED]
  /\ writer' = {c}

TakePending(c) ==
  /\ lock[c] \in {SHARED, RESERVED}
  /\ \A d \in Conn : lock[d] < PENDING
  /\ lock' = [lock EXCEPT ![c] = PENDING]
  /\ UNCHANGED writer

TakeExclusive(c) ==
  /\ lock[c] \in {SHARED, RESERVED, PENDING}
  /\ \A d \in Conn \ {c} : lock[d] = NONE
  /\ lock' = [lock EXCEPT ![c] = EXCLUSIVE]
  /\ UNCHANGED writer

Downgrade(c) ==
  /\ lock[c] > SHARED
  /\ lock' = [lock EXCEPT ![c] = SHARED]
  /\ writer' = writer \ {c}

Release(c) ==
  /\ lock[c] > NONE
  /\ lock' = [lock EXCEPT ![c] = NONE]
  /\ writer' = writer \ {c}

(* The process ends, and with it its locks. *)
Exit(p) ==
  /\ lock' = [c \in Conn |-> IF ProcOf[c] = p THEN NONE ELSE lock[c]]
  /\ writer' = {c \in writer : ProcOf[c] # p}

(* The machine stops. *)
ExitAll ==
  /\ lock' = [c \in Conn |-> NONE]
  /\ writer' = {}

Next ==
  \/ \E c \in Conn : \/ TakeShared(c) \/ TakeReserved(c) \/ TakePending(c) \/ TakeExclusive(c)
                     \/ Downgrade(c) \/ Release(c)
  \/ \E p \in Process : Exit(p)
  \/ ExitAll

Spec == Init /\ [][Next]_vars

(* What a connection below RESERVED is told when it asks whether anybody   *)
(* has RESERVED: to another one of its process PENDING looks the same.     *)
Reserved(c) == writer # {} \/ \E d \in Neighbours(c) : lock[d] > SHARED

-----------------------------------------------------------------------------
(* Nobody reads while one writes to the file, one at a time is about to,   *)
(* and only the connection that came by RESERVED is on its way to write.   *)
Exclusion ==
  /\ \A c, d \in Conn : c # d /\ lock[c] = EXCLUSIVE => lock[d] = NONE
  /\ \A c, d \in Conn : c # d /\ lock[c] >= PENDING => lock[d] < PENDING
  /\ \A c, d \in writer : c = d
  /\ \A c \in Conn : lock[c] = RESERVED => c \in writer
  /\ \A c \in writer : lock[c] >= RESERVED

=============================================================================
