------------------------------ MODULE UnixLock ------------------------------
(***************************************************************************)
(* How os_unix.c of SQLite makes the locks of LockTable out of POSIX       *)
(* advisory locks on three ranges of bytes.                                *)
(*                                                                         *)
(* POSIX locks belong to a process, not to a connection, and closing any   *)
(* descriptor of the file drops them all.  So the connections of a process *)
(* share a record for the file, the inode, under a mutex of the process;   *)
(* between two system calls of one process others make theirs.             *)
(***************************************************************************)
EXTENDS Naturals, FiniteSets

CONSTANTS
  Conn,     \* unixFile structures on one database file
  Process,  \* processes
  ProcOf,   \* the process of a connection
  MaxFaults \* bound on system calls that fail for another reason than a lock

ASSUME UnixLockAssumption ==
  /\ IsFiniteSet(Conn)
  /\ ProcOf \in [Conn -> Process]
  /\ MaxFaults \in Nat

VARIABLES
  open,     \* the connections that have the file open
  lock,     \* their eFileLock
  inode,    \* the unixInodeInfo of a process
  pending,  \* how a process has locked the pending byte,
  reserved, \* the reserved byte,
  range,    \* and the shared range
  call,     \* the call under the mutex of a process
  faults    \* system calls that failed so far

bytes == <<pending, reserved, range>>
vars == <<open, lock, inode, pending, reserved, range, call, faults>>

NONE == 0
SHARED == 1
RESERVED == 2
PENDING == 3
EXCLUSIVE == 4
Level == NONE..EXCLUSIVE

(* unused: descriptors whose close is put off until no lock is left. *)
Inode == [lock: Level, nShared: Nat, nLock: Nat, unused: Nat]
NoInode == [lock |-> NONE, nShared |-> 0, nLock |-> 0, unused |-> 0]
OneMore(i) == [lock |-> i.lock, nShared |-> i.nShared + 1, nLock |-> i.nLock + 1, unused |-> i.unused]

(* A call after its first system call, and before its next one: range and  *)
(* drop of a lock to SHARED, exclusive of one to EXCLUSIVE, unreserve and  *)
(* release of an unlock to the level.                                      *)
Call == [at: {"range", "drop", "exclusive", "unreserve", "release"}, conn: Conn, got: BOOLEAN, to: {NONE, SHARED}]
NoCall == [at |-> "none"]
CallOf(c, at) == [at |-> at, conn |-> c, got |-> FALSE, to |-> NONE]

Held == {"none", "read", "write"}
CanRead(byte, p) == \A q \in Process \ {p} : byte[q] # "write"
CanWrite(byte, p) == \A q \in Process \ {p} : byte[q] = "none"

Free(c) == c \in open /\ call[ProcOf[c]] = NoCall
Quiet == UNCHANGED faults
Fault == faults < MaxFaults /\ faults' = faults + 1

Init ==
  /\ open = {}
  /\ lock = [c \in Conn |-> NONE]
  /\ inode = [p \in Process |-> NoInode]
  /\ pending = [p \in Process |-> "none"]
  /\ reserved = [p \in Process |-> "none"]
  /\ range = [p \in Process |-> "none"]
  /\ call = [p \in Process |-> NoCall]
  /\ faults = 0

(* All POSIX locks of the process go. *)
DropAll(p) ==
  /\ pending' = [pending EXCEPT ![p] = "none"]
  /\ reserved' = [reserved EXCEPT ![p] = "none"]
  /\ range' = [range EXCEPT ![p] = "none"]

-----------------------------------------------------------------------------
(* unixLock to SHARED.  A call that finds the lock taken returns            *)
(* SQLITE_BUSY and changes nothing, so it is no step here.                  *)

(* Others of the process read already: only the counts go up. *)
Join(c) ==
  LET p == ProcOf[c] IN
  /\ Free(c) /\ lock[c] = NONE
  /\ inode[p].lock \in {SHARED, RESERVED}
  /\ lock' = [lock EXCEPT ![c] = SHARED]
  /\ inode' = [inode EXCEPT ![p] = OneMore(inode[p])]
  /\ UNCHANGED <<open, bytes, call>> /\ Quiet

(* Mutant of ReadPending: the pending byte is not asked for. *)
ReadPendingAnyway(c) ==
  LET p == ProcOf[c] IN
  /\ Free(c) /\ lock[c] = NONE /\ inode[p].lock = NONE
  /\ call' = [call EXCEPT ![p] = CallOf(c, "range")]
  /\ UNCHANGED <<open, lock, inode, pending, reserved, range>> /\ Quiet

ReadPending(c) ==
  LET p == ProcOf[c] IN
  /\ Free(c) /\ lock[c] = NONE /\ inode[p].lock = NONE
  /\ CanRead(pending, p)
  /\ pending' = [pending EXCEPT ![p] = "read"]
  /\ call' = [call EXCEPT ![p] = CallOf(c, "range")]
  /\ UNCHANGED <<open, lock, inode, reserved, range>> /\ Quiet

ReadRange(p) ==
  /\ call[p].at = "range"
  /\ \/ /\ CanRead(range, p) /\ range' = [range EXCEPT ![p] = "read"]
        /\ call' = [call EXCEPT ![p] = [CallOf(call[p].conn, "drop") EXCEPT !.got = TRUE]]
        /\ Quiet
     \/ /\ ~CanRead(range, p) /\ Quiet
        /\ call' = [call EXCEPT ![p] = CallOf(call[p].conn, "drop")]
        /\ UNCHANGED range
     \/ /\ Fault
        /\ call' = [call EXCEPT ![p] = CallOf(call[p].conn, "drop")]
        /\ UNCHANGED range
  /\ UNCHANGED <<open, lock, inode, pending, reserved>>

(* When the pending byte cannot be unlocked, the range may stay locked for *)
(* a connection that has no lock.                                          *)
DropPending(p) ==
  LET c == call[p].conn IN
  /\ call[p].at = "drop"
  /\ \/ /\ Quiet /\ pending' = [pending EXCEPT ![p] = "none"]
        /\ IF call[p].got
             THEN /\ lock' = [lock EXCEPT ![c] = SHARED]
                  /\ inode' = [inode EXCEPT ![p] =
                       [lock |-> SHARED, nShared |-> 1, nLock |-> inode[p].nLock + 1, unused |-> inode[p].unused]]
             ELSE UNCHANGED <<lock, inode>>
     \/ Fault /\ UNCHANGED <<pending, lock, inode>>
  /\ call' = [call EXCEPT ![p] = NoCall]
  /\ UNCHANGED <<open, reserved, range>>

-----------------------------------------------------------------------------
(* unixLock to RESERVED and to EXCLUSIVE. *)

Reserve(c) ==
  LET p == ProcOf[c] IN
  /\ Free(c) /\ lock[c] = SHARED /\ inode[p].lock = SHARED
  /\ CanWrite(reserved, p)
  /\ reserved' = [reserved EXCEPT ![p] = "write"]
  /\ lock' = [lock EXCEPT ![c] = RESERVED]
  /\ inode' = [inode EXCEPT ![p] = [@ EXCEPT !.lock = RESERVED]]
  /\ UNCHANGED <<open, pending, range, call>> /\ Quiet

WritePending(c) ==
  LET p == ProcOf[c] IN
  /\ Free(c) /\ lock[c] \in {SHARED, RESERVED} /\ inode[p].lock = lock[c]
  /\ CanWrite(pending, p)
  /\ pending' = [pending EXCEPT ![p] = "write"]
  /\ call' = [call EXCEPT ![p] = CallOf(c, "exclusive")]
  /\ UNCHANGED <<open, lock, inode, reserved, range>> /\ Quiet

(* The next try of a connection that was left with PENDING. *)
TryAgain(c) ==
  LET p == ProcOf[c] IN
  /\ Free(c) /\ lock[c] = PENDING /\ inode[p].lock = PENDING
  /\ call' = [call EXCEPT ![p] = CallOf(c, "exclusive")]
  /\ UNCHANGED <<open, lock, inode, bytes>> /\ Quiet

(* Mutant of WriteRange: the readers of the process itself are forgotten. *)
WriteRangeForgetting(p) ==
  LET c == call[p].conn IN
  /\ call[p].at = "exclusive"
  /\ \/ /\ CanWrite(range, p) /\ range' = [range EXCEPT ![p] = "write"]
        /\ lock' = [lock EXCEPT ![c] = EXCLUSIVE]
        /\ inode' = [inode EXCEPT ![p] = [@ EXCEPT !.lock = EXCLUSIVE]]
        /\ Quiet
     \/ /\ Fault \/ (~CanWrite(range, p) /\ Quiet)
        /\ lock' = [lock EXCEPT ![c] = PENDING]
        /\ inode' = [inode EXCEPT ![p] = [@ EXCEPT !.lock = PENDING]]
        /\ UNCHANGED range
  /\ call' = [call EXCEPT ![p] = NoCall]
  /\ UNCHANGED <<open, pending, reserved>>

WriteRange(p) ==
  LET c == call[p].conn IN
  /\ call[p].at = "exclusive"
  /\ \/ /\ inode[p].nShared <= 1 /\ CanWrite(range, p)
        /\ range' = [range EXCEPT ![p] = "write"]
        /\ lock' = [lock EXCEPT ![c] = EXCLUSIVE]
        /\ inode' = [inode EXCEPT ![p] = [@ EXCEPT !.lock = EXCLUSIVE]]
        /\ Quiet
     \/ /\ \/ (inode[p].nShared > 1 \/ ~CanWrite(range, p)) /\ Quiet
           \/ inode[p].nShared <= 1 /\ Fault
        /\ lock' = [lock EXCEPT ![c] = PENDING]
        /\ inode' = [inode EXCEPT ![p] = [@ EXCEPT !.lock = PENDING]]
        /\ UNCHANGED range
  /\ call' = [call EXCEPT ![p] = NoCall]
  /\ UNCHANGED <<open, pending, reserved>>

-----------------------------------------------------------------------------
(* posixUnlock.  A connection that unlocks more than SHARED unlocks two    *)
(* bytes first; what fails leaves the rest undone.                         *)

Unlock(c, to) ==
  LET p == ProcOf[c] IN
  /\ Free(c) /\ lock[c] > to
  /\ call' = [call EXCEPT ![p] =
       [CallOf(c, IF lock[c] > SHARED THEN "unreserve" ELSE "release") EXCEPT !.to = to]]
  /\ range' = IF to = SHARED THEN [range EXCEPT ![p] = "read"] ELSE range
  /\ UNCHANGED <<open, lock, inode, pending, reserved>> /\ Quiet

Unreserve(p) ==
  LET c == call[p].conn IN
  /\ call[p].at = "unreserve"
  /\ \/ /\ Quiet
        /\ pending' = [pending EXCEPT ![p] = "none"]
        /\ reserved' = [reserved EXCEPT ![p] = "none"]
        /\ inode' = [inode EXCEPT ![p] = [@ EXCEPT !.lock = SHARED]]
        /\ IF call[p].to = SHARED
             THEN /\ lock' = [lock EXCEPT ![c] = SHARED]
                  /\ call' = [call EXCEPT ![p] = NoCall]
             ELSE /\ call' = [call EXCEPT ![p] = [@ EXCEPT !.at = "release"]]
                  /\ UNCHANGED lock
     \/ /\ Fault
        /\ call' = [call EXCEPT ![p] = NoCall]
        /\ UNCHANGED <<pending, reserved, inode, lock>>
  /\ UNCHANGED <<open, range>>

(* The last reader unlocks the file, and closes what waits for that; when  *)
(* nothing waits, a failed system call leaves the locks of the process.    *)
Release(p) ==
  LET c == call[p].conn
      last == inode[p].nShared = 1
      closes == inode[p].nLock = 1 /\ inode[p].unused > 0 IN
  /\ call[p].at = "release"
  /\ lock' = [lock EXCEPT ![c] = NONE]
  /\ inode' = [inode EXCEPT ![p] =
       [lock |-> IF last THEN NONE ELSE inode[p].lock,
        nShared |-> inode[p].nShared - 1, nLock |-> inode[p].nLock - 1,
        unused |-> IF inode[p].nLock = 1 THEN 0 ELSE inode[p].unused]]
  /\ \/ last /\ Quiet /\ DropAll(p)
     \/ last /\ Fault /\ (IF closes THEN DropAll(p) ELSE UNCHANGED bytes)
     \/ ~last /\ Quiet /\ (IF closes THEN DropAll(p) ELSE UNCHANGED bytes)
  /\ call' = [call EXCEPT ![p] = NoCall]
  /\ UNCHANGED open

-----------------------------------------------------------------------------
(* Files and processes. *)

(* Mutant of Open: it is not asked whether a descriptor waits. *)
OpenReusing(c) ==
  LET p == ProcOf[c] IN
  /\ c \notin open /\ call[p] = NoCall
  /\ open' = open \cup {c}
  /\ inode' = [inode EXCEPT ![p] = [@ EXCEPT !.unused = inode[p].unused - 1]]
  /\ UNCHANGED <<lock, bytes, call>> /\ Quiet

(* A descriptor that waits to be closed is used again. *)
Open(c) ==
  LET p == ProcOf[c] IN
  /\ c \notin open /\ call[p] = NoCall
  /\ open' = open \cup {c}
  /\ inode' = IF inode[p].unused > 0 THEN [inode EXCEPT ![p] = [@ EXCEPT !.unused = inode[p].unused - 1]] ELSE inode
  /\ UNCHANGED <<lock, bytes, call>> /\ Quiet

(* Mutant of Close: the descriptor is closed at once. *)
CloseAtOnce(c) ==
  LET p == ProcOf[c] IN
  /\ Free(c) /\ lock[c] = NONE
  /\ open' = open \ {c}
  /\ inode' = inode
  /\ DropAll(p)
  /\ UNCHANGED <<lock, call>> /\ Quiet

(* unixClose of a connection without a lock. *)
Close(c) ==
  LET p == ProcOf[c] IN
  /\ Free(c) /\ lock[c] = NONE
  /\ open' = open \ {c}
  /\ IF inode[p].nLock > 0
       THEN inode' = [inode EXCEPT ![p] = [@ EXCEPT !.unused = inode[p].unused + 1]] /\ UNCHANGED bytes
       ELSE DropAll(p) /\ UNCHANGED inode
  /\ UNCHANGED <<lock, call>> /\ Quiet

(* The process ends at any point; the system drops its locks. *)
Exit(p) ==
  /\ open' = {c \in open : ProcOf[c] # p}
  /\ lock' = [c \in Conn |-> IF ProcOf[c] = p THEN NONE ELSE lock[c]]
  /\ inode' = [inode EXCEPT ![p] = NoInode]
  /\ call' = [call EXCEPT ![p] = NoCall]
  /\ DropAll(p) /\ Quiet

Next ==
  \/ \E c \in Conn :
       \/ Join(c) \/ ReadPending(c) \/ Reserve(c) \/ WritePending(c) \/ TryAgain(c)
       \/ Unlock(c, NONE) \/ Unlock(c, SHARED) \/ Open(c) \/ Close(c)
  \/ \E p \in Process :
       \/ ReadRange(p) \/ DropPending(p) \/ WriteRange(p) \/ Unreserve(p) \/ Release(p)
       \/ Exit(p)

Spec == Init /\ [][Next]_vars

(* Mutant of CheckReserved: only the system is asked. *)
CheckReservedInSystem(c) == \E q \in Process \ {ProcOf[c]} : reserved[q] = "write"

(* unixCheckReservedLock: the system does not tell a process of its own. *)
CheckReserved(c) ==
  \/ inode[ProcOf[c]].lock > SHARED
  \/ \E q \in Process \ {ProcOf[c]} : reserved[q] = "write"

-----------------------------------------------------------------------------
(* Every variable stays in its type. *)
TypeOK ==
  /\ open \subseteq Conn
  /\ lock \in [Conn -> Level]
  /\ inode \in [Process -> Inode]
  /\ pending \in [Process -> Held] /\ reserved \in [Process -> Held] /\ range \in [Process -> Held]
  /\ call \in [Process -> Call \cup {NoCall}]
  /\ faults \in 0..MaxFaults

(* Behind the lock of every connection there is one of its process in the  *)
(* system, whichever of its connections took it and however many others    *)
(* of them have been closed since.                                         *)
LockedInSystem ==
  \A c \in Conn : lock[c] # NONE => range[ProcOf[c]] # "none"

(* While a connection is between its two unlocks, it has SHARED. *)
Letting(c) == call[ProcOf[c]].at = "release" /\ call[ProcOf[c]].conn = c
LevelOf == [c \in Conn |-> IF Letting(c) THEN SHARED ELSE lock[c]]
Writers == {c \in Conn : LevelOf[c] > SHARED /\ reserved[ProcOf[c]] = "write"}

T == INSTANCE LockTable WITH lock <- LevelOf, writer <- Writers

(* The byte locks and counts implement the lock table, whatever fails and  *)
(* whoever dies in between.                                                *)
TableSpec == T!Spec

(* Nobody has the file to himself while another one reads it. *)
TableExclusion == T!Exclusion

(* A reservation does not go unseen. *)
ReservedIsSeen == \A c \in Conn : LevelOf[c] <= SHARED /\ Writers # {} => CheckReserved(c)

=============================================================================
