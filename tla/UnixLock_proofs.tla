--------------------------- MODULE UnixLock_proofs ---------------------------
(***************************************************************************)
(* Theorems about UnixLock, for any processes with any finite numbers of   *)
(* connections, and any number of failing system calls.                    *)
(***************************************************************************)
EXTENDS UnixLock, FiniteSetTheorems, TLAPS

-----------------------------------------------------------------------------
(* The inductive invariant: what a process keeps, and how processes are     *)
(* kept apart.                                                             *)

(* The connections of a process that have a lock: the ones it counts. *)
Holders(p) == {c \in Conn : ProcOf[c] = p /\ lock[c] # NONE}

Counted(p) ==
  /\ inode[p].nShared = Cardinality(Holders(p)) /\ inode[p].nLock = Cardinality(Holders(p))
  /\ inode[p].lock = NONE <=> Holders(p) = {}

(* The lock of a process is the highest one of its connections, which one  *)
(* connection has alone when it is more than SHARED.                       *)
Highest(p) ==
  /\ \A c \in Holders(p) : LevelOf[c] <= inode[p].lock
  /\ \A c \in Holders(p) : LevelOf[c] > SHARED => LevelOf[c] = inode[p].lock
  /\ \A c, d \in Holders(p) : LevelOf[c] > SHARED /\ LevelOf[d] > SHARED => c = d
  /\ inode[p].lock > SHARED => \E c \in Holders(p) : LevelOf[c] = inode[p].lock
  /\ inode[p].lock = EXCLUSIVE => \A c, d \in Holders(p) : c = d

(* What stands behind the lock of a process in the system. *)
Backed(p) ==
  /\ inode[p].lock # NONE => range[p] # "none"
  /\ inode[p].lock >= PENDING => pending[p] = "write"
  /\ inode[p].lock = RESERVED => reserved[p] = "write"
  /\ reserved[p] # "none" => reserved[p] = "write" /\ inode[p].lock >= RESERVED

(* Where a call is. *)
Calling(p) ==
  call[p] # NoCall =>
    /\ ProcOf[call[p].conn] = p
    /\ call[p].at \in {"range", "drop"} => inode[p].lock = NONE /\ pending[p] # "none"
    /\ call[p].at = "range" => ~call[p].got
    /\ call[p].at = "drop" /\ call[p].got => range[p] # "none"
    /\ call[p].at = "exclusive" =>
         /\ lock[call[p].conn] \in {SHARED, RESERVED, PENDING}
         /\ inode[p].lock = lock[call[p].conn] /\ pending[p] = "write"
    /\ call[p].at = "unreserve" => lock[call[p].conn] > SHARED
    /\ call[p].at = "release" => lock[call[p].conn] # NONE

Own(p) == Counted(p) /\ Highest(p) /\ Backed(p) /\ Calling(p)

(* POSIX keeps the processes apart. *)
Apart(byte) == \A p, q \in Process : p # q /\ byte[p] = "write" => byte[q] = "none"

(* Nobody else reads while a connection has EXCLUSIVE, nor while it lets   *)
(* go of it: the range is no longer written then, but the pending byte is. *)
Alone == \A p, q \in Process : p # q /\ inode[p].lock = EXCLUSIVE => range[q] = "none"

IInv ==
  /\ TypeOK
  /\ \A p \in Process : Own(p)
  /\ Apart(pending) /\ Apart(reserved) /\ Alone

-----------------------------------------------------------------------------
(* What a step of one process may change. *)

(* The state of the other processes stays. *)
Elsewhere(p) ==
  /\ \A q \in Process \ {p} :
       /\ inode'[q] = inode[q] /\ call'[q] = call[q]
       /\ pending'[q] = pending[q] /\ reserved'[q] = reserved[q] /\ range'[q] = range[q]
  /\ \A c \in Conn : ProcOf[c] # p => lock'[c] = lock[c]

(* A byte is taken as POSIX allows it, given back, or left alone. *)
Polite(old, new, p) ==
  \/ new[p] = old[p] \/ new[p] = "none"
  \/ new[p] = "read" /\ CanRead(old, p)
  \/ new[p] = "write" /\ CanWrite(old, p)

(* The range is taken under the pending byte, and EXCLUSIVE with the range. *)
Orderly(p) ==
  /\ range'[p] # "none" => range[p] # "none" \/ pending[p] # "none"
  /\ inode'[p].lock = EXCLUSIVE => inode[p].lock = EXCLUSIVE \/ CanWrite(range, p)

Step(p) ==
  /\ Elsewhere(p) /\ Own(p)' /\ TypeOK'
  /\ Polite(pending, pending', p) /\ Polite(reserved, reserved', p) /\ Orderly(p)

(* A process whose state stays keeps what it has. *)
LEMMA Untouched ==
  ASSUME TypeOK, TypeOK', NEW p \in Process, Elsewhere(p), NEW q \in Process, q # p, Own(q)
  PROVE  Own(q)'
<1>1. /\ inode'[q] = inode[q] /\ call'[q] = call[q]
      /\ pending'[q] = pending[q] /\ reserved'[q] = reserved[q] /\ range'[q] = range[q]
  BY DEF Elsewhere
<1>2. \A c \in Conn : ProcOf[c] = q => lock'[c] = lock[c] /\ LevelOf'[c] = LevelOf[c]
  BY <1>1 DEF Elsewhere, LevelOf, Letting
<1>3. Holders(q)' = Holders(q)
  BY <1>2 DEF Holders
<1>4. Counted(q)'
  BY <1>1, <1>3 DEF Own, Counted
<1>5. Highest(q)'
  <2>1. \A c \in Holders(q) : LevelOf'[c] = LevelOf[c]
    BY <1>2 DEF Holders
  <2> QED
    BY <2>1, <1>1, <1>3 DEF Own, Highest
<1>6. Backed(q)'
  BY <1>1 DEF Own, Backed
<1>7. Calling(q)'
  <2>1. call[q] # NoCall => call[q].conn \in Conn
    BY DEF TypeOK, Call
  <2> QED
    BY <2>1, <1>1, <1>2 DEF Own, Calling
<1> QED
  BY <1>4, <1>5, <1>6, <1>7 DEF Own

(* A byte taken politely stays apart. *)
LEMMA PoliteStep ==
  ASSUME NEW old \in [Process -> Held], NEW new \in [Process -> Held], NEW p \in Process,
         \A q \in Process \ {p} : new[q] = old[q],
         Apart(old), Polite(old, new, p)
  PROVE  Apart(new)
<1> SUFFICES ASSUME NEW q \in Process, NEW r \in Process, q # r, new[q] = "write"
             PROVE  new[r] = "none"
  BY DEF Apart
<1>1. CASE q # p /\ r # p
  BY <1>1 DEF Apart
<1>2. CASE q = p
  BY <1>2 DEF Apart, Polite, CanWrite
<1>3. CASE r = p
  <2>1. old[q] = "write" /\ old[r] = "none"
    BY <1>3 DEF Apart
  <2> QED
    BY <2>1, <1>3 DEF Polite, CanRead, CanWrite
<1> QED
  BY <1>1, <1>2, <1>3

LEMMA StepKeeps ==
  ASSUME IInv, NEW p \in Process, Step(p)
  PROVE  IInv'
<1>1. TypeOK /\ TypeOK'
  BY DEF IInv, Step
<1>2. \A q \in Process : Own(q)'
  <2>1. SUFFICES ASSUME NEW q \in Process, q # p PROVE Own(q)'
    BY DEF Step
  <2>2. Elsewhere(p) /\ Own(q)
    BY DEF Step, IInv
  <2> QED
    BY <1>1, <2>1, <2>2, Untouched
<1>3. Apart(pending)'
  <2>1. /\ pending \in [Process -> Held] /\ pending' \in [Process -> Held]
        /\ \A q \in Process \ {p} : pending'[q] = pending[q]
    BY <1>1 DEF TypeOK, Step, Elsewhere
  <2>2. Apart(pending) /\ Polite(pending, pending', p)
    BY DEF IInv, Step
  <2>3. \A new : new = pending' => Apart(new)
    <3> SUFFICES ASSUME NEW new, new = pending' PROVE Apart(new)
      OBVIOUS
    <3> QED
      BY <2>1, <2>2, PoliteStep
  <2> QED
    BY <2>3 DEF Apart
<1>4. Apart(reserved)'
  <2>1. /\ reserved \in [Process -> Held] /\ reserved' \in [Process -> Held]
        /\ \A q \in Process \ {p} : reserved'[q] = reserved[q]
    BY <1>1 DEF TypeOK, Step, Elsewhere
  <2>2. Apart(reserved) /\ Polite(reserved, reserved', p)
    BY DEF IInv, Step
  <2>3. \A new : new = reserved' => Apart(new)
    <3> SUFFICES ASSUME NEW new, new = reserved' PROVE Apart(new)
      OBVIOUS
    <3> QED
      BY <2>1, <2>2, PoliteStep
  <2> QED
    BY <2>3 DEF Apart
<1>5. Alone'
  <2> SUFFICES ASSUME NEW q \in Process, NEW r \in Process, q # r, inode'[q].lock = EXCLUSIVE
               PROVE  range'[r] = "none"
    BY DEF Alone
  <2>1. CASE q # p /\ r # p
    BY <2>1 DEF IInv, Alone, Step, Elsewhere
  <2>2. CASE q = p
    BY <2>2 DEF IInv, Alone, Step, Elsewhere, Orderly, CanWrite
  <2>3. CASE r = p
    <3>1. inode[q].lock = EXCLUSIVE /\ range[r] = "none"
      BY <2>3 DEF IInv, Alone, Step, Elsewhere
    <3>2. pending[q] = "write"
      BY <3>1 DEF IInv, Own, Backed, EXCLUSIVE, PENDING
    <3>3. pending[r] = "none"
      BY <3>2 DEF IInv, Apart
    <3> QED
      BY <3>1, <3>3, <2>3 DEF Step, Orderly
  <2> QED
    BY <2>1, <2>2, <2>3
<1> QED
  BY <1>1, <1>2, <1>3, <1>4, <1>5 DEF IInv
-----------------------------------------------------------------------------
(* Facts about counts and levels. *)

LEMMA HoldersFinite ==
  ASSUME NEW p \in Process
  PROVE  IsFiniteSet(Holders(p)) /\ Cardinality(Holders(p)) \in Nat
<1>1. Holders(p) \in SUBSET Conn
  BY DEF Holders
<1> QED
  BY <1>1, FS_Subset, FS_CardinalityType, UnixLockAssumption

LEMMA LevelTypes ==
  ASSUME TypeOK
  PROVE  /\ \A c \in Conn : ProcOf[c] \in Process /\ lock[c] \in Level /\ LevelOf[c] \in Level
         /\ \A p \in Process : /\ inode[p] \in Inode /\ inode[p].lock \in Level
                               /\ inode[p].nShared \in Nat /\ inode[p].nLock \in Nat /\ inode[p].unused \in Nat
                               /\ call[p] \in Call \cup {NoCall}
                               /\ call[p].at # "none" => call[p] \in Call /\ call[p].conn \in Conn
BY UnixLockAssumption DEF TypeOK, LevelOf, Level, Inode, Call, NoCall, NONE, SHARED, EXCLUSIVE

(* A step of a process that leaves all levels as they are. *)
LEMMA LevelsStay ==
  ASSUME NEW p \in Process, Counted(p), Highest(p), lock' = lock,
         inode'[p].lock = inode[p].lock, inode'[p].nShared = inode[p].nShared,
         inode'[p].nLock = inode[p].nLock,
         \A c \in Holders(p) : LevelOf'[c] = LevelOf[c]
  PROVE  Counted(p)' /\ Highest(p)'
<1>1. Holders(p)' = Holders(p)
  BY DEF Holders
<1>2. Counted(p)'
  BY <1>1 DEF Counted
<1>3. Highest(p)'
  BY <1>1 DEF Highest
<1> QED
  BY <1>2, <1>3

(* Outside of a release, the level of a connection is its lock. *)
LEMMA LevelIsLock ==
  ASSUME NEW c \in Conn, call[ProcOf[c]].at # "release"
  PROVE  LevelOf[c] = lock[c]
BY DEF LevelOf, Letting

-----------------------------------------------------------------------------
(* The actions, one by one. *)

LEMMA JoinStep ==
  ASSUME IInv, NEW c \in Conn, Join(c)
  PROVE  Step(ProcOf[c])
<1> DEFINE p == ProcOf[c]
<1>1. TypeOK /\ p \in Process /\ Own(p)
  BY UnixLockAssumption DEF IInv
<1>2. /\ call[p] = NoCall /\ lock[c] = NONE /\ inode[p].lock \in {SHARED, RESERVED}
      /\ lock' = [lock EXCEPT ![c] = SHARED]
      /\ inode' = [inode EXCEPT ![p] = OneMore(inode[p])]
      /\ UNCHANGED <<open, pending, reserved, range, call, faults>>
  BY DEF Join, Free, Quiet, bytes
<1>3. /\ inode'[p].lock = inode[p].lock /\ inode'[p].nShared = inode[p].nShared + 1
      /\ inode'[p].nLock = inode[p].nLock + 1 /\ inode'[p] \in Inode
  <2>1. inode'[p] = OneMore(inode[p]) /\ inode[p] \in Inode
    BY <1>1, <1>2 DEF TypeOK
  <2> QED
    BY <2>1 DEF Inode, OneMore
<1>4. TypeOK'
  BY <1>1, <1>2, <1>3 DEF TypeOK, Level, NONE, SHARED, EXCLUSIVE
<1>5. Elsewhere(p)
  BY <1>1, <1>2 DEF Elsewhere, TypeOK
<1>6. Holders(p)' = Holders(p) \cup {c} /\ c \notin Holders(p)
  BY <1>1, <1>2 DEF Holders, TypeOK, NONE, SHARED
<1>7. Counted(p)'
  <2>1. Cardinality(Holders(p)') = Cardinality(Holders(p)) + 1
    BY <1>1, <1>6, HoldersFinite, FS_AddElement
  <2> QED
    BY <2>1, <1>1, <1>2, <1>3, <1>6 DEF Own, Counted, NONE, SHARED, RESERVED
<1>8. \A d \in Conn : ProcOf[d] = p => LevelOf'[d] = lock'[d] /\ LevelOf[d] = lock[d]
  BY <1>2 DEF LevelOf, Letting, NoCall
<1>9. Highest(p)'
  <2>1. \A d \in Holders(p) : LevelOf'[d] = LevelOf[d] /\ ProcOf[d] = p /\ d \in Conn
    BY <1>8, <1>6, <1>1, <1>2 DEF Holders, TypeOK
  <2>2. LevelOf'[c] = SHARED
    BY <1>8, <1>1, <1>2 DEF TypeOK
  <2> QED
    BY <2>1, <2>2, <1>1, <1>2, <1>3, <1>6 DEF Own, Highest, SHARED, RESERVED, EXCLUSIVE
<1>10. Backed(p)' /\ Calling(p)'
  BY <1>1, <1>2, <1>3 DEF Own, Backed, Calling
<1>11. Polite(pending, pending', p) /\ Polite(reserved, reserved', p) /\ Orderly(p)
  BY <1>2, <1>3 DEF Polite, Orderly
<1> QED
  BY <1>4, <1>5, <1>7, <1>9, <1>10, <1>11 DEF Step, Own

LEMMA ReadPendingStep ==
  ASSUME IInv, NEW c \in Conn, ReadPending(c)
  PROVE  Step(ProcOf[c])
<1> DEFINE p == ProcOf[c]
<1>1. TypeOK /\ p \in Process /\ Own(p)
  BY UnixLockAssumption DEF IInv
<1>2. /\ call[p] = NoCall /\ lock[c] = NONE /\ inode[p].lock = NONE /\ CanRead(pending, p)
      /\ pending' = [pending EXCEPT ![p] = "read"]
      /\ call' = [call EXCEPT ![p] = CallOf(c, "range")]
      /\ UNCHANGED <<open, lock, inode, reserved, range, faults>>
  BY DEF ReadPending, Free, Quiet
<1>3. /\ CallOf(c, "range") \in Call /\ CallOf(c, "range").at = "range" /\ CallOf(c, "range").conn = c
  BY DEF CallOf, Call, NONE
<1>4. call'[p] = CallOf(c, "range") /\ pending'[p] = "read"
  BY <1>1, <1>2 DEF TypeOK
<1>5. TypeOK'
  BY <1>1, <1>2, <1>3 DEF TypeOK, Held
<1>6. Elsewhere(p)
  BY <1>1, <1>2 DEF Elsewhere, TypeOK
<1>7. Counted(p)' /\ Highest(p)'
  <2>1. \A d \in Holders(p) : LevelOf'[d] = LevelOf[d]
    BY <1>2, <1>3, <1>4 DEF Holders, LevelOf, Letting, NoCall
  <2> QED
    BY <2>1, <1>1, <1>2, LevelsStay DEF Own
<1>8. Backed(p)'
  BY <1>1, <1>2 DEF Own, Backed, NONE, RESERVED, PENDING
<1>9. Calling(p)'
  <2>1. ~CallOf(c, "range").got
    BY DEF CallOf
  <2> QED
    BY <2>1, <1>2, <1>3, <1>4 DEF Calling
<1>10. Polite(pending, pending', p) /\ Polite(reserved, reserved', p) /\ Orderly(p)
  BY <1>2, <1>4 DEF Polite, Orderly
<1> QED
  BY <1>5, <1>6, <1>7, <1>8, <1>9, <1>10 DEF Step, Own

LEMMA ReadRangeStep ==
  ASSUME IInv, NEW p \in Process, ReadRange(p)
  PROVE  Step(p)
<1>1. TypeOK /\ Own(p)
  BY DEF IInv
<1>2. /\ call[p].at = "range" /\ UNCHANGED <<open, lock, inode, pending, reserved>>
      /\ \/ call' = [call EXCEPT ![p] = [CallOf(call[p].conn, "drop") EXCEPT !.got = TRUE]] /\ range' = [range EXCEPT ![p] = "read"]
         \/ call' = [call EXCEPT ![p] = CallOf(call[p].conn, "drop")] /\ range' = range
      /\ faults' \in 0..MaxFaults
  BY <1>1, UnixLockAssumption DEF ReadRange, Quiet, Fault, TypeOK
<1>3. call[p] \in Call /\ call[p].conn \in Conn /\ call[p] # NoCall
  BY <1>1, <1>2, LevelTypes DEF NoCall
<1>4. /\ call'[p] \in Call /\ call'[p].at = "drop" /\ call'[p].conn = call[p].conn
      /\ call'[p].got => call[p].got \/ range'[p] = "read"
      /\ range'[p] # "none" => range[p] # "none" \/ range'[p] = "read"
      /\ range[p] # "none" => range'[p] # "none"
  <2> DEFINE c == call[p].conn
             new == CallOf(c, "drop")
  <2>1. new \in Call /\ new.at = "drop" /\ new.conn = c /\ ~new.got
    BY <1>3 DEF Call, CallOf, NONE
  <2>2. CASE call' = [call EXCEPT ![p] = [new EXCEPT !.got = TRUE]] /\ range' = [range EXCEPT ![p] = "read"]
    <3>1. call'[p] = [new EXCEPT !.got = TRUE] /\ range'[p] = "read"
      BY <1>1, <2>2 DEF TypeOK
    <3> QED
      BY <2>1, <3>1 DEF Call
  <2>3. CASE call' = [call EXCEPT ![p] = new] /\ range' = range
    <3>1. call'[p] = new
      BY <1>1, <2>3 DEF TypeOK
    <3> QED
      BY <2>1, <2>3, <3>1
  <2> QED
    BY <1>2, <2>2, <2>3
<1>5. TypeOK'
  BY <1>1, <1>2, <1>4 DEF TypeOK, Held
<1>6. Elsewhere(p)
  BY <1>1, <1>2 DEF Elsewhere, TypeOK
<1>7. Counted(p)' /\ Highest(p)'
  <2>1. \A d \in Holders(p) : LevelOf'[d] = LevelOf[d]
    BY <1>2, <1>4 DEF Holders, LevelOf, Letting
  <2> QED
    BY <2>1, <1>1, <1>2, LevelsStay DEF Own
<1>8. inode[p].lock = NONE /\ pending[p] # "none" /\ ProcOf[call[p].conn] = p
  BY <1>1, <1>2, <1>3 DEF Own, Calling
<1>9. Backed(p)'
  BY <1>1, <1>2, <1>8 DEF Own, Backed, NONE, RESERVED, PENDING
<1>10. Calling(p)'
  BY <1>1, <1>2, <1>3, <1>4, <1>8 DEF Own, Calling
<1>11. Polite(pending, pending', p) /\ Polite(reserved, reserved', p) /\ Orderly(p)
  BY <1>2, <1>8 DEF Polite, Orderly
<1> QED
  BY <1>5, <1>6, <1>7, <1>9, <1>10, <1>11 DEF Step, Own

LEMMA DropPendingStep ==
  ASSUME IInv, NEW p \in Process, DropPending(p)
  PROVE  Step(p)
<1> DEFINE c == call[p].conn
<1>1. TypeOK /\ Own(p)
  BY DEF IInv
<1>2. call[p] \in Call /\ c \in Conn /\ call[p] # NoCall /\ call[p].at = "drop"
  BY <1>1, LevelTypes DEF DropPending, NoCall
<1>3. ProcOf[c] = p /\ inode[p].lock = NONE /\ Holders(p) = {} /\ (call[p].got => range[p] # "none")
  BY <1>1, <1>2 DEF Own, Calling, Counted
<1>4. /\ call' = [call EXCEPT ![p] = NoCall] /\ UNCHANGED <<open, reserved, range>>
      /\ faults' \in 0..MaxFaults
      /\ call'[p] = NoCall
  BY <1>1, UnixLockAssumption DEF DropPending, Quiet, Fault, TypeOK
<1>5. pending' \in [Process -> Held] /\ (\A q \in Process \ {p} : pending'[q] = pending[q])
      /\ (pending'[p] = pending[p] \/ pending'[p] = "none")
  BY <1>1 DEF DropPending, TypeOK, Held
<1>6. \A d \in Conn : ProcOf[d] = p => LevelOf'[d] = lock'[d]
  BY <1>4 DEF LevelOf, Letting, NoCall
<1>7. Polite(pending, pending', p) /\ Polite(reserved, reserved', p)
  BY <1>4, <1>5 DEF Polite
<1>8. CASE UNCHANGED <<lock, inode>>
  <2>1. TypeOK'
    BY <1>1, <1>4, <1>5, <1>8 DEF TypeOK
  <2>2. Elsewhere(p)
    BY <1>1, <1>4, <1>5, <1>8 DEF TypeOK, Elsewhere
  <2>3. Counted(p)' /\ Highest(p)'
    BY <1>1, <1>3, <1>8, LevelsStay DEF Own
  <2>4. Backed(p)'
    BY <1>1, <1>3, <1>4, <1>8 DEF Own, Backed, NONE, RESERVED, PENDING
  <2>5. Calling(p)' /\ Orderly(p)
    BY <1>4, <1>8 DEF Calling, Orderly
  <2> QED
    BY <1>7, <2>1, <2>2, <2>3, <2>4, <2>5 DEF Step, Own
<1>9. CASE /\ call[p].got
           /\ lock' = [lock EXCEPT ![c] = SHARED]
           /\ inode' = [inode EXCEPT ![p] =
                [lock |-> SHARED, nShared |-> 1, nLock |-> inode[p].nLock + 1, unused |-> inode[p].unused]]
  <2>1. /\ inode'[p] \in Inode /\ inode'[p].lock = SHARED /\ inode'[p].nShared = 1
        /\ inode'[p].nLock = inode[p].nLock + 1
    BY <1>1, <1>9 DEF TypeOK, Inode, Level, NONE, SHARED, EXCLUSIVE
  <2>2. TypeOK'
    <3>1. lock' \in [Conn -> Level]
      <4>1. SHARED \in Level /\ lock \in [Conn -> Level]
        BY <1>1 DEF TypeOK, Level, NONE, SHARED, EXCLUSIVE
      <4>2. lock' = [lock EXCEPT ![c] = SHARED]
        BY <1>9
      <4> QED
        BY <4>1, <4>2
    <3>2. inode' \in [Process -> Inode]
      BY <1>1, <1>9, <2>1 DEF TypeOK
    <3>3. call' \in [Process -> Call \cup {NoCall}]
      BY <1>1, <1>4 DEF TypeOK
    <3> QED
      BY <1>1, <1>4, <1>5, <3>1, <3>2, <3>3 DEF TypeOK
  <2>3. Elsewhere(p)
    BY <1>1, <1>2, <1>3, <1>4, <1>5, <1>9 DEF TypeOK, Elsewhere
  <2>4. Holders(p)' = {c}
    BY <1>1, <1>2, <1>3, <1>9 DEF Holders, TypeOK, NONE, SHARED
  <2>5. Counted(p)'
    <3>1. Cardinality({c}) = 1 /\ Cardinality({}) = 0
      BY FS_Singleton, FS_EmptySet
    <3>2. inode[p].nLock = 0
      BY <1>1, <1>3, <3>1 DEF Own, Counted
    <3> QED
      BY <2>1, <2>4, <3>1, <3>2 DEF Counted, NONE, SHARED
  <2>6. Highest(p)'
    <3>1. LevelOf'[c] = SHARED
      BY <1>1, <1>2, <1>3, <1>6, <1>9 DEF TypeOK
    <3> QED
      BY <2>1, <2>4, <3>1 DEF Highest, SHARED, EXCLUSIVE
  <2>7. Backed(p)'
    BY <1>1, <1>3, <1>4, <1>9, <2>1 DEF Own, Backed, NONE, SHARED, RESERVED, PENDING
  <2>8. Calling(p)' /\ Orderly(p)
    BY <1>4, <2>1 DEF Calling, Orderly, SHARED, EXCLUSIVE
  <2> QED
    BY <1>7, <2>2, <2>3, <2>5, <2>6, <2>7, <2>8 DEF Step, Own
<1> QED
  BY <1>8, <1>9 DEF DropPending

LEMMA ReserveStep ==
  ASSUME IInv, NEW c \in Conn, Reserve(c)
  PROVE  Step(ProcOf[c])
<1> DEFINE p == ProcOf[c]
<1>1. TypeOK /\ p \in Process /\ Own(p)
  BY UnixLockAssumption DEF IInv
<1>2. /\ call[p] = NoCall /\ lock[c] = SHARED /\ inode[p].lock = SHARED /\ CanWrite(reserved, p)
      /\ reserved' = [reserved EXCEPT ![p] = "write"]
      /\ lock' = [lock EXCEPT ![c] = RESERVED]
      /\ inode' = [inode EXCEPT ![p] = [@ EXCEPT !.lock = RESERVED]]
      /\ UNCHANGED <<open, pending, range, call, faults>>
  BY DEF Reserve, Free, Quiet
<1>3. /\ inode'[p].lock = RESERVED /\ inode'[p].nShared = inode[p].nShared
      /\ inode'[p].nLock = inode[p].nLock /\ inode'[p] \in Inode /\ reserved'[p] = "write"
  BY <1>1, <1>2 DEF TypeOK, Inode, Level, NONE, RESERVED, EXCLUSIVE
<1>4. TypeOK'
  BY <1>1, <1>2, <1>3 DEF TypeOK, Level, Held, NONE, RESERVED, EXCLUSIVE
<1>5. Elsewhere(p)
  BY <1>1, <1>2 DEF Elsewhere, TypeOK
<1>6. Holders(p)' = Holders(p) /\ c \in Holders(p)
  BY <1>1, <1>2 DEF Holders, TypeOK, NONE, SHARED, RESERVED
<1>7. Counted(p)'
  BY <1>1, <1>2, <1>3, <1>6 DEF Own, Counted, NONE, SHARED, RESERVED
<1>8. Highest(p)'
  <2>1. \A d \in Holders(p) : d # c => LevelOf'[d] = LevelOf[d]
    BY <1>1, <1>2 DEF Holders, LevelOf, Letting, TypeOK
  <2>2. LevelOf'[c] = RESERVED
    BY <1>1, <1>2 DEF LevelOf, Letting, NoCall, TypeOK
  <2>3. \A d \in Holders(p) : LevelOf[d] \in Level /\ LevelOf[d] <= SHARED
    BY <1>1, <1>2, LevelTypes DEF Own, Highest, Holders
  <2> QED
    BY <2>1, <2>2, <2>3, <1>3, <1>6 DEF Highest, Level, NONE, SHARED, RESERVED, EXCLUSIVE
<1>9. Backed(p)' /\ Calling(p)'
  BY <1>1, <1>2, <1>3 DEF Own, Backed, Calling, NONE, SHARED, RESERVED, PENDING
<1>10. Polite(pending, pending', p) /\ Polite(reserved, reserved', p) /\ Orderly(p)
  BY <1>2, <1>3 DEF Polite, Orderly, RESERVED, EXCLUSIVE
<1> QED
  BY <1>4, <1>5, <1>7, <1>8, <1>9, <1>10 DEF Step, Own

LEMMA WritePendingStep ==
  ASSUME IInv, NEW c \in Conn, WritePending(c) \/ TryAgain(c)
  PROVE  Step(ProcOf[c])
<1> DEFINE p == ProcOf[c]
<1>1. TypeOK /\ p \in Process /\ Own(p)
  BY UnixLockAssumption DEF IInv
<1>2. /\ call[p] = NoCall /\ lock[c] \in {SHARED, RESERVED, PENDING} /\ inode[p].lock = lock[c]
      /\ call' = [call EXCEPT ![p] = CallOf(c, "exclusive")]
      /\ UNCHANGED <<open, lock, inode, reserved, range, faults>>
      /\ \/ CanWrite(pending, p) /\ pending' = [pending EXCEPT ![p] = "write"]
         \/ lock[c] = PENDING /\ pending' = pending
  BY DEF WritePending, TryAgain, Free, Quiet, bytes
<1>3. CallOf(c, "exclusive") \in Call /\ CallOf(c, "exclusive").at = "exclusive" /\ CallOf(c, "exclusive").conn = c
  BY DEF CallOf, Call, NONE
<1>4. call'[p] = CallOf(c, "exclusive")
  BY <1>1, <1>2 DEF TypeOK
<1>5. pending'[p] = "write" /\ Polite(pending, pending', p)
  BY <1>1, <1>2 DEF TypeOK, Polite, Own, Backed, PENDING
<1>6. TypeOK'
  BY <1>1, <1>2, <1>3 DEF TypeOK, Held
<1>7. Elsewhere(p)
  BY <1>1, <1>2 DEF Elsewhere, TypeOK
<1>8. Counted(p)' /\ Highest(p)'
  <2>1. \A d \in Holders(p) : LevelOf'[d] = LevelOf[d]
    BY <1>2, <1>3, <1>4 DEF Holders, LevelOf, Letting, NoCall
  <2> QED
    BY <2>1, <1>1, <1>2, LevelsStay DEF Own
<1>9. Backed(p)'
  BY <1>1, <1>2, <1>5 DEF Own, Backed
<1>10. Calling(p)'
  BY <1>2, <1>3, <1>4, <1>5 DEF Calling
<1>11. Polite(reserved, reserved', p) /\ Orderly(p)
  BY <1>2 DEF Polite, Orderly
<1> QED
  BY <1>5, <1>6, <1>7, <1>8, <1>9, <1>10, <1>11 DEF Step, Own

LEMMA WriteRangeStep ==
  ASSUME IInv, NEW p \in Process, WriteRange(p)
  PROVE  Step(p)
<1> DEFINE c == call[p].conn
<1>1. TypeOK /\ Own(p)
  BY DEF IInv
<1>2. call[p] \in Call /\ c \in Conn /\ call[p] # NoCall /\ call[p].at = "exclusive"
  BY <1>1, LevelTypes DEF WriteRange, NoCall
<1>3. /\ ProcOf[c] = p /\ lock[c] \in {SHARED, RESERVED, PENDING} /\ inode[p].lock = lock[c]
      /\ pending[p] = "write"
  BY <1>1, <1>2 DEF Own, Calling
<1>4. c \in Holders(p)
  BY <1>2, <1>3 DEF Holders, NONE, SHARED, RESERVED, PENDING
<1>5. inode[p].nShared <= 1 => Holders(p) = {c}
  <2>1. /\ IsFiniteSet(Holders(p)) /\ Cardinality(Holders(p)) \in Nat
        /\ inode[p].nShared = Cardinality(Holders(p))
    BY <1>1, HoldersFinite DEF Own, Counted
  <2>2. Cardinality(Holders(p)) # 0
    BY <2>1, <1>4, FS_EmptySet
  <2> QED
    BY <2>1, <2>2, <1>4, FS_Singleton
<1>6. PICK level \in {PENDING, EXCLUSIVE} :
        /\ lock' = [lock EXCEPT ![c] = level]
        /\ inode' = [inode EXCEPT ![p] = [@ EXCEPT !.lock = level]]
        /\ \/ range' = range
           \/ CanWrite(range, p) /\ range' = [range EXCEPT ![p] = "write"]
        /\ level = EXCLUSIVE => /\ Holders(p) = {c} /\ CanWrite(range, p)
                                /\ range' = [range EXCEPT ![p] = "write"]
  BY <1>5 DEF WriteRange, PENDING, EXCLUSIVE
<1>7. /\ call' = [call EXCEPT ![p] = NoCall] /\ UNCHANGED <<open, pending, reserved>>
      /\ call'[p] = NoCall /\ faults' \in 0..MaxFaults
  BY <1>1, UnixLockAssumption DEF WriteRange, Quiet, Fault, TypeOK
<1>8. /\ inode'[p] \in Inode /\ inode'[p].lock = level /\ inode'[p].nShared = inode[p].nShared
      /\ inode'[p].nLock = inode[p].nLock
  BY <1>1, <1>6 DEF TypeOK, Inode, Level, NONE, PENDING, EXCLUSIVE
<1>9. TypeOK'
  <2>1. lock' \in [Conn -> Level]
    <3>1. level \in Level /\ lock \in [Conn -> Level]
      BY <1>1 DEF TypeOK, Level, NONE, PENDING, EXCLUSIVE
    <3>2. lock' = [lock EXCEPT ![c] = level]
      BY <1>6
    <3> QED
      BY <3>1, <3>2
  <2>2. inode' \in [Process -> Inode]
    BY <1>1, <1>6, <1>8 DEF TypeOK
  <2>3. call' \in [Process -> Call \cup {NoCall}]
    BY <1>1, <1>7 DEF TypeOK
  <2>4. range' \in [Process -> Held]
    BY <1>1, <1>6 DEF TypeOK, Held
  <2> QED
    BY <1>1, <1>7, <2>1, <2>2, <2>3, <2>4 DEF TypeOK
<1>10. Elsewhere(p)
  BY <1>1, <1>2, <1>3, <1>6, <1>7 DEF Elsewhere, TypeOK
<1>11. Holders(p)' = Holders(p)
  BY <1>1, <1>2, <1>3, <1>4, <1>6 DEF Holders, TypeOK, NONE, PENDING, EXCLUSIVE
<1>12. Counted(p)'
  BY <1>1, <1>4, <1>8, <1>11 DEF Own, Counted, NONE, PENDING, EXCLUSIVE
<1>13. Highest(p)'
  <2>1. \A d \in Holders(p) : d # c => LevelOf'[d] = LevelOf[d]
    BY <1>1, <1>2, <1>6, <1>7 DEF Holders, LevelOf, Letting, TypeOK, NoCall
  <2>2. LevelOf'[c] = level /\ LevelOf[c] = lock[c]
    BY <1>1, <1>2, <1>3, <1>6, <1>7 DEF LevelOf, Letting, NoCall, TypeOK
  <2>3. \A d \in Holders(p) : LevelOf[d] \in Level /\ (d # c => LevelOf[d] <= SHARED)
    <3> SUFFICES ASSUME NEW d \in Holders(p) PROVE LevelOf[d] \in Level /\ (d # c => LevelOf[d] <= SHARED)
      OBVIOUS
    <3>1. LevelOf[d] \in Level
      BY <1>1, LevelTypes DEF Holders
    <3>2. LevelOf[d] > SHARED => d = c
      BY <1>1, <1>3, <1>4, <2>2 DEF Own, Highest, SHARED, RESERVED, PENDING
    <3> QED
      BY <3>1, <3>2 DEF Level, NONE, SHARED, EXCLUSIVE
  <2> QED
    BY <2>1, <2>2, <2>3, <1>4, <1>6, <1>8, <1>11 DEF Highest, Level, NONE, SHARED, PENDING, EXCLUSIVE
<1>14. Backed(p)'
  BY <1>1, <1>3, <1>6, <1>7, <1>8 DEF Own, Backed, TypeOK, NONE, SHARED, RESERVED, PENDING, EXCLUSIVE
<1>15. Calling(p)'
  BY <1>7 DEF Calling
<1>16. Polite(pending, pending', p) /\ Polite(reserved, reserved', p) /\ Orderly(p)
  BY <1>3, <1>6, <1>7, <1>8 DEF Polite, Orderly, PENDING, EXCLUSIVE
<1> QED
  BY <1>9, <1>10, <1>12, <1>13, <1>14, <1>15, <1>16 DEF Step, Own

LEMMA UnlockStep ==
  ASSUME IInv, NEW c \in Conn, NEW to \in {NONE, SHARED}, Unlock(c, to)
  PROVE  Step(ProcOf[c])
<1> DEFINE p == ProcOf[c]
           at == IF lock[c] > SHARED THEN "unreserve" ELSE "release"
<1>1. TypeOK /\ p \in Process /\ Own(p) /\ lock[c] \in Level
  BY UnixLockAssumption DEF IInv, TypeOK
<1>2. /\ call[p] = NoCall /\ lock[c] > to
      /\ call' = [call EXCEPT ![p] = [CallOf(c, at) EXCEPT !.to = to]]
      /\ range' = IF to = SHARED THEN [range EXCEPT ![p] = "read"] ELSE range
      /\ UNCHANGED <<open, lock, inode, pending, reserved, faults>>
  BY DEF Unlock, Free, Quiet
<1>3. /\ call'[p] \in Call /\ call'[p].at = at /\ call'[p].conn = c
  BY <1>1, <1>2 DEF CallOf, Call, TypeOK, NONE, SHARED
<1>4. lock[c] # NONE /\ (lock[c] <= SHARED => lock[c] = SHARED)
  BY <1>1, <1>2 DEF Level, NONE, SHARED, EXCLUSIVE
<1>5. range[p] # "none"
  BY <1>1, <1>4 DEF Own, Counted, Backed, Holders
<1>6. range'[p] # "none"
  BY <1>1, <1>2, <1>5 DEF TypeOK
<1>7. TypeOK'
  BY <1>1, <1>2, <1>3 DEF TypeOK, Held
<1>8. Elsewhere(p)
  BY <1>1, <1>2 DEF Elsewhere, TypeOK
<1>9. Counted(p)' /\ Highest(p)'
  <2>1. \A d \in Holders(p) : LevelOf'[d] = LevelOf[d]
    BY <1>1, <1>2, <1>3, <1>4 DEF Holders, LevelOf, Letting, NoCall, Level, NONE, SHARED, EXCLUSIVE
  <2> QED
    BY <2>1, <1>1, <1>2, LevelsStay DEF Own
<1>10. Backed(p)'
  BY <1>1, <1>2, <1>6 DEF Own, Backed
<1>11. Calling(p)'
  BY <1>2, <1>3, <1>4 DEF Calling
<1>12. Polite(pending, pending', p) /\ Polite(reserved, reserved', p) /\ Orderly(p)
  BY <1>2, <1>5 DEF Polite, Orderly
<1> QED
  BY <1>7, <1>8, <1>9, <1>10, <1>11, <1>12 DEF Step, Own

LEMMA UnreserveStep ==
  ASSUME IInv, NEW p \in Process, Unreserve(p)
  PROVE  Step(p)
<1> DEFINE c == call[p].conn
<1>1. TypeOK /\ Own(p)
  BY DEF IInv
<1>2. call[p] \in Call /\ c \in Conn /\ call[p] # NoCall /\ call[p].at = "unreserve"
  BY <1>1, LevelTypes DEF Unreserve, NoCall
<1>3. ProcOf[c] = p /\ lock[c] \in Level /\ lock[c] > SHARED
  BY <1>1, <1>2 DEF Own, Calling, TypeOK
<1>4. c \in Holders(p) /\ range[p] # "none"
  BY <1>1, <1>2, <1>3 DEF Own, Counted, Backed, Holders, Level, NONE, SHARED, EXCLUSIVE
<1>5. UNCHANGED <<open, range>> /\ faults' \in 0..MaxFaults
  BY <1>1, UnixLockAssumption DEF Unreserve, Quiet, Fault, TypeOK
<1>6. CASE call' = [call EXCEPT ![p] = NoCall] /\ UNCHANGED <<pending, reserved, inode, lock>>
  <2>1. call'[p] = NoCall
    BY <1>1, <1>6 DEF TypeOK
  <2>2. TypeOK' /\ Elsewhere(p)
    BY <1>1, <1>5, <1>6 DEF TypeOK, Elsewhere
  <2>3. Counted(p)' /\ Highest(p)'
    <3>1. \A d \in Holders(p) : LevelOf'[d] = LevelOf[d]
      BY <1>2, <1>6, <2>1 DEF Holders, LevelOf, Letting, NoCall
    <3> QED
      BY <3>1, <1>1, <1>6, LevelsStay DEF Own
  <2>4. Backed(p)' /\ Calling(p)'
    BY <1>1, <1>5, <1>6, <2>1 DEF Own, Backed, Calling
  <2>5. Polite(pending, pending', p) /\ Polite(reserved, reserved', p) /\ Orderly(p)
    BY <1>5, <1>6 DEF Polite, Orderly
  <2> QED
    BY <2>2, <2>3, <2>4, <2>5 DEF Step, Own
<1>7. CASE /\ pending' = [pending EXCEPT ![p] = "none"]
           /\ reserved' = [reserved EXCEPT ![p] = "none"]
           /\ inode' = [inode EXCEPT ![p] = [@ EXCEPT !.lock = SHARED]]
           /\ \/ lock' = [lock EXCEPT ![c] = SHARED] /\ call' = [call EXCEPT ![p] = NoCall]
              \/ lock' = lock /\ call' = [call EXCEPT ![p] = [@ EXCEPT !.at = "release"]]
  <2>1. /\ inode'[p].lock = SHARED /\ inode'[p].nShared = inode[p].nShared
        /\ inode'[p].nLock = inode[p].nLock /\ inode'[p] \in Inode
        /\ pending'[p] = "none" /\ reserved'[p] = "none"
    BY <1>1, <1>7 DEF TypeOK, Inode, Level, NONE, SHARED, EXCLUSIVE
  <2>2. \/ lock' = [lock EXCEPT ![c] = SHARED] /\ call'[p] = NoCall
        \/ /\ lock' = lock /\ call'[p] \in Call
           /\ call'[p].at = "release" /\ call'[p].conn = c
    BY <1>1, <1>2, <1>7 DEF TypeOK, Call
  <2>3. TypeOK'
    BY <1>1, <1>5, <1>7, <2>1, <2>2 DEF TypeOK, Held, Level, NONE, SHARED, EXCLUSIVE
  <2>4. Elsewhere(p)
    BY <1>1, <1>2, <1>3, <1>5, <1>7 DEF Elsewhere, TypeOK
  <2>5. Holders(p)' = Holders(p)
    BY <1>1, <1>2, <1>4, <2>2 DEF Holders, TypeOK, NONE, SHARED
  <2>6. Counted(p)'
    BY <1>1, <1>4, <2>1, <2>5 DEF Own, Counted, NONE, SHARED
  <2>7. Highest(p)'
    <3>1. \A d \in Holders(p) : d # c => LevelOf'[d] = LevelOf[d]
      BY <1>1, <1>2, <2>2 DEF Holders, LevelOf, Letting, TypeOK, NoCall
    <3>2. LevelOf'[c] = SHARED
      BY <1>1, <1>2, <1>3, <2>2 DEF LevelOf, Letting, TypeOK, NoCall
    <3>3. LevelOf[c] = lock[c]
      BY <1>2, <1>3 DEF LevelOf, Letting
    <3>4. \A d \in Holders(p) : LevelOf[d] \in Level /\ (d # c => LevelOf[d] <= SHARED)
      <4> SUFFICES ASSUME NEW d \in Holders(p) PROVE LevelOf[d] \in Level /\ (d # c => LevelOf[d] <= SHARED)
        OBVIOUS
      <4>1. LevelOf[d] \in Level
        BY <1>1, LevelTypes DEF Holders
      <4>2. LevelOf[d] > SHARED => d = c
        BY <1>1, <1>3, <1>4, <3>3 DEF Own, Highest
      <4> QED
        BY <4>1, <4>2 DEF Level, NONE, SHARED, EXCLUSIVE
    <3>5. \A d \in Holders(p) : LevelOf'[d] <= SHARED
      BY <3>1, <3>2, <3>4 DEF SHARED
    <3>6. \A d \in Holders(p) : LevelOf'[d] \in Level
      BY <2>3, LevelTypes, <3>1, <3>2, <3>4 DEF Level, NONE, SHARED, EXCLUSIVE
    <3> QED
      BY <3>5, <3>6, <2>1, <2>5 DEF Highest, Level, NONE, SHARED, EXCLUSIVE
  <2>8. Backed(p)'
    BY <1>4, <1>5, <2>1 DEF Backed, NONE, SHARED, RESERVED, PENDING
  <2>9. Calling(p)'
    BY <1>1, <1>3, <2>2 DEF Calling, NONE, SHARED
  <2>10. Polite(pending, pending', p) /\ Polite(reserved, reserved', p) /\ Orderly(p)
    BY <1>5, <2>1 DEF Polite, Orderly, SHARED, EXCLUSIVE
  <2> QED
    BY <2>3, <2>4, <2>6, <2>7, <2>8, <2>9, <2>10 DEF Step, Own
<1> QED
  BY <1>6, <1>7 DEF Unreserve

(* What holds behind a release, whichever way it goes. *)
LEMMA Releasing ==
  ASSUME IInv, NEW p \in Process, Release(p)
  PROVE  /\ call[p] \in Call /\ call[p].conn \in Conn /\ call[p] # NoCall
         /\ ProcOf[call[p].conn] = p /\ call[p].conn \in Holders(p)
         /\ LevelOf[call[p].conn] = SHARED
         /\ inode[p].nShared = 1 \/ inode[p].nLock = 1 => Holders(p) = {call[p].conn}
         /\ Holders(p) = {call[p].conn} => inode[p].nShared = 1 /\ inode[p].nLock = 1
         /\ Cardinality(Holders(p)) \in Nat /\ Cardinality(Holders(p)) # 0
         /\ Holders(p)' = Holders(p) \ {call[p].conn}
         /\ Cardinality(Holders(p)') = Cardinality(Holders(p)) - 1
         /\ \A d \in Conn \ {call[p].conn} : ProcOf[d] = p => LevelOf'[d] = LevelOf[d]
         /\ LevelOf'[call[p].conn] = NONE
<1> DEFINE c == call[p].conn
<1>1. TypeOK /\ Own(p) /\ call[p].at = "release"
  BY DEF IInv, Release
<1>2. call[p] \in Call /\ c \in Conn /\ call[p] # NoCall
  BY <1>1, LevelTypes DEF NoCall
<1>3. ProcOf[c] = p /\ c \in Holders(p)
  BY <1>1, <1>2 DEF Own, Calling, Holders
<1>4. LevelOf[c] = SHARED
  BY <1>1, <1>2, <1>3 DEF LevelOf, Letting
<1>5. /\ IsFiniteSet(Holders(p)) /\ Cardinality(Holders(p)) \in Nat
      /\ inode[p].nShared = Cardinality(Holders(p)) /\ inode[p].nLock = Cardinality(Holders(p))
  BY <1>1, HoldersFinite DEF Own, Counted
<1>6. Cardinality(Holders(p)) # 0
  BY <1>3, <1>5, FS_EmptySet
<1>7. Cardinality(Holders(p)) = 1 <=> Holders(p) = {c}
  BY <1>3, <1>5, FS_Singleton
<1>8. lock' = [lock EXCEPT ![c] = NONE] /\ call'[p] = NoCall
  BY <1>1 DEF Release, TypeOK
<1>9. Holders(p)' = Holders(p) \ {c}
  BY <1>1, <1>2, <1>3, <1>8 DEF Holders, TypeOK
<1>10. Cardinality(Holders(p)') = Cardinality(Holders(p)) - 1
  BY <1>3, <1>5, <1>9, FS_RemoveElement
<1>11. \A d \in Conn \ {c} : ProcOf[d] = p => LevelOf'[d] = LevelOf[d]
  BY <1>1, <1>2, <1>8 DEF LevelOf, Letting, TypeOK, NoCall
<1>12. LevelOf'[c] = NONE
  BY <1>1, <1>2, <1>3, <1>8 DEF LevelOf, Letting, TypeOK, NoCall
<1> QED
  BY <1>2, <1>3, <1>4, <1>5, <1>6, <1>7, <1>9, <1>10, <1>11, <1>12

LEMMA ReleaseStep ==
  ASSUME IInv, NEW p \in Process, Release(p)
  PROVE  Step(p)
<1> DEFINE c == call[p].conn
           last == inode[p].nShared = 1
<1>1. TypeOK /\ Own(p)
  BY DEF IInv
<1>2. /\ c \in Conn /\ ProcOf[c] = p /\ c \in Holders(p)
      /\ LevelOf[c] = SHARED /\ Cardinality(Holders(p)) \in Nat /\ Cardinality(Holders(p)) # 0
      /\ Holders(p)' = Holders(p) \ {c}
      /\ Cardinality(Holders(p)') = Cardinality(Holders(p)) - 1
  BY Releasing
<1>3. last <=> Holders(p) = {c}
  BY Releasing
<1>4. inode[p].nLock = 1 => last
  BY Releasing
<1>5. /\ lock' = [lock EXCEPT ![c] = NONE]
      /\ inode' = [inode EXCEPT ![p] =
           [lock |-> IF last THEN NONE ELSE inode[p].lock,
            nShared |-> inode[p].nShared - 1, nLock |-> inode[p].nLock - 1,
            unused |-> IF inode[p].nLock = 1 THEN 0 ELSE inode[p].unused]]
      /\ call' = [call EXCEPT ![p] = NoCall] /\ open' = open
      /\ faults' \in 0..MaxFaults
      /\ UNCHANGED bytes \/ (last /\ DropAll(p))
  BY <1>1, <1>4, UnixLockAssumption DEF Release, Quiet, Fault, TypeOK
<1>6. /\ inode[p].nShared = Cardinality(Holders(p)) /\ inode[p].nLock = Cardinality(Holders(p))
      /\ inode[p] \in Inode
  BY <1>1 DEF Own, Counted, TypeOK
<1>7. /\ inode'[p].lock = IF last THEN NONE ELSE inode[p].lock
      /\ inode'[p].nShared = inode[p].nShared - 1 /\ inode'[p].nLock = inode[p].nLock - 1
      /\ inode'[p] \in Inode
  <2>1. inode'[p] =
           [lock |-> IF last THEN NONE ELSE inode[p].lock,
            nShared |-> inode[p].nShared - 1, nLock |-> inode[p].nLock - 1,
            unused |-> IF inode[p].nLock = 1 THEN 0 ELSE inode[p].unused]
    BY <1>1, <1>5 DEF TypeOK
  <2>2. inode[p].nShared - 1 \in Nat /\ inode[p].nLock - 1 \in Nat
    BY <1>2, <1>6
  <2>3. inode[p].lock \in Level /\ NONE \in Level /\ inode[p].unused \in Nat
    BY <1>6 DEF Inode, Level, NONE, EXCLUSIVE
  <2> QED
    BY <2>1, <2>2, <2>3 DEF Inode
<1>8. call'[p] = NoCall
  BY <1>1, <1>5 DEF TypeOK
<1>9. TypeOK'
  <2>1. lock' \in [Conn -> Level]
    <3>1. NONE \in Level /\ lock \in [Conn -> Level]
      BY <1>1 DEF TypeOK, Level, NONE, EXCLUSIVE
    <3>2. lock' = [lock EXCEPT ![c] = NONE]
      BY <1>5
    <3> QED
      BY <3>1, <3>2
  <2>2. inode' \in [Process -> Inode]
    BY <1>1, <1>5, <1>7 DEF TypeOK
  <2>3. call' \in [Process -> Call \cup {NoCall}]
    BY <1>1, <1>5 DEF TypeOK
  <2>4. pending' \in [Process -> Held] /\ reserved' \in [Process -> Held] /\ range' \in [Process -> Held]
    BY <1>1, <1>5 DEF TypeOK, bytes, DropAll, Held
  <2> QED
    BY <1>1, <1>5, <2>1, <2>2, <2>3, <2>4 DEF TypeOK
<1>10. Elsewhere(p)
  BY <1>1, <1>2, <1>5 DEF Elsewhere, TypeOK, bytes, DropAll
<1>11. Holders(p)' = {} <=> last
  BY <1>2, <1>3
<1>12. Counted(p)'
  BY <1>1, <1>2, <1>6, <1>7, <1>11 DEF Own, Counted
<1>13. Highest(p)'
  <2>1. \A d \in Holders(p)' : d \in Holders(p) /\ LevelOf'[d] = LevelOf[d]
    BY <1>2, Releasing DEF Holders
  <2>2. CASE last
    BY <1>7, <1>11, <2>2 DEF Highest, NONE, SHARED, EXCLUSIVE
  <2>3. CASE ~last
    <3>1. inode'[p].lock = inode[p].lock
      BY <1>7, <2>3
    <3>2. inode[p].lock > SHARED => \E d \in Holders(p)' : LevelOf[d] = inode[p].lock
      BY <1>1, <1>2 DEF Own, Highest, SHARED
    <3> QED
      BY <1>1, <2>1, <3>1, <3>2 DEF Own, Highest
  <2> QED
    BY <2>2, <2>3
<1>14. Backed(p)'
  <2>1. CASE last
    <3>1. ~(inode[p].lock > SHARED)
      BY <1>1, <1>2, <1>3, <2>1 DEF Own, Highest, SHARED
    <3>2. reserved[p] = "none"
      BY <1>1, <1>6, <3>1 DEF Own, Backed, Inode, Level, NONE, SHARED, RESERVED, EXCLUSIVE
    <3>3. reserved'[p] = "none"
      BY <1>1, <1>5, <3>2 DEF TypeOK, bytes, DropAll
    <3> QED
      BY <1>7, <2>1, <3>3 DEF Backed, NONE, RESERVED, PENDING
  <2>2. CASE ~last
    BY <1>1, <1>5, <1>7, <2>2 DEF Own, Backed, bytes
  <2> QED
    BY <2>1, <2>2
<1>15. Calling(p)'
  BY <1>8 DEF Calling
<1>16. Polite(pending, pending', p) /\ Polite(reserved, reserved', p) /\ Orderly(p)
  BY <1>1, <1>5, <1>7 DEF Polite, Orderly, bytes, DropAll, TypeOK, NONE, EXCLUSIVE
<1> QED
  BY <1>9, <1>10, <1>12, <1>13, <1>14, <1>15, <1>16 DEF Step, Own

LEMMA OpenStep ==
  ASSUME IInv, NEW c \in Conn, Open(c)
  PROVE  Step(ProcOf[c])
<1> DEFINE p == ProcOf[c]
<1>1. TypeOK /\ p \in Process /\ Own(p)
  BY UnixLockAssumption DEF IInv
<1>2. /\ open' = open \cup {c}
      /\ \/ inode' = inode
         \/ inode[p].unused > 0 /\ inode' = [inode EXCEPT ![p] = [@ EXCEPT !.unused = inode[p].unused - 1]]
      /\ UNCHANGED <<lock, pending, reserved, range, call, faults>>
  BY DEF Open, Quiet, bytes
<1>3. /\ inode'[p].lock = inode[p].lock /\ inode'[p].nShared = inode[p].nShared
      /\ inode'[p].nLock = inode[p].nLock /\ inode'[p] \in Inode
  BY <1>1, <1>2 DEF TypeOK, Inode
<1>4. TypeOK'
  BY <1>1, <1>2, <1>3 DEF TypeOK
<1>5. Elsewhere(p)
  BY <1>1, <1>2 DEF Elsewhere, TypeOK
<1>6. Counted(p)' /\ Highest(p)'
  <2>1. \A d \in Holders(p) : LevelOf'[d] = LevelOf[d]
    BY <1>2 DEF Holders, LevelOf, Letting
  <2> QED
    BY <2>1, <1>1, <1>2, <1>3, LevelsStay DEF Own
<1>7. Backed(p)' /\ Calling(p)'
  BY <1>1, <1>2, <1>3 DEF Own, Backed, Calling
<1>8. Polite(pending, pending', p) /\ Polite(reserved, reserved', p) /\ Orderly(p)
  BY <1>2, <1>3 DEF Polite, Orderly
<1> QED
  BY <1>4, <1>5, <1>6, <1>7, <1>8 DEF Step, Own

LEMMA CloseStep ==
  ASSUME IInv, NEW c \in Conn, Close(c)
  PROVE  Step(ProcOf[c])
<1> DEFINE p == ProcOf[c]
<1>1. TypeOK /\ p \in Process /\ Own(p)
  BY UnixLockAssumption DEF IInv
<1>2. /\ call[p] = NoCall /\ open' = open \ {c}
      /\ \/ /\ inode' = [inode EXCEPT ![p] = [@ EXCEPT !.unused = inode[p].unused + 1]]
            /\ UNCHANGED <<pending, reserved, range>>
         \/ ~(inode[p].nLock > 0) /\ DropAll(p) /\ inode' = inode
      /\ UNCHANGED <<lock, call, faults>>
  BY DEF Close, Free, Quiet, bytes
<1>3. /\ inode'[p].lock = inode[p].lock /\ inode'[p].nShared = inode[p].nShared
      /\ inode'[p].nLock = inode[p].nLock /\ inode'[p] \in Inode
  BY <1>1, <1>2 DEF TypeOK, Inode
<1>4. TypeOK'
  BY <1>1, <1>2, <1>3 DEF TypeOK, DropAll, Held
<1>5. Elsewhere(p)
  BY <1>1, <1>2 DEF Elsewhere, TypeOK, DropAll
<1>6. Counted(p)' /\ Highest(p)'
  <2>1. \A d \in Holders(p) : LevelOf'[d] = LevelOf[d]
    BY <1>2 DEF Holders, LevelOf, Letting
  <2> QED
    BY <2>1, <1>1, <1>2, <1>3, LevelsStay DEF Own
<1>7. Backed(p)'
  <2>1. CASE ~(inode[p].nLock > 0) /\ DropAll(p)
    <3>1. Cardinality(Holders(p)) = 0 /\ IsFiniteSet(Holders(p))
      BY <1>1, <2>1, HoldersFinite DEF Own, Counted
    <3>2. inode[p].lock = NONE
      BY <1>1, <3>1, FS_EmptySet DEF Own, Counted
    <3>3. reserved'[p] = "none"
      BY <1>1, <2>1 DEF DropAll, TypeOK
    <3> QED
      BY <1>3, <3>2, <3>3 DEF Backed, NONE, RESERVED, PENDING
  <2>2. CASE UNCHANGED <<pending, reserved, range>>
    BY <1>1, <1>3, <2>2 DEF Own, Backed
  <2> QED
    BY <1>2, <2>1, <2>2
<1>8. Calling(p)'
  BY <1>2 DEF Calling
<1>9. Polite(pending, pending', p) /\ Polite(reserved, reserved', p) /\ Orderly(p)
  BY <1>1, <1>2, <1>3 DEF Polite, Orderly, DropAll, TypeOK
<1> QED
  BY <1>4, <1>5, <1>6, <1>7, <1>8, <1>9 DEF Step, Own

LEMMA ExitStep ==
  ASSUME IInv, NEW p \in Process, Exit(p)
  PROVE  Step(p)
<1>1. TypeOK
  BY DEF IInv
<1>2. /\ open' \subseteq Conn /\ lock' = [c \in Conn |-> IF ProcOf[c] = p THEN NONE ELSE lock[c]]
      /\ inode' = [inode EXCEPT ![p] = NoInode] /\ call' = [call EXCEPT ![p] = NoCall]
      /\ DropAll(p) /\ faults' = faults
  BY <1>1 DEF Exit, Quiet, TypeOK
<1>3. /\ inode'[p] = NoInode /\ call'[p] = NoCall
      /\ pending'[p] = "none" /\ reserved'[p] = "none" /\ range'[p] = "none"
  BY <1>1, <1>2 DEF TypeOK, DropAll
<1>4. NoInode \in Inode /\ NoInode.lock = NONE /\ NoInode.nShared = 0 /\ NoInode.nLock = 0
  BY DEF NoInode, Inode, Level, NONE, EXCLUSIVE
<1>5. TypeOK'
  BY <1>1, <1>2, <1>4 DEF TypeOK, DropAll, Held, Level, NONE, EXCLUSIVE
<1>6. Elsewhere(p)
  BY <1>1, <1>2 DEF Elsewhere, TypeOK, DropAll
<1>7. Holders(p)' = {}
  BY <1>2 DEF Holders
<1>8. Counted(p)'
  BY <1>3, <1>4, <1>7, FS_EmptySet DEF Counted
<1>9. Highest(p)' /\ Backed(p)'
  BY <1>3, <1>4, <1>7 DEF Highest, Backed, NONE, SHARED, RESERVED, PENDING, EXCLUSIVE
<1>10. Calling(p)'
  BY <1>3 DEF Calling
<1>11. Polite(pending, pending', p) /\ Polite(reserved, reserved', p) /\ Orderly(p)
  BY <1>3, <1>4 DEF Polite, Orderly, NONE, EXCLUSIVE
<1> QED
  BY <1>5, <1>6, <1>8, <1>9, <1>10, <1>11 DEF Step, Own

-----------------------------------------------------------------------------
(* The invariant. *)

LEMMA InitIInv == ASSUME Init PROVE IInv
<1>1. TypeOK
  BY UnixLockAssumption DEF Init, TypeOK, Level, Held, Inode, NoInode, NONE, EXCLUSIVE
<1>2. \A p \in Process : Own(p)
  <2> SUFFICES ASSUME NEW p \in Process PROVE Own(p)
    OBVIOUS
  <2>1. Holders(p) = {}
    BY DEF Init, Holders
  <2>2. Counted(p)
    BY <2>1, FS_EmptySet DEF Init, Counted, NoInode
  <2>3. Highest(p) /\ Backed(p) /\ Calling(p)
    BY <2>1 DEF Init, Highest, Backed, Calling, NoInode, NONE, SHARED, RESERVED, PENDING, EXCLUSIVE
  <2> QED
    BY <2>2, <2>3 DEF Own
<1>3. Apart(pending) /\ Apart(reserved) /\ Alone
  BY DEF Init, Apart, Alone
<1> QED
  BY <1>1, <1>2, <1>3 DEF IInv

LEMMA NextIInv == ASSUME IInv, [Next]_vars PROVE IInv'
<1>1. CASE \E c \in Conn : Step(ProcOf[c])
  <2> PICK c \in Conn : Step(ProcOf[c])
    BY <1>1
  <2> QED
    BY StepKeeps, UnixLockAssumption
<1>2. CASE \E p \in Process : Step(p)
  BY <1>2, StepKeeps
<1>3. CASE UNCHANGED vars
  <2>1. TypeOK' /\ Apart(pending)' /\ Apart(reserved)' /\ Alone'
    BY <1>3 DEF IInv, vars, bytes, TypeOK, Apart, Alone
  <2>2. \A p \in Process : Holders(p)' = Holders(p) /\ LevelOf' = LevelOf
    BY <1>3 DEF vars, bytes, Holders, LevelOf, Letting
  <2>3. \A p \in Process : Own(p)'
    BY <1>3, <2>2 DEF IInv, vars, bytes, Own, Counted, Highest, Backed, Calling
  <2> QED
    BY <2>1, <2>3 DEF IInv
<1>4. CASE \E c \in Conn :
             \/ Join(c) \/ ReadPending(c) \/ Reserve(c) \/ WritePending(c) \/ TryAgain(c)
             \/ Unlock(c, NONE) \/ Unlock(c, SHARED) \/ Open(c) \/ Close(c)
  BY <1>1, <1>4, JoinStep, ReadPendingStep, ReserveStep, WritePendingStep, UnlockStep, OpenStep, CloseStep
<1>5. CASE \E p \in Process :
             \/ ReadRange(p) \/ DropPending(p) \/ WriteRange(p) \/ Unreserve(p) \/ Release(p)
             \/ Exit(p)
  BY <1>2, <1>5, ReadRangeStep, DropPendingStep, WriteRangeStep, UnreserveStep, ReleaseStep, ExitStep
<1> QED
  BY <1>3, <1>4, <1>5 DEF Next

THEOREM Invariance == Spec => []IInv
BY InitIInv, NextIInv, PTL DEF Spec

-----------------------------------------------------------------------------
(* What the invariant says of the levels. *)

LEMMA LevelFacts ==
  ASSUME IInv
  PROVE  /\ \A d \in Conn : ProcOf[d] \in Process /\ LevelOf[d] \in Level /\ (LevelOf[d] = NONE <=> lock[d] = NONE)
         /\ \A d \in Conn : LevelOf[d] <= inode[ProcOf[d]].lock
         /\ \A d \in Conn : LevelOf[d] > SHARED => LevelOf[d] = inode[ProcOf[d]].lock
         /\ \A c, d \in Conn : ProcOf[c] = ProcOf[d] /\ LevelOf[c] > SHARED /\ LevelOf[d] > SHARED => c = d
         /\ \A p \in Process : inode[p].lock \in Level
<1>1. TypeOK /\ (\A p \in Process : Own(p)) /\ (\A d \in Conn : ProcOf[d] \in Process)
  BY UnixLockAssumption DEF IInv
<1>2. \A d \in Conn : LevelOf[d] \in Level /\ lock[d] \in Level
  BY <1>1, LevelTypes
<1>3. ASSUME NEW d \in Conn PROVE LevelOf[d] = NONE <=> lock[d] = NONE
  <2>1. Letting(d) => lock[d] # NONE
    BY <1>1, UnixLockAssumption DEF Letting, Own, Calling, NoCall
  <2> QED
    BY <2>1 DEF LevelOf, NONE, SHARED
<1>4. \A p \in Process : inode[p].lock \in Level
  BY <1>1, LevelTypes
<1>5. ASSUME NEW d \in Conn
      PROVE  /\ LevelOf[d] <= inode[ProcOf[d]].lock
             /\ LevelOf[d] > SHARED => LevelOf[d] = inode[ProcOf[d]].lock /\ d \in Holders(ProcOf[d])
  <2>1. CASE d \in Holders(ProcOf[d])
    BY <1>1, <2>1 DEF Own, Highest
  <2>2. CASE d \notin Holders(ProcOf[d])
    <3>1. LevelOf[d] = NONE
      BY <1>3, <2>2 DEF Holders
    <3> QED
      BY <3>1, <1>1, <1>4 DEF Level, NONE, SHARED, EXCLUSIVE
  <2> QED
    BY <2>1, <2>2
<1>6. \A c, d \in Conn : ProcOf[c] = ProcOf[d] /\ LevelOf[c] > SHARED /\ LevelOf[d] > SHARED => c = d
  BY <1>1, <1>5 DEF Own, Highest
<1> QED
  BY <1>1, <1>2, <1>3, <1>4, <1>5, <1>6

(* What a lock of one process in the system says of the others. *)
LEMMA Across ==
  ASSUME IInv, NEW p \in Process, NEW q \in Process, p # q
  PROVE  /\ pending[p] # "none" => inode[q].lock < PENDING
         /\ range[p] # "none" => inode[q].lock # EXCLUSIVE
         /\ range[q] = "none" => inode[q].lock = NONE
<1>1. inode[q].lock \in Level
  BY LevelFacts
<1>2. pending[p] # "none" => pending[q] # "write"
  BY DEF IInv, Apart
<1>3. pending[q] # "write" => inode[q].lock < PENDING
  BY <1>1 DEF IInv, Own, Backed, Level, NONE, PENDING, EXCLUSIVE
<1>4. range[p] # "none" => inode[q].lock # EXCLUSIVE
  BY DEF IInv, Alone
<1>5. range[q] = "none" => inode[q].lock = NONE
  BY DEF IInv, Own, Backed
<1> QED
  BY <1>2, <1>3, <1>4, <1>5

-----------------------------------------------------------------------------
(* The invariants that the runs check. *)

(* Every variable of the lock calls stays in its type, in every state that *)
(* any number of processes, connections and failures reach.                *)
THEOREM LockTypes == Spec => []TypeOK
<1>1. IInv => TypeOK
  BY DEF IInv
<1> QED
  BY <1>1, Invariance, PTL

LEMMA LockedInSystemHolds == ASSUME IInv PROVE LockedInSystem
<1> SUFFICES ASSUME NEW c \in Conn, lock[c] # NONE PROVE range[ProcOf[c]] # "none"
  BY DEF LockedInSystem
<1>1. ProcOf[c] \in Process /\ Own(ProcOf[c])
  BY UnixLockAssumption DEF IInv
<1>2. c \in Holders(ProcOf[c])
  BY DEF Holders
<1> QED
  BY <1>1, <1>2 DEF Own, Counted, Backed

(* posixUnlock and unixClose never leave a connection with a lock that its *)
(* process has not got: a close under other readers is put off.            *)
THEOREM LocksInSystem == Spec => []LockedInSystem
<1>1. IInv => LockedInSystem
  BY LockedInSystemHolds
<1> QED
  BY <1>1, Invariance, PTL

LEMMA OneWriter ==
  ASSUME IInv
  PROVE  /\ \A c, d \in Writers : c = d
         /\ \A c \in Conn : LevelOf[c] = RESERVED => c \in Writers
<1>1. ASSUME NEW c \in Writers, NEW d \in Writers PROVE c = d
  <2>1. /\ c \in Conn /\ d \in Conn /\ LevelOf[c] > SHARED /\ LevelOf[d] > SHARED
        /\ reserved[ProcOf[c]] = "write" /\ reserved[ProcOf[d]] = "write"
    BY DEF Writers
  <2>2. ProcOf[c] = ProcOf[d]
    BY <2>1, UnixLockAssumption DEF IInv, Apart
  <2> QED
    BY <2>1, <2>2, LevelFacts
<1>2. ASSUME NEW c \in Conn, LevelOf[c] = RESERVED PROVE c \in Writers
  <2>1. inode[ProcOf[c]].lock = RESERVED /\ ProcOf[c] \in Process
    BY <1>2, LevelFacts DEF SHARED, RESERVED
  <2> QED
    BY <1>2, <2>1 DEF IInv, Own, Backed, Writers, SHARED, RESERVED
<1> QED
  BY <1>1, <1>2

LEMMA ReservedIsSeenHolds == ASSUME IInv PROVE ReservedIsSeen
<1> SUFFICES ASSUME NEW c \in Conn, NEW w \in Writers PROVE CheckReserved(c)
  BY DEF ReservedIsSeen
<1>1. /\ w \in Conn /\ LevelOf[w] > SHARED /\ reserved[ProcOf[w]] = "write"
      /\ LevelOf[w] = inode[ProcOf[w]].lock /\ ProcOf[w] \in Process
  BY LevelFacts DEF Writers
<1> QED
  BY <1>1 DEF CheckReserved

(* unixCheckReservedLock tells of a reservation of whichever process, its  *)
(* own included.                                                           *)
THEOREM ReservationsSeen == Spec => []ReservedIsSeen
<1>1. IInv => ReservedIsSeen
  BY ReservedIsSeenHolds
<1> QED
  BY <1>1, Invariance, PTL

LEMMA TableExclusionHolds == ASSUME IInv PROVE TableExclusion
<1>1. ASSUME NEW c \in Conn, NEW d \in Conn, c # d, LevelOf[c] = EXCLUSIVE
      PROVE  LevelOf[d] = NONE
  <2> DEFINE p == ProcOf[c]
             q == ProcOf[d]
  <2>1. /\ p \in Process /\ q \in Process /\ inode[p].lock = EXCLUSIVE
        /\ LevelOf[d] = NONE <=> lock[d] = NONE
    BY <1>1, LevelFacts DEF SHARED, EXCLUSIVE
  <2>2. CASE p = q
    <3>1. lock[c] # NONE
      BY <1>1, LevelFacts DEF NONE, EXCLUSIVE
    <3>2. lock[d] # NONE => c \in Holders(p) /\ d \in Holders(p)
      BY <3>1, <2>2 DEF Holders
    <3> QED
      BY <3>2, <2>1, <1>1 DEF IInv, Own, Highest
  <2>3. CASE p # q
    <3>1. inode[q].lock = NONE
      BY <2>1, <2>3, Across DEF IInv, Alone
    <3>2. Holders(q) = {}
      BY <3>1, <2>1 DEF IInv, Own, Counted
    <3> QED
      BY <3>2, <2>1 DEF Holders
  <2> QED
    BY <2>2, <2>3
<1>2. ASSUME NEW c \in Conn, NEW d \in Conn, c # d, LevelOf[c] >= PENDING
      PROVE  LevelOf[d] < PENDING
  <2> DEFINE p == ProcOf[c]
             q == ProcOf[d]
  <2>1. /\ p \in Process /\ q \in Process /\ LevelOf[c] \in Level /\ LevelOf[d] \in Level
        /\ inode[p].lock = LevelOf[c] /\ (LevelOf[d] > SHARED => LevelOf[d] = inode[q].lock)
        /\ p = q => ~(LevelOf[d] > SHARED)
    BY <1>2, LevelFacts DEF Level, NONE, SHARED, PENDING, EXCLUSIVE
  <2>2. CASE p = q
    BY <2>1, <2>2 DEF Level, NONE, SHARED, PENDING, EXCLUSIVE
  <2>3. CASE p # q
    <3>1. pending[p] = "write"
      BY <1>2, <2>1 DEF IInv, Own, Backed
    <3>2. inode[q].lock < PENDING
      BY <3>1, <2>1, <2>3, Across
    <3> QED
      BY <3>2, <2>1 DEF Level, NONE, SHARED, PENDING, EXCLUSIVE
  <2> QED
    BY <2>2, <2>3
<1>3. \A c \in Writers : LevelOf[c] >= RESERVED
  BY LevelFacts DEF Writers, Level, NONE, SHARED, RESERVED, EXCLUSIVE
<1> QED
  BY <1>1, <1>2, <1>3, OneWriter
  DEF TableExclusion, T!Exclusion, T!NONE, T!RESERVED, T!PENDING, T!EXCLUSIVE, NONE, RESERVED, PENDING, EXCLUSIVE

(* Nobody reads while one connection has EXCLUSIVE, one at a time is on    *)
(* its way there, and one at a time has reserved the file.                 *)
THEOREM LocksExclude == Spec => []TableExclusion
<1>1. IInv => TableExclusion
  BY TableExclusionHolds
<1> QED
  BY <1>1, Invariance, PTL

-----------------------------------------------------------------------------
(* The refinement: what each step does to the levels and the writers.       *)

LEMMA ElsewhereLevels ==
  ASSUME NEW p \in Process, Elsewhere(p)
  PROVE  \A d \in Conn : ProcOf[d] # p =>
           /\ LevelOf'[d] = LevelOf[d]
           /\ d \in Writers' <=> d \in Writers
<1> SUFFICES ASSUME NEW d \in Conn, ProcOf[d] # p
             PROVE  LevelOf'[d] = LevelOf[d] /\ (d \in Writers' <=> d \in Writers)
  OBVIOUS
<1>1. ProcOf[d] \in Process \ {p}
  BY UnixLockAssumption
<1>2. /\ call'[ProcOf[d]] = call[ProcOf[d]] /\ lock'[d] = lock[d]
      /\ reserved'[ProcOf[d]] = reserved[ProcOf[d]]
  BY <1>1 DEF Elsewhere
<1>3. LevelOf'[d] = LevelOf[d]
  BY <1>2 DEF LevelOf, Letting
<1> QED
  BY <1>2, <1>3 DEF Writers

(* One level changes. *)
LEMMA OneLevel ==
  ASSUME NEW c \in Conn, Elsewhere(ProcOf[c]),
         \A d \in Conn \ {c} : ProcOf[d] = ProcOf[c] => LevelOf'[d] = LevelOf[d]
  PROVE  LevelOf' = [LevelOf EXCEPT ![c] = LevelOf'[c]]
<1>1. \A d \in Conn \ {c} : LevelOf'[d] = LevelOf[d]
  BY ElsewhereLevels, UnixLockAssumption
<1> QED
  BY <1>1 DEF LevelOf

(* The writers stay, but for one. *)
LEMMA WritersBut ==
  ASSUME NEW c \in Conn, Elsewhere(ProcOf[c]),
         \A d \in Conn \ {c} : ProcOf[d] = ProcOf[c] => (d \in Writers' <=> d \in Writers)
  PROVE  /\ c \in Writers' => Writers' = Writers \cup {c}
         /\ c \notin Writers' => Writers' = Writers \ {c}
<1>1. \A d \in Conn \ {c} : d \in Writers' <=> d \in Writers
  BY ElsewhereLevels, UnixLockAssumption
<1>2. Writers \subseteq Conn /\ Writers' \subseteq Conn
  BY DEF Writers
<1> QED
  BY <1>1, <1>2

(* A step that changes no level, and reserves nothing nor gives up what a  *)
(* writer has, is not seen.                                                *)
LEMMA Unseen ==
  ASSUME NEW p \in Process, Elsewhere(p),
         \A d \in Conn : ProcOf[d] = p =>
           LevelOf'[d] = LevelOf[d] /\ (reserved'[p] = reserved[p] \/ ~(LevelOf[d] > SHARED))
  PROVE  UNCHANGED T!vars
<1>1. \A d \in Conn : LevelOf'[d] = LevelOf[d] /\ (d \in Writers' <=> d \in Writers)
  BY ElsewhereLevels DEF Writers
<1>2. LevelOf' = LevelOf
  BY <1>1 DEF LevelOf
<1>3. Writers' = Writers
  BY <1>1 DEF Writers
<1> QED
  BY <1>2, <1>3 DEF T!vars

LEMMA JoinSeen ==
  ASSUME IInv, NEW c \in Conn, Join(c)
  PROVE  T!TakeShared(c)
<1> DEFINE p == ProcOf[c]
<1>1. TypeOK /\ p \in Process /\ Own(p) /\ Elsewhere(p)
  BY UnixLockAssumption, JoinStep DEF IInv, Step
<1>2. /\ call[p] = NoCall /\ call' = call /\ lock[c] = NONE /\ inode[p].lock \in {SHARED, RESERVED}
      /\ lock' = [lock EXCEPT ![c] = SHARED] /\ reserved' = reserved
  BY DEF Join, Free, bytes
<1>3. \A d \in Conn : ProcOf[d] = p => LevelOf'[d] = lock'[d] /\ LevelOf[d] = lock[d]
  BY <1>2 DEF LevelOf, Letting, NoCall
<1>4. LevelOf[c] = NONE /\ LevelOf'[c] = SHARED
  BY <1>1, <1>2, <1>3 DEF TypeOK
<1>5. \A d \in Conn \ {c} : ProcOf[d] = p => LevelOf'[d] = LevelOf[d]
  BY <1>1, <1>2, <1>3 DEF TypeOK
<1>6. LevelOf' = [LevelOf EXCEPT ![c] = SHARED]
  BY <1>1, <1>4, <1>5, OneLevel
<1>7. Writers' = Writers
  <2>1. \A d \in Conn \ {c} : ProcOf[d] = p => (d \in Writers' <=> d \in Writers)
    BY <1>2, <1>5 DEF Writers
  <2>2. c \notin Writers /\ c \notin Writers'
    BY <1>4 DEF Writers, NONE, SHARED
  <2> QED
    BY <1>1, <2>1, <2>2, WritersBut
<1>8. \A d \in Conn : ProcOf[d] = p => LevelOf[d] < PENDING
  BY <1>2, LevelFacts DEF Level, NONE, SHARED, RESERVED, PENDING, EXCLUSIVE
<1>9. \A d \in Conn : LevelOf[d] # EXCLUSIVE
  <2> SUFFICES ASSUME NEW d \in Conn, LevelOf[d] = EXCLUSIVE PROVE FALSE
    OBVIOUS
  <2>1. ProcOf[d] \in Process /\ inode[ProcOf[d]].lock = EXCLUSIVE
    BY LevelFacts DEF SHARED, EXCLUSIVE
  <2>2. range[p] # "none"
    BY <1>1, <1>2 DEF Own, Backed, NONE, SHARED, RESERVED
  <2> QED
    BY <1>1, <1>2, <2>1, <2>2, Across DEF SHARED, RESERVED, EXCLUSIVE
<1>10. \E d \in Conn : d # c /\ ProcOf[d] = p /\ LevelOf[d] # NONE
  <2>1. Holders(p) # {}
    BY <1>1, <1>2 DEF Own, Counted, NONE, SHARED, RESERVED
  <2> QED
    BY <2>1, <1>2, LevelFacts DEF Holders
<1> QED
  BY <1>4, <1>6, <1>7, <1>8, <1>9, <1>10
  DEF T!TakeShared, T!Neighbours, T!NONE, T!SHARED, T!PENDING, T!EXCLUSIVE, NONE, SHARED, PENDING, EXCLUSIVE

LEMMA DropPendingSeen ==
  ASSUME IInv, NEW p \in Process, DropPending(p)
  PROVE  T!TakeShared(call[p].conn) \/ UNCHANGED T!vars
<1> DEFINE c == call[p].conn
<1>1. TypeOK /\ Own(p) /\ Elsewhere(p)
  BY DropPendingStep DEF IInv, Step
<1>2. call[p] \in Call /\ c \in Conn /\ call[p] # NoCall /\ call[p].at = "drop"
  BY <1>1, LevelTypes DEF DropPending, NoCall
<1>3. ProcOf[c] = p /\ inode[p].lock = NONE /\ Holders(p) = {} /\ (call[p].got => range[p] # "none") /\ pending[p] # "none"
  BY <1>1, <1>2 DEF Own, Calling, Counted
<1>4. call'[p] = NoCall /\ reserved' = reserved
  BY <1>1 DEF DropPending, TypeOK
<1>5. \A d \in Conn : ProcOf[d] = p => LevelOf'[d] = lock'[d] /\ LevelOf[d] = NONE /\ lock[d] = NONE
  BY <1>3, <1>4, LevelFacts DEF LevelOf, Letting, NoCall, Holders
<1>6. CASE lock' = lock
  <2>1. \A d \in Conn : ProcOf[d] = p => LevelOf'[d] = LevelOf[d]
    BY <1>5, <1>6
  <2> QED
    BY <1>1, <1>4, <2>1, Unseen
<1>7. CASE call[p].got /\ lock' = [lock EXCEPT ![c] = SHARED]
  <2>1. LevelOf[c] = NONE /\ LevelOf'[c] = SHARED
    BY <1>1, <1>2, <1>3, <1>5, <1>7 DEF TypeOK
  <2>2. \A d \in Conn \ {c} : ProcOf[d] = p => LevelOf'[d] = LevelOf[d]
    BY <1>1, <1>2, <1>5, <1>7 DEF TypeOK
  <2>3. LevelOf' = [LevelOf EXCEPT ![c] = SHARED]
    BY <1>1, <1>2, <1>3, <2>1, <2>2, OneLevel
  <2>4. Writers' = Writers
    <3>1. \A d \in Conn \ {c} : ProcOf[d] = p => (d \in Writers' <=> d \in Writers)
      BY <1>4, <2>2 DEF Writers
    <3>2. c \notin Writers /\ c \notin Writers'
      BY <2>1 DEF Writers, NONE, SHARED
    <3> QED
      BY <1>1, <1>2, <1>3, <3>1, <3>2, WritersBut
  <2>5. \A d \in Conn : LevelOf[d] < PENDING
    <3> SUFFICES ASSUME NEW d \in Conn PROVE LevelOf[d] < PENDING
      OBVIOUS
    <3> DEFINE q == ProcOf[d]
    <3>1. q \in Process /\ inode[q].lock \in Level /\ LevelOf[d] \in Level /\ LevelOf[d] <= inode[q].lock
      BY LevelFacts
    <3>2. CASE q = p
      BY <1>5, <3>2 DEF NONE, PENDING
    <3>3. CASE q # p
      <4>1. inode[q].lock < PENDING
        BY <1>3, <3>1, <3>3, Across
      <4> QED
        BY <4>1, <3>1 DEF Level, NONE, PENDING, EXCLUSIVE
    <3> QED
      BY <3>2, <3>3
  <2>6. \A d \in Conn : LevelOf[d] # EXCLUSIVE
    BY <2>5 DEF PENDING, EXCLUSIVE
  <2> QED
    BY <2>1, <2>3, <2>4, <2>5, <2>6
    DEF T!TakeShared, T!Neighbours, T!NONE, T!SHARED, T!PENDING, T!EXCLUSIVE, NONE, SHARED, PENDING, EXCLUSIVE
<1> QED
  BY <1>6, <1>7 DEF DropPending

LEMMA ReserveSeen ==
  ASSUME IInv, NEW c \in Conn, Reserve(c)
  PROVE  T!TakeReserved(c)
<1> DEFINE p == ProcOf[c]
<1>1. TypeOK /\ p \in Process /\ Own(p) /\ Elsewhere(p)
  BY UnixLockAssumption, ReserveStep DEF IInv, Step
<1>2. /\ call[p] = NoCall /\ call' = call /\ lock[c] = SHARED /\ inode[p].lock = SHARED
      /\ lock' = [lock EXCEPT ![c] = RESERVED] /\ CanWrite(reserved, p)
      /\ reserved' = [reserved EXCEPT ![p] = "write"]
  BY DEF Reserve, Free
<1>3. \A d \in Conn : ProcOf[d] = p => LevelOf'[d] = lock'[d] /\ LevelOf[d] = lock[d]
  BY <1>2 DEF LevelOf, Letting, NoCall
<1>4. LevelOf[c] = SHARED /\ LevelOf'[c] = RESERVED
  BY <1>1, <1>2, <1>3 DEF TypeOK
<1>5. \A d \in Conn \ {c} : ProcOf[d] = p => LevelOf'[d] = LevelOf[d]
  BY <1>1, <1>2, <1>3 DEF TypeOK
<1>6. LevelOf' = [LevelOf EXCEPT ![c] = RESERVED]
  BY <1>1, <1>4, <1>5, OneLevel
<1>7. \A d \in Conn : ProcOf[d] = p => ~(LevelOf[d] > SHARED)
  BY <1>2, LevelFacts DEF SHARED
<1>8. Writers = {}
  <2> SUFFICES ASSUME NEW w \in Writers PROVE FALSE
    OBVIOUS
  <2>1. w \in Conn /\ LevelOf[w] > SHARED /\ reserved[ProcOf[w]] = "write" /\ ProcOf[w] \in Process
    BY LevelFacts DEF Writers
  <2> QED
    BY <2>1, <1>2, <1>7 DEF CanWrite
<1>9. Writers' = {c}
  <2>1. \A d \in Conn \ {c} : ProcOf[d] = p => (d \in Writers' <=> d \in Writers)
    BY <1>5, <1>7 DEF Writers
  <2>2. c \in Writers'
    BY <1>1, <1>2, <1>4 DEF Writers, TypeOK, SHARED, RESERVED
  <2>3. Writers' = Writers \cup {c}
    BY <1>1, <2>1, <2>2, WritersBut
  <2> QED
    BY <2>3, <1>8
<1> QED
  BY <1>4, <1>6, <1>8, <1>9 DEF T!TakeReserved, T!SHARED, T!RESERVED, SHARED, RESERVED

LEMMA WriteRangeSeen ==
  ASSUME IInv, NEW p \in Process, WriteRange(p)
  PROVE  \/ T!TakePending(call[p].conn) \/ T!TakeExclusive(call[p].conn)
         \/ UNCHANGED T!vars
<1> DEFINE c == call[p].conn
<1>1. TypeOK /\ Own(p) /\ Elsewhere(p)
  BY WriteRangeStep DEF IInv, Step
<1>2. call[p] \in Call /\ c \in Conn /\ call[p] # NoCall /\ call[p].at = "exclusive"
  BY <1>1, LevelTypes DEF WriteRange, NoCall
<1>3. /\ ProcOf[c] = p /\ lock[c] \in {SHARED, RESERVED, PENDING} /\ inode[p].lock = lock[c]
      /\ pending[p] = "write"
  BY <1>1, <1>2 DEF Own, Calling
<1>4. /\ call'[p] = NoCall /\ reserved' = reserved
  BY <1>1 DEF WriteRange, TypeOK
<1>5. PICK level \in {PENDING, EXCLUSIVE} :
        /\ lock' = [lock EXCEPT ![c] = level]
        /\ level = EXCLUSIVE => inode[p].nShared <= 1 /\ CanWrite(range, p)
  BY DEF WriteRange, PENDING, EXCLUSIVE
<1>6. LevelOf[c] = lock[c] /\ LevelOf'[c] = level
  BY <1>1, <1>2, <1>3, <1>4, <1>5 DEF LevelOf, Letting, NoCall, TypeOK
<1>7. \A d \in Conn \ {c} : ProcOf[d] = p => LevelOf'[d] = LevelOf[d]
  BY <1>1, <1>2, <1>4, <1>5 DEF LevelOf, Letting, NoCall, TypeOK
<1>8. LevelOf' = [LevelOf EXCEPT ![c] = level]
  BY <1>1, <1>2, <1>3, <1>6, <1>7, OneLevel
<1>9. Writers' = Writers
  <2>1. \A d \in Conn \ {c} : ProcOf[d] = p => (d \in Writers' <=> d \in Writers)
    BY <1>4, <1>7 DEF Writers
  <2>2. c \in Writers' <=> c \in Writers
    <3>1. lock[c] = SHARED => reserved[p] = "none"
      BY <1>1, <1>3 DEF Own, Backed, SHARED, RESERVED
    <3>2. lock[c] # SHARED => LevelOf[c] > SHARED
      BY <1>3, <1>6 DEF SHARED, RESERVED, PENDING
    <3>3. LevelOf'[c] > SHARED
      BY <1>6 DEF SHARED, PENDING, EXCLUSIVE
    <3> QED
      BY <1>2, <1>3, <1>4, <1>6, <3>1, <3>2, <3>3 DEF Writers, SHARED
  <2>3. Writers' \subseteq Conn /\ Writers \subseteq Conn
    BY DEF Writers
  <2> QED
    BY <1>1, <1>2, <1>3, <2>1, <2>2, WritersBut
<1>10. \A d \in Conn : ProcOf[d] # p => ProcOf[d] \in Process /\ inode[ProcOf[d]].lock < PENDING
  BY <1>3, LevelFacts, Across
<1>11. CASE level = EXCLUSIVE
  <2>1. Holders(p) = {c}
    <3>1. /\ IsFiniteSet(Holders(p)) /\ Cardinality(Holders(p)) \in Nat
          /\ Cardinality(Holders(p)) <= 1
      BY <1>1, <1>5, <1>11, HoldersFinite DEF Own, Counted
    <3>2. c \in Holders(p)
      BY <1>2, <1>3 DEF Holders, NONE, SHARED, RESERVED, PENDING
    <3>3. Cardinality(Holders(p)) # 0
      BY <3>1, <3>2, FS_EmptySet
    <3> QED
      BY <3>1, <3>2, <3>3, FS_Singleton
  <2>2. ASSUME NEW d \in Conn \ {c} PROVE LevelOf[d] = NONE
    <3>1. d \in Conn /\ ProcOf[d] \in Process /\ (LevelOf[d] = NONE <=> lock[d] = NONE)
      BY LevelFacts
    <3>2. CASE ProcOf[d] = p
      BY <2>1, <3>1, <3>2 DEF Holders
    <3>3. CASE ProcOf[d] # p
      <4>1. range[ProcOf[d]] = "none"
        BY <1>5, <1>11, <3>1, <3>3 DEF CanWrite
      <4>2. inode[ProcOf[d]].lock = NONE
        BY <4>1, <3>1, <3>3, Across
      <4>3. Holders(ProcOf[d]) = {}
        BY <4>2, <3>1 DEF IInv, Own, Counted
      <4> QED
        BY <4>3, <3>1 DEF Holders
    <3> QED
      BY <3>2, <3>3
  <2>3. T!TakeExclusive(c)
    BY <1>3, <1>6, <1>8, <1>9, <1>11, <2>2
    DEF T!TakeExclusive, T!NONE, T!SHARED, T!RESERVED, T!PENDING, T!EXCLUSIVE, NONE, SHARED, RESERVED, PENDING, EXCLUSIVE
  <2> QED
    BY <2>3
<1>12. CASE level = PENDING /\ lock[c] \in {SHARED, RESERVED}
  <2>1. ASSUME NEW d \in Conn PROVE LevelOf[d] < PENDING
    <3>1. LevelOf[d] \in Level /\ inode[ProcOf[d]].lock \in Level /\ LevelOf[d] <= inode[ProcOf[d]].lock
      BY LevelFacts
    <3>2. inode[ProcOf[d]].lock < PENDING
      BY <1>3, <1>10, <1>12 DEF SHARED, RESERVED, PENDING
    <3> QED
      BY <3>1, <3>2 DEF Level, NONE, PENDING, EXCLUSIVE
  <2>2. T!TakePending(c)
    BY <1>6, <1>8, <1>9, <1>12, <2>1
    DEF T!TakePending, T!SHARED, T!RESERVED, T!PENDING, SHARED, RESERVED, PENDING
  <2> QED
    BY <2>2
<1>13. CASE level = PENDING /\ lock[c] = PENDING
  <2>1. LevelOf' = LevelOf
    BY <1>6, <1>8, <1>13 DEF LevelOf
  <2> QED
    BY <2>1, <1>9 DEF T!vars
<1> QED
  BY <1>3, <1>11, <1>12, <1>13

LEMMA UnreserveSeen ==
  ASSUME IInv, NEW p \in Process, Unreserve(p)
  PROVE  T!Downgrade(call[p].conn) \/ UNCHANGED T!vars
<1> DEFINE c == call[p].conn
<1>1. TypeOK /\ Own(p) /\ Elsewhere(p)
  BY UnreserveStep DEF IInv, Step
<1>2. call[p] \in Call /\ c \in Conn /\ call[p] # NoCall /\ call[p].at = "unreserve"
  BY <1>1, LevelTypes DEF Unreserve, NoCall
<1>3. ProcOf[c] = p /\ lock[c] \in Level /\ lock[c] > SHARED /\ LevelOf[c] = lock[c]
  BY <1>1, <1>2 DEF Own, Calling, TypeOK, LevelOf, Letting
<1>4. CASE call' = [call EXCEPT ![p] = NoCall] /\ UNCHANGED <<reserved, lock>>
  <2>1. \A d \in Conn : ProcOf[d] = p => LevelOf'[d] = LevelOf[d]
    BY <1>1, <1>2, <1>4 DEF LevelOf, Letting, NoCall, TypeOK
  <2> QED
    BY <1>1, <1>4, <2>1, Unseen
<1>5. CASE /\ reserved' = [reserved EXCEPT ![p] = "none"]
           /\ \/ lock' = [lock EXCEPT ![c] = SHARED] /\ call' = [call EXCEPT ![p] = NoCall]
              \/ lock' = lock /\ call' = [call EXCEPT ![p] = [@ EXCEPT !.at = "release"]]
  <2>1. \/ lock' = [lock EXCEPT ![c] = SHARED] /\ call'[p] = NoCall
        \/ /\ lock' = lock /\ call'[p].at = "release" /\ call'[p].conn = c
    BY <1>1, <1>2, <1>5 DEF TypeOK, Call
  <2>2. LevelOf'[c] = SHARED
    BY <1>1, <1>2, <1>3, <2>1 DEF LevelOf, Letting, NoCall, TypeOK
  <2>3. \A d \in Conn \ {c} : ProcOf[d] = p => LevelOf'[d] = LevelOf[d]
    BY <1>1, <1>2, <2>1 DEF LevelOf, Letting, NoCall, TypeOK
  <2>4. LevelOf' = [LevelOf EXCEPT ![c] = SHARED]
    BY <1>1, <1>2, <1>3, <2>2, <2>3, OneLevel
  <2>5. Writers' = Writers \ {c}
    <3>1. \A d \in Conn \ {c} : ProcOf[d] = p => ~(LevelOf[d] > SHARED)
      BY <1>2, <1>3, LevelFacts
    <3>2. \A d \in Conn \ {c} : ProcOf[d] = p => (d \in Writers' <=> d \in Writers)
      BY <2>3, <3>1 DEF Writers
    <3>3. c \notin Writers'
      BY <2>2 DEF Writers, SHARED
    <3> QED
      BY <1>1, <1>2, <1>3, <3>2, <3>3, WritersBut
  <2> QED
    BY <1>3, <2>4, <2>5 DEF T!Downgrade, T!SHARED, SHARED
<1> QED
  BY <1>4, <1>5 DEF Unreserve

LEMMA ReleaseSeen ==
  ASSUME IInv, NEW p \in Process, Release(p)
  PROVE  T!Release(call[p].conn)
<1> DEFINE c == call[p].conn
<1>1. TypeOK /\ Own(p) /\ Elsewhere(p)
  BY ReleaseStep DEF IInv, Step
<1>2. /\ c \in Conn /\ ProcOf[c] = p /\ LevelOf[c] = SHARED /\ LevelOf'[c] = NONE
      /\ \A d \in Conn \ {c} : ProcOf[d] = p => LevelOf'[d] = LevelOf[d]
  BY Releasing
<1>3. inode[p].nShared = 1 \/ inode[p].nLock = 1 => Holders(p) = {c}
  BY Releasing
<1>4. LevelOf' = [LevelOf EXCEPT ![c] = NONE]
  BY <1>1, <1>2, OneLevel
<1>5. Writers' = Writers \ {c}
  <2>1. reserved' = reserved \/ Holders(p) = {c}
    BY <1>3 DEF Release, bytes
  <2>2. ASSUME NEW d \in Conn \ {c}, ProcOf[d] = p PROVE d \in Writers' <=> d \in Writers
    <3>1. CASE reserved' = reserved
      BY <1>2, <2>2, <3>1 DEF Writers
    <3>2. CASE Holders(p) = {c}
      <4>1. LevelOf[d] = NONE /\ LevelOf'[d] = NONE
        BY <1>2, <2>2, <3>2, LevelFacts DEF Holders
      <4> QED
        BY <4>1 DEF Writers, NONE, SHARED
    <3> QED
      BY <2>1, <3>1, <3>2
  <2>3. c \notin Writers'
    BY <1>2 DEF Writers, NONE, SHARED
  <2> QED
    BY <1>1, <1>2, <2>2, <2>3, WritersBut
<1> QED
  BY <1>2, <1>4, <1>5 DEF T!Release, T!NONE, NONE, SHARED

LEMMA ExitSeen ==
  ASSUME IInv, NEW p \in Process, Exit(p)
  PROVE  T!Exit(p)
<1>1. TypeOK /\ Elsewhere(p)
  BY ExitStep DEF IInv, Step
<1>2. \A d \in Conn : ProcOf[d] = p => LevelOf'[d] = NONE /\ d \notin Writers'
  <2>1. call'[p] = NoCall /\ lock' = [c \in Conn |-> IF ProcOf[c] = p THEN NONE ELSE lock[c]]
    BY <1>1 DEF Exit, TypeOK
  <2>2. \A d \in Conn : ProcOf[d] = p => LevelOf'[d] = NONE
    BY <2>1 DEF LevelOf, Letting, NoCall
  <2> QED
    BY <2>2 DEF Writers, NONE, SHARED
<1>3. LevelOf' = [c \in Conn |-> IF ProcOf[c] = p THEN NONE ELSE LevelOf[c]]
  BY <1>1, <1>2, ElsewhereLevels DEF LevelOf
<1>4. Writers' = {c \in Writers : ProcOf[c] # p}
  <2>1. Writers \subseteq Conn /\ Writers' \subseteq Conn
    BY DEF Writers
  <2> QED
    BY <1>1, <1>2, <2>1, ElsewhereLevels
<1> QED
  BY <1>3, <1>4 DEF T!Exit, T!NONE, NONE

(* The other steps are not seen: no level changes. *)

LEMMA AskUnseen ==
  ASSUME IInv, NEW c \in Conn, ReadPending(c) \/ WritePending(c) \/ TryAgain(c)
  PROVE  UNCHANGED T!vars
<1> DEFINE p == ProcOf[c]
<1>1. TypeOK /\ p \in Process /\ Elsewhere(p)
  BY UnixLockAssumption, ReadPendingStep, WritePendingStep DEF IInv, Step
<1>2. /\ call[p] = NoCall /\ lock' = lock /\ reserved' = reserved
      /\ \/ call' = [call EXCEPT ![p] = CallOf(c, "range")]
         \/ call' = [call EXCEPT ![p] = CallOf(c, "exclusive")]
  BY DEF ReadPending, WritePending, TryAgain, Free, bytes
<1>3. call'[p].at # "release"
  BY <1>1, <1>2 DEF TypeOK, CallOf
<1>4. \A d \in Conn : ProcOf[d] = p => LevelOf'[d] = LevelOf[d]
  BY <1>2, <1>3 DEF LevelOf, Letting, NoCall
<1> QED
  BY <1>1, <1>2, <1>4, Unseen

LEMMA ReadRangeUnseen ==
  ASSUME IInv, NEW p \in Process, ReadRange(p)
  PROVE  UNCHANGED T!vars
<1>1. TypeOK /\ Elsewhere(p)
  BY ReadRangeStep DEF IInv, Step
<1>2. /\ call[p].at = "range" /\ lock' = lock /\ reserved' = reserved
  BY DEF ReadRange
<1>3. call'[p].at # "release"
  <2> DEFINE new == CallOf(call[p].conn, "drop")
  <2>1. new.at = "drop" /\ [new EXCEPT !.got = TRUE].at = "drop"
    BY DEF CallOf
  <2>2. call'[p] = new \/ call'[p] = [new EXCEPT !.got = TRUE]
    BY <1>1 DEF ReadRange, TypeOK
  <2> QED
    BY <2>1, <2>2
<1>4. \A d \in Conn : ProcOf[d] = p => LevelOf'[d] = LevelOf[d]
  BY <1>2, <1>3 DEF LevelOf, Letting
<1> QED
  BY <1>1, <1>2, <1>4, Unseen

LEMMA UnlockUnseen ==
  ASSUME IInv, NEW c \in Conn, NEW to \in {NONE, SHARED}, Unlock(c, to)
  PROVE  UNCHANGED T!vars
<1> DEFINE p == ProcOf[c]
           at == IF lock[c] > SHARED THEN "unreserve" ELSE "release"
<1>1. TypeOK /\ p \in Process /\ Elsewhere(p) /\ lock[c] \in Level
  BY UnixLockAssumption, UnlockStep DEF IInv, Step, TypeOK
<1>2. /\ call[p] = NoCall /\ lock' = lock /\ reserved' = reserved /\ lock[c] > to
      /\ call' = [call EXCEPT ![p] = [CallOf(c, at) EXCEPT !.to = to]]
  BY DEF Unlock, Free
<1>3. call'[p].at = at /\ call'[p].conn = c
  BY <1>1, <1>2 DEF TypeOK, CallOf
<1>4. lock[c] > SHARED \/ lock[c] = SHARED
  BY <1>1, <1>2 DEF Level, NONE, SHARED, EXCLUSIVE
<1>5. \A d \in Conn : ProcOf[d] = p => LevelOf'[d] = LevelOf[d]
  BY <1>2, <1>3, <1>4 DEF LevelOf, Letting, NoCall
<1> QED
  BY <1>1, <1>2, <1>5, Unseen

LEMMA FilesUnseen ==
  ASSUME IInv, NEW c \in Conn, Open(c) \/ Close(c)
  PROVE  UNCHANGED T!vars
<1> DEFINE p == ProcOf[c]
<1>1. TypeOK /\ p \in Process /\ Own(p) /\ Elsewhere(p)
  BY UnixLockAssumption, OpenStep, CloseStep DEF IInv, Step
<1>2. call' = call /\ lock' = lock
  BY DEF Open, Close
<1>3. \A d \in Conn : LevelOf'[d] = LevelOf[d]
  BY <1>2 DEF LevelOf, Letting
<1>4. reserved' = reserved \/ ~(inode[p].nLock > 0)
  BY DEF Open, Close, bytes
<1>5. ~(inode[p].nLock > 0) => \A d \in Conn : ProcOf[d] = p => ~(LevelOf[d] > SHARED)
  <2> SUFFICES ASSUME ~(inode[p].nLock > 0), NEW d \in Conn, ProcOf[d] = p PROVE LevelOf[d] = NONE
    BY DEF NONE, SHARED
  <2>1. Cardinality(Holders(p)) = 0 /\ IsFiniteSet(Holders(p))
    BY <1>1, HoldersFinite DEF Own, Counted
  <2>2. Holders(p) = {}
    BY <2>1, FS_EmptySet
  <2> QED
    BY <2>2, LevelFacts DEF Holders
<1> QED
  BY <1>1, <1>3, <1>4, <1>5, Unseen

LEMMA NextSeen ==
  ASSUME IInv, [Next]_vars
  PROVE  [T!Next]_(T!vars)
<1>1. ASSUME NEW c \in Conn,
             \/ Join(c) \/ ReadPending(c) \/ Reserve(c) \/ WritePending(c) \/ TryAgain(c)
             \/ Unlock(c, NONE) \/ Unlock(c, SHARED) \/ Open(c) \/ Close(c)
      PROVE  T!TakeShared(c) \/ T!TakeReserved(c) \/ UNCHANGED T!vars
  BY <1>1, JoinSeen, ReserveSeen, AskUnseen, UnlockUnseen, FilesUnseen
<1>2. ASSUME NEW p \in Process,
             \/ ReadRange(p) \/ DropPending(p) \/ WriteRange(p) \/ Unreserve(p) \/ Release(p)
             \/ Exit(p)
      PROVE  \/ \E c \in Conn : \/ T!TakeShared(c) \/ T!TakePending(c) \/ T!TakeExclusive(c)
                                \/ T!Downgrade(c) \/ T!Release(c)
             \/ T!Exit(p) \/ UNCHANGED T!vars
  <2>1. ~Exit(p) => call[p].conn \in Conn
    BY <1>2, LevelTypes DEF IInv, ReadRange, DropPending, WriteRange, Unreserve, Release
  <2> QED
    BY <1>2, <2>1, ReadRangeUnseen, DropPendingSeen, WriteRangeSeen, UnreserveSeen, ReleaseSeen, ExitSeen
<1>3. CASE UNCHANGED vars
  BY <1>3 DEF vars, bytes, T!vars, LevelOf, Letting, Writers
<1>4. CASE Next
  BY <1>1, <1>2, <1>4 DEF Next, T!Next
<1> QED
  BY <1>3, <1>4

(* The byte locks and counts of os_unix.c implement the lock table that    *)
(* the pager is written for, whatever fails and whoever dies in between.   *)
THEOREM LocksImplementTable == Spec => TableSpec
<1>1. Init => T!Init
  <2> SUFFICES ASSUME Init PROVE T!Init
    OBVIOUS
  <2>1. \A c \in Conn : call[ProcOf[c]].at # "release" /\ lock[c] = NONE
    BY UnixLockAssumption DEF Init, NoCall
  <2>2. LevelOf = [c \in Conn |-> NONE] /\ Writers = {}
    BY <2>1, LevelIsLock DEF LevelOf, Letting, Writers, NONE, SHARED
  <2> QED
    BY <2>2 DEF T!Init, T!NONE, NONE
<1>2. IInv /\ [Next]_vars => [T!Next]_(T!vars)
  BY NextSeen
<1> QED
  BY <1>1, <1>2, Invariance, PTL DEF Spec, TableSpec, T!Spec

=============================================================================
