---------------------------- MODULE Pager_proofs ----------------------------
(***************************************************************************)
(* The types of the pager, for any connections, of any processes, any      *)
(* number of pages, transactions, crashes and power losses.                *)
(*                                                                         *)
(* That the change counter stays in its type is not local: it depends on   *)
(* the stamps of all pages wherever they are kept, in the file, on disk,   *)
(* in a cache or a journal, none of which is ahead of the transactions     *)
(* begun.  And that a journal is there when it is written depends on who   *)
(* may write, hence on the locks.                                          *)
(***************************************************************************)
EXTENDS Pager, TLAPS

USE DEF L!NONE, L!SHARED, L!RESERVED, L!PENDING, L!EXCLUSIVE

-----------------------------------------------------------------------------
(* The inductive invariant. *)

Place == Reading \cup {"off", "exists", "reserved", "first", "hot", "open", "resync", "validate",
                       "truncate", "replay", "sync_file", "unlink", "downgrade"}

(* c changes pages, or works on a journal to undo or end a transaction.    *)
Live(c) == tx[c] # None /\ at[c] \in Reading
Owning(c) == at[c] \in {"resync", "truncate", "replay", "sync_file", "unlink"}

(* The lock c holds where it is. *)
Levels(c) ==
  /\ at[c] = "off" => lock[c] = L!NONE
  /\ at[c] \in {"exists", "reserved", "first", "validate", "reader"} => lock[c] = L!SHARED
  /\ at[c] = "hot" => lock[c] \in {L!SHARED, L!PENDING}
  /\ at[c] \in {"open", "resync", "sync", "header", "sync_header", "pages", "truncate", "replay", "sync_file"} =>
       lock[c] = L!EXCLUSIVE
  /\ at[c] = "lock" => lock[c] \in {L!RESERVED, L!PENDING}
  /\ at[c] \in {"unlink", "downgrade"} => c \in writer \/ lock[c] = L!EXCLUSIVE
  /\ at[c] \in Reading \ {"reader"} => c \in writer
  /\ at[c] \in {"off", "exists", "reserved", "first", "hot", "open", "resync", "validate", "reader"} => c \notin writer
  /\ tx[c] # None => c \in writer
  /\ at[c] \in Reading \ {"reader", "writer"} => tx[c] # None
  /\ at[c] \in {"truncate", "replay", "sync_file", "unlink"} /\ c \in writer => tx[c] # None

(* The journal stays as long as someone has work for it, and pages go to   *)
(* the file only under EXCLUSIVE.                                          *)
Journaled(c) ==
  /\ Live(c) \/ Owning(c) => journal # None
  /\ Live(c) /\ 0 \in journal.sure => lock[c] = L!EXCLUSIVE

(* A content is of a transaction that began. *)
Dated(v) == v \in Tx => v <= begun

Stamps ==
  /\ \A p \in Page : Dated(file[p]) /\ \A v \in disk[p] : Dated(v)
  /\ journal # None => \A p \in Page : Dated(journal.old[p])
  /\ ghost # None => \A p \in Page : Dated(ghost.old[p])
  /\ \A t \in Tx : count[t] <= t

(* Before it writes page 1 a transaction is ahead of its change counter.   *)
OwnStamps(c) ==
  /\ \A p \in Page : Dated(cache[c][p])
  /\ Dated(tx[c])
  /\ vers[c] <= begun
  /\ Live(c) /\ at[c] # "pages" => vers[c] < tx[c]

Shape ==
  /\ TypeOK /\ L!Exclusion /\ Stamps
  /\ \A c \in Conn : Levels(c) /\ Journaled(c) /\ OwnStamps(c)

-----------------------------------------------------------------------------
(* What every step of one connection has in common. *)

(* The lock table: what c does with its lock changes that of no other.     *)
LockStep(c) ==
  \/ L!TakeShared(c) \/ L!TakeReserved(c) \/ L!TakePending(c) \/ L!TakeExclusive(c)
  \/ L!Downgrade(c) \/ L!Release(c) \/ UNCHANGED locks

LEMMA LockStepKeeps ==
  ASSUME NEW c \in Conn, LockStep(c), L!Exclusion, lock \in [Conn -> 0..4], writer \subseteq Conn
  PROVE  /\ L!Exclusion' /\ lock' \in [Conn -> 0..4] /\ writer' \subseteq Conn
         /\ \A d \in Conn : d # c => lock'[d] = lock[d] /\ (d \in writer' <=> d \in writer)
<1> USE DEF L!Exclusion
<1>1. CASE L!TakeShared(c)
  BY <1>1 DEF L!TakeShared
<1>2. CASE L!TakeReserved(c)
  BY <1>2 DEF L!TakeReserved
<1>3. CASE L!TakePending(c)
  BY <1>3 DEF L!TakePending
<1>4. CASE L!TakeExclusive(c)
  BY <1>4 DEF L!TakeExclusive
<1>5. CASE L!Downgrade(c)
  BY <1>5 DEF L!Downgrade
<1>6. CASE L!Release(c)
  BY <1>6 DEF L!Release
<1>7. CASE UNCHANGED locks
  BY <1>7 DEF locks
<1> QED
  BY <1>1, <1>2, <1>3, <1>4, <1>5, <1>6, <1>7 DEF LockStep

(* Only one may write. *)
LEMMA Alone ==
  ASSUME Shape, NEW c \in Conn, c \in writer \/ lock[c] = L!EXCLUSIVE, NEW d \in Conn, d # c
  PROVE  d \notin writer /\ ~Live(d) /\ ~Owning(d) /\ lock[d] # L!EXCLUSIVE
BY DEF Shape, TypeOK, L!Exclusion, Levels, Live, Owning, Reading

Elsewhere(c) ==
  \A d \in Conn : d # c =>
    /\ at'[d] = at[d] /\ cache'[d] = cache[d] /\ vers'[d] = vers[d]
    /\ tx'[d] = tx[d] /\ commits'[d] = commits[d] /\ todo'[d] = todo[d]

(* A step of c: the others stay as they are, and the invariant holds of c. *)
ShapeStep(c) ==
  /\ LockStep(c) /\ Elsewhere(c) /\ begun' >= begun
  /\ UNCHANGED journal \/ c \in writer \/ lock[c] = L!EXCLUSIVE
  /\ TypeOK'
  /\ Levels(c)' /\ Journaled(c)' /\ OwnStamps(c)' /\ Stamps'

LEMMA ShapeStepKeeps == ASSUME Shape, NEW c \in Conn, ShapeStep(c) PROVE Shape'
<1>1. L!Exclusion' /\ \A d \in Conn : d # c => lock'[d] = lock[d] /\ (d \in writer' <=> d \in writer)
  BY LockStepKeeps DEF Shape, TypeOK, ShapeStep
<1>2. ASSUME NEW d \in Conn, d # c PROVE Levels(d)' /\ Journaled(d)' /\ OwnStamps(d)'
  <2>1. Levels(d) /\ Journaled(d) /\ OwnStamps(d) /\ (Live(d)' <=> Live(d)) /\ (Owning(d)' <=> Owning(d))
    BY <1>2 DEF Shape, ShapeStep, Elsewhere, Live, Owning
  <2>2. Levels(d)'
    BY <1>1, <1>2, <2>1 DEF ShapeStep, Elsewhere, Levels
  <2>3. Journaled(d)'
    BY <1>1, <1>2, <2>1, Alone DEF ShapeStep, Journaled
  <2>4. OwnStamps(d)'
    <3>1. begun' \in Nat /\ begun \in Nat /\ begun <= begun' /\ vers[d] \in Nat
      BY DEF Shape, ShapeStep, TypeOK, Tx
    <3>2. \A v : Dated(v) => Dated(v)'
      BY <3>1 DEF Dated, Tx
    <3> QED
      BY <1>2, <2>1, <3>1, <3>2 DEF ShapeStep, Elsewhere, OwnStamps
  <2> QED
    BY <2>2, <2>3, <2>4
<1> QED
  BY <1>1, <1>2 DEF Shape, ShapeStep

(* A step that moves on and changes at most the lock. *)
Moves(c, there) ==
  /\ at' = [at EXCEPT ![c] = there] /\ LockStep(c)
  /\ UNCHANGED <<cache, vers, tx, commits, todo, stored, count, begun>>
  /\ UNCHANGED trouble \/ Trouble

LEMMA MovesShape ==
  ASSUME Shape, NEW c \in Conn, NEW there \in Place, Moves(c, there), Levels(c)',
         Live(c)' => Live(c) /\ at[c] # "pages" /\ (lock[c] = L!EXCLUSIVE => lock'[c] = L!EXCLUSIVE),
         Owning(c)' => Owning(c) \/ Live(c) \/ journal # None
  PROVE  ShapeStep(c)
<1>1. TypeOK'
  BY LockStepKeeps, PagerAssumption DEF Shape, TypeOK, Moves, stored, Place, Trouble
<1>2. Elsewhere(c) /\ LockStep(c) /\ begun' = begun /\ journal' = journal
  BY DEF Shape, TypeOK, Moves, Elsewhere, stored
<1>3. Stamps' /\ OwnStamps(c)'
  BY DEF Shape, Moves, Stamps, OwnStamps, Dated, stored
<1>4. Journaled(c)'
  BY DEF Shape, Moves, Journaled, stored
<1>5. begun' >= begun
  BY <1>2 DEF Shape, TypeOK, Tx
<1> QED
  BY <1>1, <1>2, <1>3, <1>4, <1>5 DEF ShapeStep

-----------------------------------------------------------------------------
(* One lemma for each kind of step. *)

LEMMA RecoveryShape ==
  ASSUME Shape, NEW c \in Conn,
         \/ ReadLock(c) \/ JournalExists(c) \/ CheckReserved(c) \/ FirstByte(c) \/ HotLock(c) \/ OpenFails(c)
         \/ OpenHotJournal(c)
  PROVE  ShapeStep(c)
<1> USE DEF Go, Quiet, Moves, LockStep, Place, Live, Owning, Reading, stored
<1>0. Levels(c) /\ L!Exclusion /\ TypeOK
  BY DEF Shape
<1>1. CASE ReadLock(c)
  <2>1. Moves(c, "exists")
    BY <1>1 DEF ReadLock
  <2>2. Levels(c)'
    BY <1>0, <1>1 DEF ReadLock, L!TakeShared, Levels, TypeOK
  <2> QED
    BY <1>0, <1>1, <2>1, <2>2, MovesShape DEF TypeOK
<1>2. CASE JournalExists(c)
  BY <1>0, <1>2, MovesShape DEF JournalExists, Levels, TypeOK, locks
<1>3. CASE CheckReserved(c)
  BY <1>0, <1>3, MovesShape DEF CheckReserved, Levels, TypeOK, locks
<1>4. CASE FirstByte(c)
  BY <1>0, <1>4, MovesShape DEF FirstByte, Levels, TypeOK, locks
<1>5. CASE HotLock(c)
  BY <1>0, <1>5, MovesShape DEF HotLock, Levels, TypeOK, L!TakePending, L!TakeExclusive
<1>6. CASE OpenFails(c)
  BY <1>0, <1>6, MovesShape DEF OpenFails, Levels, TypeOK, L!Release, Trouble
<1>7. CASE OpenHotJournal(c)
  BY <1>0, <1>7, MovesShape DEF OpenHotJournal, Levels, TypeOK, L!Downgrade, locks
<1> QED
  BY <1>1, <1>2, <1>3, <1>4, <1>5, <1>6, <1>7

LEMMA ReadingShape ==
  ASSUME Shape, NEW c \in Conn,
         EndRead(c) \/ Begin(c) \/ WriteLock(c) \/ WriteBusy(c) \/ EndUnchanged(c) \/ Replayed(c)
  PROVE  ShapeStep(c)
<1> USE DEF Go, Quiet, Moves, LockStep, Place, Live, Owning, Reading, stored
<1>0. Levels(c) /\ L!Exclusion /\ TypeOK
  BY DEF Shape
<1>1. CASE EndRead(c)
  BY <1>0, <1>1, MovesShape DEF EndRead, Levels, TypeOK, L!Release
<1>2. CASE Begin(c)
  BY <1>0, <1>2, MovesShape DEF Begin, Levels, TypeOK, L!TakeReserved
<1>3. CASE WriteLock(c)
  <2>1. Moves(c, "lock") \/ Moves(c, "sync")
    BY <1>3 DEF WriteLock
  <2>2. Levels(c)'
    BY <1>0, <1>3 DEF WriteLock, Levels, TypeOK, L!TakePending, L!TakeExclusive, L!Exclusion
  <2>3. lock[c] # L!EXCLUSIVE /\ at[c] = "lock"
    BY <1>0, <1>3 DEF WriteLock, Levels
  <2> QED
    BY <1>0, <1>3, <2>1, <2>2, <2>3, MovesShape DEF TypeOK, WriteLock
<1>4. CASE WriteBusy(c)
  BY <1>0, <1>4, MovesShape DEF WriteBusy, Levels, TypeOK, locks
<1>5. CASE EndUnchanged(c)
  BY <1>0, <1>5, MovesShape DEF EndUnchanged, Levels, TypeOK, locks
<1>6. CASE Replayed(c)
  BY <1>0, <1>6, MovesShape DEF Replayed, Levels, TypeOK, locks
<1> QED
  BY <1>1, <1>2, <1>3, <1>4, <1>5, <1>6

LEMMA JournalRecord ==
  ASSUME NEW o \in SUBSET Page, NEW d \in [Page -> Content], NEW h \in SUBSET (0..N),
         NEW k \in SUBSET (0..N), NEW s \in SUBSET (0..N), NEW n \in BOOLEAN
  PROVE  /\ [orig |-> o, old |-> d, hard |-> h, counted |-> k, sure |-> s, named |-> n] \in Journal
         /\ [orig |-> o, old |-> d, hard |-> h, counted |-> k, sure |-> s, named |-> n] # None
BY NothingAssumption DEF Journal

LEMMA JournalParts ==
  ASSUME NEW j \in Journal
  PROVE  /\ j.orig \in SUBSET Page /\ j.old \in [Page -> Content] /\ j.hard \in SUBSET (0..N)
         /\ j.counted \in SUBSET (0..N) /\ j.sure \in SUBSET (0..N) /\ j.named \in BOOLEAN
         /\ {0} \cup Recorded(j) \in SUBSET (0..N)
BY PagerAssumption DEF Journal, Recorded, Page

LEMMA SyncHotJournalShape == ASSUME Shape, NEW c \in Conn, SyncHotJournal(c) PROVE ShapeStep(c)
<1> USE DEF Go, Quiet
<1>0. /\ TypeOK /\ Levels(c) /\ journal # None /\ journal \in Journal
      /\ lock[c] = L!EXCLUSIVE /\ c \notin writer
  BY DEF Shape, SyncHotJournal, Levels, Journaled, Owning, TypeOK
<1>1. journal' \in Journal /\ journal'.old = journal.old /\ journal' # None
  <2>1. journal' = [orig |-> journal.orig, old |-> journal.old, hard |-> {0} \cup Recorded(journal),
                    counted |-> journal.counted, sure |-> journal.counted, named |-> journal.named]
    BY DEF SyncHotJournal
  <2>2. /\ journal.orig \in SUBSET Page /\ journal.old \in [Page -> Content]
        /\ journal.counted \in SUBSET (0..N) /\ journal.named \in BOOLEAN
        /\ {0} \cup Recorded(journal) \in SUBSET (0..N)
    BY <1>0, JournalParts
  <2>3. journal' \in Journal /\ journal' # None
    BY <2>1, <2>2, JournalRecord
  <2> QED
    BY <2>1, <2>3
<1>2. TypeOK'
  <2>1. todo' \in [Conn -> SUBSET Page]
    BY <1>0 DEF SyncHotJournal, TypeOK, Journal, Page
  <2> QED
    BY <1>0, <1>1, <2>1 DEF SyncHotJournal, TypeOK, locks
<1>3. Elsewhere(c) /\ LockStep(c) /\ begun' >= begun
  BY <1>0 DEF SyncHotJournal, TypeOK, Elsewhere, LockStep, Tx
<1>4. Stamps' /\ OwnStamps(c)'
  <2>1. ~Live(c)'
    BY <1>0 DEF SyncHotJournal, Live, Reading, TypeOK
  <2> QED
    BY <1>0, <1>1, <2>1 DEF Shape, SyncHotJournal, Stamps, OwnStamps, Dated
<1>5. Levels(c)' /\ Journaled(c)'
  BY <1>0, <1>1 DEF SyncHotJournal, Levels, Journaled, Live, Reading, TypeOK, locks
<1> QED
  BY <1>0, <1>2, <1>3, <1>4, <1>5 DEF ShapeStep

LEMMA CounterBound ==
  ASSUME Shape, NEW v \in Content, Dated(v)
  PROVE  Counter(v) \in 0..MaxTx /\ Counter(v) <= begun
BY PagerAssumption DEF Shape, Stamps, Counter, Dated, TypeOK, Tx

LEMMA ValidateShape == ASSUME Shape, NEW c \in Conn, Validate(c) PROVE ShapeStep(c)
<1> USE DEF Go, Quiet
<1> DEFINE kept == IF vers[c] = Counter(file[1]) THEN cache[c] ELSE Empty
           next == IF kept[1] # Absent THEN kept ELSE [kept EXCEPT ![1] = file[1]]
<1>0. TypeOK /\ Levels(c) /\ Stamps /\ OwnStamps(c) /\ 1 \in Page
  BY PagerAssumption DEF Shape, Page
<1>1. kept \in [Page -> Content] /\ \A p \in Page : Dated(kept[p])
  BY <1>0, NothingAssumption DEF TypeOK, Empty, Content, OwnStamps, Dated
<1>2. next \in [Page -> Content] /\ \A p \in Page : Dated(next[p])
  BY <1>0, <1>1 DEF TypeOK, Stamps
<1>3. cache' = [cache EXCEPT ![c] = next]
  BY DEF Validate
<1>4. /\ at[c] = "validate" /\ at' = [at EXCEPT ![c] = "reader"]
      /\ vers' = [vers EXCEPT ![c] = Counter(file[1])]
      /\ UNCHANGED <<locks, tx, commits, todo, stored, count, begun, trouble>>
  BY DEF Validate
<1>5. Counter(file[1]) \in 0..MaxTx /\ Counter(file[1]) <= begun
  BY <1>0, CounterBound DEF TypeOK, Stamps
<1> HIDE DEF kept, next, Quiet, Go
<1>6. TypeOK'
  <2>1. cache' \in [Conn -> [Page -> Content]]
    BY <1>0, <1>2, <1>3 DEF TypeOK
  <2>2. vers' \in [Conn -> 0..MaxTx]
    BY <1>0, <1>4, <1>5 DEF TypeOK
  <2> QED
    BY <1>0, <1>4, <2>1, <2>2 DEF TypeOK, Reading, locks, stored
<1>7. Elsewhere(c) /\ LockStep(c) /\ begun' >= begun /\ UNCHANGED journal
  BY <1>0, <1>3, <1>4 DEF TypeOK, Elsewhere, LockStep, Tx, stored
<1>8. Stamps'
  BY <1>0, <1>4 DEF Stamps, Dated, stored
<1>9. OwnStamps(c)'
  <2>1. cache'[c] = next /\ vers'[c] = Counter(file[1]) /\ tx'[c] = tx[c] /\ begun' = begun
    BY <1>0, <1>2, <1>3, <1>4 DEF TypeOK
  <2>2. ~Live(c)'
    BY <1>0, <1>4 DEF Live, Levels
  <2> QED
    BY <1>0, <1>2, <1>5, <2>1, <2>2 DEF OwnStamps, Dated
<1>10. Levels(c)' /\ Journaled(c)'
  BY <1>0, <1>4 DEF Levels, Journaled, Live, Owning, Reading, TypeOK, locks, stored
<1> QED
  BY <1>6, <1>7, <1>8, <1>9, <1>10 DEF ShapeStep

LEMMA CacheShape ==
  ASSUME Shape, NEW c \in Conn, NEW p \in Page, ReadPage(c, p) \/ Evict(c, p)
  PROVE  ShapeStep(c)
<1>0. TypeOK /\ Levels(c) /\ Journaled(c) /\ Stamps /\ OwnStamps(c)
  BY DEF Shape
<1>1. PICK v \in Content : Dated(v) /\ cache' = [cache EXCEPT ![c][p] = v]
  BY <1>0, NothingAssumption DEF ReadPage, Evict, TypeOK, Stamps, Dated, Content
<1>2. UNCHANGED <<locks, at, vers, tx, commits, todo, stored, count, begun, trouble>>
  BY DEF ReadPage, Evict, Quiet
<1>3. TypeOK'
  <2>1. cache' \in [Conn -> [Page -> Content]]
    BY <1>0, <1>1 DEF TypeOK
  <2> QED
    BY <1>0, <1>2, <2>1 DEF TypeOK, locks, stored
<1>4. OwnStamps(c)'
  <2>1. \A q \in Page : cache'[c][q] = IF q = p THEN v ELSE cache[c][q]
    BY <1>0, <1>1 DEF TypeOK
  <2> QED
    BY <1>0, <1>1, <1>2, <2>1 DEF OwnStamps, Dated, Live
<1> QED
  BY <1>0, <1>1, <1>2, <1>3, <1>4
  DEF ShapeStep, TypeOK, Elsewhere, LockStep, Tx, stored, locks, Stamps, Dated, Levels, Journaled, Live, Owning

LEMMA SpillShape == ASSUME Shape, NEW c \in Conn, Spill(c) PROVE ShapeStep(c)
<1>0. TypeOK /\ Levels(c) /\ Journaled(c) /\ Stamps /\ OwnStamps(c)
  BY DEF Shape
<1>1. tx[c] # None
  BY DEF Spill, Dirty
<1>2. /\ at[c] = "writer" /\ at' = [at EXCEPT ![c] = IF lock[c] = L!EXCLUSIVE THEN "sync" ELSE "lock"]
      /\ commits' = [commits EXCEPT ![c] = FALSE]
      /\ UNCHANGED <<locks, cache, vers, tx, todo, stored, count, begun, trouble>>
  BY DEF Spill, Go, Quiet
<1>3. TypeOK'
  BY <1>0, <1>2 DEF TypeOK, Reading, locks, stored
<1>4. Levels(c)'
  BY <1>0, <1>1, <1>2 DEF TypeOK, Shape, L!Exclusion, Levels, Reading, locks
<1> QED
  BY <1>0, <1>1, <1>2, <1>3, <1>4
  DEF ShapeStep, TypeOK, Elsewhere, LockStep, Tx, stored, locks, Stamps, OwnStamps, Dated, Journaled, Live, Owning,
      Reading

(* The journal and the cache of a transaction that changes a page. *)
LEMMA ChangedTypes ==
  ASSUME TypeOK, NEW c \in Conn, NEW p \in Page, NEW t \in Tx, NEW j \in Journal, Changed(c, p, t, j)
  PROVE  /\ journal' \in Journal /\ journal' # None /\ cache' \in [Conn -> [Page -> Content]]
         /\ journal'.orig = j.orig /\ journal'.hard = j.hard /\ journal'.counted = j.counted
         /\ journal'.sure = j.sure /\ journal'.named = j.named
         /\ \A q \in Page : journal'.old[q] = IF q = p /\ p \in j.orig /\ j.old[p] = Absent THEN cache[c][p]
                                             ELSE j.old[q]
         /\ \A q \in Page : cache'[c][q] = IF q = p THEN t ELSE cache[c][q]
         /\ \A d \in Conn : d # c => cache'[d] = cache[d]
<1>1. cache' = [cache EXCEPT ![c][p] = t] /\ t \in Content
  BY DEF Changed, Content
<1>2. j.old \in [Page -> Content] /\ cache[c][p] \in Content
  BY JournalParts DEF TypeOK
<1>3. CASE p \in j.orig /\ j.old[p] = Absent
  <2>1. journal' = [j EXCEPT !.old[p] = cache[c][p]]
    BY <1>3 DEF Changed
  <2>2. /\ journal' = [orig |-> j.orig, old |-> [j.old EXCEPT ![p] = cache[c][p]], hard |-> j.hard,
                       counted |-> j.counted, sure |-> j.sure, named |-> j.named]
        /\ [j.old EXCEPT ![p] = cache[c][p]] \in [Page -> Content]
    BY <1>2, <2>1 DEF Journal
  <2>3. journal' \in Journal /\ journal' # None
    BY <2>2, JournalParts, JournalRecord
  <2>4. \A q \in Page : journal'.old[q] = IF q = p THEN cache[c][p] ELSE j.old[q]
    BY <1>2, <2>2
  <2> QED
    BY <1>1, <1>3, <2>2, <2>3, <2>4 DEF TypeOK
<1>4. CASE ~(p \in j.orig /\ j.old[p] = Absent)
  BY <1>1, <1>4, NothingAssumption DEF Changed, TypeOK
<1> QED
  BY <1>3, <1>4

LEMMA NewJournalParts ==
  ASSUME TypeOK
  PROVE  /\ NewJournal \in Journal /\ NewJournal # None
         /\ NewJournal.orig = {p \in Page : file[p] # Absent} /\ NewJournal.old = [p \in Page |-> Absent]
         /\ NewJournal.hard = {} /\ NewJournal.counted = {} /\ NewJournal.sure = {}
         /\ NewJournal.named = FALSE
<1>1. [p \in Page |-> Absent] \in [Page -> Content] /\ {p \in Page : file[p] # Absent} \in SUBSET Page
  BY DEF Content
<1> QED
  BY <1>1, JournalRecord DEF NewJournal

LEMMA WritePageShape == ASSUME Shape, NEW c \in Conn, NEW p \in Page, WritePage(c, p) PROVE ShapeStep(c)
<1>0. TypeOK /\ Levels(c) /\ Journaled(c) /\ Stamps /\ OwnStamps(c)
  BY DEF Shape
<1>1. /\ at[c] = "writer" /\ c \in writer
      /\ UNCHANGED <<locks, at, vers, commits, todo, file, disk, ghost, count, trouble>>
  BY <1>0 DEF WritePage, Levels, Reading
<1>2. CASE tx[c] = None
  <2>1. /\ begun < MaxTx /\ begun' = begun + 1 /\ tx' = [tx EXCEPT ![c] = begun + 1]
        /\ Changed(c, p, begun + 1, NewJournal)
    BY <1>2 DEF WritePage
  <2>2. begun + 1 \in Tx /\ begun' \in Tx /\ begun \in Nat
    BY <1>0, <2>1, PagerAssumption DEF TypeOK, Tx
  <2>3. /\ journal' \in Journal /\ journal' # None /\ cache' \in [Conn -> [Page -> Content]]
        /\ journal'.sure = {}
        /\ \A q \in Page : journal'.old[q] \in {Absent, cache[c][p]}
        /\ \A q \in Page : cache'[c][q] = IF q = p THEN begun + 1 ELSE cache[c][q]
        /\ \A d \in Conn : d # c => cache'[d] = cache[d]
    BY <1>0, <2>1, <2>2, ChangedTypes, NewJournalParts
  <2>4. TypeOK'
    BY <1>0, <1>1, <2>1, <2>2, <2>3 DEF TypeOK, locks
  <2>5. \A v : Dated(v) => Dated(v)'
    BY <2>1, <2>2 DEF Dated, Tx
  <2>6. Stamps'
    BY <1>0, <1>1, <2>3, <2>5, NothingAssumption DEF Stamps, OwnStamps, Dated
  <2>7. OwnStamps(c)'
    <3>1. tx'[c] = begun + 1 /\ vers'[c] = vers[c] /\ vers[c] <= begun /\ vers[c] \in Nat
      BY <1>0, <1>1, <2>1 DEF TypeOK, OwnStamps
    <3>2. \A q \in Page : Dated(cache[c][q])'
      BY <1>0, <2>1, <2>2, <2>3 DEF OwnStamps, Dated, Tx
    <3> QED
      BY <2>1, <2>2, <3>1, <3>2 DEF OwnStamps, Dated
  <2>8. Levels(c)'
    BY <1>0, <1>1, <2>1 DEF Levels, TypeOK, locks, Reading
  <2>9. Journaled(c)'
    BY <2>3 DEF Journaled
  <2>10. Elsewhere(c) /\ LockStep(c) /\ begun' >= begun
    BY <1>0, <1>1, <2>1, <2>2, <2>3 DEF Elsewhere, LockStep, TypeOK
  <2> QED
    BY <1>1, <2>4, <2>6, <2>7, <2>8, <2>9, <2>10 DEF ShapeStep
<1>3. CASE tx[c] # None
  <2>1. Changed(c, p, tx[c], journal) /\ UNCHANGED <<tx, begun>>
    BY <1>3 DEF WritePage
  <2>2. tx[c] \in Tx /\ journal \in Journal /\ journal # None /\ Live(c)
    BY <1>0, <1>1, <1>3 DEF TypeOK, Journaled, Live, Reading
  <2>3. /\ journal' \in Journal /\ journal' # None /\ cache' \in [Conn -> [Page -> Content]]
        /\ journal'.sure = journal.sure
        /\ \A q \in Page : journal'.old[q] \in {journal.old[q], cache[c][p]}
        /\ \A q \in Page : cache'[c][q] = IF q = p THEN tx[c] ELSE cache[c][q]
        /\ \A d \in Conn : d # c => cache'[d] = cache[d]
    BY <1>0, <2>1, <2>2, ChangedTypes
  <2>4. TypeOK'
    BY <1>0, <1>1, <2>1, <2>2, <2>3 DEF TypeOK, locks
  <2>5. Stamps'
    BY <1>0, <1>1, <2>1, <2>2, <2>3 DEF Stamps, OwnStamps, Dated
  <2>6. OwnStamps(c)'
    BY <1>0, <1>1, <2>1, <2>2, <2>3 DEF OwnStamps, Dated, Live
  <2>7. Levels(c)' /\ Journaled(c)'
    BY <1>0, <1>1, <2>1, <2>2, <2>3 DEF Levels, Journaled, Live, Owning, locks, Reading
  <2>8. Elsewhere(c) /\ LockStep(c) /\ begun' >= begun
    BY <1>0, <1>1, <2>1, <2>3 DEF Elsewhere, LockStep, TypeOK, Tx
  <2> QED
    BY <1>1, <2>4, <2>5, <2>6, <2>7, <2>8 DEF ShapeStep
<1> QED
  BY <1>2, <1>3

LEMMA CommitPhaseOneShape == ASSUME Shape, NEW c \in Conn, CommitPhaseOne(c) PROVE ShapeStep(c)
<1>0. TypeOK /\ Levels(c) /\ Journaled(c) /\ Stamps /\ OwnStamps(c)
  BY DEF Shape
<1>1. /\ tx[c] # None /\ at[c] = "writer" /\ c \in writer
      /\ at' = [at EXCEPT ![c] = IF lock[c] = L!EXCLUSIVE THEN "sync" ELSE "lock"]
      /\ Changed(c, 1, tx[c], journal)
      /\ count' = [count EXCEPT ![tx[c]] = vers[c] + 1]
      /\ commits' = [commits EXCEPT ![c] = TRUE]
      /\ UNCHANGED <<locks, vers, tx, todo, file, disk, ghost, begun, trouble>>
  BY <1>0 DEF CommitPhaseOne, Go, Levels, Reading
<1>2. tx[c] \in Tx /\ journal \in Journal /\ journal # None /\ Live(c) /\ 1 \in Page
  BY <1>0, <1>1, PagerAssumption DEF TypeOK, Journaled, Live, Reading, Page
<1>3. /\ journal' \in Journal /\ journal' # None /\ cache' \in [Conn -> [Page -> Content]]
      /\ journal'.sure = journal.sure
      /\ \A q \in Page : journal'.old[q] \in {journal.old[q], cache[c][1]}
      /\ \A q \in Page : cache'[c][q] = IF q = 1 THEN tx[c] ELSE cache[c][q]
      /\ \A d \in Conn : d # c => cache'[d] = cache[d]
  BY <1>0, <1>1, <1>2, ChangedTypes
<1>4. vers[c] + 1 \in 0..MaxTx /\ vers[c] + 1 <= tx[c] /\ vers[c] < tx[c]
  <2>1. vers[c] \in 0..MaxTx /\ tx[c] \in 0..MaxTx /\ vers[c] < tx[c]
    BY <1>0, <1>1, <1>2 DEF OwnStamps, TypeOK, Tx
  <2> QED
    BY <2>1, PagerAssumption
<1>5. TypeOK'
  <2>1. at' \in [Conn -> Place]
    BY <1>0, <1>1 DEF TypeOK, Reading, Place
  <2>2. count' \in [Tx -> 0..MaxTx]
    BY <1>0, <1>1, <1>2, <1>4 DEF TypeOK
  <2> QED
    BY <1>0, <1>1, <1>3, <2>1, <2>2 DEF TypeOK, locks, Place
<1>6. Stamps'
  <2>1. \A t \in Tx : count'[t] <= t
    BY <1>0, <1>1, <1>2, <1>4 DEF TypeOK, Stamps
  <2> QED
    BY <1>0, <1>1, <1>2, <1>3, <2>1 DEF Stamps, OwnStamps, Dated
<1>7. OwnStamps(c)'
  BY <1>0, <1>1, <1>2, <1>3, <1>4 DEF OwnStamps, Dated, Live
<1>8. Levels(c)' /\ Journaled(c)'
  BY <1>0, <1>1, <1>2, <1>3 DEF Shape, L!Exclusion, TypeOK, Levels, Journaled, Live, Owning, locks, Reading
<1>9. Elsewhere(c) /\ LockStep(c) /\ begun' >= begun
  BY <1>0, <1>1, <1>3 DEF Elsewhere, LockStep, TypeOK, Tx
<1> QED
  BY <1>1, <1>5, <1>6, <1>7, <1>8, <1>9 DEF ShapeStep

(* The steps of syncJournal. *)
LEMMA SyncJournalShape ==
  ASSUME Shape, NEW c \in Conn, SyncRecords(c) \/ WriteHeader(c) \/ SyncHeader(c)
  PROVE  ShapeStep(c)
<1>0. /\ TypeOK /\ Levels(c) /\ Stamps /\ OwnStamps(c) /\ Live(c) /\ lock[c] = L!EXCLUSIVE
      /\ journal \in Journal /\ journal # None
  BY DEF Shape, SyncRecords, WriteHeader, SyncHeader, Go, Levels, Journaled, Live, Reading, TypeOK
<1>1. PICK there \in {"header", "sync_header", "pages", "writer"} : at' = [at EXCEPT ![c] = there]
  BY DEF SyncRecords, WriteHeader, SyncHeader, Go
<1>2. journal' \in Journal /\ journal' # None /\ journal'.old = journal.old
  <2>1. /\ journal.orig \in SUBSET Page /\ journal.old \in [Page -> Content]
        /\ journal.hard \in SUBSET (0..N) /\ journal.counted \in SUBSET (0..N)
        /\ journal.sure \in SUBSET (0..N) /\ journal.named \in BOOLEAN
        /\ {0} \cup Recorded(journal) \in SUBSET (0..N)
    BY <1>0, JournalParts
  <2>2. PICK h \in SUBSET (0..N), k \in SUBSET (0..N), s \in SUBSET (0..N), n \in BOOLEAN :
          journal' = [orig |-> journal.orig, old |-> journal.old, hard |-> h, counted |-> k, sure |-> s, named |-> n]
    <3>1. CASE SyncRecords(c)
      BY <2>1, <3>1 DEF SyncRecords
    <3>2. CASE WriteHeader(c)
      BY <1>0, <2>1, <3>2 DEF WriteHeader, Journal
    <3>3. CASE SyncHeader(c)
      BY <1>0, <2>1, <3>3 DEF SyncHeader, Journal
    <3> QED
      BY <3>1, <3>2, <3>3
  <2>3. journal' \in Journal /\ journal' # None
    BY <2>1, <2>2, JournalRecord
  <2> QED
    BY <2>2, <2>3
<1>3. /\ UNCHANGED <<locks, cache, vers, tx, commits, todo, file, disk, count, begun, trouble>>
      /\ ghost' \in {ghost, None}
  BY DEF SyncRecords, WriteHeader, SyncHeader, Quiet
<1>4. TypeOK'
  BY <1>0, <1>1, <1>2, <1>3 DEF TypeOK, Reading, locks
<1>5. Stamps' /\ OwnStamps(c)'
  <2>1. Live(c) /\ at[c] # "pages"
    BY <1>0 DEF SyncRecords, WriteHeader, SyncHeader, Go
  <2> QED
    BY <1>0, <1>2, <1>3, <2>1 DEF Stamps, OwnStamps, Dated
<1>6. Levels(c)' /\ Journaled(c)'
  BY <1>0, <1>1, <1>2, <1>3 DEF TypeOK, Levels, Journaled, Live, Owning, locks, Reading
<1>7. Elsewhere(c) /\ LockStep(c) /\ begun' >= begun
  BY <1>0, <1>1, <1>3 DEF Elsewhere, LockStep, TypeOK, Tx
<1> QED
  BY <1>0, <1>4, <1>5, <1>6, <1>7 DEF ShapeStep

LEMMA PutTypes ==
  ASSUME TypeOK, NEW p \in Page, NEW v \in Content, Put(p, v)
  PROVE  /\ file' \in [Page -> Content] /\ disk' \in [Page -> SUBSET Content]
         /\ \A q \in Page : file'[q] = IF q = p THEN v ELSE file[q]
         /\ \A q \in Page : disk'[q] = IF q = p THEN disk[q] \cup {v, Garbage} ELSE disk[q]
<1>1. disk[p] \cup {v, Garbage} \in SUBSET Content
  BY DEF TypeOK, Content
<1>2. file' = [file EXCEPT ![p] = v] /\ disk' = [disk EXCEPT ![p] = disk[p] \cup {v, Garbage}]
  BY DEF Put
<1> QED
  BY <1>1, <1>2 DEF TypeOK

LEMMA PutDated ==
  ASSUME TypeOK, Stamps, NEW p \in Page, NEW v \in Content, Put(p, v), Dated(v)
  PROVE  /\ \A q \in Page : Dated(file'[q])
         /\ \A q \in Page : \A w \in disk'[q] : Dated(w)
<1>1. /\ \A q \in Page : file'[q] = IF q = p THEN v ELSE file[q]
      /\ \A q \in Page : disk'[q] = IF q = p THEN disk[q] \cup {v, Garbage} ELSE disk[q]
  BY PutTypes
<1>2. Dated(Garbage)
  BY NothingAssumption DEF Dated
<1>3. \A q \in Page : Dated(file[q]) /\ \A w \in disk[q] : Dated(w)
  BY DEF Stamps
<1>4. ASSUME NEW q \in Page, NEW w \in disk'[q] PROVE Dated(w)
  BY <1>1, <1>2, <1>3, <1>4
<1> QED
  BY <1>1, <1>3, <1>4

(* A step that leaves the journals and the counters alone, and stays with  *)
(* its lock and its transaction.                                           *)
LEMMA FileShape ==
  ASSUME Shape, NEW c \in Conn, NEW there \in Place, at' = [at EXCEPT ![c] = there],
         UNCHANGED <<locks, tx, journal, ghost, count, begun>>,
         UNCHANGED trouble \/ Trouble, c \in writer \/ lock[c] = L!EXCLUSIVE,
         file' \in [Page -> Content] /\ \A p \in Page : Dated(file'[p]),
         disk' \in [Page -> SUBSET Content] /\ \A p \in Page : \A v \in disk'[p] : Dated(v),
         NEW new \in [Page -> Content], cache' = [cache EXCEPT ![c] = new], \A p \in Page : Dated(new[p]),
         NEW u \in 0..MaxTx, vers' = [vers EXCEPT ![c] = u], u <= begun,
         NEW b \in BOOLEAN, commits' = [commits EXCEPT ![c] = b],
         NEW left \in SUBSET Page, todo' = [todo EXCEPT ![c] = left],
         Levels(c)', Journaled(c)', Live(c)' /\ there # "pages" => u < tx[c]
  PROVE  ShapeStep(c)
<1>0. TypeOK /\ Stamps /\ OwnStamps(c)
  BY DEF Shape
<1>1. TypeOK'
  <2>1. cache' \in [Conn -> [Page -> Content]]
    BY <1>0 DEF TypeOK
  <2>2. at' \in [Conn -> Place] /\ trouble' \in 0..MaxTrouble
    BY <1>0, PagerAssumption DEF TypeOK, Place, Trouble
  <2>3. /\ vers' \in [Conn -> 0..MaxTx] /\ commits' \in [Conn -> BOOLEAN] /\ todo' \in [Conn -> SUBSET Page]
    BY <1>0 DEF TypeOK
  <2> QED
    BY <1>0, <2>1, <2>2, <2>3 DEF TypeOK, locks, Place
<1>2. Stamps'
  BY <1>0 DEF Stamps, Dated
<1>3. OwnStamps(c)'
  <2>1. cache'[c] = new /\ vers'[c] = u /\ at'[c] = there
    BY <1>0 DEF TypeOK
  <2> QED
    BY <1>0, <2>1 DEF OwnStamps, Dated
<1>4. Elsewhere(c) /\ LockStep(c) /\ begun' >= begun
  BY <1>0 DEF Elsewhere, LockStep, TypeOK, Tx
<1> QED
  BY <1>1, <1>2, <1>3, <1>4 DEF ShapeStep

LEMMA StorePageShape == ASSUME Shape, NEW c \in Conn, NEW p \in Page, StorePage(c, p) PROVE ShapeStep(c)
<1>0. /\ TypeOK /\ Levels(c) /\ Journaled(c) /\ Stamps /\ OwnStamps(c) /\ Live(c) /\ tx[c] \in Tx
      /\ cache[c][p] = tx[c] /\ cache[c] \in [Page -> Content] /\ vers[c] \in 0..MaxTx
      /\ at[c] \in {"pages", "writer"} /\ c \in writer
  BY DEF Shape, StorePage, Dirty, Live, Levels, Reading, TypeOK
<1>1. /\ UNCHANGED <<locks, at, cache, tx, commits, todo, journal, ghost, count, begun, trouble>>
      /\ Put(p, tx[c])
      /\ vers' = IF p = 1 THEN [vers EXCEPT ![c] = count[tx[c]]] ELSE vers
      /\ at[c] = "writer" => p # 1
  BY <1>0 DEF StorePage, Quiet
<1> DEFINE u == IF p = 1 THEN count[tx[c]] ELSE vers[c]
<1>2. vers' = [vers EXCEPT ![c] = u] /\ u \in 0..MaxTx
  BY <1>0, <1>1 DEF TypeOK
<1>3. u <= begun
  <2>1. count[tx[c]] <= tx[c] /\ tx[c] <= begun /\ count[tx[c]] \in Nat /\ begun \in Nat /\ tx[c] \in Nat
    BY <1>0 DEF Stamps, OwnStamps, Dated, TypeOK, Tx
  <2> QED
    BY <1>0, <2>1 DEF OwnStamps
<1>4. at[c] # "pages" => u < tx[c]
  BY <1>0, <1>1 DEF OwnStamps
<1>5. /\ file' \in [Page -> Content] /\ \A q \in Page : Dated(file'[q])
      /\ disk' \in [Page -> SUBSET Content] /\ \A q \in Page : \A v \in disk'[q] : Dated(v)
  <2>1. Dated(tx[c]) /\ Dated(Garbage) /\ tx[c] \in Content
    BY <1>0, NothingAssumption DEF OwnStamps, Dated, Content
  <2> QED
    BY <1>0, <1>1, <2>1, PutTypes, PutDated
<1>6. Levels(c)' /\ Journaled(c)'
  BY <1>0, <1>1 DEF Levels, Journaled, Live, Owning, locks
<1>7. /\ at' = [at EXCEPT ![c] = at[c]] /\ cache' = [cache EXCEPT ![c] = cache[c]]
      /\ commits' = [commits EXCEPT ![c] = commits[c]] /\ todo' = [todo EXCEPT ![c] = todo[c]]
      /\ at[c] \in Place /\ commits[c] \in BOOLEAN /\ todo[c] \in SUBSET Page
      /\ \A q \in Page : Dated(cache[c][q])
  BY <1>0, <1>1 DEF TypeOK, Place, OwnStamps
<1> QED
  BY <1>0, <1>1, <1>2, <1>3, <1>4, <1>5, <1>6, <1>7, FileShape

LEMMA SyncedTypes ==
  ASSUME TypeOK, Stamps, disk' = Synced
  PROVE  /\ disk' \in [Page -> SUBSET Content] /\ \A p \in Page : \A v \in disk'[p] : Dated(v)
         /\ \A p \in Page : disk'[p] = {file[p]}
BY DEF TypeOK, Stamps, Synced

LEMMA SyncShape == ASSUME Shape, NEW c \in Conn, SyncStored(c) \/ SyncFile(c) PROVE ShapeStep(c)
<1>0. /\ TypeOK /\ Levels(c) /\ Journaled(c) /\ Stamps /\ OwnStamps(c)
      /\ cache[c] \in [Page -> Content] /\ vers[c] \in 0..MaxTx
      /\ commits[c] \in BOOLEAN /\ todo[c] \in SUBSET Page
  BY DEF Shape, TypeOK
<1>1. /\ at[c] \in {"pages", "sync_file"} /\ at' = [at EXCEPT ![c] = "unlink"]
      /\ disk' = Synced
      /\ UNCHANGED <<locks, cache, vers, tx, commits, todo, file, journal, ghost, count, begun, trouble>>
  BY DEF SyncStored, SyncFile, Go, Quiet
<1>2. lock[c] = L!EXCLUSIVE
  BY <1>0, <1>1 DEF Levels
<1>3. Levels(c)' /\ Journaled(c)' /\ ~Live(c)'
  BY <1>0, <1>1, <1>2 DEF Levels, Journaled, Live, Owning, Reading, TypeOK, locks
<1>4. /\ cache' = [cache EXCEPT ![c] = cache[c]] /\ vers' = [vers EXCEPT ![c] = vers[c]]
      /\ commits' = [commits EXCEPT ![c] = commits[c]] /\ todo' = [todo EXCEPT ![c] = todo[c]]
      /\ "unlink" \in Place /\ vers[c] <= begun
      /\ \A p \in Page : Dated(cache[c][p])
      /\ file' \in [Page -> Content] /\ \A p \in Page : Dated(file'[p])
  BY <1>0, <1>1 DEF TypeOK, Place, OwnStamps, Stamps
<1> QED
  BY <1>0, <1>1, <1>2, <1>3, <1>4, SyncedTypes, FileShape

(* What a rollback leaves of the cache. *)
Undone(c) ==
  [p \in Page |-> IF p \notin journal.orig THEN Absent
                  ELSE IF cache[c][p] # Absent /\ journal.old[p] # Absent THEN journal.old[p] ELSE cache[c][p]]
Reset(c) == IF journal.old[1] # Absent THEN Counter(journal.old[1]) ELSE vers[c]

LEMMA PlayBackParts ==
  ASSUME Shape, NEW c \in Conn, PlayBack(c), journal # None
  PROVE  /\ at' = [at EXCEPT ![c] = IF DbMod THEN "truncate" ELSE "unlink"]
         /\ cache' = [cache EXCEPT ![c] = Undone(c)]
         /\ vers' = [vers EXCEPT ![c] = Reset(c)]
         /\ todo' = [todo EXCEPT ![c] = journal.sure \ {0}]
         /\ commits' = [commits EXCEPT ![c] = FALSE]
         /\ UNCHANGED <<locks, tx, journal, ghost, count, begun>>
         /\ Undone(c) \in [Page -> Content] /\ \A p \in Page : Dated(Undone(c)[p])
         /\ Reset(c) \in 0..MaxTx /\ Reset(c) <= begun
         /\ journal.sure \ {0} \in SUBSET Page
<1>0. TypeOK /\ Stamps /\ OwnStamps(c) /\ journal \in Journal /\ 1 \in Page
  BY PagerAssumption DEF Shape, TypeOK, Page
<1>1. /\ journal.old \in [Page -> Content] /\ cache[c] \in [Page -> Content]
      /\ journal.sure \in SUBSET (0..N) /\ journal.sure \ {0} \in SUBSET Page
      /\ \A p \in Page : Dated(journal.old[p]) /\ Dated(cache[c][p])
      /\ Absent \in Content /\ Dated(Absent)
  BY <1>0, JournalParts, NothingAssumption DEF TypeOK, Stamps, OwnStamps, Content, Dated, Page
<1>2. Undone(c) \in [Page -> Content] /\ \A p \in Page : Dated(Undone(c)[p])
  BY <1>1 DEF Undone
<1>3. Reset(c) \in 0..MaxTx /\ Reset(c) <= begun
  BY <1>0, <1>1, CounterBound DEF Reset, TypeOK, OwnStamps
<1>4. cache' = [cache EXCEPT ![c] = Undone(c)]
  BY <1>0 DEF PlayBack, Undone, TypeOK
<1>5. vers' = [vers EXCEPT ![c] = Reset(c)]
  BY <1>0 DEF PlayBack, Reset, TypeOK
<1> QED
  BY <1>1, <1>2, <1>3, <1>4, <1>5 DEF PlayBack

LEMMA UndoShape == ASSUME Shape, NEW c \in Conn, Rollback(c) \/ CommitFails(c) PROVE ShapeStep(c)
<1>0. /\ TypeOK /\ Levels(c) /\ Journaled(c) /\ Stamps /\ OwnStamps(c) /\ Live(c) /\ c \in writer
      /\ journal # None /\ tx[c] # None
  BY DEF Shape, Rollback, CommitFails, Levels, Journaled, Live, Reading
<1>1. PlayBack(c) /\ (UNCHANGED trouble \/ Trouble)
  BY DEF Rollback, CommitFails
<1>2. /\ file' \in [Page -> Content] /\ \A q \in Page : Dated(file'[q])
      /\ disk' \in [Page -> SUBSET Content] /\ \A q \in Page : \A v \in disk'[q] : Dated(v)
  <2>1. UNCHANGED <<file, disk>> \/ \E p \in Page : Put(p, Garbage)
    BY DEF Rollback, CommitFails, Dirty
  <2>2. Dated(Garbage) /\ Garbage \in Content
    BY NothingAssumption DEF Dated, Content
  <2> QED
    BY <1>0, <2>1, <2>2, PutTypes, PutDated DEF TypeOK, Stamps
<1> DEFINE there == IF DbMod THEN "truncate" ELSE "unlink"
<1>3. there \in Place /\ at'[c] = there /\ UNCHANGED <<locks, tx, journal>>
  BY <1>0, <1>1 DEF Place, PlayBack, TypeOK
<1>4. Levels(c)' /\ Journaled(c)' /\ ~Live(c)'
  BY <1>0, <1>3 DEF Levels, Journaled, Live, Owning, Reading, DbMod, locks
<1> QED
  <2>1. /\ at' = [at EXCEPT ![c] = there] /\ cache' = [cache EXCEPT ![c] = Undone(c)]
        /\ vers' = [vers EXCEPT ![c] = Reset(c)] /\ todo' = [todo EXCEPT ![c] = journal.sure \ {0}]
        /\ commits' = [commits EXCEPT ![c] = FALSE]
        /\ UNCHANGED <<locks, tx, journal, ghost, count, begun>>
        /\ Undone(c) \in [Page -> Content] /\ \A p \in Page : Dated(Undone(c)[p])
        /\ Reset(c) \in 0..MaxTx /\ Reset(c) <= begun
        /\ journal.sure \ {0} \in SUBSET Page /\ FALSE \in BOOLEAN
    BY <1>0, <1>1, PlayBackParts
  <2> HIDE DEF there
  <2> QED
    BY <1>0, <1>1, <1>2, <1>3, <1>4, <2>1, FileShape

LEMMA TruncateShape == ASSUME Shape, NEW c \in Conn, Truncate(c) PROVE ShapeStep(c)
<1>0. /\ TypeOK /\ Levels(c) /\ Journaled(c) /\ Stamps /\ OwnStamps(c) /\ lock[c] = L!EXCLUSIVE
      /\ cache[c] \in [Page -> Content] /\ vers[c] \in 0..MaxTx
      /\ commits[c] \in BOOLEAN /\ todo[c] \in SUBSET Page
  BY DEF Shape, TypeOK, Truncate, Go, Levels
<1>1. /\ at[c] = "truncate" /\ at' = [at EXCEPT ![c] = "replay"]
      /\ file' = [p \in Page |-> IF p \in Beyond THEN Absent ELSE file[p]]
      /\ disk' = [p \in Page |-> IF p \in Beyond THEN disk[p] \cup {Absent} ELSE disk[p]]
      /\ UNCHANGED <<locks, vers, tx, commits, todo, journal, ghost, count, begun, trouble>>
  BY DEF Truncate, Go, Quiet
<1>2. Absent \in Content /\ Dated(Absent) /\ Empty \in [Page -> Content]
  BY NothingAssumption DEF Dated, Content, Empty
<1>3. file' \in [Page -> Content] /\ \A p \in Page : Dated(file'[p])
  BY <1>0, <1>1, <1>2 DEF TypeOK, Stamps
<1>4. disk' \in [Page -> SUBSET Content] /\ \A p \in Page : \A v \in disk'[p] : Dated(v)
  BY <1>0, <1>1, <1>2 DEF TypeOK, Stamps
<1>5. PICK new \in [Page -> Content] : cache' = [cache EXCEPT ![c] = new] /\ \A p \in Page : Dated(new[p])
  <2>1. cache' = [cache EXCEPT ![c] = Empty] \/ cache' = [cache EXCEPT ![c] = cache[c]]
    BY <1>0 DEF Truncate, TypeOK
  <2>2. \A p \in Page : Dated(Empty[p]) /\ Dated(cache[c][p])
    BY <1>0, <1>2 DEF OwnStamps, Empty
  <2> QED
    BY <1>0, <1>2, <2>1, <2>2
<1>6. Levels(c)' /\ Journaled(c)' /\ ~Live(c)'
  BY <1>0, <1>1 DEF Levels, Journaled, Live, Owning, Reading, TypeOK, locks
<1>7. /\ vers' = [vers EXCEPT ![c] = vers[c]] /\ commits' = [commits EXCEPT ![c] = commits[c]]
      /\ todo' = [todo EXCEPT ![c] = todo[c]] /\ "replay" \in Place /\ vers[c] <= begun
  BY <1>0, <1>1 DEF TypeOK, Place, OwnStamps
<1> QED
  BY <1>0, <1>1, <1>3, <1>4, <1>5, <1>6, <1>7, FileShape

LEMMA ReplayShape == ASSUME Shape, NEW c \in Conn, NEW p \in Page, Replay(c, p) PROVE ShapeStep(c)
<1>0. /\ TypeOK /\ Levels(c) /\ Journaled(c) /\ Stamps /\ OwnStamps(c) /\ lock[c] = L!EXCLUSIVE
      /\ cache[c] \in [Page -> Content] /\ vers[c] \in 0..MaxTx
      /\ commits[c] \in BOOLEAN /\ todo[c] \in SUBSET Page /\ journal \in Journal /\ journal # None
  BY DEF Shape, TypeOK, Replay, Levels, Journaled, Owning
<1>1. /\ at[c] = "replay" /\ todo' = [todo EXCEPT ![c] = todo[c] \ {p}]
      /\ Put(p, journal.old[p])
      /\ UNCHANGED <<locks, at, cache, vers, tx, commits, journal, ghost, count, begun, trouble>>
  BY DEF Replay, Quiet
<1>2. journal.old[p] \in Content /\ Dated(journal.old[p])
  BY <1>0, JournalParts DEF Stamps
<1>3. /\ file' \in [Page -> Content] /\ \A q \in Page : Dated(file'[q])
      /\ disk' \in [Page -> SUBSET Content] /\ \A q \in Page : \A v \in disk'[q] : Dated(v)
  BY <1>0, <1>1, <1>2, PutTypes, PutDated
<1>4. Levels(c)' /\ Journaled(c)' /\ ~Live(c)'
  BY <1>0, <1>1 DEF Levels, Journaled, Live, Owning, Reading, locks
<1>5. /\ at' = [at EXCEPT ![c] = "replay"] /\ cache' = [cache EXCEPT ![c] = cache[c]]
      /\ vers' = [vers EXCEPT ![c] = vers[c]] /\ commits' = [commits EXCEPT ![c] = commits[c]]
      /\ "replay" \in Place /\ vers[c] <= begun /\ todo[c] \ {p} \in SUBSET Page
      /\ \A q \in Page : Dated(cache[c][q])
  BY <1>0, <1>1 DEF TypeOK, Place, OwnStamps
<1> QED
  BY <1>0, <1>1, <1>3, <1>4, <1>5, FileShape

LEMMA UnlinkShape == ASSUME Shape, NEW c \in Conn, Unlink(c) PROVE ShapeStep(c)
<1>0. /\ TypeOK /\ Levels(c) /\ Stamps /\ OwnStamps(c) /\ journal # None
      /\ c \in writer \/ lock[c] = L!EXCLUSIVE
  BY DEF Shape, TypeOK, Unlink, Go, Levels, Journaled, Owning
<1>1. /\ at[c] = "unlink" /\ at' = [at EXCEPT ![c] = "downgrade"] /\ journal' = None
      /\ ghost' \in {journal, ghost}
      /\ UNCHANGED <<locks, cache, vers, tx, commits, todo, file, disk, count, begun, trouble>>
  BY DEF Unlink, Go, Quiet
<1>2. TypeOK'
  BY <1>0, <1>1 DEF TypeOK, locks
<1>3. Stamps' /\ OwnStamps(c)' /\ Journaled(c)' /\ Levels(c)'
  BY <1>0, <1>1 DEF Stamps, OwnStamps, Dated, Levels, Journaled, Live, Owning, Reading, TypeOK, locks
<1>4. Elsewhere(c) /\ LockStep(c) /\ begun' >= begun
  BY <1>0, <1>1 DEF Elsewhere, LockStep, TypeOK, Tx
<1> QED
  BY <1>0, <1>2, <1>3, <1>4 DEF ShapeStep

LEMMA DowngradeShape == ASSUME Shape, NEW c \in Conn, Downgrade(c) PROVE ShapeStep(c)
<1>0. TypeOK /\ Levels(c) /\ Stamps /\ OwnStamps(c) /\ L!Exclusion
  BY DEF Shape
<1>1. /\ at[c] = "downgrade" /\ at' = [at EXCEPT ![c] = IF c \in writer THEN "reader" ELSE "validate"]
      /\ L!Downgrade(c) /\ tx' = [tx EXCEPT ![c] = None] /\ commits' = [commits EXCEPT ![c] = FALSE]
      /\ UNCHANGED <<cache, vers, todo, stored, count, begun, trouble>>
  BY DEF Downgrade, Go, Quiet
<1>2. LockStep(c) /\ lock' \in [Conn -> 0..4] /\ writer' \subseteq Conn
  BY <1>0, <1>1, LockStepKeeps DEF LockStep, TypeOK
<1>3. TypeOK'
  BY <1>0, <1>1, <1>2 DEF TypeOK, Reading, stored
<1>4. Stamps' /\ OwnStamps(c)' /\ Journaled(c)' /\ Levels(c)'
  BY <1>0, <1>1, NothingAssumption
  DEF Stamps, OwnStamps, Dated, Levels, Journaled, Live, Owning, Reading, TypeOK, stored, L!Downgrade
<1>5. Elsewhere(c) /\ begun' >= begun /\ UNCHANGED journal
  BY <1>0, <1>1 DEF Elsewhere, TypeOK, Tx, stored
<1> QED
  BY <1>2, <1>3, <1>4, <1>5 DEF ShapeStep

LEMMA ForgetTypes ==
  ASSUME TypeOK, NEW C \in SUBSET Conn, Forget(C)
  PROVE  /\ at' \in [Conn -> Place] /\ cache' \in [Conn -> [Page -> Content]] /\ tx' \in [Conn -> Tx \cup {None}]
         /\ commits' \in [Conn -> BOOLEAN] /\ todo' \in [Conn -> SUBSET Page]
         /\ \A d \in C : at'[d] = "off" /\ cache'[d] = Empty /\ tx'[d] = None /\ ~commits'[d] /\ todo'[d] = {}
         /\ \A d \in Conn \ C : /\ at'[d] = at[d] /\ cache'[d] = cache[d] /\ tx'[d] = tx[d]
                               /\ commits'[d] = commits[d] /\ todo'[d] = todo[d]
<1>1. Empty \in [Page -> Content]
  BY DEF Empty, Content
<1>2. cache' \in [Conn -> [Page -> Content]]
  BY <1>1 DEF Forget, TypeOK
<1>3. at' \in [Conn -> Place] /\ tx' \in [Conn -> Tx \cup {None}]
  BY DEF Forget, TypeOK, Place
<1>4. commits' \in [Conn -> BOOLEAN] /\ todo' \in [Conn -> SUBSET Page]
  BY DEF Forget, TypeOK
<1> QED
  BY <1>2, <1>3, <1>4 DEF Forget, TypeOK

LEMMA GiveUpShape == ASSUME Shape, NEW c \in Conn, GiveUp(c) PROVE ShapeStep(c)
<1>0. TypeOK /\ Levels(c) /\ Journaled(c) /\ Stamps /\ OwnStamps(c) /\ L!Exclusion
  BY DEF Shape
<1>1. /\ Forget({c}) /\ L!Release(c) /\ Trouble
      /\ UNCHANGED <<vers, journal, ghost, count, begun>>
  BY DEF GiveUp
<1>2. /\ file' \in [Page -> Content] /\ \A q \in Page : Dated(file'[q])
      /\ disk' \in [Page -> SUBSET Content] /\ \A q \in Page : \A v \in disk'[q] : Dated(v)
  <2>1. UNCHANGED <<file, disk>> \/ \E p \in Page : Put(p, Garbage)
    BY <1>0 DEF GiveUp, Dirty, TypeOK
  <2>2. Dated(Garbage) /\ Garbage \in Content
    BY NothingAssumption DEF Dated, Content
  <2> QED
    BY <1>0, <2>1, <2>2, PutTypes, PutDated DEF TypeOK, Stamps
<1>3. LockStep(c) /\ lock' \in [Conn -> 0..4] /\ writer' \subseteq Conn
  BY <1>0, <1>1, LockStepKeeps DEF LockStep, TypeOK
<1>4. Elsewhere(c) /\ at'[c] = "off" /\ cache'[c] = Empty /\ tx'[c] = None /\ begun' >= begun
  BY <1>0, <1>1, ForgetTypes DEF Elsewhere, TypeOK, Tx
<1>5. TypeOK'
  <2>1. trouble' \in 0..MaxTrouble
    BY <1>0, <1>1, PagerAssumption DEF TypeOK, Trouble
  <2>2. /\ at' \in [Conn -> Place] /\ cache' \in [Conn -> [Page -> Content]] /\ tx' \in [Conn -> Tx \cup {None}]
        /\ commits' \in [Conn -> BOOLEAN] /\ todo' \in [Conn -> SUBSET Page]
    BY <1>0, <1>1, ForgetTypes
  <2> QED
    BY <1>0, <1>1, <1>2, <1>3, <2>1, <2>2 DEF TypeOK, Place
<1>6. Stamps' /\ OwnStamps(c)'
  BY <1>0, <1>1, <1>2, <1>4, NothingAssumption DEF Stamps, OwnStamps, Dated, Live, Empty
<1>7. Levels(c)' /\ Journaled(c)'
  BY <1>0, <1>1, <1>4 DEF Levels, Journaled, Live, Owning, Reading, TypeOK, L!Release
<1> QED
  BY <1>1, <1>3, <1>4, <1>5, <1>6, <1>7 DEF ShapeStep

(* What is left when the connections of C are gone. *)
LEMMA GoneShape ==
  ASSUME Shape, NEW C \in SUBSET Conn, Forget(C), Trouble,
         vers' = [c \in Conn |-> IF c \in C THEN 0 ELSE vers[c]],
         lock' = [c \in Conn |-> IF c \in C THEN L!NONE ELSE lock[c]], writer' = writer \ C,
         UNCHANGED <<count, begun>>,
         file' \in [Page -> Content], disk' \in [Page -> SUBSET Content],
         {journal', ghost'} \subseteq Journal \cup {None},
         Stamps', C = Conn \/ journal' = journal
  PROVE  Shape'
<1>0. TypeOK /\ L!Exclusion
  BY DEF Shape
<1>1. TypeOK'
  <2>1. trouble' \in 0..MaxTrouble /\ vers' \in [Conn -> 0..MaxTx] /\ lock' \in [Conn -> 0..4]
    BY <1>0, PagerAssumption DEF TypeOK, Trouble
  <2>2. /\ at' \in [Conn -> Place] /\ cache' \in [Conn -> [Page -> Content]] /\ tx' \in [Conn -> Tx \cup {None}]
        /\ commits' \in [Conn -> BOOLEAN] /\ todo' \in [Conn -> SUBSET Page]
    BY <1>0, ForgetTypes
  <2> QED
    BY <1>0, <2>1, <2>2 DEF TypeOK, Place
<1>2. L!Exclusion'
  BY <1>0 DEF L!Exclusion, TypeOK
<1>3. ASSUME NEW d \in C PROVE Levels(d)' /\ Journaled(d)' /\ OwnStamps(d)'
  <2>1. at'[d] = "off" /\ cache'[d] = Empty /\ tx'[d] = None /\ lock'[d] = L!NONE /\ d \notin writer' /\ vers'[d] = 0
    BY <1>0, ForgetTypes
  <2> QED
    BY <1>1, <2>1, NothingAssumption DEF Levels, Journaled, OwnStamps, Live, Owning, Reading, Dated, Empty, TypeOK, Tx
<1>4. ASSUME NEW d \in Conn \ C PROVE Levels(d)' /\ Journaled(d)' /\ OwnStamps(d)'
  <2>1. /\ at'[d] = at[d] /\ cache'[d] = cache[d] /\ tx'[d] = tx[d] /\ lock'[d] = lock[d]
        /\ (d \in writer' <=> d \in writer) /\ vers'[d] = vers[d] /\ journal' = journal /\ begun' = begun
    BY <1>0, ForgetTypes
  <2>2. Levels(d) /\ Journaled(d) /\ OwnStamps(d)
    BY DEF Shape
  <2> QED
    BY <2>1, <2>2 DEF Levels, Journaled, OwnStamps, Live, Owning, Dated
<1> QED
  BY <1>1, <1>2, <1>3, <1>4 DEF Shape

LEMMA CrashShape == ASSUME Shape, NEW p \in Process, Crash(p) PROVE Shape'
<1> DEFINE C == {c \in Conn : ProcOf[c] = p}
<1>1. /\ Forget(C) /\ Trouble /\ vers' = [c \in Conn |-> IF c \in C THEN 0 ELSE vers[c]]
      /\ UNCHANGED <<stored, count, begun>>
  BY DEF Crash
<1>2. lock' = [c \in Conn |-> IF c \in C THEN L!NONE ELSE lock[c]] /\ writer' = writer \ C
  BY DEF Crash, L!Exit, Shape, TypeOK
<1>3. /\ file' \in [Page -> Content] /\ disk' \in [Page -> SUBSET Content]
      /\ {journal', ghost'} \subseteq Journal \cup {None} /\ Stamps' /\ journal' = journal
  BY <1>1 DEF Shape, TypeOK, Stamps, Dated, stored
<1> HIDE DEF C
<1>4. C \in SUBSET Conn
  BY DEF C
<1> QED
  BY <1>1, <1>2, <1>3, <1>4, GoneShape

LEMMA LeftParts ==
  ASSUME NEW j \in Journal, NEW i \in Left(j)
  PROVE  /\ i \in Journal /\ i # None /\ i.orig = j.orig /\ i.hard = {0} \cup Recorded(j) /\ i.named
         /\ i.counted = i.sure /\ i.sure \in {j.sure, j.counted}
         /\ \A p \in Page : i.old[p] = IF p \in j.hard \/ j.old[p] = Absent THEN j.old[p] ELSE Garbage
<1>1. PICK k \in {j.sure, j.counted} :
        i = [orig |-> j.orig,
             old |-> [p \in Page |-> IF p \in j.hard \/ j.old[p] = Absent THEN j.old[p] ELSE Garbage],
             hard |-> {0} \cup Recorded(j), counted |-> k, sure |-> k, named |-> TRUE]
  BY DEF Left
<1>2. /\ j.orig \in SUBSET Page /\ j.old \in [Page -> Content] /\ k \in SUBSET (0..N)
      /\ {0} \cup Recorded(j) \in SUBSET (0..N)
  BY JournalParts
<1>3. [p \in Page |-> IF p \in j.hard \/ j.old[p] = Absent THEN j.old[p] ELSE Garbage] \in [Page -> Content]
  BY <1>2 DEF Content
<1>4. i \in Journal /\ i # None
  BY <1>1, <1>2, <1>3, JournalRecord
<1> QED
  BY <1>1, <1>4

LEMMA LeftJournalsParts ==
  ASSUME TypeOK, NEW i \in LeftJournals, i # None
  PROVE  \E j \in Journal \cap {journal, ghost} : i \in Left(j) /\ j # None
BY DEF LeftJournals, TypeOK

LEMMA PowerLossShape == ASSUME Shape, PowerLoss PROVE Shape'
<1>0. TypeOK /\ Stamps
  BY DEF Shape
<1>1. /\ Forget(Conn) /\ Trouble /\ UNCHANGED <<count, begun>> /\ vers' = [c \in Conn |-> 0]
      /\ journal' \in LeftJournals /\ ghost' = None
      /\ lock' = [c \in Conn |-> L!NONE] /\ writer' = {}
  BY DEF PowerLoss, L!ExitAll
<1>2. PICK f \in [Page -> UNION {disk[p] : p \in Page}] :
        (\A p \in Page : f[p] \in disk[p]) /\ file' = f /\ disk' = [p \in Page |-> {f[p]}]
  BY DEF PowerLoss
<1>3. file' \in [Page -> Content] /\ disk' \in [Page -> SUBSET Content]
  BY <1>0, <1>2 DEF TypeOK
<1>4. /\ \A p \in Page : Dated(file'[p]) /\ \A v \in disk'[p] : Dated(v)
  BY <1>0, <1>2 DEF Stamps
<1>5. ASSUME journal' # None
      PROVE  journal' \in Journal /\ \A p \in Page : Dated(journal'.old[p])
  <2>1. PICK j \in Journal : j \in {journal, ghost} /\ journal' \in Left(j) /\ j # None
    BY <1>0, <1>1, <1>5, LeftJournalsParts
  <2>2. \A p \in Page : Dated(j.old[p]) /\ Dated(Garbage)
    BY <1>0, <2>1, NothingAssumption DEF Stamps, Dated
  <2> QED
    BY <2>1, <2>2, LeftParts
<1>6. Stamps'
  BY <1>0, <1>1, <1>4, <1>5 DEF Stamps, Dated
<1> QED
  <2>1. /\ vers' = [c \in Conn |-> IF c \in Conn THEN 0 ELSE vers[c]]
        /\ lock' = [c \in Conn |-> IF c \in Conn THEN L!NONE ELSE lock[c]]
        /\ writer' = writer \ Conn
        /\ {journal', ghost'} \subseteq Journal \cup {None}
    BY <1>0, <1>1, <1>5 DEF TypeOK
  <2>2. Conn \in SUBSET Conn
    OBVIOUS
  <2> QED
    BY <1>1, <1>3, <1>6, <2>1, <2>2, GoneShape

LEMMA ShapeKept == Shape /\ [Next]_vars => Shape'
<1> SUFFICES ASSUME Shape, [Next]_vars PROVE Shape'
  OBVIOUS
<1>1. ASSUME NEW c \in Conn, Recovery(c) \/ Transaction(c) \/ Ending(c) PROVE Shape'
  <2>1. CASE Recovery(c)
    BY <2>1, RecoveryShape, SyncHotJournalShape, ValidateShape, ShapeStepKeeps DEF Recovery
  <2>2. CASE Transaction(c)
    BY <2>2, ReadingShape, CacheShape, SpillShape, WritePageShape, CommitPhaseOneShape, SyncJournalShape,
       StorePageShape, SyncShape, ShapeStepKeeps DEF Transaction
  <2>3. CASE Ending(c)
    BY <2>3, ReadingShape, UndoShape, TruncateShape, ReplayShape, SyncShape, UnlinkShape, DowngradeShape,
       GiveUpShape, ShapeStepKeeps DEF Ending
  <2> QED
    BY <1>1, <2>1, <2>2, <2>3
<1>2. CASE UNCHANGED vars
  BY <1>2
  DEF vars, locks, own, stored, Shape, TypeOK, L!Exclusion, Stamps, Levels, Journaled, OwnStamps, Live, Owning, Dated
<1> QED
  BY <1>1, <1>2, CrashShape, PowerLossShape DEF Next

LEMMA InitShape == Init => Shape
<1> SUFFICES ASSUME Init PROVE Shape
  OBVIOUS
<1>1. Empty \in [Page -> Content] /\ file \in [Page -> Content] /\ \A p \in Page : file[p] \in {0, Absent}
  BY PagerAssumption DEF Init, Empty, Content, Tx
<1>2. TypeOK
  BY <1>1, PagerAssumption DEF Init, TypeOK, Synced, L!Init, Tx
<1>3. Stamps
  BY <1>1, <1>2, NothingAssumption DEF Init, Stamps, Synced, Dated, Tx
<1>4. \A c \in Conn : Levels(c) /\ Journaled(c) /\ OwnStamps(c)
  BY <1>1, <1>2, NothingAssumption
  DEF Init, Levels, Journaled, OwnStamps, Live, Owning, Reading, Dated, Empty, L!Init, Tx
<1>5. L!Exclusion
  BY DEF Init, L!Init, L!Exclusion
<1> QED
  BY <1>2, <1>3, <1>4, <1>5 DEF Shape

(* Every variable of the pager stays in its type, whoever shares a process *)
(* with whom: no transaction is without its journal, and the change        *)
(* counter of a transaction never gets ahead of the transactions.          *)
THEOREM PagerTypes == Spec => []TypeOK
<1>1. Shape => TypeOK
  BY DEF Shape
<1> QED
  BY <1>1, InitShape, ShapeKept, PTL DEF Spec

=============================================================================
