-------------------------- MODULE PagerStore_proofs --------------------------
(***************************************************************************)
(* The pager implements AtomicStore, for any number of pages, transactions,*)
(* crashes and power losses, and any connections of any processes, as long *)
(* as no connection that waits to play a journal back is taken for a live  *)
(* writer by another one of its process (Unhindered).  When it is, a hot   *)
(* journal is read past: the instance of Pager with ProcOf Together.       *)
(*                                                                         *)
(* The argument: a page may differ from what is committed only when the    *)
(* journal has what is committed of it, on disk and counted (Kept); so     *)
(* whatever happens to such a page the committed state stays the same,     *)
(* until the deletion of the journal makes the file the committed state.   *)
(***************************************************************************)
EXTENDS Pager_proofs

USE DEF L!NONE, L!SHARED, L!RESERVED, L!PENDING, L!EXCLUSIVE

-----------------------------------------------------------------------------
(* The inductive invariant. *)

(* Nobody asks whether there is a writer while another connection of the   *)
(* same process is left with PENDING, for want of EXCLUSIVE, on its way to *)
(* play a journal back.  The lock table cannot tell the two apart.         *)
Unhindered ==
  \A c, d \in Conn :
    at[c] = "reserved" /\ d \in L!Neighbours(c) => ~(at[d] = "hot" /\ lock[d] = L!PENDING)

(* No two connections share a process. *)
OneEach == \A c, d \in Conn : ProcOf[c] = ProcOf[d] => c = d

(* A journal: what is known to be on disk was written, what was counted    *)
(* had been synced before, and what it counts is content of a page.        *)
Sound(j) ==
  /\ j.sure \subseteq j.counted /\ j.counted \subseteq j.hard /\ j.hard \subseteq {0} \cup Recorded(j)
  /\ j.counted # {} => 0 \in j.counted /\ j.named
  /\ j.sure # {} => 0 \in j.sure
  /\ Recorded(j) \subseteq j.orig /\ 1 \in j.orig
  /\ \A p \in j.counted \ {0} : j.old[p] \in Tx

(* The journal and the deleted one that may come back.  Where a power loss *)
(* could bring back less of that than was counted, it makes no difference. *)
Journals ==
  /\ journal # None => Sound(journal)
  /\ ghost # None =>
       Sound(ghost) /\ ghost.named /\ \A p \in Page : p \in ghost.counted \ ghost.sure => ghost.old[p] = Committed[p]
  /\ journal # None /\ journal.named => ghost = None

(* The journal brings p back even after a power loss. *)
Kept(p) == journal # None /\ 0 \in journal.sure /\ (p \in journal.orig => p \in journal.sure)

(* What is not kept is in the file, and on disk, as it is committed.       *)
Pages ==
  /\ \A p \in Page : Committed[p] \in Tx \cup {Absent}
  /\ Committed[1] \in Tx
  /\ \A p \in Page : ~Kept(p) => file[p] = Committed[p] /\ disk[p] = {Committed[p]}

(* The cache is of what is committed. *)
Fresh(c) == \A p \in Page : cache[c][p] \in {Absent, Committed[p]}
Version == Counter(Committed[1])

(* Whoever gets to read has seen to a hot journal. *)
Cool(c) ==
  at[c] \in {"validate", "reader", "downgrade"} \/ (c \in writer /\ (lock[c] # L!EXCLUSIVE \/ tx[c] = None)) =>
    ~Hot(journal)

(* A page of a transaction that is open: its content before is in the      *)
(* journal before the page changes, in the cache before it is in the file. *)
ChangingPage(c, p) ==
  /\ p \in journal.orig <=> Committed[p] # Absent
  /\ journal.old[p] \in {Absent, Committed[p]}
  /\ file[p] \in {Committed[p], tx[c]}
  /\ cache[c][p] \in {Absent, Committed[p], tx[c]}
  /\ cache[c][p] = tx[c] => p \notin journal.orig \/ journal.old[p] # Absent
  /\ file[p] = tx[c] => cache[c][p] \in {Absent, tx[c]}
  /\ Committed[p] \in Tx => Committed[p] < tx[c]

(* A transaction that is open, and how far syncJournal has got with it.    *)
Changing(c) == Live(c) =>
  /\ \A p \in Page : ChangingPage(c, p)
  /\ at[c] # "pages" => file[1] = Committed[1]
  /\ vers[c] = IF file[1] = tx[c] THEN count[tx[c]] ELSE Version
  /\ commits[c] => cache[c][1] = tx[c] /\ count[tx[c]] = Version + 1
  /\ cache[c][1] # Absent
  /\ at[c] = "header" => journal.hard = {0} \cup Recorded(journal) /\ journal.named
  /\ at[c] = "sync_header" => journal.counted = {0} \cup Recorded(journal)
  /\ at[c] = "pages" => commits[c] /\ journal.sure = {0} \cup Recorded(journal)

(* A connection with its lock but without changes. *)
Holding(c) ==
  (at[c] = "reader" \/ c \in writer) /\ ~Live(c) /\ ~(at[c] = "unlink" /\ commits[c]) =>
    Fresh(c) /\ vers[c] = Version /\ cache[c][1] # Absent

(* A transaction whose pages are all on disk: the journal is left to go.   *)
Committing(c) ==
  /\ commits[c] => tx[c] # None
  /\ at[c] = "unlink" /\ commits[c] =>
       /\ lock[c] = L!EXCLUSIVE
       /\ \A p \in Page : /\ cache[c][p] \in {Absent, file[p]} /\ disk[p] = {file[p]}
                          /\ file[p] \in {Committed[p], tx[c]}
       /\ file[1] = tx[c] /\ vers[c] = count[tx[c]] /\ vers[c] = Version + 1
       /\ journal.sure = journal.counted /\ 0 \in journal.sure /\ cache[c][1] # Absent

(* Playing back: what is not left to do is done. *)
Undoing(c) ==
  /\ at[c] \in {"truncate", "replay"} => 0 \in journal.sure /\ todo[c] \subseteq journal.sure
  /\ at[c] = "truncate" => todo[c] = journal.sure \ {0}
  /\ at[c] = "replay" => \A p \in Page : p \notin todo[c] => file[p] = Committed[p]
  /\ at[c] = "sync_file" => \A p \in Page : file[p] = Committed[p]
  /\ at[c] = "unlink" /\ ~commits[c] => \A p \in Page : file[p] = Committed[p] /\ disk[p] = {Committed[p]}
  /\ at[c] \in {"truncate", "replay", "sync_file"} => ~commits[c]

(* What a connection kept from before: it is of an earlier version, or     *)
(* fresh.                                                                  *)
Stale(c) == c \notin writer =>
  \/ cache[c] = Empty
  \/ vers[c] <= Version /\ (vers[c] = Version => Fresh(c))

(* All that concerns one connection. *)
Mine(c) == Cool(c) /\ Changing(c) /\ Holding(c) /\ Committing(c) /\ Undoing(c) /\ Stale(c)

Safe == Shape /\ Journals /\ Pages /\ \A c \in Conn : Mine(c)

-----------------------------------------------------------------------------
(* What is committed. *)
LEMMA CommittedPage ==
  ASSUME NEW p \in Page
  PROVE  Committed[p] = IF Hot(journal) /\ p \notin journal.orig THEN Absent
                        ELSE IF Hot(journal) /\ p \in journal.counted THEN journal.old[p] ELSE file[p]
BY DEF Committed, Restored

LEMMA MendedType ==
  ASSUME NEW j \in Journal \cup {None}, NEW f \in [Page -> Content]
  PROVE  (IF Hot(j) THEN Restored(j, f) ELSE f) \in [Page -> Content]
<1>1. CASE Hot(j)
  <2>1. j \in Journal /\ j.old \in [Page -> Content]
    BY <1>1, JournalParts DEF Hot
  <2>2. \A p \in Page : (IF p \notin j.orig THEN Absent ELSE IF p \in j.counted THEN j.old[p] ELSE f[p]) \in Content
    BY <2>1 DEF Content
  <2> QED
    BY <1>1, <2>2 DEF Restored
<1> QED
  BY <1>1

LEMMA CommittedType == TypeOK => Committed \in [Page -> Content]
BY MendedType DEF Committed, TypeOK

LEMMA SameCommitted ==
  ASSUME TypeOK, TypeOK', \A p \in Page : Committed'[p] = Committed[p]
  PROVE  Committed' = Committed
<1>1. Committed \in [Page -> Content] /\ Committed' \in [Page -> Content]
  BY MendedType DEF Committed, TypeOK
<1> QED
  BY <1>1

(* The others see nothing of a step that leaves files and counters alone.  *)
LEMMA QuietStepKeeps ==
  ASSUME Safe, NEW c \in Conn, ShapeStep(c), UNCHANGED <<stored, count>>, Mine(c)'
  PROVE  Safe' /\ Committed' = Committed
<1>1. Shape' /\ Shape
  BY ShapeStepKeeps DEF Safe
<1>2. \A d \in Conn : d # c => lock'[d] = lock[d] /\ (d \in writer' <=> d \in writer)
  BY <1>1, LockStepKeeps DEF ShapeStep, Shape, TypeOK
<1>3. Committed' = Committed /\ Version' = Version
  BY DEF Committed, Version, Counter, stored
<1>4. Journals' /\ Pages'
  BY <1>3 DEF Safe, Journals, Pages, Kept, stored
<1>5. ASSUME NEW d \in Conn, d # c PROVE Mine(d)'
  <2>1. /\ at'[d] = at[d] /\ cache'[d] = cache[d] /\ vers'[d] = vers[d] /\ tx'[d] = tx[d]
        /\ commits'[d] = commits[d] /\ todo'[d] = todo[d]
        /\ lock'[d] = lock[d] /\ (d \in writer' <=> d \in writer) /\ (Live(d)' <=> Live(d))
    BY <1>2, <1>5 DEF ShapeStep, Elsewhere, Live
  <2>2. Mine(d)
    BY DEF Safe
  <2>3. Cool(d)' /\ Holding(d)' /\ Stale(d)'
    BY <1>3, <2>1, <2>2 DEF Mine, Cool, Holding, Stale, Fresh, stored
  <2>4. Changing(d)'
    BY <1>3, <2>1, <2>2 DEF Mine, Changing, ChangingPage, stored
  <2>5. Committing(d)' /\ Undoing(d)'
    BY <1>3, <2>1, <2>2 DEF Mine, Committing, Undoing, stored
  <2> QED
    BY <2>3, <2>4, <2>5 DEF Mine
<1> QED
  BY <1>1, <1>3, <1>4, <1>5 DEF Safe

(* Nor of what the one does who may write, as long as it does not commit.  *)
LEMMA AloneStepKeeps ==
  ASSUME Safe, NEW c \in Conn, ShapeStep(c), c \in writer \/ lock[c] = L!EXCLUSIVE,
         Committed' = Committed, Version' = Version, Hot(journal') => Hot(journal) \/ lock[c] = L!EXCLUSIVE,
         Journals', Pages', Mine(c)'
  PROVE  Safe' /\ Committed' = Committed
<1>1. Shape' /\ Shape
  BY ShapeStepKeeps DEF Safe
<1>2. \A d \in Conn : d # c => lock'[d] = lock[d] /\ (d \in writer' <=> d \in writer)
  BY <1>1, LockStepKeeps DEF ShapeStep, Shape, TypeOK
<1>3. ASSUME NEW d \in Conn, d # c PROVE Mine(d)'
  <2>1. /\ at'[d] = at[d] /\ cache'[d] = cache[d] /\ vers'[d] = vers[d] /\ tx'[d] = tx[d]
        /\ commits'[d] = commits[d] /\ todo'[d] = todo[d]
        /\ lock'[d] = lock[d] /\ (d \in writer' <=> d \in writer) /\ (Live(d)' <=> Live(d))
    BY <1>2, <1>3 DEF ShapeStep, Elsewhere, Live
  <2>2. Mine(d) /\ Levels(d)
    BY <1>1 DEF Safe, Shape
  <2>3. /\ d \notin writer /\ ~Live(d) /\ ~Owning(d) /\ lock[d] # L!EXCLUSIVE
        /\ lock[c] = L!EXCLUSIVE => lock[d] = L!NONE
    BY <1>1, <1>3, Alone DEF Shape, L!Exclusion
  <2>4. Cool(d)'
    BY <2>1, <2>2, <2>3 DEF Mine, Cool, Levels
  <2>5. Holding(d)' /\ Stale(d)'
    BY <2>1, <2>2, <2>3 DEF Mine, Holding, Stale, Fresh
  <2>6. Changing(d)' /\ Committing(d)' /\ Undoing(d)'
    BY <2>1, <2>2, <2>3 DEF Mine, Changing, Committing, Undoing, Owning
  <2> QED
    BY <2>4, <2>5, <2>6 DEF Mine
<1> QED
  BY <1>1, <1>3 DEF Safe

LEMMA UnchangedCommitted ==
  ASSUME UNCHANGED <<stored, count>>
  PROVE  Committed' = Committed /\ Version' = Version /\ UNCHANGED <<file, disk, journal, ghost>>
BY DEF Committed, Version, Counter, stored

(* On the way to read, or off, a connection has nothing but its old cache. *)
LEMMA WaitingMine ==
  ASSUME Safe, NEW c \in Conn, Moves(c, at'[c]), c \notin writer, c \notin writer',
         at'[c] \in {"off", "exists", "reserved", "first", "hot", "open", "resync", "validate"},
         at'[c] = "validate" => ~Hot(journal)
  PROVE  Mine(c)'
<1>1. Committed' = Committed /\ Version' = Version /\ UNCHANGED <<file, disk, journal, ghost>>
  BY UnchangedCommitted DEF Moves
<1>2. /\ cache' = cache /\ vers' = vers /\ tx' = tx /\ commits' = commits /\ ~Live(c)'
      /\ Stale(c) /\ (commits[c] => tx[c] # None)
  BY DEF Moves, Live, Reading, Safe, Mine, Committing
<1>3. Cool(c)' /\ Changing(c)' /\ Holding(c)'
  BY <1>1, <1>2 DEF Cool, Changing, Holding
<1>4. Stale(c)'
  BY <1>1, <1>2 DEF Stale, Fresh
<1>5. Committing(c)' /\ Undoing(c)'
  BY <1>1, <1>2 DEF Committing, Undoing
<1> QED
  BY <1>3, <1>4, <1>5 DEF Mine

(* To read: nobody gets past a hot journal.                                *)
LEMMA RecoverySafe ==
  ASSUME Safe, Unhindered, NEW c \in Conn,
         \/ ReadLock(c) \/ JournalExists(c) \/ CheckReserved(c) \/ FirstByte(c) \/ HotLock(c) \/ OpenFails(c)
         \/ OpenHotJournal(c) \/ EndRead(c)
  PROVE  Safe'
<1>0. Shape /\ TypeOK /\ Levels(c) /\ Mine(c) /\ L!Exclusion
  BY DEF Safe, Shape
<1>1. ShapeStep(c) /\ UNCHANGED <<stored, count>>
  BY <1>0, RecoveryShape, ReadingShape
  DEF ReadLock, JournalExists, CheckReserved, FirstByte, HotLock, OpenFails, OpenHotJournal, EndRead, Quiet
<1>2. Moves(c, at'[c])
  BY <1>0
  DEF ReadLock, JournalExists, CheckReserved, FirstByte, HotLock, OpenFails, OpenHotJournal, EndRead, Quiet, Go,
      Moves, LockStep, TypeOK
<1>3. c \notin writer /\ at'[c] \in {"off", "exists", "reserved", "first", "hot", "open", "resync", "validate"}
  BY <1>0
  DEF ReadLock, JournalExists, CheckReserved, FirstByte, HotLock, OpenFails, OpenHotJournal, EndRead, Go, Levels,
      TypeOK
<1>4. c \notin writer'
  BY <1>3
  DEF ReadLock, JournalExists, CheckReserved, FirstByte, HotLock, OpenFails, OpenHotJournal, EndRead, locks,
      L!TakeShared, L!TakePending, L!TakeExclusive, L!Release, L!Downgrade
<1>5. ASSUME at'[c] = "validate" PROVE ~Hot(journal)
  <2>1. CASE CheckReserved(c)
    <3>1. at[c] = "reserved" /\ lock[c] = L!SHARED /\ L!Reserved(c)
      BY <1>0, <1>5, <2>1 DEF CheckReserved, Go, Levels, TypeOK
    <3>2. PICK d \in Conn : d \in writer
      <4>1. CASE writer # {}
        BY <1>0, <4>1 DEF TypeOK
      <4>2. CASE writer = {}
        <5>1. PICK d \in L!Neighbours(c) : lock[d] > L!SHARED
          BY <3>1, <4>2 DEF L!Reserved
        <5>2. d \in Conn /\ d # c /\ Levels(d)
          BY <1>0, <5>1 DEF L!Neighbours, Shape
        <5>3. at[d] \in Place /\ lock[d] \in 0..4
          BY <1>0, <5>2 DEF TypeOK, Place
        <5>4. lock[d] # L!EXCLUSIVE
          BY <1>0, <3>1, <5>2 DEF L!Exclusion
        <5>5. lock[d] # L!RESERVED
          BY <1>0, <4>2, <5>2 DEF L!Exclusion
        <5>6. at[d] = "hot" /\ lock[d] = L!PENDING
          BY <4>2, <5>1, <5>2, <5>3, <5>4, <5>5 DEF Levels, Place, Reading
        <5> QED
          BY <3>1, <5>1, <5>2, <5>6 DEF Unhindered
      <4> QED
        BY <4>1, <4>2
    <3>3. c # d /\ lock[d] # L!EXCLUSIVE
      BY <1>0, <1>3, <3>1, <3>2 DEF L!Exclusion
    <3> QED
      BY <3>2, <3>3 DEF Safe, Mine, Cool
  <2>2. CASE JournalExists(c) \/ FirstByte(c) \/ OpenHotJournal(c)
    BY <1>0, <1>5, <2>2 DEF JournalExists, FirstByte, OpenHotJournal, Go, TypeOK, Hot
  <2>3. ~ReadLock(c) /\ ~HotLock(c) /\ ~OpenFails(c) /\ ~EndRead(c)
    BY <1>0, <1>5 DEF ReadLock, HotLock, OpenFails, EndRead, Go, TypeOK
  <2> QED
    BY <2>1, <2>2, <2>3
<1> QED
  BY <1>1, <1>2, <1>3, <1>4, <1>5, WaitingMine, QuietStepKeeps

LEMMA ValidateSafe == ASSUME Safe, NEW c \in Conn, Validate(c) PROVE Safe'
<1> DEFINE kept == IF vers[c] = Counter(file[1]) THEN cache[c] ELSE Empty
           next == IF kept[1] # Absent THEN kept ELSE [kept EXCEPT ![1] = file[1]]
<1>0. /\ Shape /\ TypeOK /\ Levels(c) /\ Mine(c) /\ Pages /\ 1 \in Page
      /\ at[c] = "validate" /\ c \notin writer /\ tx[c] = None /\ ~Hot(journal) /\ Committed = file
  BY PagerAssumption DEF Safe, Shape, Validate, Go, Levels, Mine, Cool, Committed, Page
<1>1. /\ at' = [at EXCEPT ![c] = "reader"] /\ vers' = [vers EXCEPT ![c] = Version]
      /\ cache' = [cache EXCEPT ![c] = next]
      /\ UNCHANGED <<locks, tx, commits, todo, stored, count>>
  BY <1>0 DEF Validate, Go, Quiet, Version
<1>2. ShapeStep(c)
  BY <1>0, ValidateShape
<1>3. next \in [Page -> Content] /\ next[1] # Absent /\ \A p \in Page : next[p] \in {Absent, Committed[p]}
  <2>1. kept \in [Page -> Content] /\ \A p \in Page : kept[p] \in {Absent, Committed[p]}
    BY <1>0 DEF TypeOK, Empty, Content, Mine, Stale, Fresh, Version
  <2>2. file[1] # Absent
    BY <1>0, NothingAssumption DEF Pages
  <2> HIDE DEF kept
  <2> QED
    BY <1>0, <2>1, <2>2 DEF TypeOK
<1>4. Committed' = Committed /\ Version' = Version /\ UNCHANGED <<file, disk, journal, ghost>>
  BY <1>1, UnchangedCommitted
<1> HIDE DEF kept, next
<1>5. /\ at'[c] = "reader" /\ vers'[c] = Version /\ cache'[c] = next /\ tx'[c] = None /\ commits'[c] = commits[c]
      /\ c \notin writer'
  BY <1>0, <1>1 DEF TypeOK, locks
<1>6. Mine(c)'
  <2>1. Cool(c)' /\ Changing(c)' /\ Undoing(c)'
    BY <1>0, <1>4, <1>5 DEF Cool, Changing, Live, Undoing
  <2>2. Committing(c)'
    BY <1>0, <1>5 DEF Mine, Committing
  <2>3. Fresh(c)'
    BY <1>3, <1>4, <1>5 DEF Fresh
  <2>4. Holding(c)' /\ Stale(c)'
    BY <1>2, <1>3, <1>4, <1>5, <2>3 DEF Holding, Stale, ShapeStep, TypeOK
  <2> QED
    BY <2>1, <2>2, <2>4 DEF Mine
<1> QED
  BY <1>1, <1>2, <1>6, QuietStepKeeps

(* The content of an open transaction is new: it is in the file only where *)
(* the journal keeps the old one.                                          *)
LEMMA NewContent ==
  ASSUME Safe, NEW c \in Conn, Live(c), NEW p \in Page
  PROVE  /\ tx[c] \in Tx /\ Committed[p] # tx[c] /\ tx[c] # Absent /\ tx[c] # Garbage
         /\ file[p] = tx[c] => Kept(p)
<1>1. tx[c] \in Tx /\ Committed[p] \in Tx \cup {Absent} /\ ChangingPage(c, p)
  BY DEF Safe, Shape, TypeOK, Live, Pages, Mine, Changing
<1>2. Committed[p] # tx[c] /\ tx[c] # Absent /\ tx[c] # Garbage
  BY <1>1, PagerAssumption, NothingAssumption DEF ChangingPage, Tx
<1> QED
  BY <1>1, <1>2 DEF Safe, Pages

LEMMA KeptRecorded ==
  ASSUME Safe, NEW p \in Page, Kept(p), p \in journal.orig
  PROVE  p \in journal.counted /\ journal.old[p] # Absent /\ Hot(journal)
<1>1. Sound(journal) /\ p \in journal.sure /\ 0 \in journal.sure /\ journal # None
  BY DEF Kept, Safe, Journals
<1>2. p # 0
  BY DEF Page
<1> QED
  BY <1>1, <1>2 DEF Sound, Recorded, Hot

LEMMA CacheSafe ==
  ASSUME Safe, NEW c \in Conn, NEW p \in Page, ReadPage(c, p) \/ Evict(c, p)
  PROVE  Safe'
<1>0. /\ Shape /\ TypeOK /\ Levels(c) /\ Mine(c) /\ Pages /\ at[c] \in {"reader", "writer"}
      /\ UNCHANGED <<locks, at, vers, tx, commits, todo, stored, count>>
  BY DEF Safe, Shape, ReadPage, Evict, Quiet
<1>1. ShapeStep(c)
  BY <1>0, CacheShape
<1>2. Committed' = Committed /\ Version' = Version /\ UNCHANGED <<file, disk, journal, ghost>>
  BY <1>0, UnchangedCommitted
<1> DEFINE v == cache'[c][p]
<1>3. cache' = [cache EXCEPT ![c][p] = file[p]] \/ cache' = [cache EXCEPT ![c][p] = Absent]
  BY DEF ReadPage, Evict
<1>4. /\ v \in {Absent, file[p]}
      /\ \A q \in Page : cache'[c][q] = IF q = p THEN v ELSE cache[c][q]
  BY <1>0, <1>3 DEF TypeOK, Page
<1> HIDE DEF v
<1>5. (Live(c)' <=> Live(c)) /\ cache'[c][1] = cache[c][1] /\ cache[c][1] # Absent
  <2>1. cache[c][1] # Absent
    BY <1>0 DEF Mine, Changing, Holding, Levels, Reading
  <2>2. 1 \in Page /\ 1 # p
    BY <2>1, PagerAssumption DEF ReadPage, Evict, Page
  <2> QED
    BY <1>0, <1>4, <2>1, <2>2 DEF Live
<1>6. Changing(c)'
  <2> SUFFICES ASSUME Live(c) PROVE Changing(c)'
    BY <1>5 DEF Changing
  <2>1. ASSUME NEW q \in Page PROVE ChangingPage(c, q)'
    <3>1. ChangingPage(c, q)
      BY <1>0 DEF Mine, Changing
    <3>2. CASE q # p
      BY <1>0, <1>2, <1>4, <3>1, <3>2 DEF ChangingPage
    <3>3. CASE q = p
      <4>1. v = tx[c] => q \notin journal.orig \/ journal.old[q] # Absent
        BY <1>4, <3>3, NewContent, KeptRecorded
      <4> QED
        BY <1>0, <1>2, <1>4, <3>1, <3>3, <4>1, NewContent DEF ChangingPage
    <3> QED
      BY <3>2, <3>3
  <2> QED
    BY <1>0, <1>2, <1>5, <2>1 DEF Mine, Changing
<1>7. Fresh(c) /\ ~Live(c) => Fresh(c)'
  <2>1. ~Live(c) => Committed = file
    BY <1>0 DEF Mine, Cool, Committed, Live, Levels, Reading
  <2> QED
    BY <1>2, <1>4, <2>1 DEF Fresh
<1>8. Holding(c)'
  BY <1>0, <1>2, <1>5, <1>7 DEF Mine, Holding, locks
<1>9. Stale(c)'
  <2>1. c \notin writer => Fresh(c) /\ vers[c] = Version /\ ~Live(c)
    BY <1>0 DEF Mine, Holding, Levels, Live, Reading
  <2> QED
    BY <1>0, <1>1, <1>2, <1>7, <2>1 DEF Stale, ShapeStep, TypeOK, locks
<1>10. Cool(c)' /\ Committing(c)' /\ Undoing(c)'
  BY <1>0, <1>2 DEF Mine, Cool, Committing, Undoing, locks
<1> QED
  BY <1>0, <1>1, <1>6, <1>8, <1>9, <1>10, QuietStepKeeps DEF Mine

LEMMA BeginSafe == ASSUME Safe, NEW c \in Conn, Begin(c) PROVE Safe'
<1>0. /\ Shape /\ TypeOK /\ Levels(c) /\ Mine(c) /\ at[c] = "reader" /\ c \notin writer /\ tx[c] = None
      /\ at'[c] = "writer" /\ UNCHANGED <<cache, vers, tx, commits, todo, stored, count>>
  BY DEF Safe, Shape, Begin, Go, Quiet, Levels, TypeOK
<1>1. ShapeStep(c)
  BY <1>0, ReadingShape
<1>2. Committed' = Committed /\ Version' = Version /\ UNCHANGED <<file, disk, journal, ghost>>
  BY <1>0, UnchangedCommitted
<1>3. c \in writer'
  BY DEF Begin, L!TakeReserved
<1> QED
  BY <1>0, <1>1, <1>2, <1>3, QuietStepKeeps
  DEF Mine, Cool, Changing, Holding, Committing, Undoing, Stale, Fresh, Live

LEMMA SpillSafe == ASSUME Safe, NEW c \in Conn, Spill(c) PROVE Safe'
<1>0. /\ Shape /\ TypeOK /\ Levels(c) /\ Mine(c) /\ at[c] = "writer" /\ c \in writer /\ tx[c] # None
      /\ at'[c] \in {"sync", "lock"} /\ commits'[c] = FALSE
      /\ UNCHANGED <<locks, cache, vers, tx, todo, stored, count>>
  BY DEF Safe, Shape, Spill, Go, Quiet, Levels, TypeOK, Dirty, Reading
<1>1. ShapeStep(c)
  BY <1>0, SpillShape
<1>2. Committed' = Committed /\ Version' = Version /\ UNCHANGED <<file, disk, journal, ghost>>
  BY <1>0, UnchangedCommitted
<1>3. Live(c) /\ Live(c)'
  BY <1>0 DEF Live, Reading
<1>4. Changing(c)'
  BY <1>0, <1>2, <1>3 DEF Mine, Changing, ChangingPage
<1> QED
  BY <1>0, <1>1, <1>2, <1>3, <1>4, QuietStepKeeps DEF Mine, Cool, Holding, Committing, Undoing, Stale, locks

LEMMA WriteLockSafe == ASSUME Safe, NEW c \in Conn, WriteLock(c) \/ WriteBusy(c) PROVE Safe'
<1>0. /\ Shape /\ TypeOK /\ Levels(c) /\ Mine(c) /\ at[c] = "lock" /\ c \in writer /\ tx[c] # None
      /\ lock[c] # L!EXCLUSIVE
      /\ at'[c] \in {"sync", "lock", "writer"} /\ UNCHANGED <<cache, vers, tx, commits, todo, stored, count>>
      /\ c \in writer'
  BY DEF Safe, Shape, WriteLock, WriteBusy, Go, Quiet, Levels, TypeOK, Reading, locks, L!TakePending, L!TakeExclusive
<1>1. ShapeStep(c)
  BY <1>0, ReadingShape
<1>2. Committed' = Committed /\ Version' = Version /\ UNCHANGED <<file, disk, journal, ghost>>
  BY <1>0, UnchangedCommitted
<1>3. Live(c) /\ Live(c)'
  BY <1>0 DEF Live, Reading
<1>4. Changing(c)'
  BY <1>0, <1>2, <1>3 DEF Mine, Changing, ChangingPage
<1> QED
  BY <1>0, <1>1, <1>2, <1>3, <1>4, QuietStepKeeps DEF Mine, Cool, Holding, Committing, Undoing, Stale

LEMMA EndUnchangedSafe == ASSUME Safe, NEW c \in Conn, EndUnchanged(c) PROVE Safe'
<1>0. /\ Shape /\ TypeOK /\ Levels(c) /\ Mine(c) /\ at[c] = "writer" /\ c \in writer /\ tx[c] = None
      /\ at'[c] = "downgrade" /\ UNCHANGED <<locks, cache, vers, tx, commits, todo, stored, count>>
  BY DEF Safe, Shape, EndUnchanged, Go, Quiet, Levels, TypeOK, Reading
<1>1. ShapeStep(c)
  BY <1>0, ReadingShape
<1>2. Committed' = Committed /\ Version' = Version /\ UNCHANGED <<file, disk, journal, ghost>>
  BY <1>0, UnchangedCommitted
<1> QED
  BY <1>0, <1>1, <1>2, QuietStepKeeps
  DEF Mine, Cool, Changing, Holding, Committing, Undoing, Stale, Fresh, Live, locks

(* Playing back its own journal gives the cache back what is committed. *)
LEMMA PlayBackCache ==
  ASSUME Safe, NEW c \in Conn, Live(c), NEW new, new = Undone(c), NEW u, u = Reset(c),
         vers[c] = Version \/ journal.old[1] # Absent
  PROVE  /\ \A p \in Page : new[p] \in {Absent, Committed[p]}
         /\ u = Version /\ new[1] # Absent
<1>0. /\ Mine(c) /\ Changing(c) /\ journal # None /\ Sound(journal) /\ 1 \in Page /\ Pages
      /\ \A p \in Page : ChangingPage(c, p)
  BY PagerAssumption DEF Safe, Shape, Journaled, Journals, Mine, Changing, Page
<1>1. ASSUME NEW p \in Page PROVE new[p] \in {Absent, Committed[p]}
  <2>1. ChangingPage(c, p)
    BY <1>0
  <2> QED
    BY <2>1 DEF ChangingPage, Undone
<1>2. u = Version
  BY <1>0 DEF Reset, ChangingPage, Version
<1>3. new[1] # Absent
  BY <1>0 DEF Undone, Sound, Changing
<1> QED
  BY <1>1, <1>2, <1>3

(* Where a rollback is right after pager_playback has seen to the cache.   *)
LEMMA PlayedBackMine ==
  ASSUME Safe, NEW c \in Conn, Live(c), PlayBack(c), ShapeStep(c), Committed' = Committed, Version' = Version,
         vers[c] = Version \/ journal.old[1] # Absent,
         ~DbMod => UNCHANGED <<file, disk>>
  PROVE  Mine(c)'
<1>0. /\ Shape /\ TypeOK /\ Mine(c) /\ Journaled(c) /\ Levels(c) /\ Sound(journal) /\ journal # None
      /\ tx[c] # None /\ c \in writer /\ Pages
  BY DEF Safe, Shape, Journaled, Journals, Live, Levels
<1>1. /\ at'[c] = IF DbMod THEN "truncate" ELSE "unlink"
      /\ cache'[c] = Undone(c) /\ vers'[c] = Reset(c) /\ todo'[c] = journal.sure \ {0} /\ ~commits'[c]
      /\ UNCHANGED <<locks, tx, journal, ghost, count, begun>>
  BY <1>0, PlayBackParts DEF TypeOK
<1>2. /\ \A p \in Page : cache'[c][p] \in {Absent, Committed[p]}
      /\ vers'[c] = Version /\ cache'[c][1] # Absent
  BY <1>1, PlayBackCache
<1>3. ~Live(c)' /\ c \in writer' /\ lock'[c] = lock[c]
  BY <1>0, <1>1 DEF Live, Reading, locks
<1>4. ~DbMod => /\ \A p \in Page : file'[p] = Committed[p] /\ disk'[p] = {Committed[p]}
  BY <1>0 DEF DbMod, Pages, Kept
<1>5. DbMod => lock[c] = L!EXCLUSIVE
  BY <1>0 DEF DbMod, Journaled
<1>6. Cool(c)'
  BY <1>0, <1>1, <1>3 DEF Mine, Cool, locks
<1>7. Holding(c)' /\ Stale(c)' /\ Changing(c)'
  BY <1>1, <1>2, <1>3 DEF Holding, Stale, Fresh, Changing
<1>8. Committing(c)'
  BY <1>1 DEF Committing
<1>9. Undoing(c)'
  BY <1>1, <1>4 DEF Undoing, DbMod
<1> QED
  BY <1>6, <1>7, <1>8, <1>9 DEF Mine

LEMMA RollbackSafe == ASSUME Safe, NEW c \in Conn, Rollback(c) PROVE Safe'
<1>0. /\ Shape /\ Mine(c) /\ Live(c) /\ PlayBack(c) /\ UNCHANGED <<stored, count>>
      /\ at[c] = "writer" /\ tx[c] # None
  BY DEF Safe, Rollback, PlayBack, Live, Reading, stored
<1>1. ShapeStep(c)
  BY <1>0, UndoShape
<1>2. Committed' = Committed /\ Version' = Version /\ UNCHANGED <<file, disk, journal, ghost>>
  BY <1>0, UnchangedCommitted
<1>3. vers[c] = Version
  <2>1. file[1] = Committed[1] /\ Committed[1] # tx[c]
    BY <1>0, NewContent, PagerAssumption DEF Mine, Changing, Page
  <2> QED
    BY <1>0, <2>1 DEF Mine, Changing
<1>4. Mine(c)'
  BY <1>0, <1>1, <1>2, <1>3, PlayedBackMine
<1> QED
  BY <1>0, <1>1, <1>4, QuietStepKeeps

LEMMA ReplayedSafe == ASSUME Safe, NEW c \in Conn, Replayed(c) PROVE Safe'
<1>0. /\ Shape /\ TypeOK /\ Levels(c) /\ Mine(c) /\ at[c] = "replay" /\ todo[c] = {}
      /\ at'[c] = "sync_file" /\ UNCHANGED <<locks, cache, vers, tx, commits, todo, stored, count>>
  BY DEF Safe, Shape, Replayed, Go, Quiet, TypeOK
<1>1. ShapeStep(c)
  BY <1>0, ReadingShape
<1>2. Committed' = Committed /\ Version' = Version /\ UNCHANGED <<file, disk, journal, ghost>>
  BY <1>0, UnchangedCommitted
<1>3. ~Live(c) /\ ~Live(c)'
  BY <1>0 DEF Live, Reading
<1> QED
  BY <1>0, <1>1, <1>2, <1>3, QuietStepKeeps
  DEF Mine, Cool, Changing, Holding, Committing, Undoing, Stale, Fresh, locks

LEMMA DowngradeSafe == ASSUME Safe, NEW c \in Conn, Downgrade(c) PROVE Safe'
<1>0. /\ Shape /\ TypeOK /\ Levels(c) /\ Mine(c) /\ at[c] = "downgrade"
      /\ at'[c] = IF c \in writer THEN "reader" ELSE "validate"
      /\ tx'[c] = None /\ ~commits'[c] /\ c \notin writer'
      /\ UNCHANGED <<cache, vers, todo, stored, count>>
  BY DEF Safe, Shape, Downgrade, Go, Quiet, TypeOK, L!Downgrade
<1>1. ShapeStep(c)
  BY <1>0, DowngradeShape
<1>2. Committed' = Committed /\ Version' = Version /\ UNCHANGED <<file, disk, journal, ghost>>
  BY <1>0, UnchangedCommitted
<1>3. ~Live(c) /\ ~Live(c)'
  BY <1>0 DEF Live, Reading
<1>4. Version \in Nat
  BY <1>0, PagerAssumption DEF Version, Counter, TypeOK
<1>5. Holding(c)' /\ Stale(c)'
  BY <1>0, <1>2, <1>3, <1>4 DEF Mine, Holding, Stale, Fresh
<1> QED
  BY <1>0, <1>1, <1>2, <1>3, <1>5, QuietStepKeeps DEF Mine, Cool, Changing, Committing, Undoing

-----------------------------------------------------------------------------
(* What the steps of the one who may write do to the journal and the file. *)

(* A journal is synced: what it restores stays, and no page is less safe.  *)
LEMMA SyncedJournal ==
  ASSUME Safe, journal # None, TypeOK', journal' # None,
         journal'.orig = journal.orig, journal'.old = journal.old, journal'.counted = journal.counted,
         journal'.hard \in {journal.hard, {0} \cup Recorded(journal)},
         journal'.sure \in {journal.sure, journal.counted},
         \/ journal'.named = journal.named /\ ghost' = ghost
         \/ journal'.named /\ ghost' = None,
         UNCHANGED <<file, disk, count>>
  PROVE  Committed' = Committed /\ Version' = Version /\ Journals' /\ Pages' /\ (Hot(journal') <=> Hot(journal))
<1>0. TypeOK /\ Sound(journal) /\ Pages
  BY DEF Safe, Shape, Journals
<1>1. (Hot(journal') <=> Hot(journal)) /\ Recorded(journal') = Recorded(journal)
  BY DEF Hot, Recorded
<1>2. Committed' = Committed
  <2>1. \A p \in Page : Committed'[p] = Committed[p]
    BY <1>1 DEF Committed, Restored
  <2> QED
    BY <1>0, <2>1, SameCommitted
<1>3. Version' = Version
  BY <1>2 DEF Version, Counter
<1>4. Sound(journal')
  BY <1>0, <1>1 DEF Sound
<1>5. Journals'
  BY <1>2, <1>4 DEF Safe, Journals
<1>6. Pages'
  <2>1. \A p \in Page : Kept(p) => Kept(p)'
    BY <1>0 DEF Kept, Sound
  <2> QED
    BY <1>0, <1>2, <2>1 DEF Pages
<1> QED
  BY <1>1, <1>2, <1>3, <1>5, <1>6

(* A page the journal keeps may be overwritten, by anything.               *)
LEMMA PutKept ==
  ASSUME Safe, TypeOK', NEW p \in Page, NEW v \in Content, Kept(p), Put(p, v), UNCHANGED <<journal, ghost, count>>
  PROVE  Committed' = Committed /\ Version' = Version /\ Journals' /\ Pages' /\ Hot(journal)
<1>0. TypeOK /\ Sound(journal) /\ Pages /\ journal # None
  BY DEF Safe, Shape, Journals, Kept
<1>1. /\ \A q \in Page : file'[q] = IF q = p THEN v ELSE file[q]
      /\ \A q \in Page : disk'[q] = IF q = p THEN disk[q] \cup {v, Garbage} ELSE disk[q]
  BY <1>0, PutTypes
<1>2. Hot(journal) /\ (p \in journal.orig => p \in journal.counted)
  BY <1>0 DEF Kept, Hot, Sound
<1>3. Committed' = Committed
  <2>1. \A q \in Page : Committed'[q] = Committed[q]
    BY <1>1, <1>2 DEF Committed, Restored
  <2> QED
    BY <1>0, <2>1, SameCommitted
<1>4. Version' = Version /\ Journals'
  BY <1>3 DEF Version, Counter, Safe, Journals
<1>5. Pages'
  BY <1>0, <1>1, <1>3 DEF Pages, Kept
<1> QED
  BY <1>2, <1>3, <1>4, <1>5

LEMMA SyncHotJournalSafe == ASSUME Safe, NEW c \in Conn, SyncHotJournal(c) PROVE Safe' /\ Committed' = Committed
<1>0. /\ Shape /\ TypeOK /\ Levels(c) /\ Mine(c) /\ journal # None /\ journal \in Journal /\ Sound(journal)
      /\ lock[c] = L!EXCLUSIVE /\ c \notin writer /\ tx[c] = None /\ ~commits[c]
  BY DEF Safe, Shape, SyncHotJournal, Go, Levels, Journaled, Owning, TypeOK, Journals, Mine, Committing
<1>1. /\ at'[c] = IF Hot(journal) THEN "truncate" ELSE "sync_file"
      /\ todo'[c] = journal.counted \ {0} /\ journal' # None
      /\ journal'.orig = journal.orig /\ journal'.old = journal.old /\ journal'.counted = journal.counted
      /\ journal'.hard = {0} \cup Recorded(journal) /\ journal'.sure = journal.counted
      /\ journal'.named = journal.named
      /\ UNCHANGED <<locks, cache, vers, tx, commits, file, disk, ghost, count>>
  <2>1. journal' # None
    BY <1>0, SyncHotJournalShape, ShapeStepKeeps DEF Shape, ShapeStep, Journaled, SyncHotJournal, Go, Owning, TypeOK
  <2> QED
    BY <1>0, <2>1 DEF SyncHotJournal, Go, Quiet, TypeOK
<1>2. ShapeStep(c) /\ TypeOK'
  BY <1>0, SyncHotJournalShape DEF ShapeStep
<1>3. Committed' = Committed /\ Version' = Version /\ Journals' /\ Pages' /\ (Hot(journal') <=> Hot(journal))
  BY <1>0, <1>1, <1>2, SyncedJournal
<1>4. ~Live(c)' /\ c \notin writer' /\ at'[c] \in {"truncate", "sync_file"} /\ ~commits'[c]
  BY <1>0, <1>1 DEF Live, Reading, locks
<1>5. Undoing(c)'
  <2>1. Hot(journal) => 0 \in journal.counted
    BY DEF Hot
  <2>2. ~Hot(journal) => \A p \in Page : file[p] = Committed[p]
    BY DEF Committed
  <2> QED
    BY <1>1, <1>3, <1>4, <2>1, <2>2 DEF Undoing
<1>6. Cool(c)' /\ Changing(c)' /\ Holding(c)' /\ Committing(c)'
  BY <1>4 DEF Cool, Changing, Holding, Committing
<1>7. Stale(c)'
  BY <1>0, <1>1, <1>3 DEF Mine, Stale, Fresh
<1> QED
  BY <1>0, <1>2, <1>3, <1>5, <1>6, <1>7, AloneStepKeeps DEF Mine

LEMMA SyncRecordsSafe == ASSUME Safe, NEW c \in Conn, SyncRecords(c) \/ SyncHeader(c) PROVE Safe' /\ Committed' = Committed
<1>0. /\ Shape /\ TypeOK /\ Levels(c) /\ Mine(c) /\ journal # None /\ journal \in Journal /\ Sound(journal)
      /\ lock[c] = L!EXCLUSIVE /\ c \in writer /\ tx[c] # None /\ Live(c) /\ at[c] \in {"sync", "sync_header"}
  BY DEF Safe, Shape, SyncRecords, SyncHeader, Go, Levels, Journaled, Live, TypeOK, Journals, Reading
<1>1. ShapeStep(c) /\ TypeOK'
  BY <1>0, SyncJournalShape DEF ShapeStep
<1>2. UNCHANGED <<locks, cache, vers, tx, commits, file, disk, count>>
  BY DEF SyncRecords, SyncHeader, Quiet
<1>3. /\ journal'.orig = journal.orig /\ journal'.old = journal.old /\ journal'.counted = journal.counted
      /\ journal'.hard \in {journal.hard, {0} \cup Recorded(journal)}
      /\ journal'.sure \in {journal.sure, journal.counted}
      /\ \/ journal'.named = journal.named /\ ghost' = ghost
         \/ journal'.named /\ ghost' = None
      /\ at'[c] \in {"header", "pages", "writer"}
      /\ at'[c] = "header" => journal'.hard = {0} \cup Recorded(journal) /\ journal'.named
      /\ at'[c] = "pages" => commits[c] /\ journal'.sure = journal.counted /\ at[c] = "sync_header"
  <2>1. CASE SyncRecords(c)
    BY <1>0, <2>1 DEF SyncRecords, Go, TypeOK
  <2>2. CASE SyncHeader(c)
    BY <1>0, <2>2 DEF SyncHeader, Go, TypeOK, Journal
  <2> QED
    BY <2>1, <2>2
<1>4. Live(c)' /\ journal' # None
  BY <1>0, <1>1, <1>2, <1>3 DEF Live, Reading, ShapeStep, Journaled
<1>5. Committed' = Committed /\ Version' = Version /\ Journals' /\ Pages' /\ (Hot(journal') <=> Hot(journal))
  BY <1>0, <1>1, <1>2, <1>3, <1>4, SyncedJournal
<1>6. Changing(c)'
  <2>1. \A p \in Page : ChangingPage(c, p)'
    BY <1>0, <1>2, <1>3, <1>5 DEF Mine, Changing, ChangingPage
  <2>2. Recorded(journal') = Recorded(journal)
    BY <1>3 DEF Recorded
  <2> QED
    BY <1>0, <1>2, <1>3, <1>5, <2>1, <2>2 DEF Mine, Changing
<1>7. Cool(c)' /\ Holding(c)' /\ Stale(c)'
  BY <1>0, <1>2, <1>3, <1>4 DEF Cool, Holding, Stale, locks
<1>8. Committing(c)' /\ Undoing(c)'
  BY <1>0, <1>2, <1>3 DEF Committing, Undoing
<1> QED
  BY <1>0, <1>1, <1>5, <1>6, <1>7, <1>8, AloneStepKeeps DEF Mine

LEMMA WriteHeaderSafe == ASSUME Safe, NEW c \in Conn, WriteHeader(c) PROVE Safe' /\ Committed' = Committed
<1>0. /\ Shape /\ TypeOK /\ Levels(c) /\ Mine(c) /\ journal # None /\ journal \in Journal /\ Sound(journal)
      /\ lock[c] = L!EXCLUSIVE /\ c \in writer /\ tx[c] # None /\ Live(c) /\ at[c] = "header" /\ Pages
  BY DEF Safe, Shape, WriteHeader, Go, Levels, Journaled, Live, TypeOK, Journals, Reading
<1>1. ShapeStep(c) /\ TypeOK'
  BY <1>0, SyncJournalShape DEF ShapeStep
<1>2. /\ journal'.orig = journal.orig /\ journal'.old = journal.old /\ journal'.hard = journal.hard
      /\ journal'.counted = {0} \cup Recorded(journal) /\ journal'.sure = journal.sure
      /\ journal'.named = journal.named /\ at'[c] = "sync_header"
      /\ UNCHANGED <<locks, cache, vers, tx, commits, file, disk, ghost, count>>
  BY <1>0 DEF WriteHeader, Go, TypeOK, Journal, Quiet
<1>3. Live(c)' /\ journal' # None /\ Recorded(journal') = Recorded(journal)
  BY <1>0, <1>1, <1>2 DEF Live, Reading, ShapeStep, Journaled, Recorded
<1>4. Committed' = Committed
  <2>1. Hot(journal')
    BY <1>2, <1>3 DEF Hot
  <2>2. ASSUME NEW p \in Page PROVE Committed'[p] = Committed[p]
    <3>1. ChangingPage(c, p)
      BY <1>0 DEF Mine, Changing
    <3>2. p \notin Recorded(journal) /\ p \in journal.orig => ~Kept(p)
      BY KeptRecorded DEF Recorded
    <3>3. Committed'[p] = IF p \notin journal.orig THEN Absent ELSE IF p \in Recorded(journal) THEN journal.old[p]
                          ELSE file[p]
      <4>1. p # 0
        BY DEF Page
      <4> QED
        BY <1>2, <2>1, <4>1 DEF Committed, Restored
    <3> QED
      BY <1>0, <3>1, <3>2, <3>3 DEF ChangingPage, Pages, Recorded
  <2> QED
    BY <1>0, <1>1, <2>2, SameCommitted
<1>5. Version' = Version
  BY <1>2, <1>4 DEF Version, Counter
<1>6. journal.hard = {0} \cup Recorded(journal) /\ journal.named
  BY <1>0 DEF Mine, Changing
<1>7. Journals'
  <2>1. \A p \in Recorded(journal) : journal.old[p] \in Tx
    BY <1>0 DEF Mine, Changing, ChangingPage, Recorded, Pages
  <2>2. Sound(journal')
    BY <1>0, <1>2, <1>3, <1>6, <2>1 DEF Sound
  <2>3. ghost = None /\ ghost' = None
    BY <1>0, <1>2, <1>6 DEF Safe, Journals
  <2> QED
    BY <2>2, <2>3 DEF Journals
<1>8. Pages'
  BY <1>0, <1>2, <1>3, <1>4 DEF Pages, Kept
<1>9. Changing(c)'
  <2>1. \A p \in Page : ChangingPage(c, p)'
    BY <1>0, <1>2, <1>4 DEF Mine, Changing, ChangingPage
  <2> QED
    BY <1>0, <1>2, <1>3, <1>4, <1>5, <2>1 DEF Mine, Changing
<1>10. Cool(c)' /\ Holding(c)' /\ Stale(c)' /\ Committing(c)' /\ Undoing(c)'
  BY <1>0, <1>2, <1>3 DEF Cool, Holding, Stale, Committing, Undoing, locks
<1> QED
  BY <1>0, <1>1, <1>4, <1>5, <1>7, <1>8, <1>9, <1>10, AloneStepKeeps DEF Mine

(* A page is changed only after what is committed of it went to the journal. *)
LEMMA ChangedKeeps ==
  ASSUME Safe, NEW c \in Conn, NEW p \in Page, Live(c), Changed(c, p, tx[c], journal),
         cache[c][p] # Absent \/ Seen(c)[p] = Absent, TypeOK', UNCHANGED <<file, disk, ghost, tx>>
  PROVE  /\ Committed' = Committed /\ Journals' /\ Pages' /\ (Hot(journal') <=> Hot(journal))
         /\ \A q \in Page : ChangingPage(c, q)'
<1>0. /\ TypeOK /\ Mine(c) /\ Pages /\ journal \in Journal /\ journal # None /\ Sound(journal) /\ tx[c] \in Tx
      /\ \A q \in Page : ChangingPage(c, q)
  BY DEF Safe, Shape, Journaled, TypeOK, Live, Journals, Mine, Changing
<1>1. /\ journal' # None /\ journal'.orig = journal.orig /\ journal'.hard = journal.hard
      /\ journal'.counted = journal.counted /\ journal'.sure = journal.sure /\ journal'.named = journal.named
      /\ \A q \in Page : journal'.old[q] = IF q = p /\ p \in journal.orig /\ journal.old[p] = Absent
                                            THEN cache[c][p] ELSE journal.old[q]
      /\ \A q \in Page : cache'[c][q] = IF q = p THEN tx[c] ELSE cache[c][q]
  BY <1>0, ChangedTypes
<1>2. \A q \in Page : Committed[q] # tx[c] /\ tx[c] # Absent
  BY NewContent
<1>3. p \in journal.orig => journal'.old[p] = Committed[p] /\ Committed[p] # Absent
  <2>1. ChangingPage(c, p)
    BY <1>0
  <2>2. cache[c][p] = Absent => file[p] = Absent
    BY DEF Seen
  <2> QED
    BY <1>1, <1>2, <2>1, <2>2 DEF ChangingPage
<1>4. Recorded(journal) \subseteq Recorded(journal') /\ Recorded(journal') \subseteq Recorded(journal) \cup {p}
  BY <1>1 DEF Recorded
<1>5. \A q \in Page : q \in journal.counted => journal'.old[q] = journal.old[q] /\ journal.old[q] # Absent
  <2>1. \A q \in Page : q \in journal.counted => q \in Recorded(journal)
    BY <1>0 DEF Sound, Page
  <2> QED
    BY <1>1, <2>1 DEF Recorded
<1>6. Hot(journal') <=> Hot(journal)
  BY <1>0, <1>1 DEF Hot
<1>7. Committed' = Committed
  <2>1. \A q \in Page : Committed'[q] = Committed[q]
    BY <1>1, <1>5, <1>6 DEF Committed, Restored
  <2> QED
    BY <1>0, <2>1, SameCommitted
<1>8. Sound(journal')
  <2>1. p \in Recorded(journal') => p \in journal.orig
    BY <1>0, <1>1 DEF Recorded, Sound
  <2>2. \A q \in journal'.counted \ {0} : journal'.old[q] \in Tx
    <3>1. journal.counted \ {0} \subseteq Page
      BY <1>0, JournalParts DEF Page
    <3> QED
      BY <1>0, <1>1, <1>5, <3>1 DEF Sound
  <2> QED
    BY <1>0, <1>1, <1>4, <2>1, <2>2 DEF Sound
<1>9. Journals'
  BY <1>0, <1>1, <1>7, <1>8 DEF Safe, Journals
<1>10. Pages'
  BY <1>0, <1>1, <1>7 DEF Pages, Kept
<1>11. ASSUME NEW q \in Page PROVE ChangingPage(c, q)'
  <2>1. ChangingPage(c, q)
    BY <1>0
  <2> QED
    BY <1>1, <1>3, <1>7, <2>1 DEF ChangingPage
<1> QED
  BY <1>6, <1>7, <1>9, <1>10, <1>11

(* The first change of a transaction opens a journal nothing counts on yet. *)
LEMMA OpenedKeeps ==
  ASSUME Safe, NEW c \in Conn, NEW p \in Page, WritePage(c, p), tx[c] = None, ShapeStep(c)
  PROVE  /\ Committed' = Committed /\ Version' = Version /\ Journals' /\ Pages' /\ ~Hot(journal')
         /\ Changing(c)' /\ Live(c)' /\ ~commits'[c]
<1>0. /\ Shape /\ TypeOK /\ TypeOK' /\ Mine(c) /\ Levels(c) /\ Stamps /\ OwnStamps(c) /\ Pages
      /\ at[c] = "writer" /\ c \in writer /\ 1 \in Page
  BY PagerAssumption DEF Safe, Shape, ShapeStep, WritePage, Levels, Reading, Page
<1>1. /\ begun < MaxTx /\ begun' = begun + 1 /\ tx' = [tx EXCEPT ![c] = begun + 1]
      /\ Changed(c, p, begun + 1, NewJournal)
      /\ cache[c][p] # Absent \/ Seen(c)[p] = Absent
      /\ UNCHANGED <<locks, at, vers, commits, todo, file, disk, ghost, count>>
  BY DEF WritePage
<1>2. begun + 1 \in Tx /\ begun \in Nat
  BY <1>0, <1>1, PagerAssumption DEF TypeOK, Tx
<1>3. ~Hot(journal) /\ Fresh(c) /\ vers[c] = Version /\ cache[c][1] # Absent /\ ~commits[c]
  BY <1>0 DEF Mine, Cool, Holding, Live, Committing
<1>4. Committed = file /\ \A q \in Page : ~Kept(q)
  BY <1>3 DEF Committed, Safe, Journals, Kept, Sound, Hot
<1>5. /\ journal' # None /\ journal'.orig = {q \in Page : file[q] # Absent}
      /\ journal'.hard = {} /\ journal'.counted = {} /\ journal'.sure = {} /\ journal'.named = FALSE
      /\ \A q \in Page : journal'.old[q] = IF q = p /\ file[p] # Absent THEN cache[c][p] ELSE Absent
      /\ \A q \in Page : cache'[c][q] = IF q = p THEN begun + 1 ELSE cache[c][q]
  <2>1. /\ NewJournal \in Journal /\ NewJournal.orig = {q \in Page : file[q] # Absent}
        /\ \A q \in Page : NewJournal.old[q] = Absent
        /\ NewJournal.hard = {} /\ NewJournal.counted = {} /\ NewJournal.sure = {} /\ NewJournal.named = FALSE
    BY <1>0, NewJournalParts
  <2>2. /\ journal' # None /\ journal'.orig = NewJournal.orig /\ journal'.hard = NewJournal.hard
        /\ journal'.counted = NewJournal.counted /\ journal'.sure = NewJournal.sure
        /\ journal'.named = NewJournal.named
        /\ \A q \in Page : journal'.old[q] = IF q = p /\ p \in NewJournal.orig /\ NewJournal.old[p] = Absent
                                              THEN cache[c][p] ELSE NewJournal.old[q]
        /\ \A q \in Page : cache'[c][q] = IF q = p THEN begun + 1 ELSE cache[c][q]
    BY <1>0, <1>1, <1>2, <2>1, ChangedTypes
  <2> QED
    BY <2>1, <2>2
<1>6. ~Hot(journal')
  BY <1>5 DEF Hot
<1>7. Committed' = Committed /\ Version' = Version
  BY <1>1, <1>4, <1>6 DEF Committed, Version, Counter
<1>8. Journals'
  <2>1. file[1] # Absent
    BY <1>0, <1>4, NothingAssumption DEF Pages
  <2>2. Sound(journal')
    BY <1>0, <1>5, <2>1 DEF Sound, Recorded
  <2> QED
    BY <1>1, <1>5, <1>7, <2>2 DEF Safe, Journals
<1>9. Pages'
  BY <1>0, <1>1, <1>4, <1>7 DEF Pages
<1>10. tx'[c] = begun + 1 /\ tx'[c] # None /\ Live(c)'
  BY <1>0, <1>1, <1>2, NothingAssumption DEF TypeOK, Live, Reading
<1>11. ASSUME NEW q \in Page
       PROVE  file[q] # begun + 1 /\ cache[c][q] # begun + 1 /\ (Committed[q] \in Tx => Committed[q] < begun + 1)
  <2>1. Dated(file[q]) /\ Dated(cache[c][q])
    BY <1>0 DEF Stamps, OwnStamps
  <2> QED
    BY <1>2, <1>4, <2>1 DEF Dated, Tx
<1>12. ASSUME NEW q \in Page PROVE ChangingPage(c, q)'
  <2>1. cache[c][q] \in {Absent, Committed[q]} /\ file[q] = Committed[q]
    BY <1>3, <1>4 DEF Fresh
  <2>2. cache[c][p] = Absent => file[p] = Absent
    BY <1>1 DEF Seen
  <2> QED
    BY <1>1, <1>4, <1>5, <1>7, <1>10, <1>11, <2>1, <2>2 DEF ChangingPage
<1>13. Changing(c)'
  <2>1. cache'[c][1] # Absent
    BY <1>0, <1>2, <1>3, <1>5, NothingAssumption
  <2> QED
    BY <1>0, <1>1, <1>3, <1>4, <1>7, <1>10, <1>11, <1>12, <2>1 DEF Changing
<1> QED
  BY <1>1, <1>3, <1>6, <1>7, <1>8, <1>9, <1>10, <1>13

LEMMA WritePageSafe == ASSUME Safe, NEW c \in Conn, NEW p \in Page, WritePage(c, p) PROVE Safe' /\ Committed' = Committed
<1>0. /\ Shape /\ TypeOK /\ Mine(c) /\ Levels(c) /\ at[c] = "writer" /\ c \in writer /\ 1 \in Page
      /\ UNCHANGED <<locks, at, vers, commits, todo, file, disk, ghost, count>>
  BY PagerAssumption DEF Safe, Shape, WritePage, Levels, Reading, Page
<1>1. ShapeStep(c) /\ TypeOK'
  BY <1>0, WritePageShape DEF ShapeStep
<1>2. CASE tx[c] = None
  <2>1. /\ Committed' = Committed /\ Version' = Version /\ Journals' /\ Pages' /\ ~Hot(journal')
        /\ Changing(c)' /\ Live(c)' /\ ~commits'[c]
    BY <1>1, <1>2, OpenedKeeps
  <2>2. Cool(c)' /\ Holding(c)' /\ Stale(c)'
    BY <1>0, <2>1 DEF Cool, Holding, Stale, locks
  <2>3. Committing(c)' /\ Undoing(c)'
    BY <1>0, <2>1 DEF Committing, Undoing
  <2> QED
    BY <1>0, <1>1, <2>1, <2>2, <2>3, AloneStepKeeps DEF Mine
<1>3. CASE tx[c] # None
  <2>1. Changed(c, p, tx[c], journal) /\ UNCHANGED tx /\ Live(c) /\ Live(c)'
    BY <1>0, <1>3 DEF WritePage, Live, Reading
  <2>2. /\ Committed' = Committed /\ Journals' /\ Pages' /\ (Hot(journal') <=> Hot(journal))
        /\ \A q \in Page : ChangingPage(c, q)'
    BY <1>0, <1>1, <2>1, ChangedKeeps DEF WritePage
  <2>3. Version' = Version
    BY <1>0, <2>2 DEF Version, Counter
  <2>4. /\ cache'[c][1] \in {cache[c][1], tx[c]} /\ tx[c] \in Tx /\ tx[c] # Absent
    <3>1. tx[c] \in Tx /\ journal \in Journal
      BY <1>0, <2>1 DEF Shape, TypeOK, Live, Journaled
    <3>2. cache'[c][1] = IF 1 = p THEN tx[c] ELSE cache[c][1]
      BY <1>0, <2>1, <3>1, ChangedTypes
    <3> QED
      BY <3>1, <3>2, NothingAssumption
  <2>5. Changing(c)'
    BY <1>0, <2>1, <2>2, <2>3, <2>4 DEF Mine, Changing
  <2>6. Cool(c)' /\ Holding(c)' /\ Stale(c)'
    BY <1>0, <2>1, <2>2 DEF Mine, Cool, Holding, Stale, locks
  <2>7. Committing(c)' /\ Undoing(c)'
    BY <1>0, <2>1 DEF Mine, Committing, Undoing
  <2> QED
    BY <1>0, <1>1, <2>2, <2>3, <2>5, <2>6, <2>7, AloneStepKeeps DEF Mine
<1> QED
  BY <1>2, <1>3

LEMMA CommitPhaseOneSafe == ASSUME Safe, NEW c \in Conn, CommitPhaseOne(c) PROVE Safe' /\ Committed' = Committed
<1>0. /\ Shape /\ TypeOK /\ Mine(c) /\ Levels(c) /\ at[c] = "writer" /\ c \in writer /\ 1 \in Page /\ Live(c)
      /\ tx[c] \in Tx /\ journal \in Journal
  BY PagerAssumption DEF Safe, Shape, CommitPhaseOne, Go, Levels, Reading, Page, Live, TypeOK, Journaled
<1>1. /\ at'[c] = IF lock[c] = L!EXCLUSIVE THEN "sync" ELSE "lock"
      /\ Changed(c, 1, tx[c], journal) /\ count'[tx[c]] = vers[c] + 1 /\ commits'[c] = TRUE
      /\ \A t \in Tx : t # tx[c] => count'[t] = count[t]
      /\ UNCHANGED <<locks, vers, tx, todo, file, disk, ghost>>
  BY <1>0 DEF CommitPhaseOne, Go, TypeOK
<1>2. ShapeStep(c) /\ TypeOK' /\ Live(c)'
  BY <1>0, <1>1, CommitPhaseOneShape DEF ShapeStep, Live, Reading
<1>3. cache[c][1] # Absent /\ file[1] = Committed[1] /\ Committed[1] # tx[c] /\ vers[c] = Version
  <2>1. Committed[1] # tx[c]
    BY <1>0, NewContent
  <2> QED
    BY <1>0, <2>1 DEF Mine, Changing
<1>4. /\ Committed' = Committed /\ Journals' /\ Pages' /\ (Hot(journal') <=> Hot(journal))
      /\ \A q \in Page : ChangingPage(c, q)'
  BY <1>0, <1>1, <1>2, <1>3, ChangedKeeps
<1>5. Version' = Version
  BY <1>1, <1>3, <1>4 DEF Version, Counter
<1>6. cache'[c][1] = tx[c] /\ tx[c] # Absent
  BY <1>0, <1>1, ChangedTypes, NothingAssumption
<1>7. Changing(c)'
  BY <1>0, <1>1, <1>2, <1>3, <1>4, <1>5, <1>6 DEF Mine, Changing
<1>8. Cool(c)' /\ Holding(c)' /\ Stale(c)'
  BY <1>0, <1>1, <1>2, <1>4 DEF Mine, Cool, Holding, Stale, locks
<1>9. Committing(c)' /\ Undoing(c)'
  BY <1>0, <1>1 DEF Committing, Undoing, Live
<1> QED
  BY <1>0, <1>2, <1>4, <1>5, <1>7, <1>8, <1>9, AloneStepKeeps DEF Mine

LEMMA StorePageSafe == ASSUME Safe, NEW c \in Conn, NEW p \in Page, StorePage(c, p) PROVE Safe' /\ Committed' = Committed
<1>0. /\ Shape /\ TypeOK /\ Levels(c) /\ Mine(c) /\ Live(c) /\ c \in writer /\ 1 \in Page
      /\ at[c] \in {"pages", "writer"} /\ (at[c] = "writer" => p # 1)
      /\ cache[c][p] = tx[c] /\ tx[c] \in Tx /\ Kept(p) /\ \A q \in Page : ChangingPage(c, q)
  <2>1. Shape /\ TypeOK /\ Levels(c) /\ Mine(c) /\ 1 \in Page
    BY PagerAssumption DEF Safe, Shape, Page
  <2>2. /\ at[c] \in {"pages", "writer"} /\ (at[c] = "writer" => p # 1)
        /\ cache[c][p] = tx[c] /\ tx[c] # None /\ Kept(p)
    BY DEF StorePage, Dirty, NeedsSync, DbMod, Kept
  <2>3. Live(c) /\ c \in writer /\ tx[c] \in Tx
    BY <2>1, <2>2 DEF Live, Levels, Reading, TypeOK
  <2> QED
    BY <2>1, <2>2, <2>3 DEF Mine, Changing
<1>1. /\ Put(p, tx[c]) /\ UNCHANGED <<locks, at, cache, tx, commits, todo, journal, ghost, count>>
      /\ vers'[c] = IF p = 1 THEN count[tx[c]] ELSE vers[c]
  BY <1>0 DEF StorePage, Quiet, TypeOK
<1>2. ShapeStep(c) /\ TypeOK'
  BY <1>0, StorePageShape DEF ShapeStep
<1>3. \A q \in Page : file'[q] = IF q = p THEN tx[c] ELSE file[q]
  BY <1>0, <1>1, PutTypes DEF Content
<1>4. Committed' = Committed /\ Version' = Version /\ Journals' /\ Pages' /\ Hot(journal)
  BY <1>0, <1>1, <1>2, PutKept DEF Content
<1>5. Changing(c)'
  <2>1. \A q \in Page : ChangingPage(c, q)'
    BY <1>0, <1>1, <1>3, <1>4 DEF ChangingPage
  <2>2. vers'[c] = IF file'[1] = tx[c] THEN count[tx[c]] ELSE Version
    BY <1>0, <1>1, <1>3 DEF Mine, Changing
  <2>3. at[c] # "pages" => file'[1] = Committed[1]
    BY <1>0, <1>3 DEF Mine, Changing
  <2>4. Changing(c)
    BY <1>0 DEF Mine
  <2> QED
    BY <1>0, <1>1, <1>4, <2>1, <2>2, <2>3, <2>4 DEF Changing
<1>6. Live(c)' /\ c \in writer' /\ lock'[c] = lock[c] /\ at'[c] = at[c] /\ Hot(journal')
  BY <1>0, <1>1, <1>4 DEF Live, locks
<1>7. Cool(c)' /\ Holding(c)' /\ Stale(c)'
  BY <1>0, <1>1, <1>4, <1>6 DEF Mine, Cool, Holding, Stale
<1>8. Committing(c)' /\ Undoing(c)'
  BY <1>0, <1>1 DEF Mine, Committing, Undoing
<1> QED
  BY <1>0, <1>2, <1>4, <1>5, <1>7, <1>8, AloneStepKeeps DEF Mine

(* What was written is on disk: nothing is committed by that.              *)
LEMMA SyncKeeps ==
  ASSUME Safe, disk' = Synced, UNCHANGED <<file, journal, ghost, count>>
  PROVE  /\ Committed' = Committed /\ Version' = Version /\ Journals' /\ Pages'
         /\ \A p \in Page : disk'[p] = {file[p]}
<1>1. Committed' = Committed /\ Version' = Version
  BY DEF Committed, Version, Counter
<1>2. \A p \in Page : disk'[p] = {file[p]}
  BY DEF Synced
<1>3. Journals' /\ Pages'
  BY <1>1, <1>2 DEF Safe, Journals, Pages, Kept
<1> QED
  BY <1>1, <1>2, <1>3

LEMMA SyncStoredSafe == ASSUME Safe, NEW c \in Conn, SyncStored(c) PROVE Safe' /\ Committed' = Committed
<1>0. /\ Shape /\ TypeOK /\ Levels(c) /\ Mine(c) /\ Live(c) /\ c \in writer /\ 1 \in Page /\ at[c] = "pages"
      /\ tx[c] # None /\ commits[c] /\ lock[c] = L!EXCLUSIVE /\ Dirty(c) = {} /\ Sound(journal) /\ Changing(c)
      /\ \A q \in Page : ChangingPage(c, q)
  BY PagerAssumption
  DEF Safe, Shape, SyncStored, Go, Live, Levels, Reading, Page, Mine, Changing, Journals, Journaled
<1>1. /\ at'[c] = "unlink" /\ disk' = Synced
      /\ UNCHANGED <<locks, cache, vers, tx, commits, todo, file, journal, ghost, count>>
  BY <1>0 DEF SyncStored, Go, Quiet, TypeOK
<1>2. ShapeStep(c)
  BY <1>0, SyncShape
<1>3. Committed' = Committed /\ Version' = Version /\ Journals' /\ Pages' /\ \A p \in Page : disk'[p] = {file[p]}
  BY <1>1, SyncKeeps
<1>4. ASSUME NEW p \in Page
      PROVE  cache[c][p] \in {Absent, file[p]} /\ file[p] \in {Committed[p], tx[c]}
  <2>1. ChangingPage(c, p) /\ (cache[c][p] = tx[c] => file[p] = tx[c])
    BY <1>0 DEF Dirty
  <2> QED
    BY <2>1 DEF ChangingPage
<1>5. file[1] = tx[c] /\ vers[c] = count[tx[c]] /\ vers[c] = Version + 1 /\ cache[c][1] # Absent
  BY <1>0 DEF Changing, Dirty
<1>6. journal.sure = journal.counted /\ 0 \in journal.sure
  BY <1>0 DEF Changing, Sound
<1>7. Committing(c)'
  BY <1>0, <1>1, <1>3, <1>4, <1>5, <1>6 DEF Committing, locks
<1>8. Cool(c)' /\ Changing(c)' /\ Holding(c)' /\ Stale(c)' /\ Undoing(c)'
  BY <1>0, <1>1 DEF Cool, Changing, Live, Reading, Holding, Stale, Undoing, locks
<1> QED
  BY <1>0, <1>2, <1>3, <1>7, <1>8, AloneStepKeeps DEF Mine

LEMMA CommitFailsSafe == ASSUME Safe, NEW c \in Conn, CommitFails(c) PROVE Safe' /\ Committed' = Committed
<1>0. /\ Shape /\ TypeOK /\ Levels(c) /\ Mine(c) /\ PlayBack(c) /\ commits[c] /\ tx[c] # None
      /\ at[c] \in {"sync", "header", "sync_header", "pages"}
  BY DEF Safe, Shape, CommitFails, Mine, Committing
<1>1. /\ Live(c) /\ Changing(c) /\ 1 \in Page /\ c \in writer /\ journal # None /\ Sound(journal)
      /\ \A p \in Page : ChangingPage(c, p)
  BY <1>0, PagerAssumption DEF Safe, Shape, Journals, Journaled, Live, Levels, Reading, Mine, Changing, Page
<1>2. ShapeStep(c) /\ TypeOK'
  BY <1>0, UndoShape DEF ShapeStep
<1>3. UNCHANGED <<journal, ghost, count>>
  BY <1>0 DEF PlayBack
<1>4. journal.old[1] # Absent
  BY <1>0, <1>1 DEF Changing, ChangingPage, Sound
<1>5. CASE UNCHANGED <<file, disk>>
  <2>1. UNCHANGED <<stored, count>>
    BY <1>3, <1>5 DEF stored
  <2>2. Mine(c)'
    BY <1>0, <1>1, <1>2, <1>4, <1>5, <2>1, UnchangedCommitted, PlayedBackMine
  <2> QED
    BY <1>2, <2>1, <2>2, QuietStepKeeps
<1>6. CASE ~UNCHANGED <<file, disk>>
  <2>1. PICK p \in Dirty(c) : at[c] = "pages" /\ Put(p, Garbage)
    BY <1>6 DEF CommitFails
  <2>2. p \in Page /\ cache[c][p] = tx[c] /\ journal.sure = {0} \cup Recorded(journal)
    BY <1>1, <2>1 DEF Dirty, Changing
  <2>3. Kept(p)
    BY <1>1, <2>2 DEF ChangingPage, Kept, Recorded
  <2>4. Committed' = Committed /\ Version' = Version /\ Journals' /\ Pages' /\ Hot(journal)
    BY <1>2, <1>3, <2>1, <2>2, <2>3, PutKept DEF Content
  <2>5. DbMod
    BY <1>1, <2>2 DEF DbMod
  <2>6. Mine(c)'
    BY <1>0, <1>1, <1>2, <1>4, <2>4, <2>5, PlayedBackMine
  <2> QED
    BY <1>1, <1>2, <2>4, <2>6, AloneStepKeeps
<1> QED
  BY <1>5, <1>6

LEMMA TruncateSafe == ASSUME Safe, NEW c \in Conn, Truncate(c) PROVE Safe' /\ Committed' = Committed
<1>0. /\ Shape /\ TypeOK /\ Levels(c) /\ Mine(c) /\ Pages /\ lock[c] = L!EXCLUSIVE /\ at[c] = "truncate"
      /\ journal # None /\ Sound(journal) /\ 0 \in journal.sure /\ todo[c] = journal.sure \ {0} /\ ~commits[c]
      /\ ~Live(c) /\ Hot(journal)
  BY DEF Safe, Shape, Truncate, Go, Levels, Mine, Undoing, Journals, Journaled, Owning, Live, Reading, Sound, Hot
<1>1. /\ at'[c] = "replay" /\ UNCHANGED <<locks, vers, tx, commits, todo, journal, ghost, count>>
      /\ \A p \in Page : file'[p] = IF p \notin journal.orig THEN Absent ELSE file[p]
      /\ \A p \in Page : p \in journal.orig => disk'[p] = disk[p]
      /\ cache'[c] = cache[c] \/ (c \notin writer /\ cache'[c] = Empty)
  BY <1>0 DEF Truncate, Go, Quiet, TypeOK, Beyond
<1>2. ShapeStep(c) /\ TypeOK'
  BY <1>0, TruncateShape DEF ShapeStep
<1>3. Committed' = Committed
  <2>1. \A p \in Page : Committed'[p] = Committed[p]
    BY <1>0, <1>1 DEF Committed, Restored
  <2> QED
    BY <1>0, <1>2, <2>1, SameCommitted
<1>4. Version' = Version /\ Journals'
  BY <1>1, <1>3 DEF Version, Counter, Safe, Journals
<1>5. Pages'
  BY <1>0, <1>1, <1>3 DEF Pages, Kept
<1>6. Undoing(c)'
  <2>1. ASSUME NEW p \in Page, p \notin todo[c] PROVE file'[p] = Committed[p]
    <3>1. p \notin journal.sure
      BY <1>0, <2>1 DEF Page
    <3>2. p \notin journal.orig => Committed[p] = Absent
      BY <1>0 DEF Committed, Restored
    <3> QED
      BY <1>0, <1>1, <3>1, <3>2 DEF Pages, Kept
  <2> QED
    BY <1>0, <1>1, <1>3, <2>1 DEF Undoing
<1>7. Cool(c)' /\ Changing(c)' /\ Committing(c)'
  BY <1>0, <1>1 DEF Mine, Cool, Changing, Live, Reading, Committing, locks
<1>8. Holding(c)' /\ Stale(c)'
  BY <1>0, <1>1, <1>3, <1>4 DEF Mine, Holding, Stale, Fresh, locks
<1> QED
  BY <1>0, <1>2, <1>3, <1>4, <1>5, <1>6, <1>7, <1>8, AloneStepKeeps DEF Mine

LEMMA ReplaySafe == ASSUME Safe, NEW c \in Conn, NEW p \in Page, Replay(c, p) PROVE Safe' /\ Committed' = Committed
<1>0. /\ Shape /\ TypeOK /\ Levels(c) /\ Mine(c) /\ Pages /\ lock[c] = L!EXCLUSIVE /\ at[c] = "replay"
      /\ journal # None /\ journal \in Journal /\ Sound(journal) /\ 0 \in journal.sure /\ p \in todo[c]
      /\ p \in journal.sure /\ ~commits[c] /\ ~Live(c)
  BY DEF Safe, Shape, Replay, TypeOK, Levels, Mine, Undoing, Journals, Journaled, Owning, Live, Reading
<1>1. /\ at'[c] = "replay" /\ todo'[c] = todo[c] \ {p} /\ Put(p, journal.old[p])
      /\ UNCHANGED <<locks, cache, vers, tx, commits, journal, ghost, count>>
  BY <1>0 DEF Replay, Quiet, TypeOK
<1>2. ShapeStep(c) /\ TypeOK'
  BY <1>0, ReplayShape DEF ShapeStep
<1>3. journal.old[p] \in Content /\ Kept(p)
  BY <1>0, JournalParts DEF Kept
<1>4. Committed' = Committed /\ Version' = Version /\ Journals' /\ Pages' /\ Hot(journal)
  BY <1>0, <1>1, <1>2, <1>3, PutKept
<1>5. \A q \in Page : file'[q] = IF q = p THEN journal.old[p] ELSE file[q]
  BY <1>0, <1>1, <1>3, PutTypes
<1>6. Undoing(c)'
  <2>1. Committed[p] = journal.old[p]
    <3>1. p # 0
      BY DEF Page
    <3> QED
      BY <1>0, <1>4, <3>1 DEF Committed, Restored, Sound
  <2>2. todo'[c] \subseteq journal.sure /\ \A q \in Page : q \notin todo'[c] => file'[q] = Committed[q]
    BY <1>0, <1>1, <1>5, <2>1 DEF Mine, Undoing
  <2> QED
    BY <1>0, <1>1, <1>4, <2>2 DEF Undoing
<1>7. Cool(c)' /\ Changing(c)' /\ Committing(c)'
  BY <1>0, <1>1 DEF Mine, Cool, Changing, Live, Reading, Committing, locks
<1>8. Holding(c)' /\ Stale(c)'
  BY <1>0, <1>1, <1>4 DEF Mine, Holding, Stale, Fresh, Live, Reading, locks
<1> QED
  BY <1>0, <1>2, <1>4, <1>6, <1>7, <1>8, AloneStepKeeps DEF Mine

LEMMA SyncFileSafe == ASSUME Safe, NEW c \in Conn, SyncFile(c) PROVE Safe' /\ Committed' = Committed
<1>0. /\ Shape /\ TypeOK /\ Levels(c) /\ Mine(c) /\ at[c] = "sync_file" /\ lock[c] = L!EXCLUSIVE
      /\ ~commits[c] /\ ~Live(c) /\ \A p \in Page : file[p] = Committed[p]
  BY DEF Safe, Shape, SyncFile, Go, Levels, Mine, Undoing, Live, Reading
<1>1. /\ at'[c] = "unlink" /\ disk' = Synced
      /\ UNCHANGED <<locks, cache, vers, tx, commits, todo, file, journal, ghost, count>>
  BY <1>0 DEF SyncFile, Go, Quiet, TypeOK
<1>2. ShapeStep(c)
  BY <1>0, SyncShape
<1>3. Committed' = Committed /\ Version' = Version /\ Journals' /\ Pages' /\ \A p \in Page : disk'[p] = {file[p]}
  BY <1>1, SyncKeeps
<1>4. Undoing(c)' /\ Committing(c)'
  BY <1>0, <1>1, <1>3 DEF Undoing, Committing
<1>5. Cool(c)' /\ Changing(c)' /\ Holding(c)' /\ Stale(c)'
  BY <1>0, <1>1, <1>3 DEF Mine, Cool, Changing, Live, Reading, Holding, Stale, Fresh, locks
<1> QED
  BY <1>0, <1>2, <1>3, <1>4, <1>5, AloneStepKeeps DEF Mine

(* The deletion of a journal that has nothing left to restore.             *)
LEMMA UnlinkUndone == ASSUME Safe, NEW c \in Conn, Unlink(c), ~commits[c] PROVE Safe' /\ Committed' = Committed
<1>0. /\ Shape /\ TypeOK /\ Levels(c) /\ Mine(c) /\ at[c] = "unlink"
      /\ c \in writer \/ lock[c] = L!EXCLUSIVE
      /\ journal # None /\ Sound(journal) /\ Pages
      /\ \A p \in Page : file[p] = Committed[p] /\ disk[p] = {Committed[p]}
  BY DEF Safe, Shape, Unlink, Go, Levels, Mine, Undoing, Journals, Journaled, Owning
<1>1. /\ at'[c] = "downgrade" /\ journal' = None /\ ghost' = IF journal.named THEN journal ELSE ghost
      /\ UNCHANGED <<locks, cache, vers, tx, commits, todo, file, disk, count>>
  BY <1>0 DEF Unlink, Go, Quiet, TypeOK
<1>2. ShapeStep(c) /\ TypeOK'
  BY <1>0, UnlinkShape DEF ShapeStep
<1>3. ~Hot(journal')
  BY <1>1 DEF Hot
<1>4. Committed' = Committed
  <2>1. \A p \in Page : Committed'[p] = Committed[p]
    BY <1>0, <1>1, <1>3 DEF Committed
  <2> QED
    BY <1>0, <1>2, <2>1, SameCommitted
<1>5. Version' = Version
  BY <1>1, <1>4 DEF Version, Counter
<1>6. Journals'
  <2>1. \A p \in Page : p \in journal.counted => journal.old[p] = Committed[p]
    <3>1. \A p \in Page : p # 0
      BY DEF Page
    <3> QED
      BY <1>0, <3>1 DEF Sound, Hot, Committed, Restored
  <2> QED
    BY <1>0, <1>1, <1>4, <2>1 DEF Safe, Journals
<1>7. Pages'
  BY <1>0, <1>1, <1>4 DEF Pages
<1>8. Cool(c)' /\ Changing(c)' /\ Committing(c)' /\ Undoing(c)'
  BY <1>0, <1>1, <1>3 DEF Mine, Cool, Changing, Live, Reading, Committing, Undoing
<1>9. Holding(c)' /\ Stale(c)'
  BY <1>0, <1>1, <1>4, <1>5 DEF Mine, Holding, Stale, Fresh, Live, Reading, locks
<1> QED
  BY <1>0, <1>2, <1>3, <1>4, <1>5, <1>6, <1>7, <1>8, <1>9, AloneStepKeeps DEF Mine

(* And of one that stood for the transaction: this commits.                *)
LEMMA UnlinkCommits == ASSUME Safe, NEW c \in Conn, Unlink(c), commits[c] PROVE Safe'
<1>0. /\ Shape /\ TypeOK /\ Levels(c) /\ Mine(c) /\ Committing(c) /\ at[c] = "unlink" /\ lock[c] = L!EXCLUSIVE
      /\ c \in writer /\ tx[c] \in Tx /\ journal # None /\ Sound(journal) /\ Pages /\ 1 \in Page
      /\ \A p \in Page : /\ cache[c][p] \in {Absent, file[p]} /\ disk[p] = {file[p]}
                         /\ file[p] \in {Committed[p], tx[c]}
      /\ file[1] = tx[c] /\ vers[c] = count[tx[c]] /\ vers[c] = Version + 1
      /\ journal.sure = journal.counted /\ 0 \in journal.sure /\ cache[c][1] # Absent
  BY PagerAssumption
  DEF Safe, Shape, TypeOK, Unlink, Go, Levels, Mine, Committing, Journals, Journaled, Owning, Page
<1>1. /\ at'[c] = "downgrade" /\ journal' = None /\ ghost' = IF journal.named THEN journal ELSE ghost
      /\ UNCHANGED <<locks, cache, vers, tx, commits, todo, file, disk, count>>
  BY <1>0 DEF Unlink, Go, Quiet, TypeOK
<1>2. ShapeStep(c) /\ Shape'
  BY <1>0, UnlinkShape, ShapeStepKeeps
<1>3. ~Hot(journal') /\ Committed' = file
  BY <1>1 DEF Hot, Committed
<1>4. Version' = Version + 1 /\ Version \in Nat
  <2>1. Version' = count[tx[c]]
    BY <1>0, <1>1, <1>3 DEF Version, Counter
  <2>2. Version \in Nat
    BY <1>0, PagerAssumption DEF Version, Counter, TypeOK
  <2> QED
    BY <1>0, <2>1, <2>2
<1>5. Journals'
  <2>1. journal.named
    BY <1>0 DEF Sound
  <2> QED
    BY <1>0, <1>1, <2>1 DEF Journals
<1>6. Pages'
  BY <1>0, <1>1, <1>3 DEF Pages
<1>7. Mine(c)'
  <2>1. Cool(c)' /\ Changing(c)' /\ Committing(c)' /\ Undoing(c)'
    BY <1>0, <1>1, <1>3 DEF Cool, Changing, Live, Reading, Committing, Undoing
  <2>2. Holding(c)' /\ Stale(c)'
    BY <1>0, <1>1, <1>3, <1>4 DEF Holding, Stale, Fresh, locks
  <2> QED
    BY <2>1, <2>2 DEF Mine
<1>8. ASSUME NEW d \in Conn, d # c PROVE Mine(d)'
  <2>1. /\ at'[d] = at[d] /\ cache'[d] = cache[d] /\ vers'[d] = vers[d] /\ tx'[d] = tx[d]
        /\ commits'[d] = commits[d] /\ todo'[d] = todo[d]
        /\ lock'[d] = lock[d] /\ (d \in writer' <=> d \in writer) /\ (Live(d)' <=> Live(d))
    BY <1>1, <1>2, <1>8 DEF ShapeStep, Elsewhere, Live, locks
  <2>2. Mine(d) /\ Levels(d)
    BY <1>0 DEF Safe, Shape
  <2>3. d \notin writer /\ ~Live(d) /\ ~Owning(d) /\ lock[d] = L!NONE
    BY <1>0, <1>8, Alone DEF Shape, L!Exclusion
  <2>4. at[d] = "off"
    BY <1>0, <2>2, <2>3 DEF TypeOK, Levels, Reading
  <2>5. Cool(d)' /\ Changing(d)' /\ Holding(d)' /\ Committing(d)' /\ Undoing(d)'
    BY <2>1, <2>2, <2>3, <2>4 DEF Mine, Cool, Changing, Holding, Committing, Undoing
  <2>6. Stale(d)'
    <3>1. cache[d] = Empty \/ vers[d] <= Version
      BY <2>2, <2>3 DEF Mine, Stale
    <3>2. vers[d] \in Nat
      BY <1>0 DEF TypeOK
    <3> QED
      BY <1>4, <2>1, <3>1, <3>2 DEF Stale
  <2> QED
    BY <2>5, <2>6 DEF Mine
<1> QED
  BY <1>2, <1>5, <1>6, <1>7, <1>8 DEF Safe

LEMMA UnlinkSafe == ASSUME Safe, NEW c \in Conn, Unlink(c) PROVE Safe'
BY UnlinkUndone, UnlinkCommits

-----------------------------------------------------------------------------
(* Trouble. *)

(* A connection that is gone has nothing left to be wrong.                 *)
GoneParts(c) ==
  /\ at'[c] = "off" /\ cache'[c] = Empty /\ tx'[c] = None /\ ~commits'[c] /\ c \notin writer'

LEMMA GoneMine == ASSUME NEW c \in Conn, GoneParts(c) PROVE Mine(c)'
<1>1. Cool(c)' /\ Changing(c)' /\ Holding(c)' /\ Stale(c)'
  BY DEF GoneParts, Cool, Changing, Live, Holding, Stale, Empty
<1>2. Committing(c)' /\ Undoing(c)'
  BY DEF GoneParts, Committing, Undoing
<1> QED
  BY <1>1, <1>2 DEF Mine

LEMMA GiveUpSafe == ASSUME Safe, NEW c \in Conn, GiveUp(c) PROVE Safe' /\ Committed' = Committed
<1>0. Shape /\ TypeOK /\ Levels(c) /\ Mine(c)
  BY DEF Safe, Shape
<1>1. Forget({c}) /\ L!Release(c) /\ UNCHANGED <<journal, ghost, count>>
  BY DEF GiveUp
<1>2. ShapeStep(c) /\ TypeOK'
  BY <1>0, GiveUpShape DEF ShapeStep
<1>3. c \in writer \/ lock[c] = L!EXCLUSIVE
  BY <1>0 DEF GiveUp, Levels, Reading
<1>4. Mine(c)'
  <2>1. GoneParts(c)
    BY <1>0, <1>1, ForgetTypes DEF GoneParts, L!Release
  <2> QED
    BY <2>1, GoneMine
<1>5. CASE UNCHANGED <<file, disk>>
  <2>1. UNCHANGED <<stored, count>>
    BY <1>1, <1>5 DEF stored
  <2> QED
    BY <1>2, <1>4, <2>1, QuietStepKeeps
<1>6. CASE ~UNCHANGED <<file, disk>>
  <2>1. PICK p \in Page : Kept(p) /\ Put(p, Garbage)
    <3>1. CASE at[c] = "writer"
      <4>1. PICK p \in Dirty(c) \ {1} : ~NeedsSync(p) /\ Put(p, Garbage)
        BY <1>6, <3>1 DEF GiveUp
      <4> QED
        BY <4>1 DEF Dirty, NeedsSync, DbMod, Kept
    <3>2. CASE at[c] = "replay"
      <4>1. PICK p \in todo[c] : Put(p, Garbage)
        BY <1>6, <3>2 DEF GiveUp
      <4>2. p \in Page /\ p \in journal.sure /\ 0 \in journal.sure
        BY <1>0, <3>2, <4>1 DEF TypeOK, Mine, Undoing
      <4>3. journal # None
        BY <1>0, <3>2 DEF Shape, Journaled, Owning
      <4> QED
        BY <4>1, <4>2, <4>3 DEF Kept
    <3> QED
      BY <1>6, <3>1, <3>2 DEF GiveUp
  <2>2. Committed' = Committed /\ Version' = Version /\ Journals' /\ Pages' /\ Hot(journal)
    BY <1>1, <1>2, <2>1, PutKept DEF Content
  <2> QED
    BY <1>2, <1>3, <1>4, <2>2, AloneStepKeeps
<1> QED
  BY <1>5, <1>6

LEMMA CrashSafe == ASSUME Safe, NEW p \in Process, Crash(p) PROVE Safe'
<1> DEFINE C == {c \in Conn : ProcOf[c] = p}
<1>0. Shape /\ TypeOK /\ Shape'
  BY CrashShape DEF Safe, Shape
<1>1. /\ Forget(C) /\ vers' = [c \in Conn |-> IF c \in C THEN 0 ELSE vers[c]]
      /\ UNCHANGED <<stored, count>>
      /\ lock' = [c \in Conn |-> IF c \in C THEN L!NONE ELSE lock[c]] /\ writer' = writer \ C
  BY <1>0 DEF Crash, L!Exit, TypeOK
<1>2. C \in SUBSET Conn
  OBVIOUS
<1> HIDE DEF C
<1>3. Committed' = Committed /\ Version' = Version /\ UNCHANGED <<file, disk, journal, ghost>>
  BY <1>1, UnchangedCommitted
<1>4. Journals' /\ Pages'
  BY <1>3 DEF Safe, Journals, Pages, Kept
<1>5. ASSUME NEW d \in C PROVE Mine(d)'
  <2>1. GoneParts(d) /\ d \in Conn
    BY <1>0, <1>1, <1>2, ForgetTypes DEF GoneParts
  <2> QED
    BY <2>1, GoneMine
<1>6. ASSUME NEW d \in Conn \ C PROVE Mine(d)'
  <2>1. /\ at'[d] = at[d] /\ cache'[d] = cache[d] /\ vers'[d] = vers[d] /\ tx'[d] = tx[d]
        /\ commits'[d] = commits[d] /\ todo'[d] = todo[d]
        /\ lock'[d] = lock[d] /\ (d \in writer' <=> d \in writer) /\ (Live(d)' <=> Live(d))
    BY <1>0, <1>1, <1>2, ForgetTypes DEF Live
  <2>2. Mine(d)
    BY DEF Safe
  <2>3. Cool(d)' /\ Holding(d)' /\ Stale(d)'
    BY <1>3, <2>1, <2>2 DEF Mine, Cool, Holding, Stale, Fresh
  <2>4. Changing(d)'
    BY <1>1, <1>3, <2>1, <2>2 DEF Mine, Changing, ChangingPage
  <2>5. Committing(d)' /\ Undoing(d)'
    BY <1>1, <1>3, <2>1, <2>2 DEF Mine, Committing, Undoing
  <2> QED
    BY <2>3, <2>4, <2>5 DEF Mine
<1> QED
  BY <1>0, <1>4, <1>5, <1>6 DEF Safe

(* What a power loss leaves of a journal that is sound.                    *)
LEMMA LeftSound ==
  ASSUME NEW j \in Journal, Sound(j), NEW i \in Left(j)
  PROVE  Sound(i) /\ \A p \in Page : p \in j.counted => i.old[p] = j.old[p]
<1>1. /\ i \in Journal /\ i.orig = j.orig /\ i.hard = {0} \cup Recorded(j) /\ i.named
      /\ i.counted = i.sure /\ i.sure \in {j.sure, j.counted}
      /\ \A p \in Page : i.old[p] = IF p \in j.hard \/ j.old[p] = Absent THEN j.old[p] ELSE Garbage
  BY LeftParts
<1>2. Recorded(i) = Recorded(j)
  BY <1>1, NothingAssumption DEF Recorded
<1>3. \A p \in Page : p \in j.counted => i.old[p] = j.old[p]
  BY <1>1 DEF Sound
<1>4. i.counted \subseteq j.counted /\ j.counted \ {0} \subseteq Page
  BY <1>1, JournalParts DEF Sound, Page
<1>5. \A p \in i.counted \ {0} : i.old[p] \in Tx
  BY <1>3, <1>4 DEF Sound
<1> QED
  BY <1>1, <1>2, <1>3, <1>4, <1>5 DEF Sound

(* What may be committed after a power loss: what was, or what was before  *)
(* the last deletion of a journal that is not on disk.                     *)
LEMMA LostCommitted ==
  ASSUME Safe, PowerLoss, Shape'
  PROVE  \/ Committed' = Committed
         \/ ghost # None /\ Hot(ghost) /\ Committed' = Restored(ghost, Committed)
<1>0. TypeOK /\ TypeOK' /\ Pages /\ journal' \in LeftJournals
  BY DEF Safe, Shape, PowerLoss
<1>1. PICK f \in [Page -> UNION {disk[p] : p \in Page}] :
        (\A p \in Page : f[p] \in disk[p]) /\ file' = f
  BY DEF PowerLoss
<1>2. \A p \in Page : ~Kept(p) => file'[p] = Committed[p]
  BY <1>0, <1>1 DEF Pages
<1>3. Committed \in [Page -> Content] /\ Committed' \in [Page -> Content]
  BY <1>0, MendedType DEF Committed, TypeOK
<1>4. CASE journal # None /\ journal' \in Left(journal)
  <2>1. journal \in Journal /\ Sound(journal)
    BY <1>0, <1>4 DEF Safe, Journals, TypeOK
  <2>2. /\ journal' # None /\ journal'.orig = journal.orig
        /\ journal'.counted = journal'.sure /\ journal'.sure \in {journal.sure, journal.counted}
        /\ \A p \in Page : p \in journal.counted => journal'.old[p] = journal.old[p]
    BY <1>4, <2>1, LeftParts, LeftSound
  <2>3. ASSUME NEW p \in Page PROVE Committed'[p] = Committed[p]
    <3>1. p # 0
      BY DEF Page
    <3>2. CASE Hot(journal')
      <4>1. Hot(journal) /\ 0 \in journal'.sure
        BY <1>4, <2>1, <2>2, <3>2 DEF Hot, Sound
      <4>2. p \in journal'.sure => p \in journal.counted
        BY <2>1, <2>2 DEF Sound
      <4>3. p \in journal.orig /\ p \notin journal'.sure => ~Kept(p)
        BY <2>1, <2>2 DEF Sound, Kept
      <4> QED
        BY <1>2, <2>2, <3>2, <4>1, <4>2, <4>3 DEF Committed, Restored
    <3>3. CASE ~Hot(journal')
      <4>1. 0 \notin journal.sure
        BY <2>1, <2>2, <3>3 DEF Hot, Sound
      <4> QED
        BY <1>2, <3>3, <4>1 DEF Committed, Kept
    <3> QED
      BY <3>2, <3>3
  <2> QED
    BY <1>0, <2>3, SameCommitted
<1>5. CASE ~(journal # None /\ journal' \in Left(journal))
  <2>1. /\ journal = None \/ ~journal.named
        /\ journal' = None \/ (ghost # None /\ journal' \in Left(ghost))
    BY <1>0, <1>5 DEF LeftJournals
  <2>2. \A p \in Page : file'[p] = Committed[p]
    BY <1>2, <2>1 DEF Safe, Journals, Sound, Kept
  <2>3. CASE ~Hot(journal')
    <3>1. \A p \in Page : Committed'[p] = Committed[p]
      BY <2>2, <2>3 DEF Committed
    <3> QED
      BY <1>0, <3>1, SameCommitted
  <2>4. CASE Hot(journal')
    <3>1. /\ ghost # None /\ ghost \in Journal /\ journal' \in Left(ghost) /\ Sound(ghost)
          /\ \A p \in Page : p \in ghost.counted \ ghost.sure => ghost.old[p] = Committed[p]
      BY <1>0, <2>1, <2>4 DEF Hot, Safe, Journals, TypeOK
    <3>2. /\ journal'.orig = ghost.orig
          /\ journal'.counted = journal'.sure /\ journal'.sure \in {ghost.sure, ghost.counted}
          /\ \A p \in Page : p \in ghost.counted => journal'.old[p] = ghost.old[p]
      BY <3>1, LeftParts, LeftSound
    <3>3. Hot(ghost)
      BY <2>4, <3>1, <3>2 DEF Hot, Sound
    <3>4. ASSUME NEW p \in Page PROVE Committed'[p] = Restored(ghost, Committed)[p]
      <4>1. /\ journal'.sure \subseteq ghost.counted
            /\ p \in ghost.counted /\ p \notin journal'.sure => ghost.old[p] = Committed[p]
        BY <3>1, <3>2 DEF Sound
      <4> QED
        BY <2>2, <2>4, <3>2, <4>1 DEF Committed, Restored
    <3>5. Committed' = Restored(ghost, Committed)
      BY <1>3, <3>4 DEF Restored
    <3> QED
      BY <3>1, <3>3, <3>5
  <2> QED
    BY <2>3, <2>4
<1> QED
  BY <1>4, <1>5

LEMMA PowerLossSafe == ASSUME Safe, PowerLoss PROVE Safe'
<1>0. Shape /\ TypeOK /\ Shape' /\ TypeOK' /\ Pages /\ 1 \in Page
  BY PowerLossShape, PagerAssumption DEF Safe, Shape, Page
<1>1. /\ Forget(Conn) /\ writer' = {} /\ journal' \in LeftJournals /\ ghost' = None
  BY DEF PowerLoss, L!ExitAll
<1>2. ASSUME NEW d \in Conn PROVE Mine(d)'
  <2>1. GoneParts(d)
    BY <1>0, <1>1, ForgetTypes DEF GoneParts
  <2> QED
    BY <2>1, GoneMine
<1>3. journal' # None => Sound(journal') /\ journal'.counted = journal'.sure
  <2> SUFFICES ASSUME journal' # None PROVE Sound(journal') /\ journal'.counted = journal'.sure
    OBVIOUS
  <2>1. PICK j \in Journal \cap {journal, ghost} : journal' \in Left(j) /\ j # None
    BY <1>0, <1>1, LeftJournalsParts
  <2>2. Sound(j)
    BY <2>1 DEF Safe, Journals
  <2> QED
    BY <2>1, <2>2, LeftSound, LeftParts
<1>4. Journals'
  BY <1>1, <1>3 DEF Journals
<1>5. \A p \in Page : Committed'[p] \in Tx \cup {Absent} /\ (p = 1 => Committed'[p] \in Tx)
  <2>1. CASE Committed' = Committed
    BY <1>0, <2>1 DEF Pages
  <2>2. CASE ghost # None /\ Hot(ghost) /\ Committed' = Restored(ghost, Committed)
    <3>1. Sound(ghost)
      BY <2>2 DEF Safe, Journals
    <3>2. ASSUME NEW p \in Page
          PROVE  Committed'[p] = IF p \notin ghost.orig THEN Absent
                                 ELSE IF p \in ghost.counted THEN ghost.old[p] ELSE Committed[p]
      BY <2>2 DEF Restored
    <3>3. \A p \in Page : p \in ghost.counted => ghost.old[p] \in Tx
      BY <3>1 DEF Sound, Page
    <3> QED
      BY <1>0, <3>1, <3>2, <3>3 DEF Pages, Sound
  <2> QED
    BY <1>0, <2>1, <2>2, LostCommitted
<1>6. ASSUME NEW p \in Page, ~Kept(p)' PROVE file'[p] = Committed'[p] /\ disk'[p] = {Committed'[p]}
  <2>1. disk'[p] = {file'[p]}
    BY DEF PowerLoss
  <2>2. file'[p] = Committed'[p]
    BY <1>3, <1>6 DEF Committed, Restored, Hot, Kept
  <2> QED
    BY <2>1, <2>2
<1>7. Pages'
  BY <1>0, <1>5, <1>6 DEF Pages
<1> QED
  BY <1>0, <1>2, <1>4, <1>7 DEF Safe

-----------------------------------------------------------------------------
(* The invariant holds. *)

LEMMA InitSafe == Init => Safe
<1> SUFFICES ASSUME Init PROVE Safe
  OBVIOUS
<1>1. Shape /\ TypeOK /\ 1 \in Page
  BY InitShape, PagerAssumption DEF Shape, Page
<1>2. journal = None /\ ghost = None /\ Committed = file /\ disk = Synced
  BY DEF Init, Committed, Hot
<1>3. \A p \in Page : file[p] \in {0, Absent}
  BY DEF Init
<1>4. file[1] = 0
  BY <1>1 DEF Init, Page
<1>5. 0 \in Tx
  BY PagerAssumption DEF Tx
<1>6. Journals /\ Pages
  BY <1>2, <1>3, <1>4, <1>5 DEF Journals, Pages, Synced
<1>7. ASSUME NEW c \in Conn PROVE Mine(c)
  <2>1. at[c] = "off" /\ cache[c] = Empty /\ tx[c] = None /\ ~commits[c] /\ c \notin writer
    BY DEF Init, L!Init
  <2>2. Cool(c) /\ Changing(c) /\ Holding(c) /\ Stale(c)
    BY <2>1 DEF Cool, Changing, Live, Holding, Stale
  <2>3. Committing(c) /\ Undoing(c)
    BY <2>1 DEF Committing, Undoing
  <2> QED
    BY <2>2, <2>3 DEF Mine
<1> QED
  BY <1>1, <1>6, <1>7 DEF Safe

LEMMA SafeKept == Safe /\ Unhindered /\ [Next]_vars => Safe'
<1> SUFFICES ASSUME Safe, Unhindered, [Next]_vars PROVE Safe'
  OBVIOUS
<1>1. ASSUME NEW c \in Conn, Recovery(c) \/ Transaction(c) \/ Ending(c) PROVE Safe'
  <2>1. CASE Recovery(c)
    BY <2>1, RecoverySafe, SyncHotJournalSafe, ValidateSafe DEF Recovery
  <2>2. CASE Transaction(c)
    BY <2>2, RecoverySafe, CacheSafe, BeginSafe, SpillSafe, WritePageSafe, CommitPhaseOneSafe, WriteLockSafe,
       SyncRecordsSafe, WriteHeaderSafe, StorePageSafe, SyncStoredSafe DEF Transaction
  <2>3. CASE Ending(c)
    BY <2>3, EndUnchangedSafe, RollbackSafe, CommitFailsSafe, TruncateSafe, ReplaySafe, ReplayedSafe, SyncFileSafe,
       UnlinkSafe, DowngradeSafe, GiveUpSafe DEF Ending
  <2> QED
    BY <1>1, <2>1, <2>2, <2>3
<1>2. CASE UNCHANGED vars
  <2>1. /\ UNCHANGED <<lock, writer, at, cache, vers, tx, commits, todo, file, disk, journal, ghost, count, begun>>
        /\ UNCHANGED <<stored, count>>
    BY <1>2 DEF vars, locks, own, stored
  <2>2. Committed' = Committed /\ Version' = Version
    BY <2>1, UnchangedCommitted
  <2>3. Shape'
    BY <1>2, ShapeKept DEF Safe
  <2>4. Journals' /\ Pages'
    BY <2>1, <2>2 DEF Safe, Journals, Pages, Kept
  <2>5. ASSUME NEW d \in Conn PROVE Mine(d)'
    <3>1. Mine(d)
      BY DEF Safe
    <3>2. Cool(d)' /\ Holding(d)' /\ Stale(d)'
      BY <2>1, <2>2, <3>1 DEF Mine, Cool, Holding, Stale, Fresh, Live
    <3>3. Changing(d)'
      BY <2>1, <2>2, <3>1 DEF Mine, Changing, ChangingPage, Live
    <3>4. Committing(d)' /\ Undoing(d)'
      BY <2>1, <2>2, <3>1 DEF Mine, Committing, Undoing
    <3> QED
      BY <3>2, <3>3, <3>4 DEF Mine
  <2> QED
    BY <2>3, <2>4, <2>5 DEF Safe
<1> QED
  BY <1>1, <1>2, CrashSafe, PowerLossSafe DEF Next

LEMMA AlwaysSafe == Spec /\ []Unhindered => []Safe
<1> QED
  BY InitSafe, SafeKept, PTL DEF Spec

(* Nobody reads the file while a hot journal waits: the promise of the     *)
(* comment on PAGER_READER, kept as long as nobody is taken for a writer   *)
(* who only waits to play the journal back, and broken when somebody is.   *)
THEOREM HotJournalSeen == Spec /\ []Unhindered => []NoHotJournal
<1>1. Safe => NoHotJournal
  BY DEF Safe, Mine, Cool, NoHotJournal
<1> QED
  BY <1>1, AlwaysSafe, PTL

(* Under the same condition, a page whose content on disk is not certain   *)
(* to be what is committed has that content on disk in a journal, named    *)
(* and counted: syncJournal comes before the writes.                       *)
THEOREM JournalFirst == Spec /\ []Unhindered => []WriteAhead
<1>1. ASSUME Safe PROVE WriteAhead
  <2>1. ASSUME NEW p \in Page, disk[p] # {Committed[p]}
        PROVE  /\ journal # None /\ journal.named /\ 0 \in journal.sure \cap journal.hard
               /\ p \in journal.orig => p \in journal.sure \cap journal.hard
    <3>1. Kept(p) /\ Sound(journal)
      BY <1>1, <2>1 DEF Safe, Pages, Journals, Kept
    <3> QED
      BY <3>1 DEF Kept, Sound
  <2> QED
    BY <2>1 DEF WriteAhead
<1> QED
  BY <1>1, AlwaysSafe, PTL

(* And the pages a connection kept from an earlier transaction are those   *)
(* committed whenever the change counter says so: sqlite3PagerSharedLock   *)
(* may keep them, since no two commits leave the same counter.             *)
THEOREM CachesFresh == Spec /\ []Unhindered => []CacheFresh
<1>1. ASSUME Safe PROVE CacheFresh
  <2>1. ASSUME NEW c \in Conn, NEW p \in Page, at[c] = "off", vers[c] = Counter(Committed[1])
        PROVE  cache[c][p] \in {Absent, Committed[p]}
    <3>1. c \notin writer /\ Stale(c)
      BY <1>1, <2>1 DEF Safe, Shape, Levels, Mine
    <3> QED
      BY <2>1, <3>1 DEF Stale, Fresh, Version, Empty
  <2> QED
    BY <2>1 DEF CacheFresh
<1> QED
  BY <1>1, AlwaysSafe, PTL

-----------------------------------------------------------------------------
(* The steps of the pager as steps of the abstract store. *)

Last == IF ghost # None /\ Hot(ghost) THEN Restored(ghost, Committed) ELSE Committed

(* c sees its own transaction, or is back to what is committed.            *)
Seeing(c) == at[c] \in Reading \/ (at[c] = "unlink" /\ commits[c])
Back(c) == at[c] \in {"truncate", "replay", "sync_file", "unlink", "downgrade"} /\ c \in writer

LEMMA ViewOf ==
  ASSUME NEW c \in Conn
  PROVE  View[c] = IF Seeing(c) THEN Seen(c) ELSE IF Back(c) THEN Committed ELSE None
BY DEF View, Seeing, Back

LEMMA ViewOfNext ==
  ASSUME NEW c \in Conn
  PROVE  View'[c] = IF Seeing(c)' THEN Seen(c)' ELSE IF Back(c)' THEN Committed' ELSE None
BY DEF View, Seeing, Back

(* Who sees something sees pages. *)
LEMMA SomethingSeen ==
  ASSUME TypeOK, NEW c \in Conn
  PROVE  Seen(c) \in [Page -> Content] /\ Seen(c) # None /\ Committed \in [Page -> Content] /\ Committed # None
<1>1. Seen(c) \in [Page -> Content]
  BY DEF TypeOK, Seen
<1> QED
  BY <1>1, CommittedType, NothingAssumption

(* Outside of its own changes a connection sees what is committed.         *)
LEMMA HeldView ==
  ASSUME Safe, NEW c \in Conn, at[c] = "reader" \/ (at[c] = "writer" /\ tx[c] = None)
  PROVE  Seen(c) = Committed
<1>1. Mine(c) /\ Levels(c) /\ TypeOK /\ ~Live(c)
  BY DEF Safe, Shape, Live, Levels
<1>2. ~Hot(journal) /\ Fresh(c)
  BY <1>1 DEF Mine, Cool, Holding, Levels, Reading
<1>3. Committed = file
  BY <1>2 DEF Committed
<1>4. ASSUME NEW p \in Page PROVE Seen(c)[p] = Committed[p]
  BY <1>2, <1>3 DEF Seen, Fresh
<1> QED
  BY <1>1, <1>4, SomethingSeen

LEMMA HeldViewNext ==
  ASSUME Safe', NEW c \in Conn, at'[c] = "reader"
  PROVE  Seen(c)' = Committed'
<1>1. Mine(c)' /\ Levels(c)' /\ TypeOK' /\ ~Live(c)'
  BY DEF Safe, Shape, Live, Levels
<1>2. ~Hot(journal') /\ Fresh(c)'
  BY <1>1 DEF Mine, Cool, Holding, Levels, Reading
<1>3. Committed' = file' /\ file' \in [Page -> Content]
  BY <1>1, <1>2 DEF Committed, TypeOK
<1>4. Seen(c)' = [p \in Page |-> IF cache'[c][p] # Absent THEN cache'[c][p] ELSE file'[p]]
  BY DEF Seen
<1>5. \A p \in Page : cache'[c][p] \in {Absent, file'[p]}
  BY <1>2, <1>3 DEF Fresh
<1> QED
  BY <1>3, <1>4, <1>5

LEMMA SameSeen ==
  ASSUME NEW c \in Conn, UNCHANGED file, \A p \in Page : cache'[c][p] = cache[c][p]
  PROVE  Seen(c)' = Seen(c)
BY DEF Seen

(* What the others see while c takes a step. *)
LEMMA OthersView ==
  ASSUME Safe, NEW c \in Conn, ShapeStep(c), Committed' = Committed,
         UNCHANGED file \/ lock[c] = L!EXCLUSIVE, NEW d \in Conn, d # c
  PROVE  View'[d] = View[d]
<1>0. Shape /\ TypeOK /\ Levels(d) /\ L!Exclusion
  BY DEF Safe, Shape
<1>1. /\ at'[d] = at[d] /\ cache'[d] = cache[d] /\ commits'[d] = commits[d]
      /\ lock'[d] = lock[d] /\ (d \in writer' <=> d \in writer)
  BY <1>0, LockStepKeeps DEF ShapeStep, Elsewhere, TypeOK
<1>2. (Seeing(d)' <=> Seeing(d)) /\ (Back(d)' <=> Back(d))
  BY <1>1 DEF Seeing, Back
<1>3. CASE UNCHANGED file
  BY <1>1, <1>2, <1>3, ViewOf, ViewOfNext, SameSeen
<1>4. CASE lock[c] = L!EXCLUSIVE
  <2>1. lock[d] = L!NONE /\ d \notin writer /\ ~Owning(d)
    BY <1>0, <1>4, Alone DEF L!Exclusion
  <2>2. at[d] \notin Reading /\ ~Seeing(d) /\ ~Back(d)
    BY <1>0, <2>1 DEF Levels, Reading, Owning, Seeing, Back
  <2> QED
    BY <1>2, <2>2, ViewOf, ViewOfNext
<1> QED
  BY <1>3, <1>4

(* Whoever else reads while c may write sees what is committed.            *)
LEMMA ReadersView ==
  ASSUME Safe, NEW c \in Conn, c \in writer \/ lock[c] = L!EXCLUSIVE
  PROVE  A!OthersUnchanged(c)
<1>1. ASSUME NEW d \in Conn \ {c} PROVE View[d] \in {None, Committed}
  <2>1. Levels(d) /\ d \notin writer /\ ~Owning(d)
    BY Alone DEF Safe, Shape
  <2>2. ~Back(d) /\ (Seeing(d) => at[d] = "reader")
    BY <2>1 DEF Levels, Reading, Owning, Seeing, Back
  <2> QED
    BY <2>2, ViewOf, HeldView
<1> QED
  BY <1>1 DEF A!OthersUnchanged

LEMMA ViewStep ==
  ASSUME NEW c \in Conn, \A d \in Conn : d # c => View'[d] = View[d]
  PROVE  View' = [View EXCEPT ![c] = View'[c]]
<1>1. View = [d \in Conn |-> View[d]] /\ View' = [d \in Conn |-> View'[d]]
  BY DEF View
<1> QED
  BY <1>1

(* A step of the pager that is none of the store, or the end of a view.    *)
LEMMA SilentStep ==
  ASSUME Safe, NEW c \in Conn, ShapeStep(c), Committed' = Committed, UNCHANGED file \/ lock[c] = L!EXCLUSIVE,
         Last' = Last, View'[c] \in {View[c], None}
  PROVE  [A!Next]_(A!vars)
<1>1. \A d \in Conn : d # c => View'[d] = View[d]
  BY OthersView
<1>2. View' = [View EXCEPT ![c] = View'[c]] /\ View = [d \in Conn |-> View[d]]
  BY <1>1, ViewStep DEF View
<1>3. CASE View'[c] = View[c]
  <2>1. View' = View
    BY <1>2, <1>3
  <2> QED
    BY <2>1 DEF A!vars, Last
<1>4. CASE View'[c] = None
  <2>1. View' = [d \in Conn |-> IF d \in {c} THEN None ELSE View[d]] /\ {c} \in SUBSET Conn
    BY <1>2, <1>4
  <2>2. A!End({c})
    BY <2>1 DEF A!End, Last
  <2> QED
    BY <2>1, <2>2 DEF A!Next
<1> QED
  BY <1>3, <1>4

LEMMA SameLast == ASSUME Committed' = Committed, UNCHANGED ghost PROVE Last' = Last
BY DEF Last

(* To read up to the validation of the cache, and back: no view. *)
LEMMA RecoveryView ==
  ASSUME Safe, NEW c \in Conn,
         \/ ReadLock(c) \/ JournalExists(c) \/ CheckReserved(c) \/ FirstByte(c) \/ HotLock(c) \/ OpenFails(c)
         \/ OpenHotJournal(c) \/ EndRead(c) \/ SyncHotJournal(c)
  PROVE  [A!Next]_(A!vars)
<1>0. Shape /\ TypeOK /\ Levels(c)
  BY DEF Safe, Shape
<1>1. ShapeStep(c) /\ Committed' = Committed
  <2>1. CASE SyncHotJournal(c)
    BY <1>0, <2>1, SyncHotJournalShape, SyncHotJournalSafe
  <2>2. CASE ~SyncHotJournal(c)
    BY <1>0, <2>2, RecoveryShape, ReadingShape, UnchangedCommitted
    DEF ReadLock, JournalExists, CheckReserved, FirstByte, HotLock, OpenFails, OpenHotJournal, EndRead, Quiet
  <2> QED
    BY <2>1, <2>2
<1>2. UNCHANGED <<file, ghost>>
  BY DEF ReadLock, JournalExists, CheckReserved, FirstByte, HotLock, OpenFails, OpenHotJournal, EndRead,
         SyncHotJournal, stored
<1>3. /\ at'[c] \in {"off", "exists", "reserved", "first", "hot", "open", "resync", "validate", "truncate",
                    "sync_file"}
      /\ c \notin writer'
  <2>1. c \notin writer
    BY <1>0
    DEF ReadLock, JournalExists, CheckReserved, FirstByte, HotLock, OpenFails, OpenHotJournal, EndRead,
        SyncHotJournal, Go, Levels
  <2>2. at'[c] \in {"off", "exists", "reserved", "first", "hot", "open", "resync", "validate", "truncate",
                    "sync_file"}
    BY <1>0
    DEF ReadLock, JournalExists, CheckReserved, FirstByte, HotLock, OpenFails, OpenHotJournal, EndRead,
        SyncHotJournal, Go, TypeOK
  <2> QED
    BY <2>1, <2>2
    DEF ReadLock, JournalExists, CheckReserved, FirstByte, HotLock, OpenFails, OpenHotJournal, EndRead,
        SyncHotJournal, locks, L!TakeShared, L!TakePending, L!TakeExclusive, L!Release, L!Downgrade
<1>4. View'[c] = None
  BY <1>3, ViewOfNext DEF Seeing, Back, Reading
<1> QED
  BY <1>1, <1>2, <1>4, SameLast, SilentStep

(* A reader begins with what is committed. *)
LEMMA ValidateView == ASSUME Safe, NEW c \in Conn, Validate(c) PROVE [A!Next]_(A!vars)
<1>0. Shape /\ TypeOK /\ Levels(c) /\ UNCHANGED <<stored, count>> /\ at[c] = "validate" /\ at'[c] = "reader"
  BY DEF Safe, Shape, TypeOK, Validate, Go, Quiet
<1>1. ShapeStep(c) /\ Safe' /\ Committed' = Committed /\ UNCHANGED <<file, ghost>>
  BY <1>0, ValidateShape, ValidateSafe, UnchangedCommitted
<1>2. View[c] = None
  BY <1>0, ViewOf DEF Seeing, Back, Reading
<1>3. View'[c] = Committed
  <2>1. Seen(c)' = Committed'
    BY <1>0, <1>1, HeldViewNext
  <2> QED
    BY <1>0, <1>1, <2>1, ViewOfNext DEF Seeing, Reading
<1>4. View' = [View EXCEPT ![c] = Committed]
  BY <1>1, <1>3, OthersView, ViewStep
<1>5. A!Begin(c)
  BY <1>1, <1>2, <1>4, SameLast DEF A!Begin, A!Reads, Last
<1> QED
  BY <1>5 DEF A!Next

(* Pages come into the cache and go as they are in the file. *)
LEMMA CacheView ==
  ASSUME Safe, NEW c \in Conn, NEW p \in Page, ReadPage(c, p) \/ Evict(c, p)
  PROVE  [A!Next]_(A!vars)
<1>0. /\ Shape /\ TypeOK /\ Mine(c) /\ at[c] \in {"reader", "writer"} /\ at' = at /\ commits' = commits
      /\ UNCHANGED <<stored, count>>
  BY DEF Safe, Shape, ReadPage, Evict, Quiet
<1>1. ShapeStep(c) /\ Committed' = Committed /\ UNCHANGED <<file, ghost>>
  BY <1>0, CacheShape, UnchangedCommitted
<1>2. ASSUME Evict(c, p) PROVE cache[c][p] = file[p]
  <2>1. CASE tx[c] = None \/ at[c] = "reader"
    <3>1. Seen(c) = Committed /\ ~Live(c)
      BY <1>0, <2>1, HeldView DEF Live, Levels, Safe, Shape
    <3>2. ~Hot(journal)
      BY <1>0, <2>1 DEF Mine, Cool, Safe, Shape, Levels, Reading
    <3>3. Committed = file /\ cache[c][p] # Absent
      BY <1>2, <3>2 DEF Committed, Evict
    <3> QED
      BY <3>1, <3>3 DEF Seen
  <2>2. CASE Live(c)
    <3>1. ChangingPage(c, p) /\ cache[c][p] # Absent /\ (cache[c][p] = tx[c] => file[p] = tx[c])
      BY <1>0, <1>2, <2>2 DEF Mine, Changing, Evict, Dirty, Live
    <3> QED
      BY <3>1 DEF ChangingPage
  <2> QED
    BY <1>0, <2>1, <2>2 DEF Live, Reading
<1>3. Seen(c)' = Seen(c)
  <2>1. CASE ReadPage(c, p)
    <3>1. \A q \in Page : cache'[c][q] = IF q = p THEN file[p] ELSE cache[c][q]
      BY <1>0, <2>1 DEF ReadPage, TypeOK
    <3>2. cache[c][p] = Absent
      BY <2>1 DEF ReadPage
    <3> QED
      BY <1>1, <3>1, <3>2 DEF Seen
  <2>2. CASE Evict(c, p)
    <3>1. \A q \in Page : cache'[c][q] = IF q = p THEN Absent ELSE cache[c][q]
      BY <1>0, <2>2 DEF Evict, TypeOK
    <3>2. cache[c][p] = file[p]
      BY <1>2, <2>2
    <3> QED
      BY <1>1, <3>1, <3>2 DEF Seen
  <2> QED
    BY <2>1, <2>2
<1>4. View'[c] = View[c]
  BY <1>0, <1>3, ViewOf, ViewOfNext DEF Seeing, Reading
<1> QED
  BY <1>1, <1>4, SameLast, SilentStep

(* Steps that neither show nor hide a page. *)
LEMMA PassView ==
  ASSUME Safe, NEW c \in Conn,
         \/ Begin(c) \/ Spill(c) \/ WriteLock(c) \/ WriteBusy(c) \/ WriteHeader(c) \/ SyncHeader(c) \/ SyncStored(c)
  PROVE  [A!Next]_(A!vars)
<1>0. Shape /\ TypeOK /\ Mine(c)
  BY DEF Safe, Shape
<1>1. ShapeStep(c) /\ Committed' = Committed
  <2>1. CASE Begin(c) \/ WriteLock(c) \/ WriteBusy(c) \/ Spill(c)
    BY <1>0, <2>1, ReadingShape, SpillShape, UnchangedCommitted DEF Begin, WriteLock, WriteBusy, Spill, Quiet
  <2>2. CASE WriteHeader(c) \/ SyncHeader(c) \/ SyncStored(c)
    BY <1>0, <2>2, SyncJournalShape, SyncShape, WriteHeaderSafe, SyncRecordsSafe, SyncStoredSafe
  <2> QED
    BY <2>1, <2>2
<1>2. UNCHANGED <<cache, file, ghost>>
  BY DEF Begin, Spill, WriteLock, WriteBusy, WriteHeader, SyncHeader, SyncStored, stored
<1>3. Seeing(c)
  BY DEF Begin, Spill, WriteLock, WriteBusy, WriteHeader, SyncHeader, SyncStored, Go, Seeing, Reading
<1>4. Seeing(c)'
  <2>1. CASE SyncStored(c)
    <3>1. commits[c] /\ commits' = commits
      BY <1>0, <2>1 DEF SyncStored, Go, Mine, Changing, Live, Reading, Safe, Shape, Levels
    <3> QED
      BY <1>0, <2>1, <3>1 DEF SyncStored, Go, TypeOK, Seeing
  <2>2. CASE ~SyncStored(c)
    BY <1>0, <2>2 DEF Begin, Spill, WriteLock, WriteBusy, WriteHeader, SyncHeader, Go, Seeing, Reading, TypeOK
  <2> QED
    BY <2>1, <2>2
<1>5. View'[c] = View[c]
  BY <1>2, <1>3, <1>4, ViewOf, ViewOfNext, SameSeen
<1> QED
  BY <1>1, <1>2, <1>5, SameLast, SilentStep

(* With the journal its directory is synced: the last deletion is certain. *)
LEMMA SettleView == ASSUME Safe, NEW c \in Conn, SyncRecords(c) PROVE [A!Next]_(A!vars)
<1>0. Shape /\ TypeOK /\ UNCHANGED <<cache, file>> /\ ghost' = None /\ at[c] = "sync" /\ at'[c] = "header"
  BY DEF Safe, Shape, TypeOK, SyncRecords, Go
<1>1. ShapeStep(c) /\ Committed' = Committed
  BY <1>0, SyncJournalShape, SyncRecordsSafe
<1>2. View'[c] = View[c]
  BY <1>0, ViewOf, ViewOfNext, SameSeen DEF Seeing, Reading
<1>3. View' = [View EXCEPT ![c] = View[c]] /\ View = [d \in Conn |-> View[d]]
  BY <1>0, <1>1, <1>2, OthersView, ViewStep DEF View
<1>4. View' = View /\ Last' = Committed
  BY <1>0, <1>1, <1>3 DEF Last
<1>5. A!Settle
  BY <1>1, <1>4 DEF A!Settle, Last
<1> QED
  BY <1>5 DEF A!Next

(* A changed page is a change of the view. *)
LEMMA ChangedView ==
  ASSUME Safe, NEW c \in Conn, NEW p \in Page, NEW t \in Tx, ShapeStep(c), Committed' = Committed,
         at[c] = "writer", at'[c] \in Reading, UNCHANGED <<file, ghost>>,
         \A q \in Page : cache'[c][q] = IF q = p THEN t ELSE cache[c][q]
  PROVE  [A!Next]_(A!vars)
<1>0. Shape /\ TypeOK /\ Levels(c) /\ c \in writer
  BY DEF Safe, Shape, Levels, Reading
<1>1. View[c] = Seen(c) /\ View'[c] = Seen(c)' /\ View[c] # None
  BY <1>0, ViewOf, ViewOfNext, SomethingSeen DEF Seeing, Reading
<1>2. Seen(c)' = [Seen(c) EXCEPT ![p] = t]
  <2>1. t # Absent
    BY NothingAssumption
  <2> QED
    BY <2>1 DEF Seen
<1>3. View' = [View EXCEPT ![c] = [View[c] EXCEPT ![p] = t]]
  <2>1. View' = [View EXCEPT ![c] = View'[c]]
    BY OthersView, ViewStep
  <2> QED
    BY <1>1, <1>2, <2>1
<1>4. A!OthersUnchanged(c)
  BY <1>0, ReadersView
<1>5. A!Write(c)
  <2>1. t \in Content
    BY DEF Content
  <2> QED
    BY <1>1, <1>3, <1>4, <2>1, SameLast DEF A!Write, A!Reads, Last
<1> QED
  BY <1>5 DEF A!Next

LEMMA WriteView ==
  ASSUME Safe, NEW c \in Conn, CommitPhaseOne(c) \/ \E p \in Page : WritePage(c, p)
  PROVE  [A!Next]_(A!vars)
<1>0. /\ Shape /\ TypeOK /\ at[c] = "writer" /\ 1 \in Page /\ UNCHANGED <<file, ghost>> /\ at'[c] \in Reading
  BY PagerAssumption DEF Safe, Shape, TypeOK, WritePage, CommitPhaseOne, Go, Page, Reading
<1>1. ShapeStep(c) /\ Committed' = Committed
  BY <1>0, WritePageShape, CommitPhaseOneShape, WritePageSafe, CommitPhaseOneSafe
<1>2. \E p \in Page, t \in Tx : \A q \in Page : cache'[c][q] = IF q = p THEN t ELSE cache[c][q]
  <2>1. ASSUME tx[c] # None PROVE tx[c] \in Tx /\ journal \in Journal
    BY <1>0, <2>1 DEF TypeOK, Shape, Journaled, Live, Reading
  <2>2. CASE CommitPhaseOne(c)
    BY <1>0, <2>1, <2>2, ChangedTypes DEF CommitPhaseOne
  <2>3. ASSUME NEW p \in Page, WritePage(c, p)
        PROVE  \E t \in Tx : \A q \in Page : cache'[c][q] = IF q = p THEN t ELSE cache[c][q]
    <3>1. CASE tx[c] = None
      <4>1. begun + 1 \in Tx /\ NewJournal \in Journal /\ Changed(c, p, begun + 1, NewJournal)
        <5>1. begun < MaxTx /\ Changed(c, p, begun + 1, NewJournal)
          BY <2>3, <3>1 DEF WritePage
        <5>2. begun \in Tx
          BY <1>0 DEF TypeOK
        <5>3. begun + 1 \in Tx
          BY <5>1, <5>2, PagerAssumption DEF Tx
        <5> QED
          BY <1>0, <5>1, <5>3, NewJournalParts
      <4> QED
        BY <1>0, <4>1, ChangedTypes
    <3>2. CASE tx[c] # None
      BY <1>0, <2>1, <2>3, <3>2, ChangedTypes DEF WritePage
    <3> QED
      BY <3>1, <3>2
  <2> QED
    BY <2>2, <2>3
<1> QED
  BY <1>0, <1>1, <1>2, ChangedView

(* A page that goes to the file was seen by the one who writes it.         *)
LEMMA StoreView == ASSUME Safe, NEW c \in Conn, NEW p \in Page, StorePage(c, p) PROVE [A!Next]_(A!vars)
<1>0. /\ Shape /\ TypeOK /\ Journaled(c) /\ at[c] \in {"pages", "writer"} /\ cache[c][p] = tx[c] /\ tx[c] \in Tx
      /\ 0 \in journal.sure /\ Put(p, tx[c]) /\ UNCHANGED <<at, cache, commits, ghost>>
  BY DEF Safe, Shape, TypeOK, StorePage, Dirty, NeedsSync, DbMod
<1>1. ShapeStep(c) /\ Committed' = Committed
  BY <1>0, StorePageShape, StorePageSafe
<1>2. lock[c] = L!EXCLUSIVE
  BY <1>0, NothingAssumption DEF Journaled, Live, Reading
<1>3. Seen(c)' = Seen(c)
  <2>1. \A q \in Page : file'[q] = IF q = p THEN tx[c] ELSE file[q]
    BY <1>0, PutTypes DEF Content
  <2>2. tx[c] # Absent
    BY <1>0, NothingAssumption
  <2> QED
    BY <1>0, <2>1, <2>2 DEF Seen
<1>4. View'[c] = View[c]
  BY <1>0, <1>3, ViewOf, ViewOfNext DEF Seeing, Reading
<1> QED
  BY <1>0, <1>1, <1>2, <1>4, SameLast, SilentStep

(* The end of a transaction: its view goes back to what is committed.      *)
LEMMA RollbackView == ASSUME Safe, NEW c \in Conn, Rollback(c) \/ CommitFails(c) PROVE [A!Next]_(A!vars)
<1>0. /\ Shape /\ TypeOK /\ Levels(c) /\ PlayBack(c)
      /\ at[c] \in {"writer", "sync", "header", "sync_header", "pages"} /\ tx[c] # None
  BY DEF Safe, Shape, Rollback, CommitFails, Levels, Reading
<1>1. c \in writer /\ Live(c) /\ Changing(c)
  BY <1>0 DEF Levels, Live, Reading, Safe, Mine
<1>2. ShapeStep(c) /\ Committed' = Committed /\ UNCHANGED ghost
  <2>1. CASE Rollback(c)
    BY <1>0, <2>1, UndoShape, UnchangedCommitted DEF Rollback, PlayBack, stored
  <2>2. CASE CommitFails(c)
    BY <1>0, <2>2, UndoShape, CommitFailsSafe DEF PlayBack
  <2> QED
    BY <2>1, <2>2
<1>3. UNCHANGED file \/ lock[c] = L!EXCLUSIVE
  BY <1>0 DEF Rollback, CommitFails, Levels
<1>4. View[c] # None
  BY <1>0, ViewOf, SomethingSeen DEF Seeing, Reading
<1>5. View'[c] = Committed
  <2>1. at'[c] \in {"truncate", "unlink"} /\ ~commits'[c] /\ c \in writer'
    BY <1>0, <1>1 DEF PlayBack, TypeOK, locks
  <2> QED
    BY <1>2, <2>1, ViewOfNext DEF Seeing, Back, Reading
<1>6. View' = [View EXCEPT ![c] = Committed]
  BY <1>2, <1>3, <1>5, OthersView, ViewStep
<1>7. A!Rollback(c)
  BY <1>2, <1>4, <1>6, SameLast DEF A!Rollback, A!Reads, Last
<1> QED
  BY <1>7 DEF A!Next

LEMMA UndoView ==
  ASSUME Safe, NEW c \in Conn,
         EndUnchanged(c) \/ Truncate(c) \/ Replayed(c) \/ SyncFile(c) \/ Downgrade(c) \/ \E p \in Page : Replay(c, p)
  PROVE  [A!Next]_(A!vars)
<1>0. Shape /\ TypeOK /\ Levels(c) /\ Mine(c)
  BY DEF Safe, Shape
<1>1. ShapeStep(c) /\ Safe' /\ Committed' = Committed
  <2>1. CASE EndUnchanged(c) \/ Replayed(c) \/ Downgrade(c)
    BY <1>0, <2>1, ReadingShape, DowngradeShape, EndUnchangedSafe, ReplayedSafe, DowngradeSafe, UnchangedCommitted
    DEF EndUnchanged, Replayed, Downgrade, Quiet
  <2>2. CASE Truncate(c) \/ SyncFile(c) \/ \E p \in Page : Replay(c, p)
    BY <1>0, <2>2, TruncateShape, ReplayShape, SyncShape, TruncateSafe, ReplaySafe, SyncFileSafe
  <2> QED
    BY <2>1, <2>2
<1>2. UNCHANGED ghost /\ (UNCHANGED file \/ lock[c] = L!EXCLUSIVE)
  BY <1>0 DEF EndUnchanged, Truncate, Replayed, SyncFile, Downgrade, Replay, Go, Levels, stored
<1>3. View[c] = IF c \in writer THEN Committed ELSE None
  <2>1. CASE EndUnchanged(c)
    <3>1. at[c] = "writer" /\ tx[c] = None /\ c \in writer
      BY <1>0, <2>1 DEF EndUnchanged, Go, Levels, Reading
    <3> QED
      BY <3>1, HeldView, ViewOf DEF Seeing, Reading
  <2>2. CASE ~EndUnchanged(c)
    <3>1. at[c] \in {"truncate", "replay", "sync_file", "downgrade"}
      BY <2>2 DEF Truncate, Replayed, SyncFile, Downgrade, Replay, Go
    <3> QED
      BY <3>1, ViewOf DEF Seeing, Back, Reading
  <2> QED
    BY <2>1, <2>2
<1>4. View'[c] = View[c]
  <2>1. CASE Downgrade(c)
    <3>1. /\ at'[c] = IF c \in writer THEN "reader" ELSE "validate"
          /\ c \notin writer'
      BY <1>0, <2>1 DEF Downgrade, Go, TypeOK, L!Downgrade
    <3>2. CASE c \in writer
      BY <1>1, <1>3, <3>1, <3>2, HeldViewNext, ViewOfNext DEF Seeing, Reading
    <3>3. CASE c \notin writer
      BY <1>3, <3>1, <3>3, ViewOfNext DEF Seeing, Back, Reading
    <3> QED
      BY <3>2, <3>3
  <2>2. CASE ~Downgrade(c)
    <3>1. at'[c] \in {"replay", "sync_file", "unlink", "downgrade"} /\ writer' = writer
      BY <1>0, <2>2 DEF EndUnchanged, Truncate, Replayed, SyncFile, Replay, Go, TypeOK, locks
    <3>2. at'[c] = "unlink" => ~commits'[c]
      BY <1>0, <2>2 DEF EndUnchanged, Truncate, Replayed, SyncFile, Replay, Go, TypeOK, Mine, Undoing
    <3> QED
      BY <1>1, <1>3, <3>1, <3>2, ViewOfNext DEF Seeing, Back, Reading
  <2> QED
    BY <2>1, <2>2
<1> QED
  BY <1>1, <1>2, <1>4, SameLast, SilentStep

(* The deletion of the journal. *)
LEMMA UnlinkView == ASSUME Safe, NEW c \in Conn, Unlink(c) PROVE [A!Next]_(A!vars)
<1>0. /\ Shape /\ TypeOK /\ Levels(c) /\ Mine(c) /\ at[c] = "unlink"
      /\ c \in writer \/ lock[c] = L!EXCLUSIVE
      /\ journal # None /\ Sound(journal) /\ Committed \in [Page -> Content]
  BY CommittedType DEF Safe, Shape, Unlink, Go, Levels, Journals, Journaled, Owning
<1>1. /\ at'[c] = "downgrade" /\ journal' = None /\ ghost' = IF journal.named THEN journal ELSE ghost
      /\ UNCHANGED <<locks, cache, vers, tx, commits, todo, file, disk, count>>
  BY <1>0 DEF Unlink, Go, Quiet, TypeOK
<1>2. ShapeStep(c) /\ writer' = writer
  BY <1>0, <1>1, UnlinkShape DEF locks
<1>3. View'[c] = IF c \in writer THEN Committed' ELSE None
  BY <1>1, <1>2, ViewOfNext DEF Seeing, Back, Reading
<1>4. CASE ~commits[c]
  <2>1. Committed' = Committed
    BY <1>4, UnlinkUndone
  <2>2. View[c] = IF c \in writer THEN Committed ELSE None
    BY <1>0, <1>4, ViewOf DEF Seeing, Back, Reading
  <2>3. Hot(journal) => Restored(journal, Committed) = Committed
    <3>1. ASSUME Hot(journal) PROVE \A p \in Page : Restored(journal, Committed)[p] = Committed[p]
      BY <3>1 DEF Restored, Committed
    <3> QED
      BY <1>0, <3>1 DEF Restored
  <2>4. Last' = Last
    <3>1. journal.named => ghost = None
      BY <1>0 DEF Safe, Journals
    <3> QED
      BY <1>0, <1>1, <2>1, <2>3, <3>1, SameLast DEF Last
  <2> QED
    BY <1>1, <1>2, <1>3, <2>1, <2>2, <2>4, SilentStep
<1>5. CASE commits[c]
  <2>1. /\ lock[c] = L!EXCLUSIVE /\ c \in writer /\ 0 \in journal.counted /\ journal.named
        /\ \A p \in Page : cache[c][p] \in {Absent, file[p]}
        /\ \A p \in Page : file[p] \in {Committed[p], tx[c]}
    BY <1>0, <1>5 DEF Mine, Committing, Levels, Sound
  <2>2. Committed' = file /\ Hot(journal) /\ ghost' = journal
    BY <1>0, <1>1, <2>1 DEF Committed, Hot
  <2>3. View[c] = file /\ View[c] # None
    <3>1. View[c] = Seen(c)
      BY <1>0, <1>5, ViewOf DEF Seeing
    <3>2. \A p \in Page : Seen(c)[p] = file[p]
      BY <2>1 DEF Seen
    <3>3. Seen(c) \in [Page -> Content] /\ Seen(c) # None /\ file \in [Page -> Content]
      BY <1>0, SomethingSeen DEF TypeOK
    <3> QED
      BY <3>1, <3>2, <3>3
  <2>4. ASSUME NEW d \in Conn, d # c PROVE View[d] = None /\ View'[d] = None
    <3>1. lock[d] = L!NONE /\ d \notin writer /\ ~Owning(d) /\ Levels(d)
      BY <1>0, <2>1, <2>4, Alone DEF Shape, L!Exclusion
    <3>2. ~Seeing(d) /\ ~Back(d)
      BY <3>1 DEF Levels, Reading, Owning, Seeing, Back
    <3>3. at'[d] = at[d] /\ commits'[d] = commits[d] /\ (d \in writer' <=> d \in writer)
      BY <1>1, <1>2, <2>4 DEF ShapeStep, Elsewhere
    <3> QED
      BY <3>2, <3>3, ViewOf, ViewOfNext DEF Seeing, Back
  <2>5. View' = View
    <3>1. View = [d \in Conn |-> View[d]] /\ View' = [View EXCEPT ![c] = View'[c]]
      BY <2>4, ViewStep DEF View
    <3> QED
      BY <1>3, <2>1, <2>2, <2>3, <3>1
  <2>6. Last' = Committed
    <3>1. \A p \in Page : Restored(journal, file)[p] = Committed[p]
      BY <2>2 DEF Committed
    <3>2. Last' = Restored(journal, file)
      BY <1>0, <2>2 DEF Last, Hot
    <3> QED
      BY <2>2, <3>2 DEF Committed
  <2>7. A!Commit(c)
    BY <2>2, <2>3, <2>4, <2>5, <2>6 DEF A!Commit, A!Reads, Last
  <2> QED
    BY <2>7 DEF A!Next
<1> QED
  BY <1>4, <1>5

LEMMA GiveUpView == ASSUME Safe, NEW c \in Conn, GiveUp(c) PROVE [A!Next]_(A!vars)
<1>0. Shape /\ TypeOK /\ Levels(c) /\ Journaled(c) /\ Mine(c) /\ Forget({c}) /\ UNCHANGED ghost
  BY DEF Safe, Shape, GiveUp
<1>1. ShapeStep(c) /\ Committed' = Committed
  BY <1>0, GiveUpShape, GiveUpSafe
<1>2. UNCHANGED file \/ lock[c] = L!EXCLUSIVE
  <2>1. CASE at[c] = "writer" /\ ~UNCHANGED file
    <3>1. 0 \in journal.sure /\ tx[c] # None
      BY <2>1 DEF GiveUp, Dirty, NeedsSync, DbMod
    <3> QED
      BY <1>0, <2>1, <3>1 DEF Journaled, Live, Reading
  <2>2. CASE at[c] = "replay"
    BY <1>0, <2>2 DEF Levels
  <2> QED
    BY <2>1, <2>2 DEF GiveUp
<1>3. View'[c] = None
  <2>1. at'[c] = "off"
    BY <1>0, ForgetTypes
  <2> QED
    BY <2>1, ViewOfNext DEF Seeing, Back, Reading
<1> QED
  BY <1>0, <1>1, <1>2, <1>3, SameLast, SilentStep

LEMMA CrashView == ASSUME Safe, NEW p \in Process, Crash(p) PROVE [A!Next]_(A!vars)
<1> DEFINE C == {c \in Conn : ProcOf[c] = p}
<1>0. TypeOK
  BY DEF Safe, Shape
<1>1. Forget(C) /\ UNCHANGED <<stored, count>> /\ writer' = writer \ C
  BY <1>0 DEF Crash, L!Exit, TypeOK
<1>2. C \in SUBSET Conn
  OBVIOUS
<1> HIDE DEF C
<1>3. Committed' = Committed /\ UNCHANGED <<file, ghost>>
  BY <1>1, UnchangedCommitted
<1>4. ASSUME NEW d \in Conn PROVE View'[d] = IF d \in C THEN None ELSE View[d]
  <2>1. CASE d \in C
    <3>1. at'[d] = "off"
      BY <1>0, <1>1, <1>2, <2>1, ForgetTypes
    <3> QED
      BY <2>1, <3>1, ViewOfNext DEF Seeing, Back, Reading
  <2>2. CASE d \notin C
    <3>1. at'[d] = at[d] /\ cache'[d] = cache[d] /\ commits'[d] = commits[d] /\ (d \in writer' <=> d \in writer)
      BY <1>0, <1>1, <1>2, <2>2, ForgetTypes
    <3>2. (Seeing(d)' <=> Seeing(d)) /\ (Back(d)' <=> Back(d)) /\ Seen(d)' = Seen(d)
      BY <1>3, <3>1, SameSeen DEF Seeing, Back
    <3> QED
      BY <1>3, <2>2, <3>2, ViewOf, ViewOfNext
  <2> QED
    BY <2>1, <2>2
<1>5. View' = [d \in Conn |-> IF d \in C THEN None ELSE View[d]]
  <2>1. View' = [d \in Conn |-> View'[d]]
    BY DEF View
  <2> QED
    BY <1>4, <2>1
<1>6. A!End(C)
  BY <1>3, <1>5, SameLast DEF A!End, Last
<1> QED
  BY <1>2, <1>6 DEF A!Next

LEMMA PowerLossView == ASSUME Safe, PowerLoss PROVE [A!Next]_(A!vars)
<1>0. TypeOK /\ Shape' /\ Forget(Conn) /\ ghost' = None
  BY PowerLossShape DEF Safe, Shape, PowerLoss
<1>1. Committed' \in {Committed, Last}
  BY <1>0, LostCommitted DEF Last
<1>2. Last' = Committed'
  BY <1>0 DEF Last
<1>3. View' = [d \in Conn |-> None]
  <2>1. \A d \in Conn : at'[d] = "off"
    BY <1>0, ForgetTypes
  <2>2. \A d \in Conn : View'[d] = None
    BY <2>1, ViewOfNext DEF Seeing, Back, Reading
  <2> QED
    BY <2>2 DEF View
<1>4. A!PowerLoss
  BY <1>1, <1>2, <1>3 DEF A!PowerLoss, Last
<1> QED
  BY <1>4 DEF A!Next

LEMMA InitStore == Init => A!Init
<1> SUFFICES ASSUME Init PROVE A!Init
  OBVIOUS
<1>1. TypeOK /\ ghost = None
  BY InitShape DEF Shape, Init
<1>2. Committed \in [Page -> Content] /\ Last = Committed
  BY <1>1, CommittedType DEF Last
<1>3. View = [c \in Conn |-> None]
  <2>1. \A c \in Conn : at[c] = "off"
    BY DEF Init
  <2> QED
    BY <2>1 DEF View, Reading
<1> QED
  BY <1>2, <1>3 DEF A!Init, A!Content, Last

LEMMA NextStore == Safe /\ [Next]_vars => [A!Next]_(A!vars)
<1> SUFFICES ASSUME Safe, [Next]_vars PROVE [A!Next]_(A!vars)
  OBVIOUS
<1>1. ASSUME NEW c \in Conn, Recovery(c) \/ Transaction(c) \/ Ending(c) PROVE [A!Next]_(A!vars)
  <2>1. CASE Recovery(c)
    BY <2>1, RecoveryView, ValidateView DEF Recovery
  <2>2. CASE Transaction(c)
    BY <2>2, RecoveryView, PassView, CacheView, WriteView, SettleView, StoreView DEF Transaction
  <2>3. CASE Ending(c)
    BY <2>3, RollbackView, UndoView, UnlinkView, GiveUpView DEF Ending
  <2> QED
    BY <1>1, <2>1, <2>2, <2>3
<1>2. CASE UNCHANGED vars
  <2>1. UNCHANGED <<at, cache, commits, writer, file, journal, ghost>>
    BY <1>2 DEF vars, locks, own, stored
  <2>2. UNCHANGED <<Committed, View, Last>>
    BY <2>1 DEF Committed, View, Seen, Last
  <2> QED
    BY <2>2 DEF A!vars, Last
<1> QED
  BY <1>1, <1>2, CrashView, PowerLossView DEF Next

(* The pager keeps the promise of the store: a transaction sees one state, *)
(* apart from its own changes, commits as a whole when its journal goes or *)
(* leaves nothing, and of what was committed a power loss takes back at    *)
(* most the last transaction, whichever connections share a process, as    *)
(* long as nobody is taken for a writer who waits to play a journal back.  *)
THEOREM PagerImplementsStore == Spec /\ []Unhindered => StoreSpec
<1> QED
  BY InitStore, AlwaysSafe, NextStore, PTL DEF Spec, StoreSpec, A!Spec

(* When every connection has a process of its own, nothing is needed: the  *)
(* store is implemented, the journal written first, the cache fresh and no *)
(* hot journal read past, whoever crashes where.                           *)
THEOREM OneEachStore ==
  OneEach /\ Spec => StoreSpec /\ []NoHotJournal /\ []WriteAhead /\ []CacheFresh
<1>1. OneEach /\ [Next]_vars => OneEach'
  BY DEF OneEach
<1>2. OneEach => Unhindered
  BY DEF OneEach, Unhindered, L!Neighbours
<1> QED
  BY <1>1, <1>2, PagerImplementsStore, HotJournalSeen, JournalFirst, CachesFresh, PTL DEF Spec

=============================================================================
