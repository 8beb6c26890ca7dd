-------------------------------- MODULE Pager --------------------------------
(***************************************************************************)
(* The rollback journal of pager.c in SQLite: how transactions of several  *)
(* connections read and change the pages of one file, and how the file is  *)
(* brought back after a process died or the power failed in the middle.    *)
(*                                                                         *)
(* Files have two faces.  Every process sees what was written; a power     *)
(* loss leaves what was synced and any part of what was written since.     *)
(* Contents are abstracted to the transaction that wrote a page.  Locks    *)
(* are those of LockTable, which UnixLock implements; that a lock is not   *)
(* free is no step, unless giving up changes something.                    *)
(***************************************************************************)
EXTENDS Naturals, FiniteSets

CONSTANTS
  Conn,       \* pagers of one database file
  Process,    \* processes
  ProcOf,     \* the process of a pager
  N,          \* bound on the pages of the file
  MaxTx,      \* bound on transactions that change a page
  MaxTrouble, \* bound on crashes, power losses and failed system calls
  Garbage,    \* content of a page written in part
  Absent,     \* a page beyond the end of the file, or not in a cache or journal
  None        \* no transaction, no journal

ASSUME PagerAssumption ==
  /\ ProcOf \in [Conn -> Process]
  /\ N \in Nat \ {0} /\ MaxTx \in Nat /\ MaxTrouble \in Nat

Page == 1..N
Tx == 0..MaxTx
Content == Tx \cup {Garbage, Absent}

VARIABLES
  lock, writer, \* the lock table
  at,           \* where a pager is
  cache,        \* its pages, clean and dirty
  vers,         \* its dbFileVers: the change counter its cache is of
  tx,           \* the transaction it changes pages for
  commits,      \* it flushes to commit, not to make room in the cache
  todo,         \* pages it has yet to play back
  file,         \* the database as processes see it
  disk,         \* the contents a page may have after a power loss
  journal,      \* the journal file
  ghost,        \* a deleted journal whose deletion is not on disk
  count,        \* the change counter a transaction leaves in page 1
  begun,        \* transactions so far
  trouble       \* crashes, losses and failures so far

locks == <<lock, writer>>
own == <<at, cache, vers, tx, commits, todo>>
stored == <<file, disk, journal, ghost>>
vars == <<locks, own, stored, count, begun, trouble>>

L == INSTANCE LockTable

-----------------------------------------------------------------------------
(* Journal records. *)

(* Page 0 stands for the header: in hard when it is on disk, in counted    *)
(* when its magic number and count have been written, with the pages they  *)
(* count, in sure when that is on disk.  named: its directory entry is.    *)
Journal == [orig: SUBSET Page, old: [Page -> Content], hard: SUBSET (0..N), counted: SUBSET (0..N),
            sure: SUBSET (0..N), named: BOOLEAN]

(* The values that stand for nothing are none of the others.               *)
ASSUME NothingAssumption ==
  /\ Absent \notin Tx /\ Garbage \notin Tx \cup {Absent}
  /\ None \notin Tx \cup Journal \cup [Page -> Content]

NewJournal == [orig |-> {p \in Page : file[p] # Absent}, old |-> [p \in Page |-> Absent],
               hard |-> {}, counted |-> {}, sure |-> {}, named |-> FALSE]
Recorded(j) == {p \in Page : j.old[p] # Absent}
Hot(j) == j # None /\ 0 \in j.counted

Restored(j, f) ==
  [p \in Page |-> IF p \notin j.orig THEN Absent ELSE IF p \in j.counted THEN j.old[p] ELSE f[p]]

(* The state eState of a writer: it may change the file. *)
DbMod == journal # None /\ 0 \in journal.sure

(* A page not synced may have had any of its contents, or parts of two. *)
Put(p, v) ==
  /\ file' = [file EXCEPT ![p] = v]
  /\ disk' = [disk EXCEPT ![p] = @ \cup {v, Garbage}]
Synced == [p \in Page |-> {file[p]}]

Empty == [p \in Page |-> Absent]
Counter(v) == IF v \in Tx THEN count[v] ELSE 0
Seen(c) == [p \in Page |-> IF cache[c][p] # Absent THEN cache[c][p] ELSE file[p]]
Dirty(c) == {p \in Page : tx[c] # None /\ cache[c][p] = tx[c] /\ file[p] # tx[c]}

Go(c, here, there) == at[c] = here /\ at' = [at EXCEPT ![c] = there]
Trouble == trouble < MaxTrouble /\ trouble' = trouble + 1
Quiet == UNCHANGED <<count, begun, trouble>>

Init ==
  /\ L!Init
  /\ at = [c \in Conn |-> "off"]
  /\ cache = [c \in Conn |-> Empty]
  /\ vers = [c \in Conn |-> 0]
  /\ tx = [c \in Conn |-> None]
  /\ commits = [c \in Conn |-> FALSE]
  /\ todo = [c \in Conn |-> {}]
  /\ \E n \in Page : file = [p \in Page |-> IF p <= n THEN 0 ELSE Absent]
  /\ disk = Synced
  /\ journal = None /\ ghost = None
  /\ count = [t \in Tx |-> 0]
  /\ begun = 0 /\ trouble = 0

-----------------------------------------------------------------------------
(* sqlite3PagerSharedLock: to read, after a look for a hot journal. *)

ReadLock(c) ==
  /\ Go(c, "off", "exists")
  /\ L!TakeShared(c)
  /\ UNCHANGED <<cache, vers, tx, commits, todo, stored>> /\ Quiet

JournalExists(c) ==
  /\ Go(c, "exists", IF journal = None THEN "validate" ELSE "reserved")
  /\ UNCHANGED <<locks, cache, vers, tx, commits, todo, stored>> /\ Quiet

CheckReserved(c) ==
  /\ Go(c, "reserved", IF L!Reserved(c) THEN "validate" ELSE "first")
  /\ UNCHANGED <<locks, cache, vers, tx, commits, todo, stored>> /\ Quiet

(* Mutant of FirstByte: any journal that is there is taken for a cold one. *)
FirstByteUnread(c) ==
  /\ Go(c, "first", IF journal = None THEN "hot" ELSE "validate")
  /\ UNCHANGED <<locks, cache, vers, tx, commits, todo, stored>> /\ Quiet

(* A journal that is gone by now is taken for a hot one. *)
FirstByte(c) ==
  /\ Go(c, "first", IF journal = None \/ Hot(journal) THEN "hot" ELSE "validate")
  /\ UNCHANGED <<locks, cache, vers, tx, commits, todo, stored>> /\ Quiet

HotLock(c) ==
  /\ \/ Go(c, "hot", "hot") /\ L!TakePending(c)
     \/ Go(c, "hot", "open") /\ L!TakeExclusive(c)
  /\ UNCHANGED <<cache, vers, tx, commits, todo, stored>> /\ Quiet

(* pager_unlock when the lock is not free, or a system call fails. *)
OpenFails(c) ==
  /\ \/ at[c] = "hot" /\ UNCHANGED trouble
     \/ at[c] \in {"exists", "reserved", "first", "open", "validate"} /\ Trouble
  /\ at' = [at EXCEPT ![c] = "off"]
  /\ L!Release(c)
  /\ UNCHANGED <<cache, vers, tx, commits, todo, stored, count, begun>>

(* Someone else may have played the journal back meanwhile. *)
OpenHotJournal(c) ==
  /\ \/ journal = None /\ Go(c, "open", "validate") /\ L!Downgrade(c)
     \/ journal # None /\ Go(c, "open", "resync") /\ UNCHANGED locks
  /\ UNCHANGED <<cache, vers, tx, commits, todo, stored>> /\ Quiet

(* Mutant of SyncHotJournal: no sync. *)
SyncHotJournalNot(c) ==
  /\ Go(c, "resync", IF Hot(journal) THEN "truncate" ELSE "sync_file")
  /\ todo' = [todo EXCEPT ![c] = journal.counted \ {0}]
  /\ UNCHANGED <<locks, cache, vers, tx, commits, stored>> /\ Quiet

(* pagerSyncHotJournal, and the first header read by pager_playback. *)
SyncHotJournal(c) ==
  /\ Go(c, "resync", IF Hot(journal) THEN "truncate" ELSE "sync_file")
  /\ journal' = [orig |-> journal.orig, old |-> journal.old, hard |-> {0} \cup Recorded(journal),
                 counted |-> journal.counted, sure |-> journal.counted, named |-> journal.named]
  /\ todo' = [todo EXCEPT ![c] = journal.counted \ {0}]
  /\ UNCHANGED <<locks, cache, vers, tx, commits, file, disk, ghost>> /\ Quiet

(* Mutant of Validate: the cache is kept. *)
ValidateNot(c) ==
  /\ Go(c, "validate", "reader")
  /\ cache' = [cache EXCEPT ![c] = [@ EXCEPT ![1] = file[1]]]
  /\ vers' = [vers EXCEPT ![c] = Counter(file[1])]
  /\ UNCHANGED <<locks, tx, commits, todo, stored>> /\ Quiet

(* The cache goes when the change counter is not its own; page 1 is read.  *)
Validate(c) ==
  LET kept == IF vers[c] = Counter(file[1]) THEN cache[c] ELSE Empty IN
  /\ Go(c, "validate", "reader")
  /\ cache' = [cache EXCEPT ![c] = IF kept[1] # Absent THEN kept ELSE [kept EXCEPT ![1] = file[1]]]
  /\ vers' = [vers EXCEPT ![c] = Counter(file[1])]
  /\ UNCHANGED <<locks, tx, commits, todo, stored>> /\ Quiet

-----------------------------------------------------------------------------
(* Reading and changing pages. *)

ReadPage(c, p) ==
  /\ at[c] \in {"reader", "writer"}
  /\ cache[c][p] = Absent /\ file[p] # Absent
  /\ cache' = [cache EXCEPT ![c][p] = file[p]]
  /\ UNCHANGED <<locks, at, vers, tx, commits, todo, stored>> /\ Quiet

(* Page 1 is held as long as a transaction is open. *)
Evict(c, p) ==
  /\ at[c] \in {"reader", "writer"}
  /\ p # 1 /\ cache[c][p] # Absent /\ p \notin Dirty(c)
  /\ cache' = [cache EXCEPT ![c][p] = Absent]
  /\ UNCHANGED <<locks, at, vers, tx, commits, todo, stored>> /\ Quiet

EndRead(c) ==
  /\ Go(c, "reader", "off")
  /\ L!Release(c)
  /\ UNCHANGED <<cache, vers, tx, commits, todo, stored>> /\ Quiet

Begin(c) ==
  /\ Go(c, "reader", "writer")
  /\ L!TakeReserved(c)
  /\ UNCHANGED <<cache, vers, tx, commits, todo, stored>> /\ Quiet

(* pager_write and pagerAddPageToRollbackJournal: the content before goes  *)
(* to the journal once, that of a new page never.                          *)
Changed(c, p, t, j) ==
  /\ journal' = IF p \in j.orig /\ j.old[p] = Absent THEN [j EXCEPT !.old[p] = cache[c][p]] ELSE j
  /\ cache' = [cache EXCEPT ![c][p] = t]

(* The first change opens the journal, with a header that has no magic.    *)
WritePage(c, p) ==
  /\ at[c] = "writer"
  /\ cache[c][p] # Absent \/ (Seen(c)[p] = Absent /\ \A q \in 1..(p - 1) : Seen(c)[q] # Absent)
  /\ \/ /\ tx[c] = None /\ begun < MaxTx
        /\ begun' = begun + 1
        /\ tx' = [tx EXCEPT ![c] = begun + 1]
        /\ Changed(c, p, begun + 1, NewJournal)
     \/ /\ tx[c] # None
        /\ Changed(c, p, tx[c], journal)
        /\ UNCHANGED <<tx, begun>>
  /\ UNCHANGED <<locks, at, vers, commits, todo, file, disk, ghost, count, trouble>>

-----------------------------------------------------------------------------
(* syncJournal: EXCLUSIVE, then the records to disk, then the header that  *)
(* counts them, and that to disk.                                          *)

(* Where p may not be written yet. *)
NeedsSync(p) == ~DbMod \/ (p \in journal.orig /\ p \notin journal.sure)

(* pagerStress makes room in the cache. *)
Spill(c) ==
  /\ \E p \in Dirty(c) \ {1} : NeedsSync(p)
  /\ Go(c, "writer", IF lock[c] = L!EXCLUSIVE THEN "sync" ELSE "lock")
  /\ commits' = [commits EXCEPT ![c] = FALSE]
  /\ UNCHANGED <<locks, cache, vers, tx, todo, stored>> /\ Quiet

(* Mutants of CommitPhaseOne: the change counter stays, and it is stepped  *)
(* by every try.                                                           *)
CommitUncounted(c) ==
  /\ tx[c] # None
  /\ Go(c, "writer", IF lock[c] = L!EXCLUSIVE THEN "sync" ELSE "lock")
  /\ Changed(c, 1, tx[c], journal)
  /\ count' = [count EXCEPT ![tx[c]] = vers[c]]
  /\ commits' = [commits EXCEPT ![c] = TRUE]
  /\ UNCHANGED <<locks, vers, tx, todo, file, disk, ghost, begun, trouble>>

CommitCountsTries(c) ==
  /\ tx[c] # None
  /\ Go(c, "writer", IF lock[c] = L!EXCLUSIVE THEN "sync" ELSE "lock")
  /\ Changed(c, 1, tx[c], journal)
  /\ count' = [count EXCEPT ![tx[c]] = IF @ > vers[c] THEN @ + 1 ELSE vers[c] + 1]
  /\ commits' = [commits EXCEPT ![c] = TRUE]
  /\ UNCHANGED <<locks, vers, tx, todo, file, disk, ghost, begun, trouble>>

(* sqlite3PagerCommitPhaseOne, with pager_incr_changecounter. *)
CommitPhaseOne(c) ==
  /\ tx[c] # None
  /\ Go(c, "writer", IF lock[c] = L!EXCLUSIVE THEN "sync" ELSE "lock")
  /\ Changed(c, 1, tx[c], journal)
  /\ count' = [count EXCEPT ![tx[c]] = vers[c] + 1]
  /\ commits' = [commits EXCEPT ![c] = TRUE]
  /\ UNCHANGED <<locks, vers, tx, todo, file, disk, ghost, begun, trouble>>

WriteLock(c) ==
  /\ \/ Go(c, "lock", "lock") /\ L!TakePending(c)
     \/ Go(c, "lock", "sync") /\ L!TakeExclusive(c)
  /\ UNCHANGED <<cache, vers, tx, commits, todo, stored>> /\ Quiet

WriteBusy(c) ==
  /\ Go(c, "lock", "writer")
  /\ UNCHANGED <<locks, cache, vers, tx, commits, todo, stored>> /\ Quiet

(* With the first sync of a journal its directory is synced. *)
SyncRecords(c) ==
  /\ Go(c, "sync", "header")
  /\ journal' = [orig |-> journal.orig, old |-> journal.old, hard |-> {0} \cup Recorded(journal),
                 counted |-> journal.counted, sure |-> journal.sure, named |-> TRUE]
  /\ ghost' = None
  /\ UNCHANGED <<locks, cache, vers, tx, commits, todo, file, disk>> /\ Quiet

WriteHeader(c) ==
  /\ Go(c, "header", "sync_header")
  /\ journal' = [journal EXCEPT !.counted = {0} \cup Recorded(journal)]
  /\ UNCHANGED <<locks, cache, vers, tx, commits, todo, file, disk, ghost>> /\ Quiet

SyncHeader(c) ==
  /\ Go(c, "sync_header", IF commits[c] THEN "pages" ELSE "writer")
  /\ journal' = [journal EXCEPT !.sure = journal.counted]
  /\ UNCHANGED <<locks, cache, vers, tx, commits, todo, file, disk, ghost>> /\ Quiet

(* pager_write_pagelist: in the order of the pages, or one page to spill.  *)
StorePage(c, p) ==
  /\ p \in Dirty(c) /\ ~NeedsSync(p)
  /\ \/ at[c] = "pages" /\ \A q \in Dirty(c) : p <= q
     \/ at[c] = "writer" /\ p # 1
  /\ Put(p, cache[c][p])
  /\ vers' = IF p = 1 THEN [vers EXCEPT ![c] = count[tx[c]]] ELSE vers
  /\ UNCHANGED <<locks, at, cache, tx, commits, todo, journal, ghost>> /\ Quiet

SyncStored(c) ==
  /\ Go(c, "pages", "unlink")
  /\ Dirty(c) = {}
  /\ disk' = Synced
  /\ UNCHANGED <<locks, cache, vers, tx, commits, todo, file, journal, ghost>> /\ Quiet

-----------------------------------------------------------------------------
(* sqlite3PagerRollback, and pager_playback with its own or a hot journal. *)

(* A transaction that changed nothing only lets its lock go. *)
EndUnchanged(c) ==
  /\ tx[c] = None
  /\ Go(c, "writer", "downgrade")
  /\ UNCHANGED <<locks, cache, vers, tx, commits, todo, stored>> /\ Quiet

(* The cache gets its contents back; the file does if it was changed. *)
PlayBack(c) ==
  /\ at' = [at EXCEPT ![c] = IF DbMod THEN "truncate" ELSE "unlink"]
  /\ cache' = [cache EXCEPT ![c] =
       [p \in Page |-> IF p \notin journal.orig THEN Absent
                       ELSE IF @[p] # Absent /\ journal.old[p] # Absent THEN journal.old[p] ELSE @[p]]]
  /\ vers' = IF journal.old[1] # Absent THEN [vers EXCEPT ![c] = Counter(journal.old[1])] ELSE vers
  /\ todo' = [todo EXCEPT ![c] = journal.sure \ {0}]
  /\ commits' = [commits EXCEPT ![c] = FALSE]
  /\ UNCHANGED <<locks, tx, journal, ghost, count, begun>>

Rollback(c) ==
  /\ at[c] = "writer" /\ tx[c] # None
  /\ PlayBack(c)
  /\ UNCHANGED <<file, disk, trouble>>

(* A commit fails, at a page with only a part of it written. *)
CommitFails(c) ==
  /\ commits[c] /\ at[c] \in {"sync", "header", "sync_header", "pages"}
  /\ PlayBack(c) /\ Trouble
  /\ \/ UNCHANGED <<file, disk>>
     \/ at[c] = "pages" /\ \E p \in Dirty(c) : Put(p, Garbage)

Beyond == {p \in Page : p \notin journal.orig}

Truncate(c) ==
  /\ Go(c, "truncate", "replay")
  /\ file' = [p \in Page |-> IF p \in Beyond THEN Absent ELSE file[p]]
  /\ disk' = [p \in Page |-> IF p \in Beyond THEN disk[p] \cup {Absent} ELSE disk[p]]
  /\ cache' = IF c \notin writer /\ todo[c] # {} THEN [cache EXCEPT ![c] = Empty] ELSE cache
  /\ UNCHANGED <<locks, vers, tx, commits, todo, journal, ghost>> /\ Quiet

Replay(c, p) ==
  /\ at[c] = "replay" /\ p \in todo[c]
  /\ todo' = [todo EXCEPT ![c] = @ \ {p}]
  /\ Put(p, journal.old[p])
  /\ UNCHANGED <<locks, at, cache, vers, tx, commits, journal, ghost>> /\ Quiet

Replayed(c) ==
  /\ Go(c, "replay", "sync_file")
  /\ todo[c] = {}
  /\ UNCHANGED <<locks, cache, vers, tx, commits, todo, stored>> /\ Quiet

SyncFile(c) ==
  /\ Go(c, "sync_file", "unlink")
  /\ disk' = Synced
  /\ UNCHANGED <<locks, cache, vers, tx, commits, todo, file, journal, ghost>> /\ Quiet

(* pager_end_transaction: the journal goes, which commits, and the lock.   *)
(* A journal whose name is not on disk yet is nothing to come back.        *)
Unlink(c) ==
  /\ Go(c, "unlink", "downgrade")
  /\ journal' = None
  /\ ghost' = IF journal.named THEN journal ELSE ghost
  /\ UNCHANGED <<locks, cache, vers, tx, commits, todo, file, disk>> /\ Quiet

Downgrade(c) ==
  /\ Go(c, "downgrade", IF c \in writer THEN "reader" ELSE "validate")
  /\ L!Downgrade(c)
  /\ tx' = [tx EXCEPT ![c] = None]
  /\ commits' = [commits EXCEPT ![c] = FALSE]
  /\ UNCHANGED <<cache, vers, todo, stored>> /\ Quiet

-----------------------------------------------------------------------------
(* Trouble. *)

(* What a pager forgets that gives up. *)
Forget(C) ==
  /\ at' = [c \in Conn |-> IF c \in C THEN "off" ELSE at[c]]
  /\ cache' = [c \in Conn |-> IF c \in C THEN Empty ELSE cache[c]]
  /\ tx' = [c \in Conn |-> IF c \in C THEN None ELSE tx[c]]
  /\ commits' = [c \in Conn |-> c \notin C /\ commits[c]]
  /\ todo' = [c \in Conn |-> IF c \in C THEN {} ELSE todo[c]]

(* An error while it plays back, ends a transaction or makes room, with a  *)
(* page written in part: pager_unlock leaves the journal where it is.      *)
GiveUp(c) ==
  /\ \/ at[c] \in {"resync", "truncate", "replay", "sync_file", "unlink"} /\ UNCHANGED <<file, disk>>
     \/ ~commits[c] /\ at[c] \in {"sync", "header", "sync_header"} /\ UNCHANGED <<file, disk>>
     \/ at[c] = "writer" /\ \E p \in Dirty(c) \ {1} : ~NeedsSync(p) /\ Put(p, Garbage)
     \/ at[c] = "replay" /\ \E p \in todo[c] : Put(p, Garbage)
  /\ Forget({c}) /\ L!Release(c) /\ Trouble
  /\ UNCHANGED <<vers, journal, ghost, count, begun>>

Crash(p) ==
  LET C == {c \in Conn : ProcOf[c] = p} IN
  /\ Forget(C) /\ L!Exit(p) /\ Trouble
  /\ vers' = [c \in Conn |-> IF c \in C THEN 0 ELSE vers[c]]
  /\ UNCHANGED <<stored, count, begun>>

(* The journals a power loss may leave of one. *)
Left(j) ==
  {[orig |-> j.orig,
    old |-> [p \in Page |-> IF p \in j.hard \/ j.old[p] = Absent THEN j.old[p] ELSE Garbage],
    hard |-> {0} \cup Recorded(j), counted |-> k, sure |-> k, named |-> TRUE] :
   k \in {j.sure, j.counted}}

LeftJournals ==
  (IF journal = None THEN {} ELSE Left(journal))
  \cup (IF journal # None /\ journal.named THEN {} ELSE {None} \cup (IF ghost = None THEN {} ELSE Left(ghost)))

PowerLoss ==
  /\ Forget(Conn) /\ L!ExitAll /\ Trouble
  /\ vers' = [c \in Conn |-> 0]
  /\ \E f \in [Page -> UNION {disk[p] : p \in Page}] :
       /\ \A p \in Page : f[p] \in disk[p]
       /\ file' = f /\ disk' = [p \in Page |-> {f[p]}]
  /\ journal' \in LeftJournals
  /\ ghost' = None
  /\ UNCHANGED <<count, begun>>

Recovery(c) ==
  \/ ReadLock(c) \/ JournalExists(c) \/ CheckReserved(c) \/ FirstByte(c) \/ HotLock(c) \/ OpenFails(c)
  \/ OpenHotJournal(c) \/ SyncHotJournal(c) \/ Validate(c)

Transaction(c) ==
  \/ EndRead(c) \/ Begin(c) \/ Spill(c) \/ CommitPhaseOne(c) \/ WriteLock(c) \/ WriteBusy(c)
  \/ SyncRecords(c) \/ WriteHeader(c) \/ SyncHeader(c) \/ SyncStored(c)
  \/ \E p \in Page : ReadPage(c, p) \/ Evict(c, p) \/ WritePage(c, p) \/ StorePage(c, p)

Ending(c) ==
  \/ EndUnchanged(c) \/ Rollback(c) \/ CommitFails(c) \/ Truncate(c) \/ Replayed(c) \/ SyncFile(c)
  \/ Unlink(c) \/ Downgrade(c) \/ GiveUp(c)
  \/ \E p \in Page : Replay(c, p)

Next ==
  \/ \E c \in Conn : Recovery(c) \/ Transaction(c) \/ Ending(c)
  \/ \E p \in Process : Crash(p)
  \/ PowerLoss

Spec == Init /\ [][Next]_vars

-----------------------------------------------------------------------------
Reading == {"reader", "writer", "lock", "sync", "header", "sync_header", "pages"}

(* What is committed: the file, or what the journal makes of it. *)
Committed == IF Hot(journal) THEN Restored(journal, file) ELSE file

(* Every variable stays in its type. *)
TypeOK ==
  /\ lock \in [Conn -> 0..4] /\ writer \subseteq Conn
  /\ at \in [Conn -> Reading \cup {"off", "exists", "reserved", "first", "hot", "open", "resync", "validate",
                                   "truncate", "replay", "sync_file", "unlink", "downgrade"}]
  /\ cache \in [Conn -> [Page -> Content]]
  /\ vers \in [Conn -> 0..MaxTx]
  /\ tx \in [Conn -> Tx \cup {None}]
  /\ commits \in [Conn -> BOOLEAN]
  /\ todo \in [Conn -> SUBSET Page]
  /\ file \in [Page -> Content]
  /\ disk \in [Page -> SUBSET Content]
  /\ {journal, ghost} \subseteq Journal \cup {None}
  /\ count \in [Tx -> 0..MaxTx]
  /\ begun \in Tx /\ trouble \in 0..MaxTrouble

(* What a power loss may leave of a page is what is committed, or the      *)
(* journal that brings it back is all on disk, its name included.          *)
WriteAhead ==
  \A p \in Page : disk[p] # {Committed[p]} =>
    /\ journal # None /\ journal.named /\ 0 \in journal.sure \cap journal.hard
    /\ p \in journal.orig => p \in journal.sure \cap journal.hard

(* A cache whose version is that of the committed page 1 holds what is     *)
(* committed: nobody reads a page that someone else has changed since.     *)
CacheFresh ==
  \A c \in Conn, p \in Page :
    at[c] = "off" /\ vers[c] = Counter(Committed[1]) => cache[c][p] \in {Absent, Committed[p]}

(* Nobody reads the file while a hot journal waits to be played back.      *)
NoHotJournal == \A c \in Conn : at[c] = "reader" => ~Hot(journal)

(* The view of a transaction: its own changes until it commits or rolls    *)
(* back, and what is committed from then on.                               *)
View == [c \in Conn |->
  IF at[c] \in Reading \/ (at[c] = "unlink" /\ commits[c]) THEN Seen(c)
  ELSE IF at[c] \in {"truncate", "replay", "sync_file", "unlink", "downgrade"} /\ c \in writer
    THEN Committed
    ELSE None]

A == INSTANCE AtomicStore WITH
       Value <- Content, db <- Committed, view <- View,
       last <- IF ghost # None /\ Hot(ghost) THEN Restored(ghost, Committed) ELSE Committed

(* Whatever crashes, fails or is lost, transactions are atomic, isolated   *)
(* from each other and durable, but for the last one at a power loss.      *)
StoreSpec == A!Spec

=============================================================================
