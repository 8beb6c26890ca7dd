# Formal models of the LootSplit and GuildBot Discord bots

The repository holds two Discord bots written in Java on JDA and SQLite.
`atom_comm_3` (package `com.me.LootSplit`) splits loot between the members of a
guild, keeps their balances and lets guest roles expire; `atom_comm_2` (package
`com.me.GuildBot`) organises calls to arms (CTAs) and their attendance. Beside
them lies the source of SQLite 3.11.1, vendored to build the spelling extension.
This directory holds TLA+ models of them, TLC configurations and TLAPS proofs.

## 1. Inventory

Both bots run the same way. JDA delivers slash commands, button presses and
member events one at a time on its event thread; a handler runs to completion
there. Two kinds of code run beside it: the callback of a file download, on a
thread of the HTTP client, and a task of a `ScheduledExecutorService`. They
share nothing but the database, and every handler opens its own connection with
autocommit, so **one SQL statement is the unit of atomicity**. Nothing is in a
transaction and no table has a unique key. That a statement is atomic, while
other connections of the process run theirs and whatever dies in the middle, is
the doing of SQLite's locks and rollback journal. Requests to Discord (`queue()`) are
sent later and may fail. A restart loses every object in memory; the database,
and the messages with their buttons at Discord, stay.

| component | state | operations | what is hard | correct when |
|---|---|---|---|---|
| loot split sessions (3) | `lootsplit_sessions`, `lootsplit_players` | create, add, remove, half, set, confirm, info, list | the payout is six statements; names are inserted by different comparisons | a guild has one active session; a name is in a split once |
| submission panels (3) | `LootSplitSubmissionPaginator` objects, the messages at Discord | open, confirm, cancel | presses in flight, restarts, panels for any split id | a press is answered by one panel; a confirmation pays what the panel says |
| payouts (3) | balances of `lootsplit_players` and `players`, `amount` of the session | five UPDATEs and the end of the session | failures between statements, uploads writing beside them | nobody holds more than is on record; a complete payout paid everyone due |
| uploads (3) | downloads and their callbacks, `players` | split and guild upload, `/guild remove`, `add user`, `remove user` | callbacks on another thread use an id read before | no duplicate members, no harm to a payout |
| registration and spelling index (3) | `user_id`, `registered`, table `demo` | register, unregister, fuzzy match | a name has several rows, a user is checked and not the name | a name belongs to one user |
| balances and ranking (3) | `players.balance` | give, remove, bal, leaderboard | doubles, 32-bit sums | the quote adds up |
| guest roles (3) | `roles`, `players_roles`, roles at Discord | guestsetup, role-add event, scheduled rounds | scheduler and event thread interleave, exceptions end the task, lost requests, durations of any sign | rows expire on time, whatever fails |
| paginators (both) | page, two id series | next, prev | the page buttons carry the id of another series | a press turns the pages of its own message |
| CTAs (2) | `cta` | start, cancel, delete, list, info, scheduled finish | the task races with cancel and delete, exceptions end it | a server has one active CTA; a CTA that is over is finished, and that is told once |
| attendance, parties (2) | `users` (status, party number) | late register, party add and remove, uploads | two uploads at once, callbacks for a cancelled CTA, two DELETEs | a list has a name no more often than its file; a cancelled CTA leaves no list |
| checks, statistics, reports (2) | columns of `cta`, `users.status` | check, stats, info, addreport | the check writes back what it read | a mark outlives what starts after it |
| image recognition (both) | - | names from a screenshot | OpenCV and Tesseract | outside these models |
| bootstrap, dispatch, messages (both) | listeners | - | - | outside these models |
| SQLite: locks (`os_unix.c`) | `unixFile.eFileLock`, `unixInodeInfo`, byte locks in the system | lock, unlock, check reserved, open, close | several system calls per lock; locks belong to processes; closing a file drops them | one writer, no reader beside a write, no reservation unseen |
| SQLite: pager (`pager.c`) | cache, journal, database file, change counter | read, write, spill, commit, roll back, recover | crashes and power losses between any two writes and syncs, in recovery too | transactions are atomic, isolated and durable |
| SQLite: the rest | B-trees, virtual machine, SQL | - | third-party C | outside these models |

## 2. Plan

In order of importance:

1. `LootSplit`, with the abstract `PayoutLedger` it implements, and
   `LootSplit_proofs`. Done, but for the arithmetic of the quote (8).
2. `GuestRoles` and `GuestRoles_proofs`. Done.
3. `CTA` and `CTA_proofs` (GuildBot): the status of a CTA, the task that finishes
   it and what ends the task. Done, but for the counters and the report.
4. `Attendance` and `Attendance_proofs`, composed with `CTA`: uploads, parties,
   late registration and the guild check against a CTA that may go away. Done,
   but for the parsing of texts and an upload without a file.
5. `UnixLock`, which implements the abstract `LockTable`, and `Pager`, which uses
   it and implements the abstract `AtomicStore`: what the atomic statement of the
   other modules rests on. Done for the rollback journal with full syncs, and
   proved for both (`UnixLock_proofs`, `Pager_proofs`, `PagerStore_proofs`).
6. `Roster`: registration, guild lists and the spelling index, composed of
   commands and upload callbacks; a proof about who owns a name.
7. `Paginator`: both id series and all listeners; which message a press turns.
8. `SplitQuote`: the 32-bit sum and the division of the quote, pages, batches
   of forty, the leaderboard and the conversion that appends a year to the end
   time of a CTA, as operators checked against definitions.

6 to 8 are left.

## 3. Modules

### LootSplit

| model | code |
|---|---|
| `session` | `lootsplit_sessions` (status, guild, creator); ids are unique (7 random characters, a collision is not modelled) |
| `member` | `lootsplit_players` without the balance |
| `listed`, with the constants `NameOf`, `GuildOf`, `ListOf` | rows of `players`: a row is a member of `Account` with fixed columns, present or absent |
| `credit` | the balances of both tables, by summands: half shares per panel |
| `recorded` | what each panel added to `amount` of its session |
| `panel`, `message` | the paginator objects of all processes; what a message at Discord shows |
| `thread` | the event thread: idle, or before a statement of the payout |
| `job` | uploads: downloading, or in the callback |
| `owed`, `got` | history only: what the running payout owes, and paid |

A balance is a sum of the amounts quoted by panels, each a `double`. Keeping the
summands (how many half shares of which panel) is exact for every amount,
negative, infinite or NaN, and is what makes "paid twice" visible.

- *Commands*: `Create`, `Add`, `RemoveMember`, `Half`, `OpenPanel` (that is
  `/lootsplit confirm`), `RemoveList`, `AddGuildUser`, `RemoveGuildUser`. Each
  is one action although it is a check and a write: they run on the event thread,
  and the write of `Add` repeats the conditions a callback could change.
- *Buttons*: `PressConfirm(m, p)` and `PressCancel(m, p)` deliver a press on
  message `m` to the live panel `p` whose id the buttons carry; `EditArrives` is
  Discord applying the edit. The id is a number in a series that restarts with
  the process, so `p` need not be the panel `m` was sent for. A press of
  somebody else than the panel's author changes nothing and is left out.
- *Payout*: one action for each statement, `PaySessionAmount` to
  `PayFullAccounts`, then `EndSession`; `PayoutFails` at any of them.
- *Uploads*: `StartSplitUpload` and `StartGuildUpload` on the event thread;
  `Downloaded`, `DeleteOldList`, `UploadMember`, `UploadAccount`, `UploadEnds`
  in the callback, one action for each statement (`executeBatch` commits each).
  An upload of a text option, or of a party image, does the same inserts while
  it blocks the event thread, which is a behaviour of these actions too.
- *Crash*: the process dies and starts again.

Left out: the refresh of the spelling index at the end of a guild upload,
`/lootsplit set` and the value of the quote, read-only commands, other listeners
that carry the same id (plan, 7), and whether the creator is registered (left
open, so more is allowed than the code does).

### PayoutLedger

What a payout promises, in two variables: an amount is put on record before any
balance grows by it, no balance holds more of a panel's amount than is on
record, a balance shrinks only by its row being inserted anew.

### GuestRoles

| model | code |
|---|---|
| `duration` | `roles`: the row `getRoleDuration` reads |
| `row` | `players_roles` |
| `exists`, `barred`, `has`, `event`, `removal` | Discord: roles of the server, those the bot may not touch, roles of members, events under way, requests of the bot under way |
| `checker` | the task: between rounds, in a server at a statement, or dead |
| `trouble` | how many statements failed, requests were lost and restarts happened; bounded by `MaxTrouble` |

`GuestSetup`, `RoleAdded` and `RoleAddFails` run on the event thread; a round is
`StartRound`, then for each server `Decrement`, `SelectExpired`, and for each
entry of the list read `RequestRemoval` and `DeleteRows`, then `GuildDone`.
`RoundFails` is the caught SQLException. `RequestRemoval` has the two that nobody
catches and that end the task: the role is gone (`get(0)` of an empty list), or
the bot may not touch it (`removeRoleFromMember` checks that before it asks
Discord). A role is `Removable` when neither is so. `Duration` is any set of
integers: `/guestsetup` stores the minutes as they are typed, 0 and negative ones
too. `GiveRoles`, `TakeRole`, `DeleteRole`, `Bar` and `Unbar` (the hierarchy of
roles or the permissions of the bot are changed), `RemovalDone` and `RemovalLost`
are the environment.

### CTA

| model | code |
|---|---|
| `cta` | table `cta`: status, server, end time. A deleted row keeps its columns as history; the code's reads see only rows that `Exists` |
| `now` | the clock of the host, which the task and `/cta delete` read |
| `thread` | the event thread: idle, or before the second statement of a command |
| `checker` | the task: between rounds, before a statement or an announcement, or dead |
| `told` | history only: how often a server was told that a CTA has finished |
| `trouble` | failed statements and restarts; bounded by `MaxTrouble` |

- *Commands*: `Start`, `Cancel` and `Delete`, the last two followed by
  `DeleteUsers` or `SetEnd`, their second statement, or by `CommandFails`. A
  command that is refused changes nothing and has no action. The check and the
  insert of `/cta start` are one step: both are on the event thread, and the task
  only ever ends CTAs.
- *Task*: a round is `ListActive`, for each id read `ReadEnd`, for one that is
  over `Finish`, `Announce` to every server, `AllTold`; then `RoundDone`. Three
  exceptions leave the task and so end it: the null end time of a CTA cancelled
  since it was listed (in `ReadEnd`), a server without a system channel
  (`AnnounceNowhere`), and any SQLException (`TaskFails`). `Restart` starts it
  again.

Left out: the start time, which nothing but texts depends on; collisions of the
random ids; the rows of `users`, of which only the statement's place in the order
is here and the rest in `Attendance`.

### Attendance

Composed with `CTA`: `C == INSTANCE CTA` shares its variables, a step of CTA is
taken together with what it does to the list (`CTANext`), and steps on the list
leave the CTAs alone. `CTASpec`, proved, says so.

| model | code |
|---|---|
| `users` | table `users`: CTA, name, status, party number, or no row |
| `work` | what a download, its callback, or the event thread at a party image is at: the step, the id of the CTA read at the start, the names still to do, the player a check is at and the status it will write |
| `filed`, `marked`, `settled` | history only, see the properties |

A file is a list of lines, and nothing in the code drops repeats: a name that is
there twice is inserted twice, by a plain INSERT into a table without a key. So
the names still to do are counted (`Names`, how often each; their order is left
open), files and images are constants of that kind (`File`, `Image`), and a check
goes once for each row it reads.

- *Commands of one UPDATE*: `PartyAdd`, `PartyRemove`, `LateRegister`. The id of
  the CTA is read and used on the event thread; the row of a CTA that is finished
  in between is still there, so the read and the UPDATE are one step.
- *Uploads*: `StartUpload` on the event thread; then in the callback
  `DeleteList` (the file has come and is read), `InsertName`, `AllInserted`,
  `MarkOnline`, `UploadEnds`, one action for each statement. `InsertFails` is the
  batch that is given up (`uploadGuildData` swallows the exception).
- *Checks*: `StartCheck`; in the callback `ListAbsentees`, then for each name
  `NextName`, `ReadStatus`, `ReadParty`, `ReadPartyAgain` (`playerHasParty` is
  asked twice) and `WriteStatus`; `CheckEnds`.
- *Party images*: `StartParty` on the event thread, the same reads and write for
  each name that was recognised, `AllRecognised`, `ClearParty`, `AddToParty`,
  `PartyEnds`.
- *Failures*: `FailsSilently` where the code catches the exception, `Fails` where
  it leaves the callback or command, `Restart`. Statements on the list may fail
  any number of times; `MaxTrouble` bounds restarts and what fails in CTA.

Left out: the letter case of names, the parsing of the text, an upload of a text
option (the same statements, while it blocks the event thread, which is a
behaviour of these actions too) or without a file (it only sets last-seen times),
the spelling index, party number 0 (which `playerHasParty` takes for none).

### LockTable, UnixLock

`LockTable` is the abstract specification: one level for each connection, and
who may have which level beside whom. Its `ProcOf` matters, since connections of
a process share what they hold. `UnixLock` is `os_unix.c`:

| model | code |
|---|---|
| `lock` | `unixFile.eFileLock` |
| `inode` | `unixInodeInfo` of a process: `eFileLock`, `nShared`, `nLock`, and the length of `pUnused` |
| `pending`, `reserved`, `range` | POSIX locks of each process on the three ranges of bytes |
| `call` | the call that has the mutex of a process, before its next `fcntl` |

`Join`, `ReadPending`, `ReadRange`, `DropPending`, `Reserve`, `WritePending`,
`TryAgain` and `WriteRange` are `unixLock`, one action for each system call;
`Unlock`, `Unreserve` and `Release` are `posixUnlock`; `Open` and `Close` the file
and its descriptors; `Exit` the death of a process; `CheckReserved` is
`unixCheckReservedLock`. Each call may fail while `faults` allows it. The
refinement mapping gives a connection SHARED while it is between its two unlocks
(`Letting`), and counts as writer who has the reserved byte (`Writers`).

Left out: a call that returns SQLITE_BUSY (no step), the failure of the call that
downgrades the shared range, a close after a failed unlock, shared memory and
memory maps, the other locking styles.

### AtomicStore, Pager

`AtomicStore` is the abstract specification: a committed content, views of it, and
a last transaction that a power loss may take back as a whole. `Pager` is the
rollback journal of `pager.c`, over the locks of `LockTable` (`L`), which
`UnixLock` implements:

| model | code |
|---|---|
| `at` | where a pager is in `sqlite3PagerSharedLock`, `sqlite3PagerCommitPhaseOne`, `syncJournal`, `pager_playback` or `pager_end_transaction` |
| `cache`, `vers` | pages in the cache; `dbFileVers` |
| `tx`, `commits`, `todo` | the transaction it writes for; whether it flushes to commit or to spill; pages left to play back |
| `file`, `disk` | what processes see of the database file; what a power loss may leave of each page |
| `journal`, `ghost` | the journal, with what of it is written, counted in its header and on disk; a deleted one whose deletion is not |
| `count` | the change counter a transaction leaves in page 1 |

`Recovery` is the way to a SHARED lock and, when a journal is hot, through its
playback; `Transaction` reads, changes, spills and commits, each write and each
sync an action; `Ending` rolls back and deletes the journal. `Crash` ends a
process, `PowerLoss` the machine, `OpenFails`, `CommitFails` and `GiveUp` are
failed system calls.

Abstracted: the content of a page is the transaction that wrote it (or
`Garbage`, written in part); rewriting a page that was spilled keeps the content.
Left out: savepoints and statement journals, master journals, pages grouped to
sectors, journal modes other than DELETE, WAL, `UNKNOWN_LOCK`, files that shrink
or are empty, checksums. A journal that was left is replaced by a fresh one. The
sync level is FULL, in which the deletion of a journal is not followed by a sync
of the directory: that is what `ghost` is about.

The bots link SQLite through a JDBC driver that bundles a build of its own; the
vendored source, built for the extension, is the protocol that the atomicity of
a statement rests on, and is what these modules model.

## 4. Constants and bounds

`MaxRuns` bounds how often one panel can be paid (the guard of `PressConfirm`);
`Split`, `Panel`, `RowId`, `Account` and `Job` bound sessions, panels, rows and
uploads by being finite. `MaxTrouble` bounds failures of the guest roles, of the
CTAs and of the pager, `MaxFaults` those of the lock calls, `MaxEvents` the
role-add events on their way, `MaxWork` the uploads, checks and party images at
work together, `MaxTx` the transactions of the pager and `N` its pages.
`Horizon` bounds the clock of the CTAs, whose end times lie below it so that
each can pass; `Id` bounds how many are ever started. The proofs hold for every
value, so these bounds matter to TLC only.

One session, panel and row are enough for a race between the statements of one
payout; two sessions and panels for a press that reaches the wrong panel; two
rows for duplicates and for a whole and a half share in one payout; three
accounts of one name in two servers for a payout that reaches several. Two runs
of one panel show a retry after a failure and a double press. For the guest
roles two rows show one expiry meeting another, two servers a round cut off
between them or ended by the role of one, a failure a backlog of rounds, and
durations of 1 and -1 a row that is counted down to its end and one that is due
when it is inserted. Two CTAs and two servers let one CTA be left behind while
another ends or starts, and one server be told and another not; two troubles
break a round off and its successor after a restart. For the attendance two
callbacks show two uploads, or an upload and a check, meeting; since every
statement is about one name, one name and party are enough, with two rows for a
duplicate, files that have the name not any more, once, and twice, two of the
callbacks and the party image at work at a time (the proofs have no such bound),
and one CTA that is cancelled or ends while they work. For the locks two
connections in each of two processes show both kinds of neighbours, and two
failures one in a call and one in the unlock after it. For the pager two
processes with a connection each, two pages (the one with the counter and
another one), two transactions and two troubles show a crash in the recovery
from a crash, or a power loss in it.

## 5. Runs

Passing:

- `LootSplit_payout`: two players, one upload, failures and crashes. `TypeOK`;
  `MemberOnce`; `PaidInFull`.
- `LootSplit_panels`: two users, two sessions, two panels, restarts.
  `OneActiveSession`; `OnePanelAnswers`.
- `LootSplit_ledger`: one name with three accounts in two servers, two payouts
  of one panel. `RecordedBeforePaid`; `PaidInOrder`, which the proof uses as its
  inductive invariant; `LedgerSpec`, the refinement.
- `GuestRoles_rounds`: `OverdueBounded`, a row's minutes are below the least count
  for its role at most by the number of failures. `Least` is 0 for a role set up
  for some minutes; one set up for 0 or fewer is due when it is inserted, and
  counted down once before a round finds it. `RowsExpire`, under fairness: a row
  is deleted unless the task has ended, and the task ends only while a role is out
  of the bot's reach, deleted or above its own; `TypeOK`. Some 500 000 states,
  two to three minutes. Deadlock is not checked: with the task dead, the role
  deleted and no trouble left, nothing more can happen.
- `CTA_rounds`: two servers, one of which may lack a system channel, two CTAs,
  two failures or restarts. `OneActiveCTA`; `ToldOnce` and `ToldWhenOver`, an end
  is told once and only when it is true; `OverdueFinished`, under fairness, only
  the death of the task can keep an overdue CTA active; `TypeOK`. Deadlock is not
  checked: with the clock at its horizon, the task dead, no CTA active and no
  trouble left, nothing more can happen.
- `Attendance_lists`: one CTA, two callbacks and a party image about one player,
  any failures on the list, one restart or failure of a CTA's statement.
  `ListedAsFiled`, a list has a name no more often than the file it was last
  uploaded from, unless another upload was inserting when that one deleted the old
  list; a repeated line does give two rows, and so does the overlap of two
  uploads, which is what the code does; `MarksStay`, a mark as present or late
  is lost to nothing that starts after it; `CancelledIsGone`, no row comes back to
  a cancelled CTA; `TypeOK`. Rows and callbacks are symmetric. Some 1.4 million
  states, a minute or two. Deadlock is not checked, for the same reason as
  for CTA.
- `UnixLock_table`: `TableSpec`, the byte locks and counts implement `LockTable`;
  `TableExclusion`; `LockedInSystem`, behind every lock of a connection there is
  one in the system; `ReservedIsSeen`; `TypeOK`.
- `Pager_store`: `StoreSpec`, the pager implements `AtomicStore`; `WriteAhead`,
  what is not safe in the file is safe in the journal; `CacheFresh`, a cache that
  is trusted holds what is committed; `NoHotJournal`, nobody reads the file while
  a hot journal waits, which `Pager_hot` shows to be lost inside one process;
  `TypeOK`. The two connections with their processes are symmetric.

Contradicting a text of the repository (each counterexample is what the code
does):

- `LootSplit_twice`: a second press, in flight before the message is edited, pays
  again.
- `GuestRoles_forever`: the expiry of one role drops the rows of the member's
  other roles, which then are never taken away. Deadlock is not checked for the
  same reason as above.
- `CTA_dead`: a CTA cancelled between the two reads of a round ends the task; the
  next CTA stays active after its time. Deadlock is not checked for the same
  reason as above.
- `Pager_hot`: of two connections of one process that find the journal of a dead
  one, the one that cannot get EXCLUSIVE leaves PENDING in the inode they share;
  the other one then takes the journal for that of a live writer and reads a file
  that nobody has rolled back.

Each property of a passing run has a mutant beside the definition it mutates
(`CreateUnchecked`, `DeleteNothing`, `CommitUncounted`, ...): a plausible bug that
breaks it.

Seen in the source, and in no run:

- In the loot splits: the creator of the *active* session decides who may confirm
  any session; a panel that was cancelled still pays on a press under way; the end
  of a payout ends the active session of the guild the button was pressed in,
  whichever session was paid; a re-upload of the guild list resets balances; the
  quote divides by the members present when the panel opens, and is
  `(silver + items) * 0.7` (`LootSplitConfirmCommand`) where the README gives
  `silver * 0.9 + items * 0.75` (`src/README.md:33`); names are compared in lower
  case and paid by their exact letters; an upload without a file does not fall
  back to the guild list (`src/README.md:17`); `/register` does not ask whether the
  name is taken (`src/README.md:51`); the second page of the submission panel
  cannot be reached by its own buttons (`src/README.md:64`).
- In the guest roles: a role that is deleted or out of the bot's reach ends the
  task for good, for every server (the model has it, and `RowsExpire` allows for
  it); a duration may be 0 or negative; the list of expired rows is read once and
  worked off with pauses; a lost request to take a role away is not repeated;
  only the first role of an event is looked at.
- In the GuildBot: a CTA cancelled between the update of its status and the
  announcement is announced; a name that a file has on two lines gets two rows;
  `uploadGuildData` swallows an SQLException after part
  of a list; a player who joins a party between the two questions of a check is
  set to offline.
- In SQLite: the comment at `os_unix.c:1505` has the pending byte keep new SHARED
  locks out; a connection whose process reads already gets one
  (`Join`, `TakeShared`).

## 6. Fairness

`GuestRoles` assumes weak fairness of the steps of a round together (the executor
starts the task every minute and the task runs on) and of Discord carrying out
requests. It assumes nothing of users, moderators, events or failures. `CTA`
assumes that time passes and that the steps of a round are taken (the task runs
every ten seconds as long as it lives), and nothing of commands, not even that
their second statement runs. The other modules assume no fairness: nobody has to
press a button, a callback may fail, and a writer may starve.

## 7. Proofs

Everything below is for every value of the constants that satisfies the
assumptions of the module (columns are functions, rows and accounts are
different things, null values such as `None` and `Absent` are none of the others, panels and
connections are finitely many, and so are the rows of an attendance list).

`LootSplit_proofs`:

- `LootSplitTypes`: `TypeOK`, by one lemma for each group of actions.
- `OneSession`: `OneActiveSession`. Inductive as it is: only `Create` activates
  a session, when the guild has none.
- `NameInSplitOnce`: `MemberOnce`. The insert's own condition, whichever of the two
  comparisons it uses, excludes the name.
- `BalancesBounded`: `RecordedBeforePaid`. It is not inductive: that a payout may add a
  share without overtaking the record depends on who was already paid by the
  earlier statements. `PaidInOrder` says it, and `PaymentsInOrder` proves it: every
  row that a statement still to come may pay (`StillToPay`) is two half shares
  below the record of the panel. A row inserted meanwhile holds nothing, a row
  halved meanwhile cannot be, since the event thread is busy, and an account that
  got a half share is not among those that get a whole one because its name is in
  the split once (`MemberOnce`).
- `PanelsApart`: `OnePanelAnswers`, from `Numbered`: the ids of live panels lie
  below the next number of the series and differ.
- `EveryShareIsPaid`: `PaidInFull`, from an invariant that says for every
  statement what the payees of the earlier ones have got and the later ones are
  owed (`Shares...` lemmas).
- `ImplementsLedger`: `LedgerSpec`; each statement is a `Record`, a `Distribute`
  or an insertion of the ledger, everything else a stutter.

`GuestRoles_proofs`:

- `GuestTypes`: `TypeOK`.
- `RowsInTime`: `OverdueBounded`, from `InTime`: a row that was counted down in
  this round is on the list of expired rows, or still to be selected, whenever
  its minutes have run out; the failures so far pay for what earlier rounds left.
  The bound is `Least` of the role's duration, whatever integer that is; that a
  role keeps the duration its rows were given is part of the invariant.

`CTA_proofs`:

- `CTATypes`: `TypeOK`, from `Typed`, which adds that a command under way is about
  a CTA that was started.
- `OneCTA`: `OneActiveCTA`. Inductive as it is: only `Start` activates a CTA
  (`OnlyStartActivates`), when the server has none.
- `EndIsToldOnce` and `EndIsTrueWhenTold`: `ToldOnce` and `ToldWhenOver`. Neither is
  inductive: why a server is not told again depends on what the rounds so far
  have set. `Announced` says it: a CTA that anybody was told of is no longer
  active, so no later list holds it, and what the running round still has to
  list, finish or tell has been told to nobody who is still to be told.

`Attendance_proofs`. Lemmas such as `UploadWork` and `JudgeWork` first say what
each step makes of the work of a callback (`Does`, `Moves`, `Rests`); the
invariants are about rows and work.

- `AttendanceTypes`: `TypeOK`, from `Typed`, which adds what is needed of the CTAs
  and that work under way has a CTA, and a player where one is judged (`AtWork`).
- `ListsImplementCTA`: `CTASpec`; a step of the composition is a step of CTA or
  leaves its variables alone.
- `ListsAsFiled`: `ListedAsFiled`, from `FiledInv`: where no two uploads have met,
  one upload at most is inserting, and the rows of a name and what the upload has
  still to insert of it are together no more than its file has. Every step but
  `DeleteList` and `InsertName` adds no row and starts no insertion (`FiledQuiet`).
- `MarksKept`: `MarksStay`, from `MarksInv`: no callback that may still write to a
  player holds one that is marked. A check that starts later lists only the
  absent, and a marked player is not.
- `CancelledGone`: `CancelledIsGone`, from `SettledInv`: a CTA is settled when its
  row is deleted for good (`DeletedStays`) and no upload is under way for it, and an
  upload only ever gets the id of an active one.

`UnixLock_proofs`. A step is one process's: `Elsewhere` says that the state of the
others stays, `Own` what a process keeps to itself, and `StepKeeps` composes the
two, so that each action has one lemma about its process (`JoinStep` to
`ExitStep`). In `Own`, the counts of the inode are the number of connections with
a lock (`Counted`), its level is the highest of theirs (`Highest`), and the bytes
it has in the system are what that level needs (`Backed`). Between processes,
`Apart` is what POSIX gives, and `Alone` what the order of the calls makes of it:
while one process has EXCLUSIVE no other one has the shared range, since a reader
must pass the pending byte first. `Alone` is stated of the level and not of the
byte, because a connection that goes down to SHARED makes its range readable
before it gives the level up.

- `LockTypes`: `TypeOK`. That a count never falls below zero needs `Counted`.
- `LocksInSystem`, `ReservationsSeen`, `LocksExclude`: `LockedInSystem`,
  `ReservedIsSeen` and `TableExclusion`.
- `LocksImplementTable`: `TableSpec`, the refinement. `...Seen` lemmas map an action
  to one of the table, `...Unseen` lemmas to a stutter.

`Pager_proofs`, for any connections of any processes. `PagerTypes`: `TypeOK`, from
`Shape`. Types alone are not inductive here. That a change counter stays in its
type depends on the stamps of all pages wherever they are kept, in the file, on
disk, in a cache, in a journal or in one that may come back (`Stamps`,
`OwnStamps`): none is of a transaction yet to begin. That there is a journal when
one is written (`Journaled`) depends on who may write, so `Levels` says which lock
a connection holds at each place of its calls. A step of a connection leaves the
others alone (`ShapeStep`, `ShapeStepKeeps`), as a step of a process does above.

`PagerStore_proofs`, for any connections of any processes too, as long as
`Unhindered` holds: nobody asks whether there is a writer while another connection
of the same process is left with PENDING, for want of EXCLUSIVE, on its way to
play a journal back. The condition cannot go: `Pager_hot` leaves it and reads past
a hot journal, and from there a writer loses `CacheFresh` and `WriteAhead` as well.
It is a condition on behaviours and not on constants because the handlers of a bot
are connections of one process: for them the theorems cover everything but two of
these meeting in the playback of one journal. Where each connection has a process
of its own, it always holds (`OneEachStore`).

- `HotJournalSeen`, `JournalFirst`, `CachesFresh`: `NoHotJournal`, `WriteAhead` and
  `CacheFresh`.
- `PagerImplementsStore`: `StoreSpec`, one `...View` lemma for each kind of step.
  `Validate` begins in the store; `WritePage` and `CommitPhaseOne`, which stamps
  page 1, write; `Rollback` and `CommitFails` roll back; `Unlink` commits, when it
  ends a commit; `SyncRecords` settles, since its sync of the directory ends the
  chance of a deleted journal to come back; `EndRead`, `GiveUp` and `Crash` end;
  a power loss leaves what was committed or what the last transaction found
  (`LostCommitted`). All else, the playback of a journal included, is a stutter.

They rest on the invariant `Safe`. A page may differ from what is committed only
when the journal has that content, on disk and counted (`Kept`). Whatever a write,
a crash or a playback then does to the page does not change the committed state,
and the deletion of the journal makes the file the committed state in one step.
`Journals` says in which order records, count and syncs reach a journal, and that
what a power loss could leave out of a deleted one makes no difference; `Pages`
that what is not kept is as committed in the file and on disk; `Changing`,
`Committing` and `Undoing` how far a connection is with its transaction, its end or
a playback; `Holding` and `Stale` that a cache in use is fresh, and one from before
fresh or of an earlier counter; `Cool` that whoever reads has seen to the hot
journal. A step leaves the others' parts alone because it touches no file
(`QuietStepKeeps`) or is that of the only writer (`AloneStepKeeps`). TLC checked
`Safe` on the instance of `Pager_store` before it was proved, and on one with both
connections in one process, cut off where `Unhindered` fails.

Model-checked only: what no proof here can reach, liveness (`RowsExpire`,
`OverdueFinished`). Every other property of the passing runs is stated by a theorem.

## 8. Not modelled

See the table of section 1 and the plan: registration and the spelling index,
the balances given and ranked, quotes, page buttons, and the counters and report of a CTA so far.
Image recognition, dispatch and embeds stay out: they are pure functions, I/O or
texts. Of SQLite, only what the atomicity of a statement rests on is here: B-trees,
the virtual machine, the compiler of SQL, extensions and tests are third-party
code that the bots do not depend on beyond that, and far larger than the bots.
