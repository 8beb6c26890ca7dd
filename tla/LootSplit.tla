----------------------------- MODULE LootSplit -----------------------------
(***************************************************************************)
(* The loot split of the LootSplit bot (atom_comm_3): sessions, the        *)
(* members of a split, the submission panels with their buttons, the five  *)
(* statements of a payout, and the file uploads whose callbacks write to   *)
(* the same tables from another thread.                                    *)
(*                                                                         *)
(* JDA delivers slash commands and button presses one at a time on its     *)
(* event thread.  A file upload only starts a download there; the callback *)
(* of the download runs on a thread of the HTTP client.  Every database    *)
(* statement is a transaction of its own (autocommit), so a handler whose  *)
(* effect is a single statement is one action here and a payout, which is  *)
(* six statements, is six.                                                 *)
(*                                                                         *)
(* A balance is a sum of shares, and it is kept by its summands: for every *)
(* panel the number of half shares of the amount quoted by that panel.     *)
(* This is exact whatever the amount is (a double, negative, infinite).    *)
(***************************************************************************)
EXTENDS Naturals, FiniteSets

CONSTANTS
  Guild,      \* Discord servers
  User,       \* members holding the role ALLOWED_ROLE_FOR_LOOTSPLIT
  Name,       \* in-game names, in the spelling they were typed or uploaded
  GuildList,  \* guild names a guild list was uploaded under
  Split,      \* split ids; bounds the number of sessions
  Panel,      \* submission panels; bounds the confirm commands
  RowId,      \* rows of lootsplit_players; bounds the members
  Account,    \* rows the players table can hold
  Job,        \* file uploads under way at the same time
  NameOf, GuildOf, ListOf, \* columns username, guild_id, guild_name of an account
  Lower,      \* SQL LOWER on names
  NoList,     \* the guild_name 'N/A' of a player added one by one
  None,       \* SQL NULL, Java null
  MaxRuns     \* bound on the payouts started from one panel

Payee == RowId \cup Account

ASSUME ConstantsAssumption ==
  /\ NameOf \in [Account -> Name]
  /\ GuildOf \in [Account -> Guild]
  /\ ListOf \in [Account -> GuildList \cup {NoList}]
  /\ Lower \in [Name -> Name]
  /\ RowId \cap Account = {}
  /\ None \notin Guild \cup User \cup Split \cup Panel \cup Name
  /\ IsFiniteSet(Panel)
  /\ MaxRuns \in Nat

VARIABLES
  session,   \* table lootsplit_sessions
  member,    \* table lootsplit_players without the balance column
  listed,    \* the accounts that are rows of the table players
  credit,    \* the balance column of lootsplit_players and of players
  recorded,  \* per panel, what was added to the amount column of its session
  panel,     \* the LootSplitSubmissionPaginator objects
  message,   \* the buttons of the Discord message each panel was sent as
  thread,    \* the event thread: the next statement of a payout, or idle
  job,       \* downloads and callbacks of file uploads
  owed, got  \* history: shares owed at the start of the running payout, and paid by it

vars == <<session, member, listed, credit, recorded, panel, message, thread, job, owed, got>>

Session == [status: {"unused", "active", "inactive"},
            guild: Guild \cup {None}, creator: User \cup {None}]
Member == [split: Split, name: Name, guild: Guild, halved: BOOLEAN]
NoMember == [split |-> None]

(* A panel listens for presses until the process dies.  Its id, which its  *)
(* buttons carry, is its number in a series that starts again at 0 with    *)
(* the process; the message with the buttons outlives it.                  *)
PanelRecord == [state: {"unused", "live", "dead"}, id: Nat, split: Split \cup {None},
                guild: Guild \cup {None}, author: User \cup {None},
                creator: User \cup {None}, cancelled: BOOLEAN]
NoPanel == [state |-> "unused", id |-> 0, split |-> None, guild |-> None,
            author |-> None, creator |-> None, cancelled |-> FALSE]

(* A message is "editing" from the handling of a press until Discord has   *)
(* applied the edit that disables its buttons.                             *)
MessageState == {"none", "enabled", "editing", "disabled"}

Stage == {"idle", "sessionAmount", "fullRows", "halfRows",
          "halfAccounts", "fullAccounts", "endSession"}
Paying == Stage \ {"idle"}
Idle == [at |-> "idle", panel |-> None, message |-> None]

(* An upload of members into a split, or of a guild list. *)
NoJob == [at |-> "none"]
JobRecord ==
  {NoJob}
    \cup [at: {"download", "insert"}, kind: {"split"}, guild: Guild, split: Split,
          names: SUBSET Name]
    \cup [at: {"download", "delete", "insert"}, kind: {"guild"}, guild: Guild,
          list: GuildList, names: SUBSET Name]

NoCredit == [p \in Panel |-> 0]
Nothing == [x \in Payee |-> 0]

-----------------------------------------------------------------------------
(* Queries *)

ActiveSplit(g) == {s \in Split : session[s].status = "active" /\ session[s].guild = g}

RowsOf(s) == {r \in RowId : member[r] # NoMember /\ member[r].split = s}
HalfRows(s) == {r \in RowsOf(s) : member[r].halved}
FullRows(s) == {r \in RowsOf(s) : ~member[r].halved}
NamesIn(R) == {member[r].name : r \in R}

(* Accounts the subquery "username IN (SELECT username ...)" selects: the  *)
(* comparison is exact and no guild is asked for.                          *)
AccountsOf(R) == {a \in listed : NameOf[a] \in NamesIn(R)}

UserExists(n) == \E a \in listed : Lower[NameOf[a]] = Lower[n]
ListedAs(n, g) == \E a \in listed : NameOf[a] = n /\ GuildOf[a] = g
ListedAnyCase(n, g) == \E a \in listed : Lower[NameOf[a]] = Lower[n] /\ GuildOf[a] = g

InSplit(s, n) == \E r \in RowsOf(s) : member[r].name = n
InSplitAnyCase(s, n) == \E r \in RowsOf(s) : Lower[member[r].name] = Lower[n]

LivePanels == {p \in Panel : panel[p].state = "live"}

FreeRows == {r \in RowId : member[r] = NoMember}

-----------------------------------------------------------------------------
Init ==
  /\ session = [s \in Split |-> [status |-> "unused", guild |-> None, creator |-> None]]
  /\ member = [r \in RowId |-> NoMember]
  /\ listed = {}
  /\ credit = [x \in Payee |-> NoCredit]
  /\ recorded = NoCredit
  /\ panel = [p \in Panel |-> NoPanel]
  /\ message = [p \in Panel |-> "none"]
  /\ thread = Idle
  /\ job = [j \in Job |-> NoJob]
  /\ owed = Nothing
  /\ got = Nothing

(* One row is inserted with balance 0 and is_halved 0. *)
InsertMember(s, n, g) ==
  /\ FreeRows # {}
  /\ LET r == CHOOSE x \in RowId : member[x] = NoMember
     IN  /\ member' = [member EXCEPT ![r] =
                         [split |-> s, name |-> n, guild |-> g, halved |-> FALSE]]
         /\ credit' = [credit EXCEPT ![r] = NoCredit]

(* Rows of players are inserted with balance 0; deleted rows owe nothing.  *)
InsertAccount(a) ==
  /\ listed' = listed \cup {a}
  /\ credit' = [credit EXCEPT ![a] = NoCredit]

DeleteAccounts(A) ==
  /\ listed' = listed \ A
  /\ owed' = [x \in Payee |-> IF x \in A THEN 0 ELSE owed[x]]

-----------------------------------------------------------------------------
(* Slash commands.  Each runs to completion on the event thread.  What the *)
(* callbacks can change between its statements is only which accounts and  *)
(* members exist, and the INSERT asks for that again itself.               *)

(* Mutant of Create: the check for an active session is dropped. *)
CreateUnchecked(u, g, s) ==
  /\ thread = Idle
  /\ session[s].status = "unused"
  /\ session' = [session EXCEPT ![s] = [status |-> "active", guild |-> g, creator |-> u]]
  /\ UNCHANGED <<member, listed, credit, recorded, panel, message, thread, job, owed, got>>

(* /lootsplit create.  Whether the user is registered is left open.        *)
Create(u, g, s) ==
  /\ thread = Idle
  /\ ActiveSplit(g) = {}
  /\ session[s].status = "unused"
  /\ session' = [session EXCEPT ![s] = [status |-> "active", guild |-> g, creator |-> u]]
  /\ UNCHANGED <<member, listed, credit, recorded, panel, message, thread, job, owed, got>>

(* Mutant of Add: the id of a missing session is not noticed. *)
AddUnchecked(g, n) ==
  /\ thread = Idle
  /\ ListedAnyCase(n, g)
  /\ InsertMember(IF ActiveSplit(g) = {} THEN None ELSE CHOOSE s \in ActiveSplit(g) : TRUE, n, g)
  /\ UNCHANGED <<session, listed, recorded, panel, message, thread, job, owed, got>>

(* /lootsplit add: unlike an upload it compares names in lower case. *)
Add(g, n) ==
  /\ thread = Idle
  /\ UserExists(n)
  /\ \E s \in ActiveSplit(g) :
       /\ ~InSplitAnyCase(s, n)
       /\ ListedAnyCase(n, g)
       /\ InsertMember(s, n, g)
  /\ UNCHANGED <<session, listed, recorded, panel, message, thread, job, owed, got>>

(* /lootsplit remove *)
RemoveMember(g, n) ==
  /\ thread = Idle
  /\ UserExists(n)
  /\ \E s \in ActiveSplit(g) :
       /\ InSplit(s, n)
       /\ member' = [r \in RowId |->
                       IF r \in RowsOf(s) /\ member[r].name = n THEN NoMember ELSE member[r]]
  /\ UNCHANGED <<session, listed, credit, recorded, panel, message, thread, job, owed, got>>

(* Mutant of Half: the command does not wait for a payout on the event thread. *)
HalfAnytime(g, n) ==
  /\ \E s \in ActiveSplit(g) :
       member' = [r \in RowId |->
                    IF r \in RowsOf(s) /\ member[r].name = n
                    THEN [member[r] EXCEPT !.halved = TRUE] ELSE member[r]]
  /\ UNCHANGED <<session, listed, credit, recorded, panel, message, thread, job, owed, got>>

(* /lootsplit half *)
Half(g, n) ==
  /\ thread = Idle
  /\ \E s \in ActiveSplit(g) :
       /\ InSplit(s, n)
       /\ member' = [r \in RowId |->
                       IF r \in RowsOf(s) /\ member[r].name = n
                       THEN [member[r] EXCEPT !.halved = TRUE] ELSE member[r]]
  /\ UNCHANGED <<session, listed, credit, recorded, panel, message, thread, job, owed, got>>

(* Mutant of OpenPanel: the series of panel ids is not advanced. *)
OpenPanelSameId(u, g, s, p) ==
  /\ thread = Idle
  /\ panel[p].state = "unused"
  /\ session[s].status # "unused"
  /\ \E t \in ActiveSplit(g) :
       panel' = [panel EXCEPT ![p] =
                   [state |-> "live", id |-> 0, split |-> s, guild |-> g,
                    author |-> u, creator |-> session[t].creator, cancelled |-> FALSE]]
  /\ message' = [message EXCEPT ![p] = "enabled"]
  /\ UNCHANGED <<session, member, listed, credit, recorded, thread, job, owed, got>>

(* /lootsplit confirm opens a panel for ANY split id that has a session,   *)
(* provided the guild has some active session; the panel remembers the     *)
(* creator of that active session.                                         *)
OpenPanel(u, g, s, p) ==
  /\ thread = Idle
  /\ panel[p].state = "unused"
  /\ session[s].status # "unused"
  /\ \E t \in ActiveSplit(g) :
       panel' = [panel EXCEPT ![p] =
                   [state |-> "live", id |-> Cardinality(LivePanels), split |-> s, guild |-> g,
                    author |-> u, creator |-> session[t].creator, cancelled |-> FALSE]]
  /\ message' = [message EXCEPT ![p] = "enabled"]
  /\ UNCHANGED <<session, member, listed, credit, recorded, thread, job, owed, got>>

-----------------------------------------------------------------------------
(* Buttons.  A press on message m reaches the live panel p with the id the *)
(* buttons of m carry, which after a restart need not be the panel m was   *)
(* sent for.  Others than the author of the panel are refused.             *)

Pressed(m, p) ==
  /\ thread = Idle
  /\ message[m] \in {"enabled", "editing"}
  /\ panel[p].state = "live" /\ panel[p].id = panel[m].id
  /\ message' = [message EXCEPT ![m] = "editing"]

PressConfirm(m, p) ==
  /\ Pressed(m, p)
  /\ recorded[p] < 2 * MaxRuns
  /\ IF panel[p].author = panel[p].creator
     THEN LET s == panel[p].split IN
          /\ thread' = [at |-> "sessionAmount", panel |-> p, message |-> m]
          /\ owed' = [x \in Payee |->
                        IF x \in HalfRows(s) \cup AccountsOf(HalfRows(s)) THEN 1
                        ELSE IF x \in FullRows(s) \cup AccountsOf(FullRows(s)) THEN 2
                        ELSE 0]
     ELSE UNCHANGED <<thread, owed>>
  /\ UNCHANGED <<session, member, listed, credit, recorded, panel, job, got>>

PressCancel(m, p) ==
  /\ Pressed(m, p)
  /\ panel' = [panel EXCEPT ![p].cancelled = TRUE]
  /\ UNCHANGED <<session, member, listed, credit, recorded, thread, job, owed, got>>

(* The edit that updatePage queued reaches Discord. *)
EditArrives(m) ==
  /\ message[m] = "editing"
  /\ thread.message # m
  /\ message' = [message EXCEPT ![m] = "disabled"]
  /\ UNCHANGED <<session, member, listed, credit, recorded, panel, thread, job, owed, got>>

-----------------------------------------------------------------------------
(* The payout: addBalanceToAllLootSplitPlayers, then endLootSplitSession.  *)

Advance(from, to) ==
  /\ thread.at = from
  /\ thread' = [thread EXCEPT !.at = to]

(* The balances of X grow by k half shares of the panel being paid. *)
Pay(X, k) ==
  /\ credit' = [x \in Payee |->
                  IF x \in X THEN [credit[x] EXCEPT ![thread.panel] = @ + k] ELSE credit[x]]
  /\ got' = [x \in Payee |-> IF x \in X THEN got[x] + k ELSE got[x]]
  /\ UNCHANGED <<session, member, listed, recorded, panel, message, job, owed>>

PaidSplit == panel[thread.panel].split

(* Mutant of PaySessionAmount: the amount is not recorded. *)
PayNoSessionAmount ==
  /\ Advance("sessionAmount", "fullRows")
  /\ UNCHANGED <<session, member, listed, credit, recorded, panel, message, job, owed, got>>

PaySessionAmount ==
  /\ Advance("sessionAmount", "fullRows")
  /\ recorded' = [recorded EXCEPT ![thread.panel] = @ + 2]
  /\ UNCHANGED <<session, member, listed, credit, panel, message, job, owed, got>>

(* Mutants: is_halved = 0 is forgotten, for the rows or for the accounts. *)
PayAllRows == Advance("fullRows", "halfRows") /\ Pay(RowsOf(PaidSplit), 2)
PayAllAccounts ==
  Advance("fullAccounts", "endSession") /\ Pay(AccountsOf(RowsOf(PaidSplit)), 2)

PayFullRows == Advance("fullRows", "halfRows") /\ Pay(FullRows(PaidSplit), 2)
PayHalfRows == Advance("halfRows", "halfAccounts") /\ Pay(HalfRows(PaidSplit), 1)
PayHalfAccounts ==
  Advance("halfAccounts", "fullAccounts") /\ Pay(AccountsOf(HalfRows(PaidSplit)), 1)
PayFullAccounts ==
  Advance("fullAccounts", "endSession") /\ Pay(AccountsOf(FullRows(PaidSplit)), 2)

(* Every session of the guild the button was pressed in becomes inactive.  *)
EndSession ==
  /\ thread.at = "endSession"
  /\ thread' = Idle
  /\ session' = [s \in Split |->
                   IF session[s].status = "active" /\ session[s].guild = panel[thread.message].guild
                   THEN [session[s] EXCEPT !.status = "inactive"] ELSE session[s]]
  /\ owed' = Nothing /\ got' = Nothing
  /\ UNCHANGED <<member, listed, credit, recorded, panel, message, job>>

(* A statement throws (for one, the database is locked by another          *)
(* connection): what ran before stays, what comes after is skipped.        *)
PayoutFails ==
  /\ thread.at \in Paying
  /\ thread' = Idle
  /\ owed' = Nothing /\ got' = Nothing
  /\ UNCHANGED <<session, member, listed, credit, recorded, panel, message, job>>

-----------------------------------------------------------------------------
(* Uploads.  The split id is read on the event thread and used by the      *)
(* callback.  The variants that block the event thread (a text option, the *)
(* image of a party) do the same inserts with fewer interleavings.         *)

StartSplitUpload(j, g, N) ==
  /\ thread = Idle
  /\ job[j].at = "none"
  /\ \E s \in ActiveSplit(g) :
       job' = [job EXCEPT ![j] = [at |-> "download", kind |-> "split", guild |-> g,
                                  split |-> s, names |-> N]]
  /\ UNCHANGED <<session, member, listed, credit, recorded, panel, message, thread, owed, got>>

StartGuildUpload(j, g, l, N) ==
  /\ thread = Idle
  /\ job[j].at = "none"
  /\ job' = [job EXCEPT ![j] = [at |-> "download", kind |-> "guild", guild |-> g,
                                list |-> l, names |-> N]]
  /\ UNCHANGED <<session, member, listed, credit, recorded, panel, message, thread, owed, got>>

Downloaded(j) ==
  /\ job[j].at = "download"
  /\ job' = [job EXCEPT ![j].at = IF job[j].kind = "guild" THEN "delete" ELSE "insert"]
  /\ UNCHANGED <<session, member, listed, credit, recorded, panel, message, thread, owed, got>>

(* A guild list uploaded again is deleted first, balances included. *)
DeleteOldList(j) ==
  /\ job[j].at = "delete"
  /\ job' = [job EXCEPT ![j].at = "insert"]
  /\ DeleteAccounts({a \in listed : ListOf[a] = job[j].list /\ GuildOf[a] = job[j].guild})
  /\ UNCHANGED <<session, member, credit, recorded, panel, message, thread, got>>

(* Mutant of UploadMember: the NOT EXISTS is forgotten. *)
UploadMemberAgain(j, n) ==
  /\ job[j].at = "insert" /\ job[j].kind = "split"
  /\ n \in job[j].names
  /\ job' = [job EXCEPT ![j].names = @ \ {n}]
  /\ IF ListedAs(n, job[j].guild)
     THEN InsertMember(job[j].split, n, job[j].guild)
     ELSE UNCHANGED <<member, credit>>
  /\ UNCHANGED <<session, listed, recorded, panel, message, thread, owed, got>>

(* One statement of the batch: insert unless the very name is there already. *)
UploadMember(j, n) ==
  /\ job[j].at = "insert" /\ job[j].kind = "split"
  /\ n \in job[j].names
  /\ job' = [job EXCEPT ![j].names = @ \ {n}]
  /\ IF ~InSplit(job[j].split, n) /\ ListedAs(n, job[j].guild)
     THEN InsertMember(job[j].split, n, job[j].guild)
     ELSE UNCHANGED <<member, credit>>
  /\ UNCHANGED <<session, listed, recorded, panel, message, thread, owed, got>>

UploadAccount(j, n) ==
  /\ job[j].at = "insert" /\ job[j].kind = "guild"
  /\ n \in job[j].names
  /\ job' = [job EXCEPT ![j].names = @ \ {n}]
  /\ IF ListedAs(n, job[j].guild)
     THEN UNCHANGED <<listed, credit>>
     ELSE \E a \in Account \ listed :
            /\ NameOf[a] = n /\ GuildOf[a] = job[j].guild /\ ListOf[a] = job[j].list
            /\ InsertAccount(a)
  /\ UNCHANGED <<session, member, recorded, panel, message, thread, owed, got>>

(* The callback returns, or the download or a statement of it throws. *)
UploadEnds(j) ==
  /\ job[j].at # "none"
  /\ job' = [job EXCEPT ![j] = NoJob]
  /\ UNCHANGED <<session, member, listed, credit, recorded, panel, message, thread, owed, got>>

-----------------------------------------------------------------------------
(* /guild remove, /guild add user, /guild remove user *)

RemoveList(g, l) ==
  /\ thread = Idle
  /\ DeleteAccounts({a \in listed : ListOf[a] = l /\ GuildOf[a] = g})
  /\ UNCHANGED <<session, member, credit, recorded, panel, message, thread, job, got>>

AddGuildUser(a) ==
  /\ thread = Idle
  /\ a \notin listed /\ ListOf[a] = NoList
  /\ InsertAccount(a)
  /\ UNCHANGED <<session, member, recorded, panel, message, thread, job, owed, got>>

RemoveGuildUser(g, n) ==
  /\ thread = Idle
  /\ DeleteAccounts({a \in listed : NameOf[a] = n /\ GuildOf[a] = g})
  /\ UNCHANGED <<session, member, credit, recorded, panel, message, thread, job, got>>

(* The process dies and is started again: the database and the messages    *)
(* survive, an edit on its way may not.                                    *)
Crash ==
  /\ panel' = [p \in Panel |->
                 IF panel[p].state = "live" THEN [panel[p] EXCEPT !.state = "dead"] ELSE panel[p]]
  /\ message' = [m \in Panel |-> IF message[m] = "editing" THEN "enabled" ELSE message[m]]
  /\ thread' = Idle
  /\ job' = [j \in Job |-> NoJob]
  /\ owed' = Nothing /\ got' = Nothing
  /\ UNCHANGED <<session, member, listed, credit, recorded>>

-----------------------------------------------------------------------------
Command ==
  \/ \E u \in User, g \in Guild, s \in Split : Create(u, g, s)
  \/ \E g \in Guild, n \in Name : Add(g, n) \/ RemoveMember(g, n) \/ Half(g, n)
  \/ \E u \in User, g \in Guild, s \in Split, p \in Panel : OpenPanel(u, g, s, p)
  \/ \E g \in Guild, l \in GuildList : RemoveList(g, l)
  \/ \E g \in Guild, n \in Name : RemoveGuildUser(g, n)
  \/ \E a \in Account : AddGuildUser(a)

Button ==
  \/ \E m, p \in Panel : PressConfirm(m, p) \/ PressCancel(m, p)
  \/ \E m \in Panel : EditArrives(m)

Payout ==
  \/ PaySessionAmount \/ PayFullRows \/ PayHalfRows
  \/ PayHalfAccounts \/ PayFullAccounts \/ EndSession \/ PayoutFails

Upload ==
  \E j \in Job :
    \/ \E g \in Guild, N \in SUBSET Name :
         \/ StartSplitUpload(j, g, N)
         \/ \E l \in GuildList : StartGuildUpload(j, g, l, N)
    \/ Downloaded(j) \/ DeleteOldList(j) \/ UploadEnds(j)
    \/ \E n \in Name : UploadMember(j, n) \/ UploadAccount(j, n)

Next == Command \/ Button \/ Payout \/ Upload \/ Crash

Spec == Init /\ [][Next]_vars

-----------------------------------------------------------------------------
(* Every variable stays in its type. *)
TypeOK ==
  /\ session \in [Split -> Session]
  /\ member \in [RowId -> Member \cup {NoMember}]
  /\ listed \in SUBSET Account
  /\ credit \in [Payee -> [Panel -> Nat]]
  /\ recorded \in [Panel -> Nat]
  /\ panel \in [Panel -> PanelRecord]
  /\ message \in [Panel -> MessageState]
  /\ thread \in [at: Stage, panel: Panel \cup {None}, message: Panel \cup {None}]
  /\ job \in [Job -> JobRecord]
  /\ owed \in [Payee -> 0..2]
  /\ got \in [Payee -> Nat]

(* A guild never has two active sessions, although createNewLootSplitSession *)
(* inserts without looking and the check before it is another statement.     *)
OneActiveSession ==
  \A s, t \in Split :
    session[s].status = "active" /\ session[t].status = "active" /\ session[s].guild = session[t].guild
      => s = t

(* A name is in a split once, whatever mixture of commands and callbacks of  *)
(* uploads inserts it, while the table itself has no unique key.             *)
MemberOnce ==
  \A r, q \in RowId :
    member[r] # NoMember /\ member[q] # NoMember
      /\ member[r].split = member[q].split /\ member[r].name = member[q].name => r = q

(* No balance, of a member or of a player, ever holds more of a panel's    *)
(* share than the amount of the session already says was paid out: the     *)
(* record is written first, and no row is reached by two statements of one *)
(* payout.  This must survive failures and crashes between the statements, *)
(* several presses of the button, and members joining in the middle.       *)
RecordedBeforePaid ==
  \A x \in Payee, p \in Panel : credit[x][p] <= recorded[p]

(* When a payout has run its statements, every member and every player     *)
(* that was due a share when the button was pressed has got exactly it: a  *)
(* whole share, or half when halved.  Only a player deleted meanwhile is   *)
(* owed nothing.                                                           *)
PaidInFull ==
  thread.at = "endSession" => \A x \in Payee : owed[x] > 0 => got[x] = owed[x]

(* Whom the statements still to come may pay, and what makes that safe:    *)
(* none of them holds a share of the running payout yet.  In particular    *)
(* no account that got a half share is among those that get a whole one,   *)
(* because no name is in the split twice.  With the amount on record this  *)
(* is the argument for RecordedBeforePaid.                                 *)
StillToPay ==
  {x \in Payee :
     \/ thread.at = "fullRows"
     \/ thread.at = "halfRows" /\ x \in HalfRows(PaidSplit) \cup Account
     \/ thread.at = "halfAccounts" /\ x \in Account
     \/ /\ thread.at = "fullAccounts" /\ x \in Account
        /\ NameOf[x] \notin NamesIn(HalfRows(PaidSplit))}

PaidInOrder ==
  /\ thread.at \in Paying => thread.panel \in Panel
  /\ thread.at \in Paying \ {"sessionAmount"} => recorded[thread.panel] >= 2
  /\ \A x \in StillToPay : credit[x][thread.panel] + 2 <= recorded[thread.panel]

(* A press is never answered by two panels: the panels of one process have *)
(* different ids, so one message cannot start two payouts.                 *)
OnePanelAnswers ==
  \A p, q \in LivePanels : panel[p].id = panel[q].id => p = q

(* The balances and the record behave as the ledger of PayoutLedger does,  *)
(* step by step, under every interleaving of payouts, failures, crashes,   *)
(* deletions and uploads.                                                  *)
Ledger == INSTANCE PayoutLedger
LedgerSpec == Ledger!Spec

-----------------------------------------------------------------------------
(* What texts of the repository say and the code does not do. *)

(* "Confirms the lootsplit with the specified ID and adds balances"        *)
(* (README.md:32): a confirmation adds the amount of its panel once,       *)
(* however often its button is pressed before the message is edited.       *)
ConfirmedOnce == \A p \in Panel : recorded[p] <= 2

=============================================================================
