----------------------------- MODULE Attendance -----------------------------
(***************************************************************************)
(* The attendance list of a CTA in the GuildBot: the table users.          *)
(*                                                                         *)
(* A list is uploaded as a file, whose callback runs on a thread of its    *)
(* own: it deletes the old list, inserts a row for each line and sets      *)
(* those who are online to absent.  Party and late commands on the event   *)
(* thread mark players as present or late.  A guild check, in a callback   *)
(* too, reads the absent players and writes their status back.  Every      *)
(* statement is on its own, may fail, and nobody waits for another.        *)
(*                                                                         *)
(* The module is composed with CTA: commands need an active CTA, which may *)
(* be finished or cancelled while a callback works with its id.            *)
(***************************************************************************)
EXTENDS Integers, FiniteSets

CONSTANTS
  Guild, Id, Mute, Horizon, MaxTrouble, None, \* see CTA
  Name,     \* in-game names, whatever the letter case they are typed in
  File,     \* uploaded files: how often they list each name, and list it as online
  Image,    \* party images: how often each name is recognised in them
  Party,    \* party numbers
  RowId,    \* rows of users
  Job,      \* downloads of files
  Main,     \* the event thread at work for a party image
  MaxWork   \* bound on downloads, callbacks and party images at work together

ASSUME AttendanceAssumption ==
  /\ Mute \subseteq Guild
  /\ Horizon \in Nat /\ MaxTrouble \in Nat /\ MaxWork \in Nat
  /\ None \notin Id \cup Name \cup Party
  /\ Main \notin Job
  /\ IsFiniteSet(RowId)
  /\ File \subseteq [names: [Name -> Nat], online: [Name -> Nat]]
  /\ Image \subseteq [Name -> Nat]

VARIABLES
  cta, now, thread, checker, told, trouble, \* see CTA
  users,      \* table users
  work,       \* what downloads, their callbacks and a party upload are at
  filed,      \* history: the names of the file each CTA has its list from; None
              \* if another upload was inserting when that one deleted the old list
  marked,     \* history: marks of players that no callback was about to overwrite
  settled     \* history: cancelled CTAs that no upload was under way for

C == INSTANCE CTA

ctaVars == <<cta, now, thread, checker, told, trouble>>
listVars == <<users, work, filed, marked, settled>>
vars == <<cta, now, thread, checker, told, trouble, users, work, filed, marked, settled>>

Status == {"offline", "absent", "present", "late"}
User == [cta: Id, name: Name, status: Status, party: Party \cup {None}]
NoUser == [status |-> "unused"]

Uploading == {"download", "insert", "mark"}
Judging == {"next", "status", "party", "again", "write"}
Checking == {"fetch"} \cup Judging
Seating == Judging \cup {"clear", "add"}

(* Lists of names that may repeat, as how often they have each; the order  *)
(* is left open.                                                           *)
Names == [Name -> Nat]
Nobody == [n \in Name |-> 0]
In(T) == {n \in Name : T[n] > 0}
Less(T, n) == [T EXCEPT ![n] = @ - 1]
More(T, n) == [T EXCEPT ![n] = @ + 1]
PartsOf(T) == {S \in [Name -> UNION {0..T[n] : n \in Name}] : \A n \in Name : S[n] <= T[n]}

(* todo: names still to insert, mark, judge or add; found: the players who *)
(* are online, or were recognised in the image; name and status: whom a    *)
(* check is at, and what it is going to write.                             *)
Work == [at: {"idle"} \cup Uploading \cup Checking \cup Seating, cta: Id \cup {None},
         todo: Names, found: Names, name: Name \cup {None},
         status: Status, party: Party \cup {None}]
Rest == [at |-> "idle", cta |-> None, todo |-> Nobody, found |-> Nobody, name |-> None,
         status |-> "offline", party |-> None]

IsRow(r, c, n) == users[r] # NoUser /\ users[r].cta = c /\ users[r].name = n
RowsOf(c, n) == {r \in RowId : IsRow(r, c, n)}

(* UPDATE users SET status, party_number WHERE name and CTA. *)
Update(c, n, status, party) ==
  [r \in RowId |->
     IF IsRow(r, c, n) THEN [users[r] EXCEPT !.status = status, !.party = party] ELSE users[r]]

UpdateStatus(c, n, status) ==
  [r \in RowId |-> IF IsRow(r, c, n) THEN [users[r] EXCEPT !.status = status] ELSE users[r]]

Without(c) == [r \in RowId |-> IF users[r] # NoUser /\ users[r].cta = c THEN NoUser ELSE users[r]]

Inserting(j, c) == work[j].at = "insert" /\ work[j].cta = c

(* A callback that may still write to the status of a player of c. *)
Holds(j, c, n) ==
  /\ work[j].cta = c
  /\ \/ work[j].at \in {"insert", "mark"}
     \/ work[j].at \in Judging /\ n \in In(work[j].todo) \cup {work[j].name}

Marked(c, n) ==
  IF \E j \in Job : Holds(j, c, n) THEN marked \ {<<c, n>>} ELSE marked \cup {<<c, n>>}

Free == thread = C!Idle /\ work[Main].at = "idle"

Room == Cardinality({w \in Job \cup {Main} : work[w].at # "idle"}) < MaxWork

-----------------------------------------------------------------------------
Init ==
  /\ C!Init
  /\ users = [r \in RowId |-> NoUser]
  /\ work = [w \in Job \cup {Main} |-> Rest]
  /\ filed = [c \in Id |-> Nobody]
  /\ marked = {} /\ settled = {}

-----------------------------------------------------------------------------
(* The event thread: commands of one UPDATE. *)

PartyAdd(g, n, p) ==
  /\ Free
  /\ \E c \in C!ActiveIn(g) :
       /\ users' = Update(c, n, "present", p)
       /\ marked' = Marked(c, n)
  /\ UNCHANGED <<ctaVars, work, filed, settled>>

PartyRemove(g, n, p) ==
  /\ Free
  /\ \E c \in C!ActiveIn(g) :
       /\ users' = [r \in RowId |->
                      IF IsRow(r, c, n) /\ users[r].party = p
                        THEN [users[r] EXCEPT !.status = "absent", !.party = None] ELSE users[r]]
       /\ marked' = marked \ {<<c, n>>}
  /\ UNCHANGED <<ctaVars, work, filed, settled>>

LateRegister(g, n) ==
  /\ Free
  /\ \E c \in C!ActiveIn(g) :
       /\ users' = Update(c, n, "late", None)
       /\ marked' = Marked(c, n)
  /\ UNCHANGED <<ctaVars, work, filed, settled>>

(* Commands that start something longer.  The id of the CTA is read now.   *)

(* Mutant of StartUpload: the id is not asked to be that of an active CTA. *)
StartUploadAnyway(g, j) ==
  /\ Free /\ Room /\ work[j].at = "idle"
  /\ \E c \in Id :
       /\ cta[c] # C!NoRow /\ cta[c].guild = g
       /\ work' = [work EXCEPT ![j] = [Rest EXCEPT !.at = "download", !.cta = c]]
  /\ UNCHANGED <<ctaVars, users, filed, marked, settled>>

StartUpload(g, j) ==
  /\ Free /\ Room /\ work[j].at = "idle"
  /\ \E c \in C!ActiveIn(g) : work' = [work EXCEPT ![j] = [Rest EXCEPT !.at = "download", !.cta = c]]
  /\ UNCHANGED <<ctaVars, users, filed, marked, settled>>

StartCheck(g, j) ==
  /\ Free /\ Room /\ work[j].at = "idle"
  /\ \E c \in C!ActiveIn(g) : work' = [work EXCEPT ![j] = [Rest EXCEPT !.at = "fetch", !.cta = c]]
  /\ UNCHANGED <<ctaVars, users, filed, marked, settled>>

(* /cta party upload of an image with the names N. *)
StartParty(g, p) ==
  /\ Free /\ Room
  /\ \E c \in C!ActiveIn(g), N \in Image :
       work' = [work EXCEPT ![Main] = [Rest EXCEPT !.at = "next", !.cta = c, !.todo = N, !.party = p]]
  /\ UNCHANGED <<ctaVars, users, filed, marked, settled>>

-----------------------------------------------------------------------------
(* The callback of an upload, once the file f has come. *)

(* Mutant of DeleteList: the old list is not deleted. *)
DeleteNothing(j, f) ==
  LET c == work[j].cta IN
  /\ work[j].at = "download"
  /\ work' = [work EXCEPT ![j] = [@ EXCEPT !.at = "insert", !.todo = f.names, !.found = f.online]]
  /\ filed' = [filed EXCEPT ![c] = IF \E k \in Job : Inserting(k, c) THEN None ELSE f.names]
  /\ marked' = {m \in marked : m[1] # c}
  /\ UNCHANGED <<ctaVars, users, settled>>

DeleteList(j, f) ==
  LET c == work[j].cta IN
  /\ work[j].at = "download"
  /\ users' = Without(c)
  /\ work' = [work EXCEPT ![j] = [@ EXCEPT !.at = "insert", !.todo = f.names, !.found = f.online]]
  /\ filed' = [filed EXCEPT ![c] = IF \E k \in Job : Inserting(k, c) THEN None ELSE f.names]
  /\ marked' = {m \in marked : m[1] # c}
  /\ UNCHANGED <<ctaVars, settled>>

InsertName(j, n, r) ==
  /\ work[j].at = "insert" /\ n \in In(work[j].todo)
  /\ users[r] = NoUser
  /\ users' = [users EXCEPT
                  ![r] = [cta |-> work[j].cta, name |-> n, status |-> "offline", party |-> None]]
  /\ work' = [work EXCEPT ![j] = [@ EXCEPT !.todo = Less(work[j].todo, n)]]
  /\ UNCHANGED <<ctaVars, filed, marked, settled>>

AllInserted(j) ==
  /\ work[j].at = "insert" /\ work[j].todo = Nobody
  /\ work' = [work EXCEPT ![j] = [@ EXCEPT !.at = "mark", !.todo = work[j].found, !.found = Nobody]]
  /\ UNCHANGED <<ctaVars, users, filed, marked, settled>>

(* An insert fails: uploadGuildData gives up the lines left in its batch   *)
(* and reports nothing; the next batch follows.                            *)
InsertFails(j) ==
  /\ work[j].at = "insert"
  /\ \E T \in PartsOf(work[j].todo) \ {work[j].todo} :
       work' = [work EXCEPT ![j] = [@ EXCEPT !.todo = T]]
  /\ UNCHANGED <<ctaVars, users, filed, marked, settled>>

MarkOnline(j, n) ==
  /\ work[j].at = "mark" /\ n \in In(work[j].todo)
  /\ users' = UpdateStatus(work[j].cta, n, "absent")
  /\ work' = [work EXCEPT ![j] = [@ EXCEPT !.todo = Less(work[j].todo, n)]]
  /\ UNCHANGED <<ctaVars, filed, marked, settled>>

UploadEnds(j) ==
  /\ work[j].at = "mark" /\ work[j].todo = Nobody
  /\ work' = [work EXCEPT ![j] = Rest]
  /\ UNCHANGED <<ctaVars, users, filed, marked, settled>>

-----------------------------------------------------------------------------
(* The callback of a check. *)

(* Mutant of Absentees: everybody who is in no party. *)
Unseated(c) == [n \in Name |-> Cardinality({r \in RowsOf(c, n) : users[r].party = None})]

(* A name for each row. *)
Absentees(c) ==
  [n \in Name |->
     Cardinality({r \in RowsOf(c, n) : users[r].status = "absent" /\ users[r].party = None})]

ListAbsentees(j) ==
  /\ work[j].at = "fetch"
  /\ work' = [work EXCEPT ![j] = [@ EXCEPT !.at = "next", !.todo = Absentees(work[j].cta)]]
  /\ UNCHANGED <<ctaVars, users, filed, marked, settled>>

CheckEnds(j) ==
  /\ work[j].at = "next" /\ work[j].todo = Nobody
  /\ work' = [work EXCEPT ![j] = Rest]
  /\ UNCHANGED <<ctaVars, users, filed, marked, settled>>

-----------------------------------------------------------------------------
(* getPlayerStatus, for a check and for each name of a party image. *)

(* A name of an image has to be matched to one of the list, as it is now. *)
NextName(w, n) ==
  /\ work[w].at = "next" /\ n \in In(work[w].todo)
  /\ \/ /\ w = Main => RowsOf(work[w].cta, n) # {}
        /\ work' = [work EXCEPT ![w] = [@ EXCEPT !.at = "status", !.name = n, !.todo = Less(work[w].todo, n),
                                             !.found = IF w = Main THEN More(work[w].found, n) ELSE Nobody]]
     \/ /\ w = Main
        /\ work' = [work EXCEPT ![w] = [@ EXCEPT !.todo = Less(work[w].todo, n)]]
  /\ UNCHANGED <<ctaVars, users, filed, marked, settled>>

(* The first row of the name is read, whichever that is. *)
ReadStatus(w) ==
  LET rows == RowsOf(work[w].cta, work[w].name) IN
  /\ work[w].at = "status"
  /\ \/ /\ \E r \in rows : users[r].status = "absent"
        /\ work' = [work EXCEPT ![w] = [@ EXCEPT !.at = "party"]]
     \/ /\ rows = {} \/ \E r \in rows : users[r].status # "absent"
        /\ work' = [work EXCEPT ![w] = [@ EXCEPT !.at = "write", !.status = "offline"]]
  /\ UNCHANGED <<ctaVars, users, filed, marked, settled>>

InParty(w) == \E r \in RowsOf(work[w].cta, work[w].name) : users[r].party # None
InNoParty(w) ==
  LET rows == RowsOf(work[w].cta, work[w].name) IN
  rows = {} \/ \E r \in rows : users[r].party = None

(* playerHasParty is asked twice: a player who joins a party in between is *)
(* offline.                                                                *)
ReadParty(w) ==
  /\ work[w].at = "party"
  /\ \/ InParty(w) /\ work' = [work EXCEPT ![w] = [@ EXCEPT !.at = "write", !.status = "present"]]
     \/ InNoParty(w) /\ work' = [work EXCEPT ![w] = [@ EXCEPT !.at = "again"]]
  /\ UNCHANGED <<ctaVars, users, filed, marked, settled>>

ReadPartyAgain(w) ==
  /\ work[w].at = "again"
  /\ \/ InParty(w) /\ work' = [work EXCEPT ![w] = [@ EXCEPT !.at = "write", !.status = "offline"]]
     \/ InNoParty(w) /\ work' = [work EXCEPT ![w] = [@ EXCEPT !.at = "write", !.status = "absent"]]
  /\ UNCHANGED <<ctaVars, users, filed, marked, settled>>

(* A party upload overwrites a mark until it adds the player anew. *)
WriteStatus(w) ==
  /\ work[w].at = "write"
  /\ users' = UpdateStatus(work[w].cta, work[w].name, work[w].status)
  /\ work' = [work EXCEPT ![w] = [@ EXCEPT !.at = "next", !.name = None, !.status = "offline"]]
  /\ marked' = IF w = Main THEN marked \ {<<work[w].cta, work[w].name>>} ELSE marked
  /\ UNCHANGED <<ctaVars, filed, settled>>

-----------------------------------------------------------------------------
(* The rest of a party upload. *)

AllRecognised ==
  /\ work[Main].at = "next" /\ work[Main].todo = Nobody
  /\ work' = [work EXCEPT ![Main] = [@ EXCEPT !.at = "clear"]]
  /\ UNCHANGED <<ctaVars, users, filed, marked, settled>>

(* Mutant of ClearParty: 0 instead of NULL, which playerHasParty takes for *)
(* no party, too, but nothing else does.                                   *)
ClearPartyToZero ==
  /\ work[Main].at = "clear"
  /\ users' = [r \in RowId |->
                 IF /\ users[r] # NoUser
                    /\ users[r].cta = work[Main].cta /\ users[r].party = work[Main].party
                   THEN [users[r] EXCEPT !.party = 0] ELSE users[r]]
  /\ work' = [work EXCEPT ![Main] = [@ EXCEPT !.at = "add", !.todo = work[Main].found,
                                            !.found = Nobody]]
  /\ UNCHANGED <<ctaVars, filed, marked, settled>>

(* Those who were in the party keep their status. *)
ClearParty ==
  /\ work[Main].at = "clear"
  /\ users' = [r \in RowId |->
                 IF /\ users[r] # NoUser
                    /\ users[r].cta = work[Main].cta /\ users[r].party = work[Main].party
                   THEN [users[r] EXCEPT !.party = None] ELSE users[r]]
  /\ work' = [work EXCEPT ![Main] = [@ EXCEPT !.at = "add", !.todo = work[Main].found,
                                            !.found = Nobody]]
  /\ UNCHANGED <<ctaVars, filed, marked, settled>>

AddToParty(n) ==
  /\ work[Main].at = "add" /\ n \in In(work[Main].todo)
  /\ users' = Update(work[Main].cta, n, "present", work[Main].party)
  /\ work' = [work EXCEPT ![Main] = [@ EXCEPT !.todo = Less(work[Main].todo, n)]]
  /\ marked' = Marked(work[Main].cta, n)
  /\ UNCHANGED <<ctaVars, filed, settled>>

PartyEnds ==
  /\ work[Main].at = "add" /\ work[Main].todo = Nobody
  /\ work' = [work EXCEPT ![Main] = Rest]
  /\ UNCHANGED <<ctaVars, users, filed, marked, settled>>

-----------------------------------------------------------------------------
(* Failures. *)

(* updateUserStatus and addPlayerToParty report an SQLException to nobody  *)
(* and the work goes on.                                                   *)
FailsSilently(w) ==
  /\ \/ /\ work[w].at \in {"mark", "add"}
        /\ \E n \in In(work[w].todo) :
             work' = [work EXCEPT ![w] = [@ EXCEPT !.todo = Less(work[w].todo, n)]]
     \/ /\ work[w].at = "write"
        /\ work' = [work EXCEPT ![w] = [@ EXCEPT !.at = "next", !.name = None, !.status = "offline"]]
  /\ UNCHANGED <<ctaVars, users, filed, marked, settled>>

(* The other statements throw, as does a line of the file without a date,  *)
(* and a download may fail: the callback or the command ends.              *)
Fails(w) ==
  /\ work[w].at \in {"download", "insert", "fetch", "status", "party", "again", "clear"}
  /\ work' = [work EXCEPT ![w] = Rest]
  /\ UNCHANGED <<ctaVars, users, filed, marked, settled>>

-----------------------------------------------------------------------------
(* CTA, and what it does to the list. *)

(* The second statement of /cta cancel. *)
DeleteUsers ==
  LET c == thread.cta IN
  /\ C!DeleteUsers
  /\ users' = Without(c)
  /\ marked' = {m \in marked : m[1] # c}
  /\ settled' = IF \E j \in Job : work[j].cta = c /\ work[j].at \in Uploading
                  THEN settled ELSE settled \cup {c}
  /\ UNCHANGED <<work, filed>>

Restart ==
  /\ C!Restart
  /\ work' = [w \in Job \cup {Main} |-> Rest]
  /\ UNCHANGED <<users, filed, marked, settled>>

CTANext ==
  \/ /\ work[Main].at = "idle" /\ C!Command
     /\ UNCHANGED listVars
  \/ /\ C!Tick \/ C!SetEnd \/ C!Round \/ C!CommandFails \/ C!TaskFails
     /\ UNCHANGED listVars
  \/ DeleteUsers
  \/ Restart

Command ==
  \E g \in Guild :
    \/ \E n \in Name : LateRegister(g, n) \/ \E p \in Party : PartyAdd(g, n, p) \/ PartyRemove(g, n, p)
    \/ \E j \in Job : StartUpload(g, j) \/ StartCheck(g, j)
    \/ \E p \in Party : StartParty(g, p)

Upload(j) ==
  \/ \E f \in File : DeleteList(j, f)
  \/ AllInserted(j) \/ InsertFails(j) \/ UploadEnds(j)
  \/ \E n \in In(work[j].todo) : MarkOnline(j, n) \/ \E r \in RowId : InsertName(j, n, r)

Judge(w) ==
  \/ ReadStatus(w) \/ ReadParty(w) \/ ReadPartyAgain(w) \/ WriteStatus(w)
  \/ \E n \in In(work[w].todo) : NextName(w, n)

PartyUpload == AllRecognised \/ ClearParty \/ PartyEnds \/ \E n \in In(work[Main].todo) : AddToParty(n)

ListNext ==
  \/ Command
  \/ \E j \in Job : Upload(j) \/ ListAbsentees(j) \/ CheckEnds(j)
  \/ \E w \in Job \cup {Main} : Judge(w) \/ FailsSilently(w) \/ Fails(w)
  \/ PartyUpload

Next == CTANext \/ ListNext

Spec == Init /\ [][Next]_vars

-----------------------------------------------------------------------------
(* Every variable of this module stays in its type. *)
TypeOK ==
  /\ users \in [RowId -> User \cup {NoUser}]
  /\ work \in [Job \cup {Main} -> Work]
  /\ filed \in [Id -> Names \cup {None}]
  /\ settled \subseteq Id
  /\ marked \subseteq Id \X Name

(* A list holds a name no more often than the file it was last uploaded    *)
(* from, though no key of the table demands it, unless another upload was  *)
(* inserting when that one deleted the old list: upload after upload,      *)
(* however they fail or are cut off, the deletion clears what was there.   *)
ListedAsFiled ==
  \A c \in Id, n \in Name : filed[c] # None => Cardinality(RowsOf(c, n)) <= filed[c][n]

(* A player marked as present or late stays so, through later checks, the  *)
(* end of the CTA, failures and restarts, unless a callback had looked at  *)
(* him before he was marked.                                               *)
MarksStay ==
  \A r \in RowId :
    users[r] # NoUser /\ <<users[r].cta, users[r].name>> \in marked
      => users[r].status \in {"present", "late"}

(* A cancelled CTA leaves no attendance behind, unless its second DELETE   *)
(* failed or an upload for it was under way: nothing that starts later     *)
(* gets hold of its id.                                                    *)
CancelledIsGone == \A r \in RowId : users[r] # NoUser => users[r].cta \notin settled

(* For the CTAs this is module CTA: keeping lists adds nothing to it. *)
CTASpec == C!Spec

=============================================================================
