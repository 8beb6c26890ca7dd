----------------------------- MODULE GuestRoles -----------------------------
(***************************************************************************)
(* The guest roles of the LootSplit bot (atom_comm_3): /guestsetup gives a *)
(* role a duration, whoever then receives the role gets a row with the     *)
(* minutes left, and once a minute a scheduled task counts the rows down   *)
(* and takes expired roles away.                                           *)
(*                                                                         *)
(* The rows are inserted on the event thread of JDA and counted down and   *)
(* deleted on the thread of the scheduler, one SQL statement at a time.    *)
(* Discord, which holds the roles themselves, is told asynchronously.      *)
(***************************************************************************)
EXTENDS Integers, FiniteSets

CONSTANTS
  Guild,      \* Discord servers
  User,       \* members
  Role,       \* role names
  RowId,      \* rows of players_roles; bounds the grants on record
  Duration,   \* minutes given to /guestsetup, which takes any number
  Deletable,  \* servers and roles: a role that may disappear from the server
  Barrable,   \* servers and roles: a role that may get out of the reach of the bot
  MaxEvents,  \* bound on role-add events on their way at a time
  MaxTrouble, \* bound on failed statements, lost requests and restarts
  None        \* no duration, no row, no member

ASSUME GuestAssumption ==
  /\ Duration \subseteq Int
  /\ Deletable \subseteq Guild \X Role /\ Barrable \subseteq Guild \X Role
  /\ MaxEvents \in Nat /\ MaxTrouble \in Nat
  /\ None \notin Int

VARIABLES
  duration,  \* table roles: the first row of a name and server is the one that is read
  row,       \* table players_roles
  exists,    \* the roles a server has
  barred,    \* those the bot may not touch: above its own, or its permission withdrawn
  has,       \* the roles a member has
  event,     \* role-add events JDA has not handed over yet
  removal,   \* requests to Discord to take a role away
  checker,   \* the scheduled task
  trouble    \* failed statements, lost requests and restarts so far

vars == <<duration, row, exists, barred, has, event, removal, checker, trouble>>

Row == [guild: Guild, user: User, role: Role, left: Int]
Grant == [guild: Guild, user: User, roles: SUBSET Role]
Membership == [guild: Guild, user: User, role: Role]

(* What the SELECT returned, one entry for each row. *)
Expired == [row: RowId, user: User, role: Role]

(* "idle" between two rounds; "dead" after an exception the task does not  *)
(* catch, upon which the executor never runs it again.                     *)
Between == [at: {"idle", "guild", "dead"}, guilds: SUBSET Guild, guild: {None},
            expired: {{}}, user: {None}]
Within == [at: {"select", "remove", "delete"}, guilds: SUBSET Guild, guild: Guild,
           expired: SUBSET Expired, user: User \cup {None}]
Checker == Between \cup Within
Waiting == [at |-> "idle", guilds |-> {}, guild |-> None, expired |-> {}, user |-> None]

RowsOf(g) == {i \in RowId : row[i] # None /\ row[i].guild = g}

(* The roles the bot can take away from a member. *)
Removable(g) == exists[g] \ barred[g]

-----------------------------------------------------------------------------
Init ==
  /\ duration = [g \in Guild |-> [r \in Role |-> None]]
  /\ row = [i \in RowId |-> None]
  /\ exists = [g \in Guild |-> Role]
  /\ barred = [g \in Guild |-> {}]
  /\ has = [g \in Guild |-> [u \in User |-> {}]]
  /\ event = {}
  /\ removal = {}
  /\ checker = Waiting
  /\ trouble = 0

-----------------------------------------------------------------------------
(* The server and its moderators.  Of equal events one at a time is on its *)
(* way to the bot.                                                         *)

GiveRoles(g, u, R) ==
  LET e == [guild |-> g, user |-> u, roles |-> R] IN
  /\ R # {} /\ R \subseteq exists[g] \ has[g][u]
  /\ e \notin event /\ Cardinality(event) < MaxEvents
  /\ has' = [has EXCEPT ![g][u] = @ \cup R]
  /\ event' = event \cup {e}
  /\ UNCHANGED <<duration, row, exists, barred, removal, checker, trouble>>

TakeRole(g, u, r) ==
  /\ r \in has[g][u]
  /\ has' = [has EXCEPT ![g][u] = @ \ {r}]
  /\ UNCHANGED <<duration, row, exists, barred, event, removal, checker, trouble>>

DeleteRole(g, r) ==
  /\ r \in exists[g] /\ <<g, r>> \in Deletable
  /\ exists' = [exists EXCEPT ![g] = @ \ {r}]
  /\ barred' = [barred EXCEPT ![g] = @ \ {r}]
  /\ has' = [has EXCEPT ![g] = [u \in User |-> @[u] \ {r}]]
  /\ UNCHANGED <<duration, row, event, removal, checker, trouble>>

(* The hierarchy of the roles, or the permissions of the bot, are changed. *)
Bar(g, r) ==
  /\ r \in Removable(g) /\ <<g, r>> \in Barrable
  /\ barred' = [barred EXCEPT ![g] = @ \cup {r}]
  /\ UNCHANGED <<duration, row, exists, has, event, removal, checker, trouble>>

Unbar(g, r) ==
  /\ r \in barred[g]
  /\ barred' = [barred EXCEPT ![g] = @ \ {r}]
  /\ UNCHANGED <<duration, row, exists, has, event, removal, checker, trouble>>

(* A request of the bot is carried out, or fails and is not repeated. *)
RemovalDone(q) ==
  /\ q.role \notin barred[q.guild]
  /\ removal' = removal \ {q}
  /\ has' = [has EXCEPT ![q.guild][q.user] = @ \ {q.role}]
  /\ UNCHANGED <<duration, row, exists, barred, event, checker, trouble>>

RemovalLost(q) ==
  /\ \/ q.role \in barred[q.guild] /\ UNCHANGED trouble
     \/ trouble < MaxTrouble /\ trouble' = trouble + 1
  /\ removal' = removal \ {q}
  /\ UNCHANGED <<duration, row, exists, barred, has, event, checker>>

-----------------------------------------------------------------------------
(* The event thread. *)

(* A second /guestsetup of a role inserts a row nobody reads.  The number  *)
(* of minutes is stored as it is typed, 0 and negative ones too.           *)
GuestSetup(g, r, d) ==
  /\ duration[g][r] = None
  /\ duration' = [duration EXCEPT ![g][r] = d]
  /\ UNCHANGED <<row, exists, barred, has, event, removal, checker, trouble>>

(* Mutant of RoleAdded: whether the role was set up is not asked. *)
RoleAddedUnchecked(e) ==
  /\ event' = event \ {e}
  /\ \E r \in e.roles, i \in RowId :
       /\ row[i] = None
       /\ row' = [row EXCEPT ![i] =
                    [guild |-> e.guild, user |-> e.user, role |-> r,
                     left |-> duration[e.guild][r]]]
  /\ UNCHANGED <<duration, exists, barred, has, removal, checker, trouble>>

(* Of the roles of one event only the first is looked at. *)
RoleAdded(e) ==
  /\ event' = event \ {e}
  /\ \E r \in e.roles :
       IF duration[e.guild][r] = None
       THEN UNCHANGED row
       ELSE \E i \in RowId :
              /\ row[i] = None
              /\ row' = [row EXCEPT ![i] =
                           [guild |-> e.guild, user |-> e.user, role |-> r,
                            left |-> duration[e.guild][r]]]
  /\ UNCHANGED <<duration, exists, barred, has, removal, checker, trouble>>

(* A statement of the handler throws. *)
RoleAddFails(e) ==
  /\ trouble < MaxTrouble
  /\ trouble' = trouble + 1
  /\ event' = event \ {e}
  /\ UNCHANGED <<duration, row, exists, barred, has, removal, checker>>

-----------------------------------------------------------------------------
(* The scheduled task. *)

StartRound ==
  /\ checker.at = "idle"
  /\ checker' = [Waiting EXCEPT !.at = "guild", !.guilds = Guild]
  /\ UNCHANGED <<duration, row, exists, barred, has, event, removal, trouble>>

Decrement(g) ==
  /\ checker.at = "guild" /\ g \in checker.guilds
  /\ row' = [i \in RowId |-> IF i \in RowsOf(g) THEN [row[i] EXCEPT !.left = @ - 1] ELSE row[i]]
  /\ checker' = [checker EXCEPT !.at = "select", !.guild = g, !.guilds = @ \ {g}]
  /\ UNCHANGED <<duration, exists, barred, has, event, removal, trouble>>

(* Mutant of ExpiredRows: a row that was missed in its minute is not found. *)
JustExpiredRows(g) == {i \in RowsOf(g) : row[i].left = 0}

ExpiredRows(g) == {i \in RowsOf(g) : row[i].left <= 0}

SelectExpired ==
  /\ checker.at = "select"
  /\ checker' = [checker EXCEPT
       !.at = "remove",
       !.expired = {[row |-> i, user |-> row[i].user, role |-> row[i].role] :
                      i \in ExpiredRows(checker.guild)}]
  /\ UNCHANGED <<duration, row, exists, barred, has, event, removal, trouble>>

(* The role is looked up by name; getRolesByName(...).get(0) throws when   *)
(* the server has no such role any more, and removeRoleFromMember, before  *)
(* it asks Discord, when the bot may not touch it: nobody catches either.  *)
RequestRemoval(x) ==
  /\ checker.at = "remove" /\ x \in checker.expired
  /\ IF x.role \in Removable(checker.guild)
     THEN /\ removal' = removal \cup {[guild |-> checker.guild, user |-> x.user, role |-> x.role]}
          /\ checker' = [checker EXCEPT !.at = "delete", !.user = x.user, !.expired = @ \ {x}]
     ELSE /\ checker' = [Waiting EXCEPT !.at = "dead"]
          /\ UNCHANGED removal
  /\ UNCHANGED <<duration, row, exists, barred, has, event, trouble>>

(* Every row of the member in this server goes, whatever its role. *)
DeleteRows ==
  /\ checker.at = "delete"
  /\ row' = [i \in RowId |->
               IF i \in RowsOf(checker.guild) /\ row[i].user = checker.user THEN None ELSE row[i]]
  /\ checker' = [checker EXCEPT !.at = "remove", !.user = None]
  /\ UNCHANGED <<duration, exists, barred, has, event, removal, trouble>>

GuildDone ==
  /\ checker.at = "remove" /\ checker.expired = {}
  /\ checker' = IF checker.guilds = {} THEN Waiting
                ELSE [Waiting EXCEPT !.at = "guild", !.guilds = checker.guilds]
  /\ UNCHANGED <<duration, row, exists, barred, has, event, removal, trouble>>

(* Mutant of RoundFails: the exception is rethrown, as the task of GuildBot does. *)
RoundFailsUncaught ==
  /\ checker.at \in {"guild", "select", "delete"}
  /\ trouble < MaxTrouble
  /\ trouble' = trouble + 1
  /\ checker' = [Waiting EXCEPT !.at = "dead"]
  /\ UNCHANGED <<duration, row, exists, barred, has, event, removal>>

(* A statement throws an SQLException: the rest of the round is skipped. *)
RoundFails ==
  /\ checker.at \in {"guild", "select", "delete"}
  /\ trouble < MaxTrouble
  /\ trouble' = trouble + 1
  /\ checker' = Waiting
  /\ UNCHANGED <<duration, row, exists, barred, has, event, removal>>

(* The process dies and is started again. *)
Restart ==
  /\ trouble < MaxTrouble
  /\ trouble' = trouble + 1
  /\ event' = {} /\ removal' = {}
  /\ checker' = Waiting
  /\ UNCHANGED <<duration, row, exists, barred, has>>

-----------------------------------------------------------------------------
Moderator ==
  \/ \E g \in Guild, u \in User, R \in SUBSET Role : GiveRoles(g, u, R)
  \/ \E g \in Guild, u \in User, r \in Role : TakeRole(g, u, r)
  \/ \E g \in Guild, r \in Role : DeleteRole(g, r) \/ Bar(g, r) \/ Unbar(g, r)
  \/ \E g \in Guild, r \in Role, d \in Duration : GuestSetup(g, r, d)

Discord == \E q \in removal : RemovalDone(q) \/ RemovalLost(q)

EventThread == \E e \in event : RoleAdded(e) \/ RoleAddFails(e)

Round ==
  \/ StartRound
  \/ \E g \in Guild : Decrement(g)
  \/ SelectExpired
  \/ \E x \in checker.expired : RequestRemoval(x)
  \/ DeleteRows
  \/ GuildDone

Next == Moderator \/ Discord \/ EventThread \/ Round \/ RoundFails \/ Restart

Spec == Init /\ [][Next]_vars

(* The executor runs the task every minute while it lives, and Discord     *)
(* carries out the requests it accepts.  Nothing is assumed of moderators. *)
Fairness ==
  /\ WF_vars(Round)
  /\ WF_vars(\E q \in removal : RemovalDone(q))
FairSpec == Spec /\ Fairness

-----------------------------------------------------------------------------
(* Every variable stays in its type. *)
TypeOK ==
  /\ duration \in [Guild -> [Role -> Duration \cup {None}]]
  /\ row \in [RowId -> Row \cup {None}]
  /\ exists \in [Guild -> SUBSET Role]
  /\ barred \in [Guild -> SUBSET Role]
  /\ has \in [Guild -> [User -> SUBSET Role]]
  /\ event \subseteq Grant
  /\ removal \subseteq Membership
  /\ checker \in Checker
  /\ trouble \in 0..MaxTrouble

(* The least count of minutes a row of a role set up for d is left with    *)
(* when no round fails.  A role set up for no minutes, or fewer, is due    *)
(* before it is ever counted down, and counted down once, when the next    *)
(* round finds it.                                                         *)
Least(d) == IF d > 0 THEN 0 ELSE d - 1

(* A row overstays its minutes by at most one round for each round that    *)
(* failed or was cut off by a restart: the next round catches up.          *)
OverdueBounded ==
  \A i \in RowId :
    row[i] # None => row[i].left + trouble >= Least(duration[row[i].guild][row[i].role])

(* A row on record is eventually deleted, though rounds fail, are cut off  *)
(* by restarts, and members receive and lose roles all the time, unless    *)
(* the task has ended for good; and the task ends only while some role is  *)
(* out of the reach of the bot, never for a statement that fails.          *)
RowsExpire ==
  /\ \A i \in RowId : row[i] # None ~> (row[i] = None \/ checker.at = "dead")
  /\ [][checker.at # "dead" /\ checker'.at = "dead"
           => \E g \in Guild : Removable(g) # Role]_vars

-----------------------------------------------------------------------------
(* What texts of the repository say and the code does not do. *)

(* "after user receives that guest role, they will hold it for Time time"  *)
(* (README.md:59): a guest role on record does not last for ever.          *)
GuestRoleEnds ==
  \A g \in Guild, u \in User, r \in Role :
    (\E i \in RowsOf(g) : row[i].user = u /\ row[i].role = r) ~> r \notin has[g][u]

=============================================================================
