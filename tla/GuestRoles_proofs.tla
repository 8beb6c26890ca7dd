------------------------- MODULE GuestRoles_proofs -------------------------
(***************************************************************************)
(* Theorems about GuestRoles, for any servers, members, roles, durations   *)
(* and any bound on the trouble.                                           *)
(***************************************************************************)
EXTENDS GuestRoles, TLAPS

(* Steps outside the scheduled task keep the types. *)
LEMMA OthersType == TypeOK /\ (Moderator \/ Discord \/ EventThread) => TypeOK'
<1> SUFFICES ASSUME TypeOK, Moderator \/ Discord \/ EventThread PROVE TypeOK' OBVIOUS
<1>1. ASSUME NEW g \in Guild, NEW u \in User, NEW R \in SUBSET Role, GiveRoles(g, u, R)
      PROVE  TypeOK'
  <2>1. [guild |-> g, user |-> u, roles |-> R] \in Grant BY DEF Grant
  <2>2. has' \in [Guild -> [User -> SUBSET Role]] BY <1>1 DEF GiveRoles, TypeOK
  <2> QED BY <1>1, <2>1, <2>2 DEF GiveRoles, TypeOK
<1>2. ASSUME NEW g \in Guild, NEW u \in User, NEW r \in Role, TakeRole(g, u, r) PROVE TypeOK'
  <2>1. has' \in [Guild -> [User -> SUBSET Role]] BY <1>2 DEF TakeRole, TypeOK
  <2> QED BY <1>2, <2>1 DEF TakeRole, TypeOK
<1>3. ASSUME NEW g \in Guild, NEW r \in Role, DeleteRole(g, r) PROVE TypeOK'
  <2>1. has' \in [Guild -> [User -> SUBSET Role]] BY <1>3 DEF DeleteRole, TypeOK
  <2>2. exists' \in [Guild -> SUBSET Role] BY <1>3 DEF DeleteRole, TypeOK
  <2> QED BY <1>3, <2>1, <2>2 DEF DeleteRole, TypeOK
<1>4. ASSUME NEW g \in Guild, NEW r \in Role, NEW d \in Duration, GuestSetup(g, r, d)
      PROVE  TypeOK'
  <2>1. duration' \in [Guild -> [Role -> Duration \cup {None}]]
    BY <1>4 DEF GuestSetup, TypeOK
  <2> QED BY <1>4, <2>1 DEF GuestSetup, TypeOK
<1>5. ASSUME NEW q \in removal, RemovalDone(q) PROVE TypeOK'
  <2>1. q.guild \in Guild /\ q.user \in User BY DEF TypeOK, Membership
  <2>2. has' \in [Guild -> [User -> SUBSET Role]] BY <1>5, <2>1 DEF RemovalDone, TypeOK
  <2> QED BY <1>5, <2>2 DEF RemovalDone, TypeOK
<1>6. ASSUME NEW q \in removal, RemovalLost(q) PROVE TypeOK'
  BY <1>6, GuestAssumption DEF RemovalLost, TypeOK
<1>7. ASSUME NEW e \in event, RoleAdded(e) PROVE TypeOK'
  <2>1. e.guild \in Guild /\ e.user \in User /\ e.roles \subseteq Role BY DEF TypeOK, Grant
  <2>2. PICK r \in e.roles :
          IF duration[e.guild][r] = None
          THEN UNCHANGED row
          ELSE \E i \in RowId :
                 /\ row[i] = None
                 /\ row' = [row EXCEPT ![i] =
                              [guild |-> e.guild, user |-> e.user, role |-> r,
                               left |-> duration[e.guild][r]]]
    BY <1>7 DEF RoleAdded
  <2>3. row' \in [RowId -> Row \cup {None}]
    <3>1. CASE duration[e.guild][r] = None BY <2>2, <3>1 DEF TypeOK
    <3>2. CASE duration[e.guild][r] # None
      <4>1. duration[e.guild][r] \in Duration /\ Duration \subseteq Int
        BY <2>1, <3>2, GuestAssumption DEF TypeOK
      <4>2. [guild |-> e.guild, user |-> e.user, role |-> r,
             left |-> duration[e.guild][r]] \in Row
        BY <2>1, <4>1 DEF Row
      <4> QED BY <2>2, <3>2, <4>2 DEF TypeOK
    <3> QED BY <3>1, <3>2
  <2> QED BY <1>7, <2>3 DEF RoleAdded, TypeOK
<1>8. ASSUME NEW e \in event, RoleAddFails(e) PROVE TypeOK'
  BY <1>8, GuestAssumption DEF RoleAddFails, TypeOK
<1>9. ASSUME NEW g \in Guild, NEW r \in Role, Bar(g, r) \/ Unbar(g, r) PROVE TypeOK'
  <2>1. Bar(g, r) => barred' \in [Guild -> SUBSET Role] BY DEF Bar, TypeOK
  <2>2. Unbar(g, r) => barred' \in [Guild -> SUBSET Role] BY DEF Unbar, TypeOK
  <2> QED BY <1>9, <2>1, <2>2 DEF Bar, Unbar, TypeOK
<1> QED
  BY <1>1, <1>2, <1>3, <1>4, <1>5, <1>6, <1>7, <1>8, <1>9 DEF Moderator, Discord, EventThread

(* Where the task is determines what it holds. *)
LEMMA TaskAt ==
  ASSUME checker \in Checker
  PROVE  /\ checker.at \in {"idle", "guild", "dead"} => checker \in Between
         /\ checker.at \in {"select", "remove", "delete"} => checker \in Within
BY DEF Checker, Between, Within

(* Steps of the scheduled task and a restart keep the types. *)
LEMMA TaskTypes == TypeOK /\ (Round \/ RoundFails \/ Restart) => TypeOK'
<1> SUFFICES ASSUME TypeOK, Round \/ RoundFails \/ Restart PROVE TypeOK' OBVIOUS
<1>1. checker \in Checker /\ Waiting \in Between BY DEF TypeOK, Waiting, Between
<1>2. CASE StartRound
  <2>1. checker' \in Between BY <1>2 DEF StartRound, Waiting, Between
  <2> QED BY <1>2, <2>1 DEF StartRound, TypeOK, Checker
<1>3. ASSUME NEW g \in Guild, Decrement(g) PROVE TypeOK'
  <2>1. checker \in Between BY <1>1, <1>3, TaskAt DEF Decrement
  <2>2. checker' \in Within BY <1>3, <2>1 DEF Decrement, Between, Within
  <2>3. \A i \in RowsOf(g) : [row[i] EXCEPT !.left = @ - 1] \in Row
    <3>1. ASSUME NEW R \in Row PROVE [R EXCEPT !.left = @ - 1] \in Row BY DEF Row
    <3>2. \A i \in RowsOf(g) : row[i] \in Row BY DEF RowsOf, TypeOK
    <3> QED BY <3>1, <3>2
  <2>4. row' \in [RowId -> Row \cup {None}]
    <3>1. \A i \in RowId : row[i] \in Row \cup {None} BY DEF TypeOK
    <3> QED BY <1>3, <2>3, <3>1 DEF Decrement
  <2> QED BY <1>3, <2>2, <2>4 DEF Decrement, TypeOK, Checker
<1>4. CASE SelectExpired
  <2>1. checker \in Within BY <1>1, <1>4, TaskAt DEF SelectExpired
  <2>2. \A i \in ExpiredRows(checker.guild) :
          [row |-> i, user |-> row[i].user, role |-> row[i].role] \in Expired
    BY DEF ExpiredRows, RowsOf, TypeOK, Row, Expired
  <2> DEFINE E == {[row |-> i, user |-> row[i].user, role |-> row[i].role] :
                     i \in ExpiredRows(checker.guild)}
  <2>3. E \in SUBSET Expired BY <2>2
  <2>4. checker' = [checker EXCEPT !.at = "remove", !.expired = E] BY <1>4 DEF SelectExpired
  <2> HIDE DEF E
  <2>5. checker' \in Within BY <2>1, <2>3, <2>4 DEF Within
  <2> QED BY <1>4, <2>5 DEF SelectExpired, TypeOK, Checker
<1>5. ASSUME NEW x \in checker.expired, RequestRemoval(x) PROVE TypeOK'
  <2>1. checker \in Within BY <1>1, <1>5, TaskAt DEF RequestRemoval
  <2>2. x \in Expired /\ checker.guild \in Guild BY <2>1 DEF Within
  <2>3. x.user \in User /\ x.role \in Role BY <2>2 DEF Expired
  <2>4. CASE x.role \in Removable(checker.guild)
    <3>1. checker' \in Within BY <1>5, <2>1, <2>3, <2>4 DEF RequestRemoval, Within
    <3>2. removal' \subseteq Membership
      BY <1>5, <2>2, <2>3, <2>4 DEF RequestRemoval, TypeOK, Membership
    <3> QED BY <1>5, <3>1, <3>2 DEF RequestRemoval, TypeOK, Checker
  <2>5. CASE x.role \notin Removable(checker.guild)
    <3>1. checker' \in Between BY <1>5, <2>5 DEF RequestRemoval, Waiting, Between
    <3> QED BY <1>5, <2>5, <3>1 DEF RequestRemoval, TypeOK, Checker
  <2> QED BY <2>4, <2>5
<1>6. CASE DeleteRows
  <2>1. checker \in Within BY <1>1, <1>6, TaskAt DEF DeleteRows
  <2>2. checker' \in Within BY <1>6, <2>1 DEF DeleteRows, Within
  <2>3. row' \in [RowId -> Row \cup {None}] BY <1>6 DEF DeleteRows, TypeOK
  <2> QED BY <1>6, <2>2, <2>3 DEF DeleteRows, TypeOK, Checker
<1>7. CASE GuildDone
  <2>1. checker \in Within BY <1>1, <1>7, TaskAt DEF GuildDone
  <2>2. checker' \in Between BY <1>1, <1>7, <2>1 DEF GuildDone, Within, Between, Waiting
  <2> QED BY <1>7, <2>2 DEF GuildDone, TypeOK, Checker
<1>8. CASE RoundFails \/ Restart
  BY <1>1, <1>8, GuestAssumption DEF RoundFails, Restart, TypeOK, Checker
<1> QED BY <1>2, <1>3, <1>4, <1>5, <1>6, <1>7, <1>8 DEF Round

(* Every variable stays in its type (any instance). *)
THEOREM GuestTypes == Spec => []TypeOK
<1>1. Init => TypeOK
  <2> SUFFICES ASSUME Init PROVE TypeOK OBVIOUS
  <2>1. Waiting \in Checker BY DEF Waiting, Between, Checker
  <2>2. trouble \in 0..MaxTrouble BY GuestAssumption DEF Init
  <2> QED BY <2>1, <2>2 DEF Init, TypeOK
<1>2. TypeOK /\ [Next]_vars => TypeOK'
  <2>1. TypeOK /\ UNCHANGED vars => TypeOK' BY DEF TypeOK, vars
  <2> QED BY <2>1, OthersType, TaskTypes DEF Next
<1> QED BY <1>1, <1>2, PTL DEF Spec

-----------------------------------------------------------------------------
(* The inductive invariant behind OverdueBounded.  A row is ahead if it    *)
(* may still be counted down once.  Between two rounds all rows are; in a  *)
(* round those of the server being treated are, too, unless their member   *)
(* is listed as expired.  The role of a row was set up, and stays so.      *)
Minutes(i) == duration[row[i].guild][row[i].role]

Ahead(i) == row[i].left + trouble > Least(Minutes(i))

Listed(i) ==
  \/ \E x \in checker.expired : x.user = row[i].user
  \/ checker.at = "delete" /\ checker.user = row[i].user

RowInTime(i) ==
  row[i] # None =>
    /\ Minutes(i) # None
    /\ row[i].left + trouble >= Least(Minutes(i))
    /\ \/ Ahead(i)
       \/ checker.at = "dead"
       \/ checker.at = "select" /\ row[i].guild = checker.guild
       \/ /\ checker.at \in {"remove", "delete"} /\ row[i].guild = checker.guild
          /\ Listed(i)

InTime == \A i \in RowId : RowInTime(i)

(* A row is due, at the latest, at its least count plus one. *)
LEMMA LeastType ==
  ASSUME NEW d \in Int
  PROVE  Least(d) \in Int /\ Least(d) <= 0 /\ Least(d) < d
BY DEF Least

LEMMA RowMinutes ==
  ASSUME TypeOK, NEW i \in RowId, row[i] # None
  PROVE  /\ row[i].guild \in Guild /\ row[i].role \in Role /\ row[i].left \in Int
         /\ Minutes(i) # None => Minutes(i) \in Int /\ Least(Minutes(i)) \in Int
                                 /\ Least(Minutes(i)) <= 0
<1>1. row[i] \in Row BY DEF TypeOK
<1>2. row[i].guild \in Guild /\ row[i].role \in Role /\ row[i].left \in Int BY <1>1 DEF Row
<1>3. Minutes(i) \in Duration \cup {None} BY <1>2 DEF TypeOK, Minutes
<1>4. Minutes(i) # None => Minutes(i) \in Int BY <1>3, GuestAssumption
<1> QED BY <1>2, <1>4, LeastType

(* Other steps leave a row alone, or insert one that is ahead; a role that *)
(* was set up keeps its minutes, and trouble only helps.                   *)
LEMMA OthersInTime == TypeOK /\ InTime /\ (Moderator \/ Discord \/ EventThread) => InTime'
<1> SUFFICES ASSUME TypeOK, InTime, Moderator \/ Discord \/ EventThread PROVE InTime' OBVIOUS
<1>1. checker' = checker /\ trouble' \in {trouble, trouble + 1}
  BY DEF Moderator, Discord, EventThread, GiveRoles, TakeRole, DeleteRole, Bar, Unbar,
         GuestSetup, RemovalDone, RemovalLost, RoleAdded, RoleAddFails
<1>2. trouble \in Nat BY GuestAssumption DEF TypeOK
<1>3. ASSUME NEW g \in Guild, NEW r \in Role, duration[g][r] # None
      PROVE  duration'[g][r] = duration[g][r]
  <2>1. ASSUME NEW h \in Guild, NEW q \in Role, NEW d \in Duration, GuestSetup(h, q, d)
        PROVE  duration'[g][r] = duration[g][r]
    BY <1>3, <2>1 DEF GuestSetup, TypeOK
  <2> QED
    BY <2>1
       DEF Moderator, Discord, EventThread, GiveRoles, TakeRole, DeleteRole, Bar, Unbar,
           RemovalDone, RemovalLost, RoleAdded, RoleAddFails
<1>4. ASSUME NEW i \in RowId, row'[i] = row[i] PROVE RowInTime(i)'
  <2> SUFFICES ASSUME row[i] # None PROVE RowInTime(i)' BY <1>4 DEF RowInTime
  <2>1. RowInTime(i) /\ Minutes(i) # None BY DEF InTime, RowInTime
  <2>2. Minutes(i)' = Minutes(i) BY <1>3, <1>4, <2>1, RowMinutes DEF Minutes
  <2>3. row[i].left \in Int /\ Least(Minutes(i)) \in Int BY <2>1, RowMinutes
  <2>4. Ahead(i) => Ahead(i)' BY <1>1, <1>2, <1>4, <2>2, <2>3 DEF Ahead
  <2>5. row'[i].left + trouble' >= Least(Minutes(i)')
    BY <1>1, <1>2, <1>4, <2>1, <2>2, <2>3 DEF RowInTime
  <2>6. Listed(i) => Listed(i)' BY <1>1, <1>4 DEF Listed
  <2> QED BY <1>1, <1>4, <2>1, <2>2, <2>4, <2>5, <2>6 DEF RowInTime
<1>5. ASSUME NEW i \in RowId, row'[i].left \in Int, row'[i].left = Minutes(i)',
             Minutes(i)' # None
      PROVE  RowInTime(i)'
  <2>1. Least(Minutes(i)') \in Int /\ Least(Minutes(i)') < row'[i].left BY <1>5, LeastType
  <2>2. trouble' \in Nat BY <1>1, <1>2
  <2>3. row'[i].left + trouble' > Least(Minutes(i)') BY <1>5, <2>1, <2>2
  <2>4. row'[i].left + trouble' >= Least(Minutes(i)') BY <1>5, <2>1, <2>2
  <2> QED BY <1>5, <2>3, <2>4 DEF RowInTime, Ahead
<1>6. ASSUME NEW i \in RowId
      PROVE  \/ row'[i] = row[i]
             \/ row'[i].left \in Int /\ row'[i].left = Minutes(i)' /\ Minutes(i)' # None
  <2>1. CASE row' = row BY <2>1
  <2>2. ASSUME NEW e \in event, RoleAdded(e)
        PROVE  \/ row'[i] = row[i]
               \/ row'[i].left \in Int /\ row'[i].left = Minutes(i)' /\ Minutes(i)' # None
    <3>1. e.guild \in Guild /\ e.roles \subseteq Role BY DEF TypeOK, Grant
    <3>2. PICK r \in e.roles :
            \/ row' = row
            \/ \E k \in RowId :
                 /\ duration[e.guild][r] # None
                 /\ row' = [row EXCEPT ![k] =
                             [guild |-> e.guild, user |-> e.user, role |-> r,
                              left |-> duration[e.guild][r]]]
      BY <2>2 DEF RoleAdded
    <3>3. duration[e.guild][r] # None => duration[e.guild][r] \in Int
      <4>1. r \in Role BY <3>1
      <4>2. duration[e.guild] \in [Role -> Duration \cup {None}] BY <3>1 DEF TypeOK
      <4>3. duration[e.guild][r] \in Duration \cup {None} BY <4>1, <4>2
      <4> QED BY <4>3, GuestAssumption
    <3>4. CASE row' = row BY <3>4
    <3>5. ASSUME NEW k \in RowId, duration[e.guild][r] # None,
                 row' = [row EXCEPT ![k] = [guild |-> e.guild, user |-> e.user, role |-> r,
                                            left |-> duration[e.guild][r]]]
          PROVE  \/ row'[i] = row[i]
                 \/ row'[i].left \in Int /\ row'[i].left = Minutes(i)' /\ Minutes(i)' # None
      <4> DEFINE y == [guild |-> e.guild, user |-> e.user, role |-> r,
                       left |-> duration[e.guild][r]]
      <4>1. y.left = duration[y.guild][y.role] /\ y.left # None /\ y.left \in Int
        BY <3>3, <3>5
      <4>2. row' = [row EXCEPT ![k] = y] BY <3>5
      <4>3. duration' = duration BY <2>2 DEF RoleAdded
      <4> HIDE DEF y
      <4>4. row'[i] = row[i] \/ row'[i] = y BY <4>2 DEF TypeOK
      <4> QED BY <4>1, <4>3, <4>4 DEF Minutes
    <3> QED BY <3>2, <3>4, <3>5
  <2> QED
    BY <2>1, <2>2
       DEF Moderator, Discord, EventThread, GiveRoles, TakeRole, DeleteRole, Bar, Unbar,
           GuestSetup, RemovalDone, RemovalLost, RoleAddFails
<1> QED BY <1>4, <1>5, <1>6 DEF InTime

(* The steps of the scheduled task. *)
LEMMA TaskInTime == TypeOK /\ TypeOK' /\ InTime /\ (Round \/ RoundFails \/ Restart) => InTime'
<1> SUFFICES ASSUME TypeOK, TypeOK', InTime, Round \/ RoundFails \/ Restart PROVE InTime'
  OBVIOUS
<1>1. trouble \in Nat BY GuestAssumption DEF TypeOK
<1> SUFFICES ASSUME NEW i \in RowId, row'[i] # None PROVE RowInTime(i)'
  BY DEF InTime, RowInTime
<1>2. row[i] # None /\ row'[i].guild = row[i].guild /\ row'[i].role = row[i].role
  <2>1. ASSUME NEW g \in Guild, Decrement(g)
        PROVE  row[i] # None /\ row'[i].guild = row[i].guild /\ row'[i].role = row[i].role
    <3>1. row'[i] = IF i \in RowsOf(g) THEN [row[i] EXCEPT !.left = @ - 1] ELSE row[i]
      BY <2>1 DEF Decrement
    <3>2. row[i] # None BY <3>1 DEF RowsOf
    <3>3. row[i] \in Row BY <3>2 DEF TypeOK
    <3> QED BY <3>1, <3>2, <3>3 DEF Row
  <2>2. CASE DeleteRows BY <2>2 DEF DeleteRows
  <2> QED
    BY <2>1, <2>2
       DEF Round, StartRound, SelectExpired, RequestRemoval, GuildDone, RoundFails, Restart
<1>3. Minutes(i)' = Minutes(i)
  <2>1. duration' = duration
    BY DEF Round, StartRound, Decrement, SelectExpired, RequestRemoval, DeleteRows, GuildDone,
           RoundFails, Restart
  <2> QED BY <1>2, <2>1 DEF Minutes
<1>4. RowInTime(i) /\ Minutes(i) # None BY <1>2 DEF InTime, RowInTime
<1>5. /\ row[i].left \in Int
       /\ Least(Minutes(i)) \in Int /\ Least(Minutes(i)) <= 0
  BY <1>2, <1>4, RowMinutes
<1>6. checker.at \in {"idle", "guild"} => Ahead(i) BY <1>2, <1>4 DEF RowInTime
<1>7. CASE StartRound
  BY <1>2, <1>3, <1>7, <1>4, <1>6 DEF StartRound, RowInTime, Ahead
<1>8. ASSUME NEW g \in Guild, Decrement(g) PROVE RowInTime(i)'
  <2>1. /\ checker.at = "guild" /\ trouble' = trouble
        /\ row'[i] = IF i \in RowsOf(g) THEN [row[i] EXCEPT !.left = @ - 1] ELSE row[i]
    BY <1>8 DEF Decrement
  <2>2. checker'.at = "select" /\ checker'.guild = g
    BY <1>8 DEF Decrement, TypeOK, Checker, Between, Within
  <2>4. Ahead(i) BY <1>6, <2>1
  <2>5. row[i] \in Row BY <1>2 DEF TypeOK
  <2>6. CASE i \in RowsOf(g)
    <3>1. row[i].guild = g BY <2>6 DEF RowsOf
    <3>2. row'[i].left = row[i].left - 1 /\ row'[i].guild = g BY <2>1, <2>5, <2>6, <3>1 DEF Row
    <3> QED BY <1>1, <1>3, <1>4, <1>5, <2>1, <2>2, <2>4, <3>2 DEF RowInTime, Ahead
  <2>7. CASE i \notin RowsOf(g)
    BY <1>1, <1>3, <1>4, <1>5, <2>1, <2>4, <2>7 DEF RowInTime, Ahead
  <2> QED BY <2>6, <2>7
<1>9. CASE SelectExpired
  <2> DEFINE E == {[row |-> k, user |-> row[k].user, role |-> row[k].role] :
                     k \in ExpiredRows(checker.guild)}
  <2>1. checker.at = "select" /\ row' = row /\ trouble' = trouble BY <1>9 DEF SelectExpired
  <2>2. checker' = [checker EXCEPT !.at = "remove", !.expired = E] BY <1>9 DEF SelectExpired
  <2>3. checker'.at = "remove" /\ checker'.guild = checker.guild /\ checker'.expired = E
    <3> HIDE DEF E
    <3> QED BY <2>2 DEF TypeOK, Checker, Between, Within
  <2>4. CASE i \in ExpiredRows(checker.guild)
    <3>1. \E x \in E : x.user = row[i].user
      <4> DEFINE y == [row |-> i, user |-> row[i].user, role |-> row[i].role]
      <4>1. y \in E BY <2>4
      <4>2. y.user = row[i].user OBVIOUS
      <4> QED BY <4>1, <4>2
    <3>2. row[i].guild = checker.guild BY <2>4 DEF ExpiredRows, RowsOf
    <3> HIDE DEF E
    <3> QED BY <1>3, <1>4, <1>2, <2>1, <2>3, <3>1, <3>2 DEF RowInTime, Ahead, Listed
  <2>5. CASE i \notin ExpiredRows(checker.guild)
    <3>1. row[i].guild = checker.guild => row[i].left >= 1
      BY <1>2, <1>5, <2>1, <2>5 DEF ExpiredRows, RowsOf
    <3> HIDE DEF E
    <3> QED BY <1>1, <1>2, <1>3, <1>4, <1>5, <2>1, <2>3, <3>1 DEF RowInTime, Ahead
  <2> QED BY <2>4, <2>5
<1>10. ASSUME NEW x \in checker.expired, RequestRemoval(x) PROVE RowInTime(i)'
  <2>1. checker.at = "remove" /\ row' = row /\ trouble' = trouble BY <1>10 DEF RequestRemoval
  <2>2. CASE x.role \in Removable(checker.guild)
    <3>1. checker' = [checker EXCEPT !.at = "delete", !.user = x.user, !.expired = @ \ {x}]
      BY <1>10, <2>2 DEF RequestRemoval
    <3>2. /\ checker'.at = "delete" /\ checker'.user = x.user /\ checker'.guild = checker.guild
          /\ checker'.expired = checker.expired \ {x}
      BY <3>1 DEF TypeOK, Checker, Between, Within
    <3> QED BY <1>2, <1>3, <1>4, <2>1, <3>2 DEF RowInTime, Ahead, Listed
  <2>3. CASE x.role \notin Removable(checker.guild)
    <3>1. checker'.at = "dead" BY <1>10, <2>3 DEF RequestRemoval, Waiting
    <3> QED BY <1>2, <1>3, <1>4, <2>1, <3>1 DEF RowInTime, Ahead
  <2> QED BY <2>2, <2>3
<1>11. CASE DeleteRows
  <2>1. /\ checker.at = "delete" /\ trouble' = trouble
        /\ row'[i] = IF i \in RowsOf(checker.guild) /\ row[i].user = checker.user
                     THEN None ELSE row[i]
    BY <1>11 DEF DeleteRows
  <2>2. /\ checker'.at = "remove" /\ checker'.guild = checker.guild
        /\ checker'.expired = checker.expired
    BY <1>11 DEF DeleteRows, TypeOK, Checker, Between, Within
  <2>3. row'[i] = row[i] /\ ~(row[i].guild = checker.guild /\ row[i].user = checker.user)
    BY <2>1 DEF RowsOf
  <2> QED BY <1>3, <1>4, <2>1, <2>2, <2>3 DEF RowInTime, Ahead, Listed
<1>12. CASE GuildDone
  <2>1. /\ checker.at = "remove" /\ checker.expired = {} /\ row' = row /\ trouble' = trouble
    BY <1>12 DEF GuildDone
  <2> QED BY <1>2, <1>3, <1>4, <2>1 DEF RowInTime, Ahead, Listed
<1>13. CASE RoundFails \/ Restart
  <2>1. row' = row /\ trouble' = trouble + 1 BY <1>13 DEF RoundFails, Restart
  <2>2. row'[i].left + trouble' > Least(Minutes(i)) BY <1>1, <1>4, <1>5, <2>1 DEF RowInTime
  <2>3. row'[i].left + trouble' >= Least(Minutes(i)) BY <1>1, <1>4, <1>5, <2>1 DEF RowInTime
  <2> QED BY <1>3, <1>4, <2>2, <2>3 DEF RowInTime, Ahead
<1> QED BY <1>7, <1>8, <1>9, <1>10, <1>11, <1>12, <1>13 DEF Round

(* A row overstays by at most one round for each failed round or restart   *)
(* (any instance).                                                         *)
THEOREM RowsInTime == Spec => []OverdueBounded
<1>1. Init => InTime BY DEF Init, InTime, RowInTime
<1>2. TypeOK /\ TypeOK' /\ InTime /\ [Next]_vars => InTime'
  <2>1. InTime /\ UNCHANGED vars => InTime' BY DEF InTime, RowInTime, Ahead, Listed, Minutes, vars
  <2> QED BY <2>1, OthersInTime, TaskInTime DEF Next
<1>3. InTime => OverdueBounded BY DEF InTime, RowInTime, Minutes, OverdueBounded
<1> QED BY <1>1, <1>2, <1>3, GuestTypes, PTL DEF Spec

=============================================================================
