-------------------------- MODULE LootSplit_proofs --------------------------
(***************************************************************************)
(* Theorems about LootSplit, for any number of servers, users, names,      *)
(* splits, panels, rows, accounts and uploads.                             *)
(***************************************************************************)
EXTENDS LootSplit, FiniteSetTheorems, TLAPS

(* The id of a panel is a number: the live panels are finitely many. *)
LEMMA LiveCount == Cardinality(LivePanels) \in Nat
<1>1. IsFiniteSet(Panel) BY ConstantsAssumption
<1>2. LivePanels \subseteq Panel BY DEF LivePanels
<1> QED BY <1>1, <1>2, FS_Subset, FS_CardinalityType

(* Inserting a member keeps the types. *)
LEMMA InsertMemberTypes ==
  ASSUME TypeOK, NEW s \in Split, NEW n \in Name, NEW g \in Guild, InsertMember(s, n, g)
  PROVE  /\ member' \in [RowId -> Member \cup {NoMember}]
         /\ credit' \in [Payee -> [Panel -> Nat]]
<1> DEFINE r == CHOOSE x \in RowId : member[x] = NoMember
<1>1. r \in RowId BY DEF InsertMember, FreeRows
<1>2. [split |-> s, name |-> n, guild |-> g, halved |-> FALSE] \in Member BY DEF Member
<1>3. NoCredit \in [Panel -> Nat] BY DEF NoCredit
<1> HIDE DEF r
<1>4. /\ member' = [member EXCEPT ![r] = [split |-> s, name |-> n, guild |-> g, halved |-> FALSE]]
      /\ credit' = [credit EXCEPT ![r] = NoCredit]
  BY DEF InsertMember, r
<1> QED BY <1>1, <1>2, <1>3, <1>4 DEF TypeOK, Payee

(* Paying some rows keeps the types. *)
LEMMA PayTypes ==
  ASSUME TypeOK, NEW X, NEW k \in Nat, Pay(X, k)
  PROVE  /\ credit' \in [Payee -> [Panel -> Nat]]
         /\ got' \in [Payee -> Nat]
<1>1. ASSUME NEW c \in [Panel -> Nat] PROVE [c EXCEPT ![thread.panel] = @ + k] \in [Panel -> Nat]
  <2>1. CASE thread.panel \in Panel BY <2>1
  <2>2. CASE thread.panel \notin Panel BY <2>2
  <2> QED BY <2>1, <2>2
<1> QED BY <1>1 DEF TypeOK, Pay

(* Every step of a slash command keeps the types. *)
LEMMA CommandTypes == TypeOK /\ Command => TypeOK'
<1> SUFFICES ASSUME TypeOK, Command PROVE TypeOK' OBVIOUS
<1> USE DEF TypeOK
<1>1. ASSUME NEW u \in User, NEW g \in Guild, NEW s \in Split, Create(u, g, s) PROVE TypeOK'
  BY <1>1 DEF Create, Session
<1>2. ASSUME NEW g \in Guild, NEW n \in Name, Add(g, n) PROVE TypeOK'
  <2>1. PICK s \in Split : InsertMember(s, n, g) BY <1>2 DEF Add, ActiveSplit
  <2> QED BY <1>2, <2>1, InsertMemberTypes DEF Add
<1>3. ASSUME NEW g \in Guild, NEW n \in Name, RemoveMember(g, n) PROVE TypeOK'
  BY <1>3 DEF RemoveMember
<1>4. ASSUME NEW g \in Guild, NEW n \in Name, Half(g, n) PROVE TypeOK'
  <2>1. ASSUME NEW r \in RowId, NEW s, r \in RowsOf(s)
        PROVE  [member[r] EXCEPT !.halved = TRUE] \in Member
    BY <2>1 DEF RowsOf, Member
  <2> QED BY <1>4, <2>1 DEF Half
<1>5. ASSUME NEW u \in User, NEW g \in Guild, NEW s \in Split, NEW p \in Panel,
             OpenPanel(u, g, s, p)
      PROVE TypeOK'
  <2>1. PICK t \in Split :
          panel' = [panel EXCEPT ![p] =
                      [state |-> "live", id |-> Cardinality(LivePanels), split |-> s, guild |-> g,
                       author |-> u, creator |-> session[t].creator, cancelled |-> FALSE]]
    BY <1>5 DEF OpenPanel, ActiveSplit
  <2>2. session[t].creator \in User \cup {None} BY DEF Session
  <2> QED BY <1>5, <2>1, <2>2, LiveCount DEF OpenPanel, PanelRecord, MessageState
<1>6. ASSUME NEW g \in Guild, NEW l \in GuildList, RemoveList(g, l) PROVE TypeOK'
  BY <1>6 DEF RemoveList, DeleteAccounts
<1>7. ASSUME NEW g \in Guild, NEW n \in Name, RemoveGuildUser(g, n) PROVE TypeOK'
  BY <1>7 DEF RemoveGuildUser, DeleteAccounts
<1>8. ASSUME NEW a \in Account, AddGuildUser(a) PROVE TypeOK'
  BY <1>8 DEF AddGuildUser, InsertAccount, NoCredit, Payee
<1> QED BY <1>1, <1>2, <1>3, <1>4, <1>5, <1>6, <1>7, <1>8 DEF Command

(* Every step of a button keeps the types. *)
LEMMA ButtonTypes == TypeOK /\ Button => TypeOK'
<1> SUFFICES ASSUME TypeOK, Button PROVE TypeOK' OBVIOUS
<1> USE DEF TypeOK
<1>1. ASSUME NEW m \in Panel, NEW p \in Panel, PressConfirm(m, p) PROVE TypeOK'
  <2>1. message' \in [Panel -> MessageState] BY <1>1 DEF PressConfirm, Pressed, MessageState
  <2>2. thread' \in [at: Stage, panel: Panel \cup {None}, message: Panel \cup {None}]
    BY <1>1 DEF PressConfirm, Stage
  <2>3. owed' \in [Payee -> 0..2] BY <1>1 DEF PressConfirm
  <2> QED BY <1>1, <2>1, <2>2, <2>3 DEF PressConfirm
<1>2. ASSUME NEW m \in Panel, NEW p \in Panel, PressCancel(m, p) PROVE TypeOK'
  <2>1. ASSUME NEW r \in PanelRecord PROVE [r EXCEPT !.cancelled = TRUE] \in PanelRecord
    BY DEF PanelRecord
  <2>2. panel' \in [Panel -> PanelRecord] BY <1>2, <2>1 DEF PressCancel
  <2>3. message' \in [Panel -> MessageState] BY <1>2 DEF PressCancel, Pressed, MessageState
  <2> QED BY <1>2, <2>2, <2>3 DEF PressCancel
<1>3. ASSUME NEW m \in Panel, EditArrives(m) PROVE TypeOK'
  BY <1>3 DEF EditArrives, MessageState
<1> QED BY <1>1, <1>2, <1>3 DEF Button

(* Every step of a payout keeps the types. *)
LEMMA PayoutTypes == TypeOK /\ Payout => TypeOK'
<1> SUFFICES ASSUME TypeOK, Payout PROVE TypeOK' OBVIOUS
<1> USE DEF TypeOK
<1>1. CASE PaySessionAmount
  <2>1. recorded' \in [Panel -> Nat]
    <3>1. CASE thread.panel \in Panel BY <1>1, <3>1 DEF PaySessionAmount
    <3>2. CASE thread.panel \notin Panel BY <1>1, <3>2 DEF PaySessionAmount
    <3> QED BY <3>1, <3>2
  <2>2. thread' \in [at: Stage, panel: Panel \cup {None}, message: Panel \cup {None}]
    BY <1>1 DEF PaySessionAmount, Advance, Stage
  <2> QED BY <1>1, <2>1, <2>2 DEF PaySessionAmount
<1>2. ASSUME NEW X, NEW k \in Nat, Pay(X, k), NEW from, NEW to \in Stage, Advance(from, to)
      PROVE  TypeOK'
  <2>1. thread' \in [at: Stage, panel: Panel \cup {None}, message: Panel \cup {None}]
    BY <1>2 DEF Advance
  <2> QED BY <1>2, <2>1, PayTypes DEF Pay
<1>3. CASE PayFullRows BY <1>2, <1>3 DEF PayFullRows, Stage
<1>4. CASE PayHalfRows BY <1>2, <1>4 DEF PayHalfRows, Stage
<1>5. CASE PayHalfAccounts BY <1>2, <1>5 DEF PayHalfAccounts, Stage
<1>6. CASE PayFullAccounts BY <1>2, <1>6 DEF PayFullAccounts, Stage
<1>7. CASE EndSession BY <1>7 DEF EndSession, Session, Idle, Stage, Nothing
<1>8. CASE PayoutFails BY <1>8 DEF PayoutFails, Idle, Stage, Nothing
<1> QED BY <1>1, <1>3, <1>4, <1>5, <1>6, <1>7, <1>8 DEF Payout

(* The three ways a running upload goes on. *)
LEMMA JobSteps ==
  ASSUME NEW J \in JobRecord, J # NoJob
  PROVE  /\ \A n : [J EXCEPT !.names = @ \ {n}] \in JobRecord
         /\ [J EXCEPT !.at = "insert"] \in JobRecord
         /\ J.kind = "guild" => [J EXCEPT !.at = "delete"] \in JobRecord
<1>1. CASE J \in [at: {"download", "insert"}, kind: {"split"}, guild: Guild, split: Split,
                  names: SUBSET Name]
  BY <1>1 DEF JobRecord
<1>2. CASE J \in [at: {"download", "delete", "insert"}, kind: {"guild"}, guild: Guild,
                  list: GuildList, names: SUBSET Name]
  BY <1>2 DEF JobRecord
<1> QED BY <1>1, <1>2 DEF JobRecord

(* Every step of an upload keeps the types. *)
LEMMA UploadTypes == TypeOK /\ Upload => TypeOK'
<1> SUFFICES ASSUME TypeOK, Upload PROVE TypeOK' OBVIOUS
<1>1. PICK j \in Job :
        \/ \E g \in Guild, N \in SUBSET Name :
             \/ StartSplitUpload(j, g, N)
             \/ \E l \in GuildList : StartGuildUpload(j, g, l, N)
        \/ Downloaded(j) \/ DeleteOldList(j) \/ UploadEnds(j)
        \/ \E n \in Name : UploadMember(j, n) \/ UploadAccount(j, n)
  BY DEF Upload
<1>2. job[j] \in JobRecord BY DEF TypeOK
<1>3. ASSUME NEW g \in Guild, NEW N \in SUBSET Name, StartSplitUpload(j, g, N) PROVE TypeOK'
  BY <1>3 DEF StartSplitUpload, TypeOK, JobRecord, ActiveSplit
<1>4. ASSUME NEW g \in Guild, NEW N \in SUBSET Name, NEW l \in GuildList,
             StartGuildUpload(j, g, l, N)
      PROVE TypeOK'
  BY <1>4 DEF StartGuildUpload, TypeOK, JobRecord
<1>5. CASE Downloaded(j)
  <2>1. job[j] # NoJob BY <1>5 DEF Downloaded, NoJob
  <2>2. [job[j] EXCEPT !.at = IF job[j].kind = "guild" THEN "delete" ELSE "insert"] \in JobRecord
    BY <1>2, <2>1, JobSteps
  <2>3. job' \in [Job -> JobRecord] BY <1>5, <2>2 DEF Downloaded, TypeOK
  <2> QED BY <1>5, <2>3 DEF Downloaded, TypeOK
<1>6. CASE DeleteOldList(j)
  <2>0. job[j] # NoJob BY <1>6 DEF DeleteOldList, NoJob
  <2>1. job' \in [Job -> JobRecord] BY <1>2, <1>6, <2>0, JobSteps DEF DeleteOldList, TypeOK
  <2>2. listed' \in SUBSET Account /\ owed' \in [Payee -> 0..2]
    BY <1>6 DEF DeleteOldList, DeleteAccounts, TypeOK
  <2> QED BY <1>6, <2>1, <2>2 DEF DeleteOldList, TypeOK
<1>7. CASE UploadEnds(j)
  BY <1>7 DEF UploadEnds, TypeOK, JobRecord, NoJob
<1>8. ASSUME NEW n \in Name, UploadMember(j, n) PROVE TypeOK'
  <2>0. job[j] # NoJob BY <1>8 DEF UploadMember, NoJob
  <2>1. job' \in [Job -> JobRecord] BY <1>2, <1>8, <2>0, JobSteps DEF UploadMember, TypeOK
  <2>2. CASE UNCHANGED <<member, credit>>
    BY <1>8, <2>1, <2>2 DEF UploadMember, TypeOK
  <2>3. CASE InsertMember(job[j].split, n, job[j].guild) /\ ListedAs(n, job[j].guild)
                /\ ~InSplit(job[j].split, n)
    <3>1. job[j].split \in Split /\ job[j].guild \in Guild /\ n \in Name
      BY <1>2, <1>8, <2>0 DEF UploadMember, JobRecord
    <3>2. member' \in [RowId -> Member \cup {NoMember}] /\ credit' \in [Payee -> [Panel -> Nat]]
      BY <2>3, <3>1, InsertMemberTypes
    <3> QED BY <1>8, <2>1, <3>2 DEF UploadMember, TypeOK
  <2> QED BY <1>8, <2>2, <2>3 DEF UploadMember
<1>9. ASSUME NEW n \in Name, UploadAccount(j, n) PROVE TypeOK'
  <2>0. job[j] # NoJob BY <1>9 DEF UploadAccount, NoJob
  <2>1. job' \in [Job -> JobRecord] BY <1>2, <1>9, <2>0, JobSteps DEF UploadAccount, TypeOK
  <2>2. listed' \in SUBSET Account /\ credit' \in [Payee -> [Panel -> Nat]]
    <3>1. CASE UNCHANGED <<listed, credit>> BY <3>1 DEF TypeOK
    <3>2. ASSUME NEW a \in Account, InsertAccount(a)
          PROVE  listed' \in SUBSET Account /\ credit' \in [Payee -> [Panel -> Nat]]
      BY <3>2 DEF InsertAccount, TypeOK, NoCredit, Payee
    <3> QED BY <1>9, <3>1, <3>2 DEF UploadAccount
  <2> QED BY <1>9, <2>1, <2>2 DEF UploadAccount, TypeOK
<1> QED BY <1>1, <1>3, <1>4, <1>5, <1>6, <1>7, <1>8, <1>9

(* Every variable stays in its type (any instance). *)
THEOREM LootSplitTypes == Spec => []TypeOK
<1>1. Init => TypeOK
  BY DEF Init, TypeOK, Session, NoCredit, Nothing, NoPanel, PanelRecord, MessageState, Idle,
         Stage, JobRecord, Payee
<1>2. TypeOK /\ [Next]_vars => TypeOK'
  <2>1. TypeOK /\ Crash => TypeOK'
    <3>1. ASSUME NEW r \in PanelRecord PROVE [r EXCEPT !.state = "dead"] \in PanelRecord
      BY DEF PanelRecord
    <3> QED BY <3>1 DEF TypeOK, Crash, MessageState, Idle, Stage, JobRecord, Nothing
  <2>2. TypeOK /\ UNCHANGED vars => TypeOK' BY DEF TypeOK, vars
  <2> QED BY <2>1, <2>2, CommandTypes, ButtonTypes, PayoutTypes, UploadTypes DEF Next
<1> QED BY <1>1, <1>2, PTL DEF Spec

-----------------------------------------------------------------------------
(* Create looks for an active session of the guild in the same handler as  *)
(* it inserts one, and no other action makes a session active.             *)
THEOREM OneSession == Spec => []OneActiveSession
<1>1. Init => OneActiveSession BY DEF Init, OneActiveSession
<1>2. TypeOK /\ OneActiveSession /\ [Next]_vars => OneActiveSession'
  <2> SUFFICES ASSUME TypeOK, OneActiveSession, [Next]_vars PROVE OneActiveSession' OBVIOUS
  <2>1. ASSUME NEW u \in User, NEW g \in Guild, NEW s \in Split, Create(u, g, s)
        PROVE  OneActiveSession'
    BY <2>1 DEF Create, ActiveSplit, OneActiveSession, TypeOK
  <2>2. CASE EndSession BY <2>2 DEF EndSession, OneActiveSession, TypeOK, Session
  <2>3. CASE UNCHANGED session BY <2>3 DEF OneActiveSession
  <2>4. (\E u \in User, g \in Guild, s \in Split : Create(u, g, s)) \/ EndSession
          \/ UNCHANGED session
    <3>1. Command => (\E u \in User, g \in Guild, s \in Split : Create(u, g, s)) \/ UNCHANGED session
      BY DEF Command, Add, RemoveMember, Half, OpenPanel, RemoveList, RemoveGuildUser, AddGuildUser
    <3>2. Button => UNCHANGED session BY DEF Button, PressConfirm, PressCancel, EditArrives
    <3>3. Payout => EndSession \/ UNCHANGED session
      BY DEF Payout, PaySessionAmount, PayFullRows, PayHalfRows, PayHalfAccounts,
             PayFullAccounts, Pay, PayoutFails
    <3>4. Upload => UNCHANGED session
      BY DEF Upload, StartSplitUpload, StartGuildUpload, Downloaded, DeleteOldList,
             UploadMember, UploadAccount, UploadEnds
    <3> QED BY <3>1, <3>2, <3>3, <3>4 DEF Next, Crash, vars
  <2> QED BY <2>1, <2>2, <2>3, <2>4
<1> QED BY <1>1, <1>2, LootSplitTypes, PTL DEF Spec

-----------------------------------------------------------------------------
(* A name that is not in the split can be inserted. *)
LEMMA InsertMemberOnce ==
  ASSUME TypeOK, MemberOnce, NEW s \in Split, NEW n \in Name, NEW g \in Guild,
         ~InSplit(s, n), InsertMember(s, n, g)
  PROVE  MemberOnce'
<1> DEFINE r == CHOOSE x \in RowId : member[x] = NoMember
           M == [split |-> s, name |-> n, guild |-> g, halved |-> FALSE]
<1>1. r \in RowId /\ member' = [member EXCEPT ![r] = M] BY DEF InsertMember, FreeRows
<1> HIDE DEF r
<1>2. \A q \in RowId : member[q] # NoMember => member[q].split # s \/ member[q].name # n
  BY DEF InSplit, RowsOf
<1>3. \A q \in RowId : member'[q] = IF q = r THEN M ELSE member[q] BY <1>1 DEF TypeOK
<1>4. M.split = s /\ M.name = n OBVIOUS
<1> HIDE DEF M
<1>5. ASSUME NEW a \in RowId, NEW b \in RowId, member'[a] # NoMember, member'[b] # NoMember,
             member'[a].split = member'[b].split, member'[a].name = member'[b].name
      PROVE  a = b
  BY <1>2, <1>3, <1>4, <1>5 DEF MemberOnce
<1> QED BY <1>5 DEF MemberOnce, NoMember

(* What a step does to the members: it may insert a name that is not in    *)
(* the split, delete rows, or mark rows as halved.                         *)
LEMMA MemberStep ==
  ASSUME TypeOK, [Next]_vars
  PROVE  \/ \E s \in Split, n \in Name, g \in Guild : ~InSplit(s, n) /\ InsertMember(s, n, g)
         \/ \A r \in RowId :
              \/ member'[r] = member[r]
              \/ member'[r] = NoMember
              \/ member[r] # NoMember /\ member'[r] = [member[r] EXCEPT !.halved = TRUE]
<1> DEFINE P == \/ \E s \in Split, n \in Name, g \in Guild : ~InSplit(s, n) /\ InsertMember(s, n, g)
                \/ \A r \in RowId :
                     \/ member'[r] = member[r]
                     \/ member'[r] = NoMember
                     \/ member[r] # NoMember /\ member'[r] = [member[r] EXCEPT !.halved = TRUE]
<1>1. UNCHANGED member => P OBVIOUS
<1>2. ASSUME NEW g \in Guild, NEW n \in Name, Add(g, n) PROVE P
  <2>1. PICK s \in Split : ~InSplitAnyCase(s, n) /\ InsertMember(s, n, g)
    BY <1>2 DEF Add, ActiveSplit
  <2>2. ~InSplit(s, n) BY <2>1 DEF InSplitAnyCase, InSplit
  <2> QED BY <2>1, <2>2
<1>3. ASSUME NEW g \in Guild, NEW n \in Name, RemoveMember(g, n) PROVE P
  BY <1>3 DEF RemoveMember
<1>4. ASSUME NEW g \in Guild, NEW n \in Name, Half(g, n) PROVE P
  BY <1>4 DEF Half, RowsOf
<1>5. ASSUME NEW j \in Job, NEW n \in Name, UploadMember(j, n) PROVE P
  <2>1. job[j] \in JobRecord /\ job[j] # NoJob BY <1>5 DEF UploadMember, TypeOK, NoJob
  <2>2. job[j].split \in Split /\ job[j].guild \in Guild
    BY <1>5, <2>1 DEF UploadMember, JobRecord
  <2> QED BY <1>1, <1>5, <2>2 DEF UploadMember
<1> HIDE DEF P
<1>6. Command => P
  BY <1>1, <1>2, <1>3, <1>4
     DEF Command, Create, OpenPanel, RemoveList, RemoveGuildUser, AddGuildUser
<1>7. Button => P BY <1>1 DEF Button, PressConfirm, PressCancel, EditArrives
<1>8. Payout => P
  BY <1>1 DEF Payout, PaySessionAmount, PayFullRows, PayHalfRows, PayHalfAccounts,
              PayFullAccounts, Pay, EndSession, PayoutFails
<1>9. Upload => P
  BY <1>1, <1>5 DEF Upload, StartSplitUpload, StartGuildUpload, Downloaded, DeleteOldList,
                    UploadAccount, UploadEnds
<1>10. P BY <1>1, <1>6, <1>7, <1>8, <1>9 DEF Next, Crash, vars
<1> QED BY <1>10 DEF P

(* A name is in a split once (any instance). *)
THEOREM NameInSplitOnce == Spec => []MemberOnce
<1>1. Init => MemberOnce BY DEF Init, MemberOnce
<1>2. TypeOK /\ MemberOnce /\ [Next]_vars => MemberOnce'
  <2> SUFFICES ASSUME TypeOK, MemberOnce, [Next]_vars PROVE MemberOnce' OBVIOUS
  <2>1. ASSUME \A r \in RowId :
                 \/ member'[r] = member[r]
                 \/ member'[r] = NoMember
                 \/ member[r] # NoMember /\ member'[r] = [member[r] EXCEPT !.halved = TRUE]
        PROVE  MemberOnce'
    <3>1. \A r \in RowId : member'[r] # NoMember =>
            /\ member[r] # NoMember
            /\ member'[r].split = member[r].split /\ member'[r].name = member[r].name
      <4> SUFFICES ASSUME NEW r \in RowId, member'[r] # NoMember
                   PROVE  /\ member[r] # NoMember
                          /\ member'[r].split = member[r].split
                          /\ member'[r].name = member[r].name
        OBVIOUS
      <4>1. member[r] \in Member \cup {NoMember} BY DEF TypeOK
      <4>2. CASE member'[r] = member[r] BY <4>2
      <4>3. CASE member[r] # NoMember /\ member'[r] = [member[r] EXCEPT !.halved = TRUE]
        BY <4>1, <4>3 DEF Member
      <4> QED BY <2>1, <4>2, <4>3
    <3> QED BY <3>1 DEF MemberOnce, NoMember
  <2> QED BY <2>1, MemberStep, InsertMemberOnce
<1> QED BY <1>1, <1>2, LootSplitTypes, PTL DEF Spec

-----------------------------------------------------------------------------
(* The inductive invariant behind the bound on the balances. *)
Paid == TypeOK /\ MemberOnce /\ PaidInOrder /\ RecordedBeforePaid

(* Balances that stay or restart at zero, and a record that stays, keep    *)
(* the bound.                                                              *)
BalancesKeep ==
  /\ recorded' = recorded
  /\ \A x \in Payee : credit'[x] = credit[x] \/ credit'[x] = NoCredit

LEMMA KeepBound ==
  ASSUME Paid, BalancesKeep
  PROVE  /\ RecordedBeforePaid'
         /\ \A x \in Payee, p \in Panel :
              recorded[p] >= 2 /\ credit[x][p] + 2 <= recorded[p]
                => credit'[x][p] + 2 <= recorded'[p]
<1>1. \A x \in Payee, p \in Panel : credit[x][p] \in Nat /\ recorded[p] \in Nat
  BY DEF Paid, TypeOK
<1>2. \A x \in Payee, p \in Panel : credit'[x][p] = credit[x][p] \/ credit'[x][p] = 0
  BY DEF BalancesKeep, NoCredit
<1> QED BY <1>1, <1>2 DEF BalancesKeep, RecordedBeforePaid, Paid

(* A step after which no payout has begun to pay. *)
LEMMA NotPaying ==
  ASSUME Paid, BalancesKeep, thread'.at \in {"idle", "sessionAmount"},
         thread'.at = "sessionAmount" => thread'.panel \in Panel
  PROVE  PaidInOrder' /\ RecordedBeforePaid'
<1>1. StillToPay' = {} BY DEF StillToPay
<1> QED BY <1>1, KeepBound DEF PaidInOrder, Paying, Stage

(* A step of something else while a payout is running or not. *)
LEMMA Alongside ==
  ASSUME Paid, BalancesKeep, thread' = thread, panel' = panel,
         HalfRows(PaidSplit)' = HalfRows(PaidSplit),
         \A r \in HalfRows(PaidSplit) : member'[r] = member[r]
  PROVE  PaidInOrder' /\ RecordedBeforePaid'
<1>1. NamesIn(HalfRows(PaidSplit))' = NamesIn(HalfRows(PaidSplit)) BY DEF NamesIn
<1>2. StillToPay' = StillToPay BY <1>1 DEF StillToPay
<1>3. StillToPay # {} => thread.at \in Paying \ {"sessionAmount"}
  BY DEF StillToPay, Paying, Stage
<1>4. StillToPay \subseteq Payee BY DEF StillToPay
<1> QED BY <1>2, <1>3, <1>4, KeepBound DEF PaidInOrder, Paid, BalancesKeep

(* An insert while a payout is running adds no halved row. *)
LEMMA InsertAlongside ==
  ASSUME TypeOK, NEW s \in Split, NEW n \in Name, NEW g \in Guild, InsertMember(s, n, g),
         panel' = panel, thread' = thread
  PROVE  /\ HalfRows(PaidSplit)' = HalfRows(PaidSplit)
         /\ \A r \in HalfRows(PaidSplit) : member'[r] = member[r]
         /\ \A x \in Payee : credit'[x] = credit[x] \/ credit'[x] = NoCredit
<1> DEFINE q == CHOOSE x \in RowId : member[x] = NoMember
           M == [split |-> s, name |-> n, guild |-> g, halved |-> FALSE]
<1>1. /\ q \in RowId /\ member[q] = NoMember
      /\ member' = [member EXCEPT ![q] = M] /\ credit' = [credit EXCEPT ![q] = NoCredit]
  BY DEF InsertMember, FreeRows
<1> HIDE DEF q
<1>2. \A r \in RowId : member'[r] = IF r = q THEN M ELSE member[r] BY <1>1 DEF TypeOK
<1>3. ~M.halved OBVIOUS
<1> HIDE DEF M
<1>4. HalfRows(PaidSplit) = {r \in RowId : member[r] # NoMember /\ member[r].split = PaidSplit
                                            /\ member[r].halved}
  BY DEF HalfRows, RowsOf
<1>5. HalfRows(PaidSplit)' = {r \in RowId : member'[r] # NoMember /\ member'[r].split = PaidSplit
                                             /\ member'[r].halved}
  BY DEF HalfRows, RowsOf, PaidSplit, NoMember
<1>6. \A r \in RowId : r # q => member'[r] = member[r] BY <1>2
<1>7. q \notin HalfRows(PaidSplit) /\ q \notin HalfRows(PaidSplit)'
  BY <1>1, <1>2, <1>3, <1>4, <1>5
<1>8. HalfRows(PaidSplit)' = HalfRows(PaidSplit) BY <1>4, <1>5, <1>6, <1>7
<1>9. \A r \in HalfRows(PaidSplit) : member'[r] = member[r] BY <1>4, <1>6, <1>7
<1>10. \A x \in Payee : credit'[x] = credit[x] \/ credit'[x] = NoCredit BY <1>1 DEF TypeOK, Payee
<1> QED BY <1>8, <1>9, <1>10

(* Commands and buttons leave the balances to the payout. *)
LEMMA IdleSteps == Paid /\ (Command \/ Button) => PaidInOrder' /\ RecordedBeforePaid'
<1> SUFFICES ASSUME Paid, Command \/ Button PROVE PaidInOrder' /\ RecordedBeforePaid' OBVIOUS
<1>1. CASE Command
  <2>1. thread' = Idle /\ recorded' = recorded
    BY <1>1 DEF Command, Create, Add, RemoveMember, Half, OpenPanel, RemoveList,
                RemoveGuildUser, AddGuildUser
  <2>2. ASSUME NEW s, NEW n, NEW g, InsertMember(s, n, g)
        PROVE  \A x \in Payee : credit'[x] = credit[x] \/ credit'[x] = NoCredit
    BY <2>2 DEF InsertMember, FreeRows, Paid, TypeOK, Payee
  <2>3. ASSUME NEW a \in Account, InsertAccount(a)
        PROVE  \A x \in Payee : credit'[x] = credit[x] \/ credit'[x] = NoCredit
    BY <2>3 DEF InsertAccount, Paid, TypeOK, Payee
  <2>4. BalancesKeep
    <3>1. ASSUME NEW g \in Guild, NEW n \in Name, Add(g, n) PROVE BalancesKeep
      BY <2>1, <2>2, <3>1 DEF Add, BalancesKeep
    <3>2. ASSUME NEW a \in Account, AddGuildUser(a) PROVE BalancesKeep
      BY <2>1, <2>3, <3>2 DEF AddGuildUser, BalancesKeep
    <3>3. UNCHANGED credit => BalancesKeep BY <2>1 DEF BalancesKeep
    <3> QED BY <1>1, <3>1, <3>2, <3>3
            DEF Command, Create, RemoveMember, Half, OpenPanel, RemoveList, RemoveGuildUser
  <2> QED BY <2>1, <2>4, NotPaying DEF Idle
<1>2. ASSUME NEW m \in Panel, NEW p \in Panel, PressConfirm(m, p)
      PROVE  PaidInOrder' /\ RecordedBeforePaid'
  BY <1>2, NotPaying DEF PressConfirm, Pressed, BalancesKeep, Idle
<1>3. ASSUME NEW m \in Panel, NEW p \in Panel, PressCancel(m, p)
      PROVE  PaidInOrder' /\ RecordedBeforePaid'
  BY <1>3, NotPaying DEF PressCancel, Pressed, BalancesKeep, Idle
<1>4. ASSUME NEW m \in Panel, EditArrives(m) PROVE PaidInOrder' /\ RecordedBeforePaid'
  <2>1. HalfRows(PaidSplit)' = HalfRows(PaidSplit)
    BY <1>4 DEF EditArrives, HalfRows, RowsOf, PaidSplit, NoMember
  <2> QED BY <1>4, <2>1, Alongside DEF EditArrives, BalancesKeep
<1> QED BY <1>1, <1>2, <1>3, <1>4 DEF Button

(* Uploads only insert rows, at zero, or delete them. *)
LEMMA UploadSteps == Paid /\ Upload => PaidInOrder' /\ RecordedBeforePaid'
<1> SUFFICES ASSUME Paid, Upload PROVE PaidInOrder' /\ RecordedBeforePaid' OBVIOUS
<1>1. thread' = thread /\ panel' = panel /\ recorded' = recorded
  BY DEF Upload, StartSplitUpload, StartGuildUpload, Downloaded, DeleteOldList,
         UploadMember, UploadAccount, UploadEnds
<1>2. CASE UNCHANGED member /\ \A x \in Payee : credit'[x] = credit[x] \/ credit'[x] = NoCredit
  <2>1. HalfRows(PaidSplit)' = HalfRows(PaidSplit)
    BY <1>1, <1>2 DEF HalfRows, RowsOf, PaidSplit, NoMember
  <2> QED BY <1>1, <1>2, <2>1, Alongside DEF BalancesKeep
<1>3. UNCHANGED <<member, credit>> => PaidInOrder' /\ RecordedBeforePaid' BY <1>2
<1>4. ASSUME NEW j \in Job, NEW n \in Name, UploadMember(j, n)
      PROVE  PaidInOrder' /\ RecordedBeforePaid'
  <2>1. job[j] \in JobRecord /\ job[j] # NoJob BY <1>4 DEF UploadMember, Paid, TypeOK, NoJob
  <2>2. job[j].split \in Split /\ job[j].guild \in Guild
    BY <1>4, <2>1 DEF UploadMember, JobRecord
  <2>3. CASE InsertMember(job[j].split, n, job[j].guild)
    BY <1>1, <2>2, <2>3, InsertAlongside, Alongside DEF BalancesKeep, Paid
  <2> QED BY <1>3, <1>4, <2>3 DEF UploadMember
<1>5. ASSUME NEW j \in Job, NEW n \in Name, UploadAccount(j, n)
      PROVE  PaidInOrder' /\ RecordedBeforePaid'
  <2>1. ASSUME NEW a \in Account, InsertAccount(a)
        PROVE  \A x \in Payee : credit'[x] = credit[x] \/ credit'[x] = NoCredit
    BY <2>1 DEF InsertAccount, Paid, TypeOK, Payee
  <2>2. UNCHANGED member /\ ((\E a \in Account : InsertAccount(a)) \/ UNCHANGED credit)
    BY <1>5 DEF UploadAccount
  <2> QED BY <1>2, <2>1, <2>2
<1> QED BY <1>3, <1>4, <1>5
        DEF Upload, StartSplitUpload, StartGuildUpload, Downloaded, DeleteOldList, UploadEnds

(* A statement of the payout that pays k half shares to X, when X is among *)
(* those still to pay and Y, those still to pay afterwards, is not in X.   *)
LEMMA PayStep ==
  ASSUME Paid, thread.at \in Paying \ {"sessionAmount"}, NEW k \in 1..2,
         NEW X \in SUBSET StillToPay, Pay(X, k),
         NEW to \in Paying \ {"sessionAmount"}, thread' = [thread EXCEPT !.at = to],
         StillToPay' \subseteq StillToPay \ X
  PROVE  PaidInOrder' /\ RecordedBeforePaid'
<1> DEFINE q == thread.panel
<1>1. thread'.at = to /\ thread'.panel = q BY DEF Paid, TypeOK
<1>2. q \in Panel /\ recorded[q] >= 2 /\ recorded' = recorded
  BY DEF Paid, PaidInOrder, Pay
<1>3. /\ \A x \in Payee, p \in Panel : credit[x][p] \in Nat /\ recorded[p] \in Nat
      /\ \A x \in Payee : credit[x] \in [Panel -> Nat]
  BY DEF Paid, TypeOK
<1>4. StillToPay \subseteq Payee BY DEF StillToPay
<1>5. \A x \in Payee : x \notin X => credit'[x] = credit[x] BY DEF Pay
<1>6. \A x \in X : credit'[x] = [credit[x] EXCEPT ![q] = @ + k] BY <1>4 DEF Pay
<1>7. \A x \in X, p \in Panel : credit'[x][p] = IF p = q THEN credit[x][p] + k ELSE credit[x][p]
  <2> SUFFICES ASSUME NEW x \in X, NEW p \in Panel
               PROVE  credit'[x][p] = IF p = q THEN credit[x][p] + k ELSE credit[x][p]
    OBVIOUS
  <2>1. credit[x] \in [Panel -> Nat] BY <1>3, <1>4
  <2>2. credit'[x] = [credit[x] EXCEPT ![q] = @ + k] BY <1>6
  <2> HIDE DEF q
  <2> QED BY <2>1, <2>2
<1>8. \A x \in StillToPay : credit[x][q] + 2 <= recorded[q] BY DEF Paid, PaidInOrder
<1>9. RecordedBeforePaid'
  <2> SUFFICES ASSUME NEW x \in Payee, NEW p \in Panel PROVE credit'[x][p] <= recorded'[p]
    BY DEF RecordedBeforePaid
  <2>1. credit[x][p] <= recorded[p] BY DEF Paid, RecordedBeforePaid
  <2>2. CASE x \notin X BY <1>2, <1>5, <2>1, <2>2
  <2>3. CASE x \in X /\ p # q BY <1>2, <1>7, <2>1, <2>3
  <2>4. CASE x \in X /\ p = q
    <3>1. credit[x][q] + 2 <= recorded[q] /\ credit'[x][q] = credit[x][q] + k
      BY <1>2, <1>7, <1>8, <2>4
    <3> QED BY <1>2, <1>3, <2>4, <3>1
  <2> QED BY <2>2, <2>3, <2>4
<1>10. \A x \in StillToPay' : credit'[x][q] + 2 <= recorded'[q]
  BY <1>2, <1>4, <1>5, <1>8
<1> QED BY <1>1, <1>2, <1>9, <1>10 DEF PaidInOrder

(* The five statements of a payout, and how it ends. *)
LEMMA PayoutSteps == Paid /\ Payout => PaidInOrder' /\ RecordedBeforePaid'
<1> SUFFICES ASSUME Paid, Payout PROVE PaidInOrder' /\ RecordedBeforePaid' OBVIOUS
<1> DEFINE H == HalfRows(PaidSplit)
           F == FullRows(PaidSplit)
<1>1. H \cap F = {} /\ H \subseteq RowId /\ F \subseteq RowId
  BY DEF HalfRows, FullRows, RowsOf
<1>2. NamesIn(H) \cap NamesIn(F) = {}
  <2> SUFFICES ASSUME NEW h \in H, NEW f \in F PROVE member[h].name # member[f].name
    BY DEF NamesIn
  <2>1. /\ h \in RowId /\ f \in RowId /\ member[h] # NoMember /\ member[f] # NoMember
        /\ member[h].split = member[f].split /\ h # f
    BY DEF HalfRows, FullRows, RowsOf
  <2> QED BY <2>1 DEF Paid, MemberOnce
<1>4. AccountsOf(H) \subseteq Account /\ AccountsOf(F) \subseteq Account
  BY DEF AccountsOf, Paid, TypeOK
<1>5. ASSUME NEW X, NEW k, Pay(X, k), NEW to, thread' = [thread EXCEPT !.at = to]
      PROVE  /\ thread'.at = to
             /\ H' = H
             /\ NamesIn(H)' = NamesIn(H)
  <2>1. thread'.at = to /\ thread'.panel = thread.panel BY <1>5 DEF Paid, TypeOK
  <2>2. panel' = panel /\ member' = member BY <1>5 DEF Pay
  <2> QED BY <2>1, <2>2 DEF HalfRows, RowsOf, PaidSplit, NoMember, NamesIn
<1>6. CASE PaySessionAmount
  <2>1. thread.at = "sessionAmount" /\ thread'.at = "fullRows" /\ thread'.panel = thread.panel
    BY <1>6 DEF PaySessionAmount, Advance, Paid, TypeOK
  <2>2. thread.panel \in Panel BY <2>1 DEF Paid, PaidInOrder, Paying, Stage
  <2>3. /\ \A p \in Panel : recorded[p] \in Nat
        /\ \A p \in Panel : recorded'[p] = IF p = thread.panel THEN recorded[p] + 2 ELSE recorded[p]
        /\ credit' = credit
    BY <1>6, <2>2 DEF PaySessionAmount, Paid, TypeOK
  <2>4. \A x \in Payee, p \in Panel : credit[x][p] \in Nat /\ credit[x][p] <= recorded[p]
    BY DEF Paid, TypeOK, RecordedBeforePaid
  <2>5. StillToPay' \subseteq Payee BY DEF StillToPay
  <2>6. RecordedBeforePaid' BY <2>3, <2>4 DEF RecordedBeforePaid
  <2>7. recorded'[thread.panel] >= 2 BY <2>2, <2>3
  <2>8. \A x \in Payee : credit'[x][thread.panel] + 2 <= recorded'[thread.panel]
    BY <2>2, <2>3, <2>4
  <2> QED BY <2>1, <2>2, <2>5, <2>6, <2>7, <2>8 DEF PaidInOrder
<1>7. CASE PayFullRows
  <2>1. thread.at = "fullRows" /\ thread' = [thread EXCEPT !.at = "halfRows"] /\ Pay(F, 2)
    BY <1>7 DEF PayFullRows, Advance
  <2>2. StillToPay = Payee BY <2>1 DEF StillToPay
  <2>3. thread'.at = "halfRows" /\ H' = H BY <1>5, <2>1
  <2>4. StillToPay' \subseteq H \cup Account BY <2>3 DEF StillToPay
  <2>5. F \in SUBSET StillToPay /\ StillToPay' \subseteq StillToPay \ F
    BY <1>1, <2>2, <2>4, ConstantsAssumption DEF Payee
  <2> QED BY <2>1, <2>5, PayStep DEF Paying, Stage
<1>8. CASE PayHalfRows
  <2>1. thread.at = "halfRows" /\ thread' = [thread EXCEPT !.at = "halfAccounts"] /\ Pay(H, 1)
    BY <1>8 DEF PayHalfRows, Advance
  <2>2. StillToPay = H \cup Account BY <1>1, <2>1 DEF StillToPay, Payee
  <2>3. thread'.at = "halfAccounts" BY <1>5, <2>1
  <2>4. StillToPay' = Account BY <2>3 DEF StillToPay, Payee
  <2>5. H \in SUBSET StillToPay /\ StillToPay' \subseteq StillToPay \ H
    BY <1>1, <2>2, <2>4, ConstantsAssumption
  <2> QED BY <2>1, <2>5, PayStep DEF Paying, Stage
<1>9. CASE PayHalfAccounts
  <2>1. /\ thread.at = "halfAccounts" /\ thread' = [thread EXCEPT !.at = "fullAccounts"]
        /\ Pay(AccountsOf(H), 1)
    BY <1>9 DEF PayHalfAccounts, Advance
  <2>2. StillToPay = Account BY <2>1 DEF StillToPay, Payee
  <2>3. thread'.at = "fullAccounts" /\ NamesIn(H)' = NamesIn(H) BY <1>5, <2>1
  <2>4. StillToPay' \subseteq {a \in Account : NameOf[a] \notin NamesIn(H)}
    BY <2>3 DEF StillToPay
  <2>5. AccountsOf(H) \in SUBSET StillToPay /\ StillToPay' \subseteq StillToPay \ AccountsOf(H)
    BY <1>4, <2>2, <2>4 DEF AccountsOf
  <2> QED BY <2>1, <2>5, PayStep DEF Paying, Stage
<1>10. CASE PayFullAccounts
  <2>1. /\ thread.at = "fullAccounts" /\ thread' = [thread EXCEPT !.at = "endSession"]
        /\ Pay(AccountsOf(F), 2)
    BY <1>10 DEF PayFullAccounts, Advance
  <2>2. StillToPay = {a \in Account : NameOf[a] \notin NamesIn(H)}
    BY <2>1 DEF StillToPay, Payee
  <2>3. thread'.at = "endSession" BY <1>5, <2>1
  <2>4. StillToPay' = {} BY <2>3 DEF StillToPay
  <2>5. AccountsOf(F) \in SUBSET StillToPay BY <1>2, <1>4, <2>2 DEF AccountsOf
  <2> QED BY <2>1, <2>4, <2>5, PayStep DEF Paying, Stage
<1>11. CASE EndSession BY <1>11, NotPaying DEF EndSession, BalancesKeep, Idle
<1>12. CASE PayoutFails BY <1>12, NotPaying DEF PayoutFails, BalancesKeep, Idle
<1> QED BY <1>6, <1>7, <1>8, <1>9, <1>10, <1>11, <1>12 DEF Payout

(* No balance ever holds more of an amount than is on record, under every  *)
(* interleaving of payouts with uploads, failures and crashes, and however *)
(* often a panel is confirmed.                                             *)
THEOREM BalancesBounded == Spec => [](PaidInOrder /\ RecordedBeforePaid)
<1>1. Init => PaidInOrder /\ RecordedBeforePaid
  BY DEF Init, PaidInOrder, RecordedBeforePaid, Idle, Paying, StillToPay, NoCredit
<1>2. Paid /\ [Next]_vars => PaidInOrder' /\ RecordedBeforePaid'
  <2> SUFFICES ASSUME Paid, [Next]_vars PROVE PaidInOrder' /\ RecordedBeforePaid' OBVIOUS
  <2>1. CASE Crash BY <2>1, NotPaying DEF Crash, BalancesKeep, Idle
  <2>2. CASE UNCHANGED vars
    <3>1. HalfRows(PaidSplit)' = HalfRows(PaidSplit)
      BY <2>2 DEF vars, HalfRows, RowsOf, PaidSplit, NoMember
    <3> QED BY <2>2, <3>1, Alongside DEF vars, BalancesKeep
  <2> QED BY <2>1, <2>2, IdleSteps, PayoutSteps, UploadSteps DEF Next
<1> QED BY <1>1, <1>2, LootSplitTypes, NameInSplitOnce, PTL DEF Spec, Paid

(* What a statement still to come may pay leaves room for it below the     *)
(* record.                                                                 *)
THEOREM PaymentsInOrder == Spec => []PaidInOrder
BY BalancesBounded, PTL

-----------------------------------------------------------------------------
(* The ids of the live panels are below their number, from which the next  *)
(* id is taken.                                                            *)
Numbered == OnePanelAnswers /\ \A p \in LivePanels : panel[p].id < Cardinality(LivePanels)

LEMMA SameNumbers ==
  ASSUME Numbered, \A p \in Panel : panel'[p].state = panel[p].state /\ panel'[p].id = panel[p].id
  PROVE  Numbered'
<1>1. LivePanels' = LivePanels BY DEF LivePanels
<1>2. \A p \in LivePanels : panel'[p].id = panel[p].id BY DEF LivePanels
<1> QED BY <1>1, <1>2 DEF Numbered, OnePanelAnswers

LEMMA NextNumber ==
  ASSUME TypeOK, Numbered, NEW u \in User, NEW g \in Guild, NEW s \in Split, NEW p \in Panel,
         OpenPanel(u, g, s, p)
  PROVE  Numbered'
<1> DEFINE n == Cardinality(LivePanels)
<1>1. IsFiniteSet(LivePanels) BY ConstantsAssumption, FS_Subset DEF LivePanels
<1>2. panel'[p].state = "live" /\ panel'[p].id = n /\ \A q \in Panel \ {p} : panel'[q] = panel[q]
  BY DEF OpenPanel, TypeOK
<1>3. p \notin LivePanels BY DEF OpenPanel, LivePanels
<1>4. LivePanels' = LivePanels \cup {p} BY <1>2 DEF LivePanels
<1>5. n \in Nat /\ Cardinality(LivePanels') = n + 1
  BY <1>1, <1>3, <1>4, FS_AddElement, FS_CardinalityType
<1>6. \A q \in LivePanels : q \in Panel \ {p} /\ panel'[q].id = panel[q].id /\ panel[q].id \in Nat
  BY <1>2, <1>3 DEF LivePanels, TypeOK, PanelRecord
<1>7. \A q \in LivePanels : panel[q].id < n BY DEF Numbered
<1> QED BY <1>2, <1>4, <1>5, <1>6, <1>7 DEF Numbered, OnePanelAnswers

(* A press never has two panels of a process to answer it.                 *)
THEOREM PanelsApart == Spec => []OnePanelAnswers
<1>1. Init => Numbered BY DEF Init, Numbered, OnePanelAnswers, LivePanels, NoPanel
<1>2. TypeOK /\ Numbered /\ [Next]_vars => Numbered'
  <2> SUFFICES ASSUME TypeOK, Numbered, [Next]_vars PROVE Numbered' OBVIOUS
  <2>1. UNCHANGED panel => Numbered' BY SameNumbers
  <2>2. ASSUME NEW m \in Panel, NEW p \in Panel, PressCancel(m, p) PROVE Numbered'
    <3>1. \A q \in Panel : panel'[q].state = panel[q].state /\ panel'[q].id = panel[q].id
      BY <2>2 DEF PressCancel, TypeOK, PanelRecord
    <3> QED BY <3>1, SameNumbers
  <2>3. CASE Crash
    <3>1. LivePanels' = {} BY <2>3 DEF Crash, LivePanels, TypeOK, PanelRecord
    <3> QED BY <3>1 DEF Numbered, OnePanelAnswers
  <2>4. CASE Payout
    BY <2>1, <2>4 DEF Payout, PaySessionAmount, PayFullRows, PayHalfRows, PayHalfAccounts,
                      PayFullAccounts, EndSession, PayoutFails, Pay
  <2>5. CASE Upload
    BY <2>1, <2>5 DEF Upload, StartSplitUpload, StartGuildUpload, Downloaded, DeleteOldList,
                      UploadEnds, UploadMember, UploadAccount, InsertMember, InsertAccount,
                      DeleteAccounts
  <2>6. CASE Command
    BY <2>1, <2>6, NextNumber DEF Command, Create, Add, RemoveMember, Half, RemoveList,
                      RemoveGuildUser, AddGuildUser
  <2> QED BY <2>1, <2>2, <2>3, <2>4, <2>5, <2>6
          DEF Next, Button, PressConfirm, EditArrives, vars
<1>3. Numbered => OnePanelAnswers BY DEF Numbered
<1> QED BY <1>1, <1>2, <1>3, LootSplitTypes, PTL DEF Spec

-----------------------------------------------------------------------------
(* A statement that pays within the record is a Distribute of the ledger.  *)
LEMMA PayDistributes ==
  ASSUME TypeOK, TypeOK', RecordedBeforePaid', thread.panel \in Panel,
         NEW k \in 1..2, NEW X, Pay(X, k)
  PROVE  Ledger!Distribute(thread.panel, k)
<1>1. credit' \in [Payee -> [Panel -> Nat]] /\ recorded' = recorded BY DEF TypeOK, Pay
<1>2. ASSUME NEW x \in Payee
      PROVE  \/ credit'[x] = credit[x]
             \/ /\ credit'[x] = [credit[x] EXCEPT ![thread.panel] = @ + k]
                /\ credit'[x][thread.panel] <= recorded[thread.panel]
  BY <1>1 DEF Pay, RecordedBeforePaid
<1> QED BY <1>1, <1>2 DEF Ledger!Distribute

(* The loot split implements the ledger: each of its steps is a step of    *)
(* the ledger or leaves the balances and the record alone.                 *)
THEOREM ImplementsLedger == Spec => LedgerSpec
<1>1. Init => Ledger!Init BY DEF Init, Ledger!Init, NoCredit, Ledger!Zero
<1>2. /\ TypeOK /\ PaidInOrder /\ TypeOK' /\ RecordedBeforePaid' /\ [Next]_vars
      => [Ledger!Next]_<<recorded, credit>>
  <2> SUFFICES ASSUME TypeOK, PaidInOrder, TypeOK', RecordedBeforePaid', [Next]_vars
               PROVE  Ledger!Next \/ UNCHANGED <<recorded, credit>>
    OBVIOUS
  <2>1. ASSUME NEW s, NEW n, NEW g, InsertMember(s, n, g), UNCHANGED recorded PROVE Ledger!Next
    <3>1. PICK r \in RowId : credit' = [credit EXCEPT ![r] = NoCredit]
      BY <2>1 DEF InsertMember, FreeRows
    <3>2. Ledger!InsertRow(r) BY <2>1, <3>1 DEF Ledger!InsertRow, Ledger!Zero, NoCredit
    <3> QED BY <3>2 DEF Ledger!Next, Payee
  <2>2. ASSUME NEW a \in Account, InsertAccount(a), UNCHANGED recorded PROVE Ledger!Next
    <3>1. Ledger!InsertRow(a) BY <2>2 DEF InsertAccount, Ledger!InsertRow, Ledger!Zero, NoCredit
    <3> QED BY <3>1 DEF Ledger!Next, Payee
  <2>3. CASE Command
    BY <2>1, <2>2, <2>3 DEF Command, Create, Add, RemoveMember, Half, OpenPanel, RemoveList,
                            RemoveGuildUser, AddGuildUser
  <2>4. CASE Button BY <2>4 DEF Button, PressConfirm, PressCancel, EditArrives
  <2>5. CASE Upload
    BY <2>1, <2>2, <2>5 DEF Upload, StartSplitUpload, StartGuildUpload, Downloaded,
                            DeleteOldList, UploadMember, UploadAccount, UploadEnds
  <2>6. CASE Payout
    <3>1. thread.at \in Paying => thread.panel \in Panel BY DEF PaidInOrder
    <3>2. ASSUME NEW X, NEW k \in 1..2, Pay(X, k), thread.at \in Paying PROVE Ledger!Next
      BY <3>1, <3>2, PayDistributes DEF Ledger!Next
    <3>3. CASE PaySessionAmount
      <4>1. Ledger!Record(thread.panel) BY <3>3 DEF PaySessionAmount, Ledger!Record
      <4> QED BY <3>1, <3>3, <4>1 DEF PaySessionAmount, Advance, Paying, Stage, Ledger!Next
    <3>4. CASE PayFullRows BY <3>2, <3>4 DEF PayFullRows, Advance, Paying, Stage
    <3>5. CASE PayHalfRows BY <3>2, <3>5 DEF PayHalfRows, Advance, Paying, Stage
    <3>6. CASE PayHalfAccounts BY <3>2, <3>6 DEF PayHalfAccounts, Advance, Paying, Stage
    <3>7. CASE PayFullAccounts BY <3>2, <3>7 DEF PayFullAccounts, Advance, Paying, Stage
    <3>8. EndSession \/ PayoutFails => UNCHANGED <<recorded, credit>>
      BY DEF EndSession, PayoutFails
    <3> QED BY <2>6, <3>3, <3>4, <3>5, <3>6, <3>7, <3>8 DEF Payout
  <2>7. CASE Crash \/ UNCHANGED vars BY <2>7 DEF Crash, vars
  <2> QED BY <2>3, <2>4, <2>5, <2>6, <2>7 DEF Next
<1> QED BY <1>1, <1>2, LootSplitTypes, BalancesBounded, PTL DEF Spec, LedgerSpec, Ledger!Spec

-----------------------------------------------------------------------------
(* The inductive invariant behind PaidInFull.  Who is owed a share is      *)
(* still selected by the statement that pays it, though uploads insert     *)
(* and delete rows meanwhile ...                                           *)
StillSelected ==
  thread.at \in Paying =>
    \A x \in Payee :
      /\ owed[x] = 1 => x \in HalfRows(PaidSplit) \cup AccountsOf(HalfRows(PaidSplit))
      /\ owed[x] = 2 => x \in FullRows(PaidSplit) \cup AccountsOf(FullRows(PaidSplit))

(* ... and has been paid exactly when that statement has run. *)
Settled ==
  {x \in Payee :
     \/ thread.at = "halfRows" /\ x \in RowId /\ owed[x] = 2
     \/ thread.at = "halfAccounts" /\ x \in RowId
     \/ thread.at = "fullAccounts" /\ (x \in RowId \/ owed[x] = 1)
     \/ thread.at = "endSession"}

PaidSoFar ==
  /\ thread.at = "idle" => got = Nothing
  /\ \A x \in Payee : owed[x] > 0 => got[x] = IF x \in Settled THEN owed[x] ELSE 0

Shares == TypeOK /\ MemberOnce /\ StillSelected /\ PaidSoFar

(* While a payout runs, something else may strike out what is owed, and    *)
(* insert members and accounts.                                            *)
LEMMA SharesAlongside ==
  ASSUME Shares, TypeOK', thread' = thread, panel' = panel, got' = got,
         HalfRows(PaidSplit)' = HalfRows(PaidSplit),
         FullRows(PaidSplit) \subseteq FullRows(PaidSplit)',
         \A r \in RowsOf(PaidSplit) : member'[r] = member[r],
         \A x \in Payee : owed'[x] \in {owed[x], 0},
         \A a \in listed : a \notin listed' => owed'[a] = 0
  PROVE  StillSelected' /\ PaidSoFar'
<1> DEFINE H == HalfRows(PaidSplit)
           F == FullRows(PaidSplit)
<1>1. H \subseteq RowsOf(PaidSplit) /\ F \subseteq RowsOf(PaidSplit)
  BY DEF HalfRows, FullRows
<1>2. NamesIn(H)' = NamesIn(H) /\ NamesIn(F) \subseteq NamesIn(F)'
  BY <1>1 DEF NamesIn
<1>3. StillSelected'
  <2> SUFFICES ASSUME thread'.at \in Paying', NEW x \in Payee
               PROVE  /\ owed'[x] = 1 => x \in H' \cup AccountsOf(H)'
                      /\ owed'[x] = 2 => x \in F' \cup AccountsOf(F)'
    BY DEF StillSelected, Payee
  <2>1. thread.at \in Paying BY DEF Paying, Stage
  <2>2. /\ owed[x] = 1 => x \in H \cup AccountsOf(H)
        /\ owed[x] = 2 => x \in F \cup AccountsOf(F)
    BY <2>1 DEF Shares, StillSelected
  <2>3. ASSUME owed'[x] > 0 PROVE owed[x] = owed'[x] /\ (x \in listed => x \in listed')
    BY <2>3
  <2>4. x \in AccountsOf(H) /\ x \in listed' => x \in AccountsOf(H)' BY <1>2 DEF AccountsOf
  <2>5. x \in AccountsOf(F) /\ x \in listed' => x \in AccountsOf(F)' BY <1>2 DEF AccountsOf
  <2>6. x \in AccountsOf(H) \/ x \in AccountsOf(F) => x \in listed BY DEF AccountsOf
  <2> QED BY <2>2, <2>3, <2>4, <2>5, <2>6
<1>4. PaidSoFar'
  <2>1. \A x \in Payee : owed'[x] > 0 => owed'[x] = owed[x] OBVIOUS
  <2>2. \A x \in Payee : owed'[x] = owed[x] => (x \in Settled' <=> x \in Settled)
    BY DEF Settled, Payee
  <2> QED BY <2>1, <2>2 DEF Shares, PaidSoFar, Nothing, Payee
<1> QED BY <1>3, <1>4

(* Without a payout nothing is paid. *)
LEMMA SharesIdle ==
  ASSUME thread'.at = "idle", got' = Nothing
  PROVE  StillSelected' /\ PaidSoFar'
BY DEF StillSelected, PaidSoFar, Settled, Nothing, Paying, Payee

(* A payout begins: the shares are fixed, none is paid. *)
LEMMA SharesFixed ==
  ASSUME Shares, NEW m \in Panel, NEW p \in Panel, PressConfirm(m, p)
  PROVE  StillSelected' /\ PaidSoFar'
<1>1. thread = Idle /\ got' = got /\ panel' = panel /\ member' = member /\ listed' = listed
  BY DEF PressConfirm, Pressed
<1>2. got = Nothing BY <1>1 DEF Shares, PaidSoFar, Idle
<1>3. CASE panel[p].author = panel[p].creator
  <2> DEFINE H == HalfRows(panel[p].split)
             F == FullRows(panel[p].split)
  <2>1. /\ thread' = [at |-> "sessionAmount", panel |-> p, message |-> m]
        /\ owed' = [x \in Payee |-> IF x \in H \cup AccountsOf(H) THEN 1
                                     ELSE IF x \in F \cup AccountsOf(F) THEN 2 ELSE 0]
    BY <1>3 DEF PressConfirm
  <2>2. PaidSplit' = panel[p].split BY <1>1, <2>1 DEF PaidSplit
  <2>3. /\ HalfRows(PaidSplit)' = H /\ FullRows(PaidSplit)' = F
        /\ AccountsOf(HalfRows(PaidSplit))' = AccountsOf(H)
        /\ AccountsOf(FullRows(PaidSplit))' = AccountsOf(F)
    BY <1>1, <2>2 DEF HalfRows, FullRows, RowsOf, AccountsOf, NamesIn, NoMember
  <2>4. StillSelected' BY <2>1, <2>3 DEF StillSelected, Payee
  <2>5. Settled' = {} /\ thread'.at # "idle" BY <2>1 DEF Settled
  <2>6. PaidSoFar' BY <1>1, <1>2, <2>5 DEF PaidSoFar, Nothing, Payee
  <2> QED BY <2>4, <2>6
<1>4. CASE panel[p].author # panel[p].creator
  BY <1>1, <1>2, <1>4, SharesIdle DEF PressConfirm, Idle
<1> QED BY <1>3, <1>4

(* Uploads strike out the accounts they delete and insert only beside the  *)
(* members that are there.                                                 *)
LEMMA SharesUpload == Shares /\ TypeOK' /\ Upload => StillSelected' /\ PaidSoFar'
<1> SUFFICES ASSUME Shares, TypeOK', Upload PROVE StillSelected' /\ PaidSoFar' OBVIOUS
<1>1. thread' = thread /\ panel' = panel /\ got' = got
  BY DEF Upload, StartSplitUpload, StartGuildUpload, Downloaded, DeleteOldList, DeleteAccounts,
         UploadMember, UploadAccount, UploadEnds
<1>2. \A x \in Payee : owed[x] \in 0..2 BY DEF Shares, TypeOK
<1>3. CASE UNCHANGED <<member, owed>> /\ listed \subseteq listed'
  <2>1. /\ HalfRows(PaidSplit)' = HalfRows(PaidSplit)
        /\ FullRows(PaidSplit)' = FullRows(PaidSplit)
    BY <1>1, <1>3 DEF HalfRows, FullRows, RowsOf, PaidSplit, NoMember
  <2> QED BY <1>1, <1>3, <2>1, SharesAlongside
<1>4. ASSUME NEW j \in Job, DeleteOldList(j) PROVE StillSelected' /\ PaidSoFar'
  <2>1. /\ HalfRows(PaidSplit)' = HalfRows(PaidSplit)
        /\ FullRows(PaidSplit)' = FullRows(PaidSplit)
    BY <1>1, <1>4 DEF DeleteOldList, HalfRows, FullRows, RowsOf, PaidSplit, NoMember
  <2>2. /\ \A x \in Payee : owed'[x] \in {owed[x], 0}
        /\ \A a \in listed : a \notin listed' => owed'[a] = 0
        /\ member' = member
    BY <1>4 DEF DeleteOldList, DeleteAccounts, Shares, TypeOK, Payee
  <2> QED BY <1>1, <2>1, <2>2, SharesAlongside
<1>5. ASSUME NEW j \in Job, NEW n \in Name, UploadMember(j, n)
      PROVE  StillSelected' /\ PaidSoFar'
  <2>1. job[j] \in JobRecord /\ job[j] # NoJob BY <1>5 DEF UploadMember, Shares, TypeOK, NoJob
  <2>2. job[j].split \in Split /\ job[j].guild \in Guild
    BY <1>5, <2>1 DEF UploadMember, JobRecord
  <2>3. UNCHANGED <<listed, owed>> BY <1>5 DEF UploadMember
  <2>4. CASE InsertMember(job[j].split, n, job[j].guild)
    <3>1. HalfRows(PaidSplit)' = HalfRows(PaidSplit)
      BY <1>1, <2>2, <2>4, InsertAlongside DEF Shares
    <3>2. PICK q \in RowId : /\ member[q] = NoMember
                             /\ \A r \in RowId \ {q} : member'[r] = member[r]
      BY <2>4 DEF InsertMember, FreeRows, Shares, TypeOK
    <3>3. \A r \in RowsOf(PaidSplit) : member'[r] = member[r] BY <3>2 DEF RowsOf
    <3>4. FullRows(PaidSplit) \subseteq FullRows(PaidSplit)'
      BY <1>1, <3>3 DEF FullRows, RowsOf, PaidSplit, NoMember
    <3> QED BY <1>1, <2>3, <3>1, <3>3, <3>4, SharesAlongside
  <2>5. CASE UNCHANGED <<member, credit>> BY <1>3, <2>3, <2>5
  <2> QED BY <1>5, <2>4, <2>5 DEF UploadMember
<1>6. ASSUME NEW j \in Job, NEW n \in Name, UploadAccount(j, n)
      PROVE  StillSelected' /\ PaidSoFar'
  BY <1>3, <1>6 DEF UploadAccount, InsertAccount
<1>7. UNCHANGED <<member, owed, listed>> => StillSelected' /\ PaidSoFar' BY <1>3
<1> QED BY <1>4, <1>5, <1>6, <1>7
        DEF Upload, StartSplitUpload, StartGuildUpload, Downloaded, UploadEnds

(* A statement that pays k to X: right, if those it settles are the ones   *)
(* in X that are owed, are owed k, and had nothing.                        *)
LEMMA SharesPay ==
  ASSUME Shares, NEW k \in 1..2, NEW X, Pay(X, k), NEW to \in Paying,
         thread.at \in Paying, thread' = [thread EXCEPT !.at = to],
         \A x \in Payee : owed[x] > 0 =>
           /\ x \in X <=> x \in Settled' /\ x \notin Settled
           /\ x \in X => owed[x] = k
           /\ x \in Settled => x \in Settled'
  PROVE  StillSelected' /\ PaidSoFar'
<1>1. /\ thread'.at = to /\ thread'.panel = thread.panel
      /\ owed' = owed /\ member' = member /\ listed' = listed /\ panel' = panel
      /\ \A x \in Payee : got'[x] = IF x \in X THEN got[x] + k ELSE got[x]
  BY DEF Shares, TypeOK, Pay
<1>2. /\ HalfRows(PaidSplit)' = HalfRows(PaidSplit) /\ FullRows(PaidSplit)' = FullRows(PaidSplit)
      /\ AccountsOf(HalfRows(PaidSplit))' = AccountsOf(HalfRows(PaidSplit))
      /\ AccountsOf(FullRows(PaidSplit))' = AccountsOf(FullRows(PaidSplit))
  BY <1>1 DEF HalfRows, FullRows, RowsOf, PaidSplit, AccountsOf, NamesIn, NoMember
<1>3. StillSelected' BY <1>1, <1>2 DEF Shares, StillSelected
<1>4. to # "idle" BY DEF Paying
<1>5. \A x \in Payee : got[x] \in Nat /\ owed[x] \in 0..2 BY DEF Shares, TypeOK
<1>6. ASSUME NEW x \in Payee, owed[x] > 0
      PROVE  got'[x] = IF x \in Settled' THEN owed[x] ELSE 0
  <2>1. got[x] = IF x \in Settled THEN owed[x] ELSE 0 BY <1>6 DEF Shares, PaidSoFar
  <2>2. CASE x \in X BY <1>1, <1>5, <1>6, <2>1, <2>2
  <2>3. CASE x \notin X BY <1>1, <1>6, <2>1, <2>3
  <2> QED BY <2>2, <2>3
<1> QED BY <1>1, <1>3, <1>4, <1>6 DEF PaidSoFar, Payee

(* The statements of a payout settle the shares one group after another.   *)
LEMMA SharesPayout == Shares /\ Payout => StillSelected' /\ PaidSoFar'
<1> SUFFICES ASSUME Shares, Payout PROVE StillSelected' /\ PaidSoFar' OBVIOUS
<1> DEFINE H == HalfRows(PaidSplit)
           F == FullRows(PaidSplit)
<1>1. /\ H \cap F = {} /\ H \subseteq RowId /\ F \subseteq RowId
      /\ AccountsOf(H) \subseteq Account /\ AccountsOf(F) \subseteq Account
      /\ RowId \cap Account = {} /\ Payee = RowId \cup Account
  BY ConstantsAssumption DEF HalfRows, FullRows, RowsOf, AccountsOf, Shares, TypeOK, Payee
<1>2. AccountsOf(H) \cap AccountsOf(F) = {}
  <2> SUFFICES ASSUME NEW h \in H, NEW f \in F PROVE member[h].name # member[f].name
    BY DEF NamesIn, AccountsOf
  <2>1. /\ h \in RowId /\ f \in RowId /\ member[h] # NoMember /\ member[f] # NoMember
        /\ member[h].split = member[f].split /\ h # f
    BY DEF HalfRows, FullRows, RowsOf
  <2> QED BY <2>1 DEF Shares, MemberOnce
<1>3. ASSUME thread.at \in Paying, NEW x \in Payee
      PROVE  /\ owed[x] \in 0..2
             /\ owed[x] = 1 => x \in H \cup AccountsOf(H)
             /\ owed[x] = 2 => x \in F \cup AccountsOf(F)
  BY <1>3 DEF Shares, StillSelected, TypeOK
<1>4. ASSUME NEW to, thread' = [thread EXCEPT !.at = to] PROVE thread'.at = to
  BY <1>4 DEF Shares, TypeOK
<1>5. ASSUME PaySessionAmount PROVE StillSelected' /\ PaidSoFar'
  <2>1. /\ thread.at = "sessionAmount" /\ thread'.at = "fullRows" /\ thread'.panel = thread.panel
        /\ UNCHANGED <<member, listed, panel, owed, got>>
    BY <1>5 DEF PaySessionAmount, Advance, Shares, TypeOK
  <2>2. /\ HalfRows(PaidSplit)' = H /\ FullRows(PaidSplit)' = F
        /\ AccountsOf(HalfRows(PaidSplit))' = AccountsOf(H)
        /\ AccountsOf(FullRows(PaidSplit))' = AccountsOf(F)
    BY <2>1 DEF HalfRows, FullRows, RowsOf, PaidSplit, AccountsOf, NamesIn, NoMember
  <2>3. StillSelected' BY <2>1, <2>2 DEF Shares, StillSelected, Paying, Stage
  <2>4. Settled = {} /\ Settled' = {} BY <2>1 DEF Settled
  <2> QED BY <2>1, <2>3, <2>4 DEF Shares, PaidSoFar, Payee
<1>6. ASSUME PayFullRows PROVE StillSelected' /\ PaidSoFar'
  <2>1. thread.at = "fullRows" /\ thread' = [thread EXCEPT !.at = "halfRows"] /\ Pay(F, 2)
    BY <1>6 DEF PayFullRows, Advance
  <2>2. thread'.at = "halfRows" /\ owed' = owed BY <1>4, <2>1 DEF Pay
  <2>3. Settled = {} BY <2>1 DEF Settled
  <2>4. Settled' = {x \in RowId : owed[x] = 2} BY <1>1, <2>2 DEF Settled, Payee
  <2>5. thread.at \in Paying /\ "halfRows" \in Paying BY <2>1 DEF Paying, Stage
  <2>6. \A x \in Payee : owed[x] > 0 =>
          /\ x \in F <=> x \in Settled' /\ x \notin Settled
          /\ x \in F => owed[x] = 2
          /\ x \in Settled => x \in Settled'
    BY <1>1, <1>3, <2>3, <2>4, <2>5
  <2> QED BY <2>1, <2>5, <2>6, SharesPay
<1>7. ASSUME PayHalfRows PROVE StillSelected' /\ PaidSoFar'
  <2>1. thread.at = "halfRows" /\ thread' = [thread EXCEPT !.at = "halfAccounts"] /\ Pay(H, 1)
    BY <1>7 DEF PayHalfRows, Advance
  <2>2. thread'.at = "halfAccounts" /\ owed' = owed BY <1>4, <2>1 DEF Pay
  <2>3. Settled = {x \in RowId : owed[x] = 2} BY <1>1, <2>1 DEF Settled, Payee
  <2>4. Settled' = RowId BY <1>1, <2>2 DEF Settled, Payee
  <2>5. thread.at \in Paying /\ "halfAccounts" \in Paying BY <2>1 DEF Paying, Stage
  <2>6. \A x \in Payee : owed[x] > 0 =>
          /\ x \in H <=> x \in Settled' /\ x \notin Settled
          /\ x \in H => owed[x] = 1
          /\ x \in Settled => x \in Settled'
    BY <1>1, <1>3, <2>3, <2>4, <2>5
  <2> QED BY <2>1, <2>5, <2>6, SharesPay
<1>8. ASSUME PayHalfAccounts PROVE StillSelected' /\ PaidSoFar'
  <2>1. /\ thread.at = "halfAccounts" /\ thread' = [thread EXCEPT !.at = "fullAccounts"]
        /\ Pay(AccountsOf(H), 1)
    BY <1>8 DEF PayHalfAccounts, Advance
  <2>2. thread'.at = "fullAccounts" /\ owed' = owed BY <1>4, <2>1 DEF Pay
  <2>3. Settled = RowId BY <1>1, <2>1 DEF Settled, Payee
  <2>4. Settled' = {x \in Payee : x \in RowId \/ owed[x] = 1}
    BY <1>1, <2>2 DEF Settled, Payee
  <2>5. thread.at \in Paying /\ "fullAccounts" \in Paying BY <2>1 DEF Paying, Stage
  <2>6. \A x \in Payee : owed[x] > 0 =>
          /\ x \in AccountsOf(H) <=> x \in Settled' /\ x \notin Settled
          /\ x \in AccountsOf(H) => owed[x] = 1
          /\ x \in Settled => x \in Settled'
    BY <1>1, <1>2, <1>3, <2>3, <2>4, <2>5
  <2> QED BY <2>1, <2>5, <2>6, SharesPay
<1>9. ASSUME PayFullAccounts PROVE StillSelected' /\ PaidSoFar'
  <2>1. /\ thread.at = "fullAccounts" /\ thread' = [thread EXCEPT !.at = "endSession"]
        /\ Pay(AccountsOf(F), 2)
    BY <1>9 DEF PayFullAccounts, Advance
  <2>2. thread'.at = "endSession" /\ owed' = owed BY <1>4, <2>1 DEF Pay
  <2>3. Settled = {x \in Payee : x \in RowId \/ owed[x] = 1}
    BY <1>1, <2>1 DEF Settled, Payee
  <2>4. Settled' = Payee BY <1>1, <2>2 DEF Settled, Payee
  <2>5. thread.at \in Paying /\ "endSession" \in Paying BY <2>1 DEF Paying, Stage
  <2>6. \A x \in Payee : owed[x] > 0 =>
          /\ x \in AccountsOf(F) <=> x \in Settled' /\ x \notin Settled
          /\ x \in AccountsOf(F) => owed[x] = 2
          /\ x \in Settled => x \in Settled'
    BY <1>1, <1>2, <1>3, <2>3, <2>4, <2>5
  <2> QED BY <2>1, <2>5, <2>6, SharesPay
<1>10. EndSession \/ PayoutFails => thread'.at = "idle" /\ got' = Nothing
  BY DEF EndSession, PayoutFails, Idle
<1> QED BY <1>5, <1>6, <1>7, <1>8, <1>9, <1>10, SharesIdle DEF Payout

(* When a payout has run its statements, whoever was due a share has       *)
(* exactly it, whatever uploads have done in between (any instance).       *)
THEOREM EveryShareIsPaid == Spec => []PaidInFull
<1>1. Init => StillSelected /\ PaidSoFar
  BY DEF Init, StillSelected, PaidSoFar, Idle, Paying, Nothing, Payee
<1>2. Shares /\ TypeOK' /\ [Next]_vars => StillSelected' /\ PaidSoFar'
  <2> SUFFICES ASSUME Shares, TypeOK', [Next]_vars PROVE StillSelected' /\ PaidSoFar' OBVIOUS
  <2>1. thread = Idle => got = Nothing BY DEF Shares, PaidSoFar, Idle
  <2>2. CASE Command
    <3>1. thread = Idle /\ thread' = Idle /\ got' = got
      BY <2>2 DEF Command, Create, Add, RemoveMember, Half, OpenPanel, RemoveList,
                  RemoveGuildUser, AddGuildUser
    <3> QED BY <2>1, <3>1, SharesIdle DEF Idle
  <2>3. ASSUME NEW m \in Panel, NEW p \in Panel, PressConfirm(m, p)
        PROVE  StillSelected' /\ PaidSoFar'
    BY <2>3, SharesFixed
  <2>4. ASSUME NEW m \in Panel, NEW p \in Panel, PressCancel(m, p)
        PROVE  StillSelected' /\ PaidSoFar'
    BY <2>1, <2>4, SharesIdle DEF PressCancel, Pressed, Idle
  <2>5. CASE UNCHANGED <<member, listed, panel, thread, owed, got>>
    <3>1. /\ HalfRows(PaidSplit)' = HalfRows(PaidSplit)
          /\ FullRows(PaidSplit)' = FullRows(PaidSplit)
      BY <2>5 DEF HalfRows, FullRows, RowsOf, PaidSplit, NoMember
    <3> QED BY <2>5, <3>1, SharesAlongside
  <2>6. Crash => thread'.at = "idle" /\ got' = Nothing BY DEF Crash, Idle
  <2> QED BY <2>2, <2>3, <2>4, <2>5, <2>6, SharesIdle, SharesUpload, SharesPayout
          DEF Next, Button, EditArrives, vars
<1>3. PaidSoFar => PaidInFull BY DEF PaidSoFar, PaidInFull, Settled
<1> QED BY <1>1, <1>2, <1>3, LootSplitTypes, NameInSplitOnce, PTL DEF Spec, Shares

=============================================================================
