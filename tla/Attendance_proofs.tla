------------------------- MODULE Attendance_proofs -------------------------
(***************************************************************************)
(* Theorems about Attendance, for any names, parties, rows, downloads and  *)
(* bounds, and for every interleaving with the life of the CTAs.           *)
(***************************************************************************)
EXTENDS Attendance, FiniteSetTheorems, TLAPS

Steps == {"idle"} \cup Uploading \cup Checking \cup Seating
Workers == Job \cup {Main}

(* The steps a worker can be at. *)
LEMMA AllSteps ==
  /\ {"idle", "download", "insert", "mark", "next", "status", "party", "again",
      "write", "fetch", "clear", "add"} \subseteq Steps
  /\ {"offline", "absent", "present", "late"} \subseteq Status
BY DEF Steps, Uploading, Judging, Checking, Seating, Status

-----------------------------------------------------------------------------
(* Lists of names. *)
LEMMA NobodyIn == Nobody \in Names /\ In(Nobody) = {}
BY DEF Nobody, Names, In

LEMMA LessOf ==
  ASSUME NEW T \in Names, NEW n \in In(T)
  PROVE  /\ n \in Name /\ T[n] \in Nat \ {0}
         /\ Less(T, n) \in Names /\ In(Less(T, n)) \subseteq In(T)
         /\ Less(T, n)[n] = T[n] - 1
         /\ \A m \in Name : Less(T, n)[m] <= T[m]
<1>1. n \in Name /\ T[n] \in Nat \ {0} /\ \A m \in Name : T[m] \in Nat BY DEF In, Names
<1>2. Less(T, n) \in Names /\ \A m \in Name : Less(T, n)[m] = IF m = n THEN T[n] - 1 ELSE T[m]
  BY <1>1 DEF Less, Names
<1>3. \A m \in Name : Less(T, n)[m] <= T[m] BY <1>1, <1>2
<1>4. In(Less(T, n)) \subseteq In(T) BY <1>1, <1>2 DEF In
<1> QED BY <1>1, <1>2, <1>3, <1>4

LEMMA MoreOf == ASSUME NEW T \in Names, NEW n \in Name PROVE More(T, n) \in Names
BY DEF More, Names

LEMMA PartOf ==
  ASSUME NEW T \in Names, NEW S \in PartsOf(T)
  PROVE  S \in Names /\ In(S) \subseteq In(T) /\ \A n \in Name : S[n] <= T[n]
<1>1. S \in [Name -> UNION {0..T[n] : n \in Name}] /\ \A n \in Name : S[n] <= T[n] BY DEF PartsOf
<1>2. \A n \in Name : T[n] \in Nat /\ S[n] \in Nat BY <1>1 DEF Names
<1>3. S \in Names BY <1>1, <1>2 DEF Names
<1>4. In(S) \subseteq In(T) BY <1>1, <1>2 DEF In
<1> QED BY <1>1, <1>3, <1>4

LEMMA AbsenteesIn ==
  ASSUME NEW c
  PROVE  /\ Absentees(c) \in Names
         /\ \A n \in In(Absentees(c)) : \E r \in RowId : IsRow(r, c, n) /\ users[r].status = "absent"
<1> DEFINE Rows(n) == {r \in RowsOf(c, n) : users[r].status = "absent" /\ users[r].party = None}
<1>1. ASSUME NEW n \in Name
      PROVE  /\ Cardinality(Rows(n)) \in Nat
             /\ Cardinality(Rows(n)) = 0 <=> Rows(n) = {}
  <2>1. Rows(n) \in SUBSET RowId BY DEF RowsOf
  <2>2. IsFiniteSet(Rows(n)) BY <2>1, FS_Subset, AttendanceAssumption
  <2> QED BY <2>2, FS_CardinalityType, FS_EmptySet
<1>2. Absentees(c) = [n \in Name |-> Cardinality(Rows(n))] BY DEF Absentees
<1>3. \A n \in Name : \A r \in Rows(n) : r \in RowId /\ IsRow(r, c, n) /\ users[r].status = "absent"
  BY DEF RowsOf
<1> HIDE DEF Rows
<1>4. ASSUME NEW n \in In(Absentees(c))
      PROVE  \E r \in RowId : IsRow(r, c, n) /\ users[r].status = "absent"
  <2>1. n \in Name /\ Cardinality(Rows(n)) # 0 BY <1>1, <1>2 DEF In
  <2> QED BY <1>1, <1>3, <2>1
<1> QED BY <1>1, <1>2, <1>4 DEF Names

-----------------------------------------------------------------------------
(* Records of work, by the fields that matter. *)
Fields(x, a, c, T, n) == x \in Work /\ x.at = a /\ x.cta = c /\ x.todo = T /\ x.name = n

LEMMA WorkFields ==
  ASSUME NEW x \in Work
  PROVE  /\ x.at \in Steps /\ x.cta \in Id \cup {None}
         /\ x.todo \in Names /\ x.found \in Names
         /\ x.name \in Name \cup {None} /\ x.status \in Status /\ x.party \in Party \cup {None}
BY DEF Work, Steps

LEMMA WorkUpdate ==
  ASSUME NEW x \in Work, NEW a \in Steps, NEW T \in Names, NEW F \in Names,
         NEW n \in Name \cup {None}, NEW s \in Status
  PROVE  /\ Fields([x EXCEPT !.at = a], a, x.cta, x.todo, x.name)
         /\ Fields([x EXCEPT !.todo = T], x.at, x.cta, T, x.name)
         /\ Fields([x EXCEPT !.at = a, !.todo = T], a, x.cta, T, x.name)
         /\ Fields([x EXCEPT !.at = a, !.todo = T, !.found = F], a, x.cta, T, x.name)
         /\ Fields([x EXCEPT !.at = a, !.status = s], a, x.cta, x.todo, x.name)
         /\ Fields([x EXCEPT !.at = a, !.name = n, !.status = s], a, x.cta, x.todo, n)
         /\ Fields([x EXCEPT !.at = a, !.name = n, !.todo = T, !.found = F], a, x.cta, T, n)
<1>1. Fields([x EXCEPT !.at = a], a, x.cta, x.todo, x.name) BY DEF Fields, Work, Steps
<1>2. Fields([x EXCEPT !.todo = T], x.at, x.cta, T, x.name) BY DEF Fields, Work, Steps
<1>3. Fields([x EXCEPT !.at = a, !.todo = T], a, x.cta, T, x.name) BY DEF Fields, Work, Steps
<1>4. Fields([x EXCEPT !.at = a, !.status = s], a, x.cta, x.todo, x.name)
  BY DEF Fields, Work, Steps
<1>5. Fields([x EXCEPT !.at = a, !.name = n, !.status = s], a, x.cta, x.todo, n)
  BY DEF Fields, Work, Steps
<1>6. Fields([x EXCEPT !.at = a, !.name = n, !.todo = T, !.found = F], a, x.cta, T, n)
  BY DEF Fields, Work, Steps
<1>7. Fields([x EXCEPT !.at = a, !.todo = T, !.found = F], a, x.cta, T, x.name)
  BY DEF Fields, Work, Steps
<1> QED BY <1>1, <1>2, <1>3, <1>4, <1>5, <1>6, <1>7

LEMMA AtRest == Rest \in Work /\ Fields(Rest, "idle", None, Nobody, None)
BY NobodyIn DEF Fields, Rest, Work, Status

LEMMA FirstWork ==
  ASSUME NEW a \in Steps, NEW c \in Id, NEW T \in Names, NEW p \in Party
  PROVE  Fields([Rest EXCEPT !.at = a, !.cta = c, !.todo = T, !.party = p], a, c, T, None)
<1>1. Rest \in Work /\ Fields(Rest, "idle", None, Nobody, None) BY AtRest
<1> QED BY <1>1 DEF Fields, Work, Steps

(* Setting columns of a row gives a row. *)
LEMMA UserUpdate ==
  ASSUME NEW u \in User, NEW s \in Status, NEW p \in Party \cup {None}
  PROVE  /\ u # NoUser
         /\ [u EXCEPT !.status = s] \in User
         /\ [u EXCEPT !.party = p] \in User
         /\ [u EXCEPT !.status = s, !.party = p] \in User
         /\ u.cta \in Id /\ u.name \in Name /\ u.status \in Status
<1>1. u # NoUser /\ u.cta \in Id /\ u.name \in Name /\ u.status \in Status
  BY DEF User, NoUser
<1>2. [u EXCEPT !.status = s] \in User BY DEF User
<1>3. [u EXCEPT !.party = p] \in User BY DEF User
<1>4. [u EXCEPT !.status = s, !.party = p] \in User BY DEF User
<1> QED BY <1>1, <1>2, <1>3, <1>4

-----------------------------------------------------------------------------
(* The rows of CTAs, with whatever end times. *)
CTARow == [status: {"active", "finished", "deleted"}, guild: Guild, end: Nat]

(* What is needed of the CTAs: a command under way is about one that was   *)
(* started.                                                                *)
CTATyped ==
  /\ cta \in [Id -> CTARow \cup {C!NoRow}]
  /\ now \in Nat
  /\ thread \in C!Thread
  /\ thread.at # "idle" => cta[thread.cta] \in CTARow

(* Work at a step other than idle is on a CTA, and on a name from the time *)
(* it is judged until its status is written.                               *)
AtWork(w) ==
  /\ work[w].at # "idle" => work[w].cta \in Id
  /\ work[w].at \in {"status", "party", "again", "write"} => work[w].name \in Name
  /\ work[w].at \in {"fetch", "next"} => work[w].name = None

Working == work \in [Workers -> Work] /\ \A w \in Workers : AtWork(w)

(* The rows and the rest. *)
Listed ==
  /\ users \in [RowId -> User \cup {NoUser}]
  /\ filed \in [Id -> Names \cup {None}]
  /\ settled \subseteq Id
  /\ marked \subseteq Id \X Name

Typed == CTATyped /\ Working /\ Listed

(* A worker goes on to step a, with CTA c, names T to do, and name n. *)
Does(w, a, c, T, n) ==
  /\ Working'
  /\ work'[w].at = a /\ work'[w].cta = c /\ work'[w].todo = T /\ work'[w].name = n
  /\ \A v \in Workers \ {w} : work'[v] = work[v]

Moves(w, a) == Does(w, a, work[w].cta, work[w].todo, work[w].name)
Rests(w) == Does(w, "idle", None, Nobody, None)

LEMMA Doing ==
  ASSUME Working, NEW w \in Workers, NEW x, NEW a, NEW c, NEW T, NEW n,
         Fields(x, a, c, T, n), work' = [work EXCEPT ![w] = x],
         a # "idle" => c \in Id,
         a \in {"status", "party", "again", "write"} => n \in Name,
         a \in {"fetch", "next"} => n = None
  PROVE  Does(w, a, c, T, n)
<1>1. x \in Work BY DEF Fields
<1>2. /\ work' \in [Workers -> Work] /\ work'[w] = x
      /\ \A v \in Workers \ {w} : work'[v] = work[v]
  BY <1>1 DEF Working
<1>3. AtWork(w)' BY <1>2 DEF AtWork, Fields
<1>4. \A v \in Workers \ {w} : AtWork(v)' BY <1>2 DEF AtWork, Working
<1> QED BY <1>2, <1>3, <1>4 DEF Does, Working, Fields

(* What the steps of a worker make of its record. *)
LEMMA AWorker ==
  ASSUME Working, NEW w \in Workers
  PROVE  /\ work[w] \in Work
         /\ work[w].todo \in Names /\ work[w].found \in Names
         /\ work[w].name \in Name \cup {None}
         /\ work[w].at # "idle" => work[w].cta \in Id
         /\ work[w].at \in {"status", "party", "again", "write"} => work[w].name \in Name
         /\ work[w].at \in {"fetch", "next"} => work[w].name = None
BY WorkFields DEF Working, AtWork

LEMMA UploadWork ==
  ASSUME Working, NEW j \in Job, Upload(j)
  PROVE  \/ \E f \in File :
              /\ DeleteList(j, f)
              /\ f.names \in Names /\ Does(j, "insert", work[j].cta, f.names, work[j].name)
         \/ AllInserted(j) /\ Does(j, "mark", work[j].cta, work[j].found, work[j].name)
         \/ /\ InsertFails(j)
            /\ \E T \in PartsOf(work[j].todo) : Does(j, "insert", work[j].cta, T, work[j].name)
         \/ UploadEnds(j) /\ Rests(j)
         \/ \E n \in In(work[j].todo) :
              /\ Does(j, work[j].at, work[j].cta, Less(work[j].todo, n), work[j].name)
              /\ MarkOnline(j, n) \/ \E r \in RowId : InsertName(j, n, r)
<1> DEFINE x == work[j]
<1>0. j \in Workers BY DEF Workers
<1>1. /\ x \in Work /\ x.todo \in Names /\ x.found \in Names
      /\ x.at # "idle" => x.cta \in Id
      /\ x.at = "fetch" => x.name = None
  BY <1>0, AWorker
<1>2. ASSUME work' = [work EXCEPT ![j] = Rest] PROVE Rests(j)
  BY <1>0, <1>2, AtRest, Doing DEF Rests
<1> HIDE DEF x
<1>4. ASSUME NEW f \in File, DeleteList(j, f)
      PROVE  f.names \in Names /\ Does(j, "insert", work[j].cta, f.names, work[j].name)
  <2>1. f.names \in Names /\ f.online \in Names BY AttendanceAssumption DEF Names
  <2>2. Fields([x EXCEPT !.at = "insert", !.todo = f.names, !.found = f.online],
               "insert", x.cta, f.names, x.name)
    BY <1>1, <2>1, WorkUpdate, AllSteps
  <2> QED BY <1>0, <1>1, <1>4, <2>1, <2>2, Doing DEF DeleteList, x
<1>5. CASE AllInserted(j)
  <2>1. Fields([x EXCEPT !.at = "mark", !.todo = x.found, !.found = Nobody], "mark", x.cta, x.found, x.name)
    BY <1>1, NobodyIn, WorkUpdate, AllSteps
  <2> QED BY <1>0, <1>1, <1>5, <2>1, Doing DEF AllInserted, x
<1>6. ASSUME InsertFails(j)
      PROVE  \E T \in PartsOf(work[j].todo) : Does(j, "insert", work[j].cta, T, work[j].name)
  <2>1. PICK T \in PartsOf(x.todo) : work' = [work EXCEPT ![j] = [work[j] EXCEPT !.todo = T]]
    BY <1>6 DEF InsertFails, x
  <2>2. T \in Names BY <1>1, <2>1, PartOf
  <2>3. Fields([x EXCEPT !.todo = T], x.at, x.cta, T, x.name) BY <1>1, <2>2, WorkUpdate, AllSteps
  <2>4. x.at = "insert" BY <1>6 DEF InsertFails, x
  <2>5. Does(j, "insert", x.cta, T, x.name) BY <1>0, <1>1, <2>1, <2>3, <2>4, Doing DEF x
  <2> QED BY <2>1, <2>5 DEF x
<1>7. CASE UploadEnds(j) BY <1>2, <1>7 DEF UploadEnds
<1>8. ASSUME NEW n \in In(work[j].todo), MarkOnline(j, n) \/ \E r \in RowId : InsertName(j, n, r)
      PROVE  Does(j, work[j].at, work[j].cta, Less(work[j].todo, n), work[j].name)
  <2>0. Less(x.todo, n) \in Names BY <1>1, <1>8, LessOf DEF x
  <2>1. Fields([x EXCEPT !.todo = Less(x.todo, n)], x.at, x.cta, Less(x.todo, n), x.name)
    BY <1>1, <2>0, WorkUpdate, AllSteps
  <2> QED BY <1>0, <1>1, <1>8, <2>1, Doing DEF MarkOnline, InsertName, x
<1> QED BY <1>4, <1>5, <1>6, <1>7, <1>8 DEF Upload

LEMMA JudgeWork ==
  ASSUME Working, NEW w \in Workers, Judge(w)
  PROVE  \/ \E n \in In(work[w].todo) :
              /\ NextName(w, n)
              /\ \/ Does(w, "status", work[w].cta, Less(work[w].todo, n), n)
                 \/ w = Main /\ Does(w, "next", work[w].cta, Less(work[w].todo, n), None)
         \/ ReadStatus(w) /\ (Moves(w, "party") \/ Moves(w, "write"))
         \/ ReadParty(w) /\ (Moves(w, "write") \/ Moves(w, "again"))
         \/ ReadPartyAgain(w) /\ Moves(w, "write")
         \/ WriteStatus(w) /\ Does(w, "next", work[w].cta, work[w].todo, None)
<1> DEFINE x == work[w]
<1>1. /\ x \in Work /\ x.todo \in Names /\ x.found \in Names
      /\ x.at # "idle" => x.cta \in Id
      /\ x.at \in {"status", "party", "again", "write"} => x.name \in Name
      /\ x.at = "next" => x.name = None
  BY AWorker
<1> HIDE DEF x
<1>2. ASSUME NEW a \in {"party", "again"}, x.at \in {"status", "party"},
             work' = [work EXCEPT ![w] = [work[w] EXCEPT !.at = a]]
      PROVE  Moves(w, a)
  <2>1. Fields([x EXCEPT !.at = a], a, x.cta, x.todo, x.name) BY <1>1, WorkUpdate, AllSteps
  <2> QED BY <1>1, <1>2, <2>1, Doing DEF Moves, x
<1>3. ASSUME NEW s \in Status, x.at \in {"status", "party", "again"},
             work' = [work EXCEPT ![w] = [work[w] EXCEPT !.at = "write", !.status = s]]
      PROVE  Moves(w, "write")
  <2>1. Fields([x EXCEPT !.at = "write", !.status = s], "write", x.cta, x.todo, x.name)
    BY <1>1, WorkUpdate, AllSteps
  <2> QED BY <1>1, <1>3, <2>1, Doing DEF Moves, x
<1>4. ASSUME NEW n \in In(work[w].todo), NextName(w, n)
      PROVE  \/ Does(w, "status", work[w].cta, Less(work[w].todo, n), n)
             \/ w = Main /\ Does(w, "next", work[w].cta, Less(work[w].todo, n), None)
  <2>0. n \in Name /\ x.at = "next" /\ Less(x.todo, n) \in Names /\ More(x.found, n) \in Names
    BY <1>1, <1>4, LessOf, MoreOf DEF NextName, x
  <2>1. CASE work' = [work EXCEPT ![w] = [work[w] EXCEPT !.at = "status", !.name = n,
                               !.todo = Less(work[w].todo, n),
                               !.found = IF w = Main THEN More(work[w].found, n) ELSE Nobody]]
    <3>0. (IF w = Main THEN More(x.found, n) ELSE Nobody) \in Names BY <2>0, NobodyIn
    <3>1. Fields([x EXCEPT !.at = "status", !.name = n, !.todo = Less(x.todo, n),
                           !.found = IF w = Main THEN More(x.found, n) ELSE Nobody],
                 "status", x.cta, Less(x.todo, n), n)
      BY <1>1, <2>0, <3>0, WorkUpdate, AllSteps
    <3> QED BY <1>1, <2>0, <2>1, <3>1, Doing DEF x
  <2>2. CASE w = Main /\ work' = [work EXCEPT ![w] = [work[w] EXCEPT !.todo = Less(work[w].todo, n)]]
    <3>1. Fields([x EXCEPT !.todo = Less(x.todo, n)], x.at, x.cta, Less(x.todo, n), x.name)
      BY <1>1, <2>0, WorkUpdate, AllSteps
    <3> QED BY <1>1, <2>0, <2>2, <3>1, Doing DEF x
  <2> QED BY <1>4, <2>1, <2>2 DEF NextName
<1>5. CASE ReadStatus(w) BY <1>2, <1>3, <1>5, AllSteps DEF ReadStatus, x
<1>6. CASE ReadParty(w) BY <1>2, <1>3, <1>6, AllSteps DEF ReadParty, x
<1>7. CASE ReadPartyAgain(w) BY <1>3, <1>7, AllSteps DEF ReadPartyAgain, x
<1>8. CASE WriteStatus(w)
  <2>1. Fields([x EXCEPT !.at = "next", !.name = None, !.status = "offline"], "next", x.cta, x.todo, None)
    BY <1>1, WorkUpdate, AllSteps
  <2> QED BY <1>1, <1>8, <2>1, Doing DEF WriteStatus, x
<1> QED BY <1>4, <1>5, <1>6, <1>7, <1>8 DEF Judge

LEMMA PartyWork ==
  ASSUME Working, PartyUpload
  PROVE  \/ AllRecognised /\ Moves(Main, "clear")
         \/ ClearParty /\ Does(Main, "add", work[Main].cta, work[Main].found, work[Main].name)
         \/ PartyEnds /\ Rests(Main)
         \/ \E n \in In(work[Main].todo) :
              AddToParty(n) /\ Does(Main, "add", work[Main].cta, Less(work[Main].todo, n), work[Main].name)
<1> DEFINE x == work[Main]
<1>0. Main \in Workers BY DEF Workers
<1>1. /\ x \in Work /\ x.todo \in Names /\ x.found \in Names
      /\ x.at # "idle" => x.cta \in Id
  BY <1>0, AWorker
<1> HIDE DEF x
<1>2. CASE AllRecognised
  <2>1. Fields([x EXCEPT !.at = "clear"], "clear", x.cta, x.todo, x.name) BY <1>1, WorkUpdate, AllSteps
  <2> QED BY <1>0, <1>1, <1>2, <2>1, Doing DEF Moves, AllRecognised, x
<1>3. CASE ClearParty
  <2>1. Fields([x EXCEPT !.at = "add", !.todo = x.found, !.found = Nobody], "add", x.cta, x.found, x.name)
    BY <1>1, NobodyIn, WorkUpdate, AllSteps
  <2> QED BY <1>0, <1>1, <1>3, <2>1, Doing DEF ClearParty, x
<1>4. CASE PartyEnds BY <1>0, <1>4, AtRest, Doing DEF Rests, PartyEnds
<1>5. ASSUME NEW n \in In(work[Main].todo), AddToParty(n)
      PROVE  Does(Main, "add", work[Main].cta, Less(work[Main].todo, n), work[Main].name)
  <2>0. Less(x.todo, n) \in Names BY <1>1, <1>5, LessOf DEF x
  <2>1. Fields([x EXCEPT !.todo = Less(x.todo, n)], x.at, x.cta, Less(x.todo, n), x.name)
    BY <1>1, <2>0, WorkUpdate, AllSteps
  <2> QED BY <1>0, <1>1, <1>5, <2>1, Doing DEF AddToParty, x
<1> QED BY <1>2, <1>3, <1>4, <1>5 DEF PartyUpload

(* The rest of what a worker may do: a failure, or the list of a check. *)
LEMMA OtherWork ==
  ASSUME Working, NEW w \in Workers
  PROVE  /\ ListAbsentees(w) => Does(w, "next", work[w].cta, Absentees(work[w].cta), None)
         /\ CheckEnds(w) \/ Fails(w) => Rests(w)
         /\ FailsSilently(w) =>
              \/ work[w].at = "write" /\ Does(w, "next", work[w].cta, work[w].todo, None)
              \/ \E n \in In(work[w].todo) :
                   /\ work[w].at \in {"mark", "add"}
                   /\ Does(w, work[w].at, work[w].cta, Less(work[w].todo, n), work[w].name)
<1> DEFINE x == work[w]
<1>1. /\ x \in Work /\ x.todo \in Names
      /\ x.at # "idle" => x.cta \in Id
      /\ x.at \in {"fetch", "next"} => x.name = None
  BY AWorker
<1> HIDE DEF x
<1>2. ASSUME ListAbsentees(w) PROVE Does(w, "next", work[w].cta, Absentees(work[w].cta), None)
  <2>1. Absentees(x.cta) \in Names BY AbsenteesIn
  <2>2. Fields([x EXCEPT !.at = "next", !.todo = Absentees(x.cta)], "next", x.cta, Absentees(x.cta), x.name)
    BY <1>1, <2>1, WorkUpdate, AllSteps
  <2>3. x.at = "fetch" /\ work' = [work EXCEPT ![w] = [x EXCEPT !.at = "next", !.todo = Absentees(x.cta)]]
    BY <1>2 DEF ListAbsentees, x
  <2>4. x.name = None /\ x.cta \in Id BY <1>1, <2>3
  <2>5. Fields([x EXCEPT !.at = "next", !.todo = Absentees(x.cta)], "next", x.cta, Absentees(x.cta), None)
    BY <2>2, <2>4
  <2> QED BY <2>3, <2>4, <2>5, Doing DEF x
<1>3. ASSUME CheckEnds(w) \/ Fails(w) PROVE Rests(w)
  <2>1. work' = [work EXCEPT ![w] = Rest] BY <1>3 DEF CheckEnds, Fails
  <2> QED BY <2>1, AtRest, Doing DEF Rests
<1>4. ASSUME FailsSilently(w)
      PROVE  \/ work[w].at = "write" /\ Does(w, "next", work[w].cta, work[w].todo, None)
             \/ \E n \in In(work[w].todo) :
                  /\ work[w].at \in {"mark", "add"}
                  /\ Does(w, work[w].at, work[w].cta, Less(work[w].todo, n), work[w].name)
  <2>1. CASE x.at = "write" /\ work' = [work EXCEPT ![w] = [work[w] EXCEPT !.at = "next", !.name = None,
                                                                             !.status = "offline"]]
    <3>1. Fields([x EXCEPT !.at = "next", !.name = None, !.status = "offline"], "next", x.cta, x.todo, None)
      BY <1>1, WorkUpdate, AllSteps
    <3> QED BY <1>1, <2>1, <3>1, Doing DEF x
  <2>2. ASSUME NEW n \in In(work[w].todo), x.at \in {"mark", "add"},
               work' = [work EXCEPT ![w] = [work[w] EXCEPT !.todo = Less(work[w].todo, n)]]
        PROVE  Does(w, work[w].at, work[w].cta, Less(work[w].todo, n), work[w].name)
    <3>0. Less(x.todo, n) \in Names BY <1>1, <2>2, LessOf DEF x
    <3>1. Fields([x EXCEPT !.todo = Less(x.todo, n)], x.at, x.cta, Less(x.todo, n), x.name)
      BY <1>1, <3>0, WorkUpdate, AllSteps
    <3> QED BY <1>1, <2>2, <3>1, Doing DEF x
  <2> QED BY <1>4, <2>1, <2>2 DEF FailsSilently, x
<1> QED BY <1>2, <1>3, <1>4

(* What starts something longer. *)
LEMMA FreshWork ==
  ASSUME Working, NEW g \in Guild
  PROVE  /\ \A j \in Job : StartUpload(g, j) => \E c \in C!ActiveIn(g) : Does(j, "download", c, Nobody, None)
         /\ \A j \in Job : StartCheck(g, j) => \E c \in C!ActiveIn(g) : Does(j, "fetch", c, Nobody, None)
         /\ \A p \in Party : StartParty(g, p) => \E c \in C!ActiveIn(g), N \in Names :
              Does(Main, "next", c, N, None)
<1>0. C!ActiveIn(g) \subseteq Id /\ Job \subseteq Workers /\ Main \in Workers
  BY DEF C!ActiveIn, Workers
<1>1. ASSUME NEW j \in Job, NEW a \in {"download", "fetch"},
             \E c \in C!ActiveIn(g) : work' = [work EXCEPT ![j] = [Rest EXCEPT !.at = a, !.cta = c]]
      PROVE  \E c \in C!ActiveIn(g) : Does(j, a, c, Nobody, None)
  <2>1. PICK c \in C!ActiveIn(g) : work' = [work EXCEPT ![j] = [Rest EXCEPT !.at = a, !.cta = c]]
    BY <1>1
  <2>2. a \in Steps BY AllSteps
  <2>3. Fields([Rest EXCEPT !.at = a, !.cta = c], a, c, Nobody, None)
    BY <1>0, <2>2, AtRest DEF Fields, Work, Steps
  <2>4. Does(j, a, c, Nobody, None) BY <1>0, <2>1, <2>3, Doing
  <2> QED BY <2>4
<1>2. ASSUME NEW p \in Party, StartParty(g, p)
      PROVE  \E c \in C!ActiveIn(g), N \in Names : Does(Main, "next", c, N, None)
  <2>1. PICK c \in C!ActiveIn(g), N \in Image :
          work' = [work EXCEPT ![Main] = [Rest EXCEPT !.at = "next", !.cta = c, !.todo = N, !.party = p]]
    BY <1>2 DEF StartParty
  <2>2. N \in Names BY AttendanceAssumption DEF Names
  <2>3. Fields([Rest EXCEPT !.at = "next", !.cta = c, !.todo = N, !.party = p], "next", c, N, None)
    BY <1>0, <2>2, FirstWork, AllSteps
  <2>4. Does(Main, "next", c, N, None) BY <1>0, <2>1, <2>3, Doing
  <2> QED BY <2>2, <2>4
<1> QED BY <1>1, <1>2 DEF StartUpload, StartCheck

-----------------------------------------------------------------------------
(* What the steps on the list leave alone, and what the CTAs do.           *)

LEMMA CommandsLeaveCTA == Command \/ PartyUpload => UNCHANGED ctaVars
BY DEF Command, PartyUpload, LateRegister, PartyAdd, PartyRemove, StartUpload, StartCheck, StartParty,
   AllRecognised, ClearParty, PartyEnds, AddToParty

LEMMA ListLeavesCTA == ListNext => UNCHANGED ctaVars
BY CommandsLeaveCTA
   DEF ListNext, Upload, Judge, DeleteList, InsertName, AllInserted, InsertFails,
   MarkOnline, UploadEnds, ListAbsentees, CheckEnds, NextName, ReadStatus, ReadParty, ReadPartyAgain,
   WriteStatus, FailsSilently, Fails

LEMMA CTAMoves == CTANext => C!Next
BY DEF CTANext, DeleteUsers, Restart, C!Next, C!SecondStatement

(* The module implements CTA: whatever uploads, checks and parties do at   *)
(* the same time and however they fail, the CTAs and the task see only     *)
(* what module CTA lets happen.                                            *)
THEOREM ListsImplementCTA == Spec => CTASpec
<1>1. Init => C!Init BY DEF Init
<1>2. ASSUME [Next]_vars PROVE [C!Next]_(C!vars)
  <2>1. CASE CTANext BY <2>1, CTAMoves
  <2>2. CASE ListNext BY <2>2, ListLeavesCTA DEF ctaVars, C!vars
  <2>3. CASE UNCHANGED vars BY <2>3 DEF vars, C!vars
  <2> QED BY <1>2, <2>1, <2>2, <2>3 DEF Next
<1> QED BY <1>1, <1>2, PTL DEF Spec, CTASpec, C!Spec

-----------------------------------------------------------------------------
LEMMA CTATypes == CTATyped /\ C!Next => CTATyped'
<1> SUFFICES ASSUME CTATyped, C!Next PROVE CTATyped' OBVIOUS
<1>0. /\ C!Idle \in C!Thread /\ C!Idle.at = "idle"
      /\ \A t \in C!Thread : t.at # "idle" => t.cta \in Id
      /\ \A c \in Id : cta[c] # C!NoRow => cta[c] \in CTARow
      /\ \A x \in CTARow : x # C!NoRow
  BY DEF C!Idle, C!Thread, CTATyped, CTARow, C!NoRow
<1>1. ASSUME NEW c \in Id, cta[c] \in CTARow, NEW s \in {"active", "finished", "deleted"}, NEW e \in Nat
      PROVE  /\ [cta[c] EXCEPT !.status = s] \in CTARow
             /\ [cta[c] EXCEPT !.end = e] \in CTARow
  BY <1>1 DEF CTARow
<1>2. CASE C!Tick BY <1>2 DEF C!Tick, CTATyped
<1>3. ASSUME NEW g \in Guild, NEW c \in Id, NEW e \in 0..(Horizon - 1), C!Start(g, c, e) PROVE CTATyped'
  <2>1. [status |-> "active", guild |-> g, end |-> e] \in CTARow BY DEF CTARow
  <2>2. cta' \in [Id -> CTARow \cup {C!NoRow}] BY <1>3, <2>1 DEF C!Start, CTATyped
  <2> QED BY <1>0, <1>3, <2>2 DEF C!Start, CTATyped
<1>4. ASSUME NEW g \in Guild, C!Cancel(g) \/ C!Delete(g) PROVE CTATyped'
  <2>1. PICK c \in C!ActiveIn(g), s \in {"deleted", "finished"}, a \in {"users", "end"} :
          cta' = [cta EXCEPT ![c] = [cta[c] EXCEPT !.status = s]] /\ thread' = [at |-> a, cta |-> c]
    BY <1>4 DEF C!Cancel, C!Delete
  <2>2. c \in Id /\ cta[c] \in CTARow
    BY <1>0 DEF C!ActiveIn, C!Active, C!NoRow
  <2>3. [cta[c] EXCEPT !.status = s] \in CTARow BY <1>1, <2>2
  <2>4. cta' \in [Id -> CTARow \cup {C!NoRow}] /\ cta'[c] \in CTARow BY <2>1, <2>2, <2>3 DEF CTATyped
  <2>5. thread' \in C!Thread /\ thread'.cta = c BY <2>1, <2>2 DEF C!Thread
  <2> QED BY <1>4, <2>4, <2>5 DEF C!Cancel, C!Delete, CTATyped
<1>5. CASE C!DeleteUsers \/ C!CommandFails
  BY <1>0, <1>5 DEF C!DeleteUsers, C!CommandFails, CTATyped
<1>6. CASE C!SetEnd
  <2>1. thread.cta \in Id /\ cta[thread.cta] \in CTARow /\ now \in Nat
    BY <1>0, <1>6 DEF C!SetEnd, CTATyped
  <2>2. cta' = [cta EXCEPT ![thread.cta] = [cta[thread.cta] EXCEPT !.end = now]] BY <1>6 DEF C!SetEnd
  <2>3. cta' \in [Id -> CTARow \cup {C!NoRow}] BY <1>1, <2>1, <2>2 DEF CTATyped
  <2> QED BY <1>0, <1>6, <2>3 DEF C!SetEnd, CTATyped
<1>7. CASE C!Round
  <2>1. CASE C!Finish /\ C!Exists(checker.cta) /\ checker.cta \in Id
    <3>1. cta[checker.cta] \in CTARow BY <1>0, <2>1 DEF C!Exists, C!NoRow
    <3>2. cta' = [cta EXCEPT ![checker.cta] = [cta[checker.cta] EXCEPT !.status = "finished"]]
      BY <2>1 DEF C!Finish
    <3>3. cta' \in [Id -> CTARow \cup {C!NoRow}] /\ (thread.at # "idle" => cta'[thread.cta] \in CTARow)
      BY <1>0, <1>1, <2>1, <3>1, <3>2 DEF CTATyped
    <3> QED BY <2>1, <3>3 DEF C!Finish, CTATyped
  <2>2. CASE C!Finish /\ ~(C!Exists(checker.cta) /\ checker.cta \in Id)
    <3>1. cta' = cta BY <2>2 DEF C!Finish, CTATyped
    <3> QED BY <2>2, <3>1 DEF C!Finish, CTATyped
  <2>3. CASE UNCHANGED <<cta, now, thread, trouble>> BY <2>3 DEF CTATyped
  <2> QED BY <1>7, <2>1, <2>2, <2>3
          DEF C!Round, C!ListActive, C!ReadEnd, C!Announce, C!AnnounceNowhere, C!AllTold, C!RoundDone
<1>8. CASE C!TaskFails \/ C!Restart
  BY <1>0, <1>8 DEF C!TaskFails, C!Restart, CTATyped
<1> QED BY <1>2, <1>3, <1>4, <1>5, <1>6, <1>7, <1>8 DEF C!Next, C!Command, C!SecondStatement

-----------------------------------------------------------------------------
LEMMA WorkTypes == Working /\ [Next]_vars => Working'
<1> SUFFICES ASSUME Working, [Next]_vars PROVE Working' OBVIOUS
<1>0. Job \subseteq Workers /\ Main \in Workers BY DEF Workers
<1>1. CASE UNCHANGED work BY <1>1 DEF Working, AtWork
<1>2. CASE Command
  <2>1. CASE UNCHANGED work BY <1>1, <2>1
  <2>2. ASSUME NEW g \in Guild, NEW j \in Job, StartUpload(g, j) \/ StartCheck(g, j) PROVE Working'
    BY <2>2, FreshWork DEF Does
  <2>3. ASSUME NEW g \in Guild, NEW p \in Party, StartParty(g, p) PROVE Working'
    BY <2>3, FreshWork DEF Does
  <2> QED BY <1>2, <2>1, <2>2, <2>3 DEF Command, LateRegister, PartyAdd, PartyRemove
<1>3. ASSUME NEW j \in Job, Upload(j) PROVE Working' BY <1>3, UploadWork DEF Does, Moves, Rests
<1>4. ASSUME NEW w \in Workers, Judge(w) PROVE Working' BY <1>4, JudgeWork DEF Does, Moves
<1>5. CASE PartyUpload BY <1>5, PartyWork DEF Does, Moves, Rests
<1>6. ASSUME NEW w \in Workers, ListAbsentees(w) \/ CheckEnds(w) \/ FailsSilently(w) \/ Fails(w)
      PROVE  Working'
  BY <1>6, OtherWork DEF Does, Rests
<1>7. CASE Restart
  <2>1. work' = [w \in Workers |-> Rest] BY <1>7 DEF Restart, Workers
  <2> QED BY <2>1, AtRest DEF Working, AtWork, Fields
<1>8. CASE ListNext BY <1>0, <1>2, <1>3, <1>4, <1>5, <1>6, <1>8 DEF ListNext, Workers
<1>9. CASE CTANext BY <1>1, <1>7, <1>9 DEF CTANext, DeleteUsers, listVars
<1> QED BY <1>1, <1>8, <1>9 DEF Next, vars

(* Rows are only ever inserted, deleted, or given another status or party. *)
LEMMA RowTypes ==
  ASSUME Listed, NEW c \in Id, NEW n \in Name, NEW p \in Party \cup {None}
  PROVE  /\ \A s \in Status : UpdateStatus(c, n, s) \in [RowId -> User \cup {NoUser}]
         /\ \A s \in Status : Update(c, n, s, p) \in [RowId -> User \cup {NoUser}]
         /\ Without(c) \in [RowId -> User \cup {NoUser}]
         /\ \A r \in RowId :
              [users EXCEPT ![r] = [cta |-> c, name |-> n, status |-> "offline", party |-> None]]
                \in [RowId -> User \cup {NoUser}]
<1>0. \A r \in RowId : users[r] # NoUser => users[r] \in User BY DEF Listed
<1>1. ASSUME NEW s \in Status PROVE UpdateStatus(c, n, s) \in [RowId -> User \cup {NoUser}]
  BY <1>0, UserUpdate DEF UpdateStatus, IsRow, Listed
<1>2. ASSUME NEW s \in Status PROVE Update(c, n, s, p) \in [RowId -> User \cup {NoUser}]
  BY <1>0, UserUpdate DEF Update, IsRow, Listed
<1>3. Without(c) \in [RowId -> User \cup {NoUser}] BY DEF Without, Listed
<1>4. [cta |-> c, name |-> n, status |-> "offline", party |-> None] \in User
  BY DEF User, Status
<1> QED BY <1>1, <1>2, <1>3, <1>4 DEF Listed

LEMMA MarkedTypes ==
  ASSUME Listed, NEW c \in Id, NEW n \in Name PROVE Marked(c, n) \subseteq Id \X Name
BY DEF Listed, Marked

LEMMA CommandRows == Typed /\ Command => Listed'
<1> SUFFICES ASSUME Typed, NEW g \in Guild,
      \/ \E n \in Name : LateRegister(g, n) \/ \E p \in Party : PartyAdd(g, n, p) \/ PartyRemove(g, n, p)
      \/ \E j \in Job : StartUpload(g, j) \/ StartCheck(g, j)
      \/ \E p \in Party : StartParty(g, p)
      PROVE Listed'
  BY DEF Command
<1>0. Listed /\ C!ActiveIn(g) \subseteq Id BY DEF C!ActiveIn, Typed
<1>1. ASSUME NEW n \in Name, LateRegister(g, n) PROVE Listed'
  <2>1. PICK c \in Id : users' = Update(c, n, "late", None) /\ marked' = Marked(c, n)
    BY <1>0, <1>1 DEF LateRegister
  <2>2. users' \in [RowId -> User \cup {NoUser}] /\ marked' \subseteq Id \X Name
    BY <1>0, <2>1, RowTypes, MarkedTypes, AllSteps
  <2> QED BY <1>0, <1>1, <2>2 DEF LateRegister, Listed
<1>2. ASSUME NEW n \in Name, NEW p \in Party, PartyAdd(g, n, p) PROVE Listed'
  <2>1. PICK c \in Id : users' = Update(c, n, "present", p) /\ marked' = Marked(c, n)
    BY <1>0, <1>2 DEF PartyAdd
  <2>2. users' \in [RowId -> User \cup {NoUser}] /\ marked' \subseteq Id \X Name
    BY <1>0, <2>1, RowTypes, MarkedTypes, AllSteps
  <2> QED BY <1>0, <1>2, <2>2 DEF PartyAdd, Listed
<1>3. ASSUME NEW n \in Name, NEW p \in Party, PartyRemove(g, n, p) PROVE Listed'
  <2>1. PICK c \in Id :
          /\ users' = [r \in RowId |->
                         IF IsRow(r, c, n) /\ users[r].party = p
                           THEN [users[r] EXCEPT !.status = "absent", !.party = None] ELSE users[r]]
          /\ marked' = marked \ {<<c, n>>}
    BY <1>0, <1>3 DEF PartyRemove
  <2>2. ASSUME NEW r \in RowId, IsRow(r, c, n)
        PROVE  [users[r] EXCEPT !.status = "absent", !.party = None] \in User
    BY <1>0, <2>2, UserUpdate, AllSteps DEF IsRow, Listed
  <2>3. users' \in [RowId -> User \cup {NoUser}] BY <1>0, <2>1, <2>2 DEF Listed
  <2> QED BY <1>0, <1>3, <2>1, <2>3 DEF PartyRemove, Listed
<1>4. ASSUME UNCHANGED <<users, filed, marked, settled>> PROVE Listed'
  BY <1>0, <1>4 DEF Listed
<1> QED BY <1>1, <1>2, <1>3, <1>4 DEF StartUpload, StartCheck, StartParty

LEMMA UploadRows == Typed /\ (\E j \in Job : Upload(j)) => Listed'
<1> SUFFICES ASSUME Typed, NEW j \in Job, Upload(j) PROVE Listed' OBVIOUS
<1>0. /\ Listed /\ work[j].todo \in Names
      /\ (work[j].at # "idle" => work[j].cta \in Id)
  BY AWorker DEF Typed, Workers
<1>1. CASE UNCHANGED <<users, filed, marked, settled>> BY <1>0, <1>1 DEF Listed
<1>2. ASSUME NEW f \in File, DeleteList(j, f) PROVE Listed'
  <2>1. f.names \in Names BY AttendanceAssumption DEF Names
  <2>2. /\ work[j].cta \in Id /\ users' \in [RowId -> User \cup {NoUser}]
        /\ filed' \in [Id -> Names \cup {None}]
    BY <1>0, <1>2, <2>1 DEF DeleteList, Without, Listed
  <2> QED BY <1>0, <1>2, <2>2 DEF DeleteList, Listed
<1>4. ASSUME NEW n \in In(work[j].todo), MarkOnline(j, n) PROVE Listed'
  <2>1. work[j].cta \in Id /\ n \in Name /\ None \in Party \cup {None} BY <1>0, <1>4 DEF MarkOnline, In
  <2>2. users' \in [RowId -> User \cup {NoUser}]
    BY <1>0, <1>4, <2>1, RowTypes, AllSteps DEF MarkOnline
  <2> QED BY <1>0, <1>4, <2>2 DEF MarkOnline, Listed
<1>5. ASSUME NEW n \in In(work[j].todo), NEW r \in RowId, InsertName(j, n, r) PROVE Listed'
  <2>1. work[j].cta \in Id /\ n \in Name /\ None \in Party \cup {None} BY <1>0, <1>5 DEF InsertName, In
  <2>2. users' \in [RowId -> User \cup {NoUser}]
    BY <1>0, <1>5, <2>1, RowTypes DEF InsertName
  <2> QED BY <1>0, <1>5, <2>2 DEF InsertName, Listed
<1> QED BY <1>1, <1>2, <1>4, <1>5 DEF Upload, AllInserted, InsertFails, UploadEnds

LEMMA PartyRows == Typed /\ PartyUpload => Listed'
<1> SUFFICES ASSUME Typed, PartyUpload PROVE Listed' OBVIOUS
<1>0. /\ Listed /\ work[Main] \in Work /\ work[Main].todo \in Names
      /\ (work[Main].at # "idle" => work[Main].cta \in Id)
      /\ work[Main].party \in Party \cup {None}
  BY AWorker, WorkFields DEF Typed, Workers
<1>1. CASE ClearParty
  <2>1. ASSUME NEW r \in RowId, users[r] # NoUser PROVE [users[r] EXCEPT !.party = None] \in User
    BY <1>0, <2>1, UserUpdate, AllSteps DEF Listed
  <2>2. users' \in [RowId -> User \cup {NoUser}] BY <1>0, <1>1, <2>1 DEF ClearParty, Listed
  <2> QED BY <1>0, <1>1, <2>2 DEF ClearParty, Listed
<1>2. ASSUME NEW n \in In(work[Main].todo), AddToParty(n) PROVE Listed'
  <2>1. work[Main].cta \in Id /\ n \in Name BY <1>0, <1>2 DEF AddToParty, In
  <2>2. users' \in [RowId -> User \cup {NoUser}] /\ marked' \subseteq Id \X Name
    BY <1>0, <1>2, <2>1, RowTypes, MarkedTypes, AllSteps DEF AddToParty
  <2> QED BY <1>0, <1>2, <2>2 DEF AddToParty, Listed
<1>3. CASE AllRecognised \/ PartyEnds BY <1>0, <1>3 DEF AllRecognised, PartyEnds, Listed
<1> QED BY <1>1, <1>2, <1>3 DEF PartyUpload

LEMMA RowsTyped == Typed /\ [Next]_vars => Listed'
<1> SUFFICES ASSUME Typed, [Next]_vars PROVE Listed' OBVIOUS
<1>0. Listed /\ CTATyped /\ Working BY DEF Typed
<1>1. CASE UNCHANGED <<users, filed, marked, settled>> BY <1>0, <1>1 DEF Listed
<1>2. ASSUME NEW w \in Workers, Judge(w) PROVE Listed'
  <2>1. CASE WriteStatus(w)
    <3>1. /\ work[w].cta \in Id /\ work[w].name \in Name /\ work[w].status \in Status
          /\ None \in Party \cup {None}
      BY <1>0, <2>1, AWorker, WorkFields DEF WriteStatus
    <3>2. users' \in [RowId -> User \cup {NoUser}] BY <1>0, <2>1, <3>1, RowTypes DEF WriteStatus
    <3> QED BY <1>0, <2>1, <3>2 DEF WriteStatus, Listed
  <2> QED BY <1>1, <1>2, <2>1 DEF Judge, NextName, ReadStatus, ReadParty, ReadPartyAgain
<1>4. CASE ListNext
  BY <1>1, <1>2, <1>4, CommandRows, UploadRows, PartyRows
     DEF ListNext, Workers, ListAbsentees, CheckEnds, FailsSilently, Fails
<1>5. CASE DeleteUsers
  <2>1. thread.cta \in Id BY <1>0, <1>5 DEF DeleteUsers, C!DeleteUsers, CTATyped, C!Thread
  <2>2. users' \in [RowId -> User \cup {NoUser}] BY <1>0, <1>5 DEF DeleteUsers, Without, Listed
  <2> QED BY <1>0, <1>5, <2>1, <2>2 DEF DeleteUsers, Listed
<1>6. CASE CTANext BY <1>1, <1>5, <1>6 DEF CTANext, Restart, listVars
<1> QED BY <1>1, <1>4, <1>6 DEF Next, vars

LEMMA TypedStep == Typed /\ [Next]_vars => Typed'
<1> SUFFICES ASSUME Typed, [Next]_vars PROVE Typed' OBVIOUS
<1>1. CTATyped'
  <2>1. CASE CTANext BY <2>1, CTAMoves, CTATypes DEF Typed
  <2>2. CASE UNCHANGED ctaVars BY <2>2 DEF ctaVars, Typed, CTATyped
  <2> QED BY <2>1, <2>2, ListLeavesCTA DEF Next, vars, ctaVars
<1> QED BY <1>1, WorkTypes, RowsTyped DEF Typed

LEMMA TypedInit == Init => Typed
<1> SUFFICES ASSUME Init PROVE Typed OBVIOUS
<1>1. CTATyped BY DEF Init, C!Init, CTATyped, C!Idle, C!Thread
<1>2. Working BY AtRest DEF Init, Working, AtWork, Workers, Fields
<1>3. Listed BY NobodyIn DEF Init, Listed
<1> QED BY <1>1, <1>2, <1>3 DEF Typed

LEMMA AlwaysTyped == Spec => []Typed
<1> QED BY TypedInit, TypedStep, PTL DEF Spec

(* Type correctness: the rows, the work and the histories stay in their    *)
(* types whatever the files and images hold, which CTAs end meanwhile and  *)
(* whichever statements fail.                                              *)
THEOREM AttendanceTypes == Spec => []TypeOK
<1>1. Typed => TypeOK BY DEF Typed, Working, Listed, TypeOK, Workers
<1> QED BY <1>1, AlwaysTyped, PTL

-----------------------------------------------------------------------------
(* Lists hold what was filed.                                              *)

(* The inductive invariant: where no two uploads have met, the one that    *)
(* inserts does so alone, and the rows there and the names it has still to *)
(* insert are together no more than the names of its file.                 *)
FiledInv ==
  /\ \A j, k \in Job, c \in Id : Inserting(j, c) /\ Inserting(k, c) /\ filed[c] # None => j = k
  /\ \A j \in Job, c \in Id, n \in Name :
       Inserting(j, c) /\ filed[c] # None => Cardinality(RowsOf(c, n)) + work[j].todo[n] <= filed[c][n]
  /\ ListedAsFiled

(* Most steps add no row and start no insertion. *)
RowsStay == \A r \in RowId, c \in Id, n \in Name : IsRow(r, c, n)' => IsRow(r, c, n)
NoNewInsertion ==
  \A j \in Job, c \in Id :
    Inserting(j, c)' => Inserting(j, c) /\ \A n \in Name : work'[j].todo[n] <= work[j].todo[n]

LEMMA FiniteRows ==
  ASSUME NEW c, NEW n
  PROVE  IsFiniteSet(RowsOf(c, n)) /\ Cardinality(RowsOf(c, n)) \in Nat
<1>1. RowsOf(c, n) \in SUBSET RowId BY DEF RowsOf
<1>2. IsFiniteSet(RowsOf(c, n)) BY <1>1, FS_Subset, AttendanceAssumption
<1> QED BY <1>2, FS_CardinalityType

LEMMA FewerRows ==
  ASSUME NEW c \in Id, NEW n \in Name, \A r \in RowId : IsRow(r, c, n)' => IsRow(r, c, n)
  PROVE  Cardinality(RowsOf(c, n))' \in Nat /\ Cardinality(RowsOf(c, n))' <= Cardinality(RowsOf(c, n))
<1>1. RowsOf(c, n)' \in SUBSET RowsOf(c, n) BY DEF RowsOf
<1>2. IsFiniteSet(RowsOf(c, n)) BY FiniteRows
<1>3. IsFiniteSet(RowsOf(c, n)') /\ Cardinality(RowsOf(c, n)') <= Cardinality(RowsOf(c, n))
  BY <1>1, <1>2, FS_Subset
<1>4. Cardinality(RowsOf(c, n)') \in Nat BY <1>3, FS_CardinalityType
<1> QED BY <1>3, <1>4

(* What the sums are made of. *)
LEMMA Numbers ==
  ASSUME Typed, NEW c \in Id, NEW n \in Name
  PROVE  /\ filed[c] # None => filed[c][n] \in Nat
         /\ \A j \in Job : work[j].todo[n] \in Nat
         /\ Cardinality(RowsOf(c, n)) \in Nat
<1>1. filed[c] # None => filed[c] \in Names BY DEF Typed, Listed
<1>2. \A j \in Job : work[j].todo \in Names BY AWorker DEF Typed, Workers
<1>3. Cardinality(RowsOf(c, n)) \in Nat BY FiniteRows
<1> QED BY <1>1, <1>2, <1>3 DEF Names

LEMMA TypedTodo == ASSUME Typed', NEW j \in Job PROVE work'[j].todo \in Names
<1>1. work'[j] \in Work BY DEF Typed, Working, Workers
<1> QED BY <1>1, WorkFields

LEMMA FiledQuiet ==
  Typed /\ Typed' /\ FiledInv /\ RowsStay /\ NoNewInsertion /\ UNCHANGED filed => FiledInv'
<1> SUFFICES ASSUME Typed, Typed', FiledInv, RowsStay, NoNewInsertion, UNCHANGED filed PROVE FiledInv'
  OBVIOUS
<1>1. ASSUME NEW c \in Id, NEW n \in Name
      PROVE  /\ Cardinality(RowsOf(c, n))' \in Nat
             /\ Cardinality(RowsOf(c, n))' <= Cardinality(RowsOf(c, n))
  BY FewerRows DEF RowsStay
<1>2. \A j, k \in Job, c \in Id : Inserting(j, c)' /\ Inserting(k, c)' /\ filed'[c] # None => j = k
  BY DEF FiledInv, NoNewInsertion
<1>3. ASSUME NEW j \in Job, NEW c \in Id, NEW n \in Name, Inserting(j, c)', filed'[c] # None
      PROVE  Cardinality(RowsOf(c, n))' + work'[j].todo[n] <= filed'[c][n]
  <2>1. Inserting(j, c) /\ work'[j].todo[n] <= work[j].todo[n] BY <1>3 DEF NoNewInsertion
  <2>2. Cardinality(RowsOf(c, n)) + work[j].todo[n] <= filed[c][n] BY <1>3, <2>1 DEF FiledInv
  <2>3. work'[j].todo \in Names BY TypedTodo
  <2>4. work'[j].todo[n] \in Nat BY <2>3 DEF Names
  <2>5. work[j].todo[n] \in Nat /\ filed[c][n] \in Nat /\ Cardinality(RowsOf(c, n)) \in Nat
    BY <1>3, Numbers
  <2>6. filed'[c][n] = filed[c][n] OBVIOUS
  <2> QED BY <1>1, <2>1, <2>2, <2>4, <2>5, <2>6
<1>4. ASSUME NEW c \in Id, NEW n \in Name, filed'[c] # None
      PROVE  Cardinality(RowsOf(c, n))' <= filed'[c][n]
  <2>1. Cardinality(RowsOf(c, n)) <= filed[c][n] BY <1>4 DEF FiledInv, ListedAsFiled
  <2>2. filed[c][n] \in Nat /\ Cardinality(RowsOf(c, n)) \in Nat BY <1>4, Numbers
  <2>3. filed'[c][n] = filed[c][n] OBVIOUS
  <2> QED BY <1>1, <2>1, <2>2, <2>3
<1> QED BY <1>2, <1>3, <1>4 DEF FiledInv, ListedAsFiled

(* A worker that does not turn to inserting leaves the insertions alone. *)
LEMMA NotInserting ==
  ASSUME Working, NEW w \in Workers, NEW a, NEW c, NEW T, NEW n, Does(w, a, c, T, n),
         \/ a # "insert"
         \/ work[w].at = "insert" /\ c = work[w].cta /\ \A m \in Name : T[m] <= work[w].todo[m]
  PROVE  NoNewInsertion
<1>1. ASSUME NEW j \in Job, NEW m \in Name PROVE work[j].todo[m] \in Nat
  <2>1. work[j].todo \in Names BY AWorker DEF Workers
  <2> QED BY <2>1 DEF Names
<1>2. \A j \in Job, m \in Name : work[j].todo[m] <= work[j].todo[m] BY <1>1
<1> QED BY <1>2 DEF Does, NoNewInsertion, Inserting, Workers

(* Updates of status and party take no row to another list or name. *)
LEMMA UpdatesKeepNames ==
  ASSUME Listed, NEW c, NEW n, NEW s, NEW p
  PROVE  /\ users' = Update(c, n, s, p) => RowsStay
         /\ users' = UpdateStatus(c, n, s) => RowsStay
         /\ users' = Without(c) => RowsStay
         /\ users' = users => RowsStay
<1>1. ASSUME NEW u \in User
      PROVE  /\ [u EXCEPT !.status = s, !.party = p].cta = u.cta
             /\ [u EXCEPT !.status = s, !.party = p].name = u.name
             /\ [u EXCEPT !.status = s].cta = u.cta
             /\ [u EXCEPT !.status = s].name = u.name
  BY DEF User
<1>2. \A r \in RowId : users[r] # NoUser => users[r] \in User BY DEF Listed
<1>3. ASSUME users' = Update(c, n, s, p) PROVE RowsStay
  BY <1>1, <1>2, <1>3 DEF Update, RowsStay, IsRow
<1>4. ASSUME users' = UpdateStatus(c, n, s) PROVE RowsStay
  BY <1>1, <1>2, <1>4 DEF UpdateStatus, RowsStay, IsRow
<1>5. ASSUME users' = Without(c) PROVE RowsStay BY <1>5 DEF Without, RowsStay, IsRow
<1>6. ASSUME users' = users PROVE RowsStay BY <1>6 DEF RowsStay, IsRow
<1> QED BY <1>3, <1>4, <1>5, <1>6

LEMMA RowsOfSteps ==
  Typed /\ [Next]_vars => RowsStay \/ \E j \in Job : \E n \in In(work[j].todo), r \in RowId : InsertName(j, n, r)
<1> SUFFICES ASSUME Typed, [Next]_vars
             PROVE  RowsStay \/ \E j \in Job : \E n \in In(work[j].todo), r \in RowId : InsertName(j, n, r)
  OBVIOUS
<1>0. Listed BY DEF Typed
<1>1. /\ \A c, n, s, p : users' = Update(c, n, s, p) => RowsStay
      /\ \A c, n, s : users' = UpdateStatus(c, n, s) => RowsStay
      /\ \A c : users' = Without(c) => RowsStay
      /\ users' = users => RowsStay
  BY <1>0, UpdatesKeepNames
<1>2. ASSUME NEW u \in User
      PROVE  /\ [u EXCEPT !.status = "absent", !.party = None].cta = u.cta
             /\ [u EXCEPT !.status = "absent", !.party = None].name = u.name
             /\ [u EXCEPT !.party = None].cta = u.cta
             /\ [u EXCEPT !.party = None].name = u.name
  BY DEF User
<1>3. ASSUME NEW g \in Guild, NEW n \in Name, NEW p \in Party, PartyRemove(g, n, p) PROVE RowsStay
  <2>1. PICK c : users' = [r \in RowId |->
                    IF IsRow(r, c, n) /\ users[r].party = p
                      THEN [users[r] EXCEPT !.status = "absent", !.party = None] ELSE users[r]]
    BY <1>3 DEF PartyRemove
  <2> QED BY <1>0, <1>2, <2>1 DEF RowsStay, IsRow, Listed
<1>4. CASE ClearParty BY <1>0, <1>2, <1>4 DEF ClearParty, RowsStay, IsRow, Listed
<1>5. CASE Command
  BY <1>1, <1>3, <1>5 DEF Command, LateRegister, PartyAdd, StartUpload, StartCheck, StartParty
<1>6. ASSUME NEW j \in Job, Upload(j)
      PROVE  RowsStay \/ \E n \in In(work[j].todo), r \in RowId : InsertName(j, n, r)
  BY <1>1, <1>6 DEF Upload, DeleteList, AllInserted, InsertFails, UploadEnds, MarkOnline
<1>7. ASSUME NEW w \in Workers, Judge(w) PROVE RowsStay
  BY <1>1, <1>7 DEF Judge, NextName, ReadStatus, ReadParty, ReadPartyAgain, WriteStatus
<1>8. CASE PartyUpload BY <1>1, <1>4, <1>8 DEF PartyUpload, AllRecognised, PartyEnds, AddToParty
<1>9. ASSUME NEW w \in Workers, ListAbsentees(w) \/ CheckEnds(w) \/ FailsSilently(w) \/ Fails(w)
      PROVE  RowsStay
  BY <1>1, <1>9 DEF ListAbsentees, CheckEnds, FailsSilently, Fails
<1>10. CASE ListNext BY <1>5, <1>6, <1>7, <1>8, <1>9, <1>10 DEF ListNext, Workers
<1>11. CASE CTANext BY <1>1, <1>11 DEF CTANext, DeleteUsers, Restart, listVars
<1> QED BY <1>1, <1>10, <1>11 DEF Next, vars

LEMMA FiledDeleteList ==
  ASSUME Typed, Typed', FiledInv, NEW j \in Job, NEW f \in File, DeleteList(j, f), f.names \in Names,
         Does(j, "insert", work[j].cta, f.names, work[j].name)
  PROVE  FiledInv'
<1>0. Listed /\ work[j].at = "download" /\ work[j].cta \in Id /\ j \in Workers
  BY AWorker DEF DeleteList, Typed, Workers
<1>d. PICK d \in Id : d = work[j].cta BY <1>0
<1>1. /\ work'[j].at = "insert" /\ work'[j].cta = d /\ work'[j].todo = f.names
      /\ \A k \in Job : k # j => work'[k] = work[k]
  BY <1>d DEF Does, Workers
<1>2. RowsStay BY <1>0, UpdatesKeepNames DEF DeleteList
<1>3. ASSUME NEW n \in Name PROVE Cardinality(RowsOf(d, n))' = 0
  <2>1. \A r \in RowId : ~IsRow(r, d, n)' BY <1>d DEF DeleteList, Without, IsRow
  <2>2. RowsOf(d, n)' = {} BY <2>1 DEF RowsOf
  <2> QED BY <2>2, FS_EmptySet
<1>4. \A c \in Id : c # d => filed'[c] = filed[c] BY <1>0, <1>d DEF DeleteList, Listed
<1>5. filed'[d] # None => filed'[d] = f.names /\ \A k \in Job : ~Inserting(k, d)
  BY <1>0, <1>d DEF DeleteList, Listed
<1>6. ASSUME NEW c \in Id, NEW n \in Name
      PROVE  /\ Cardinality(RowsOf(c, n))' \in Nat
             /\ Cardinality(RowsOf(c, n))' <= Cardinality(RowsOf(c, n))
  BY <1>2, FewerRows DEF RowsStay
<1>7. ASSUME NEW k \in Job, NEW l \in Job, NEW c \in Id, Inserting(k, c)', Inserting(l, c)', filed'[c] # None
      PROVE  k = l
  <2>1. CASE c = d BY <1>1, <1>5, <1>7, <2>1 DEF Inserting
  <2>2. CASE c # d
    <3>1. k # j /\ l # j BY <1>1, <1>7, <2>2 DEF Inserting
    <3> QED BY <1>1, <1>4, <1>7, <2>2, <3>1 DEF Inserting, FiledInv
  <2> QED BY <2>1, <2>2
<1>8. ASSUME NEW k \in Job, NEW c \in Id, NEW n \in Name, Inserting(k, c)', filed'[c] # None
      PROVE  Cardinality(RowsOf(c, n))' + work'[k].todo[n] <= filed'[c][n]
  <2>1. CASE c = d
    <3>1. k = j BY <1>1, <1>5, <1>8, <2>1 DEF Inserting
    <3>2. f.names[n] \in Nat BY DEF Names
    <3> QED BY <1>1, <1>3, <1>5, <1>8, <2>1, <3>1, <3>2
  <2>2. CASE c # d
    <3>1. k # j BY <1>1, <1>8, <2>2 DEF Inserting
    <3>2. work'[k] = work[k] /\ filed'[c] = filed[c] BY <1>1, <1>4, <2>2, <3>1
    <3>3. Inserting(k, c) BY <1>8, <3>2 DEF Inserting
    <3>4. Cardinality(RowsOf(c, n)) + work[k].todo[n] <= filed[c][n] BY <1>8, <3>2, <3>3 DEF FiledInv
    <3>5. work[k].todo[n] \in Nat /\ filed[c][n] \in Nat /\ Cardinality(RowsOf(c, n)) \in Nat
      BY <1>8, <3>2, Numbers
    <3> QED BY <1>6, <3>2, <3>4, <3>5
  <2> QED BY <2>1, <2>2
<1>9. ASSUME NEW c \in Id, NEW n \in Name, filed'[c] # None
      PROVE  Cardinality(RowsOf(c, n))' <= filed'[c][n]
  <2>1. CASE c = d
    <3>1. f.names[n] \in Nat BY DEF Names
    <3> QED BY <1>3, <1>5, <1>9, <2>1, <3>1
  <2>2. CASE c # d
    <3>1. filed'[c] = filed[c] BY <1>4, <2>2
    <3>2. Cardinality(RowsOf(c, n)) <= filed[c][n] BY <1>9, <3>1 DEF FiledInv, ListedAsFiled
    <3>3. filed[c][n] \in Nat /\ Cardinality(RowsOf(c, n)) \in Nat BY <1>9, <3>1, Numbers
    <3> QED BY <1>6, <3>1, <3>2, <3>3
  <2> QED BY <2>1, <2>2
<1> QED BY <1>7, <1>8, <1>9 DEF FiledInv, ListedAsFiled

LEMMA FiledInsertName ==
  ASSUME Typed, Typed', FiledInv, NEW j \in Job, NEW m \in In(work[j].todo), NEW q \in RowId,
         InsertName(j, m, q),
         Does(j, work[j].at, work[j].cta, Less(work[j].todo, m), work[j].name)
  PROVE  FiledInv'
<1>0. /\ Listed /\ Working /\ j \in Workers
      /\ work[j].at = "insert" /\ work[j].cta \in Id /\ work[j].todo \in Names
  BY AWorker DEF InsertName, Typed, Workers
<1>d. PICK d \in Id : d = work[j].cta BY <1>0
<1>1. /\ work'[j].at = "insert" /\ work'[j].cta = d /\ work'[j].todo = Less(work[j].todo, m)
      /\ \A k \in Job : k # j => work'[k] = work[k]
  BY <1>0, <1>d DEF Does, Workers
<1>2. /\ m \in Name /\ work'[j].todo[m] = work[j].todo[m] - 1 /\ work[j].todo[m] \in Nat \ {0}
      /\ \A n \in Name : work'[j].todo[n] <= work[j].todo[n]
  BY <1>0, <1>1, LessOf
<1>3. NoNewInsertion BY <1>0, <1>1, <1>2, NotInserting
<1>4. filed' = filed BY DEF InsertName
<1>5. ASSUME NEW r \in RowId, NEW c \in Id, NEW n \in Name
      PROVE  IsRow(r, c, n)' <=> IsRow(r, c, n) \/ (r = q /\ c = d /\ n = m)
  <2>1. CASE r = q
    <3>1. users'[r] = [cta |-> d, name |-> m, status |-> "offline", party |-> None]
      BY <1>0, <1>d, <2>1 DEF InsertName, Listed
    <3>2. users'[r] # NoUser /\ users[r] = NoUser BY <2>1, <3>1 DEF NoUser, InsertName
    <3> QED BY <2>1, <3>1, <3>2 DEF IsRow
  <2>2. CASE r # q
    <3>1. users'[r] = users[r] BY <1>0, <2>2 DEF InsertName, Listed
    <3> QED BY <2>2, <3>1 DEF IsRow
  <2> QED BY <2>1, <2>2
<1>6. Cardinality(RowsOf(d, m))' = Cardinality(RowsOf(d, m)) + 1
  <2>1. RowsOf(d, m)' = RowsOf(d, m) \cup {q} BY <1>0, <1>2, <1>5 DEF RowsOf
  <2>2. q \notin RowsOf(d, m) BY DEF RowsOf, IsRow, InsertName
  <2> QED BY <2>1, <2>2, FiniteRows, FS_AddElement
<1>7. ASSUME NEW c \in Id, NEW n \in Name, ~(c = d /\ n = m)
      PROVE  Cardinality(RowsOf(c, n))' = Cardinality(RowsOf(c, n))
  <2>1. RowsOf(c, n)' = RowsOf(c, n) BY <1>5, <1>7 DEF RowsOf
  <2> QED BY <2>1
<1>8. ASSUME NEW k \in Job, Inserting(k, d), filed[d] # None PROVE k = j
  BY <1>0, <1>d, <1>8 DEF FiledInv, Inserting
<1>9. ASSUME NEW k \in Job, NEW l \in Job, NEW c \in Id, Inserting(k, c)', Inserting(l, c)', filed'[c] # None
      PROVE  k = l
  BY <1>3, <1>4, <1>9 DEF NoNewInsertion, FiledInv
<1>10. ASSUME NEW k \in Job, NEW c \in Id, NEW n \in Name, Inserting(k, c)', filed'[c] # None
       PROVE  Cardinality(RowsOf(c, n))' + work'[k].todo[n] <= filed'[c][n]
  <2>1. Inserting(k, c) /\ work'[k].todo[n] <= work[k].todo[n] BY <1>3, <1>10 DEF NoNewInsertion
  <2>2. Cardinality(RowsOf(c, n)) + work[k].todo[n] <= filed[c][n] BY <1>4, <1>10, <2>1 DEF FiledInv
  <2>3. work[k].todo[n] \in Nat /\ filed[c][n] \in Nat /\ Cardinality(RowsOf(c, n)) \in Nat
    BY <1>4, <1>10, Numbers
  <2>4. work'[k].todo[n] \in Nat BY TypedTodo DEF Names
  <2>5. CASE c = d /\ n = m
    <3>1. k = j BY <1>4, <1>8, <1>10, <2>1, <2>5
    <3> QED BY <1>2, <1>4, <1>6, <2>2, <2>3, <2>5, <3>1
  <2>6. CASE ~(c = d /\ n = m) BY <1>4, <1>7, <2>1, <2>2, <2>3, <2>4, <2>6
  <2> QED BY <2>5, <2>6
<1>11. ASSUME NEW c \in Id, NEW n \in Name, filed'[c] # None
       PROVE  Cardinality(RowsOf(c, n))' <= filed'[c][n]
  <2>1. CASE c = d /\ n = m
    <3>1. Inserting(j, d)' BY <1>1 DEF Inserting
    <3>2. Cardinality(RowsOf(d, m))' + work'[j].todo[m] <= filed'[d][m] BY <1>10, <1>11, <2>1, <3>1
    <3>3. filed'[d][m] \in Nat /\ Cardinality(RowsOf(d, m)) \in Nat BY <1>4, <1>11, <2>1, Numbers
    <3> QED BY <1>2, <1>6, <2>1, <3>2, <3>3
  <2>2. CASE ~(c = d /\ n = m)
    <3>1. Cardinality(RowsOf(c, n)) <= filed[c][n] BY <1>4, <1>11 DEF FiledInv, ListedAsFiled
    <3> QED BY <1>4, <1>7, <2>2, <3>1
  <2> QED BY <2>1, <2>2
<1> QED BY <1>9, <1>10, <1>11 DEF FiledInv, ListedAsFiled

LEMMA FiledUpload == ASSUME Typed, Typed', FiledInv, NEW j \in Job, Upload(j) PROVE FiledInv'
<1>0. Working /\ Listed /\ j \in Workers /\ work[j].todo \in Names BY AWorker DEF Typed, Workers
<1>1. ASSUME NEW a, NEW c, NEW T, NEW n, Does(j, a, c, T, n), a # "insert", RowsStay, UNCHANGED filed
      PROVE  FiledInv'
  BY <1>0, <1>1, NotInserting, FiledQuiet
<1>2. CASE AllInserted(j) /\ Does(j, "mark", work[j].cta, work[j].found, work[j].name)
  BY <1>0, <1>1, <1>2, UpdatesKeepNames DEF AllInserted
<1>3. ASSUME InsertFails(j), NEW T \in PartsOf(work[j].todo),
             Does(j, "insert", work[j].cta, T, work[j].name)
      PROVE  FiledInv'
  <2>1. \A n \in Name : T[n] <= work[j].todo[n] BY <1>0, <1>3, PartOf
  <2>2. NoNewInsertion BY <1>0, <1>3, <2>1, NotInserting DEF InsertFails
  <2> QED BY <1>0, <1>3, <2>2, FiledQuiet, UpdatesKeepNames DEF InsertFails
<1>4. CASE UploadEnds(j) /\ Rests(j)
  BY <1>0, <1>1, <1>4, UpdatesKeepNames DEF UploadEnds, Rests
<1>5. ASSUME NEW n \in In(work[j].todo), MarkOnline(j, n),
             Does(j, work[j].at, work[j].cta, Less(work[j].todo, n), work[j].name)
      PROVE  FiledInv'
  <2>1. RowsStay /\ work[j].at # "insert" /\ UNCHANGED filed
    BY <1>0, <1>5, UpdatesKeepNames DEF MarkOnline
  <2> QED BY <1>1, <1>5, <2>1
<1> QED BY <1>0, <1>2, <1>3, <1>4, <1>5, UploadWork, FiledDeleteList, FiledInsertName

LEMMA FiledStep == Typed /\ FiledInv /\ [Next]_vars => FiledInv'
<1> SUFFICES ASSUME Typed, FiledInv, [Next]_vars PROVE FiledInv' OBVIOUS
<1>0. Working /\ Job \subseteq Workers /\ Main \in Workers /\ Typed' BY TypedStep DEF Typed, Workers
<1>1. CASE \E j \in Job : Upload(j) BY <1>0, <1>1, FiledUpload
<1>2. CASE ~\E j \in Job : Upload(j)
  <2>1. RowsStay BY <1>2, RowsOfSteps DEF Upload
  <2>2. ASSUME NoNewInsertion, UNCHANGED filed PROVE FiledInv' BY <1>0, <2>1, <2>2, FiledQuiet
  <2>3. ASSUME UNCHANGED work PROVE NoNewInsertion
    <3>1. \A j \in Job, n \in Name, c \in Id : work[j].todo[n] \in Nat BY Numbers
    <3>2. \A j \in Job, n \in Name, c \in Id : work'[j].todo[n] <= work[j].todo[n] BY <2>3, <3>1
    <3> QED BY <2>3, <3>2 DEF NoNewInsertion, Inserting
  <2>4. CASE Command
    <3>1. ASSUME NEW g \in Guild, NEW j \in Job, StartUpload(g, j) \/ StartCheck(g, j)
          PROVE  NoNewInsertion
      BY <1>0, <3>1, FreshWork, NotInserting
    <3>2. ASSUME NEW g \in Guild, NEW p \in Party, StartParty(g, p) PROVE NoNewInsertion
      BY <1>0, <3>2, FreshWork, NotInserting
    <3> QED BY <2>2, <2>3, <2>4, <3>1, <3>2
            DEF Command, LateRegister, PartyAdd, PartyRemove, StartUpload, StartCheck, StartParty
  <2>5. ASSUME NEW w \in Workers, Judge(w) PROVE FiledInv'
    <3>1. NoNewInsertion BY <1>0, <2>5, JudgeWork, NotInserting DEF Moves
    <3> QED BY <2>2, <2>5, <3>1 DEF Judge, NextName, ReadStatus, ReadParty, ReadPartyAgain, WriteStatus
  <2>6. CASE PartyUpload
    <3>1. NoNewInsertion BY <1>0, <2>6, PartyWork, NotInserting DEF Moves, Rests
    <3> QED BY <2>2, <2>6, <3>1 DEF PartyUpload, AllRecognised, ClearParty, PartyEnds, AddToParty
  <2>7. ASSUME NEW w \in Workers, ListAbsentees(w) \/ CheckEnds(w) \/ FailsSilently(w) \/ Fails(w)
        PROVE  FiledInv'
    <3>1. NoNewInsertion BY <1>0, <2>7, OtherWork, NotInserting DEF Rests
    <3> QED BY <2>2, <2>7, <3>1 DEF ListAbsentees, CheckEnds, FailsSilently, Fails
  <2>8. CASE ListNext BY <1>2, <2>4, <2>5, <2>6, <2>7, <2>8 DEF ListNext, Workers
  <2>9. CASE Restart
    <3>1. NoNewInsertion BY <2>9 DEF Restart, NoNewInsertion, Inserting, Rest
    <3> QED BY <2>2, <2>9, <3>1 DEF Restart
  <2>10. CASE CTANext BY <2>2, <2>3, <2>9, <2>10 DEF CTANext, DeleteUsers, listVars
  <2> QED BY <2>2, <2>3, <2>8, <2>10 DEF Next, vars
<1> QED BY <1>1, <1>2

(* A list holds a name no more often than the file it comes from, unless   *)
(* two uploads have written to it together: the deletion that opens each   *)
(* upload, not a key of the table, is what clears the rows of uploads that *)
(* failed or were cut off.                                                 *)
THEOREM ListsAsFiled == Spec => []ListedAsFiled
<1>1. Init => FiledInv
  <2> SUFFICES ASSUME Init PROVE FiledInv OBVIOUS
  <2>1. \A j \in Job, c \in Id : ~Inserting(j, c) BY DEF Init, Inserting, Rest
  <2>2. ASSUME NEW c \in Id, NEW n \in Name PROVE Cardinality(RowsOf(c, n)) <= filed[c][n]
    <3>1. RowsOf(c, n) = {} /\ filed[c][n] = 0 BY DEF Init, RowsOf, IsRow, Nobody
    <3> QED BY <3>1, FS_EmptySet
  <2> QED BY <2>1, <2>2 DEF FiledInv, ListedAsFiled
<1>2. FiledInv => ListedAsFiled BY DEF FiledInv
<1> QED BY <1>1, <1>2, FiledStep, AlwaysTyped, PTL DEF Spec

-----------------------------------------------------------------------------
(* Marks stay.                                                             *)

Good == {"present", "late"}

(* The inductive invariant: a marked player has a good status, and no      *)
(* callback is about to overwrite it.                                      *)
MarksInv ==
  /\ \A r \in RowId, c \in Id, n \in Name :
       IsRow(r, c, n) /\ <<c, n>> \in marked => users[r].status \in Good
  /\ \A j \in Job, c \in Id, n \in Name : Holds(j, c, n) => <<c, n>> \notin marked

(* What a step does to marked rows, and to what callbacks hold.            *)
RowsMarked ==
  \A r \in RowId, c \in Id, n \in Name :
    IsRow(r, c, n)' /\ <<c, n>> \in marked'
      => \/ users'[r].status \in Good
         \/ IsRow(r, c, n) /\ users'[r].status = users[r].status /\ <<c, n>> \in marked

HeldBefore ==
  \A j \in Job, c \in Id, n \in Name :
    Holds(j, c, n)' /\ <<c, n>> \in marked' => Holds(j, c, n) /\ <<c, n>> \in marked

LEMMA MarksQuiet == MarksInv /\ RowsMarked /\ HeldBefore => MarksInv'
BY DEF MarksInv, RowsMarked, HeldBefore

LEMMA MarkedRows ==
  ASSUME Listed, NEW c \in Id, NEW n \in Name, NEW s \in Status, NEW p \in Party \cup {None}
  PROVE  /\ users' = users /\ marked' \subseteq marked => RowsMarked
         /\ users' = Without(c) /\ marked' \subseteq marked => RowsMarked
         /\ users' = Update(c, n, s, p) /\ s \in Good /\ marked' \subseteq marked \cup {<<c, n>>} => RowsMarked
         /\ users' = UpdateStatus(c, n, s) /\ <<c, n>> \notin marked' /\ marked' \subseteq marked => RowsMarked
<1>0. \A r \in RowId : users[r] # NoUser => users[r] \in User BY DEF Listed
<1>1. ASSUME users' = users, marked' \subseteq marked PROVE RowsMarked
  BY <1>1 DEF RowsMarked, IsRow
<1>2. ASSUME users' = Without(c), marked' \subseteq marked PROVE RowsMarked
  BY <1>2 DEF RowsMarked, IsRow, Without
<1>3. ASSUME NEW u \in User
      PROVE  /\ [u EXCEPT !.status = s, !.party = p].cta = u.cta
             /\ [u EXCEPT !.status = s, !.party = p].name = u.name
             /\ [u EXCEPT !.status = s, !.party = p].status = s
             /\ [u EXCEPT !.status = s].cta = u.cta
             /\ [u EXCEPT !.status = s].name = u.name
  BY DEF User
<1>4. ASSUME users' = Update(c, n, s, p), s \in Good, marked' \subseteq marked \cup {<<c, n>>} PROVE RowsMarked
  <2> SUFFICES ASSUME NEW r \in RowId, NEW d \in Id, NEW m \in Name, IsRow(r, d, m)', <<d, m>> \in marked'
               PROVE  \/ users'[r].status \in Good
                      \/ IsRow(r, d, m) /\ users'[r].status = users[r].status /\ <<d, m>> \in marked
    BY DEF RowsMarked
  <2>1. CASE IsRow(r, c, n) BY <1>0, <1>3, <1>4, <2>1 DEF Update, IsRow
  <2>2. CASE ~IsRow(r, c, n)
    <3>1. users'[r] = users[r] BY <1>4, <2>2 DEF Update
    <3>2. IsRow(r, d, m) BY <3>1 DEF IsRow
    <3>3. <<d, m>> # <<c, n>> BY <2>2, <3>2
    <3> QED BY <1>4, <3>1, <3>2, <3>3
  <2> QED BY <2>1, <2>2
<1>5. ASSUME users' = UpdateStatus(c, n, s), <<c, n>> \notin marked', marked' \subseteq marked PROVE RowsMarked
  <2> SUFFICES ASSUME NEW r \in RowId, NEW d \in Id, NEW m \in Name, IsRow(r, d, m)', <<d, m>> \in marked'
               PROVE  IsRow(r, d, m) /\ users'[r].status = users[r].status /\ <<d, m>> \in marked
    BY DEF RowsMarked
  <2>1. CASE IsRow(r, c, n)
    <3>1. d = c /\ m = n BY <1>0, <1>3, <1>5, <2>1 DEF UpdateStatus, IsRow
    <3> QED BY <1>5, <3>1
  <2>2. CASE ~IsRow(r, c, n)
    <3>1. users'[r] = users[r] BY <1>5, <2>2 DEF UpdateStatus
    <3> QED BY <1>5, <3>1 DEF IsRow
  <2> QED BY <2>1, <2>2
<1> QED BY <1>1, <1>2, <1>4, <1>5

(* A worker that goes on with what it holds, or lets go of it. *)
LEMMA HeldLess ==
  ASSUME NEW w \in Workers, NEW a, NEW c, NEW T, NEW n, Does(w, a, c, T, n), marked' \subseteq marked,
         \/ w = Main
         \/ a \notin {"insert", "mark"} \cup Judging
         \/ c = work[w].cta /\ work[w].at \in {"insert", "mark"} /\ a \in {"insert", "mark"}
         \/ /\ c = work[w].cta /\ work[w].at \in Judging /\ a \in Judging
            /\ In(T) \cup {n} \subseteq In(work[w].todo) \cup {work[w].name, None}
  PROVE  HeldBefore
<1> SUFFICES ASSUME NEW j \in Job, NEW d \in Id, NEW m \in Name, Holds(j, d, m)', <<d, m>> \in marked'
             PROVE  Holds(j, d, m) /\ <<d, m>> \in marked
  BY DEF HeldBefore
<1>1. CASE j # w BY <1>1 DEF Does, Holds, Workers
<1>2. CASE j = w
  <2>1. w # Main /\ m # None BY <1>2, AttendanceAssumption
  <2>2. /\ d = c /\ a \in {"insert", "mark"} \cup Judging
        /\ a \in {"insert", "mark"} \/ m \in In(T) \cup {n}
    BY <1>2 DEF Does, Holds
  <2>3. a \in {"insert", "mark"} => a \notin Judging BY DEF Judging
  <2> QED BY <1>2, <2>1, <2>2, <2>3 DEF Holds
<1> QED BY <1>1, <1>2

LEMMA MarkedFacts ==
  ASSUME Listed, MarksInv, NEW c \in Id, NEW n \in Name, marked' = Marked(c, n),
         UNCHANGED work \/ \E a, d, T, m : Does(Main, a, d, T, m)
  PROVE  marked' \subseteq marked \cup {<<c, n>>} /\ HeldBefore
<1>1. marked' \subseteq marked \cup {<<c, n>>} BY DEF Marked
<1>2. \A j \in Job : work'[j] = work[j] BY AttendanceAssumption DEF Does, Workers
<1>3. ASSUME NEW j \in Job, NEW d \in Id, NEW m \in Name, Holds(j, d, m)', <<d, m>> \in marked'
      PROVE  FALSE
  <2>1. Holds(j, d, m) BY <1>2, <1>3 DEF Holds
  <2>2. <<d, m>> \notin marked BY <2>1 DEF MarksInv
  <2>3. <<d, m>> = <<c, n>> /\ \A k \in Job : ~Holds(k, c, n) BY <1>3, <2>2 DEF Marked
  <2>4. d = c /\ m = n BY <2>3
  <2> QED BY <2>1, <2>3, <2>4
<1> QED BY <1>1, <1>3 DEF HeldBefore

LEMMA MarksCommand == Typed /\ MarksInv /\ Command => MarksInv'
<1> SUFFICES ASSUME Typed, MarksInv, NEW g \in Guild,
      \/ \E n \in Name : LateRegister(g, n) \/ \E p \in Party : PartyAdd(g, n, p) \/ PartyRemove(g, n, p)
      \/ \E j \in Job : StartUpload(g, j) \/ StartCheck(g, j)
      \/ \E p \in Party : StartParty(g, p)
      PROVE MarksInv'
  BY DEF Command
<1>0. /\ Working /\ Listed /\ C!ActiveIn(g) \subseteq Id /\ Job \subseteq Workers /\ Main \in Workers
      /\ "present" \in Status \cap Good /\ "late" \in Status \cap Good
  BY DEF C!ActiveIn, Typed, Workers, Status, Good
<1>1. ASSUME NEW n \in Name, LateRegister(g, n) PROVE MarksInv'
  <2>1. PICK c \in Id : users' = Update(c, n, "late", None) /\ marked' = Marked(c, n)
    BY <1>0, <1>1 DEF LateRegister
  <2>2. marked' \subseteq marked \cup {<<c, n>>} /\ HeldBefore
    BY <1>0, <1>1, <2>1, MarkedFacts DEF LateRegister
  <2>3. RowsMarked BY <1>0, <2>1, <2>2, MarkedRows
  <2> QED BY <2>2, <2>3, MarksQuiet
<1>2. ASSUME NEW n \in Name, NEW p \in Party, PartyAdd(g, n, p) PROVE MarksInv'
  <2>1. PICK c \in Id : users' = Update(c, n, "present", p) /\ marked' = Marked(c, n)
    BY <1>0, <1>2 DEF PartyAdd
  <2>2. marked' \subseteq marked \cup {<<c, n>>} /\ HeldBefore
    BY <1>0, <1>2, <2>1, MarkedFacts DEF PartyAdd
  <2>3. RowsMarked BY <1>0, <2>1, <2>2, MarkedRows
  <2> QED BY <2>2, <2>3, MarksQuiet
<1>3. ASSUME NEW n \in Name, NEW p \in Party, PartyRemove(g, n, p) PROVE MarksInv'
  <2>1. PICK c \in Id :
          /\ users' = [r \in RowId |->
                         IF IsRow(r, c, n) /\ users[r].party = p
                           THEN [users[r] EXCEPT !.status = "absent", !.party = None] ELSE users[r]]
          /\ marked' = marked \ {<<c, n>>}
    BY <1>0, <1>3 DEF PartyRemove
  <2>2. ASSUME NEW u \in User
        PROVE  /\ [u EXCEPT !.status = "absent", !.party = None].cta = u.cta
               /\ [u EXCEPT !.status = "absent", !.party = None].name = u.name
    BY DEF User
  <2>3. ASSUME NEW r \in RowId, NEW d \in Id, NEW m \in Name, IsRow(r, d, m)', <<d, m>> \in marked'
        PROVE  IsRow(r, d, m) /\ users'[r].status = users[r].status /\ <<d, m>> \in marked
    <3>1. CASE IsRow(r, c, n) /\ users[r].party = p
      <4>1. users[r] \in User BY <1>0, <3>1 DEF IsRow, Listed
      <4>2. d = c /\ m = n BY <2>1, <2>2, <2>3, <3>1, <4>1 DEF IsRow
      <4> QED BY <2>1, <2>3, <4>2
    <3>2. CASE ~(IsRow(r, c, n) /\ users[r].party = p)
      <4>1. users'[r] = users[r] BY <2>1, <3>2
      <4>2. IsRow(r, d, m) BY <2>3, <4>1 DEF IsRow
      <4> QED BY <2>1, <2>3, <4>1, <4>2
    <3> QED BY <3>1, <3>2
  <2>4. RowsMarked BY <2>3 DEF RowsMarked
  <2>5. HeldBefore BY <1>3, <2>1 DEF PartyRemove, HeldBefore, Holds
  <2> QED BY <2>4, <2>5, MarksQuiet
<1>4. ASSUME UNCHANGED <<users, marked>> PROVE RowsMarked BY <1>4 DEF RowsMarked, IsRow
<1>5. ASSUME NEW j \in Job, StartUpload(g, j) \/ StartCheck(g, j) PROVE MarksInv'
  <2>1. UNCHANGED <<users, marked>> BY <1>5 DEF StartUpload, StartCheck
  <2>2. PICK a \in {"download", "fetch"}, c \in Id : Does(j, a, c, Nobody, None)
    BY <1>0, <1>5, FreshWork
  <2>3. HeldBefore BY <1>0, <2>1, <2>2, HeldLess DEF Judging
  <2> QED BY <1>4, <2>1, <2>3, MarksQuiet
<1>6. ASSUME NEW p \in Party, StartParty(g, p) PROVE MarksInv'
  <2>1. UNCHANGED <<users, marked>> BY <1>6 DEF StartParty
  <2>2. PICK c \in Id, T \in Names : Does(Main, "next", c, T, None) BY <1>0, <1>6, FreshWork
  <2>3. HeldBefore BY <1>0, <2>1, <2>2, HeldLess
  <2> QED BY <1>4, <2>1, <2>3, MarksQuiet
<1> QED BY <1>1, <1>2, <1>3, <1>5, <1>6

LEMMA MarksUpload == ASSUME Typed, MarksInv, NEW j \in Job, Upload(j) PROVE MarksInv'
<1> DEFINE d == work[j].cta
<1>0. /\ Working /\ Listed /\ j \in Workers /\ work[j].todo \in Names
      /\ work[j].at # "idle" => d \in Id
  BY AWorker DEF Typed, Workers
<1>1. ASSUME UNCHANGED <<users, marked>> PROVE RowsMarked BY <1>1 DEF RowsMarked, IsRow
<1>2. CASE UploadEnds(j) /\ Rests(j)
  <2>1. UNCHANGED <<users, marked>> BY <1>2 DEF UploadEnds
  <2>2. HeldBefore BY <1>0, <1>2, <2>1, HeldLess DEF Rests, Judging
  <2> QED BY <1>1, <2>1, <2>2, MarksQuiet
<1>3. ASSUME NEW f \in File, DeleteList(j, f), Does(j, "insert", d, f.names, work[j].name)
      PROVE  MarksInv'
  <2>1. d \in Id /\ users' = Without(d) /\ marked' = {m \in marked : m[1] # d}
    BY <1>0, <1>3 DEF DeleteList
  <2>2. RowsMarked BY <2>1 DEF RowsMarked, IsRow, Without
  <2>3. ASSUME NEW k \in Job, NEW c \in Id, NEW n \in Name, Holds(k, c, n)', <<c, n>> \in marked'
        PROVE  Holds(k, c, n) /\ <<c, n>> \in marked
    <3>1. c # d /\ <<c, n>> \in marked BY <2>1, <2>3
    <3>2. k # j BY <1>3, <2>3, <3>1 DEF Does, Holds
    <3>3. work'[k] = work[k] BY <1>3, <3>2 DEF Does, Workers
    <3> QED BY <2>3, <3>1, <3>3 DEF Holds
  <2> QED BY <2>2, <2>3, MarksQuiet DEF HeldBefore
<1>4. CASE AllInserted(j) /\ Does(j, "mark", work[j].cta, work[j].found, work[j].name)
  <2>1. UNCHANGED <<users, marked>> /\ work[j].at = "insert" BY <1>4 DEF AllInserted
  <2>2. HeldBefore BY <1>0, <1>4, <2>1, HeldLess
  <2> QED BY <1>1, <2>1, <2>2, MarksQuiet
<1>5. ASSUME InsertFails(j), NEW T \in PartsOf(work[j].todo), Does(j, "insert", d, T, work[j].name)
      PROVE  MarksInv'
  <2>1. UNCHANGED <<users, marked>> /\ work[j].at = "insert" BY <1>5 DEF InsertFails
  <2>2. HeldBefore BY <1>0, <1>5, <2>1, HeldLess
  <2> QED BY <1>1, <2>1, <2>2, MarksQuiet
<1>6. ASSUME NEW n \in In(work[j].todo), MarkOnline(j, n),
             Does(j, work[j].at, work[j].cta, Less(work[j].todo, n), work[j].name)
      PROVE  MarksInv'
  <2>1. /\ work[j].at = "mark" /\ d \in Id /\ n \in Name /\ users' = UpdateStatus(d, n, "absent")
        /\ marked' = marked /\ Holds(j, d, n)
    BY <1>0, <1>6 DEF MarkOnline, Holds, In
  <2>2. <<d, n>> \notin marked BY <2>1 DEF MarksInv
  <2>3. "absent" \in Status /\ None \in Party \cup {None} BY DEF Status
  <2>4. RowsMarked BY <1>0, <2>1, <2>2, <2>3, MarkedRows
  <2>5. HeldBefore BY <1>0, <1>6, <2>1, HeldLess
  <2> QED BY <2>4, <2>5, MarksQuiet
<1>7. ASSUME NEW n \in In(work[j].todo), NEW r \in RowId, InsertName(j, n, r),
             Does(j, work[j].at, work[j].cta, Less(work[j].todo, n), work[j].name)
      PROVE  MarksInv'
  <2>1. /\ work[j].at = "insert" /\ d \in Id /\ n \in Name /\ marked' = marked /\ Holds(j, d, n)
        /\ users' = [users EXCEPT ![r] = [cta |-> d, name |-> n, status |-> "offline", party |-> None]]
    BY <1>0, <1>7 DEF InsertName, Holds, In
  <2>2. <<d, n>> \notin marked BY <2>1 DEF MarksInv
  <2>3. ASSUME NEW q \in RowId, NEW c \in Id, NEW m \in Name, IsRow(q, c, m)', <<c, m>> \in marked'
        PROVE  IsRow(q, c, m) /\ users'[q].status = users[q].status /\ <<c, m>> \in marked
    <3>1. CASE q = r
      <4>0. users'[q] = [cta |-> d, name |-> n, status |-> "offline", party |-> None]
        BY <1>0, <2>1, <3>1 DEF Listed
      <4>1. c = d /\ m = n BY <2>3, <4>0 DEF IsRow
      <4> QED BY <2>1, <2>2, <2>3, <4>1
    <3>2. CASE q # r
      <4>1. users'[q] = users[q] BY <1>0, <2>1, <3>2 DEF Listed
      <4> QED BY <2>1, <2>3, <4>1 DEF IsRow
    <3> QED BY <3>1, <3>2
  <2>4. HeldBefore BY <1>0, <1>7, <2>1, HeldLess
  <2> QED BY <2>3, <2>4, MarksQuiet DEF RowsMarked
<1> QED BY <1>0, <1>2, <1>3, <1>4, <1>5, <1>6, <1>7, UploadWork

LEMMA MarksJudge == ASSUME Typed, MarksInv, NEW w \in Workers, Judge(w) PROVE MarksInv'
<1>0. /\ Working /\ Listed
      /\ work[w].at # "idle" => work[w].cta \in Id
      /\ work[w].at \in {"status", "party", "again", "write"} => work[w].name \in Name
      /\ work[w].todo \in Names
  BY AWorker DEF Typed
<1>1. ASSUME UNCHANGED <<users, marked>> PROVE RowsMarked BY <1>1 DEF RowsMarked, IsRow
<1>2. ASSUME NEW n \in In(work[w].todo), NextName(w, n),
             \/ Does(w, "status", work[w].cta, Less(work[w].todo, n), n)
             \/ w = Main /\ Does(w, "next", work[w].cta, Less(work[w].todo, n), None)
      PROVE  MarksInv'
  <2>1. UNCHANGED <<users, marked>> /\ work[w].at = "next" BY <1>2 DEF NextName
  <2>2. In(Less(work[w].todo, n)) \subseteq In(work[w].todo) BY <1>0, <1>2, LessOf
  <2>3. HeldBefore BY <1>2, <2>1, <2>2, HeldLess DEF Judging
  <2> QED BY <1>1, <2>1, <2>3, MarksQuiet
<1>3. CASE /\ ReadStatus(w) \/ ReadParty(w) \/ ReadPartyAgain(w)
           /\ Moves(w, "party") \/ Moves(w, "write") \/ Moves(w, "again")
  <2>1. UNCHANGED <<users, marked>> /\ work[w].at \in {"status", "party", "again"}
    BY <1>3 DEF ReadStatus, ReadParty, ReadPartyAgain
  <2>2. HeldBefore BY <1>3, <2>1, HeldLess DEF Judging, Moves
  <2> QED BY <1>1, <2>1, <2>2, MarksQuiet
<1>4. CASE WriteStatus(w) /\ Does(w, "next", work[w].cta, work[w].todo, None)
  <2> DEFINE d == work[w].cta  n == work[w].name
  <2>1. /\ work[w].at = "write" /\ d \in Id /\ n \in Name
        /\ users' = UpdateStatus(d, n, work[w].status) /\ marked' \subseteq marked
    BY <1>0, <1>4 DEF WriteStatus
  <2>2. <<d, n>> \notin marked'
    <3>1. CASE w = Main BY <1>4, <3>1 DEF WriteStatus
    <3>2. CASE w # Main
      <4>1. w \in Job /\ Holds(w, d, n) BY <2>1, <3>2 DEF Workers, Holds, Judging
      <4> QED BY <2>1, <4>1 DEF MarksInv
    <3> QED BY <3>1, <3>2
  <2>3. work[w].status \in Status /\ None \in Party \cup {None} BY <1>0, AWorker, WorkFields
  <2>4. RowsMarked BY <1>0, <2>1, <2>2, <2>3, MarkedRows
  <2>5. HeldBefore BY <1>4, <2>1, HeldLess DEF Judging
  <2> QED BY <2>4, <2>5, MarksQuiet
<1> QED BY <1>0, <1>2, <1>3, <1>4, JudgeWork

LEMMA MarksParty == Typed /\ MarksInv /\ PartyUpload => MarksInv'
<1> SUFFICES ASSUME Typed, MarksInv, PartyUpload PROVE MarksInv' OBVIOUS
<1>0. /\ Working /\ Listed /\ Main \in Workers /\ work[Main].todo \in Names
      /\ work[Main].at # "idle" => work[Main].cta \in Id
      /\ work[Main].party \in Party \cup {None}
  BY AWorker, WorkFields DEF Typed, Workers
<1>1. CASE AllRecognised \/ PartyEnds
  <2>1. RowsMarked BY <1>1 DEF AllRecognised, PartyEnds, RowsMarked, IsRow
  <2>2. marked' = marked BY <1>1 DEF AllRecognised, PartyEnds
  <2>3. PICK x : work' = [work EXCEPT ![Main] = x] BY <1>1 DEF AllRecognised, PartyEnds
  <2>4. \A j \in Job : work'[j] = work[j] BY <1>0, <2>3, AttendanceAssumption DEF Working, Workers
  <2>5. HeldBefore BY <2>2, <2>4 DEF HeldBefore, Holds
  <2> QED BY <2>1, <2>5, MarksQuiet
<1>2. CASE ClearParty /\ Does(Main, "add", work[Main].cta, work[Main].found, work[Main].name)
  <2>1. ASSUME NEW u \in User
        PROVE  /\ [u EXCEPT !.party = None].cta = u.cta /\ [u EXCEPT !.party = None].name = u.name
               /\ [u EXCEPT !.party = None].status = u.status /\ u # NoUser
    BY DEF User, NoUser
  <2>2. RowsMarked BY <1>0, <1>2, <2>1 DEF ClearParty, RowsMarked, IsRow, Listed
  <2>3. marked' = marked BY <1>2 DEF ClearParty
  <2>4. HeldBefore BY <1>0, <1>2, <2>3, HeldLess
  <2> QED BY <2>2, <2>4, MarksQuiet
<1>3. ASSUME NEW n \in In(work[Main].todo), AddToParty(n),
             Does(Main, "add", work[Main].cta, Less(work[Main].todo, n), work[Main].name)
      PROVE  MarksInv'
  <2> DEFINE d == work[Main].cta
  <2>1. /\ d \in Id /\ n \in Name /\ users' = Update(d, n, "present", work[Main].party)
        /\ marked' = Marked(d, n)
    BY <1>0, <1>3 DEF AddToParty, In
  <2>2. marked' \subseteq marked \cup {<<d, n>>} /\ HeldBefore
    BY <1>0, <1>3, <2>1, MarkedFacts
  <2>3. "present" \in Status /\ "present" \in Good BY DEF Status, Good
  <2>4. RowsMarked BY <1>0, <2>1, <2>2, <2>3, MarkedRows
  <2> QED BY <2>2, <2>4, MarksQuiet
<1> QED BY <1>0, <1>1, <1>2, <1>3, PartyWork

LEMMA MarksOther ==
  ASSUME Typed, MarksInv, NEW w \in Workers,
         (w \in Job /\ ListAbsentees(w)) \/ CheckEnds(w) \/ FailsSilently(w) \/ Fails(w)
  PROVE  MarksInv'
<1>0. Working /\ Listed BY DEF Typed
<1>1. UNCHANGED <<users, marked>> BY DEF ListAbsentees, CheckEnds, FailsSilently, Fails
<1>2. RowsMarked BY <1>1 DEF RowsMarked, IsRow
<1>3. CASE ListAbsentees(w)
  <2>1. Does(w, "next", work[w].cta, Absentees(work[w].cta), None) BY <1>0, <1>3, OtherWork
  <2> SUFFICES ASSUME NEW j \in Job, NEW c \in Id, NEW n \in Name, Holds(j, c, n)', <<c, n>> \in marked
               PROVE  Holds(j, c, n)
    BY <1>1, <1>2, MarksQuiet DEF HeldBefore
  <2>2. CASE j = w
    <3>1. c = work[w].cta /\ n \in In(Absentees(c))
      BY <2>1, <2>2, AttendanceAssumption DEF Does, Holds
    <3>2. PICK r \in RowId : IsRow(r, c, n) /\ users[r].status = "absent"
      BY <3>1, AbsenteesIn
    <3> QED BY <3>2 DEF MarksInv, Good
  <2>3. CASE j # w BY <2>1, <2>3 DEF Does, Holds, Workers
  <2> QED BY <2>2, <2>3
<1>4. CASE CheckEnds(w) \/ Fails(w)
  <2>1. Rests(w) BY <1>0, <1>4, OtherWork
  <2>2. HeldBefore BY <1>1, <2>1, HeldLess DEF Rests, Judging
  <2> QED BY <1>2, <2>2, MarksQuiet
<1>5. CASE FailsSilently(w)
  <2>1. \/ work[w].at = "write" /\ Does(w, "next", work[w].cta, work[w].todo, None)
        \/ \E n \in In(work[w].todo) :
             /\ work[w].at \in {"mark", "add"}
             /\ Does(w, work[w].at, work[w].cta, Less(work[w].todo, n), work[w].name)
    BY <1>0, <1>5, OtherWork
  <2>2. HeldBefore BY <1>1, <2>1, HeldLess DEF Judging
  <2> QED BY <1>2, <2>2, MarksQuiet
<1> QED BY <1>3, <1>4, <1>5

LEMMA MarksStep == Typed /\ MarksInv /\ [Next]_vars => MarksInv'
<1> SUFFICES ASSUME Typed, MarksInv, [Next]_vars PROVE MarksInv' OBVIOUS
<1>1. CASE ListNext
  BY <1>1, MarksCommand, MarksUpload, MarksJudge, MarksParty, MarksOther DEF ListNext, Workers
<1>2. CASE DeleteUsers
  <2>1. RowsMarked BY <1>2 DEF DeleteUsers, Without, RowsMarked, IsRow
  <2>2. HeldBefore BY <1>2 DEF DeleteUsers, HeldBefore, Holds
  <2> QED BY <2>1, <2>2, MarksQuiet
<1>3. CASE Restart
  <2>1. RowsMarked BY <1>3 DEF Restart, RowsMarked, IsRow
  <2>2. HeldBefore BY <1>3 DEF Restart, HeldBefore, Holds, Rest, Judging
  <2> QED BY <2>1, <2>2, MarksQuiet
<1>4. CASE UNCHANGED listVars BY <1>4 DEF listVars, MarksInv, IsRow, Holds
<1>5. CASE CTANext BY <1>2, <1>3, <1>4, <1>5 DEF CTANext
<1> QED BY <1>1, <1>4, <1>5 DEF Next, vars, listVars

(* A player marked as present or late keeps that status unless a callback  *)
(* had looked at him before: of the writers that change a status in two    *)
(* steps, none that starts after the mark can lose it.                     *)
THEOREM MarksKept == Spec => []MarksStay
<1>1. Init => MarksInv BY DEF Init, MarksInv, IsRow
<1>2. Typed /\ MarksInv => MarksStay
  <2> SUFFICES ASSUME Typed, MarksInv, NEW r \in RowId, users[r] # NoUser,
                      <<users[r].cta, users[r].name>> \in marked
               PROVE  users[r].status \in {"present", "late"}
    BY DEF MarksStay
  <2>1. users[r].cta \in Id /\ users[r].name \in Name BY DEF Typed, Listed, User
  <2> QED BY <2>1 DEF MarksInv, IsRow, Good
<1> QED BY <1>1, <1>2, MarksStep, AlwaysTyped, PTL DEF Spec

-----------------------------------------------------------------------------
(* Cancelled CTAs.                                                         *)

(* The inductive invariant: a CTA is settled only after its row is gone,   *)
(* and neither rows nor uploads of it are left.                            *)
SettledInv ==
  /\ \A c \in settled : cta[c].status = "deleted"
  /\ thread.at = "users" => cta[thread.cta].status = "deleted"
  /\ \A j \in Job : work[j].at \in Uploading => work[j].cta \notin settled
  /\ CancelledIsGone

(* The status of a deleted row is for ever. *)
LEMMA DeletedStays ==
  ASSUME CTATyped, NEW c \in Id, cta[c].status = "deleted", C!Next
  PROVE  cta'[c].status = "deleted"
<1>1. cta[c] \in CTARow BY DEF CTATyped, C!NoRow
<1>2. ASSUME NEW g \in Guild, NEW d \in Id, NEW e \in 0..(Horizon - 1), C!Start(g, d, e)
      PROVE  cta'[c].status = "deleted"
  <2>1. d # c BY <1>1, <1>2 DEF C!Start, C!NoRow, CTARow
  <2> QED BY <1>2, <2>1 DEF C!Start, CTATyped
<1>3. ASSUME NEW g \in Guild, C!Cancel(g) \/ C!Delete(g) PROVE cta'[c].status = "deleted"
  BY <1>3 DEF C!Cancel, C!Delete, C!ActiveIn, C!Active, CTATyped
<1>4. CASE C!SetEnd
  <2>1. cta' = [cta EXCEPT ![thread.cta] = [cta[thread.cta] EXCEPT !.end = now]] BY <1>4 DEF C!SetEnd
  <2>2. [cta[c] EXCEPT !.end = now].status = "deleted" BY <1>1 DEF CTARow
  <2> QED BY <2>1, <2>2 DEF CTATyped
<1>5. CASE C!Finish
  <2>1. CASE C!Exists(checker.cta)
    <3>1. cta' = [cta EXCEPT ![checker.cta] = [cta[checker.cta] EXCEPT !.status = "finished"]]
          /\ checker.cta # c
      BY <1>5, <2>1 DEF C!Finish, C!Exists
    <3> QED BY <3>1 DEF CTATyped
  <2> QED BY <1>5, <2>1 DEF C!Finish
<1>6. CASE UNCHANGED cta BY <1>6
<1> QED BY <1>2, <1>3, <1>4, <1>5, <1>6
        DEF C!Next, C!Command, C!SecondStatement, C!Tick, C!DeleteUsers, C!CommandFails, C!Round,
            C!ListActive, C!ReadEnd, C!Announce, C!AnnounceNowhere, C!AllTold, C!RoundDone, C!TaskFails,
            C!Restart


(* Apart from insertions, rows only go; apart from new uploads, so does    *)
(* the work on a CTA.                                                      *)
UploadsBefore ==
  \A j \in Job : work'[j].at \in Uploading => work[j].at \in Uploading /\ work'[j].cta = work[j].cta

LEMMA SettledQuiet ==
  Typed /\ SettledInv /\ Listed' /\ RowsStay /\ UploadsBefore /\ UNCHANGED <<cta, thread, settled>>
    => SettledInv'
<1> SUFFICES ASSUME Typed, SettledInv, Listed', RowsStay, UploadsBefore, UNCHANGED <<cta, thread, settled>>
             PROVE  SettledInv'
  OBVIOUS
<1>1. ASSUME NEW r \in RowId, users'[r] # NoUser PROVE users'[r].cta \notin settled
  <2>1. users'[r].cta \in Id /\ users'[r].name \in Name BY <1>1 DEF Listed, User
  <2>2. \A c \in Id, n \in Name : c = users'[r].cta /\ n = users'[r].name => IsRow(r, c, n)'
    BY <1>1 DEF IsRow
  <2>3. \E c \in Id, n \in Name : c = users'[r].cta /\ IsRow(r, c, n) BY <2>1, <2>2 DEF RowsStay
  <2> QED BY <2>3 DEF IsRow, SettledInv, CancelledIsGone
<1> QED BY <1>1 DEF SettledInv, UploadsBefore, CancelledIsGone

LEMMA UploadsOnly ==
  ASSUME NEW w \in Workers, NEW a, NEW c, NEW T, NEW n, Does(w, a, c, T, n),
         a \notin Uploading \/ w = Main \/ (work[w].at \in Uploading /\ c = work[w].cta)
  PROVE  UploadsBefore
BY AttendanceAssumption DEF Does, UploadsBefore, Workers

LEMMA UploadsOfSteps ==
  Typed /\ [Next]_vars => UploadsBefore \/ \E g \in Guild, j \in Job : StartUpload(g, j)
<1> SUFFICES ASSUME Typed, [Next]_vars, \A g \in Guild, j \in Job : ~StartUpload(g, j) PROVE UploadsBefore
  OBVIOUS
<1>0. Working /\ Job \subseteq Workers /\ Main \in Workers BY DEF Typed, Workers
<1>1. UNCHANGED work => UploadsBefore BY DEF UploadsBefore
<1>2. CASE Command
  <2>1. ASSUME NEW g \in Guild, NEW j \in Job, StartCheck(g, j) PROVE UploadsBefore
    BY <1>0, <2>1, FreshWork, UploadsOnly DEF Uploading
  <2>2. ASSUME NEW g \in Guild, NEW p \in Party, StartParty(g, p) PROVE UploadsBefore
    BY <1>0, <2>2, FreshWork, UploadsOnly
  <2> QED BY <1>1, <1>2, <2>1, <2>2 DEF Command, LateRegister, PartyAdd, PartyRemove
<1>3. ASSUME NEW j \in Job, Upload(j) PROVE UploadsBefore
  <2>1. ASSUME NEW a, NEW T, NEW n, Does(j, a, work[j].cta, T, n), work[j].at \in Uploading
        PROVE  UploadsBefore
    BY <1>0, <2>1, UploadsOnly
  <2>2. Rests(j) => UploadsBefore BY <1>0, UploadsOnly DEF Rests, Uploading
  <2> QED BY <1>0, <1>3, <2>1, <2>2, UploadWork
          DEF Uploading, DeleteList, AllInserted, InsertFails, MarkOnline, InsertName
<1>4. ASSUME NEW w \in Workers, Judge(w) PROVE UploadsBefore
  BY <1>0, <1>4, JudgeWork, UploadsOnly DEF Moves, Uploading
<1>5. CASE PartyUpload BY <1>0, <1>5, PartyWork, UploadsOnly DEF Moves, Rests
<1>6. ASSUME NEW w \in Workers, ListAbsentees(w) \/ CheckEnds(w) \/ FailsSilently(w) \/ Fails(w)
      PROVE  UploadsBefore
  BY <1>0, <1>6, OtherWork, UploadsOnly DEF Rests, Uploading
<1>7. CASE ListNext BY <1>2, <1>3, <1>4, <1>5, <1>6, <1>7 DEF ListNext, Workers
<1>8. CASE Restart BY <1>8 DEF Restart, UploadsBefore, Rest, Uploading
<1>9. CASE CTANext BY <1>1, <1>8, <1>9 DEF CTANext, DeleteUsers, listVars
<1> QED BY <1>1, <1>7, <1>9 DEF Next, vars

LEMMA SettledStep == Typed /\ SettledInv /\ [Next]_vars => SettledInv'
<1> SUFFICES ASSUME Typed, SettledInv, [Next]_vars PROVE SettledInv' OBVIOUS
<1>0. /\ Typed' /\ CTATyped /\ Listed /\ Listed' /\ settled \subseteq Id
      /\ Working /\ Job \subseteq Workers
  BY TypedStep DEF Typed, Listed, Workers
<1>1. CASE ListNext
  <2>0. UNCHANGED <<cta, thread, settled>>
    BY <1>1, ListLeavesCTA
       DEF ctaVars, ListNext, Command, PartyUpload, LateRegister, PartyAdd, PartyRemove, StartUpload,
       StartCheck, StartParty, AllRecognised, ClearParty, PartyEnds, AddToParty, Upload, Judge,
       DeleteList, InsertName, AllInserted, InsertFails, MarkOnline, UploadEnds, ListAbsentees, CheckEnds,
       NextName, ReadStatus, ReadParty, ReadPartyAgain, WriteStatus, FailsSilently, Fails
  <2>1. ASSUME NEW g \in Guild, NEW j \in Job, StartUpload(g, j) PROVE SettledInv'
    <3>1. PICK c \in C!ActiveIn(g) : Does(j, "download", c, Nobody, None)
      BY <1>0, <2>1, FreshWork
    <3>2. c \notin settled BY DEF C!ActiveIn, C!Active, SettledInv
    <3>3. \A k \in Job : work'[k].at \in Uploading => work'[k].cta \notin settled
      BY <1>0, <3>1, <3>2 DEF Does, SettledInv
    <3>4. users' = users BY <2>1 DEF StartUpload
    <3> QED BY <2>0, <3>3, <3>4 DEF SettledInv, CancelledIsGone
  <2>2. ASSUME NEW j \in Job, NEW n \in In(work[j].todo), NEW r \in RowId, InsertName(j, n, r) PROVE SettledInv'
    <3>1. work[j].at \in Uploading BY <2>2 DEF InsertName, Uploading
    <3>2. work[j].cta \notin settled BY <3>1 DEF SettledInv
    <3>3. \A q \in RowId : users'[q] # NoUser => users'[q].cta \notin settled
      BY <1>0, <2>2, <3>2 DEF InsertName, Listed, SettledInv, CancelledIsGone
    <3>4. UploadsBefore
      BY <2>2, <3>1 DEF InsertName, UploadsBefore
    <3> QED BY <2>0, <3>3, <3>4 DEF SettledInv, CancelledIsGone, UploadsBefore
  <2> QED BY <1>0, <2>0, <2>1, <2>2, RowsOfSteps, UploadsOfSteps, SettledQuiet
<1>2. CASE DeleteUsers
  <2> DEFINE d == thread.cta
  <2>1. d \in Id /\ cta[d].status = "deleted" /\ thread'.at = "idle" /\ UNCHANGED <<cta, work>>
    BY <1>0, <1>2 DEF DeleteUsers, C!DeleteUsers, C!Idle, CTATyped, C!Thread, SettledInv
  <2>2. /\ users' = Without(d) /\ settled' \subseteq settled \cup {d}
        /\ d \in settled' => d \in settled \/ \A j \in Job : ~(work[j].cta = d /\ work[j].at \in Uploading)
    BY <1>2 DEF DeleteUsers
  <2> HIDE DEF d
  <2>3. \A c \in settled' : cta'[c].status = "deleted" BY <2>1, <2>2 DEF SettledInv
  <2>4. \A j \in Job : work'[j].at \in Uploading => work'[j].cta \notin settled'
    BY <2>1, <2>2 DEF SettledInv
  <2>5. \A r \in RowId : users'[r] # NoUser => users'[r].cta \notin settled'
    BY <2>2 DEF Without, SettledInv, CancelledIsGone
  <2> QED BY <2>1, <2>3, <2>4, <2>5 DEF SettledInv, CancelledIsGone
<1>3. CASE CTANext /\ UNCHANGED <<users, settled>> /\ UploadsBefore
  <2>1. C!Next BY <1>3, CTAMoves
  <2>2. \A c \in settled' : cta'[c].status = "deleted" BY <1>0, <1>3, <2>1, DeletedStays DEF SettledInv
  <2>3. ASSUME thread'.at = "users" PROVE cta'[thread'.cta].status = "deleted"
    <3>1. CASE UNCHANGED thread
      <4>1. thread.cta \in Id BY <1>0, <2>3, <3>1 DEF CTATyped, C!Thread
      <4> QED BY <1>0, <2>1, <2>3, <3>1, <4>1, DeletedStays DEF SettledInv
    <3>2. ASSUME NEW g \in Guild, C!Cancel(g) PROVE cta'[thread'.cta].status = "deleted"
      <4>1. PICK c \in Id : /\ cta' = [cta EXCEPT ![c] = [cta[c] EXCEPT !.status = "deleted"]]
                            /\ thread' = [at |-> "users", cta |-> c]
                            /\ C!Active(c)
        BY <3>2 DEF C!Cancel, C!ActiveIn
      <4>2. cta[c] \in CTARow BY <1>0 , <4>1 DEF C!Active, C!NoRow, CTATyped
      <4> QED BY <1>0, <4>1, <4>2 DEF CTATyped, CTARow
    <3>3. ~(thread' = C!Idle) BY <2>3 DEF C!Idle
    <3>4. ASSUME NEW g \in Guild, C!Delete(g) PROVE FALSE BY <2>3, <3>4 DEF C!Delete
    <3>5. CASE C!Tick \/ C!Round \/ C!TaskFails \/ \E g \in Guild, c \in Id, e \in 0..(Horizon - 1) : C!Start(g, c, e)
      BY <3>1, <3>5
         DEF C!Tick, C!Start, C!Round, C!ListActive, C!ReadEnd, C!Finish, C!Announce, C!AnnounceNowhere,
             C!AllTold, C!RoundDone, C!TaskFails
    <3>6. CASE C!SecondStatement \/ C!CommandFails \/ C!Restart
      BY <3>3, <3>6 DEF C!SecondStatement, C!DeleteUsers, C!SetEnd, C!CommandFails, C!Restart
    <3> QED BY <2>1, <3>2, <3>4, <3>5, <3>6 DEF C!Next, C!Command
  <2> QED BY <1>3, <2>2, <2>3 DEF SettledInv, CancelledIsGone, UploadsBefore
<1>4. CASE CTANext
  <2>1. CASE UNCHANGED listVars BY <1>3, <1>4, <2>1 DEF listVars, UploadsBefore
  <2>2. CASE Restart
    <3>1. UploadsBefore BY <2>2 DEF Restart, UploadsBefore, Rest, Uploading
    <3> QED BY <1>3, <1>4, <2>2, <3>1 DEF Restart
  <2> QED BY <1>2, <1>4, <2>1, <2>2 DEF CTANext
<1>5. CASE UNCHANGED vars BY <1>5 DEF vars, SettledInv, CancelledIsGone
<1> QED BY <1>1, <1>4, <1>5 DEF Next

(* Nothing is left of a cancelled CTA whose second DELETE ran while no     *)
(* upload was under way for it: no row comes back later, for an upload     *)
(* only ever gets the id of a CTA that is active.                          *)
THEOREM CancelledGone == Spec => []CancelledIsGone
<1>1. Init => SettledInv
  BY DEF Init, C!Init, C!Idle, SettledInv, CancelledIsGone, Rest, Uploading
<1>2. SettledInv => CancelledIsGone BY DEF SettledInv
<1> QED BY <1>1, <1>2, SettledStep, AlwaysTyped, PTL DEF Spec
=============================================================================
