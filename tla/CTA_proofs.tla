----------------------------- MODULE CTA_proofs -----------------------------
(***************************************************************************)
(* Theorems about CTA, for any servers, ids, silent servers, horizon and   *)
(* bound on the trouble.                                                   *)
(***************************************************************************)
EXTENDS CTA, TLAPS

(* The second statement of a command is about a CTA that has been started. *)
Typed == TypeOK /\ (thread # Idle => cta[thread.cta] \in Row)

(* A started CTA is a row, and stays one whatever the thread works on. *)
LEMMA StartedIsRow ==
  ASSUME TypeOK, NEW c \in Id, cta[c].status # "unused"
  PROVE  cta[c] \in Row
BY DEF TypeOK, NoRow

LEMMA RowIsStarted ==
  ASSUME NEW r \in Row
  PROVE  r # NoRow /\ r.status \in {"active", "finished", "deleted"}
                   /\ r.guild \in Guild /\ r.end \in 0..Horizon
BY DEF Row, NoRow

LEMMA RowUpdate ==
  ASSUME NEW r \in Row, NEW s \in {"active", "finished", "deleted"}, NEW e \in 0..Horizon
  PROVE  [r EXCEPT !.status = s] \in Row /\ [r EXCEPT !.end = e] \in Row
BY DEF Row

(* Steps of the clock and of the event thread keep the types. *)
LEMMA CommandTypes == Typed /\ (Tick \/ Command \/ SecondStatement \/ CommandFails) => Typed'
<1> SUFFICES ASSUME Typed, Tick \/ Command \/ SecondStatement \/ CommandFails PROVE Typed'
  OBVIOUS
<1>0. TypeOK /\ Idle \in Thread /\ (thread # Idle => cta[thread.cta] \in Row)
  BY DEF Typed, Idle, Thread
<1>1. CASE Tick BY <1>0, <1>1, CTAAssumption DEF Tick, Typed, TypeOK
<1>2. ASSUME NEW g \in Guild, NEW c \in Id, NEW e \in 0..(Horizon - 1), Start(g, c, e)
      PROVE  Typed'
  <2>1. e \in 0..Horizon BY CTAAssumption
  <2>2. [status |-> "active", guild |-> g, end |-> e] \in Row BY <2>1 DEF Row
  <2>3. cta' \in [Id -> Row \cup {NoRow}] BY <1>0, <1>2, <2>2 DEF Start, TypeOK
  <2> QED BY <1>0, <1>2, <2>3 DEF Start, Typed, TypeOK
<1>3. ASSUME NEW g \in Guild, Cancel(g) PROVE Typed'
  <2>1. PICK c \in ActiveIn(g) :
          /\ cta' = [cta EXCEPT ![c].status = "deleted"]
          /\ thread' = [at |-> "users", cta |-> c]
    BY <1>3 DEF Cancel
  <2>2. c \in Id /\ cta[c] \in Row BY <1>0, <2>1, StartedIsRow DEF ActiveIn, Active
  <2>3. [cta[c] EXCEPT !.status = "deleted"] \in Row BY <2>2 DEF Row
  <2>4. cta' = [cta EXCEPT ![c] = [cta[c] EXCEPT !.status = "deleted"]] BY <2>1
  <2>5. cta' \in [Id -> Row \cup {NoRow}] /\ cta'[c] \in Row
    BY <1>0, <2>2, <2>3, <2>4 DEF TypeOK
  <2>6. thread' \in Thread /\ thread'.cta = c BY <2>1, <2>2 DEF Thread
  <2> QED BY <1>0, <1>3, <2>5, <2>6 DEF Cancel, Typed, TypeOK
<1>4. ASSUME NEW g \in Guild, Delete(g) PROVE Typed'
  <2>1. PICK c \in ActiveIn(g) :
          /\ cta' = [cta EXCEPT ![c].status = "finished"]
          /\ thread' = [at |-> "end", cta |-> c]
    BY <1>4 DEF Delete
  <2>2. c \in Id /\ cta[c] \in Row BY <1>0, <2>1, StartedIsRow DEF ActiveIn, Active
  <2>3. [cta[c] EXCEPT !.status = "finished"] \in Row BY <2>2 DEF Row
  <2>4. cta' = [cta EXCEPT ![c] = [cta[c] EXCEPT !.status = "finished"]] BY <2>1
  <2>5. cta' \in [Id -> Row \cup {NoRow}] /\ cta'[c] \in Row
    BY <1>0, <2>2, <2>3, <2>4 DEF TypeOK
  <2>6. thread' \in Thread /\ thread'.cta = c BY <2>1, <2>2 DEF Thread
  <2> QED BY <1>0, <1>4, <2>5, <2>6 DEF Delete, Typed, TypeOK
<1>5. CASE SetEnd
  <2>1. thread.cta \in Id /\ cta[thread.cta] \in Row BY <1>0, <1>5 DEF SetEnd, TypeOK, Thread, Idle
  <2>2. [cta[thread.cta] EXCEPT !.end = now] \in Row BY <1>0, <2>1, RowUpdate DEF TypeOK
  <2>3. cta' = [cta EXCEPT ![thread.cta] = [cta[thread.cta] EXCEPT !.end = now]]
    BY <1>5 DEF SetEnd
  <2>4. cta' \in [Id -> Row \cup {NoRow}] BY <1>0, <2>1, <2>2, <2>3 DEF TypeOK
  <2> QED BY <1>0, <1>5, <2>4 DEF SetEnd, Typed, TypeOK
<1>6. CASE DeleteUsers BY <1>0, <1>6 DEF DeleteUsers, Typed, TypeOK
<1>7. CASE CommandFails BY <1>0, <1>7, CTAAssumption DEF CommandFails, Typed, TypeOK
<1> QED BY <1>1, <1>2, <1>3, <1>4, <1>5, <1>6, <1>7 DEF Command, SecondStatement

(* Where the task is determines what it holds. *)
LEMMA TaskAt ==
  ASSUME checker \in Between \cup Within
  PROVE  /\ checker.at \in {"idle", "check", "dead"} => checker \in Between
         /\ checker.at \in {"finish", "announce"} => checker \in Within
BY DEF Between, Within

(* Setting the status of a CTA to finished keeps the rows rows. *)
LEMMA FinishKeepsRows ==
  ASSUME TypeOK, Finish
  PROVE  /\ cta' \in [Id -> Row \cup {NoRow}]
         /\ \A c \in Id : cta[c] \in Row => cta'[c] \in Row /\ cta'[c].end = cta[c].end
                                            /\ cta'[c].guild = cta[c].guild
                                            /\ cta'[c].status \in {cta[c].status, "finished"}
         /\ \A c \in Id : cta[c] = NoRow => cta'[c] = NoRow
<1>1. checker.cta \in Id BY TaskAt DEF TypeOK, Finish, Within
<1>2. CASE Exists(checker.cta)
  <2>1. cta[checker.cta] \in Row BY <1>1, <1>2, StartedIsRow DEF Exists
  <2> DEFINE r == [cta[checker.cta] EXCEPT !.status = "finished"]
  <2>2. r \in Row /\ r.end = cta[checker.cta].end /\ r.guild = cta[checker.cta].guild
                  /\ r.status = "finished"
    BY <2>1 DEF Row
  <2>3. cta' = [cta EXCEPT ![checker.cta] = r] BY <1>2 DEF Finish
  <2> HIDE DEF r
  <2>4. cta[checker.cta] # NoRow BY <2>1, RowIsStarted
  <2> QED BY <1>1, <2>2, <2>3, <2>4 DEF TypeOK
<1>3. CASE ~Exists(checker.cta)
  <2>1. cta' = cta BY <1>3 DEF Finish
  <2> QED BY <2>1 DEF TypeOK
<1> QED BY <1>2, <1>3

(* Steps of the scheduled task and a restart keep the types. *)
LEMMA TaskTypes == Typed /\ (Round \/ TaskFails \/ Restart) => Typed'
<1> SUFFICES ASSUME Typed, Round \/ TaskFails \/ Restart PROVE Typed' OBVIOUS
<1>0. TypeOK /\ Idle \in Thread /\ (thread # Idle => cta[thread.cta] \in Row)
  BY DEF Typed, Idle, Thread
<1>1. checker \in Between \cup Within /\ Waiting \in Between BY <1>0 DEF TypeOK, Waiting, Between
<1>2. CASE ListActive
  <2>1. checker' \in Between BY <1>2 DEF ListActive, Waiting, Between, Listed
  <2> QED BY <1>0, <1>2, <2>1 DEF ListActive, Typed, TypeOK
<1>3. ASSUME NEW c \in checker.list, ReadEnd(c) PROVE Typed'
  <2>1. checker \in Between BY <1>1, <1>3, TaskAt DEF ReadEnd
  <2>2. c \in Id BY <2>1 DEF Between
  <2>3. checker' \in Between \cup Within BY <1>3, <2>1, <2>2 DEF ReadEnd, Waiting, Between, Within
  <2> QED BY <1>0, <1>3, <2>3 DEF ReadEnd, Typed, TypeOK
<1>4. CASE Finish
  <2>1. checker \in Within BY <1>1, <1>4, TaskAt DEF Finish
  <2>2. checker' \in Within BY <1>4, <2>1 DEF Finish, Within
  <2>3. thread # Idle => thread.cta \in Id BY <1>0 DEF TypeOK, Thread, Idle
  <2> QED BY <1>0, <1>4, <2>2, <2>3, FinishKeepsRows DEF Finish, Typed, TypeOK
<1>5. ASSUME NEW g \in checker.servers, Announce(g) PROVE Typed'
  <2>1. checker \in Within BY <1>1, <1>5, TaskAt DEF Announce
  <2>2. checker' \in Within BY <1>5, <2>1 DEF Announce, Within
  <2>3. checker.cta \in Id /\ g \in Guild BY <2>1 DEF Within
  <2>4. told' \in [Id -> [Guild -> Nat]] BY <1>0, <1>5, <2>3 DEF Announce, TypeOK
  <2> QED BY <1>0, <1>5, <2>2, <2>4 DEF Announce, Typed, TypeOK
<1>6. ASSUME NEW g \in checker.servers, AnnounceNowhere(g) PROVE Typed'
  <2>1. checker' \in Between BY <1>6 DEF AnnounceNowhere, Waiting, Between
  <2> QED BY <1>0, <1>6, <2>1 DEF AnnounceNowhere, Typed, TypeOK
<1>7. CASE AllTold
  <2>1. checker \in Within BY <1>1, <1>7, TaskAt DEF AllTold
  <2>2. checker' \in Between BY <1>7, <2>1 DEF AllTold, Between, Within
  <2> QED BY <1>0, <1>7, <2>2 DEF AllTold, Typed, TypeOK
<1>8. CASE RoundDone BY <1>0, <1>1, <1>8 DEF RoundDone, Typed, TypeOK
<1>9. CASE TaskFails
  <2>1. checker' \in Between BY <1>9 DEF TaskFails, Waiting, Between
  <2> QED BY <1>0, <1>9, <2>1, CTAAssumption DEF TaskFails, Typed, TypeOK
<1>10. CASE Restart BY <1>0, <1>1, <1>10, CTAAssumption DEF Restart, Typed, TypeOK
<1> QED BY <1>2, <1>3, <1>4, <1>5, <1>6, <1>7, <1>8, <1>9, <1>10 DEF Round

LEMMA AlwaysTyped == Spec => []Typed
<1>1. Init => Typed
  <2> SUFFICES ASSUME Init PROVE Typed OBVIOUS
  <2>1. Waiting \in Between /\ Idle \in Thread BY DEF Waiting, Between, Idle, Thread
  <2>2. now \in 0..Horizon /\ trouble \in 0..MaxTrouble BY CTAAssumption DEF Init
  <2> QED BY <2>1, <2>2 DEF Init, Typed, TypeOK
<1>2. Typed /\ [Next]_vars => Typed'
  <2>1. Typed /\ UNCHANGED vars => Typed' BY DEF Typed, TypeOK, vars
  <2> QED BY <2>1, CommandTypes, TaskTypes DEF Next
<1> QED BY <1>1, <1>2, PTL DEF Spec

(* Every variable stays in its type (any instance). *)
THEOREM CTATypes == Spec => []TypeOK
<1>1. Typed => TypeOK BY DEF Typed
<1> QED BY <1>1, AlwaysTyped, PTL

-----------------------------------------------------------------------------
(* Starting a CTA is the only way for one to become active, and nobody     *)
(* moves one to another server.                                            *)
Starts == \E g \in Guild, c \in Id, e \in 0..(Horizon - 1) : Start(g, c, e)

LEMMA OnlyStartActivates ==
  Typed /\ [Next]_vars /\ ~Starts =>
    \A c \in Id : Active(c)' => Active(c) /\ cta'[c].guild = cta[c].guild
<1> SUFFICES ASSUME Typed, [Next]_vars, ~Starts, NEW c \in Id, Active(c)'
             PROVE  Active(c) /\ cta'[c].guild = cta[c].guild
  OBVIOUS
<1>0. TypeOK /\ cta'[c].status = "active" BY DEF Typed, Active
<1>1. CASE UNCHANGED cta BY <1>0, <1>1 DEF Active
<1>2. ASSUME NEW g \in Guild, Cancel(g) \/ Delete(g)
      PROVE  Active(c) /\ cta'[c].guild = cta[c].guild
  <2>1. PICK d \in ActiveIn(g), s \in {"deleted", "finished"} : cta' = [cta EXCEPT ![d].status = s]
    BY <1>2 DEF Cancel, Delete
  <2>2. d \in Id /\ cta[d] \in Row BY <1>0, <2>1, StartedIsRow DEF ActiveIn, Active
  <2>3. cta'[d].status = s BY <1>0, <2>1, <2>2 DEF TypeOK, Row
  <2>4. c # d BY <1>0, <2>1, <2>3
  <2> QED BY <1>0, <2>1, <2>2, <2>4 DEF Active, TypeOK
<1>3. CASE SetEnd
  <2>1. thread.cta \in Id /\ cta[thread.cta] \in Row
    BY <1>3 DEF SetEnd, Typed, TypeOK, Thread, Idle
  <2>2. cta' = [cta EXCEPT ![thread.cta].end = now] BY <1>3 DEF SetEnd
  <2>3. cta'[c].status = cta[c].status /\ cta'[c].guild = cta[c].guild
    BY <1>0, <2>1, <2>2 DEF TypeOK, Row
  <2> QED BY <1>0, <2>3 DEF Active
<1>4. CASE Finish
  <2>1. cta'[c] # NoRow BY <1>0 DEF NoRow
  <2>2. cta[c] \in Row BY <1>0, <1>4, <2>1, FinishKeepsRows DEF TypeOK
  <2> QED BY <1>0, <1>4, <2>2, FinishKeepsRows DEF Active
<1>5. QED
  <2>1. Tick \/ DeleteUsers \/ CommandFails \/ TaskFails \/ Restart => UNCHANGED cta
    BY DEF Tick, DeleteUsers, CommandFails, TaskFails, Restart
  <2>2. Round => Finish \/ UNCHANGED cta
    BY DEF Round, ListActive, ReadEnd, Announce, AnnounceNowhere, AllTold, RoundDone
  <2>3. UNCHANGED vars => UNCHANGED cta BY DEF vars
  <2> QED BY <1>1, <1>2, <1>3, <1>4, <2>1, <2>2, <2>3 DEF Next, Command, SecondStatement, Starts

(* A server never has two active CTAs: only Start activates one, when its  *)
(* server has none, and every other step can only end one.                 *)
THEOREM OneCTA == Spec => []OneActiveCTA
<1>1. Init => OneActiveCTA BY DEF Init, OneActiveCTA, Active, NoRow
<1>2. Typed /\ OneActiveCTA /\ [Next]_vars => OneActiveCTA'
  <2> SUFFICES ASSUME Typed, OneActiveCTA, [Next]_vars, NEW c \in Id, NEW d \in Id,
                      Active(c)', Active(d)', cta'[c].guild = cta'[d].guild
               PROVE  c = d
    BY DEF OneActiveCTA, Active
  <2>1. CASE Starts
    <3>1. PICK g \in Guild, x \in Id, e \in 0..(Horizon - 1) : Start(g, x, e) BY <2>1 DEF Starts
    <3>2. cta' = [cta EXCEPT ![x] = [status |-> "active", guild |-> g, end |-> e]]
      BY <3>1 DEF Start
    <3>3. cta'[x].guild = g BY <3>2 DEF Typed, TypeOK
    <3>4. \A y \in Id : y # x => cta'[y] = cta[y] BY <3>2 DEF Typed, TypeOK
    <3>5. \A y \in Id : y # x /\ Active(y)' => cta'[y].guild # g
      <4> SUFFICES ASSUME NEW y \in Id, y # x, Active(y)', cta'[y].guild = g PROVE FALSE
        OBVIOUS
      <4>1. cta'[y] = cta[y] BY <3>4
      <4>2. y \in ActiveIn(g) BY <4>1 DEF ActiveIn, Active
      <4> QED BY <3>1, <4>2 DEF Start
    <3>6. c # x /\ d # x => c = d BY <3>4 DEF OneActiveCTA, Active
    <3> QED BY <3>3, <3>5, <3>6
  <2>2. CASE ~Starts BY <2>2, OnlyStartActivates DEF OneActiveCTA
  <2> QED BY <2>1, <2>2
<1> QED BY <1>1, <1>2, AlwaysTyped, PTL DEF Spec

-----------------------------------------------------------------------------
(* The inductive invariant behind ToldOnce and ToldWhenOver.  Nothing was  *)
(* said of a CTA that is active, listed or about to be finished; while it  *)
(* is announced, nothing was said to the servers still to come, and it is  *)
(* over for good.                                                          *)
Untold(c) == \A g \in Guild : told[c][g] = 0

Past(c) == cta[c] \in Row /\ cta[c].end <= now

NotYet(c) == Active(c) \/ cta[c] = NoRow => Untold(c)

Announced ==
  /\ \A c \in Id : NotYet(c)
  /\ \A c \in checker.list : cta[c] \in Row /\ Untold(c) /\ c # checker.cta
  /\ checker.at = "finish" => Past(checker.cta) /\ Untold(checker.cta)
  /\ checker.at = "announce" =>
       /\ Past(checker.cta) /\ ~Active(checker.cta)
       /\ \A g \in checker.servers : told[checker.cta][g] = 0
  /\ ToldOnce /\ ToldWhenOver

(* A started CTA stays one, its end can only be drawn to the present, and  *)
(* unless it was just started it was active before if it is now.           *)
LEMMA RowsStay ==
  Typed /\ [Next]_vars =>
    /\ now' \in Nat /\ now \in Nat /\ now <= now'
    /\ \A c \in Id : cta[c] \in Row =>
         /\ cta'[c] \in Row
         /\ cta'[c].end = cta[c].end \/ cta'[c].end = now
         /\ Active(c)' => Active(c)
    /\ \A c \in Id : cta'[c] = NoRow => cta[c] = NoRow
<1> SUFFICES ASSUME Typed, [Next]_vars PROVE
      /\ now' \in Nat /\ now \in Nat /\ now <= now'
      /\ \A c \in Id : cta[c] \in Row =>
           /\ cta'[c] \in Row
           /\ cta'[c].end = cta[c].end \/ cta'[c].end = now
           /\ Active(c)' => Active(c)
      /\ \A c \in Id : cta'[c] = NoRow => cta[c] = NoRow
  OBVIOUS
<1>0. TypeOK BY DEF Typed
<1>1. now' \in Nat /\ now \in Nat /\ now <= now'
  <2>1. now' = now + 1 \/ now' = now
    BY DEF Next, vars, Tick, Command, Start, Cancel, Delete, SecondStatement, DeleteUsers, SetEnd,
           CommandFails, Round, ListActive, ReadEnd, Finish, Announce, AnnounceNowhere, AllTold,
           RoundDone, TaskFails, Restart
  <2> QED BY <1>0, <2>1, CTAAssumption DEF TypeOK
<1>2. CASE UNCHANGED cta BY <1>1, <1>2 DEF Active
<1>3. ASSUME NEW g \in Guild, NEW x \in Id, NEW e \in 0..(Horizon - 1), Start(g, x, e)
      PROVE  /\ \A c \in Id : cta[c] \in Row => cta'[c] = cta[c]
             /\ \A c \in Id : cta'[c] = NoRow => cta[c] = NoRow
  BY <1>0, <1>3, RowIsStarted DEF Start, TypeOK
<1>4. ASSUME NEW g \in Guild, Cancel(g) \/ Delete(g)
      PROVE  \A c \in Id : cta'[c] = cta[c] \/ /\ cta[c] \in Row /\ cta'[c] \in Row
                                               /\ cta'[c].end = cta[c].end
                                               /\ ~Active(c)'
  <2>1. PICK d \in ActiveIn(g), s \in {"deleted", "finished"} : cta' = [cta EXCEPT ![d].status = s]
    BY <1>4 DEF Cancel, Delete
  <2>2. d \in Id /\ cta[d] \in Row BY <1>0, <2>1, StartedIsRow DEF ActiveIn, Active
  <2>3. cta'[d] = [cta[d] EXCEPT !.status = s] BY <1>0, <2>1, <2>2 DEF TypeOK
  <2>4. cta'[d] \in Row /\ cta'[d].end = cta[d].end /\ cta'[d].status = s
    BY <2>2, <2>3 DEF Row
  <2>5. ~Active(d)' BY <2>4 DEF Active
  <2>6. \A c \in Id : c # d => cta'[c] = cta[c] BY <1>0, <2>1, <2>2 DEF TypeOK
  <2> QED BY <2>2, <2>4, <2>5, <2>6
<1>5. ASSUME SetEnd
      PROVE  \A c \in Id : cta'[c] = cta[c] \/ /\ cta[c] \in Row /\ cta'[c] \in Row
                                               /\ cta'[c].end = now
                                               /\ cta'[c].status = cta[c].status
  <2>1. thread.cta \in Id /\ cta[thread.cta] \in Row
    BY <1>5 DEF SetEnd, Typed, TypeOK, Thread, Idle
  <2>2. cta' = [cta EXCEPT ![thread.cta].end = now] BY <1>5 DEF SetEnd
  <2>3. now \in 0..Horizon BY <1>0 DEF TypeOK
  <2>4. cta'[thread.cta] = [cta[thread.cta] EXCEPT !.end = now] BY <1>0, <2>1, <2>2 DEF TypeOK
  <2>5. cta'[thread.cta] \in Row /\ cta'[thread.cta].end = now
          /\ cta'[thread.cta].status = cta[thread.cta].status
    BY <2>1, <2>3, <2>4 DEF Row
  <2>6. \A c \in Id : c # thread.cta => cta'[c] = cta[c] BY <1>0, <2>1, <2>2 DEF TypeOK
  <2> QED BY <2>1, <2>5, <2>6
<1>6. ASSUME Finish
      PROVE  \A c \in Id : \/ cta[c] = NoRow /\ cta'[c] = NoRow
                           \/ /\ cta[c] \in Row /\ cta'[c] \in Row
                              /\ cta'[c].end = cta[c].end
                              /\ Active(c)' => Active(c)
  BY <1>0, <1>6, FinishKeepsRows DEF TypeOK, Active
<1>7. QED
  <2>1. Tick \/ DeleteUsers \/ CommandFails \/ TaskFails \/ Restart => UNCHANGED cta
    BY DEF Tick, DeleteUsers, CommandFails, TaskFails, Restart
  <2>2. Round => Finish \/ UNCHANGED cta
    BY DEF Round, ListActive, ReadEnd, Announce, AnnounceNowhere, AllTold, RoundDone
  <2>3. UNCHANGED vars => UNCHANGED cta BY DEF vars
  <2>4. ASSUME NEW g \in Guild, NEW x \in Id, NEW e \in 0..(Horizon - 1), Start(g, x, e)
        PROVE  /\ \A c \in Id : cta[c] \in Row =>
                    /\ cta'[c] \in Row
                    /\ cta'[c].end = cta[c].end \/ cta'[c].end = now
                    /\ Active(c)' => Active(c)
               /\ \A c \in Id : cta'[c] = NoRow => cta[c] = NoRow
    BY <1>3, <2>4 DEF Active
  <2>5. ASSUME NEW g \in Guild, Cancel(g) \/ Delete(g)
        PROVE  /\ \A c \in Id : cta[c] \in Row =>
                    /\ cta'[c] \in Row
                    /\ cta'[c].end = cta[c].end \/ cta'[c].end = now
                    /\ Active(c)' => Active(c)
               /\ \A c \in Id : cta'[c] = NoRow => cta[c] = NoRow
    BY <1>4, <2>5, RowIsStarted DEF Active
  <2>6. CASE SetEnd BY <1>1, <1>5, <2>6, RowIsStarted DEF Active
  <2>7. CASE Finish BY <1>1, <1>6, <2>7, RowIsStarted DEF Active
  <2> QED
    BY <1>1, <1>2, <2>1, <2>2, <2>3, <2>4, <2>5, <2>6, <2>7 DEF Next, Command, SecondStatement

(* What a step that tells nobody anything keeps. *)
LEMMA SilentStep ==
  ASSUME Typed, Announced, [Next]_vars, UNCHANGED told
  PROVE  /\ \A c \in Id : NotYet(c)' /\ (Untold(c) => Untold(c)')
         /\ \A c \in Id : Past(c) => Past(c)'
         /\ \A c \in Id : cta[c] \in Row => cta'[c] \in Row /\ (Active(c)' => Active(c))
         /\ (ToldOnce /\ ToldWhenOver)'
<1>0. TypeOK /\ \A c \in Id : cta[c] \in Row \cup {NoRow} BY DEF Typed, TypeOK
<1>1. \A c \in Id : Untold(c) => Untold(c)' BY DEF Untold
<1>2. \A c \in Id : NotYet(c)'
  <2> SUFFICES ASSUME NEW c \in Id, Active(c)' \/ cta'[c] = NoRow PROVE Untold(c)'
    BY DEF NotYet
  <2>1. CASE cta[c] \in Row
    <3>1. Active(c) BY <2>1, RowsStay, RowIsStarted
    <3> QED BY <1>1, <3>1 DEF Announced, NotYet
  <2>2. CASE cta[c] = NoRow BY <1>1, <2>2 DEF Announced, NotYet
  <2> QED BY <1>0, <2>1, <2>2
<1>3. ASSUME NEW c \in Id, cta[c] \in Row, cta[c].end <= now
      PROVE  cta'[c] \in Row /\ cta'[c].end <= now'
  <2>1. cta[c].end \in Int BY <1>3, RowIsStarted
  <2>2. /\ now' \in Nat /\ now \in Nat /\ now <= now'
        /\ cta'[c] \in Row
        /\ cta'[c].end = cta[c].end \/ cta'[c].end = now
    BY <1>3, RowsStay
  <2> QED BY <1>3, <2>1, <2>2
<1>4. \A c \in Id : Past(c) => Past(c)' BY <1>3 DEF Past
<1>5. ToldOnce' BY DEF Announced, ToldOnce
<1>6. ToldWhenOver'
  <2> SUFFICES ASSUME NEW c \in Id, NEW g \in Guild, told'[c][g] > 0
               PROVE  cta'[c] # NoRow /\ ~Active(c)' /\ cta'[c].end <= now'
    BY DEF ToldWhenOver, Active
  <2>1. cta[c] # NoRow /\ ~Active(c) /\ cta[c].end <= now BY DEF Announced, ToldWhenOver
  <2>2. cta[c] \in Row BY <1>0, <2>1
  <2> QED BY <1>3, <2>1, <2>2, RowsStay, RowIsStarted
<1> QED BY <1>1, <1>2, <1>4, <1>5, <1>6, RowsStay

(* Steps that leave the task and what was told alone. *)
LEMMA OthersAnnounced ==
  ASSUME Typed, Announced, [Next]_vars, UNCHANGED <<checker, told>>
  PROVE  Announced'
<1>0. checker.list \subseteq Id /\ checker.servers \subseteq Guild
        /\ (checker.at \in {"finish", "announce"} => checker.cta \in Id)
  BY TaskAt DEF Typed, TypeOK, Between, Within
<1>1. \A c \in checker'.list : cta'[c] \in Row /\ Untold(c)' /\ c # checker'.cta
  BY <1>0, SilentStep DEF Announced
<1>2. checker'.at = "finish" => Past(checker.cta)' /\ Untold(checker.cta)'
  BY <1>0, SilentStep DEF Announced
<1>3. checker'.at = "announce" =>
        /\ Past(checker.cta)' /\ ~Active(checker.cta)'
        /\ \A g \in checker'.servers : told'[checker.cta][g] = 0
  BY <1>0, SilentStep DEF Announced, Past
<1>4. Past(checker.cta)' = (cta'[checker'.cta] \in Row /\ cta'[checker'.cta].end <= now')
        /\ Untold(checker.cta)' = (\A g \in Guild : told'[checker'.cta][g] = 0)
        /\ Active(checker.cta)' = (cta'[checker'.cta].status = "active")
  BY DEF Past, Untold, Active
<1> QED BY <1>1, <1>2, <1>3, <1>4, SilentStep DEF Announced, NotYet, Past, Untold, Active

(* Steps of the task, and its end. *)
LEMMA TaskAnnounced ==
  ASSUME Typed, Announced, Round \/ TaskFails \/ Restart
  PROVE  Announced'
<1>0. TypeOK /\ checker \in Between \cup Within /\ [Next]_vars BY DEF Typed, TypeOK, Next
<1>1. CASE ListActive
  <2>1. checker'.list \subseteq Id /\ checker'.at = "check" /\ checker'.cta = None
          /\ \A c \in checker'.list : Active(c)
    BY <1>1 DEF ListActive, Waiting, Listed
  <2>2. UNCHANGED <<cta, told, now>> BY <1>1 DEF ListActive
  <2>3. \A c \in checker'.list : cta[c] \in Row /\ Untold(c) /\ c # None
    BY <1>0, <2>1, StartedIsRow, CTAAssumption DEF Announced, NotYet, Active
  <2> QED BY <1>0, <2>1, <2>2, <2>3, SilentStep DEF Announced, NotYet, Untold, Active
<1>2. ASSUME NEW c \in checker.list, ReadEnd(c) PROVE Announced'
  <2>1. checker \in Between BY <1>0, <1>2, TaskAt DEF ReadEnd
  <2>2. UNCHANGED <<cta, told, now>> BY <1>2 DEF ReadEnd
  <2>3. c \in Id /\ cta[c] \in Row /\ Untold(c) BY <2>1 DEF Announced, Between
  <2>4. CASE Exists(c) /\ Over(c)
    <3>1. checker' = [checker EXCEPT !.at = "finish", !.cta = c, !.list = @ \ {c}]
      BY <1>2, <2>4 DEF ReadEnd
    <3>2. checker'.at = "finish" /\ checker'.cta = c /\ checker'.list = checker.list \ {c}
      BY <2>1, <3>1 DEF Between
    <3>3. cta[c].end \in Int /\ now \in Int BY <1>0, <2>3, RowIsStarted DEF TypeOK
    <3>4. Past(c) BY <2>3, <2>4, <3>3 DEF Past, Over
    <3> QED
      BY <1>0, <2>2, <2>3, <3>2, <3>4, SilentStep DEF Announced, NotYet, Untold, Past, Active
  <2>5. CASE Exists(c) /\ ~Over(c)
    <3>1. checker' = [checker EXCEPT !.list = @ \ {c}] BY <1>2, <2>5 DEF ReadEnd
    <3>2. checker'.at = checker.at /\ checker'.cta = checker.cta
            /\ checker'.list = checker.list \ {c}
      BY <2>1, <3>1 DEF Between
    <3>3. checker'.at = "check" BY <1>2, <3>2 DEF ReadEnd
    <3> QED BY <1>0, <2>2, <3>2, <3>3, SilentStep DEF Announced, NotYet, Untold, Active
  <2>6. CASE ~Exists(c)
    <3>1. checker'.at = "dead" /\ checker'.list = {} BY <1>2, <2>6 DEF ReadEnd, Waiting
    <3> QED BY <1>0, <2>2, <3>1, SilentStep DEF Announced
  <2> QED BY <2>4, <2>5, <2>6
<1>3. CASE Finish
  <2>1. checker \in Within /\ checker.cta \in Id /\ checker.list \subseteq Id
    BY <1>0, <1>3, TaskAt DEF Finish, Within
  <2>2. checker'.at = "announce" /\ checker'.cta = checker.cta /\ checker'.list = checker.list
          /\ checker'.servers = Guild
    BY <1>3, <2>1 DEF Finish, Within
  <2>3. UNCHANGED <<told, now>> BY <1>3 DEF Finish
  <2>4. Past(checker.cta) /\ Untold(checker.cta) BY <1>3 DEF Finish, Announced
  <2>5. cta'[checker.cta].status # "active"
    <3>1. CASE Exists(checker.cta)
      <4>1. cta' = [cta EXCEPT ![checker.cta].status = "finished"] BY <1>3, <3>1 DEF Finish
      <4>2. cta'[checker.cta].status = "finished" BY <1>0, <2>1, <2>4, <4>1 DEF TypeOK, Past, Row
      <4> QED BY <4>2
    <3>2. CASE ~Exists(checker.cta) BY <1>3, <3>2 DEF Finish, Exists
    <3> QED BY <3>1, <3>2
  <2>6. \A c \in Id : Past(c) => cta'[c] \in Row /\ cta'[c].end <= now'
    BY <1>0, <2>3, SilentStep DEF Past
  <2>7. \A c \in checker.list : cta'[c] \in Row /\ Untold(c)' /\ c # checker.cta
    BY <1>0, <2>1, <2>3, SilentStep DEF Announced
  <2> QED
    BY <1>0, <2>1, <2>2, <2>3, <2>4, <2>5, <2>6, <2>7, SilentStep
    DEF Announced, NotYet, Untold, Past, Active
<1>4. ASSUME NEW g \in checker.servers, Announce(g) PROVE Announced'
  <2> DEFINE c == checker.cta
  <2>1. checker \in Within BY <1>0, <1>4, TaskAt DEF Announce
  <2>2. c \in Id /\ g \in Guild /\ checker.list \subseteq Id /\ checker.servers \subseteq Guild
    BY <2>1 DEF Within
  <2>3. checker'.at = "announce" /\ checker'.cta = c /\ checker'.list = checker.list
          /\ checker'.servers = checker.servers \ {g}
    BY <1>4, <2>1 DEF Announce, Within
  <2>4. UNCHANGED <<cta, now>> BY <1>4 DEF Announce
  <2>5. Past(c) /\ ~Active(c) /\ \A h \in checker.servers : told[c][h] = 0
    BY <1>4 DEF Announce, Announced
  <2>6. told' = [told EXCEPT ![c][g] = @ + 1] /\ told \in [Id -> [Guild -> Nat]]
    BY <1>0, <1>4 DEF Announce, TypeOK
  <2>7. told'[c][g] = 1 /\ \A h \in Guild : h # g => told'[c][h] = told[c][h]
    BY <2>2, <2>5, <2>6
  <2>8. \A d \in Id : d # c => told'[d] = told[d] BY <2>2, <2>6
  <2>9. cta[c] # NoRow BY <2>5, RowIsStarted DEF Past
  <2>10. \A d \in Id : NotYet(d)'
    BY <2>4, <2>5, <2>8, <2>9 DEF Announced, NotYet, Untold, Active
  <2>11. \A d \in checker'.list : cta'[d] \in Row /\ Untold(d)' /\ d # checker'.cta
    BY <2>2, <2>3, <2>4, <2>8 DEF Announced, Untold
  <2>12. ToldOnce' BY <2>7, <2>8 DEF Announced, ToldOnce
  <2>13. ToldWhenOver'
    BY <2>4, <2>5, <2>8, <2>9 DEF Announced, ToldWhenOver, Active, Past
  <2>14. /\ cta'[checker'.cta] \in Row /\ cta'[checker'.cta].end <= now'
         /\ cta'[checker'.cta].status # "active"
         /\ \A h \in checker'.servers : told'[checker'.cta][h] = 0
    BY <2>2, <2>3, <2>4, <2>5, <2>7 DEF Past, Active
  <2> HIDE DEF c
  <2> QED BY <2>3, <2>10, <2>11, <2>12, <2>13, <2>14 DEF Announced, Past, Active
<1>5. ASSUME NEW g \in checker.servers, AnnounceNowhere(g) PROVE Announced'
  <2>1. checker'.at = "dead" /\ checker'.list = {} /\ UNCHANGED told
    BY <1>5 DEF AnnounceNowhere, Waiting
  <2> QED BY <1>0, <2>1, SilentStep DEF Announced
<1>6. CASE AllTold
  <2>1. checker \in Within BY <1>0, <1>6, TaskAt DEF AllTold
  <2>2. checker'.at = "check" /\ checker'.cta = None /\ checker'.list = checker.list
          /\ checker.list \subseteq Id /\ UNCHANGED told
    BY <1>6, <2>1 DEF AllTold, Within
  <2> QED BY <1>0, <2>2, SilentStep, CTAAssumption DEF Announced
<1>7. CASE RoundDone \/ TaskFails \/ Restart
  <2>1. checker'.at \in {"idle", "dead"} /\ checker'.list = {} /\ UNCHANGED told
    BY <1>7 DEF RoundDone, TaskFails, Restart, Waiting
  <2> QED BY <1>0, <2>1, SilentStep DEF Announced
<1> QED BY <1>1, <1>2, <1>3, <1>4, <1>5, <1>6, <1>7 DEF Round

LEMMA AlwaysAnnounced == Spec => []Announced
<1>1. Init => Announced
  BY DEF Init, Announced, NotYet, Untold, Waiting, ToldOnce, ToldWhenOver
<1>2. Typed /\ Announced /\ [Next]_vars => Announced'
  <2> SUFFICES ASSUME Typed, Announced, [Next]_vars PROVE Announced' OBVIOUS
  <2>1. UNCHANGED vars \/ Tick \/ Command \/ SecondStatement \/ CommandFails
          => UNCHANGED <<checker, told>>
    BY DEF vars, Tick, Command, Start, Cancel, Delete, SecondStatement, DeleteUsers, SetEnd,
           CommandFails
  <2> QED BY <2>1, OthersAnnounced, TaskAnnounced DEF Next
<1> QED BY <1>1, <1>2, AlwaysTyped, PTL DEF Spec

(* A server is told at most once that a CTA has finished. *)
THEOREM EndIsToldOnce == Spec => []ToldOnce
<1>1. Announced => ToldOnce BY DEF Announced
<1> QED BY <1>1, AlwaysAnnounced, PTL

(* A server is told of the end of a CTA only when that is over. *)
THEOREM EndIsTrueWhenTold == Spec => []ToldWhenOver
<1>1. Announced => ToldWhenOver BY DEF Announced
<1> QED BY <1>1, AlwaysAnnounced, PTL

=============================================================================
