-------------------------------- MODULE CTA --------------------------------
(***************************************************************************)
(* The life of a call to arms (CTA) in the GuildBot (atom_comm_2).  A      *)
(* server starts, cancels and deletes its CTA by slash commands, which JDA *)
(* delivers one at a time on its event thread.  Every ten seconds a        *)
(* scheduled task looks for active CTAs whose end time has passed, sets    *)
(* them to finished and tells every server.                                *)
(*                                                                         *)
(* The two threads share the table cta, one SQL statement at a time: what  *)
(* the task has read may be gone when it comes to it.  The attendance kept *)
(* for a CTA is not part of this module.                                   *)
(***************************************************************************)
EXTENDS Integers, FiniteSets

CONSTANTS
  Guild,      \* Discord servers the bot is in
  Id,         \* random ids of CTAs, taken to be different
  Mute,       \* servers that may lack a system channel
  Horizon,    \* bound on the clock
  MaxTrouble, \* bound on failed statements and restarts
  None        \* no CTA

ASSUME CTAAssumption ==
  /\ Mute \subseteq Guild
  /\ Horizon \in Nat /\ MaxTrouble \in Nat
  /\ None \notin Id

VARIABLES
  cta,      \* table cta; a deleted row keeps its last columns as history
  now,      \* the clock of the host
  thread,   \* the event thread
  checker,  \* the scheduled task
  told,     \* how often a server was told that a CTA has finished
  trouble   \* failed statements and restarts so far

vars == <<cta, now, thread, checker, told, trouble>>

Row == [status: {"active", "finished", "deleted"}, guild: Guild, end: 0..Horizon]
NoRow == [status |-> "unused"]

(* Before the second statement of /cta delete or of /cta cancel. *)
Thread == [at: {"idle"}, cta: {None}] \cup [at: {"end", "users"}, cta: Id]
Idle == [at |-> "idle", cta |-> None]

(* "dead" after an exception that left the task, upon which the executor   *)
(* never runs it again.                                                    *)
Between == [at: {"idle", "check", "dead"}, list: SUBSET Id, cta: {None}, servers: {{}}]
Within == [at: {"finish", "announce"}, list: SUBSET Id, cta: Id, servers: SUBSET Guild]
Waiting == [at |-> "idle", list |-> {}, cta |-> None, servers |-> {}]

Exists(c) == cta[c].status \in {"active", "finished"}
Active(c) == cta[c].status = "active"
ActiveIn(g) == {c \in Id : Active(c) /\ cta[c].guild = g}

(* Mutant of Over: the end is taken to pass one unit early. *)
OverEarly(c) == cta[c].end <= now + 1

Over(c) == cta[c].end < now

-----------------------------------------------------------------------------
Init ==
  /\ cta = [c \in Id |-> NoRow]
  /\ now = 0
  /\ thread = Idle
  /\ checker = Waiting
  /\ told = [c \in Id |-> [g \in Guild |-> 0]]
  /\ trouble = 0

Tick ==
  /\ now < Horizon
  /\ now' = now + 1
  /\ UNCHANGED <<cta, thread, checker, told, trouble>>

-----------------------------------------------------------------------------
(* The event thread. *)

(* Mutant of Start: getCTAID is not asked. *)
StartUnchecked(g, c, e) ==
  /\ thread = Idle
  /\ cta[c] = NoRow /\ e >= now
  /\ cta' = [cta EXCEPT ![c] = [status |-> "active", guild |-> g, end |-> e]]
  /\ UNCHANGED <<now, thread, checker, told, trouble>>

(* /cta start.  The task only ever ends CTAs, and nobody else inserts one, *)
(* so the check and the insert may be one step.                            *)
Start(g, c, e) ==
  /\ thread = Idle
  /\ cta[c] = NoRow /\ e >= now
  /\ ActiveIn(g) = {}
  /\ cta' = [cta EXCEPT ![c] = [status |-> "active", guild |-> g, end |-> e]]
  /\ UNCHANGED <<now, thread, checker, told, trouble>>

(* /cta cancel deletes the row of the CTA, then the rows of its users. *)
Cancel(g) ==
  /\ thread = Idle
  /\ \E c \in ActiveIn(g) :
       /\ cta' = [cta EXCEPT ![c].status = "deleted"]
       /\ thread' = [at |-> "users", cta |-> c]
  /\ UNCHANGED <<now, checker, told, trouble>>

DeleteUsers ==
  /\ thread.at = "users"
  /\ thread' = Idle
  /\ UNCHANGED <<cta, now, checker, told, trouble>>

(* /cta delete keeps the row: it sets the status, then the end time. *)
Delete(g) ==
  /\ thread = Idle
  /\ \E c \in ActiveIn(g) :
       /\ cta' = [cta EXCEPT ![c].status = "finished"]
       /\ thread' = [at |-> "end", cta |-> c]
  /\ UNCHANGED <<now, checker, told, trouble>>

SetEnd ==
  /\ thread.at = "end"
  /\ cta' = [cta EXCEPT ![thread.cta].end = now]
  /\ thread' = Idle
  /\ UNCHANGED <<now, checker, told, trouble>>

(* The second statement of a command throws; the first one stays done. *)
CommandFails ==
  /\ thread # Idle
  /\ trouble < MaxTrouble
  /\ trouble' = trouble + 1
  /\ thread' = Idle
  /\ UNCHANGED <<cta, now, checker, told>>

-----------------------------------------------------------------------------
(* The scheduled task. *)

(* Mutant of Listed: what the name getJustFinishedActiveCTAs promises. *)
ListedJustFinished == {c \in Id : Active(c) /\ cta[c].end = now}

Listed == {c \in Id : Active(c)}

ListActive ==
  /\ checker.at = "idle"
  /\ checker' = [Waiting EXCEPT !.at = "check", !.list = Listed]
  /\ UNCHANGED <<cta, now, thread, told, trouble>>

(* The end time of a row that has gone is null, and isBefore throws a      *)
(* NullPointerException nobody catches.                                    *)
ReadEnd(c) ==
  /\ checker.at = "check" /\ c \in checker.list
  /\ \/ /\ Exists(c) /\ Over(c)
        /\ checker' = [checker EXCEPT !.at = "finish", !.cta = c, !.list = @ \ {c}]
     \/ /\ Exists(c) /\ ~Over(c)
        /\ checker' = [checker EXCEPT !.list = @ \ {c}]
     \/ /\ ~Exists(c)
        /\ checker' = [Waiting EXCEPT !.at = "dead"]
  /\ UNCHANGED <<cta, now, thread, told, trouble>>

(* Mutant of Finish: updateCTAStatus swallows an SQLException, as          *)
(* updateUserStatus does.                                                  *)
FinishSwallowing ==
  /\ checker.at = "finish"
  /\ \/ /\ cta' = IF Exists(checker.cta) THEN [cta EXCEPT ![checker.cta].status = "finished"] ELSE cta
        /\ UNCHANGED trouble
     \/ /\ trouble < MaxTrouble
        /\ trouble' = trouble + 1
        /\ UNCHANGED cta
  /\ checker' = [checker EXCEPT !.at = "announce", !.servers = Guild]
  /\ UNCHANGED <<now, thread, told>>

Finish ==
  /\ checker.at = "finish"
  /\ cta' = IF Exists(checker.cta) THEN [cta EXCEPT ![checker.cta].status = "finished"] ELSE cta
  /\ checker' = [checker EXCEPT !.at = "announce", !.servers = Guild]
  /\ UNCHANGED <<now, thread, told, trouble>>

(* Every server is told, whichever the CTA belongs to; one without a       *)
(* system channel ends the task with a NullPointerException.               *)
Announce(g) ==
  /\ checker.at = "announce" /\ g \in checker.servers
  /\ told' = [told EXCEPT ![checker.cta][g] = @ + 1]
  /\ checker' = [checker EXCEPT !.servers = @ \ {g}]
  /\ UNCHANGED <<cta, now, thread, trouble>>

AnnounceNowhere(g) ==
  /\ checker.at = "announce" /\ g \in checker.servers \cap Mute
  /\ checker' = [Waiting EXCEPT !.at = "dead"]
  /\ UNCHANGED <<cta, now, thread, told, trouble>>

(* Mutant of AllTold: the CTA is not forgotten. *)
AllToldKeeping ==
  /\ checker.at = "announce" /\ checker.servers = {}
  /\ checker' = [checker EXCEPT !.at = "check"]
  /\ UNCHANGED <<cta, now, thread, told, trouble>>

AllTold ==
  /\ checker.at = "announce" /\ checker.servers = {}
  /\ checker' = [checker EXCEPT !.at = "check", !.cta = None]
  /\ UNCHANGED <<cta, now, thread, told, trouble>>

RoundDone ==
  /\ checker.at = "check" /\ checker.list = {}
  /\ checker' = Waiting
  /\ UNCHANGED <<cta, now, thread, told, trouble>>

(* An SQLException is rethrown as a RuntimeException. *)
TaskFails ==
  /\ checker.at \in {"idle", "check", "finish"}
  /\ checker.at = "check" => checker.list # {}
  /\ trouble < MaxTrouble
  /\ trouble' = trouble + 1
  /\ checker' = [Waiting EXCEPT !.at = "dead"]
  /\ UNCHANGED <<cta, now, thread, told>>

(* The process dies and is started again, and with it the task. *)
Restart ==
  /\ trouble < MaxTrouble
  /\ trouble' = trouble + 1
  /\ thread' = Idle
  /\ checker' = Waiting
  /\ UNCHANGED <<cta, now, told>>

-----------------------------------------------------------------------------
Command ==
  \/ \E g \in Guild, c \in Id, e \in 0..(Horizon - 1) : Start(g, c, e)
  \/ \E g \in Guild : Cancel(g) \/ Delete(g)

SecondStatement == DeleteUsers \/ SetEnd

Round ==
  \/ ListActive
  \/ \E c \in checker.list : ReadEnd(c)
  \/ Finish
  \/ \E g \in checker.servers : Announce(g) \/ AnnounceNowhere(g)
  \/ AllTold
  \/ RoundDone

Next == Tick \/ Command \/ SecondStatement \/ CommandFails \/ Round \/ TaskFails \/ Restart

Spec == Init /\ [][Next]_vars

(* Time passes, and the executor runs the task every ten seconds as long   *)
(* as it lives.  Nothing is assumed of the users.                          *)
Fairness == WF_vars(Tick) /\ WF_vars(Round)
FairSpec == Spec /\ Fairness

-----------------------------------------------------------------------------
(* Every variable stays in its type. *)
TypeOK ==
  /\ cta \in [Id -> Row \cup {NoRow}]
  /\ now \in 0..Horizon
  /\ thread \in Thread
  /\ checker \in Between \cup Within
  /\ told \in [Id -> [Guild -> Nat]]
  /\ trouble \in 0..MaxTrouble

(* A server never has two active CTAs, although the table has no unique    *)
(* key: /cta cancel and the uploads could not tell which one is meant.     *)
OneActiveCTA ==
  \A c, d \in Id : Active(c) /\ Active(d) /\ cta[c].guild = cta[d].guild => c = d

(* A server is told at most once that a CTA has finished, though every     *)
(* round reads the table anew, rounds break off between the update and the *)
(* announcements, and the process restarts: the status is set first.       *)
ToldOnce == \A c \in Id, g \in Guild : told[c][g] <= 1

(* No server is told of the end of a CTA that is still on: what the task   *)
(* read before is still true when it speaks, whatever /cta delete has done *)
(* to the end time since.                                                  *)
ToldWhenOver ==
  \A c \in Id, g \in Guild : told[c][g] > 0 => cta[c] # NoRow /\ ~Active(c) /\ cta[c].end <= now

(* An active CTA whose time has passed is finished by one of the next      *)
(* rounds, however many CTAs come and go: only the death of the task can   *)
(* prevent it.                                                             *)
OverdueFinished ==
  \A c \in Id : Active(c) /\ Over(c) ~> ~Active(c) \/ checker.at = "dead"

-----------------------------------------------------------------------------
(* What texts of the repository say and the code does not do. *)

(* "if end time is before current time, update status to finished"         *)
(* (Tasks.java:32): a CTA whose time has passed does not stay active.      *)
OverdueEnds == \A c \in Id : Active(c) /\ Over(c) ~> ~Active(c)

=============================================================================
