------------------------------ MODULE Reminders ------------------------------
(***************************************************************************)
(* "Starts in 15 minutes": the reminder jobs of                            *)
(* src/sessions/sessions.service.ts and session-reminders.processor.ts.    *)
(*                                                                         *)
(* Every session has at most one delayed BullMQ job, under a fixed id.     *)
(* Requests save a row and leave a chore behind that they do not wait for: *)
(* remove the job, then add it again, two Redis commands with everything   *)
(* else in between.  Every instance re-issues all jobs when it boots.  A   *)
(* row is a start and a status.  A session that clearRoom pushes is saved  *)
(* and re-issued like the one that was edited.  Time is counted in leads,  *)
(* so two starts are never within the minute the processor tolerates.      *)
(* Each "Slip:" is a plausible wrong version of what follows it.           *)
(***************************************************************************)
EXTENDS Integers

CONSTANTS Sessions,
          Admins,    \* slots for requests
          Chores,    \* slots for scheduleReminder and cancelReminder: a bound
          Boots,     \* instances that may start
          Workers,
          Horizon,   \* the clock stops here: a bound
          Starts,    \* the instants an operator types
          Statuses,  \* of {"scheduled", "live", "completed"}
          Lead,      \* REMINDER_LEAD_MS
          Regimes,   \* of {"calm", "single", "shared"}
          Deaths,
          None

Clock == 0..Horizon
Rows == [start : Starts, status : Statuses]
JobType == [start : Starts, state : {"delayed", "active"}, stalled : BOOLEAN]

ASSUME ClockRuns == Horizon \in Nat /\ Lead \in Nat /\ Starts \subseteq Clock
ASSUME StatusesOfSessions ==
  "scheduled" \in Statuses /\ Statuses \subseteq {"scheduled", "live", "completed"}
ASSUME NoneIsNoRow ==
  None \notin Rows /\ None \notin JobType /\ None \notin Starts /\ None \notin Statuses /\ None \notin Sessions
ASSUME ReminderSwitches == Regimes \subseteq {"calm", "single", "shared"} /\ Deaths \subseteq BOOLEAN

VARIABLES
  now,
  row,     \* the sessions table; None where there is no row
  marked,  \* sessions somebody has saved
  job,     \* the reminder queue: one job per session, or None
  rings,   \* how often the reminder of a start went out
  used,    \* ids handed out so far
  adm, chore, boot, worker,
  mayDie,  \* whether processes are lost
  regime   \* "calm": one thing at a time, each done within a tick of the clock, the
           \* worker first; "single": requests and boots take turns, the clock and
           \* the workers do not wait for them; "shared": the code's own

tables == <<row, used>>
slots == <<adm, chore, boot, worker>>
setting == <<mayDie, regime>>
vars == <<now, tables, marked, job, rings, slots, setting>>

NoAdmin == [pc |-> "idle", session |-> None, row |-> None, status |-> None]
NoChore == [pc |-> "idle", session |-> None, row |-> None, by |-> None, behind |-> FALSE]
NoBoot == [pc |-> "idle", todo |-> {}]
NoWorker == [pc |-> "idle", session |-> None, start |-> None]
NoJob == None
Job(start) == [start |-> start, state |-> "delayed", stalled |-> FALSE]

Init ==
  /\ now = 0
  /\ row = [s \in Sessions |-> None]
  /\ marked = {}
  /\ job = [s \in Sessions |-> NoJob]
  /\ rings = [s \in Sessions |-> [t \in Starts |-> 0]]
  /\ used = {}
  /\ adm = [a \in Admins |-> NoAdmin]
  /\ chore = [c \in Chores |-> NoChore]
  /\ boot = [b \in Boots |-> NoBoot]
  /\ worker = [w \in Workers |-> NoWorker]
  /\ regime \in Regimes
  /\ mayDie \in Deaths

Due(s) == job[s] # NoJob /\ now >= job[s].start - Lead
Settled == /\ \A a \in Admins : adm[a] = NoAdmin
           /\ \A c \in Chores : chore[c] = NoChore
           /\ \A b \in Boots : boot[b] = NoBoot
Resting == Settled /\ \A w \in Workers : worker[w] = NoWorker
MayTick == regime = "calm" => Resting /\ \A s \in Sessions : ~Due(s)
MayBegin == MayTick /\ (regime = "single" => Settled)

AdmTo(a, slot) == adm' = [adm EXCEPT ![a] = slot]
WorkerTo(w, slot) == worker' = [worker EXCEPT ![w] = slot]

(* remind and cancelReminder: a chore is left behind.  Its first command is  *)
(* sent at once, after those its sender has sent before.                    *)
Sent(c) == chore[c].pc \in {"removing", "cancelling"}
Leave(by, pc, s, r) ==
  \E c \in Chores :
    /\ chore[c] = NoChore
    /\ chore' = [chore EXCEPT ![c] =
         [pc |-> pc, session |-> s, row |-> r, by |-> by,
          behind |-> \E d \in Chores : Sent(d) /\ chore[d].by = by]]
Remind(by, s, r) == Leave(by, "removing", s, r)
CancelReminder(by, s) == Leave(by, "cancelling", s, None)

-----------------------------------------------------------------------------
(* Time, and the delegates who save and forget sessions (bookmark,          *)
(* unbookmark: their one statement that matters here).                      *)
Tick ==
  /\ now < Horizon
  /\ MayTick
  /\ now' = now + 1
  /\ UNCHANGED <<tables, marked, job, rings, slots, setting>>

Bookmark(s) ==
  /\ row[s] # None /\ s \notin marked
  /\ marked' = marked \cup {s}
  /\ UNCHANGED <<now, tables, job, rings, slots, setting>>

Unbookmark(s) ==
  /\ s \in marked
  /\ marked' = marked \ {s}
  /\ UNCHANGED <<now, tables, job, rings, slots, setting>>

-----------------------------------------------------------------------------
(* The requests that move reminders.                                        *)
Create(s, r) ==
  /\ MayBegin
  /\ s \notin used
  /\ used' = used \cup {s}
  /\ row' = [row EXCEPT ![s] = r]
  /\ Remind(None, s, r)
  /\ UNCHANGED <<now, marked, job, rings, adm, boot, worker, setting>>

(* A 404 if it is gone.  An edit that places nothing (start = None) writes  *)
(* back what it read.  "status" follows the edit where one is sent.         *)
UpdateRead(a, s, start, status) ==
  /\ adm[a] = NoAdmin
  /\ MayBegin
  /\ row[s] # None
  /\ AdmTo(a, [pc |-> IF start = None THEN "savingText" ELSE "saving", session |-> s,
               row |-> IF start = None THEN row[s] ELSE [row[s] EXCEPT !.start = start],
               status |-> status])
  /\ UNCHANGED <<now, tables, marked, job, rings, chore, boot, worker, setting>>

(* Slip: the edit forgets the reminder.                                     *)
UpdateSaveOnly(a) ==
  /\ adm[a].pc \in {"saving", "savingText"}
  /\ row' = [row EXCEPT ![adm[a].session] = adm[a].row]
  /\ AdmTo(a, NoAdmin)
  /\ UNCHANGED <<now, used, marked, job, rings, chore, boot, worker, setting>>

UpdateSave(a) ==
  LET s == adm[a].session IN
  /\ adm[a].pc \in {"saving", "savingText"}
  /\ row' = [row EXCEPT ![s] = adm[a].row]
  /\ IF adm[a].pc = "saving" THEN Remind(a, s, adm[a].row) ELSE UNCHANGED chore
  /\ AdmTo(a, IF adm[a].status \in {None, adm[a].row.status} THEN NoAdmin
              ELSE [NoAdmin EXCEPT !.pc = "status", !.session = s, !.status = adm[a].status])
  /\ UNCHANGED <<now, used, marked, job, rings, boot, worker, setting>>

SetStatus(a, s, status) ==
  /\ adm[a] = NoAdmin
  /\ MayBegin
  /\ AdmTo(a, [NoAdmin EXCEPT !.pc = "status", !.session = s, !.status = status])
  /\ UNCHANGED <<now, tables, marked, job, rings, chore, boot, worker, setting>>

SetStatusRead(a) ==
  LET s == adm[a].session IN
  /\ adm[a].pc = "status"
  /\ AdmTo(a, IF row[s] = None THEN NoAdmin
              ELSE [adm[a] EXCEPT !.pc = "savingStatus",
                                  !.row = [row[s] EXCEPT !.status = adm[a].status]])
  /\ UNCHANGED <<now, tables, marked, job, rings, chore, boot, worker, setting>>

(* Slip: whatever the status, the reminder goes.                            *)
SetStatusCancels(a) ==
  /\ adm[a].pc = "savingStatus"
  /\ row' = [row EXCEPT ![adm[a].session] = adm[a].row]
  /\ CancelReminder(a, adm[a].session)
  /\ AdmTo(a, NoAdmin)
  /\ UNCHANGED <<now, used, marked, job, rings, boot, worker, setting>>

SetStatusSave(a) ==
  LET s == adm[a].session IN
  /\ adm[a].pc = "savingStatus"
  /\ row' = [row EXCEPT ![s] = adm[a].row]
  /\ IF adm[a].row.status = "scheduled" THEN Remind(a, s, adm[a].row) ELSE CancelReminder(a, s)
  /\ AdmTo(a, NoAdmin)
  /\ UNCHANGED <<now, used, marked, job, rings, boot, worker, setting>>

RemoveRead(a, s) ==
  /\ adm[a] = NoAdmin
  /\ MayBegin
  /\ row[s] # None
  /\ AdmTo(a, [NoAdmin EXCEPT !.pc = "removing", !.session = s])
  /\ UNCHANGED <<now, tables, marked, job, rings, chore, boot, worker, setting>>

RemoveMarks(a) ==
  /\ adm[a].pc = "removing"
  /\ marked' = marked \ {adm[a].session}
  /\ AdmTo(a, [adm[a] EXCEPT !.pc = "removingRow"])
  /\ UNCHANGED <<now, tables, job, rings, chore, boot, worker, setting>>

RemoveRow(a) ==
  /\ adm[a].pc = "removingRow"
  /\ row' = [row EXCEPT ![adm[a].session] = None]
  /\ CancelReminder(a, adm[a].session)
  /\ AdmTo(a, NoAdmin)
  /\ UNCHANGED <<now, used, marked, job, rings, boot, worker, setting>>

-----------------------------------------------------------------------------
(* scheduleReminder and cancelReminder.  BullMQ does not remove a job that a *)
(* worker holds, and ignores an add under an id that exists.                *)
ChoreRemove(c) ==
  LET s == chore[c].session IN
  /\ Sent(c)
  /\ chore[c].behind => ~\E d \in Chores : Sent(d) /\ chore[d].by = chore[c].by /\ ~chore[d].behind
  /\ job' = [job EXCEPT ![s] = IF @ # NoJob /\ @.state = "active" THEN @ ELSE NoJob]
  /\ chore' = [chore EXCEPT ![c] = IF @.pc = "cancelling" THEN NoChore ELSE [@ EXCEPT !.pc = "adding"]]
  /\ UNCHANGED <<now, tables, marked, rings, adm, boot, worker, setting>>

(* Slip: a reminder whose moment has passed is queued to ring at once.      *)
ChoreAddLate(c) ==
  LET s == chore[c].session
      r == chore[c].row
  IN
  /\ chore[c].pc = "adding"
  /\ job' = [job EXCEPT ![s] = IF r.status = "scheduled" /\ @ = NoJob THEN Job(r.start) ELSE @]
  /\ chore' = [chore EXCEPT ![c] = NoChore]
  /\ UNCHANGED <<now, tables, marked, rings, adm, boot, worker, setting>>

ChoreAdd(c) ==
  LET s == chore[c].session
      r == chore[c].row
      wanted == r.status = "scheduled" /\ r.start - Lead > now
  IN
  /\ chore[c].pc = "adding"
  /\ job' = [job EXCEPT ![s] = IF wanted /\ @ = NoJob THEN Job(r.start) ELSE @]
  /\ chore' = [chore EXCEPT ![c] = NoChore]
  /\ UNCHANGED <<now, tables, marked, rings, adm, boot, worker, setting>>

(* onApplicationBootstrap: every upcoming session, as it was read.          *)
Upcoming == {s \in Sessions : row[s] # None /\ row[s].status = "scheduled" /\ row[s].start > now}

BootRead(b) ==
  /\ boot[b] = NoBoot
  /\ MayBegin
  /\ Upcoming # {}
  /\ boot' = [boot EXCEPT ![b] = [pc |-> "issuing", todo |-> {<<s, row[s]>> : s \in Upcoming}]]
  /\ UNCHANGED <<now, tables, marked, job, rings, adm, chore, worker, setting>>

BootIssue(b) ==
  /\ boot[b].pc = "issuing"
  /\ \E sr \in boot[b].todo :
       LET rest == boot[b].todo \ {sr} IN
       /\ Remind(b, sr[1], sr[2])
       /\ boot' = [boot EXCEPT ![b] = IF rest = {} THEN NoBoot ELSE [@ EXCEPT !.todo = rest]]
  /\ UNCHANGED <<now, tables, marked, job, rings, adm, worker, setting>>

-----------------------------------------------------------------------------
(* The processor.                                                           *)
WorkerTakes(w, s) ==
  /\ worker[w] = NoWorker
  /\ regime = "calm" => Resting
  /\ Due(s) /\ job[s].state = "delayed"
  /\ job' = [job EXCEPT ![s].state = "active"]
  /\ WorkerTo(w, [pc |-> "reading", session |-> s, start |-> job[s].start])
  /\ UNCHANGED <<now, tables, marked, rings, adm, chore, boot, setting>>

(* Slip: whether the session is still scheduled is not asked.               *)
WorkerReadsStart(w) ==
  LET s == worker[w].session IN
  /\ worker[w].pc = "reading"
  /\ WorkerTo(w, [worker[w] EXCEPT !.pc =
       IF row[s] # None /\ row[s].start = worker[w].start THEN "asking" ELSE "done"])
  /\ UNCHANGED <<now, tables, marked, job, rings, adm, chore, boot, setting>>

WorkerReads(w) ==
  LET s == worker[w].session
      stands == row[s] = [start |-> worker[w].start, status |-> "scheduled"]
  IN
  /\ worker[w].pc = "reading"
  /\ WorkerTo(w, [worker[w] EXCEPT !.pc = IF stands THEN "asking" ELSE "done"])
  /\ UNCHANGED <<now, tables, marked, job, rings, adm, chore, boot, setting>>

WorkerAsks(w) ==
  /\ worker[w].pc = "asking"
  /\ WorkerTo(w, [worker[w] EXCEPT !.pc = IF worker[w].session \in marked THEN "ringing" ELSE "done"])
  /\ UNCHANGED <<now, tables, marked, job, rings, adm, chore, boot, setting>>

WorkerRings(w) ==
  /\ worker[w].pc = "ringing"
  /\ rings' = [rings EXCEPT ![worker[w].session][worker[w].start] = @ + 1]
  /\ WorkerTo(w, [worker[w] EXCEPT !.pc = "done"])
  /\ UNCHANGED <<now, tables, marked, job, adm, chore, boot, setting>>

(* removeOnComplete.                                                        *)
WorkerCompletes(w) ==
  /\ worker[w].pc = "done"
  /\ job' = [job EXCEPT ![worker[w].session] = NoJob]
  /\ WorkerTo(w, NoWorker)
  /\ UNCHANGED <<now, tables, marked, rings, adm, chore, boot, setting>>

(* A lost worker's job is stalled: it is taken once more, then given up.    *)
WorkerDies(w) ==
  LET s == worker[w].session IN
  /\ mayDie /\ worker[w] # NoWorker
  /\ job' = [job EXCEPT ![s] = IF @.stalled THEN NoJob
                               ELSE [@ EXCEPT !.state = "delayed", !.stalled = TRUE]]
  /\ WorkerTo(w, NoWorker)
  /\ UNCHANGED <<now, tables, marked, rings, adm, chore, boot, setting>>

(* A lost request, or chore: the rest of it never happens.                  *)
AdminDies(a) ==
  /\ mayDie /\ adm[a] # NoAdmin /\ AdmTo(a, NoAdmin)
  /\ UNCHANGED <<now, tables, marked, job, rings, chore, boot, worker, setting>>
ChoreDies(c) ==
  /\ mayDie /\ chore[c] # NoChore /\ chore' = [chore EXCEPT ![c] = NoChore]
  /\ UNCHANGED <<now, tables, marked, job, rings, adm, boot, worker, setting>>

-----------------------------------------------------------------------------
AdminStep(a) == UpdateSave(a) \/ SetStatusRead(a) \/ SetStatusSave(a) \/ RemoveMarks(a) \/ RemoveRow(a)
ChoreStep(c) == ChoreRemove(c) \/ ChoreAdd(c)
WorkerStep(w) == WorkerReads(w) \/ WorkerAsks(w) \/ WorkerRings(w) \/ WorkerCompletes(w)

Next ==
  \/ Tick
  \/ \E s \in Sessions : Bookmark(s) \/ Unbookmark(s)
  \/ \E s \in Sessions, r \in Rows : Create(s, r)
  \/ \E a \in Admins :
       \/ \E s \in Sessions, start \in Starts \cup {None}, status \in Statuses \cup {None} :
            UpdateRead(a, s, start, status)
       \/ \E s \in Sessions, status \in Statuses : SetStatus(a, s, status)
       \/ \E s \in Sessions : RemoveRead(a, s)
       \/ AdminStep(a) \/ AdminDies(a)
  \/ \E c \in Chores : ChoreStep(c) \/ ChoreDies(c)
  \/ \E b \in Boots : BootRead(b) \/ BootIssue(b)
  \/ \E w \in Workers :
       \/ \E s \in Sessions : WorkerTakes(w, s)
       \/ WorkerStep(w) \/ WorkerDies(w)

Spec == Init /\ [][Next]_vars

(* Time passes however many requests come, Redis and the database answer,   *)
(* workers take what is due.                                                *)
FairSpec ==
  /\ Spec
  /\ SF_vars(Tick)
  /\ \A a \in Admins : WF_vars(AdminStep(a))
  /\ \A c \in Chores : WF_vars(ChoreStep(c))
  /\ \A b \in Boots : WF_vars(BootIssue(b))
  /\ \A w \in Workers : WF_vars(WorkerStep(w)) /\ \A s \in Sessions : WF_vars(WorkerTakes(w, s))

-----------------------------------------------------------------------------
AdminType == [pc : {"idle", "saving", "savingText", "status", "savingStatus", "removing", "removingRow"},
              session : Sessions \cup {None}, row : Rows \cup {None},
              status : Statuses \cup {None}]
AdminSlot == {x \in AdminType : /\ x.pc # "idle" => x.session # None
                                /\ x.pc \in {"saving", "savingText", "savingStatus"} => x.row # None
                                /\ x.pc = "status" => x.status # None}
ChoreType == [pc : {"idle", "removing", "cancelling", "adding"}, session : Sessions \cup {None},
              row : Rows \cup {None}, by : Admins \cup Boots \cup {None}, behind : BOOLEAN]
ChoreSlot == {x \in ChoreType : /\ x.pc # "idle" => x.session # None
                                /\ x.pc \in {"removing", "adding"} => x.row # None}
BootSlot == [pc : {"idle", "issuing"}, todo : SUBSET (Sessions \X Rows)]
WorkerType == [pc : {"idle", "reading", "asking", "ringing", "done"},
               session : Sessions \cup {None}, start : Starts \cup {None}]
WorkerSlot == {x \in WorkerType : x.pc # "idle" => x.session # None /\ x.start # None}

(* The type invariant: a request that saves has read a row, and a chore     *)
(* that adds a job carries one.                                             *)
TypeOK ==
  /\ now \in Clock
  /\ row \in [Sessions -> Rows \cup {None}]
  /\ marked \subseteq Sessions /\ used \subseteq Sessions
  /\ job \in [Sessions -> JobType \cup {NoJob}]
  /\ rings \in [Sessions -> [Starts -> Nat]]
  /\ adm \in [Admins -> AdminSlot]
  /\ chore \in [Chores -> ChoreSlot]
  /\ boot \in [Boots -> BootSlot]
  /\ worker \in [Workers -> WorkerSlot]

(* A reminder rings once for a start, whatever edits, boots and workers     *)
(* overlap, and twice only where a worker was lost after it rang (lines     *)
(* 71-89: what is due is never queued again).                               *)
RingsOnce ==
  \A s \in Sessions, t \in Starts : rings[s][t] <= IF mayDie THEN 2 ELSE 1

Calm == regime = "calm" /\ ~mayDie

(* When everything is done, a session still ahead of its reminder has the   *)
(* job for its current start, however it was edited, reopened and re-issued *)
(* ("scheduling again replaces rather than duplicates", lines 71-76).       *)
NoReminderLost ==
  Calm /\ Resting => \A s \in Sessions :
    row[s] # None /\ row[s].status = "scheduled" /\ row[s].start - Lead > now =>
      job[s] = Job(row[s].start)

(* "If the session has since moved, gone live early, or been completed, the *)
(* claim is stale and nothing is sent" (processor, lines 23-25).  Stale jobs *)
(* there are: an edit that also changes the status leaves two chores.       *)
RingIsTrue ==
  [][Calm => \A s \in Sessions, t \in Starts : rings'[s][t] # rings[s][t] =>
       row[s] = [start |-> t, status |-> "scheduled"]]_vars

(* Whoever has saved a session that has its reminder queued gets it, unless *)
(* the session or the bookmark changes.                                     *)
SavedSessionsRing ==
  \A s \in Sessions, t \in Starts :
    (Calm /\ row[s] = [start |-> t, status |-> "scheduled"] /\ job[s] = Job(t) /\ s \in marked)
      ~> \/ rings[s][t] > 0
         \/ row[s] # [start |-> t, status |-> "scheduled"]
         \/ s \notin marked

(* Re-issuing is "safe on every boot and on every instance" (lines 106-109): *)
(* a reminder that is due for its session leaves the queue only with the     *)
(* worker that took it.  It does not: re-issuing what became due while no    *)
(* worker ran removes the job, and adds none.                                *)
DueRemindersAreTaken ==
  [][\A s \in Sessions :
       /\ Due(s) /\ row[s] = [start |-> job[s].start, status |-> "scheduled"]
       /\ job'[s] = NoJob
       => job[s].state = "active"]_vars
=============================================================================
