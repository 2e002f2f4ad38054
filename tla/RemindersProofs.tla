--------------------------- MODULE RemindersProofs ---------------------------
(***************************************************************************)
(* Proofs about Reminders.tla, for any sessions, requests, instances,      *)
(* workers and clock: type correctness; that a reminder never rings twice  *)
(* for a start, whatever overlaps; and, in the regime where each request   *)
(* is done before the next, that none is lost and that what rings is true. *)
(***************************************************************************)
EXTENDS Reminders, TLAPS

(* A worker that is busy holds the job it took, alone.                       *)
Held ==
  /\ \A w \in Workers : worker[w] # NoWorker =>
       /\ worker[w].pc # "idle"
       /\ job[worker[w].session] # NoJob
       /\ job[worker[w].session].state = "active"
       /\ job[worker[w].session].start = worker[w].start
  /\ \A v, w \in Workers :
       worker[v] # NoWorker /\ worker[w] # NoWorker /\ worker[v].session = worker[w].session => v = w

LEMMA TypeInit == Init => TypeOK
<1> USE ClockRuns, NoneIsNoRow, StatusesOfSessions
    DEF Init, TypeOK, Clock, AdminSlot, AdminType, ChoreSlot, ChoreType, BootSlot,
        WorkerSlot, WorkerType, NoAdmin, NoChore, NoBoot, NoWorker, NoJob
<1> QED  OBVIOUS

(* A chore that is left behind is well typed.                               *)
LEMMA LeaveTyped ==
  ASSUME TypeOK, NEW by \in Admins \cup Boots \cup {None}, NEW s \in Sessions,
         NEW r \in Rows \cup {None}, NEW pc \in {"removing", "cancelling"},
         pc = "removing" => r # None, Leave(by, pc, s, r)
  PROVE  chore' \in [Chores -> ChoreSlot]
<1>1. PICK c \in Chores :
        chore' = [chore EXCEPT ![c] =
          [pc |-> pc, session |-> s, row |-> r, by |-> by,
           behind |-> \E d \in Chores : Sent(d) /\ chore[d].by = by]]
  BY DEF Leave
<1>2. DEFINE slot == [pc |-> pc, session |-> s, row |-> r, by |-> by,
                      behind |-> \E d \in Chores : Sent(d) /\ chore[d].by = by]
<1>3. slot \in ChoreSlot
  <2>1. (\E d \in Chores : Sent(d) /\ chore[d].by = by) \in BOOLEAN
    OBVIOUS
  <2> QED  BY <2>1, NoneIsNoRow DEF ChoreSlot, ChoreType
<1> HIDE DEF slot
<1>4. chore' = [chore EXCEPT ![c] = slot]
  BY <1>1 DEF slot
<1> QED  BY <1>3, <1>4 DEF TypeOK

LEMMA TypeStep == TypeOK /\ Held /\ [Next]_vars => TypeOK'
<1> SUFFICES ASSUME TypeOK, Held, [Next]_vars PROVE TypeOK'
  OBVIOUS
<1> USE NoneIsNoRow DEF TypeOK, vars, tables, slots, setting
<1>1. ASSUME UNCHANGED vars PROVE TypeOK'
  BY <1>1
<1>2. ASSUME Tick PROVE TypeOK'
  BY <1>2, ClockRuns DEF Tick, Clock
<1>3. ASSUME NEW s \in Sessions, Bookmark(s) \/ Unbookmark(s) PROVE TypeOK'
  BY <1>3 DEF Bookmark, Unbookmark
<1>4. ASSUME NEW s \in Sessions, NEW r \in Rows, Create(s, r) PROVE TypeOK'
  <2>1. chore' \in [Chores -> ChoreSlot]
    BY <1>4, LeaveTyped DEF Create, Remind
  <2> QED  BY <1>4, <2>1 DEF Create
<1>5. ASSUME NEW a \in Admins, NEW s \in Sessions, NEW start \in Starts \cup {None},
             NEW status \in Statuses \cup {None}, UpdateRead(a, s, start, status)
      PROVE  TypeOK'
  <2>1. (IF start = None THEN row[s] ELSE [row[s] EXCEPT !.start = start]) \in Rows
    BY <1>5 DEF UpdateRead, Rows
  <2> QED  BY <1>5, <2>1 DEF UpdateRead, AdmTo, AdminSlot, AdminType
<1>6. ASSUME NEW a \in Admins, UpdateSave(a) PROVE TypeOK'
  <2>1. adm[a].session \in Sessions /\ adm[a].row \in Rows
    BY <1>6 DEF UpdateSave, AdminSlot, AdminType
  <2>2. chore' \in [Chores -> ChoreSlot]
    <3>1. CASE adm[a].pc = "saving"
      BY <1>6, <2>1, <3>1, LeaveTyped DEF UpdateSave, Remind
    <3>2. CASE adm[a].pc # "saving"
      BY <1>6, <3>2 DEF UpdateSave
    <3> QED  BY <3>1, <3>2
  <2>3. adm' \in [Admins -> AdminSlot]
    BY <1>6, <2>1 DEF UpdateSave, AdmTo, AdminSlot, AdminType, NoAdmin
  <2> QED  BY <1>6, <2>1, <2>2, <2>3 DEF UpdateSave
<1>7. ASSUME NEW a \in Admins, NEW s \in Sessions, NEW status \in Statuses, SetStatus(a, s, status)
      PROVE  TypeOK'
  BY <1>7 DEF SetStatus, AdmTo, AdminSlot, AdminType, NoAdmin
<1>8. ASSUME NEW a \in Admins, SetStatusRead(a) PROVE TypeOK'
  <2>1. adm[a].session \in Sessions /\ adm[a].status \in Statuses
    BY <1>8 DEF SetStatusRead, AdminSlot, AdminType
  <2>2. row[adm[a].session] # None =>
          [row[adm[a].session] EXCEPT !.status = adm[a].status] \in Rows
    BY <2>1 DEF Rows
  <2>3. adm' \in [Admins -> AdminSlot]
    <3>1. CASE row[adm[a].session] = None
      <4>1. NoAdmin \in AdminSlot
        BY DEF AdminSlot, AdminType, NoAdmin
      <4> QED  BY <1>8, <3>1, <4>1 DEF SetStatusRead, AdmTo
    <3>2. CASE row[adm[a].session] # None
      <4> DEFINE r == [row[adm[a].session] EXCEPT !.status = adm[a].status]
                 y == [adm[a] EXCEPT !.pc = "savingStatus"]
                 x == [y EXCEPT !.row = r]
      <4>1. r \in Rows
        BY <2>2, <3>2
      <4> HIDE DEF r
      <4>2. x \in AdminSlot
        <5>1. y \in AdminType /\ y.session = adm[a].session /\ y.pc = "savingStatus"
          BY <2>1 DEF AdminSlot, AdminType
        <5> HIDE DEF y
        <5>2. x \in AdminType /\ x.session = adm[a].session /\ x.pc = "savingStatus" /\ x.row = r
          BY <5>1, <4>1 DEF AdminType
        <5> HIDE DEF x
        <5> QED  BY <2>1, <4>1, <5>2 DEF AdminSlot
      <4>3. x = [adm[a] EXCEPT !.pc = "savingStatus", !.row = r]
        OBVIOUS
      <4>4. adm' = [adm EXCEPT ![a] = [adm[a] EXCEPT !.pc = "savingStatus", !.row = r]]
        BY <1>8, <3>2 DEF SetStatusRead, AdmTo, r
      <4> HIDE DEF x
      <4> QED  BY <4>2, <4>3, <4>4
    <3> QED  BY <3>1, <3>2
  <2> QED  BY <1>8, <2>3 DEF SetStatusRead
<1>9. ASSUME NEW a \in Admins, SetStatusSave(a) PROVE TypeOK'
  <2>1. adm[a].session \in Sessions /\ adm[a].row \in Rows
    BY <1>9 DEF SetStatusSave, AdminSlot, AdminType
  <2>2. chore' \in [Chores -> ChoreSlot]
    BY <1>9, <2>1, LeaveTyped DEF SetStatusSave, Remind, CancelReminder
  <2>3. adm' \in [Admins -> AdminSlot]
    BY <1>9 DEF SetStatusSave, AdmTo, AdminSlot, AdminType, NoAdmin
  <2> QED  BY <1>9, <2>1, <2>2, <2>3 DEF SetStatusSave
<1>10. ASSUME NEW a \in Admins, NEW s \in Sessions, RemoveRead(a, s) PROVE TypeOK'
  <2>1. [NoAdmin EXCEPT !.pc = "removing", !.session = s] \in AdminSlot
    BY DEF AdminSlot, AdminType, NoAdmin
  <2> QED  BY <1>10, <2>1 DEF RemoveRead, AdmTo
<1>11. ASSUME NEW a \in Admins, RemoveMarks(a) PROVE TypeOK'
  <2>1. [adm[a] EXCEPT !.pc = "removingRow"] \in AdminSlot
    <3>1. adm[a] \in AdminType /\ adm[a].session # None
      BY <1>11 DEF RemoveMarks, AdminSlot
    <3>2. PICK y : y = [adm[a] EXCEPT !.pc = "removingRow"]
      OBVIOUS
    <3>3. y \in AdminType /\ y.pc = "removingRow" /\ y.session = adm[a].session
      BY <3>1, <3>2 DEF AdminType
    <3> QED  BY <3>1, <3>2, <3>3 DEF AdminSlot
  <2> QED  BY <1>11, <2>1 DEF RemoveMarks, AdmTo
<1>19. ASSUME NEW a \in Admins, RemoveRow(a) PROVE TypeOK'
  <2>1. adm[a].session \in Sessions
    BY <1>19 DEF RemoveRow, AdminSlot, AdminType
  <2>2. chore' \in [Chores -> ChoreSlot]
    BY <1>19, <2>1, LeaveTyped DEF RemoveRow, CancelReminder
  <2>3. adm' \in [Admins -> AdminSlot]
    BY <1>19 DEF RemoveRow, AdmTo, AdminSlot, AdminType, NoAdmin
  <2> QED  BY <1>19, <2>1, <2>2, <2>3 DEF RemoveRow
<1>12. ASSUME NEW a \in Admins, AdminDies(a) PROVE TypeOK'
  BY <1>12 DEF AdminDies, AdmTo, AdminSlot, AdminType, NoAdmin
<1>13. ASSUME NEW c \in Chores, ChoreStep(c) \/ ChoreDies(c) PROVE TypeOK'
  <2>1. chore' \in [Chores -> ChoreSlot]
    <3>1. NoChore \in ChoreSlot
      BY DEF NoChore, ChoreSlot, ChoreType
    <3>2. ASSUME chore' = [chore EXCEPT ![c] = NoChore] PROVE chore' \in [Chores -> ChoreSlot]
      BY <3>1, <3>2
    <3>3. CASE ChoreRemove(c)
      <4>1. CASE chore[c].pc = "cancelling"
        <5>1. chore' = [chore EXCEPT ![c] = NoChore]
          BY <3>3, <4>1 DEF ChoreRemove
        <5> QED  BY <3>2, <5>1
      <4>2. CASE chore[c].pc = "removing"
        <5>1. chore' = [chore EXCEPT ![c] = [chore[c] EXCEPT !.pc = "adding"]]
          BY <3>3, <4>2 DEF ChoreRemove
        <5>2. chore[c] \in ChoreType /\ chore[c].session # None /\ chore[c].row # None
          BY <4>2 DEF ChoreSlot
        <5>3. PICK y : y = [chore[c] EXCEPT !.pc = "adding"]
          OBVIOUS
        <5>4. y \in ChoreType /\ y.session = chore[c].session /\ y.row = chore[c].row
          BY <5>2, <5>3 DEF ChoreType
        <5>5. y \in ChoreSlot
          BY <5>2, <5>4 DEF ChoreSlot
        <5> QED  BY <5>1, <5>3, <5>5
      <4> QED  BY <3>3, <4>1, <4>2 DEF ChoreRemove, Sent
    <3> QED  BY <1>13, <3>2, <3>3 DEF ChoreStep, ChoreAdd, ChoreDies
  <2>2. job' \in [Sessions -> JobType \cup {NoJob}]
    <3>1. CASE ChoreRemove(c)
      BY <3>1 DEF ChoreRemove
    <3>2. CASE ChoreAdd(c)
      <4>1. chore[c].row \in Rows
        BY <3>2 DEF ChoreAdd, ChoreSlot, ChoreType
      <4>2. Job(chore[c].row.start) \in JobType
        BY <4>1 DEF Job, JobType, Rows
      <4> QED  BY <3>2, <4>2 DEF ChoreAdd
    <3>3. CASE ChoreDies(c)
      BY <3>3 DEF ChoreDies
    <3> QED  BY <1>13, <3>1, <3>2, <3>3 DEF ChoreStep
  <2> QED  BY <1>13, <2>1, <2>2 DEF ChoreStep, ChoreRemove, ChoreAdd, ChoreDies
<1>14. ASSUME NEW b \in Boots, BootRead(b) PROVE TypeOK'
  <2>1. {<<s, row[s]>> : s \in Upcoming} \in SUBSET (Sessions \X Rows)
    BY DEF Upcoming
  <2> QED  BY <1>14, <2>1 DEF BootRead, BootSlot
<1>15. ASSUME NEW b \in Boots, BootIssue(b) PROVE TypeOK'
  <2>1. PICK sr \in boot[b].todo :
          /\ Remind(b, sr[1], sr[2])
          /\ boot' = [boot EXCEPT ![b] = IF boot[b].todo \ {sr} = {} THEN NoBoot
                                         ELSE [boot[b] EXCEPT !.todo = boot[b].todo \ {sr}]]
    BY <1>15 DEF BootIssue
  <2>2. sr[1] \in Sessions /\ sr[2] \in Rows
    BY DEF BootSlot
  <2>3. chore' \in [Chores -> ChoreSlot]
    BY <2>1, <2>2, LeaveTyped DEF Remind
  <2>4. boot' \in [Boots -> BootSlot]
    <3>1. boot[b] \in BootSlot /\ NoBoot \in BootSlot
      BY DEF BootSlot, NoBoot
    <3>2. [boot[b] EXCEPT !.todo = boot[b].todo \ {sr}] \in BootSlot
      BY <3>1 DEF BootSlot
    <3> QED  BY <2>1, <3>1, <3>2
  <2> QED  BY <1>15, <2>3, <2>4 DEF BootIssue
<1>16. ASSUME NEW w \in Workers, NEW s \in Sessions, WorkerTakes(w, s) PROVE TypeOK'
  <2>1. job[s] \in JobType
    BY <1>16 DEF WorkerTakes, Due
  <2> QED  BY <1>16, <2>1 DEF WorkerTakes, WorkerTo, JobType, WorkerSlot, WorkerType
<1>17. ASSUME NEW w \in Workers, WorkerStep(w) PROVE TypeOK'
  <2>1. worker[w].pc # "idle" => worker[w].session \in Sessions /\ worker[w].start \in Starts
    BY DEF WorkerSlot, WorkerType
  <2>2. worker' \in [Workers -> WorkerSlot]
    <3>1. NoWorker \in WorkerSlot
      BY DEF WorkerSlot, WorkerType, NoWorker
    <3>2. ASSUME NEW pc \in {"asking", "ringing", "done"}, worker[w].pc # "idle",
                 worker' = [worker EXCEPT ![w] = [worker[w] EXCEPT !.pc = pc]]
          PROVE  worker' \in [Workers -> WorkerSlot]
      <4>1. [worker[w] EXCEPT !.pc = pc] \in WorkerSlot
        BY <3>2 DEF WorkerSlot, WorkerType
      <4> QED  BY <3>2, <4>1
    <3>3. CASE WorkerCompletes(w)
      BY <3>1, <3>3 DEF WorkerCompletes, WorkerTo
    <3>4. CASE WorkerReads(w) \/ WorkerAsks(w) \/ WorkerRings(w)
      <4>1. worker[w].pc # "idle"
        BY <3>4 DEF WorkerReads, WorkerAsks, WorkerRings
      <4>2. PICK pc \in {"asking", "ringing", "done"} :
              worker' = [worker EXCEPT ![w] = [worker[w] EXCEPT !.pc = pc]]
        BY <3>4 DEF WorkerReads, WorkerAsks, WorkerRings, WorkerTo
      <4> QED  BY <3>2, <4>1, <4>2
    <3> QED  BY <1>17, <3>3, <3>4 DEF WorkerStep
  <2>3. rings' \in [Sessions -> [Starts -> Nat]]
    <3>1. CASE WorkerRings(w)
      <4> DEFINE s == worker[w].session
                 t == worker[w].start
      <4>1. s \in Sessions /\ t \in Starts
        BY <2>1, <3>1 DEF WorkerRings
      <4>2. rings' = [rings EXCEPT ![s] = [rings[s] EXCEPT ![t] = rings[s][t] + 1]]
        BY <3>1 DEF WorkerRings
      <4>3. [rings[s] EXCEPT ![t] = rings[s][t] + 1] \in [Starts -> Nat]
        BY <4>1
      <4> QED  BY <4>2, <4>3
    <3>2. CASE ~WorkerRings(w)
      BY <1>17, <3>2 DEF WorkerStep, WorkerReads, WorkerAsks, WorkerCompletes
    <3> QED  BY <3>1, <3>2
  <2>4. job' \in [Sessions -> JobType \cup {NoJob}]
    BY <1>17, <2>1 DEF WorkerStep, WorkerReads, WorkerAsks, WorkerRings, WorkerCompletes
  <2> QED  BY <1>17, <2>2, <2>3, <2>4
           DEF WorkerStep, WorkerReads, WorkerAsks, WorkerRings, WorkerCompletes
<1>18. ASSUME NEW w \in Workers, WorkerDies(w) PROVE TypeOK'
  <2>1. /\ worker[w].session \in Sessions
        /\ job[worker[w].session] \in JobType
    BY <1>18 DEF WorkerDies, Held, WorkerSlot, WorkerType
  <2>2. [job[worker[w].session] EXCEPT !.state = "delayed", !.stalled = TRUE] \in JobType
    BY <2>1 DEF JobType
  <2>3. job' \in [Sessions -> JobType \cup {NoJob}]
    BY <1>18, <2>1, <2>2 DEF WorkerDies
  <2>4. worker' \in [Workers -> WorkerSlot]
    BY <1>18 DEF WorkerDies, WorkerTo, WorkerSlot, WorkerType, NoWorker
  <2> QED  BY <1>18, <2>3, <2>4 DEF WorkerDies
<1> QED
  BY <1>1, <1>2, <1>3, <1>4, <1>5, <1>6, <1>7, <1>8, <1>9, <1>10, <1>11, <1>12, <1>13, <1>14,
     <1>15, <1>16, <1>17, <1>18, <1>19 DEF Next, AdminStep

-----------------------------------------------------------------------------
(* What the count of rings rests on.  A reminder that rang was due; what is *)
(* due is never queued again, so the job that rang was the last of its      *)
(* start, and only a lost worker can make it ring a second time.            *)
Rang(s, t) == IF job[s].stalled THEN rings[s][t] <= 1 ELSE rings[s][t] = 0
Counted ==
  /\ \A s \in Sessions, t \in Starts : rings[s][t] > 0 => now >= t - Lead
  /\ \A s \in Sessions : job[s] # NoJob =>
       /\ job[s].stalled => mayDie
       /\ job[s].state = "active" \/ job[s].stalled => now >= job[s].start - Lead
       /\ job[s].state = "delayed" => Rang(s, job[s].start)
  /\ \A w \in Workers : worker[w] # NoWorker =>
       IF worker[w].pc = "done"
       THEN rings[worker[w].session][worker[w].start] <= IF job[worker[w].session].stalled THEN 2 ELSE 1
       ELSE Rang(worker[w].session, worker[w].start)
RingInv == TypeOK /\ Held /\ Counted /\ RingsOnce

LEMMA RingInit == Init => RingInv
<1> SUFFICES ASSUME Init PROVE RingInv
  OBVIOUS
<1>1. TypeOK
  BY TypeInit
<1>2. Held /\ Counted
  BY DEF Init, Held, Counted
<1>3. RingsOnce
  BY DEF Init, RingsOnce
<1> QED  BY <1>1, <1>2, <1>3 DEF RingInv

(* Steps that leave queue, workers and counts alone.                        *)
LEMMA RingQuiet ==
  ASSUME RingInv, now' \in Clock, now' >= now, UNCHANGED <<job, rings, worker, mayDie>>
  PROVE  Held' /\ Counted' /\ RingsOnce'
<1> USE DEF RingInv
<1>1. Held'
  BY DEF Held
<1>2. RingsOnce'
  BY DEF RingsOnce
<1>3. now \in Int /\ now' \in Int /\ Lead \in Int /\ Starts \subseteq Int
  BY ClockRuns DEF TypeOK, Clock
<1>4. \A s \in Sessions, t \in Starts : rings'[s][t] > 0 => now' >= t - Lead
  BY <1>3 DEF Counted
<1>5. \A s \in Sessions : job'[s] # NoJob =>
       /\ job'[s].stalled => mayDie'
       /\ job'[s].state = "active" \/ job'[s].stalled => now' >= job'[s].start - Lead
       /\ job'[s].state = "delayed" => Rang(s, job[s].start)'
  <2> SUFFICES ASSUME NEW s \in Sessions, job[s] # NoJob
               PROVE  /\ job[s].stalled => mayDie
                      /\ job[s].state = "active" \/ job[s].stalled => now' >= job[s].start - Lead
                      /\ job[s].state = "delayed" => Rang(s, job[s].start)
    BY DEF Rang
  <2>1. job[s].start \in Starts
    BY DEF TypeOK, JobType
  <2>2. /\ job[s].stalled => mayDie
        /\ job[s].state = "active" \/ job[s].stalled => now >= job[s].start - Lead
        /\ job[s].state = "delayed" => Rang(s, job[s].start)
    BY Zenon DEF Counted
  <2>3. now >= job[s].start - Lead => now' >= job[s].start - Lead
    <3>1. \A x \in Int : now >= x => now' >= x
      BY <1>3
    <3>2. job[s].start \in Int
      BY <1>3, <2>1, Zenon
    <3>3. \A x \in Int : x - Lead \in Int
      BY <1>3
    <3> QED  BY <3>1, <3>2, <3>3
  <2> QED  BY <2>2, <2>3, Zenon
<1> QED  BY <1>1, <1>2, <1>4, <1>5 DEF Counted, Rang

LEMMA RingStep == RingInv /\ [Next]_vars => RingInv'
<1> SUFFICES ASSUME RingInv, [Next]_vars PROVE RingInv'
  OBVIOUS
<1>0. TypeOK'
  BY TypeStep DEF RingInv
<1> SUFFICES Held' /\ Counted' /\ RingsOnce'
  BY <1>0 DEF RingInv
<1>a. /\ now \in Int /\ now' \in Int /\ Lead \in Int /\ Starts \subseteq Int
      /\ \A s \in Sessions, t \in Starts : rings[s][t] \in Nat
      /\ \A s \in Sessions : job[s] # NoJob => job[s] \in JobType /\ job[s].start \in Starts
      /\ \A w \in Workers : worker[w] # NoWorker =>
           worker[w].session \in Sessions /\ worker[w].start \in Starts
  <2>1. \A w \in Workers : worker[w] # NoWorker => worker[w].pc # "idle"
    BY DEF RingInv, Held
  <2> QED  BY <1>0, <2>1, ClockRuns
           DEF RingInv, TypeOK, Clock, JobType, WorkerSlot, WorkerType
<1>1. ASSUME UNCHANGED <<job, rings, worker, mayDie>>, now' = now \/ Tick
      PROVE  Held' /\ Counted' /\ RingsOnce'
  <2>1. now' \in Clock /\ now' >= now
    BY <1>0, <1>1, <1>a DEF TypeOK, Tick
  <2> QED  BY <1>1, <2>1, RingQuiet
<1>2. ASSUME NEW c \in Chores, ChoreRemove(c) PROVE Held' /\ Counted' /\ RingsOnce'
  <2> DEFINE s == chore[c].session
  <2>1. /\ job' = [job EXCEPT ![s] = IF @ # NoJob /\ @.state = "active" THEN @ ELSE NoJob]
        /\ UNCHANGED <<now, rings, worker, mayDie>>
    BY <1>2 DEF ChoreRemove, setting
  <2>2. \A r \in Sessions : job'[r] = job[r] \/ (job'[r] = NoJob /\ job[r] # NoJob => job[r].state # "active")
    BY <2>1 DEF RingInv, TypeOK
  <2>3. \A r \in Sessions : job'[r] # NoJob => job'[r] = job[r]
    BY <2>1 DEF RingInv, TypeOK
  <2>4. \A w \in Workers : worker[w] # NoWorker => job'[worker[w].session] = job[worker[w].session]
    BY <1>a, <2>1, <2>2 DEF RingInv, Held, TypeOK
  <2>5. Held'
    BY <2>1, <2>4 DEF RingInv, Held
  <2>6. \A r \in Sessions : job'[r] # NoJob =>
          /\ job'[r].stalled => mayDie'
          /\ job'[r].state = "active" \/ job'[r].stalled => now' >= job'[r].start - Lead
          /\ job'[r].state = "delayed" => Rang(r, job[r].start)'
    BY <2>1, <2>3 DEF RingInv, Counted, Rang
  <2>7. \A w \in Workers : worker'[w] # NoWorker =>
          IF worker'[w].pc = "done"
          THEN rings'[worker'[w].session][worker'[w].start] <= IF job'[worker'[w].session].stalled THEN 2 ELSE 1
          ELSE Rang(worker[w].session, worker[w].start)'
    BY <2>1, <2>4 DEF RingInv, Counted, Rang
  <2>8. Counted'
    BY <2>1, <2>6, <2>7 DEF RingInv, Counted
  <2> QED  BY <2>1, <2>5, <2>8 DEF RingInv, RingsOnce
<1>3. ASSUME NEW c \in Chores, ChoreAdd(c) PROVE Held' /\ Counted' /\ RingsOnce'
  <2> DEFINE s == chore[c].session
             t == chore[c].row.start
  <2>1. s \in Sessions /\ t \in Starts
    BY <1>3 DEF ChoreAdd, RingInv, TypeOK, ChoreSlot, ChoreType, Rows
  <2>2. /\ \A r \in Sessions :
             \/ job'[r] = job[r]
             \/ r = s /\ job[r] = NoJob /\ job'[r] = Job(t) /\ t - Lead > now
        /\ UNCHANGED <<now, rings, worker, mayDie>>
    BY <1>3 DEF ChoreAdd, setting, RingInv, TypeOK
  <2> HIDE DEF s, t
  <2>3. rings[s][t] > 0 => ~(t - Lead > now)
    <3>1. rings[s][t] > 0 => now >= t - Lead
      BY <2>1, Zenon DEF RingInv, Counted
    <3>2. t \in Int
      BY <1>a, <2>1, Zenon
    <3>3. \A x \in Int : now >= x - Lead => ~(x - Lead > now)
      BY <1>a
    <3> QED  BY <3>1, <3>2, <3>3
  <2>4. \A w \in Workers : worker[w] # NoWorker => job'[worker[w].session] = job[worker[w].session]
    BY <1>a, <2>2 DEF RingInv, Held
  <2>5. Held'
    BY <2>2, <2>4 DEF RingInv, Held
  <2>6. \A r \in Sessions : job'[r] # NoJob =>
         /\ job'[r].stalled => mayDie'
         /\ job'[r].state = "active" \/ job'[r].stalled => now' >= job'[r].start - Lead
         /\ job'[r].state = "delayed" => Rang(r, job[r].start)'
    <3> SUFFICES ASSUME NEW r \in Sessions, job'[r] # NoJob
                 PROVE  /\ job'[r].stalled => mayDie'
                        /\ job'[r].state = "active" \/ job'[r].stalled => now' >= job'[r].start - Lead
                        /\ job'[r].state = "delayed" => Rang(r, job[r].start)'
      OBVIOUS
    <3>1. CASE job'[r] = job[r]
      BY <2>2, <3>1 DEF RingInv, Counted, Rang
    <3>2. CASE r = s /\ job'[r] = Job(t) /\ t - Lead > now
      <4>1. rings[s][t] = 0
        BY <3>2, <2>1, <2>3, <1>a
      <4> QED  BY <3>2, <4>1, <2>2 DEF Job, Rang
    <3> QED  BY <2>2, <3>1, <3>2
  <2>7. Counted'
    BY <2>2, <2>4, <2>6, <1>a DEF RingInv, Counted, Rang
  <2> QED  BY <2>2, <2>5, <2>7 DEF RingInv, RingsOnce
<1>4. ASSUME NEW w \in Workers, NEW s \in Sessions, WorkerTakes(w, s)
      PROVE  Held' /\ Counted' /\ RingsOnce'
  <2> DEFINE t == job[s].start
  <2>1. /\ worker[w] = NoWorker /\ job[s] # NoJob /\ now >= t - Lead /\ job[s].state = "delayed"
        /\ job' = [job EXCEPT ![s].state = "active"]
        /\ worker' = [worker EXCEPT ![w] = [pc |-> "reading", session |-> s, start |-> t]]
        /\ UNCHANGED <<now, rings, mayDie>>
    BY <1>4 DEF WorkerTakes, WorkerTo, Due, setting
  <2>2. job[s] \in JobType /\ t \in Starts
    BY <1>a, <2>1
  <2>3. job'[s] \in JobType /\ job'[s].state = "active" /\ job'[s].start = t /\ job'[s].stalled = job[s].stalled
    BY <2>1, <2>2 DEF RingInv, TypeOK, JobType
  <2>4. \A r \in Sessions : r # s => job'[r] = job[r]
    BY <2>1 DEF RingInv, TypeOK
  <2>5. \A v \in Workers : v # w => worker'[v] = worker[v]
    BY <2>1 DEF RingInv, TypeOK
  <2>6. worker'[w].session = s /\ worker'[w].start = t /\ worker'[w].pc = "reading"
    BY <2>1 DEF RingInv, TypeOK
  <2>7. \A v \in Workers : worker[v] # NoWorker => worker[v].session # s
    BY <2>1 DEF RingInv, Held
  <2>8. job'[s] # NoJob
    BY <2>3, NoneIsNoRow DEF NoJob
  <2> HIDE DEF t
  <2>9. Held'
    BY <1>a, <2>3, <2>4, <2>5, <2>6, <2>7, <2>8 DEF RingInv, Held
  <2>10. Rang(s, t)
    BY <2>1 DEF RingInv, Counted, t
  <2>11. \A r \in Sessions : job'[r] # NoJob =>
         /\ job'[r].stalled => mayDie'
         /\ job'[r].state = "active" \/ job'[r].stalled => now' >= job'[r].start - Lead
         /\ job'[r].state = "delayed" => Rang(r, job[r].start)'
    <3> SUFFICES ASSUME NEW r \in Sessions, job'[r] # NoJob
                 PROVE  /\ job'[r].stalled => mayDie'
                        /\ job'[r].state = "active" \/ job'[r].stalled => now' >= job'[r].start - Lead
                        /\ job'[r].state = "delayed" => Rang(r, job[r].start)'
      OBVIOUS
    <3>1. CASE r = s
      <4>1. now >= t - Lead /\ (job[s].stalled => mayDie)
        BY <2>1 DEF RingInv, Counted, t
      <4> QED  BY <3>1, <2>1, <2>3, <4>1
    <3>2. CASE r # s
      BY <2>1, <2>4, <3>2 DEF RingInv, Counted, Rang
    <3> QED  BY <3>1, <3>2
  <2>12. \A v \in Workers : worker'[v] # NoWorker =>
       IF worker'[v].pc = "done"
       THEN rings'[worker'[v].session][worker'[v].start] <= IF job'[worker'[v].session].stalled THEN 2 ELSE 1
       ELSE Rang(worker[v].session, worker[v].start)'
    <3> SUFFICES ASSUME NEW v \in Workers, worker'[v] # NoWorker
                 PROVE  IF worker'[v].pc = "done"
                        THEN rings'[worker'[v].session][worker'[v].start] <= IF job'[worker'[v].session].stalled THEN 2 ELSE 1
                        ELSE Rang(worker[v].session, worker[v].start)'
      OBVIOUS
    <3>1. CASE v = w
      BY <3>1, <2>1, <2>3, <2>6, <2>10 DEF Rang
    <3>2. CASE v # w
      <4>1. worker[v] # NoWorker /\ worker[v].session # s /\ worker[v].session \in Sessions
        BY <3>2, <2>5, <2>7, <1>a
      <4>2. job'[worker[v].session] = job[worker[v].session]
        BY <4>1, <2>4
      <4> QED  BY <3>2, <2>1, <2>5, <4>1, <4>2 DEF RingInv, Counted, Rang
    <3> QED  BY <3>1, <3>2
  <2>13. Counted'
    BY <2>1, <2>11, <2>12 DEF RingInv, Counted
  <2> QED  BY <2>1, <2>9, <2>13 DEF RingInv, RingsOnce
<1>5. ASSUME NEW w \in Workers, WorkerReads(w) \/ WorkerAsks(w) PROVE Held' /\ Counted' /\ RingsOnce'
  <2>1. PICK pc \in {"asking", "ringing", "done"} : worker' = [worker EXCEPT ![w] = [worker[w] EXCEPT !.pc = pc]]
    BY <1>5 DEF WorkerReads, WorkerAsks, WorkerTo
  <2>2. worker[w].pc \in {"reading", "asking"} /\ UNCHANGED <<now, job, rings, mayDie>>
    BY <1>5 DEF WorkerReads, WorkerAsks, setting
  <2>3. worker[w] # NoWorker
    BY <2>2 DEF NoWorker
  <2>4. /\ worker'[w].session = worker[w].session /\ worker'[w].start = worker[w].start
        /\ worker'[w].pc = pc
        /\ \A v \in Workers : v # w => worker'[v] = worker[v]
    BY <2>1 DEF RingInv, TypeOK, WorkerSlot, WorkerType
  <2>5. Held'
    BY <2>2, <2>3, <2>4 DEF RingInv, Held
  <2>6. Rang(worker[w].session, worker[w].start)
    BY <2>2, <2>3 DEF RingInv, Counted
  <2>7. \A v \in Workers : worker'[v] # NoWorker =>
       IF worker'[v].pc = "done"
       THEN rings'[worker'[v].session][worker'[v].start] <= IF job'[worker'[v].session].stalled THEN 2 ELSE 1
       ELSE Rang(worker[v].session, worker[v].start)'
    <3> SUFFICES ASSUME NEW v \in Workers, worker'[v] # NoWorker
                 PROVE  IF worker'[v].pc = "done"
                        THEN rings'[worker'[v].session][worker'[v].start] <= IF job'[worker'[v].session].stalled THEN 2 ELSE 1
                        ELSE Rang(worker[v].session, worker[v].start)'
      OBVIOUS
    <3>1. CASE v = w
      <4>1. rings[worker[w].session][worker[w].start] \in Nat
        BY <1>a, <2>3
      <4> QED  BY <3>1, <2>2, <2>4, <2>6, <4>1 DEF Rang
    <3>2. CASE v # w
      BY <3>2, <2>2, <2>4 DEF RingInv, Counted, Rang
    <3> QED  BY <3>1, <3>2
  <2>8. Counted'
    BY <2>2, <2>7 DEF RingInv, Counted, Rang
  <2> QED  BY <2>2, <2>5, <2>8 DEF RingInv, RingsOnce
<1>6. ASSUME NEW w \in Workers, WorkerRings(w) PROVE Held' /\ Counted' /\ RingsOnce'
  <2> DEFINE s == worker[w].session
             t == worker[w].start
  <2>1. /\ worker[w].pc = "ringing" /\ worker[w] # NoWorker
        /\ rings' = [rings EXCEPT ![s][t] = @ + 1]
        /\ worker' = [worker EXCEPT ![w] = [worker[w] EXCEPT !.pc = "done"]]
        /\ UNCHANGED <<now, job, mayDie>>
    BY <1>6 DEF WorkerRings, WorkerTo, setting, NoWorker
  <2>2. s \in Sessions /\ t \in Starts /\ rings[s][t] \in Nat
    BY <1>a, <2>1
  <2>3. /\ rings'[s][t] = rings[s][t] + 1
        /\ \A r \in Sessions, u \in Starts : <<r, u>> # <<s, t>> => rings'[r][u] = rings[r][u]
    BY <2>1, <2>2 DEF RingInv, TypeOK
  <2>4. /\ worker'[w].session = s /\ worker'[w].start = t /\ worker'[w].pc = "done"
        /\ \A v \in Workers : v # w => worker'[v] = worker[v]
    BY <2>1 DEF RingInv, TypeOK, WorkerSlot, WorkerType
  <2>5. /\ job[s] # NoJob /\ job[s].state = "active" /\ job[s].start = t
        /\ \A v \in Workers : worker[v] # NoWorker /\ worker[v].session = s => v = w
    BY <2>1 DEF RingInv, Held
  <2>6. Rang(s, t) /\ now >= t - Lead /\ (job[s].stalled => mayDie)
    BY <2>1, <2>2, <2>5 DEF RingInv, Counted
  <2> HIDE DEF s, t
  <2>7. Held'
    <3>1. \A v \in Workers : worker'[v] # NoWorker => worker[v] # NoWorker
      BY <2>1, <2>4
    <3>2. \A v \in Workers : /\ worker'[v].session = worker[v].session /\ worker'[v].start = worker[v].start
                            /\ worker'[v].pc = "idle" => worker[v].pc = "idle"
      BY <2>1, <2>4 DEF s, t
    <3> QED  BY <2>1, <3>1, <3>2 DEF RingInv, Held
  <2>8. \A r \in Sessions, u \in Starts : rings'[r][u] > 0 => now' >= u - Lead
    BY <2>1, <2>3, <2>6 DEF RingInv, Counted
  <2>9. \A r \in Sessions : job'[r] # NoJob =>
         /\ job'[r].stalled => mayDie'
         /\ job'[r].state = "active" \/ job'[r].stalled => now' >= job'[r].start - Lead
         /\ job'[r].state = "delayed" => Rang(r, job[r].start)'
    BY <1>a, <2>1, <2>3, <2>5 DEF RingInv, Counted, Rang
  <2>10. \A v \in Workers : worker'[v] # NoWorker =>
       IF worker'[v].pc = "done"
       THEN rings'[worker'[v].session][worker'[v].start] <= IF job'[worker'[v].session].stalled THEN 2 ELSE 1
       ELSE Rang(worker[v].session, worker[v].start)'
    <3> SUFFICES ASSUME NEW v \in Workers, worker'[v] # NoWorker
                 PROVE  IF worker'[v].pc = "done"
                        THEN rings'[worker'[v].session][worker'[v].start] <= IF job'[worker'[v].session].stalled THEN 2 ELSE 1
                        ELSE Rang(worker[v].session, worker[v].start)'
      OBVIOUS
    <3>1. CASE v = w
      BY <3>1, <2>1, <2>2, <2>3, <2>4, <2>6 DEF Rang
    <3>2. CASE v # w
      <4>1. worker[v] # NoWorker /\ worker[v].session # s
        BY <3>2, <2>4, <2>5
      <4>2. rings'[worker[v].session][worker[v].start] = rings[worker[v].session][worker[v].start]
        BY <4>1, <2>3, <1>a
      <4> QED  BY <3>2, <4>1, <4>2, <2>1, <2>4 DEF RingInv, Counted, Rang
    <3> QED  BY <3>1, <3>2
  <2>11. Counted'
    BY <2>8, <2>9, <2>10 DEF Counted
  <2>12. RingsOnce'
    BY <2>1, <2>2, <2>3, <2>6 DEF RingInv, RingsOnce, Rang
  <2> QED  BY <2>7, <2>11, <2>12
<1>7. ASSUME NEW w \in Workers, WorkerCompletes(w) \/ WorkerDies(w) PROVE Held' /\ Counted' /\ RingsOnce'
  <2> DEFINE s == worker[w].session
             t == worker[w].start
  <2>1. /\ worker[w] # NoWorker
        /\ worker' = [worker EXCEPT ![w] = NoWorker]
        /\ UNCHANGED <<now, rings, mayDie>>
    BY <1>7 DEF WorkerCompletes, WorkerDies, WorkerTo, setting, NoWorker
  <2>2. s \in Sessions /\ t \in Starts /\ rings[s][t] \in Nat
    BY <1>a, <2>1
  <2>3. /\ job[s] # NoJob /\ job[s].state = "active" /\ job[s].start = t
        /\ \A v \in Workers : worker[v] # NoWorker /\ worker[v].session = s => v = w
    BY <2>1 DEF RingInv, Held
  <2>4. job[s] \in JobType
    BY <1>a, <2>2, <2>3
  <2>5. /\ \A r \in Sessions : r # s => job'[r] = job[r]
        /\ job'[s] = NoJob \/ ( /\ mayDie /\ ~job[s].stalled
                               /\ job'[s] = [job[s] EXCEPT !.state = "delayed", !.stalled = TRUE])
    BY <1>7, <2>2 DEF WorkerCompletes, WorkerDies, RingInv, TypeOK
  <2>6. ~job[s].stalled => rings[s][t] <= 1
    BY <2>1, <2>2 DEF RingInv, Counted, Rang
  <2>7. now >= t - Lead
    BY <2>2, <2>3 DEF RingInv, Counted
  <2>8. \A v \in Workers : worker'[v] # NoWorker =>
          /\ worker'[v] = worker[v] /\ worker[v] # NoWorker
          /\ worker[v].session \in Sessions /\ job'[worker[v].session] = job[worker[v].session]
    BY <1>a, <2>1, <2>3, <2>5 DEF RingInv, TypeOK
  <2> HIDE DEF s, t
  <2>9. Held'
    BY <2>8 DEF RingInv, Held
  <2>10. \A r \in Sessions : job'[r] # NoJob =>
         /\ job'[r].stalled => mayDie'
         /\ job'[r].state = "active" \/ job'[r].stalled => now' >= job'[r].start - Lead
         /\ job'[r].state = "delayed" => Rang(r, job[r].start)'
    <3> SUFFICES ASSUME NEW r \in Sessions, job'[r] # NoJob
                 PROVE  /\ job'[r].stalled => mayDie'
                        /\ job'[r].state = "active" \/ job'[r].stalled => now' >= job'[r].start - Lead
                        /\ job'[r].state = "delayed" => Rang(r, job[r].start)'
      OBVIOUS
    <3>1. CASE r = s
      <4>1. /\ mayDie /\ ~job[s].stalled
            /\ job'[s].state = "delayed" /\ job'[s].stalled = TRUE /\ job'[s].start = t
        BY <3>1, <2>3, <2>4, <2>5 DEF JobType
      <4> QED  BY <3>1, <4>1, <2>1, <2>6, <2>7 DEF Rang
    <3>2. CASE r # s
      BY <3>2, <2>1, <2>5 DEF RingInv, Counted, Rang
    <3> QED  BY <3>1, <3>2
  <2>11. Counted'
    BY <2>1, <2>8, <2>10 DEF RingInv, Counted, Rang
  <2> QED  BY <2>1, <2>9, <2>11 DEF RingInv, RingsOnce
<1>8. ASSUME \/ Tick
             \/ \E s \in Sessions : Bookmark(s) \/ Unbookmark(s)
             \/ \E s \in Sessions, r \in Rows : Create(s, r)
             \/ \E a \in Admins :
                  \/ \E s \in Sessions, start \in Starts \cup {None}, status \in Statuses \cup {None} :
                       UpdateRead(a, s, start, status)
                  \/ \E s \in Sessions, status \in Statuses : SetStatus(a, s, status)
                  \/ \E s \in Sessions : RemoveRead(a, s)
                  \/ AdminStep(a) \/ AdminDies(a)
             \/ \E c \in Chores : ChoreDies(c)
             \/ \E b \in Boots : BootRead(b) \/ BootIssue(b)
      PROVE  Held' /\ Counted' /\ RingsOnce'
  <2>1. UNCHANGED <<job, rings, worker, mayDie>> /\ (now' = now \/ Tick)
    BY <1>8 DEF Tick, Bookmark, Unbookmark, Create, UpdateRead, SetStatus, RemoveRead, AdminStep,
                UpdateSave, SetStatusRead, SetStatusSave, RemoveMarks, RemoveRow, AdminDies, ChoreDies,
                BootRead, BootIssue, slots, setting
  <2> QED  BY <2>1, <1>1
<1>9. CASE UNCHANGED vars
  BY <1>9, <1>1 DEF vars, slots, setting
<1> QED
  BY <1>2, <1>3, <1>4, <1>5, <1>6, <1>7, <1>8, <1>9 DEF Next, ChoreStep, WorkerStep

LEMMA RingHolds == Spec => []RingInv
BY RingInit, RingStep, PTL DEF Spec

(* Type correctness, for any sessions, requests, instances, workers and clock. *)
THEOREM TypeCorrect == Spec => []TypeOK
<1>1. RingInv => TypeOK
  BY DEF RingInv
<1> QED  BY <1>1, RingHolds, PTL

(* A reminder rings at most once for a start, and twice only where a worker  *)
(* was lost, whatever edits, boots and workers overlap.                      *)
THEOREM NeverRingsTwice == Spec => []RingsOnce
<1>1. RingInv => RingsOnce
  BY DEF RingInv
<1> QED  BY <1>1, RingHolds, PTL

-----------------------------------------------------------------------------
(* No reminder is lost in the calm regime.  A session that is still ahead   *)
(* of its reminder has its job, and nobody is about to remove it; or one    *)
(* chore is about to add the job, and the others about the session add none *)
(* and have removed what they remove before it does.                        *)
Wanted(s) == row[s] # None /\ row[s].status = "scheduled" /\ row[s].start - Lead > now
Serves(c, s) == chore[c] # NoChore /\ chore[c].session = s

Queued(s) == job[s] = Job(row[s].start) /\ \A c \in Chores : Serves(c, s) => chore[c].pc = "adding"
GivesWay(d, c) ==
  /\ chore[d].pc \in {"removing", "adding"} /\ chore[d].row.status # "scheduled"
  /\ Sent(d) => Sent(c) /\ chore[c].behind /\ chore[d].by = chore[c].by /\ ~chore[d].behind
WillAdd(c, s) ==
  /\ Serves(c, s) /\ chore[c].pc \in {"removing", "adding"} /\ chore[c].row = row[s]
  /\ chore[c].pc = "adding" => job[s] = NoJob
  /\ \A d \in Chores \ {c} : Serves(d, s) => GivesWay(d, c)
Promised(s) == Wanted(s) => Queued(s) \/ \E c \in Chores : WillAdd(c, s)

(* One request at a time: what it has read is what is there, and the chores *)
(* in flight are its own.                                                   *)
ChoresIdle == \A c \in Chores : chore[c] = NoChore
AdmAlone(a) ==
  adm[a] # NoAdmin =>
    /\ \A b \in Admins \ {a} : adm[b] = NoAdmin
    /\ \A b \in Boots : boot[b] = NoBoot
    /\ adm[a].pc \in {"saving", "savingText", "removing", "removingRow"} => ChoresIdle
    /\ adm[a].pc = "savingText" => adm[a].row = row[adm[a].session]
    /\ adm[a].pc = "savingStatus" =>
         row[adm[a].session] # None /\ adm[a].row = [row[adm[a].session] EXCEPT !.status = adm[a].status]
    /\ \A c \in Chores : chore[c] # NoChore =>
         /\ chore[c].by = a /\ chore[c].session = adm[a].session /\ chore[c].row = row[adm[a].session]
         /\ chore[c].pc \in {"removing", "adding"} /\ ~chore[c].behind
         /\ adm[a].status # chore[c].row.status
    /\ \A c, d \in Chores : chore[c] # NoChore /\ chore[d] # NoChore => c = d
BootAlone(b) ==
  boot[b] # NoBoot =>
    /\ \A a \in Admins : adm[a] = NoAdmin
    /\ \A c \in Boots \ {b} : boot[c] = NoBoot
    /\ \A sr \in boot[b].todo : sr[2] = row[sr[1]] /\ \A c \in Chores : ~Serves(c, sr[1])

Promises == \A s \in Sessions : Promised(s)
InHand == \A s \in Sessions : job[s] # NoJob /\ job[s].state = "active" =>
            \E w \in Workers : worker[w] # NoWorker /\ worker[w].session = s
WorkerAlone == \A w \in Workers : worker[w] # NoWorker => Settled /\ ~Wanted(worker[w].session)
OneRequest == \A a \in Admins : AdmAlone(a)
OneBoot == \A b \in Boots : BootAlone(b)

Kept == Promises /\ InHand /\ WorkerAlone /\ OneRequest /\ OneBoot
KeptInv == RingInv /\ (Calm => Kept)

LEMMA KeptInit == Init => KeptInv
<1> SUFFICES ASSUME Init PROVE Kept
  BY RingInit DEF KeptInv
<1>1. Promises /\ InHand /\ WorkerAlone
  BY DEF Init, Promises, Promised, Wanted, InHand, WorkerAlone
<1>2. OneRequest /\ OneBoot
  BY DEF Init, OneRequest, AdmAlone, OneBoot, BootAlone
<1> QED  BY <1>1, <1>2 DEF Kept

(* The chore that is left behind takes a free slot, and the others stay.    *)
LEMMA LeftBehind ==
  ASSUME TypeOK, NEW by, NEW pc \in {"removing", "cancelling"}, NEW s, NEW r, Leave(by, pc, s, r)
  PROVE  \E c \in Chores :
           /\ chore[c] = NoChore /\ chore'[c] # NoChore
           /\ chore'[c].pc = pc /\ chore'[c].session = s /\ chore'[c].row = r /\ chore'[c].by = by
           /\ (\E d \in Chores : Sent(d) /\ chore[d].by = by) => chore'[c].behind
           /\ ~(\E d \in Chores : Sent(d) /\ chore[d].by = by) => ~chore'[c].behind
           /\ \A d \in Chores \ {c} : chore'[d] = chore[d]
<1>1. PICK b \in BOOLEAN : b = (\E d \in Chores : Sent(d) /\ chore[d].by = by)
  OBVIOUS
<1>2. PICK c \in Chores :
        /\ chore[c] = NoChore
        /\ chore' = [chore EXCEPT ![c] = [pc |-> pc, session |-> s, row |-> r, by |-> by, behind |-> b]]
  BY <1>1 DEF Leave
<1>3. chore'[c] = [pc |-> pc, session |-> s, row |-> r, by |-> by, behind |-> b]
  BY <1>2 DEF TypeOK
<1>4. chore'[c] # NoChore
  BY <1>3 DEF NoChore
<1> QED  BY <1>1, <1>2, <1>3, <1>4 DEF TypeOK

(* The promises outlive a step that leaves a chore behind for one session:  *)
(* where that session is still to be reminded, the chore carries its row    *)
(* and the others about it give way.                                        *)
LEMMA PromisesAfterLeave ==
  ASSUME TypeOK, Promises, NEW by, NEW pc \in {"removing", "cancelling"}, NEW s \in Sessions, NEW r,
         Leave(by, pc, s, r), now' = now, job' = job,
         \A x \in Sessions \ {s} : row'[x] = row[x],
         row'[s] # None /\ row'[s].status = "scheduled" =>
           /\ pc = "removing" /\ r = row'[s]
           /\ \A d \in Chores : Serves(d, s) =>
                /\ chore[d].pc \in {"removing", "adding"} /\ chore[d].row.status # "scheduled"
                /\ chore[d].by = by /\ ~chore[d].behind
  PROVE  Promises'
<1>1. PICK c \in Chores :
        /\ chore[c] = NoChore /\ chore'[c] # NoChore
        /\ chore'[c].pc = pc /\ chore'[c].session = s /\ chore'[c].row = r /\ chore'[c].by = by
        /\ (\E d \in Chores : Sent(d) /\ chore[d].by = by) => chore'[c].behind
        /\ \A d \in Chores \ {c} : chore'[d] = chore[d]
  BY LeftBehind
<1> SUFFICES ASSUME NEW x \in Sessions, Wanted(x)'
             PROVE  Queued(x)' \/ \E e \in Chores : WillAdd(e, x)'
  BY DEF Promises, Promised
<1>2. CASE x = s
  <2>1. pc = "removing" /\ r = row'[s]
    BY <1>2 DEF Wanted
  <2>2. ASSUME NEW d \in Chores \ {c}, Serves(d, s)' PROVE GivesWay(d, c)'
    <3>1. /\ chore[d].pc \in {"removing", "adding"} /\ chore[d].row.status # "scheduled"
          /\ chore[d].by = by /\ ~chore[d].behind
      BY <1>1, <1>2, <2>2 DEF Wanted, Serves
    <3>2. Sent(d) => chore'[c].behind
      BY <1>1, <3>1
    <3> QED  BY <1>1, <2>1, <3>1, <3>2 DEF GivesWay, Sent
  <2>3. WillAdd(c, s)'
    BY <1>1, <2>1, <2>2 DEF WillAdd, Serves
  <2> QED  BY <1>2, <2>3
<1>3. CASE x # s
  <2>1. Wanted(x) /\ row'[x] = row[x]
    BY <1>3 DEF Wanted
  <2>2. ~Serves(c, x) /\ ~Serves(c, x)'
    BY <1>1, <1>3 DEF Serves
  <2>3. CASE Queued(x)
    BY <1>1, <2>1, <2>2, <2>3 DEF Queued, Serves
  <2>4. ASSUME NEW e \in Chores, WillAdd(e, x) PROVE WillAdd(e, x)'
    <3>1. e # c /\ chore'[e] = chore[e]
      BY <1>1, <2>2, <2>4 DEF WillAdd
    <3>2. ASSUME NEW d \in Chores \ {e}, Serves(d, x)' PROVE GivesWay(d, e)'
      <4>1. chore'[d] = chore[d] /\ Serves(d, x)
        BY <1>1, <2>2, <3>2 DEF Serves
      <4>2. GivesWay(d, e)
        BY <2>4, <4>1 DEF WillAdd
      <4> QED  BY <3>1, <4>1, <4>2 DEF GivesWay, Sent
    <3> QED  BY <2>1, <2>4, <3>1, <3>2 DEF WillAdd, Serves
  <2> QED  BY <2>1, <2>3, <2>4 DEF Promises, Promised
<1> QED  BY <1>2, <1>3

(* Where nothing that a promise reads has moved, it stands.                 *)
LEMMA PromisesStand ==
  ASSUME Promises, UNCHANGED <<row, job, chore, now>>
  PROVE  Promises'
BY DEF Promises, Promised, Wanted, Queued, Serves, WillAdd, GivesWay, Sent

(* While a worker is busy nothing else is: a step of anybody else finds no  *)
(* worker busy.                                                             *)
LEMMA WorkersStand ==
  ASSUME InHand, WorkerAlone, ~Settled, UNCHANGED <<job, worker>>
  PROVE  InHand' /\ WorkerAlone'
<1>1. \A w \in Workers : worker[w] = NoWorker
  BY DEF WorkerAlone
<1> QED  BY <1>1 DEF InHand, WorkerAlone

(* The clock, and what begins: a request, or an instance.                   *)
LEMMA KeptBegin ==
  ASSUME RingInv, Calm, Kept,
         \/ Tick
         \/ \E s \in Sessions, r \in Rows : Create(s, r)
         \/ \E a \in Admins :
              \/ \E s \in Sessions, start \in Starts \cup {None}, status \in Statuses \cup {None} :
                   UpdateRead(a, s, start, status)
              \/ \E s \in Sessions, status \in Statuses : SetStatus(a, s, status)
              \/ \E s \in Sessions : RemoveRead(a, s)
         \/ \E b \in Boots : BootRead(b)
  PROVE  Kept'
<1> USE DEF Kept
<1>0. TypeOK
  BY DEF RingInv
<1>1. Resting
  BY DEF Tick, Create, UpdateRead, SetStatus, RemoveRead, BootRead, MayBegin, MayTick, Calm
<1>2. /\ \A a \in Admins : adm[a] = NoAdmin
      /\ \A c \in Chores : chore[c] = NoChore
      /\ \A b \in Boots : boot[b] = NoBoot
      /\ \A w \in Workers : worker[w] = NoWorker
  BY <1>1 DEF Resting, Settled
<1>3. job' = job /\ worker' = worker
  BY DEF Tick, Create, UpdateRead, SetStatus, RemoveRead, BootRead, slots
<1>4. InHand' /\ WorkerAlone'
  BY <1>2, <1>3 DEF InHand, WorkerAlone
<1>5. ASSUME Tick PROVE Kept'
  <2>1. UNCHANGED <<row, job, chore, adm, boot>> /\ now' = now + 1 /\ now \in Int
    BY <1>0, <1>5 DEF Tick, tables, slots, TypeOK, Clock
  <2>2. Promises'
    <3> SUFFICES ASSUME NEW s \in Sessions, Wanted(s)' PROVE Queued(s)'
      BY DEF Promises, Promised
    <3>1. Wanted(s)
      <4>1. row[s].start \in Int /\ Lead \in Int
        BY <1>0, <2>1, ClockRuns, NoneIsNoRow DEF TypeOK, Rows, Clock, Wanted
      <4>2. row[s].start - Lead > now
        BY <2>1, <4>1 DEF Wanted
      <4> QED  BY <2>1, <4>2 DEF Wanted
    <3>2. Queued(s)
      BY <1>2, <3>1 DEF Promises, Promised, WillAdd, Serves
    <3> QED  BY <2>1, <3>2 DEF Queued, Serves
  <2>3. OneRequest' /\ OneBoot'
    BY <1>2, <2>1 DEF OneRequest, AdmAlone, OneBoot, BootAlone
  <2> QED  BY <1>4, <2>2, <2>3
<1>6. ASSUME NEW s \in Sessions, NEW r \in Rows, Create(s, r) PROVE Kept'
  <2>1. /\ Leave(None, "removing", s, r) /\ now' = now /\ adm' = adm /\ boot' = boot
        /\ row' = [row EXCEPT ![s] = r]
    BY <1>6 DEF Create, Remind
  <2>2. row'[s] = r /\ \A x \in Sessions \ {s} : row'[x] = row[x]
    BY <1>0, <2>1 DEF TypeOK
  <2>3. Promises'
    BY <1>0, <1>2, <1>3, <2>1, <2>2, PromisesAfterLeave DEF Serves
  <2>4. OneRequest' /\ OneBoot'
    BY <1>2, <2>1 DEF OneRequest, AdmAlone, OneBoot, BootAlone
  <2> QED  BY <1>4, <2>3, <2>4
<1>7. ASSUME NEW a \in Admins, NEW z, adm' = [adm EXCEPT ![a] = z], z \in AdminSlot,
             z.pc \in {"saving", "savingText", "status", "removing"},
             z.pc = "savingText" => z.row = row[z.session],
             UNCHANGED <<now, row, chore, boot>>
      PROVE  Kept'
  <2>1. Promises'
    BY <1>3, <1>7, PromisesStand
  <2>2. adm'[a] = z /\ \A b \in Admins \ {a} : adm'[b] = NoAdmin
    BY <1>0, <1>2, <1>7 DEF TypeOK
  <2>3. OneRequest'
    BY <1>2, <1>7, <2>2 DEF OneRequest, AdmAlone, ChoresIdle
  <2>4. OneBoot'
    BY <1>2, <1>7 DEF OneBoot, BootAlone
  <2> QED  BY <1>4, <2>1, <2>3, <2>4
<1>8. ASSUME NEW a \in Admins, NEW s \in Sessions, NEW start \in Starts \cup {None},
             NEW status \in Statuses \cup {None}, UpdateRead(a, s, start, status)
      PROVE  Kept'
  <2>1. PICK r : r = IF start = None THEN row[s] ELSE [row[s] EXCEPT !.start = start]
    OBVIOUS
  <2>2. PICK z : z = [pc |-> IF start = None THEN "savingText" ELSE "saving", session |-> s,
                      row |-> r, status |-> status]
    OBVIOUS
  <2>3. r \in Rows
    BY <1>0, <1>8, <2>1 DEF UpdateRead, TypeOK, Rows
  <2>4. z \in AdminSlot
    BY <2>2, <2>3, NoneIsNoRow DEF AdminSlot, AdminType
  <2>5. z.pc \in {"saving", "savingText"} /\ (z.pc = "savingText" => z.row = row[z.session])
    BY <2>1, <2>2
  <2>6. adm' = [adm EXCEPT ![a] = z] /\ UNCHANGED <<now, row, chore, boot>>
    BY <1>8, <2>1, <2>2 DEF UpdateRead, AdmTo, tables
  <2> QED  BY <1>7, <2>4, <2>5, <2>6
<1>9. ASSUME NEW a \in Admins, NEW s \in Sessions, NEW status \in Statuses, SetStatus(a, s, status)
      PROVE  Kept'
  <2>1. PICK z : z = [NoAdmin EXCEPT !.pc = "status", !.session = s, !.status = status]
    OBVIOUS
  <2>2. z \in AdminSlot /\ z.pc = "status"
    BY <2>1, NoneIsNoRow DEF NoAdmin, AdminSlot, AdminType
  <2>3. adm' = [adm EXCEPT ![a] = z] /\ UNCHANGED <<now, row, chore, boot>>
    BY <1>9, <2>1 DEF SetStatus, AdmTo, tables
  <2> QED  BY <1>7, <2>2, <2>3
<1>10. ASSUME NEW a \in Admins, NEW s \in Sessions, RemoveRead(a, s) PROVE Kept'
  <2>1. PICK z : z = [NoAdmin EXCEPT !.pc = "removing", !.session = s]
    OBVIOUS
  <2>2. z \in AdminSlot /\ z.pc = "removing"
    BY <2>1, NoneIsNoRow DEF NoAdmin, AdminSlot, AdminType
  <2>3. adm' = [adm EXCEPT ![a] = z] /\ UNCHANGED <<now, row, chore, boot>>
    BY <1>10, <2>1 DEF RemoveRead, AdmTo, tables
  <2> QED  BY <1>7, <2>2, <2>3
<1>11. ASSUME NEW b \in Boots, BootRead(b) PROVE Kept'
  <2>1. PICK z : z = [pc |-> "issuing", todo |-> {<<s, row[s]>> : s \in Upcoming}]
    OBVIOUS
  <2>2. boot' = [boot EXCEPT ![b] = z] /\ UNCHANGED <<now, row, chore, adm>>
    BY <1>11, <2>1 DEF BootRead, tables
  <2>3. boot'[b] = z /\ \A c \in Boots \ {b} : boot'[c] = NoBoot
    BY <1>0, <1>2, <2>2 DEF TypeOK
  <2>4. Promises'
    BY <1>3, <2>2, PromisesStand
  <2>5. OneRequest'
    BY <1>2, <2>2 DEF OneRequest, AdmAlone
  <2>6. OneBoot'
    BY <1>2, <2>1, <2>2, <2>3 DEF OneBoot, BootAlone, Serves
  <2> QED  BY <1>4, <2>4, <2>5, <2>6
<1> QED  BY <1>5, <1>6, <1>8, <1>9, <1>10, <1>11

(* The requests that are under way.                                         *)
LEMMA KeptAdmin ==
  ASSUME RingInv, Calm, Kept, NEW a \in Admins, AdminStep(a)
  PROVE  Kept'
<1> USE DEF Kept
<1>0. TypeOK
  BY DEF RingInv
<1>1. adm[a].pc # "idle" /\ adm[a] # NoAdmin
  BY DEF AdminStep, UpdateSave, SetStatusRead, SetStatusSave, RemoveMarks, RemoveRow, NoAdmin
<1>2. PICK s \in Sessions : s = adm[a].session
  BY <1>0, <1>1 DEF TypeOK, AdminSlot, AdminType
<1>3. UNCHANGED <<now, job, boot, worker>>
  BY DEF AdminStep, UpdateSave, SetStatusRead, SetStatusSave, RemoveMarks, RemoveRow, tables, slots
<1>4. InHand' /\ WorkerAlone'
  BY <1>1, <1>3, WorkersStand DEF Settled
<1>5. /\ \A b \in Admins \ {a} : adm[b] = NoAdmin
      /\ \A b \in Boots : boot[b] = NoBoot
      /\ adm[a].pc \in {"saving", "savingText", "removing", "removingRow"} => ChoresIdle
      /\ adm[a].pc = "savingText" => adm[a].row = row[s]
      /\ adm[a].pc = "savingStatus" =>
           row[s] # None /\ adm[a].row = [row[s] EXCEPT !.status = adm[a].status]
      /\ \A c \in Chores : chore[c] # NoChore =>
           /\ chore[c].by = a /\ chore[c].session = s /\ chore[c].row = row[s]
           /\ chore[c].pc \in {"removing", "adding"} /\ ~chore[c].behind
           /\ adm[a].status # chore[c].row.status
      /\ \A c, d \in Chores : chore[c] # NoChore /\ chore[d] # NoChore => c = d
  BY <1>1, <1>2 DEF OneRequest, AdmAlone
<1>6. OneBoot'
  BY <1>3, <1>5 DEF OneBoot, BootAlone
<1>7. ASSUME NEW z, adm' = [adm EXCEPT ![a] = z] PROVE adm'[a] = z /\ \A b \in Admins \ {a} : adm'[b] = NoAdmin
  BY <1>0, <1>5, <1>7 DEF TypeOK
<1>8. ASSUME adm' = [adm EXCEPT ![a] = NoAdmin] PROVE OneRequest'
  <2>1. \A b \in Admins : adm'[b] = NoAdmin
    BY <1>7, <1>8
  <2> QED  BY <2>1 DEF OneRequest, AdmAlone
<1>9. ASSUME NEW r, row' = [row EXCEPT ![s] = r] PROVE row'[s] = r /\ \A x \in Sessions \ {s} : row'[x] = row[x]
  BY <1>0, <1>9 DEF TypeOK
<1>10. CASE UpdateSave(a)
  <2>1. adm[a].pc \in {"saving", "savingText"} /\ ChoresIdle
    BY <1>5, <1>10 DEF UpdateSave
  <2>2. PICK r \in Rows : r = adm[a].row
    BY <1>0, <2>1 DEF TypeOK, AdminSlot, AdminType
  <2>3. row' = [row EXCEPT ![s] = r]
    BY <1>2, <1>10, <2>2 DEF UpdateSave
  <2>4. row'[s] = r /\ \A x \in Sessions \ {s} : row'[x] = row[x]
    BY <1>9, <2>3
  <2>5. PICK z : z = IF adm[a].status \in {None, r.status} THEN NoAdmin
                     ELSE [NoAdmin EXCEPT !.pc = "status", !.session = s, !.status = adm[a].status]
    OBVIOUS
  <2>6. adm' = [adm EXCEPT ![a] = z]
    BY <1>2, <1>10, <2>2, <2>5 DEF UpdateSave, AdmTo
  <2>7. adm'[a] = z /\ \A b \in Admins \ {a} : adm'[b] = NoAdmin
    BY <1>7, <2>6
  <2>8. /\ z = NoAdmin \/ (z.pc = "status" /\ z.session = s /\ z.status = adm[a].status /\ adm[a].status # r.status)
    BY <2>5 DEF NoAdmin
  <2>9. CASE adm[a].pc = "saving"
    <3>1. Leave(a, "removing", s, r)
      BY <1>2, <1>10, <2>2, <2>9 DEF UpdateSave, Remind
    <3>2. Promises'
      BY <1>0, <1>3, <2>1, <2>4, <3>1, PromisesAfterLeave DEF Serves, ChoresIdle
    <3>3. PICK c \in Chores :
            /\ chore'[c].pc = "removing" /\ chore'[c].session = s /\ chore'[c].row = r /\ chore'[c].by = a
            /\ ~(\E d \in Chores : Sent(d) /\ chore[d].by = a) => ~chore'[c].behind
            /\ \A d \in Chores \ {c} : chore'[d] = chore[d]
      BY <1>0, <3>1, LeftBehind
    <3>4. \A d \in Chores : ~Sent(d)
      BY <2>1 DEF ChoresIdle, Sent, NoChore
    <3>5. \A d \in Chores : chore'[d] # NoChore => d = c
      BY <2>1, <3>3 DEF ChoresIdle
    <3>6. OneRequest'
      BY <1>3, <1>5, <2>4, <2>7, <2>8, <3>3, <3>4, <3>5 DEF OneRequest, AdmAlone
    <3> QED  BY <1>4, <1>6, <3>2, <3>6
  <2>10. CASE adm[a].pc = "savingText"
    <3>1. chore' = chore
      BY <1>10, <2>10 DEF UpdateSave
    <3>2. row' = row
      BY <1>0, <1>5, <2>2, <2>3, <2>10 DEF TypeOK
    <3>3. Promises'
      BY <1>3, <3>1, <3>2, PromisesStand
    <3>4. OneRequest'
      BY <1>3, <1>5, <2>1, <2>7, <2>8, <3>1 DEF OneRequest, AdmAlone, ChoresIdle
    <3> QED  BY <1>4, <1>6, <3>3, <3>4
  <2> QED  BY <2>1, <2>9, <2>10
<1>11. CASE SetStatusRead(a)
  <2>1. UNCHANGED <<row, chore>> /\ adm[a].pc = "status"
    BY <1>11 DEF SetStatusRead, tables
  <2>2. Promises'
    BY <1>3, <2>1, PromisesStand
  <2>3. CASE row[s] = None
    <3>1. OneRequest'
      BY <1>2, <1>8, <1>11, <2>3 DEF SetStatusRead, AdmTo
    <3> QED  BY <1>4, <1>6, <2>2, <3>1
  <2>4. CASE row[s] # None
    <3>1. PICK r : r = [row[s] EXCEPT !.status = adm[a].status]
      OBVIOUS
    <3>2. PICK z : z = [adm[a] EXCEPT !.pc = "savingStatus", !.row = r]
      OBVIOUS
    <3>3. z.pc = "savingStatus" /\ z.row = r /\ z.session = s /\ z.status = adm[a].status
      BY <1>0, <1>2, <3>2 DEF TypeOK, AdminSlot, AdminType
    <3>4. adm' = [adm EXCEPT ![a] = z]
      BY <1>2, <1>11, <2>4, <3>1, <3>2 DEF SetStatusRead, AdmTo
    <3>5. adm'[a] = z /\ \A b \in Admins \ {a} : adm'[b] = NoAdmin
      BY <1>7, <3>4
    <3>6. OneRequest'
      BY <1>3, <1>5, <2>1, <2>4, <3>1, <3>3, <3>5 DEF OneRequest, AdmAlone
    <3> QED  BY <1>4, <1>6, <2>2, <3>6
  <2> QED  BY <2>3, <2>4
<1>12. CASE SetStatusSave(a)
  <2>1. adm[a].pc = "savingStatus" /\ adm' = [adm EXCEPT ![a] = NoAdmin]
    BY <1>12 DEF SetStatusSave, AdmTo
  <2>2. PICK r \in Rows : r = adm[a].row
    BY <1>0, <2>1 DEF TypeOK, AdminSlot, AdminType
  <2>3. row' = [row EXCEPT ![s] = r]
    BY <1>2, <1>12, <2>2 DEF SetStatusSave
  <2>4. row'[s] = r /\ \A x \in Sessions \ {s} : row'[x] = row[x]
    BY <1>9, <2>3
  <2>5. r.status = adm[a].status
    <3>1. row[s] \in Rows /\ r = [row[s] EXCEPT !.status = adm[a].status]
      BY <1>0, <1>5, <2>1, <2>2 DEF TypeOK
    <3> QED  BY <3>1 DEF Rows
  <2>6. Promises'
    <3>1. CASE r.status = "scheduled"
      <4>1. Leave(a, "removing", s, r)
        BY <1>2, <1>12, <2>2, <3>1 DEF SetStatusSave, Remind
      <4>2. \A d \in Chores : Serves(d, s) =>
              /\ chore[d].pc \in {"removing", "adding"} /\ chore[d].row.status # "scheduled"
              /\ chore[d].by = a /\ ~chore[d].behind
        BY <1>5, <2>5, <3>1 DEF Serves
      <4> QED  BY <1>0, <1>3, <2>4, <4>1, <4>2, PromisesAfterLeave
    <3>2. CASE r.status # "scheduled"
      <4>1. Leave(a, "cancelling", s, None)
        BY <1>2, <1>12, <2>2, <3>2 DEF SetStatusSave, CancelReminder
      <4> QED  BY <1>0, <1>3, <2>4, <3>2, <4>1, PromisesAfterLeave
    <3> QED  BY <3>1, <3>2
  <2> QED  BY <1>4, <1>6, <1>8, <2>1, <2>6
<1>13. CASE RemoveMarks(a)
  <2>1. UNCHANGED <<row, chore>> /\ adm[a].pc = "removing"
    BY <1>13 DEF RemoveMarks, tables
  <2>2. Promises'
    BY <1>3, <2>1, PromisesStand
  <2>3. PICK z : z = [adm[a] EXCEPT !.pc = "removingRow"]
    OBVIOUS
  <2>4. z.pc = "removingRow"
    BY <1>0, <2>3 DEF TypeOK, AdminSlot, AdminType
  <2>5. adm' = [adm EXCEPT ![a] = z]
    BY <1>13, <2>3 DEF RemoveMarks, AdmTo
  <2>6. adm'[a] = z /\ \A b \in Admins \ {a} : adm'[b] = NoAdmin
    BY <1>7, <2>5
  <2>7. OneRequest'
    BY <1>3, <1>5, <2>1, <2>4, <2>6 DEF OneRequest, AdmAlone, ChoresIdle
  <2> QED  BY <1>4, <1>6, <2>2, <2>7
<1>14. CASE RemoveRow(a)
  <2>1. /\ adm' = [adm EXCEPT ![a] = NoAdmin] /\ row' = [row EXCEPT ![s] = None]
        /\ Leave(a, "cancelling", s, None)
    BY <1>2, <1>14 DEF RemoveRow, AdmTo, CancelReminder
  <2>2. row'[s] = None /\ \A x \in Sessions \ {s} : row'[x] = row[x]
    BY <1>9, <2>1
  <2>3. Promises'
    BY <1>0, <1>3, <2>1, <2>2, PromisesAfterLeave
  <2> QED  BY <1>4, <1>6, <1>8, <2>1, <2>3
<1> QED  BY <1>10, <1>11, <1>12, <1>13, <1>14 DEF AdminStep

(* The chores: those that give way send what they remove before the one     *)
(* that adds, and add nothing.                                              *)
LEMMA KeptChore ==
  ASSUME RingInv, Calm, Kept, NEW c \in Chores, ChoreStep(c)
  PROVE  Kept'
<1> USE DEF Kept
<1>0. TypeOK
  BY DEF RingInv
<1>1. chore[c].pc \in {"removing", "cancelling", "adding"} /\ chore[c] # NoChore
  BY DEF ChoreStep, ChoreRemove, ChoreAdd, Sent, NoChore
<1>2. PICK s \in Sessions : s = chore[c].session
  BY <1>0, <1>1 DEF TypeOK, ChoreSlot, ChoreType
<1>3. UNCHANGED <<now, row, adm, boot, worker>>
  BY DEF ChoreStep, ChoreRemove, ChoreAdd, tables
<1>4. \A w \in Workers : worker[w] = NoWorker
  BY <1>1 DEF WorkerAlone, Settled
<1>5. \A x \in Sessions : job[x] # NoJob => job[x].state # "active"
  BY <1>4 DEF InHand
<1>6. /\ \A d \in Chores \ {c} : chore'[d] = chore[d]
      /\ \/ chore'[c] = NoChore
         \/ /\ chore[c].pc = "removing" /\ chore'[c].pc = "adding" /\ chore'[c] # NoChore
            /\ chore'[c].session = s /\ chore'[c].row = chore[c].row
            /\ chore'[c].by = chore[c].by /\ chore'[c].behind = chore[c].behind
  <2>1. CASE ChoreAdd(c) \/ chore[c].pc = "cancelling"
    <3>1. chore' = [chore EXCEPT ![c] = NoChore]
      BY <2>1 DEF ChoreStep, ChoreRemove, ChoreAdd, Sent
    <3> QED  BY <1>0, <3>1 DEF TypeOK
  <2>2. CASE ~ChoreAdd(c) /\ chore[c].pc # "cancelling"
    <3>1. PICK z : z = [chore[c] EXCEPT !.pc = "adding"]
      OBVIOUS
    <3>2. chore' = [chore EXCEPT ![c] = z] /\ chore[c].pc = "removing"
      BY <2>2, <3>1 DEF ChoreStep, ChoreRemove, Sent
    <3>3. /\ z.pc = "adding" /\ z.session = s /\ z.row = chore[c].row /\ z.by = chore[c].by
          /\ z.behind = chore[c].behind
      BY <1>0, <1>2, <3>1 DEF TypeOK, ChoreSlot, ChoreType
    <3>4. chore'[c] = z /\ \A d \in Chores \ {c} : chore'[d] = chore[d]
      BY <1>0, <3>2 DEF TypeOK
    <3> QED  BY <3>2, <3>3, <3>4 DEF NoChore
  <2> QED  BY <2>1, <2>2
<1>7. ChoreRemove(c) => job'[s] = NoJob /\ \A x \in Sessions \ {s} : job'[x] = job[x]
  BY <1>0, <1>2, <1>5 DEF ChoreRemove, TypeOK
<1>8. ChoreAdd(c) =>
        /\ \A x \in Sessions \ {s} : job'[x] = job[x]
        /\ job'[s] = IF chore[c].row.status = "scheduled" /\ chore[c].row.start - Lead > now /\ job[s] = NoJob
                     THEN Job(chore[c].row.start) ELSE job[s]
  BY <1>0, <1>2 DEF ChoreAdd, TypeOK
<1>9. InHand'
  <2>1. \A x \in Sessions : job'[x] # NoJob => job'[x].state # "active"
    BY <1>2, <1>5, <1>7, <1>8 DEF ChoreStep, Job
  <2> QED  BY <2>1 DEF InHand
<1>10. WorkerAlone'
  BY <1>3, <1>4 DEF WorkerAlone
<1>11. OneRequest'
  <2> SUFFICES ASSUME NEW a \in Admins, adm[a] # NoAdmin PROVE AdmAlone(a)'
    BY <1>3 DEF OneRequest, AdmAlone
  <2>1. AdmAlone(a)
    BY DEF OneRequest
  <2>2. \A d \in Chores : chore'[d] # NoChore => chore[d] # NoChore
    BY <1>1, <1>6
  <2>3. adm[a].pc \notin {"saving", "savingText", "removing", "removingRow"}
    BY <1>1, <2>1 DEF AdmAlone, ChoresIdle
  <2>4. \A d \in Chores : chore'[d] # NoChore =>
         /\ chore'[d].by = a /\ chore'[d].session = adm[a].session /\ chore'[d].row = row[adm[a].session]
         /\ chore'[d].pc \in {"removing", "adding"} /\ ~chore'[d].behind
         /\ adm[a].status # chore'[d].row.status
    BY <1>1, <1>2, <1>6, <2>1 DEF AdmAlone
  <2> QED  BY <1>3, <2>1, <2>2, <2>3, <2>4 DEF AdmAlone
<1>12. OneBoot'
  BY <1>1, <1>2, <1>3, <1>6 DEF OneBoot, BootAlone, Serves
<1>13. Promises'
  <2> SUFFICES ASSUME NEW x \in Sessions, Wanted(x)
               PROVE  Queued(x)' \/ \E e \in Chores : WillAdd(e, x)'
    BY <1>3 DEF Promises, Promised, Wanted
  <2>1. ASSUME NEW d \in Chores, Serves(d, x)' PROVE Serves(d, x)
    BY <1>1, <1>2, <1>6, <2>1 DEF Serves
  <2>2. ASSUME NEW d \in Chores, NEW e \in Chores, Serves(d, x)', GivesWay(d, e), e # c
        PROVE  GivesWay(d, e)'
    BY <1>1, <1>6, <2>2 DEF GivesWay, Sent, Serves, NoChore
  <2>3. CASE Queued(x)
    <3>1. x = s => ChoreAdd(c)
      BY <1>1, <1>2, <2>3 DEF Queued, Serves, ChoreStep, ChoreRemove, Sent
    <3>2. Job(row[x].start) # NoJob
      <4>1. row[x].start \in Starts
        BY <1>0 DEF Wanted, TypeOK, Rows
      <4>2. Job(row[x].start) \in JobType
        BY <4>1 DEF Job, JobType
      <4> QED  BY <4>2, NoneIsNoRow DEF NoJob
    <3>3. job'[x] = job[x]
      BY <1>7, <1>8, <2>3, <3>1, <3>2 DEF Queued, ChoreStep
    <3>4. \A d \in Chores : Serves(d, x)' => chore'[d].pc = "adding"
      BY <1>6, <2>1, <2>3 DEF Queued, Serves
    <3> QED  BY <1>3, <2>3, <3>3, <3>4 DEF Queued
  <2>4. ASSUME NEW e \in Chores, WillAdd(e, x), e # c
        PROVE  WillAdd(e, x)'
    <3>1. Serves(e, x)' /\ chore'[e] = chore[e]
      BY <1>6, <2>4 DEF WillAdd, Serves
    <3>2. \A d \in Chores \ {e} : Serves(d, x)' => GivesWay(d, e)'
      BY <2>1, <2>2, <2>4 DEF WillAdd
    <3>3. chore[e].pc = "adding" => job'[x] = NoJob
      <4>1. x = s => chore[c].pc \in {"removing", "adding"} /\ chore[c].row.status # "scheduled"
        BY <1>1, <1>2, <2>4 DEF WillAdd, GivesWay, Serves
      <4> QED  BY <1>7, <1>8, <2>4, <4>1 DEF WillAdd, ChoreStep
    <3> QED  BY <1>3, <2>4, <3>1, <3>2, <3>3 DEF WillAdd
  <2>5. CASE WillAdd(c, x)
    <3>1. x = s /\ chore[c].row = row[x] /\ chore[c].pc \in {"removing", "adding"}
      BY <1>2, <2>5 DEF WillAdd, Serves
    <3>2. CASE ChoreRemove(c)
      <4>1. chore[c].pc = "removing" /\ chore'[c].pc = "adding" /\ Serves(c, x)' /\ chore'[c].row = row[x]
        <5>1. chore[c].pc = "removing"
          BY <3>1, <3>2 DEF ChoreRemove, Sent
        <5>2. chore' = [chore EXCEPT ![c] = [chore[c] EXCEPT !.pc = "adding"]]
          BY <3>2, <5>1 DEF ChoreRemove
        <5>3. chore'[c].pc = "adding"
          BY <1>0, <5>2 DEF TypeOK, ChoreSlot, ChoreType
        <5> QED  BY <1>6, <3>1, <5>1, <5>3 DEF Serves, NoChore
      <4>2. \A d \in Chores \ {c} : Serves(d, x)' => GivesWay(d, c)'
        <5> SUFFICES ASSUME NEW d \in Chores \ {c}, Serves(d, x)' PROVE GivesWay(d, c)'
          OBVIOUS
        <5>1. GivesWay(d, c)
          BY <2>1, <2>5 DEF WillAdd
        <5>2. ~Sent(d)
          BY <3>2, <5>1 DEF GivesWay, ChoreRemove
        <5> QED  BY <1>6, <5>1, <5>2 DEF GivesWay, Sent
      <4> QED  BY <1>3, <1>7, <3>1, <3>2, <4>1, <4>2 DEF WillAdd
    <3>3. CASE ChoreAdd(c)
      <4>1. chore[c].pc = "adding" /\ job[s] = NoJob
        BY <2>5, <3>1, <3>3 DEF ChoreAdd, WillAdd
      <4>2. job'[s] = Job(row[x].start)
        BY <1>8, <3>1, <3>3, <4>1 DEF Wanted
      <4>3. chore'[c] = NoChore
        BY <1>6, <4>1
      <4>4. \A d \in Chores : Serves(d, x)' => chore'[d].pc = "adding"
        <5> SUFFICES ASSUME NEW d \in Chores, Serves(d, x)' PROVE chore'[d].pc = "adding"
          OBVIOUS
        <5>1. d # c
          BY <4>3 DEF Serves
        <5>2. GivesWay(d, c) /\ ~Sent(c)
          BY <2>1, <2>5, <4>1, <5>1 DEF WillAdd, Sent
        <5> QED  BY <1>6, <5>1, <5>2 DEF GivesWay, Sent
      <4> QED  BY <1>3, <3>1, <4>2, <4>4 DEF Queued
    <3> QED  BY <3>2, <3>3 DEF ChoreStep
  <2> QED  BY <2>3, <2>4, <2>5 DEF Promises, Promised
<1> QED  BY <1>9, <1>10, <1>11, <1>12, <1>13

(* The re-issuing: what is left of it is as the rows are.                   *)
LEMMA KeptBoot ==
  ASSUME RingInv, Calm, Kept, NEW b \in Boots, BootIssue(b)
  PROVE  Kept'
<1> USE DEF Kept
<1>0. TypeOK
  BY DEF RingInv
<1>1. boot[b].pc = "issuing" /\ boot[b] # NoBoot
  BY DEF BootIssue, NoBoot
<1>2. /\ \A a \in Admins : adm[a] = NoAdmin
      /\ \A c \in Boots \ {b} : boot[c] = NoBoot
      /\ \A sr \in boot[b].todo : sr[2] = row[sr[1]] /\ \A c \in Chores : ~Serves(c, sr[1])
  BY <1>1 DEF OneBoot, BootAlone
<1>3. UNCHANGED <<now, row, job, adm, worker>>
  BY DEF BootIssue, tables
<1>4. InHand' /\ WorkerAlone'
  BY <1>1, <1>3, WorkersStand DEF Settled
<1>5. OneRequest'
  BY <1>2, <1>3 DEF OneRequest, AdmAlone
<1>6. PICK sr \in boot[b].todo :
        /\ Leave(b, "removing", sr[1], sr[2])
        /\ boot' = [boot EXCEPT ![b] = IF boot[b].todo \ {sr} = {} THEN NoBoot
                                       ELSE [boot[b] EXCEPT !.todo = boot[b].todo \ {sr}]]
  BY DEF BootIssue, Remind
<1>7. boot[b].todo \subseteq Sessions \X Rows
  BY <1>0 DEF TypeOK, BootSlot
<1>8. PICK s \in Sessions, r \in Rows : s = sr[1] /\ r = sr[2] /\ sr = <<s, r>>
  BY <1>7
<1>9. Leave(b, "removing", s, r) /\ r = row[s] /\ \A c \in Chores : ~Serves(c, s)
  BY <1>2, <1>6, <1>8
<1>10. Promises'
  BY <1>0, <1>3, <1>9, PromisesAfterLeave
<1>11. OneBoot'
  <2>1. PICK c \in Chores : chore'[c].session = s /\ \A d \in Chores \ {c} : chore'[d] = chore[d]
    BY <1>0, <1>9, LeftBehind
  <2>2. /\ boot'[b] = NoBoot \/ boot'[b].todo = boot[b].todo \ {sr}
        /\ \A d \in Boots \ {b} : boot'[d] = NoBoot
    BY <1>0, <1>2, <1>6 DEF TypeOK, BootSlot
  <2>3. ASSUME NEW x \in boot[b].todo \ {sr} PROVE x[2] = row[x[1]] /\ \A d \in Chores : ~Serves(d, x[1])'
    <3>1. x[1] # s
      <4>1. x = <<x[1], x[2]>>
        BY <1>7
      <4> QED  BY <1>2, <1>8, <1>9, <4>1
    <3>2. PICK y : y = x[1]
      OBVIOUS
    <3>3. \A d \in Chores : ~Serves(d, y)'
      BY <1>2, <2>1, <3>1, <3>2 DEF Serves
    <3> QED  BY <1>2, <3>2, <3>3
  <2> QED  BY <1>2, <1>3, <2>2, <2>3 DEF OneBoot, BootAlone, Serves
<1> QED  BY <1>4, <1>5, <1>10, <1>11

(* A worker takes what is due, which no promise is about.                   *)
LEMMA KeptWorker ==
  ASSUME RingInv, Calm, Kept, NEW w \in Workers,
         WorkerStep(w) \/ \E s \in Sessions : WorkerTakes(w, s)
  PROVE  Kept'
<1> USE DEF Kept
<1>0. TypeOK
  BY DEF RingInv
<1>1. UNCHANGED <<now, row, adm, chore, boot>>
  BY DEF WorkerStep, WorkerReads, WorkerAsks, WorkerRings, WorkerCompletes, WorkerTakes, tables
<1>2. Settled
  <2>1. CASE WorkerStep(w)
    <3>1. worker[w] # NoWorker
      BY <2>1 DEF WorkerStep, WorkerReads, WorkerAsks, WorkerRings, WorkerCompletes, NoWorker
    <3> QED  BY <3>1 DEF WorkerAlone
  <2>2. CASE \E s \in Sessions : WorkerTakes(w, s)
    BY <2>2 DEF WorkerTakes, Calm, Resting
  <2> QED  BY <2>1, <2>2
<1>3. Settled' /\ OneRequest' /\ OneBoot'
  BY <1>1, <1>2 DEF Settled, OneRequest, AdmAlone, OneBoot, BootAlone
<1>4. ASSUME NEW s \in Sessions, Wanted(s) PROVE job[s] = Job(row[s].start)
  BY <1>2, <1>4 DEF Promises, Promised, Queued, WillAdd, Serves, Settled
<1>5. ASSUME \A s \in Sessions : Wanted(s) => job'[s] = job[s] PROVE Promises'
  <2>1. \A s \in Sessions : Wanted(s)' <=> Wanted(s)
    BY <1>1 DEF Wanted
  <2>2. \A s \in Sessions : Wanted(s) => Queued(s)'
    BY <1>1, <1>2, <1>4, <1>5 DEF Queued, Serves, Settled
  <2> QED  BY <2>1, <2>2 DEF Promises, Promised
<1>6. ASSUME NEW s \in Sessions, WorkerTakes(w, s) PROVE Kept'
  <2>1. \A v \in Workers : worker[v] = NoWorker
    BY <1>6 DEF WorkerTakes, Calm, Resting
  <2>2. PICK z : z = [pc |-> "reading", session |-> s, start |-> job[s].start]
    OBVIOUS
  <2>3. worker' = [worker EXCEPT ![w] = z] /\ Due(s) /\ job' = [job EXCEPT ![s].state = "active"]
    BY <1>6, <2>2 DEF WorkerTakes, WorkerTo
  <2>4. z # NoWorker /\ z.session = s
    BY <2>2 DEF NoWorker
  <2>5. worker'[w] = z /\ \A v \in Workers \ {w} : worker'[v] = NoWorker
    BY <1>0, <2>1, <2>3 DEF TypeOK
  <2>6. \A x \in Sessions \ {s} : job'[x] = job[x]
    BY <1>0, <2>3 DEF TypeOK
  <2>7. ~Wanted(s)
    <3> SUFFICES ASSUME Wanted(s) PROVE FALSE
      OBVIOUS
    <3>1. row[s] \in Rows /\ row[s].start - Lead > now
      BY <1>0 DEF TypeOK, Wanted
    <3>2. PICK t \in Starts : t = row[s].start
      BY <3>1 DEF Rows
    <3>3. job[s] = Job(t)
      BY <1>4, <3>2
    <3>4. job[s].start = t
      BY <3>3 DEF Job
    <3>5. t \in Int /\ Lead \in Int /\ now \in Int
      BY <1>0, ClockRuns DEF TypeOK, Clock
    <3> QED  BY <2>3, <3>1, <3>2, <3>4, <3>5 DEF Due
  <2>8. Promises'
    BY <1>5, <2>6, <2>7
  <2>9. InHand'
    BY <2>1, <2>4, <2>5, <2>6 DEF InHand
  <2>10. WorkerAlone'
    <3>1. ~Wanted(s)'
      BY <1>1, <2>7 DEF Wanted
    <3> QED  BY <1>3, <2>4, <2>5, <3>1 DEF WorkerAlone, Wanted
  <2> QED  BY <1>3, <2>8, <2>9, <2>10
<1>7. CASE WorkerReads(w) \/ WorkerAsks(w) \/ WorkerRings(w)
  <2>1. PICK pc \in {"asking", "ringing", "done"} : worker' = [worker EXCEPT ![w] = [worker[w] EXCEPT !.pc = pc]]
    BY <1>7 DEF WorkerReads, WorkerAsks, WorkerRings, WorkerTo
  <2>2. job' = job /\ worker[w] # NoWorker
    BY <1>7 DEF WorkerReads, WorkerAsks, WorkerRings, NoWorker
  <2>3. \A v \in Workers : worker'[v].session = worker[v].session
    BY <1>0, <2>1 DEF TypeOK, WorkerSlot, WorkerType
  <2>4. \A v \in Workers : (worker'[v] # NoWorker) <=> (worker[v] # NoWorker)
    <3>1. worker'[w].pc = pc /\ \A v \in Workers \ {w} : worker'[v] = worker[v]
      BY <1>0, <2>1 DEF TypeOK, WorkerSlot, WorkerType
    <3> QED  BY <2>2, <3>1 DEF NoWorker
  <2>5. Promises'
    BY <1>5, <2>2
  <2>6. InHand'
    BY <2>2, <2>3, <2>4 DEF InHand
  <2>7. WorkerAlone'
    <3> SUFFICES ASSUME NEW v \in Workers, worker'[v] # NoWorker PROVE ~Wanted(worker[v].session)'
      BY <1>3 DEF WorkerAlone
    <3>1. PICK s : s = worker[v].session
      OBVIOUS
    <3>2. ~Wanted(s)
      BY <2>4, <3>1 DEF WorkerAlone
    <3>3. ~Wanted(s)'
      BY <1>1, <3>2 DEF Wanted
    <3> QED  BY <2>3, <3>1, <3>3 DEF Wanted
  <2> QED  BY <1>3, <2>5, <2>6, <2>7
<1>8. CASE WorkerCompletes(w)
  <2>1. /\ worker[w] # NoWorker /\ worker' = [worker EXCEPT ![w] = NoWorker]
        /\ job' = [job EXCEPT ![worker[w].session] = NoJob]
    BY <1>8 DEF WorkerCompletes, WorkerTo, NoWorker
  <2>2. PICK s : s = worker[w].session
    OBVIOUS
  <2>3. ~Wanted(s)
    BY <2>1, <2>2 DEF WorkerAlone
  <2>4. \A v \in Workers \ {w} : worker'[v] = worker[v]
    BY <1>0, <2>1 DEF TypeOK
  <2>5. \A x \in Sessions : job'[x] = IF x = s THEN NoJob ELSE job[x]
    BY <1>0, <2>1, <2>2 DEF TypeOK
  <2>6. Promises'
    BY <1>5, <2>3, <2>5
  <2>7. InHand'
    <3> SUFFICES ASSUME NEW x \in Sessions, job'[x] # NoJob, job'[x].state = "active"
                 PROVE  \E v \in Workers : worker'[v] # NoWorker /\ worker'[v].session = x
      BY DEF InHand
    <3>1. x # s /\ job'[x] = job[x]
      BY <2>5
    <3>2. PICK v \in Workers : worker[v] # NoWorker /\ worker[v].session = x
      BY <3>1 DEF InHand
    <3> QED  BY <2>2, <2>4, <3>1, <3>2
  <2>8. WorkerAlone'
    <3> SUFFICES ASSUME NEW v \in Workers, worker'[v] # NoWorker PROVE ~Wanted(worker[v].session)'
      BY <1>3 DEF WorkerAlone
    <3>1. worker'[v] = worker[v]
      BY <1>0, <2>1, <2>4 DEF TypeOK
    <3>2. PICK x : x = worker[v].session
      OBVIOUS
    <3>3. ~Wanted(x)'
      BY <1>1, <3>1, <3>2 DEF Wanted, WorkerAlone
    <3> QED  BY <3>1, <3>2, <3>3 DEF Wanted
  <2> QED  BY <1>3, <2>6, <2>7, <2>8
<1> QED  BY <1>6, <1>7, <1>8 DEF WorkerStep

LEMMA KeptStep == KeptInv /\ [Next]_vars => KeptInv'
<1> SUFFICES ASSUME KeptInv, [Next]_vars PROVE KeptInv'
  OBVIOUS
<1>1. RingInv /\ RingInv'
  BY RingStep DEF KeptInv
<1>2. UNCHANGED setting
  BY DEF Next, vars, Tick, Bookmark, Unbookmark, Create, UpdateRead, SetStatus, RemoveRead,
         AdminStep, UpdateSave, SetStatusRead, SetStatusSave, RemoveMarks, RemoveRow, AdminDies,
         ChoreStep, ChoreRemove, ChoreAdd, ChoreDies, BootRead, BootIssue,
         WorkerTakes, WorkerStep, WorkerReads, WorkerAsks, WorkerRings, WorkerCompletes, WorkerDies
<1> SUFFICES ASSUME Calm, Kept PROVE Kept'
  BY <1>1, <1>2 DEF KeptInv, Calm, setting
<1>3. CASE UNCHANGED vars \/ \E s \in Sessions : Bookmark(s) \/ Unbookmark(s)
  <2>1. UNCHANGED <<now, row, job, adm, chore, boot, worker>>
    BY <1>3 DEF vars, tables, slots, Bookmark, Unbookmark
  <2>2. Promises'
    BY <2>1, PromisesStand DEF Kept
  <2>3. InHand' /\ WorkerAlone'
    BY <2>1 DEF Kept, InHand, WorkerAlone, Settled, Wanted
  <2>4. OneRequest' /\ OneBoot'
    BY <2>1 DEF Kept, OneRequest, AdmAlone, ChoresIdle, OneBoot, BootAlone, Serves
  <2> QED  BY <2>2, <2>3, <2>4 DEF Kept
<1>4. /\ \A a \in Admins : ~AdminDies(a)
      /\ \A c \in Chores : ~ChoreDies(c)
      /\ \A w \in Workers : ~WorkerDies(w)
  BY DEF Calm, AdminDies, ChoreDies, WorkerDies
<1> QED
  BY <1>1, <1>3, <1>4, KeptBegin, KeptAdmin, KeptChore, KeptBoot, KeptWorker DEF Next

LEMMA KeptHolds == Spec => []KeptInv
BY KeptInit, KeptStep, PTL DEF Spec

(* When everything is done, a session still ahead of its reminder has the   *)
(* job for its current start, whatever edits, status changes, removals and  *)
(* boots came before, in the regime where each is done before the next.     *)
THEOREM RemindersAreKept == Spec => []NoReminderLost
<1>1. KeptInv => NoReminderLost
  BY DEF KeptInv, Kept, Promises, Promised, Wanted, Queued, WillAdd, Serves, NoReminderLost,
         Resting, Settled
<1> QED  BY <1>1, KeptHolds, PTL

-----------------------------------------------------------------------------
(* A reminder that rings is true.  While a worker is busy nobody else is,   *)
(* in the calm regime: what it has read of the row still stands.            *)
Stands ==
  \A w \in Workers : worker[w].pc \in {"asking", "ringing"} =>
    row[worker[w].session] = [start |-> worker[w].start, status |-> "scheduled"]
StandsInv == KeptInv /\ (Calm => Stands)

LEMMA StandsInit == Init => StandsInv
BY KeptInit DEF StandsInv, Stands, Init, NoWorker

LEMMA StandsStep == StandsInv /\ [Next]_vars => StandsInv'
<1> SUFFICES ASSUME StandsInv, [Next]_vars PROVE StandsInv'
  OBVIOUS
<1>1. KeptInv /\ KeptInv' /\ TypeOK
  BY KeptStep DEF StandsInv, KeptInv, RingInv
<1>2. UNCHANGED setting
  BY DEF Next, vars, Tick, Bookmark, Unbookmark, Create, UpdateRead, SetStatus, RemoveRead,
         AdminStep, UpdateSave, SetStatusRead, SetStatusSave, RemoveMarks, RemoveRow, AdminDies,
         ChoreStep, ChoreRemove, ChoreAdd, ChoreDies, BootRead, BootIssue,
         WorkerTakes, WorkerStep, WorkerReads, WorkerAsks, WorkerRings, WorkerCompletes, WorkerDies
<1> SUFFICES ASSUME Calm, Kept, Stands PROVE Stands'
  BY <1>1, <1>2 DEF StandsInv, KeptInv, Calm, setting
<1>3. ASSUME NEW w \in Workers, NEW z, worker' = [worker EXCEPT ![w] = z], row' = row,
             z.pc \in {"asking", "ringing"} =>
               row[z.session] = [start |-> z.start, status |-> "scheduled"]
      PROVE  Stands'
  BY <1>1, <1>3 DEF Stands, TypeOK
<1>4. ASSUME NEW w \in Workers, NEW s \in Sessions, WorkerTakes(w, s) PROVE Stands'
  <2>1. PICK z : z = [pc |-> "reading", session |-> s, start |-> job[s].start]
    OBVIOUS
  <2>2. worker' = [worker EXCEPT ![w] = z] /\ row' = row /\ z.pc = "reading"
    BY <1>4, <2>1 DEF WorkerTakes, WorkerTo, tables
  <2> QED  BY <1>3, <2>2
<1>5. ASSUME NEW w \in Workers, WorkerStep(w) PROVE Stands'
  <2>1. row' = row
    BY <1>5 DEF WorkerStep, WorkerReads, WorkerAsks, WorkerRings, WorkerCompletes, tables
  <2>2. CASE WorkerCompletes(w)
    <3>1. PICK z : z = NoWorker
      OBVIOUS
    <3>2. worker' = [worker EXCEPT ![w] = z] /\ z.pc = "idle"
      BY <2>2, <3>1 DEF WorkerCompletes, WorkerTo, NoWorker
    <3> QED  BY <1>3, <2>1, <3>2
  <2>3. CASE WorkerReads(w) \/ WorkerAsks(w) \/ WorkerRings(w)
    <3>1. PICK pc \in {"asking", "ringing", "done"} :
            /\ worker' = [worker EXCEPT ![w] = [worker[w] EXCEPT !.pc = pc]]
            /\ pc = "asking" =>
                 row[worker[w].session] = [start |-> worker[w].start, status |-> "scheduled"]
            /\ pc = "ringing" => worker[w].pc = "asking"
      BY <2>3 DEF WorkerReads, WorkerAsks, WorkerRings, WorkerTo
    <3>2. PICK z : z = [worker[w] EXCEPT !.pc = pc]
      OBVIOUS
    <3>3. z.pc = pc /\ z.session = worker[w].session /\ z.start = worker[w].start
      BY <1>1, <3>2 DEF TypeOK, WorkerSlot, WorkerType
    <3> QED  BY <1>3, <2>1, <3>1, <3>2, <3>3 DEF Stands
  <2> QED  BY <1>5, <2>2, <2>3 DEF WorkerStep
<1>6. ASSUME worker' = worker, row' = row PROVE Stands'
  BY <1>6 DEF Stands
<1>7. ASSUME worker' = worker, \A w \in Workers : worker[w] = NoWorker PROVE Stands'
  BY <1>7 DEF Stands, NoWorker
<1>8. ASSUME NEW s \in Sessions, NEW r \in Rows, Create(s, r) PROVE Stands'
  BY <1>7, <1>8 DEF Create, MayBegin, MayTick, Calm, Resting
<1>9. ASSUME NEW a \in Admins, AdminStep(a) PROVE Stands'
  <2>1. adm[a] # NoAdmin /\ worker' = worker
    BY <1>9 DEF AdminStep, UpdateSave, SetStatusRead, SetStatusSave, RemoveMarks, RemoveRow, NoAdmin, slots
  <2>2. \A w \in Workers : worker[w] = NoWorker
    BY <2>1 DEF Kept, WorkerAlone, Settled
  <2> QED  BY <1>7, <2>1, <2>2
<1>10. ASSUME NEW w \in Workers, WorkerDies(w) PROVE Stands'
  BY <1>10 DEF WorkerDies, Calm
<1>11. ASSUME \/ Tick
              \/ \E s \in Sessions : Bookmark(s) \/ Unbookmark(s)
              \/ \E a \in Admins :
                   \/ \E s \in Sessions, start \in Starts \cup {None}, status \in Statuses \cup {None} :
                        UpdateRead(a, s, start, status)
                   \/ \E s \in Sessions, status \in Statuses : SetStatus(a, s, status)
                   \/ \E s \in Sessions : RemoveRead(a, s)
                   \/ AdminDies(a)
              \/ \E c \in Chores : ChoreStep(c) \/ ChoreDies(c)
              \/ \E b \in Boots : BootRead(b) \/ BootIssue(b)
              \/ UNCHANGED vars
       PROVE  Stands'
  <2>1. worker' = worker /\ row' = row
    BY <1>11 DEF Tick, Bookmark, Unbookmark, UpdateRead, SetStatus, RemoveRead, AdminDies,
                 ChoreStep, ChoreRemove, ChoreAdd, ChoreDies, BootRead, BootIssue, tables, slots, vars
  <2> QED  BY <1>6, <2>1
<1> QED  BY <1>4, <1>5, <1>8, <1>9, <1>10, <1>11 DEF Next

LEMMA StandsHolds == Spec => []StandsInv
BY StandsInit, StandsStep, PTL DEF Spec

(* Whoever is reminded of a start is reminded of the session as it is: one  *)
(* that has moved, gone live early or been completed rings nobody, in the   *)
(* regime where each request is done before the next.                       *)
THEOREM RingsAreTrue == Spec => RingIsTrue
<1>1. ASSUME StandsInv, [Next]_vars
      PROVE  [Calm => \A s \in Sessions, t \in Starts : rings'[s][t] # rings[s][t] =>
                row[s] = [start |-> t, status |-> "scheduled"]]_vars
  <2> SUFFICES ASSUME Next, Calm, NEW s \in Sessions, NEW t \in Starts, rings'[s][t] # rings[s][t]
               PROVE  row[s] = [start |-> t, status |-> "scheduled"]
    BY <1>1
  <2>1. PICK w \in Workers : WorkerRings(w)
    BY DEF Next, Tick, Bookmark, Unbookmark, Create, UpdateRead, SetStatus, RemoveRead,
           AdminStep, UpdateSave, SetStatusRead, SetStatusSave, RemoveMarks, RemoveRow, AdminDies,
           ChoreStep, ChoreRemove, ChoreAdd, ChoreDies, BootRead, BootIssue,
           WorkerTakes, WorkerStep, WorkerReads, WorkerAsks, WorkerCompletes, WorkerDies
  <2>2. TypeOK /\ Stands
    BY <1>1 DEF StandsInv, KeptInv, RingInv
  <2>3. worker[w].session = s /\ worker[w].start = t
    <3>1. rings' = [rings EXCEPT ![worker[w].session][worker[w].start] = @ + 1]
      BY <2>1 DEF WorkerRings
    <3> QED  BY <2>2, <3>1 DEF TypeOK
  <2> QED  BY <2>1, <2>2, <2>3 DEF Stands, WorkerRings
<1> QED  BY <1>1, StandsHolds, PTL DEF Spec, RingIsTrue
=============================================================================
